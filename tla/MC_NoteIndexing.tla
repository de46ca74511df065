-------------------------- MODULE MC_NoteIndexing --------------------------
(* NoteIndexing on small instances, and what the runs add to it. *)
EXTENDS NoteIndexing

(* Claims in order of insertion among the due rows: no request commits late *)
(* and no two rows swap their available_at, except through a lease or a     *)
(* backoff that makes a row due again later.                                *)
OldestFirst ==
    \A w \in Workers, j \in 1 .. Len(jobs) :
        held[w] = 0 /\ held'[w] = j => \A i \in due : j <= i

InOrderSpec == Init /\ [][Next /\ OldestFirst]_vars
=============================================================================
