---------------------------- MODULE MC_NoteWrites ----------------------------
(* NoteWrites on small instances. *)
EXTENDS NoteWrites, TLC

CONSTANTS k, blank_k

MCKeys == {k, blank_k}

(* blank_k is k with blanks around it. *)
MCTrimmed == [key \in MCKeys |-> k]

MCNoKeys == [key \in {} |-> key]

Symmetry == Permutations(Notes) \cup Permutations(Requests) \cup Permutations(Texts)
=============================================================================
