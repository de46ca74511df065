---------------------------- MODULE DerivedIndex ----------------------------
(***************************************************************************)
(* What ELF promises of an index that is derived from a source of truth    *)
(* ("Qdrant is derived and rebuildable", "Correctness is guaranteed by the *)
(* background worker"): a write of the source records a debt, the index    *)
(* only moves while a debt is recorded, and a debt is only settled when    *)
(* the index agrees with the source again.  Nothing is said of leases,     *)
(* retries, versions or of how often the index moves on the way.           *)
(***************************************************************************)
CONSTANTS
    Items,     \* what is indexed
    Values,    \* what an item may be indexed as
    Absent     \* the index entry of an item that is not indexed

VARIABLES
    source,    \* what each item should be indexed as
    index,     \* what it is indexed as
    debt,      \* items with work recorded and not yet settled
    waived     \* items whose entry the readers filter out themselves

vars == <<source, index, debt, waived>>

Entries == Values \cup {Absent}

Init ==
    /\ source = [i \in Items |-> Absent]
    /\ index = [i \in Items |-> Absent]
    /\ debt = {}
    /\ waived = {}

(* The source of some items is written, all at once: the debt of each is   *)
(* recorded with it.                                                       *)
Write(S) ==
    /\ source' \in [Items -> Entries]
    /\ waived' \subseteq Items
    /\ \A i \in Items \ S : source'[i] = source[i] /\ (i \in waived' <=> i \in waived)
    /\ debt' = debt \cup S
    /\ UNCHANGED index

(* An item lapses: from now on readers drop it whatever the index says. *)
Lapse(i) ==
    /\ waived' = waived \cup {i}
    /\ UNCHANGED <<source, index, debt>>

(* Work on a recorded debt changes the index. *)
Move(i) ==
    /\ i \in debt
    /\ \E v \in Entries : index' = [index EXCEPT ![i] = v]
    /\ UNCHANGED <<source, debt, waived>>

(* A debt is settled. *)
Settle(i) ==
    /\ i \in debt
    /\ index[i] = source[i] \/ i \in waived
    /\ debt' = debt \ {i}
    /\ UNCHANGED <<source, index, waived>>

Next ==
    \/ \E S \in SUBSET Items : Write(S)
    \/ \E i \in Items : Lapse(i) \/ Move(i) \/ Settle(i)

Spec == Init /\ [][Next]_vars
=============================================================================
