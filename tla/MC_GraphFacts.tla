---------------------------- MODULE MC_GraphFacts ----------------------------
(* GraphFacts on small sets; the writers are interchangeable.                   *)
EXTENDS GraphFacts, TLC

CONSTANT Nickname   \* a surface under which no predicate is registered

Symmetry == Permutations(Writers)

(* Keeps the instance small: the second surface only names the predicate of  *)
(* the first one, and only beside fewer facts.                             *)
OnePredicate ==
    /\ predicates[Nickname] = NoPredicate
    /\ \A w \in Writers : tx[w].pc = "missed" => tx[w].rel.surface # Nickname
    /\ aliases[Nickname] # Unbound => Len(facts) < 2
=============================================================================
