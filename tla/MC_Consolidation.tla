-------------------------- MODULE MC_Consolidation --------------------------
(* Consolidation on small instances. *)
EXTENDS Consolidation
=============================================================================
