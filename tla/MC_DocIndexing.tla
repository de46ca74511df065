--------------------------- MODULE MC_DocIndexing ---------------------------
(* DocIndexing on small instances. *)
EXTENDS DocIndexing
=============================================================================
