----------------------- MODULE MC_NoteIndexingOverlap -----------------------
(* NoteIndexingOverlap on one note and two workers, which are alike.        *)
EXTENDS NoteIndexingOverlap
=============================================================================
