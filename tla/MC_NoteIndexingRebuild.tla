----------------------- MODULE MC_NoteIndexingRebuild -----------------------
(* NoteIndexingRebuild on one note and one worker.                          *)
EXTENDS NoteIndexingRebuild
=============================================================================
