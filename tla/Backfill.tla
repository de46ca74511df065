------------------------------ MODULE Backfill ------------------------------
(***************************************************************************)
(* The resumable backfill of the live baseline: it writes the documents of *)
(* a corpus as keyed notes, in batches, and records the finished ones in a *)
(* checkpoint file so that a run that was interrupted continues. The first *)
(* attempt of a run stops early on purpose (interrupt_after), the second   *)
(* one resumes, and at the end the checkpoint is verified against the      *)
(* notes. A run may die anywhere; the corpus and the notes may change      *)
(* before the next one.                                                    *)
(***************************************************************************)
EXTENDS Naturals, FiniteSets

CONSTANTS Docs,       \* source_doc, numbered in the order of the file names
          DocKeys,    \* [Docs -> key_for_doc]
          NoEntry,    \* no note, no checkpoint entry, no checkpoint
          Batch,      \* ELF_BASELINE_BACKFILL_BATCH_SIZE
          MaxText,    \* bound on the versions of a document
          MaxNoteId,  \* bound on the notes that are created
          MaxEdits    \* bound on the changes of corpus and notes from outside

ASSUME BackfillAssumption ==
  /\ MaxText \in Nat /\ MaxNoteId \in Nat
  /\ NoEntry \notin [id : Nat, text : Nat]
  /\ NoEntry \notin [id : Nat, doc : Docs, text : Nat]

VARIABLES corpus,     \* [Docs -> version of the text, 0 without the file]
          noteOf,     \* [keys -> active note with the key: [id, doc, text]]
          noteIds,    \* notes created so far
          file,       \* checkpoint file: [corpus, completed]
          run,        \* the process
          edits,      \* changes from outside so far
          disturbed,  \* somebody has removed a note since the run began
          failed      \* runs without a disturbance and with distinct keys that failed

backfillVars == <<corpus, noteOf, noteIds, file, run, edits, disturbed, failed>>

NotesKeys == {DocKeys[d] : d \in Docs}
None == [d \in Docs |-> NoEntry]
NoRun == [at |-> "idle", corpus |-> [d \in Docs |-> 0], completed |-> None, existing |-> None,
          batch |-> {}, results |-> None, budget |-> 0, attempt |-> 0]
Entry == [id : 1..MaxNoteId, text : 1..MaxText] \cup {NoEntry}
Present(c) == {d \in Docs : c[d] # 0}

(* Types. source_hash tells documents and texts apart: an entry and a note *)
(* have the hash of d if they are of d and have its text.                  *)
BackfillTypeOK ==
  /\ corpus \in [Docs -> 0..MaxText]
  /\ noteOf \in [NotesKeys -> [id : 1..MaxNoteId, doc : Docs, text : 1..MaxText] \cup {NoEntry}]
  /\ noteIds \in 0..MaxNoteId
  /\ file \in [corpus : [Docs -> 0..MaxText], completed : [Docs -> Entry]]
  /\ run.at \in {"idle", "load", "select", "prune", "batch", "add", "verify"}
  /\ run.completed \in [Docs -> Entry] /\ run.existing \in [Docs -> Entry]
  /\ failed \in BOOLEAN

BackfillInit ==
  /\ corpus = [d \in Docs |-> 0]
  /\ noteOf = [k \in NotesKeys |-> NoEntry]
  /\ noteIds = 0
  /\ file = [corpus |-> [d \in Docs |-> 0], completed |-> None]
  /\ run = NoRun
  /\ edits = 0
  /\ disturbed = FALSE
  /\ failed = FALSE

FirstOf(S, n) == {d \in S : Cardinality({e \in S : e < d}) < n}

-----------------------------------------------------------------------------
(* The world                                                               *)

Edited == edits < MaxEdits /\ edits' = edits + 1

(* A file is written, edited or removed. A run reads the corpus when it    *)
(* starts: what changes later is for the next one.                         *)
EditCorpus(d) ==
  /\ run.at = "idle"
  /\ \E n \in {0, corpus[d] + 1} \ {corpus[d]} :
       n <= MaxText /\ corpus' = [corpus EXCEPT ![d] = n]
  /\ Edited
  /\ UNCHANGED <<noteOf, noteIds, file, run, disturbed, failed>>

(* A note is deleted or deprecated, or its source_ref rewritten.           *)
RemoveNote(k) ==
  /\ noteOf[k] # NoEntry
  /\ noteOf' = [noteOf EXCEPT ![k] = NoEntry]
  /\ disturbed' = TRUE
  /\ Edited
  /\ UNCHANGED <<corpus, noteIds, file, run, failed>>

-----------------------------------------------------------------------------
(* load_corpus_notes and backfill_interrupt_after: a corpus of one is not  *)
(* interrupted.                                                            *)
run_resumable_backfill ==
  LET size == Cardinality(Present(corpus))
  IN /\ run.at = "idle" /\ size > 0
     /\ \E budget \in {0} \cup 1..(size - 1) :
          run' = [NoRun EXCEPT !.at = "load", !.corpus = corpus, !.budget = budget, !.attempt = 1]
     /\ disturbed' = FALSE
     /\ UNCHANGED <<corpus, noteOf, noteIds, file, edits, failed>>

RunGoes(r) == run' = r /\ UNCHANGED <<corpus, noteOf, noteIds, edits, disturbed, failed>>

(* A checkpoint of another corpus is put aside.                            *)
Loaded == IF file.corpus = run.corpus THEN file.completed ELSE None

load_backfill_checkpoint ==
  /\ run.at = "load"
  /\ RunGoes([run EXCEPT !.at = "select", !.completed = Loaded])
  /\ UNCHANGED file

(* The notes of the corpus by document; key_for_doc gives different        *)
(* documents the same key at times, and the later one takes the note over. *)
NotesOfDocs ==
  [d \in Docs |-> LET note == noteOf[DocKeys[d]]
                  IN IF note # NoEntry /\ note.doc = d
                       THEN [id |-> note.id, text |-> note.text] ELSE NoEntry]

load_existing_backfill_notes ==
  /\ run.at = "select"
  /\ RunGoes([run EXCEPT !.at = "prune", !.existing = NotesOfDocs])
  /\ UNCHANGED file

checkpoint_entry_valid(d, entry, existing) ==
  entry # NoEntry /\ entry.text = run.corpus[d] /\ existing[d] = entry

(* Slip: entries are kept although their notes are not there any more.     *)
keep_completed ==
  /\ run.at = "prune"
  /\ RunGoes([run EXCEPT !.at = "batch"])
  /\ UNCHANGED file

(* completed.retain; the file is written if an entry was dropped.          *)
prune_completed ==
  LET valid == [d \in Docs |-> IF checkpoint_entry_valid(d, run.completed[d], run.existing)
                                 THEN run.completed[d] ELSE NoEntry]
  IN /\ run.at = "prune"
     /\ RunGoes([run EXCEPT !.at = "batch", !.completed = valid])
     /\ file' = IF valid = run.completed THEN file
                ELSE [corpus |-> run.corpus, completed |-> valid]

Pending == {d \in Present(run.corpus) : run.completed[d] = NoEntry}

(* The next batch, within what is left until the interruption.             *)
NextBatch ==
  LET size == IF run.attempt = 1 /\ run.budget # 0 /\ run.budget < Batch THEN run.budget ELSE Batch
      batch == FirstOf(Pending, size)
  IN /\ run.at = "batch" /\ Pending # {}
     /\ RunGoes([run EXCEPT !.at = "add", !.batch = batch, !.results = None])
     /\ UNCHANGED file

(* One note of the request: in place if there is a note with the key (NONE *)
(* if nothing changes), else a new one.                                    *)
add_note ==
  \E d \in run.batch :
    LET old == noteOf[DocKeys[d]]
        id == IF old = NoEntry THEN noteIds + 1 ELSE old.id
    IN /\ run.at = "add" /\ \A e \in run.batch : d <= e
       /\ id <= MaxNoteId
       /\ noteIds' = IF old = NoEntry THEN id ELSE noteIds
       /\ noteOf' = [noteOf EXCEPT ![DocKeys[d]] = [id |-> id, doc |-> d, text |-> run.corpus[d]]]
       /\ run' = [run EXCEPT !.batch = @ \ {d},
                             !.results[d] = [id |-> id, text |-> run.corpus[d]]]
       /\ UNCHANGED <<corpus, file, edits, disturbed, failed>>

(* The response, the entries, and the file: a temporary file that is       *)
(* renamed. The first attempt ends when its budget is used up.             *)
write_backfill_checkpoint ==
  LET completed == [d \in Docs |-> IF run.results[d] # NoEntry THEN run.results[d]
                                                                ELSE run.completed[d]]
      written == Cardinality({d \in Docs : run.results[d] # NoEntry})
      stops == run.attempt = 1 /\ run.budget = written
      left == \E d \in Present(run.corpus) : completed[d] = NoEntry
  IN /\ run.at = "add" /\ run.batch = {}
     /\ RunGoes([run EXCEPT !.completed = completed, !.results = None,
                         !.at = IF stops /\ left THEN "load" ELSE "batch",
                         !.attempt = IF stops /\ left THEN 2 ELSE @,
                         !.budget = IF @ = 0 THEN 0 ELSE @ - written])
     /\ file' = [corpus |-> run.corpus, completed |-> completed]

(* The checkpoint is read again for the verification, and then the notes.  *)
reload_checkpoint ==
  /\ run.at = "batch" /\ Pending = {}
  /\ RunGoes([run EXCEPT !.at = "verify", !.completed = Loaded])
  /\ UNCHANGED file

DistinctKeys == \A d, e \in Present(run.corpus) : DocKeys[d] = DocKeys[e] => d = e

Verify ==
  /\ run.at = "verify"
  /\ failed' = (failed \/ /\ ~disturbed /\ DistinctKeys
                          /\ \E d \in Present(run.corpus) :
                               ~checkpoint_entry_valid(d, run.completed[d], NotesOfDocs))
  /\ run' = NoRun
  /\ UNCHANGED <<corpus, noteOf, noteIds, file, edits, disturbed>>

(* An error of add_note, or the process dies; the next run starts from the *)
(* file.                                                                   *)
RunDies ==
  /\ run.at # "idle"
  /\ run' = NoRun
  /\ UNCHANGED <<corpus, noteOf, noteIds, file, edits, disturbed, failed>>

BackfillNext ==
  \/ \E d \in Docs : EditCorpus(d)
  \/ \E k \in NotesKeys : RemoveNote(k)
  \/ run_resumable_backfill
  \/ load_backfill_checkpoint
  \/ load_existing_backfill_notes
  \/ prune_completed
  \/ NextBatch
  \/ add_note
  \/ write_backfill_checkpoint
  \/ reload_checkpoint
  \/ Verify
  \/ RunDies

BackfillSpec == BackfillInit /\ [][BackfillNext]_backfillVars

-----------------------------------------------------------------------------
(* A run that gets through, on documents with keys of their own and with   *)
(* nobody removing notes meanwhile, ends with a checkpoint that the notes  *)
(* confirm, whatever checkpoint, notes and corpus it started from          *)
(* (run_resumable_backfill, checkpoint_entry_valid).                       *)
ResumedRunsSucceed == ~failed
=============================================================================
