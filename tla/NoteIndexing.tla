---------------------------- MODULE NoteIndexing ----------------------------
(***************************************************************************)
(* The note index of ELF: Postgres rows are the source of truth, Qdrant    *)
(* points are derived from them by elf-worker, and the indexing outbox     *)
(* carries the debt from the one to the other.                             *)
(*                                                                         *)
(* The API side (packages/elf-service) commits a note row and its outbox   *)
(* row in one transaction that holds the note row FOR UPDATE, so each      *)
(* operation is one action.  add_note on an existing key is the exception: *)
(* it resolves the note in a first statement and locks it in a second one, *)
(* hence two actions.  The worker side (apps/elf-worker) takes one action  *)
(* per statement that another process can observe, and may fail, lose an   *)
(* answer or crash between any two of them.                                *)
(***************************************************************************)
EXTENDS Naturals, Sequences

CONSTANTS
    Notes,        \* note_id of the notes that may be written
    Workers,      \* elf-worker processes that poll the same outbox
    MaxVersion,   \* bound on the contents one note may go through
    MaxJobs,      \* bound on the outbox rows
    MaxFaults     \* bound on errors, lost answers and crashes of workers

ASSUME BoundsAssumption ==
    /\ MaxVersion \in Nat
    /\ MaxJobs \in Nat
    /\ MaxFaults \in Nat

VARIABLES
    status,       \* memory_notes.status, "none" before the row exists
    version,      \* the content of the note row; 0 before it exists
    expired,      \* notes whose expires_at has passed
    resolved,     \* notes that an add_note in flight has resolved to UPDATE
    jobs,         \* indexing_outbox, in order of insertion
    due,          \* open outbox rows whose available_at has passed
    pc,           \* what each worker does next
    held,         \* the outbox row each worker handles, 0 for none
    seen,         \* the content handle_upsert has read, 0 for none
    rows,         \* the content memory_note_chunks is cut from, 0 for none
    points,       \* the content the Qdrant points are made of
    faults,       \* errors, lost answers and crashes so far
    overtaken     \* history: restored while a DELETE job was still open

noteVars   == <<status, version, expired, resolved, overtaken>>
workerVars == <<pc, held, seen, faults>>
indexVars  == <<rows, points>>
vars == <<status, version, expired, resolved, jobs, due, pc, held, seen,
          rows, points, faults, overtaken>>

Statuses  == {"none", "active", "deprecated", "deleted"}
Inactive  == {"deprecated", "deleted"}
Ops       == {"UPSERT", "DELETE"}
JobStatus == {"PENDING", "FAILED", "DONE"}
Steps     == {"idle", "fetch", "embed", "store", "clear", "upsert", "done", "failed"}
Job       == [note : Notes, op : Ops, status : JobStatus]

(* A point carries the text and vector of a chunk row and a payload copied *)
(* from the note row: the two contents it was made from.                   *)
Point(v) == [text |-> v, meta |-> v]
NoPoint  == Point(0)

TypeOK ==
    /\ status \in [Notes -> Statuses]
    /\ version \in [Notes -> 0 .. MaxVersion]
    /\ expired \subseteq Notes
    /\ resolved \subseteq Notes
    /\ overtaken \subseteq Notes
    /\ jobs \in Seq(Job)
    /\ Len(jobs) <= MaxJobs
    /\ due \subseteq 1 .. Len(jobs)
    /\ pc \in [Workers -> Steps]
    /\ held \in [Workers -> 0 .. Len(jobs)]
    /\ \A w \in Workers : held[w] = 0 <=> pc[w] = "idle"
    /\ seen \in [Workers -> 0 .. MaxVersion]
    /\ rows \in [Notes -> 0 .. MaxVersion]
    /\ points \in [Notes -> [text : 0 .. MaxVersion, meta : 0 .. MaxVersion]]
    /\ faults \in 0 .. MaxFaults

-----------------------------------------------------------------------------
(* Reading the state.                                                      *)

note_is_active(n) == status[n] = "active" /\ n \notin expired

Open(j) == j \in 1 .. Len(jobs) /\ jobs[j].status # "DONE"

HasOpen(n, op) == \E j \in 1 .. Len(jobs) :
                     Open(j) /\ jobs[j].note = n /\ jobs[j].op = op

Init ==
    /\ status = [n \in Notes |-> "none"]
    /\ version = [n \in Notes |-> 0]
    /\ expired = {}
    /\ resolved = {}
    /\ overtaken = {}
    /\ jobs = <<>>
    /\ due = {}
    /\ pc = [w \in Workers |-> "idle"]
    /\ held = [w \in Workers |-> 0]
    /\ seen = [w \in Workers |-> 0]
    /\ rows = [n \in Notes |-> 0]
    /\ points = [n \in Notes |-> NoPoint]
    /\ faults = 0

-----------------------------------------------------------------------------
(* The API.  available_at of a new row is the clock the request read before*)
(* it waited for the note lock, and retries come back after delays of      *)
(* their own, so ORDER BY available_at does not order the rows of one note *)
(* by commit: a claim may meet any due row first.                          *)

enqueue_outbox_tx(n, op) ==
    /\ Len(jobs) < MaxJobs
    /\ jobs' = Append(jobs, [note |-> n, op |-> op, status |-> "PENDING"])
    /\ due' = due \cup {Len(jobs) + 1}

NewContent(n) ==
    /\ version[n] < MaxVersion
    /\ version' = [version EXCEPT ![n] = @ + 1]

(* A fresh note row and its UPSERT: add_note and add_event with decision    *)
(* Add, and create_promoted_memory_note.                                   *)
AddNote(n) ==
    /\ status[n] = "none"
    /\ status' = [status EXCEPT ![n] = "active"]
    /\ NewContent(n)
    /\ enqueue_outbox_tx(n, "UPSERT")
    /\ UNCHANGED <<expired, resolved, overtaken>>
    /\ UNCHANGED workerVars /\ UNCHANGED indexVars

(* update, publish_note, unpublish_note: guarded by an active, unexpired   *)
(* note under the row lock.                                                *)
UpdateNote(n) ==
    /\ note_is_active(n)
    /\ NewContent(n)
    /\ enqueue_outbox_tx(n, "UPSERT")
    /\ UNCHANGED <<status, expired, resolved, overtaken>>
    /\ UNCHANGED workerVars /\ UNCHANGED indexVars

(* add_note and add_event on an existing key: resolve_update reads an       *)
(* active, unexpired note without locking it.                              *)
ResolveKeyedUpdate(n) ==
    /\ note_is_active(n)
    /\ n \notin resolved
    /\ resolved' = resolved \cup {n}
    /\ UNCHANGED <<status, version, expired, overtaken, jobs, due>>
    /\ UNCHANGED workerVars /\ UNCHANGED indexVars

(* handle_add_note_update and persist_extracted_note_update: the note is    *)
(* locked by id alone, whatever became of its status meanwhile; a new TTL  *)
(* moves expires_at to the future.                                         *)
ApplyKeyedUpdate(n) ==
    /\ n \in resolved
    /\ resolved' = resolved \ {n}
    /\ NewContent(n)
    /\ expired' \in {expired, expired \ {n}}
    /\ enqueue_outbox_tx(n, "UPSERT")
    /\ UNCHANGED <<status, overtaken>>
    /\ UNCHANGED workerVars /\ UNCHANGED indexVars

(* handle_add_note_update, nothing to change: the transaction ends with    *)
(* neither a version nor a job.                                            *)
KeyedUpdateUnchanged(n) ==
    /\ n \in resolved
    /\ resolved' = resolved \ {n}
    /\ UNCHANGED <<status, version, expired, overtaken, jobs, due>>
    /\ UNCHANGED workerVars /\ UNCHANGED indexVars

(* update_promoted_memory_note: a reviewed consolidation proposal is applied *)
(* to a note that must be active and may have expired.                     *)
PromoteNote(n) ==
    /\ status[n] = "active"
    /\ NewContent(n)
    /\ expired' \in {expired, expired \ {n}}
    /\ enqueue_outbox_tx(n, "UPSERT")
    /\ UNCHANGED <<status, resolved, overtaken>>
    /\ UNCHANGED workerVars /\ UNCHANGED indexVars

(* delete and the Delete correction: no expiry check, deprecated notes too. *)
DeleteNote(n) ==
    /\ status[n] \in {"active", "deprecated"}
    /\ status' = [status EXCEPT ![n] = "deleted"]
    /\ enqueue_outbox_tx(n, "DELETE")
    /\ UNCHANGED <<version, expired, resolved, overtaken>>
    /\ UNCHANGED workerVars /\ UNCHANGED indexVars

(* supersede_note *)
SupersedeNote(n) ==
    /\ status[n] = "active"
    /\ status' = [status EXCEPT ![n] = "deprecated"]
    /\ enqueue_outbox_tx(n, "DELETE")
    /\ UNCHANGED <<version, expired, resolved, overtaken>>
    /\ UNCHANGED workerVars /\ UNCHANGED indexVars

(* restore_note: the content and the expires_at of an earlier snapshot come*)
(* back; the expires_at of that snapshot may have passed.                  *)
RestoreNote(n) ==
    /\ status[n] \in Inactive
    /\ status' = [status EXCEPT ![n] = "active"]
    /\ NewContent(n)
    /\ expired' \in {expired \cup {n}, expired \ {n}}
    /\ overtaken' = IF HasOpen(n, "DELETE") THEN overtaken \cup {n}
                                            ELSE overtaken \ {n}
    /\ enqueue_outbox_tx(n, "UPSERT")
    /\ UNCHANGED resolved
    /\ UNCHANGED workerVars /\ UNCHANGED indexVars

(* Time passes expires_at: no code runs. *)
Expire(n) ==
    /\ status[n] # "none"
    /\ n \notin expired
    /\ expired' = expired \cup {n}
    /\ UNCHANGED <<status, version, resolved, overtaken, jobs, due>>
    /\ UNCHANGED workerVars /\ UNCHANGED indexVars

-----------------------------------------------------------------------------
(* The worker.  process_indexing_outbox_once claims a row, handles it and  *)
(* marks it; an error on the way marks it FAILED instead.                  *)

(* claim_next_indexing_outbox_job: the row keeps its status and gets a     *)
(* lease by moving available_at 30 s ahead.                                *)
Claim(w, j) ==
    /\ pc[w] = "idle"
    /\ j \in due
    /\ jobs[j].status # "DONE"
    /\ due' = due \ {j}
    /\ held' = [held EXCEPT ![w] = j]
    /\ seen' = [seen EXCEPT ![w] = 0]
    /\ pc' = [pc EXCEPT ![w] = IF jobs[j].op = "UPSERT" THEN "fetch" ELSE "clear"]
    /\ UNCHANGED <<jobs, faults>>
    /\ UNCHANGED noteVars /\ UNCHANGED indexVars

(* Slip: the retry query only looks at PENDING rows. *)
ComesDueIfPending(j) ==
    /\ Open(j)
    /\ jobs[j].status = "PENDING"
    /\ j \notin due
    /\ due' = due \cup {j}
    /\ UNCHANGED jobs
    /\ UNCHANGED noteVars /\ UNCHANGED workerVars /\ UNCHANGED indexVars

(* The lease of a claimed row, or the backoff of a FAILED one, runs out.   *)
ComesDue(j) ==
    /\ Open(j)
    /\ j \notin due
    /\ due' = due \cup {j}
    /\ UNCHANGED jobs
    /\ UNCHANGED noteVars /\ UNCHANGED workerVars /\ UNCHANGED indexVars

(* The answer to a call that took effect arrives, or is lost and read as   *)
(* an error.                                                               *)
Answer(w, next) ==
    \/ pc' = [pc EXCEPT ![w] = next] /\ UNCHANGED faults
    \/ /\ faults < MaxFaults
       /\ faults' = faults + 1
       /\ pc' = [pc EXCEPT ![w] = "failed"]

Note(w) == jobs[held[w]].note

(* Slip: the status of the note is not looked at. *)
FetchNoteUnchecked(w) ==
    /\ pc[w] = "fetch"
    /\ pc' = [pc EXCEPT ![w] = "embed"]
    /\ seen' = [seen EXCEPT ![w] = version[Note(w)]]
    /\ UNCHANGED <<jobs, due, held, faults>>
    /\ UNCHANGED noteVars /\ UNCHANGED indexVars

(* handle_upsert reads the note row; an inactive or expired note is        *)
(* skipped and the job counts as handled.                                  *)
FetchNote(w) ==
    /\ pc[w] = "fetch"
    /\ IF note_is_active(Note(w))
       THEN /\ pc' = [pc EXCEPT ![w] = "embed"]
            /\ seen' = [seen EXCEPT ![w] = version[Note(w)]]
       ELSE /\ pc' = [pc EXCEPT ![w] = "done"]
            /\ UNCHANGED seen
    /\ UNCHANGED <<jobs, due, held, faults>>
    /\ UNCHANGED noteVars /\ UNCHANGED indexVars

(* fetch_note_fields, split_text and the embedding provider: no shared     *)
(* state is written and no lock is held meanwhile.                         *)
EmbedNote(w) ==
    /\ pc[w] = "embed"
    /\ pc' = [pc EXCEPT ![w] = "store"]
    /\ UNCHANGED <<jobs, due, held, seen, faults>>
    /\ UNCHANGED noteVars /\ UNCHANGED indexVars

(* One transaction replaces the chunk rows and their embeddings by those   *)
(* of the content that was read, current or not.                           *)
StoreRows(w) ==
    /\ pc[w] = "store"
    /\ rows' = [rows EXCEPT ![Note(w)] = seen[w]]
    /\ Answer(w, "clear")
    /\ UNCHANGED <<jobs, due, held, seen, points>>
    /\ UNCHANGED noteVars

(* delete_note_points: the first half of replace_chunks and the whole of   *)
(* handle_delete, which does not look at the note row.                     *)
delete_note_points(w) ==
    /\ pc[w] = "clear"
    /\ points' = [points EXCEPT ![Note(w)] = NoPoint]
    /\ Answer(w, IF jobs[held[w]].op = "UPSERT" THEN "upsert" ELSE "done")
    /\ UNCHANGED <<jobs, due, held, seen, rows>>
    /\ UNCHANGED noteVars

(* upsert_chunks: the second half of replace_chunks. *)
upsert_chunks(w) ==
    /\ pc[w] = "upsert"
    /\ points' = [points EXCEPT ![Note(w)] = Point(seen[w])]
    /\ Answer(w, "done")
    /\ UNCHANGED <<jobs, due, held, seen, rows>>
    /\ UNCHANGED noteVars

Release(w) ==
    /\ pc' = [pc EXCEPT ![w] = "idle"]
    /\ held' = [held EXCEPT ![w] = 0]
    /\ seen' = [seen EXCEPT ![w] = 0]

(* Slip: every open row of the note is closed with the one handled. *)
MarkDoneCoalescing(w) ==
    /\ pc[w] = "done"
    /\ jobs' = [j \in 1 .. Len(jobs) |->
                  IF jobs[j].note = Note(w) THEN [jobs[j] EXCEPT !.status = "DONE"]
                                            ELSE jobs[j]]
    /\ due' = {j \in due : jobs[j].note # Note(w)}
    /\ Release(w)
    /\ UNCHANGED faults
    /\ UNCHANGED noteVars /\ UNCHANGED indexVars

(* mark_indexing_outbox_done: by outbox_id alone, whoever holds the lease. *)
MarkDone(w) ==
    /\ pc[w] = "done"
    /\ jobs' = [jobs EXCEPT ![held[w]].status = "DONE"]
    /\ due' = due \ {held[w]}
    /\ Release(w)
    /\ UNCHANGED faults
    /\ UNCHANGED noteVars /\ UNCHANGED indexVars

(* Any call of a handler may fail before it takes effect. *)
Fail(w) ==
    /\ pc[w] \in {"fetch", "embed", "store", "clear", "upsert"}
    /\ faults < MaxFaults
    /\ faults' = faults + 1
    /\ pc' = [pc EXCEPT ![w] = "failed"]
    /\ UNCHANGED <<jobs, due, held, seen>>
    /\ UNCHANGED noteVars /\ UNCHANGED indexVars

(* Slip: a failed row is given up instead of being retried. *)
MarkFailedForGood(w) ==
    /\ pc[w] = "failed"
    /\ jobs' = [jobs EXCEPT ![held[w]].status = "DONE"]
    /\ due' = due \ {held[w]}
    /\ Release(w)
    /\ UNCHANGED faults
    /\ UNCHANGED noteVars /\ UNCHANGED indexVars

(* Slip: the row keeps the CLAIMED status of the document outbox. *)
MarkFailedClaimed(w) ==
    /\ pc[w] = "failed"
    /\ jobs' = [jobs EXCEPT ![held[w]].status = "CLAIMED"]
    /\ due' = due \ {held[w]}
    /\ Release(w)
    /\ UNCHANGED faults
    /\ UNCHANGED noteVars /\ UNCHANGED indexVars

(* mark_failed: status FAILED and available_at after a backoff, again by   *)
(* outbox_id alone.                                                        *)
MarkFailed(w) ==
    /\ pc[w] = "failed"
    /\ jobs' = [jobs EXCEPT ![held[w]].status = "FAILED"]
    /\ due' = due \ {held[w]}
    /\ Release(w)
    /\ UNCHANGED faults
    /\ UNCHANGED noteVars /\ UNCHANGED indexVars

(* The process dies, or marking the row fails and run_worker only logs it. *)
Crash(w) ==
    /\ pc[w] # "idle"
    /\ faults < MaxFaults
    /\ faults' = faults + 1
    /\ Release(w)
    /\ UNCHANGED <<jobs, due>>
    /\ UNCHANGED noteVars /\ UNCHANGED indexVars

-----------------------------------------------------------------------------
ApiStep(n) ==
    \/ AddNote(n)
    \/ UpdateNote(n)
    \/ ResolveKeyedUpdate(n)
    \/ ApplyKeyedUpdate(n)
    \/ KeyedUpdateUnchanged(n)
    \/ PromoteNote(n)
    \/ DeleteNote(n)
    \/ SupersedeNote(n)
    \/ RestoreNote(n)
    \/ Expire(n)

(* What run_worker does without outside help. *)
WorkerStep(w) ==
    \/ \E j \in 1 .. Len(jobs) : Claim(w, j)
    \/ FetchNote(w)
    \/ EmbedNote(w)
    \/ StoreRows(w)
    \/ delete_note_points(w)
    \/ upsert_chunks(w)
    \/ MarkDone(w)
    \/ MarkFailed(w)

Next ==
    \/ \E n \in Notes : ApiStep(n)
    \/ \E w \in Workers : WorkerStep(w) \/ Fail(w) \/ Crash(w)
    \/ \E j \in 1 .. Len(jobs) : ComesDue(j)

Spec == Init /\ [][Next]_vars

(* run_worker loops for ever and swallows every error; time passes, so     *)
(* leases and backoffs run out.  Nothing is assumed of the API, of faults  *)
(* or of the order of claims.                                              *)
Fairness ==
    /\ \A w \in Workers : WF_vars(WorkerStep(w))
    /\ \A j \in 1 .. MaxJobs : WF_vars(ComesDue(j))

FairSpec == Spec /\ Fairness

-----------------------------------------------------------------------------
(* Safety.                                                                 *)

(* A note that is deleted or deprecated has no points left in Qdrant       *)
(* unless a DELETE job for it is still to be handled: no interleaving of   *)
(* retries, lost answers and crashes closes the last DELETE too early or   *)
(* lets an UPSERT in flight bring the points back behind it.               *)
NoOrphanPoints ==
    \A n \in Notes :
        status[n] \in Inactive /\ points[n] # NoPoint => HasOpen(n, "DELETE")

(* The points of an active, unexpired note are made of its current content *)
(* unless an UPSERT job for it is still to be handled: a worker that reads *)
(* a content, embeds it for seconds and writes it after the next update    *)
(* never closes the job of that update.                                    *)
NoStalePoints ==
    \A n \in Notes :
        note_is_active(n) /\ points[n] \notin {NoPoint, Point(version[n])}
            => HasOpen(n, "UPSERT")

(* An active, unexpired note with no points at all has an UPSERT job still *)
(* to be handled, unless it was restored while a DELETE job was open: that *)
(* is the only way a note drops out of the index for good.                 *)
NoLostNote ==
    \A n \in Notes :
        note_is_active(n) /\ points[n] = NoPoint /\ n \notin overtaken
            => HasOpen(n, "UPSERT")

(* "Correctness is guaranteed by the background worker": without the       *)
(* exception of NoLostNote.                                                *)
NoLostNoteAtAll ==
    \A n \in Notes :
        note_is_active(n) /\ points[n] = NoPoint => HasOpen(n, "UPSERT")

(* A point never refers to a content whose chunk rows were not committed   *)
(* first: search joins the points it gets to memory_note_chunks.           *)
RowsBeforePoints == \A n \in Notes : points[n].text <= rows[n]

(* What makes the safety properties inductive when one worker runs.         *)

OtherOpen(j, n, op) == \E k \in (1 .. Len(jobs)) \ {j} :
                          Open(k) /\ jobs[k].note = n /\ jobs[k].op = op

HeldOp(w) == jobs[held[w]].op

(* The handler past its read of the note row. *)
Upserting(w) == pc[w] \in {"embed", "store", "clear", "upsert"} /\ HeldOp(w) = "UPSERT"

NoteHistory ==
    \A n \in Notes :
        /\ status[n] # "none" => version[n] # 0
        /\ status[n] = "none" => n \notin resolved
        /\ status[n] = "none" => \A j \in 1 .. Len(jobs) : jobs[j].note # n
        /\ status[n] = "active" /\ n \notin overtaken => ~HasOpen(n, "DELETE")

HeldJobs ==
    \A w \in Workers : pc[w] # "idle" =>
        /\ Open(held[w])
        /\ pc[w] \in {"fetch", "embed", "store", "upsert"} => HeldOp(w) = "UPSERT"
        /\ seen[w] <= version[Note(w)]
        /\ Upserting(w) => seen[w] # 0
        /\ pc[w] = "fetch" => seen[w] = 0

(* The worker in the middle of a job: what it has read and written so far, *)
(* and which other job covers what has changed since its read.             *)
InFlightOf(w) ==
    /\ Upserting(w) /\ status[Note(w)] \in Inactive => HasOpen(Note(w), "DELETE")
    /\ (Upserting(w) \/ (pc[w] = "done" /\ HeldOp(w) = "UPSERT"))
           /\ note_is_active(Note(w)) /\ seen[w] # version[Note(w)]
       => OtherOpen(held[w], Note(w), "UPSERT")
    /\ pc[w] = "done" /\ HeldOp(w) = "DELETE" => points[Note(w)] = NoPoint
    /\ pc[w] = "done" /\ HeldOp(w) = "UPSERT" /\ seen[w] # 0
       => points[Note(w)] = Point(seen[w])
    /\ pc[w] \in {"embed", "store"} => rows[Note(w)] <= seen[w]
    /\ pc[w] \in {"clear", "upsert"} /\ HeldOp(w) = "UPSERT" => rows[Note(w)] = seen[w]

InFlight == \A w \in Workers : pc[w] # "idle" => InFlightOf(w)

RowsArePast == \A n \in Notes : rows[n] <= version[n]

(* One elf-worker polls the outbox. *)
SingleWorker == \A v, w \in Workers : v = w

(* Every part of the argument for the safety properties at once: they hold  *)
(* because the job a worker handles stays open until the points and rows it *)
(* wrote are in place, and because whatever changed the note after the     *)
(* worker read it left a job of its own.                                   *)
IndexInv ==
    /\ NoteHistory
    /\ HeldJobs
    /\ InFlight
    /\ RowsArePast
    /\ NoOrphanPoints
    /\ NoStalePoints
    /\ NoLostNote
    /\ RowsBeforePoints

(* Action properties. *)

(* A job that was marked DONE is never handed out again: mark_failed and   *)
(* the lease do not know who holds the row.                                *)
DoneIsFinal ==
    [][\A j \in 1 .. Len(jobs) : ~Open(j) => jobs'[j].status = "DONE"]_vars

(* The chunk rows never go back to an earlier content of the note.         *)
RowsNeverGoBack == [][\A n \in Notes : rows[n] <= rows'[n]]_vars

(* Liveness. *)

(* Every outbox row is handled in the end, whatever fails a bounded number *)
(* of times on the way: nothing parks a job for ever.                      *)
EveryJobSettles ==
    \A j \in 1 .. MaxJobs : Open(j) ~> ~Open(j)

(* Once the writes stop, the index of every note that was not overtaken    *)
(* agrees with its row and stays so.                                       *)
IndexAgrees(n) ==
    IF note_is_active(n) THEN points[n] = Point(version[n]) \/ n \in overtaken
                         ELSE status[n] = "active" \/ points[n] = NoPoint

IndexConverges == <>[](\A n \in Notes : IndexAgrees(n))

-----------------------------------------------------------------------------
(* The index as DerivedIndex describes it.  The debt of a note is its open  *)
(* outbox rows; an overtaken note keeps a debt that nothing will settle.    *)

Source == [n \in Notes |-> IF status[n] = "active" THEN Point(version[n]) ELSE NoPoint]
Debt   == {n \in Notes : HasOpen(n, "UPSERT") \/ HasOpen(n, "DELETE")} \cup overtaken
Waived == {n \in Notes : status[n] = "active" /\ n \in expired}

Promise == INSTANCE DerivedIndex WITH
    Items <- Notes, Values <- {Point(v) : v \in 1 .. MaxVersion}, Absent <- NoPoint,
    source <- Source, index <- points, debt <- Debt, waived <- Waived

(* The outbox and the worker implement the derived index: Qdrant moves only *)
(* while an outbox row of the note is open, and the last open row is closed *)
(* only when Qdrant agrees with the note row or the note has expired.       *)
ImplementsDerivedIndex == Promise!Spec
=============================================================================
