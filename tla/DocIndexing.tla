----------------------------- MODULE DocIndexing -----------------------------
(***************************************************************************)
(* The Source Library of ELF: documents are immutable in content, carry    *)
(* metadata that every put overwrites, and are indexed chunk by chunk.     *)
(*                                                                         *)
(* docs_put and docs_delete (packages/elf-service/src/docs) are single     *)
(* transactions on a row they lock; they enqueue one row per chunk in      *)
(* doc_indexing_outbox.  The worker differs from that of the notes: a      *)
(* claimed row becomes CLAIMED, a point is overwritten in one call instead *)
(* of being deleted and inserted, and embeddings are never deleted.        *)
(***************************************************************************)
EXTENDS Naturals, Sequences

CONSTANTS
    Docs,         \* doc_id: a function of owner, source identity and content
    ChunkCount,   \* chunks a document is split into
    Workers,      \* elf-worker processes that poll the same outbox
    MaxVersion,   \* bound on the puts of one document
    MaxJobs,      \* bound on the outbox rows
    MaxFaults     \* bound on errors, lost answers and crashes of workers

ASSUME DocAssumption ==
    /\ ChunkCount \in Nat \ {0}
    /\ MaxVersion \in Nat
    /\ MaxJobs \in Nat
    /\ MaxFaults \in Nat

VARIABLES
    status,       \* doc_documents.status, "none" before the row exists
    version,      \* its title, source_ref and updated_at, as the last put left them
    overtaken,    \* history: chunks put while a DELETE row of theirs was open
    jobs,         \* doc_indexing_outbox, in order of insertion
    due,          \* open outbox rows whose available_at has passed
    pc,           \* what each worker does next
    held,         \* the outbox row each worker handles, 0 for none
    seen,         \* the metadata handle_doc_upsert has read, 0 for none
    vectors,      \* chunks with a row in doc_chunk_embeddings
    points,       \* the metadata in the payload of the chunk's point, 0 for no point
    faults        \* errors, lost answers and crashes so far

docVars    == <<status, version, overtaken>>
workerVars == <<pc, held, seen, faults>>
indexVars  == <<vectors, points>>
vars == <<status, version, overtaken, jobs, due, pc, held, seen, vectors, points, faults>>

Indices   == 1 .. ChunkCount
Chunks    == Docs \X Indices
Ops       == {"UPSERT", "DELETE"}
JobStatus == {"PENDING", "CLAIMED", "FAILED", "DONE"}
Steps     == {"idle", "fetch", "embed", "store", "upsert", "clear", "done", "failed"}
Job       == [doc : Docs, index : Indices, op : Ops, status : JobStatus]

TypeOK ==
    /\ status \in [Docs -> {"none", "active", "deleted"}]
    /\ version \in [Docs -> 0 .. MaxVersion]
    /\ overtaken \subseteq Chunks
    /\ jobs \in Seq(Job)
    /\ Len(jobs) <= MaxJobs
    /\ due \subseteq 1 .. Len(jobs)
    /\ pc \in [Workers -> Steps]
    /\ held \in [Workers -> 0 .. Len(jobs)]
    /\ \A w \in Workers : held[w] = 0 <=> pc[w] = "idle"
    /\ seen \in [Workers -> 0 .. MaxVersion]
    /\ vectors \subseteq Chunks
    /\ points \in [Chunks -> 0 .. MaxVersion]
    /\ faults \in 0 .. MaxFaults

Open(j) == j \in 1 .. Len(jobs) /\ jobs[j].status # "DONE"

Chunk(j) == <<jobs[j].doc, jobs[j].index>>

HasOpen(c, op) == \E j \in 1 .. Len(jobs) : Open(j) /\ Chunk(j) = c /\ jobs[j].op = op

Init ==
    /\ status = [d \in Docs |-> "none"]
    /\ version = [d \in Docs |-> 0]
    /\ overtaken = {}
    /\ jobs = <<>>
    /\ due = {}
    /\ pc = [w \in Workers |-> "idle"]
    /\ held = [w \in Workers |-> 0]
    /\ seen = [w \in Workers |-> 0]
    /\ vectors = {}
    /\ points = [c \in Chunks |-> 0]
    /\ faults = 0

-----------------------------------------------------------------------------
(* The API.  available_at defaults to now(), which Postgres fixes when the *)
(* transaction begins: a request that waits for the row lock commits a row *)
(* that is older than those committed before it, so a claim may meet any   *)
(* due row first.                                                          *)

(* enqueue_doc_outbox, once per chunk of the document. *)
EnqueueChunks(d, op) ==
    /\ Len(jobs) + ChunkCount <= MaxJobs
    /\ jobs' = jobs \o [i \in Indices |->
                          [doc |-> d, index |-> i, op |-> op, status |-> "PENDING"]]
    /\ due' = due \cup (Len(jobs) + 1 .. Len(jobs) + ChunkCount)

(* docs_put: the same owner, source and content give the same doc_id, and  *)
(* ON CONFLICT DO UPDATE makes the row active again whatever it was.       *)
docs_put(d) ==
    /\ version[d] < MaxVersion
    /\ version' = [version EXCEPT ![d] = @ + 1]
    /\ status' = [status EXCEPT ![d] = "active"]
    /\ overtaken' = {c \in overtaken : c[1] # d}
                      \cup {c \in Chunks : c[1] = d /\ HasOpen(c, "DELETE")}
    /\ EnqueueChunks(d, "UPSERT")
    /\ UNCHANGED workerVars /\ UNCHANGED indexVars

(* docs_delete: a second delete changes nothing. *)
docs_delete(d) ==
    /\ status[d] = "active"
    /\ status' = [status EXCEPT ![d] = "deleted"]
    /\ EnqueueChunks(d, "DELETE")
    /\ UNCHANGED <<version, overtaken>>
    /\ UNCHANGED workerVars /\ UNCHANGED indexVars

-----------------------------------------------------------------------------
(* The worker. *)

(* Slip: rows that were claimed once are left to the worker that did. *)
ClaimUnclaimed(w, j) ==
    /\ pc[w] = "idle"
    /\ j \in due
    /\ jobs[j].status \in {"PENDING", "FAILED"}
    /\ jobs' = [jobs EXCEPT ![j].status = "CLAIMED"]
    /\ due' = due \ {j}
    /\ held' = [held EXCEPT ![w] = j]
    /\ pc' = [pc EXCEPT ![w] = IF jobs[j].op = "UPSERT" THEN "fetch" ELSE "clear"]
    /\ UNCHANGED <<seen, faults>>
    /\ UNCHANGED docVars /\ UNCHANGED indexVars

(* claim_next_doc_indexing_outbox_job *)
Claim(w, j) ==
    /\ pc[w] = "idle"
    /\ j \in due
    /\ jobs[j].status # "DONE"
    /\ jobs' = [jobs EXCEPT ![j].status = "CLAIMED"]
    /\ due' = due \ {j}
    /\ held' = [held EXCEPT ![w] = j]
    /\ pc' = [pc EXCEPT ![w] = IF jobs[j].op = "UPSERT" THEN "fetch" ELSE "clear"]
    /\ UNCHANGED <<seen, faults>>
    /\ UNCHANGED docVars /\ UNCHANGED indexVars

(* The lease of a CLAIMED row, or the backoff of a FAILED one, runs out. *)
ComesDue(j) ==
    /\ Open(j)
    /\ j \notin due
    /\ due' = due \cup {j}
    /\ UNCHANGED jobs
    /\ UNCHANGED docVars /\ UNCHANGED workerVars /\ UNCHANGED indexVars

(* The answer to a call that took effect arrives, or is lost and read as   *)
(* an error.                                                               *)
Answer(w, next) ==
    \/ pc' = [pc EXCEPT ![w] = next] /\ UNCHANGED faults
    \/ /\ faults < MaxFaults
       /\ faults' = faults + 1
       /\ pc' = [pc EXCEPT ![w] = "failed"]

(* Slip: a document that was deleted meanwhile is indexed all the same. *)
FetchChunkUnchecked(w) ==
    /\ pc[w] = "fetch"
    /\ pc' = [pc EXCEPT ![w] = "embed"]
    /\ seen' = [seen EXCEPT ![w] = version[jobs[held[w]].doc]]
    /\ UNCHANGED <<jobs, due, held, faults>>
    /\ UNCHANGED docVars /\ UNCHANGED indexVars

(* fetch_doc_chunk_index_row: chunk and document in one statement; the     *)
(* job of an inactive document counts as handled.                          *)
FetchChunk(w) ==
    /\ pc[w] = "fetch"
    /\ LET d == jobs[held[w]].doc IN
         IF status[d] = "active"
         THEN /\ pc' = [pc EXCEPT ![w] = "embed"]
              /\ seen' = [seen EXCEPT ![w] = version[d]]
         ELSE /\ pc' = [pc EXCEPT ![w] = "done"]
              /\ UNCHANGED seen
    /\ UNCHANGED <<jobs, due, held, faults>>
    /\ UNCHANGED docVars /\ UNCHANGED indexVars

(* The embedding provider; nothing is locked meanwhile. *)
EmbedChunk(w) ==
    /\ pc[w] = "embed"
    /\ pc' = [pc EXCEPT ![w] = "store"]
    /\ UNCHANGED <<jobs, due, held, seen, faults>>
    /\ UNCHANGED docVars /\ UNCHANGED indexVars

(* insert_doc_chunk_embedding, a transaction of its own. *)
StoreVector(w) ==
    /\ pc[w] = "store"
    /\ vectors' = vectors \cup {Chunk(held[w])}
    /\ Answer(w, "upsert")
    /\ UNCHANGED <<jobs, due, held, seen, points>>
    /\ UNCHANGED docVars

(* One point per chunk_id, overwritten in place. *)
upsert_qdrant_doc_chunk(w) ==
    /\ pc[w] = "upsert"
    /\ points' = [points EXCEPT ![Chunk(held[w])] = seen[w]]
    /\ Answer(w, "done")
    /\ UNCHANGED <<jobs, due, held, seen, vectors>>
    /\ UNCHANGED docVars

(* handle_doc_delete does not look at the document. *)
handle_doc_delete(w) ==
    /\ pc[w] = "clear"
    /\ points' = [points EXCEPT ![Chunk(held[w])] = 0]
    /\ Answer(w, "done")
    /\ UNCHANGED <<jobs, due, held, seen, vectors>>
    /\ UNCHANGED docVars

Release(w) ==
    /\ pc' = [pc EXCEPT ![w] = "idle"]
    /\ held' = [held EXCEPT ![w] = 0]
    /\ seen' = [seen EXCEPT ![w] = 0]

(* Slip: the job is marked by chunk instead of by outbox_id. *)
MarkDoneByChunk(w) ==
    /\ pc[w] = "done"
    /\ jobs' = [j \in 1 .. Len(jobs) |->
                  IF Chunk(j) = Chunk(held[w]) THEN [jobs[j] EXCEPT !.status = "DONE"]
                                               ELSE jobs[j]]
    /\ due' = {j \in due : Chunk(j) # Chunk(held[w])}
    /\ Release(w)
    /\ UNCHANGED faults
    /\ UNCHANGED docVars /\ UNCHANGED indexVars

(* mark_doc_indexing_outbox_done: by outbox_id alone. *)
MarkDone(w) ==
    /\ pc[w] = "done"
    /\ jobs' = [jobs EXCEPT ![held[w]].status = "DONE"]
    /\ due' = due \ {held[w]}
    /\ Release(w)
    /\ UNCHANGED faults
    /\ UNCHANGED docVars /\ UNCHANGED indexVars

(* Any call of a handler may fail before it takes effect; a delete that    *)
(* finds no collection fails as well.                                      *)
Fail(w) ==
    /\ pc[w] \in {"fetch", "embed", "store", "upsert", "clear"}
    /\ faults < MaxFaults
    /\ faults' = faults + 1
    /\ pc' = [pc EXCEPT ![w] = "failed"]
    /\ UNCHANGED <<jobs, due, held, seen>>
    /\ UNCHANGED docVars /\ UNCHANGED indexVars

(* Slip: a job that failed is given up. *)
MarkFailedForGood(w) ==
    /\ pc[w] = "failed"
    /\ jobs' = [jobs EXCEPT ![held[w]].status = "DONE"]
    /\ due' = due \ {held[w]}
    /\ Release(w)
    /\ UNCHANGED faults
    /\ UNCHANGED docVars /\ UNCHANGED indexVars

(* Slip: the row stays CLAIMED and its worker goes on holding it. *)
MarkFailedHolding(w) ==
    /\ pc[w] = "failed"
    /\ due' = due \ {held[w]}
    /\ pc' = [pc EXCEPT ![w] = "idle"]
    /\ UNCHANGED <<jobs, held, seen, faults>>
    /\ UNCHANGED docVars /\ UNCHANGED indexVars

(* mark_doc_failed *)
MarkFailed(w) ==
    /\ pc[w] = "failed"
    /\ jobs' = [jobs EXCEPT ![held[w]].status = "FAILED"]
    /\ due' = due \ {held[w]}
    /\ Release(w)
    /\ UNCHANGED faults
    /\ UNCHANGED docVars /\ UNCHANGED indexVars

(* The process dies, or marking the row fails and run_worker only logs it. *)
Crash(w) ==
    /\ pc[w] # "idle"
    /\ faults < MaxFaults
    /\ faults' = faults + 1
    /\ Release(w)
    /\ UNCHANGED <<jobs, due>>
    /\ UNCHANGED docVars /\ UNCHANGED indexVars

-----------------------------------------------------------------------------
WorkerStep(w) ==
    \/ \E j \in 1 .. Len(jobs) : Claim(w, j)
    \/ FetchChunk(w)
    \/ EmbedChunk(w)
    \/ StoreVector(w)
    \/ upsert_qdrant_doc_chunk(w)
    \/ handle_doc_delete(w)
    \/ MarkDone(w)
    \/ MarkFailed(w)

Next ==
    \/ \E d \in Docs : docs_put(d) \/ docs_delete(d)
    \/ \E w \in Workers : WorkerStep(w) \/ Fail(w) \/ Crash(w)
    \/ \E j \in 1 .. Len(jobs) : ComesDue(j)

Spec == Init /\ [][Next]_vars

(* As for the notes: run_worker swallows errors and loops, time passes. *)
FairSpec ==
    /\ Spec
    /\ \A w \in Workers : WF_vars(WorkerStep(w))
    /\ \A j \in 1 .. MaxJobs : WF_vars(ComesDue(j))

-----------------------------------------------------------------------------
(* Safety.                                                                 *)

(* A deleted document has no points left unless a DELETE row of the chunk  *)
(* is still to be handled: an UPSERT that was embedding while the document *)
(* was deleted never gets the last word.                                   *)
NoOrphanPoints ==
    \A c \in Chunks :
        status[c[1]] = "deleted" /\ points[c] # 0 => HasOpen(c, "DELETE")

(* The payload of an active document's point shows the metadata of its last *)
(* put unless an UPSERT row of the chunk is still to be handled.           *)
NoStalePoints ==
    \A c \in Chunks :
        status[c[1]] = "active" /\ points[c] \notin {0, version[c[1]]}
            => HasOpen(c, "UPSERT")

(* A chunk of an active document that has no point has an UPSERT row still *)
(* to be handled, unless the document was put again over an open DELETE.   *)
NoLostChunk ==
    \A c \in Chunks :
        status[c[1]] = "active" /\ points[c] = 0 /\ c \notin overtaken
            => HasOpen(c, "UPSERT")

(* Every point in Qdrant has its vector in Postgres. *)
VectorsBeforePoints == \A c \in Chunks : points[c] # 0 => c \in vectors

(* What makes them inductive when one worker polls the outbox.             *)

SingleWorker == \A v, w \in Workers : v = w

OtherOpen(j, c, op) ==
    \E k \in (1 .. Len(jobs)) \ {j} : Open(k) /\ Chunk(k) = c /\ jobs[k].op = op

Upserting(w) == pc[w] \in {"embed", "store", "upsert"}

DocHistory ==
    /\ \A d \in Docs : status[d] = "none" <=> version[d] = 0
    /\ \A j \in 1 .. Len(jobs) : status[jobs[j].doc] # "none"
    /\ \A c \in Chunks :
          status[c[1]] = "active" /\ c \notin overtaken => ~HasOpen(c, "DELETE")

HeldOf(w) ==
    /\ pc[w] # "idle" => Open(held[w]) /\ seen[w] <= version[jobs[held[w]].doc]
    /\ pc[w] = "fetch" \/ Upserting(w) => jobs[held[w]].op = "UPSERT"
    /\ pc[w] = "clear" => jobs[held[w]].op = "DELETE"
    /\ pc[w] \in {"idle", "fetch"} => seen[w] = 0
    /\ Upserting(w) => seen[w] # 0

HeldJobs == \A w \in Workers : HeldOf(w)

InFlightOf(w) ==
    LET c == Chunk(held[w]) IN
    /\ Upserting(w) /\ status[c[1]] = "deleted" => HasOpen(c, "DELETE")
    /\ (Upserting(w) \/ (pc[w] = "done" /\ jobs[held[w]].op = "UPSERT"))
           /\ status[c[1]] = "active" /\ seen[w] # version[c[1]]
       => OtherOpen(held[w], c, "UPSERT")
    /\ pc[w] = "done" /\ jobs[held[w]].op = "DELETE" => points[c] = 0
    /\ pc[w] = "done" /\ jobs[held[w]].op = "UPSERT" /\ seen[w] # 0
       => points[c] = seen[w]
    /\ pc[w] = "upsert" => c \in vectors

InFlight == \A w \in Workers : pc[w] # "idle" => InFlightOf(w)

(* The whole argument: a row stays open until its chunk's point is in       *)
(* place, and whatever changed the document since the worker read it left   *)
(* rows of its own.                                                         *)
IndexInv ==
    /\ DocHistory
    /\ HeldJobs
    /\ InFlight
    /\ NoOrphanPoints
    /\ NoStalePoints
    /\ NoLostChunk
    /\ VectorsBeforePoints

(* Liveness. *)

(* Every row of the document outbox is handled in the end: a row that stays *)
(* CLAIMED because its worker died is claimed again.                        *)
EveryJobSettles == \A j \in 1 .. MaxJobs : Open(j) ~> ~Open(j)

(* Once puts and deletes stop, the index agrees with the documents for ever. *)
IndexAgrees(c) ==
    CASE status[c[1]] = "active" -> points[c] = version[c[1]] \/ c \in overtaken
      [] OTHER                   -> points[c] = 0

IndexConverges == <>[](\A c \in Chunks : IndexAgrees(c))

-----------------------------------------------------------------------------
(* The document index as DerivedIndex describes it: a put or a delete writes *)
(* every chunk of the document at once, nothing is ever waived.             *)

Source == [c \in Chunks |-> IF status[c[1]] = "active" THEN version[c[1]] ELSE 0]
Debt   == {c \in Chunks : HasOpen(c, "UPSERT") \/ HasOpen(c, "DELETE")} \cup overtaken

Promise == INSTANCE DerivedIndex WITH
    Items <- Chunks, Values <- 1 .. MaxVersion, Absent <- 0,
    source <- Source, index <- points, debt <- Debt, waived <- {}

(* The document outbox and its worker implement the derived index: a point  *)
(* moves only while a row of its chunk is open, and the last open row is    *)
(* closed only when the point agrees with the document.                     *)
ImplementsDerivedIndex == Promise!Spec
=============================================================================
