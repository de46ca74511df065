-------------------------- MODULE DocIndexingProofs --------------------------
(***************************************************************************)
(* What DocIndexing guarantees for every set of documents, every number of *)
(* chunks and every bound: type correctness for any number of workers, the *)
(* safety of the index for one, and that the outbox then implements        *)
(* DerivedIndex.                                                           *)
(***************************************************************************)
EXTENDS DocIndexing, SequenceTheorems, TLAPS

(* Rewriting the status of one row keeps everything else of the outbox.    *)
LEMMA RewriteTyped ==
    ASSUME TypeOK, NEW j \in 1 .. Len(jobs), NEW s \in JobStatus,
           jobs' = [jobs EXCEPT ![j].status = s]
    PROVE  /\ jobs' \in Seq(Job)
           /\ Len(jobs') = Len(jobs)
           /\ \A i \in 1 .. Len(jobs) : i # j => jobs'[i] = jobs[i]
           /\ \A i \in 1 .. Len(jobs) : /\ jobs'[i].doc = jobs[i].doc
                                        /\ jobs'[i].index = jobs[i].index
                                        /\ jobs'[i].op = jobs[i].op
                                        /\ Chunk(i)' = Chunk(i)
           /\ jobs'[j].status = s
  <1>1. jobs[j] \in Job
    BY DEF TypeOK
  <1>2. [jobs[j] EXCEPT !.status = s] \in Job
    BY <1>1 DEF Job
  <1>3. jobs' = [jobs EXCEPT ![j] = [jobs[j] EXCEPT !.status = s]]
    OBVIOUS
  <1>4. jobs' \in Seq(Job) /\ Len(jobs') = Len(jobs)
    BY <1>2, <1>3 DEF TypeOK
  <1>5. jobs'[j] = [jobs[j] EXCEPT !.status = s]
    BY <1>3 DEF TypeOK
  <1>6. \A i \in 1 .. Len(jobs) : i # j => jobs'[i] = jobs[i]
    BY <1>3 DEF TypeOK
  <1>7. /\ jobs'[j].doc = jobs[j].doc /\ jobs'[j].index = jobs[j].index
        /\ jobs'[j].op = jobs[j].op /\ jobs'[j].status = s
    BY <1>1, <1>5 DEF Job
  <1>8. \A i \in 1 .. Len(jobs) : /\ jobs'[i].doc = jobs[i].doc
                                  /\ jobs'[i].index = jobs[i].index
                                  /\ jobs'[i].op = jobs[i].op
    BY <1>6, <1>7
  <1>. QED  BY <1>4, <1>6, <1>7, <1>8 DEF Chunk

(* A put or a delete adds one PENDING row per chunk behind the others.     *)
LEMMA EnqueueTyped ==
    ASSUME TypeOK, NEW d \in Docs, NEW op \in Ops, EnqueueChunks(d, op)
    PROVE  /\ jobs' \in Seq(Job)
           /\ Len(jobs) \in Nat
           /\ Len(jobs') = Len(jobs) + ChunkCount
           /\ Len(jobs') <= MaxJobs
           /\ due' \subseteq 1 .. Len(jobs')
           /\ held \in [Workers -> 0 .. Len(jobs')]
           /\ \A i \in 1 .. Len(jobs) : jobs'[i] = jobs[i]
           /\ \A i \in Indices : jobs'[Len(jobs) + i] =
                 [doc |-> d, index |-> i, op |-> op, status |-> "PENDING"]
  <1>. USE DocAssumption
  <1>1. PICK new : new = [i \in Indices |->
                            [doc |-> d, index |-> i, op |-> op, status |-> "PENDING"]]
    OBVIOUS
  <1>2. \A i \in Indices : new[i] \in Job
    BY <1>1 DEF Job, JobStatus
  <1>3. new \in Seq(Job) /\ Len(new) = ChunkCount
    BY <1>1, <1>2 DEF Indices
  <1>4. jobs \in Seq(Job) /\ Len(jobs) \in Nat
    BY DEF TypeOK
  <1>5. jobs' = jobs \o new /\ Len(jobs) + ChunkCount <= MaxJobs
    BY <1>1 DEF EnqueueChunks
  <1>6. /\ jobs' \in Seq(Job)
        /\ Len(jobs') = Len(jobs) + ChunkCount
        /\ \A i \in 1 .. Len(jobs) + ChunkCount :
              jobs'[i] = IF i <= Len(jobs) THEN jobs[i] ELSE new[i - Len(jobs)]
    BY <1>3, <1>4, <1>5, ConcatProperties
  <1>7. \A i \in 1 .. Len(jobs) : jobs'[i] = jobs[i]
    BY <1>4, <1>6
  <1>8. \A i \in Indices : jobs'[Len(jobs) + i] = new[i]
    BY <1>4, <1>6 DEF Indices
  <1>9. due' \subseteq 1 .. Len(jobs')
    <2>. SUFFICES ASSUME NEW k \in due' PROVE k \in 1 .. Len(jobs')
      OBVIOUS
    <2>1. k \in due \/ k \in Len(jobs) + 1 .. Len(jobs) + ChunkCount
      BY DEF EnqueueChunks
    <2>2. k \in 1 .. Len(jobs) \/ k \in Len(jobs) + 1 .. Len(jobs) + ChunkCount
      BY <2>1 DEF TypeOK
    <2>. QED  BY <1>4, <1>6, <2>2
  <1>10. held \in [Workers -> 0 .. Len(jobs')]
    <2>1. 0 .. Len(jobs) \subseteq 0 .. Len(jobs')
      BY <1>4, <1>6
    <2>2. held \in [Workers -> 0 .. Len(jobs)]
      BY DEF TypeOK
    <2>. QED  BY <2>1, <2>2
  <1>. QED  BY <1>1, <1>4, <1>5, <1>6, <1>7, <1>8, <1>9, <1>10

(* The job a busy worker holds is a row of the outbox, about a chunk. *)
LEMMA HeldTyped ==
    ASSUME TypeOK, NEW w \in Workers, pc[w] # "idle"
    PROVE  /\ held[w] \in 1 .. Len(jobs)
           /\ jobs[held[w]] \in Job
           /\ jobs[held[w]].doc \in Docs
           /\ jobs[held[w]].op \in Ops
           /\ Chunk(held[w]) \in Chunks
           /\ Chunk(held[w])[1] = jobs[held[w]].doc
  <1>1. held[w] \in 1 .. Len(jobs)
    BY DEF TypeOK
  <1>2. jobs[held[w]] \in Job
    BY <1>1 DEF TypeOK
  <1>. QED  BY <1>1, <1>2 DEF Job, Chunk, Chunks

LEMMA AnswerTyped ==
    ASSUME TypeOK, NEW w \in Workers, NEW next \in Steps \ {"idle"}, Answer(w, next),
           pc[w] # "idle", UNCHANGED held
    PROVE  /\ pc' \in [Workers -> Steps]
           /\ faults' \in 0 .. MaxFaults
           /\ \A v \in Workers : held'[v] = 0 <=> pc'[v] = "idle"
  <1>1. /\ faults' = faults \/ (faults < MaxFaults /\ faults' = faults + 1)
        /\ pc' = [pc EXCEPT ![w] = next] \/ pc' = [pc EXCEPT ![w] = "failed"]
    BY DEF Answer
  <1>2. faults' \in 0 .. MaxFaults
    BY <1>1, DocAssumption DEF TypeOK
  <1>3. PICK s \in Steps \ {"idle"} : pc' = [pc EXCEPT ![w] = s]
    BY <1>1 DEF Steps
  <1>. QED  BY <1>2, <1>3 DEF TypeOK

LEMMA MarkTyped ==
    ASSUME TypeOK, NEW w \in Workers, pc[w] # "idle", NEW s \in JobStatus,
           jobs' = [jobs EXCEPT ![held[w]].status = s], due' \subseteq due, Release(w),
           UNCHANGED faults, UNCHANGED docVars, UNCHANGED indexVars
    PROVE  TypeOK'
  <1>1. held[w] \in 1 .. Len(jobs)
    BY HeldTyped
  <1>2. jobs' \in Seq(Job) /\ Len(jobs') = Len(jobs)
    BY <1>1, RewriteTyped
  <1>. QED  BY <1>2, DocAssumption DEF TypeOK, Release, Steps, docVars, indexVars

(* Type correctness for any number of workers. *)
THEOREM TypeCorrect == Spec => []TypeOK
<1>1. Init => TypeOK
  <2>. SUFFICES ASSUME Init PROVE TypeOK
    OBVIOUS
  <2>1. jobs \in Seq(Job) /\ Len(jobs) = 0
    BY DEF Init
  <2>. QED  BY <2>1, DocAssumption DEF Init, TypeOK, Steps
<1>2. TypeOK /\ [Next]_vars => TypeOK'
  <2>. SUFFICES ASSUME TypeOK, [Next]_vars PROVE TypeOK'
    OBVIOUS
  <2>. USE DocAssumption
  <2>1. ASSUME NEW d \in Docs, docs_put(d) PROVE TypeOK'
    <3>1. EnqueueChunks(d, "UPSERT") /\ "UPSERT" \in Ops
      BY <2>1 DEF docs_put, Ops
    <3>2. /\ status' \in [Docs -> {"none", "active", "deleted"}]
          /\ version' \in [Docs -> 0 .. MaxVersion]
          /\ overtaken' \subseteq Chunks
      BY <2>1 DEF docs_put, TypeOK
    <3>. QED  BY <2>1, <3>1, <3>2, EnqueueTyped DEF TypeOK, docs_put, workerVars, indexVars
  <2>2. ASSUME NEW d \in Docs, docs_delete(d) PROVE TypeOK'
    <3>1. EnqueueChunks(d, "DELETE") /\ "DELETE" \in Ops
      BY <2>2 DEF docs_delete, Ops
    <3>2. status' \in [Docs -> {"none", "active", "deleted"}]
      BY <2>2 DEF docs_delete, TypeOK
    <3>. QED  BY <2>2, <3>1, <3>2, EnqueueTyped DEF TypeOK, docs_delete, workerVars, indexVars
  <2>3. ASSUME NEW w \in Workers, NEW j \in 1 .. Len(jobs), Claim(w, j) PROVE TypeOK'
    <3>1. jobs' = [jobs EXCEPT ![j].status = "CLAIMED"] /\ "CLAIMED" \in JobStatus
      BY <2>3 DEF Claim, JobStatus
    <3>2. jobs' \in Seq(Job) /\ Len(jobs') = Len(jobs)
      BY <3>1, RewriteTyped
    <3>3. /\ held' = [held EXCEPT ![w] = j] /\ due' = due \ {j}
          /\ pc' = [pc EXCEPT ![w] = IF jobs[j].op = "UPSERT" THEN "fetch" ELSE "clear"]
          /\ UNCHANGED <<seen, faults>> /\ UNCHANGED docVars /\ UNCHANGED indexVars
      BY <2>3 DEF Claim
    <3>. QED  BY <3>2, <3>3 DEF TypeOK, Steps, docVars, indexVars
  <2>4. ASSUME NEW w \in Workers, FetchChunk(w) PROVE TypeOK'
    <3>1. version[jobs[held[w]].doc] \in 0 .. MaxVersion
      BY <2>4, HeldTyped DEF TypeOK, FetchChunk
    <3>2. seen' \in [Workers -> 0 .. MaxVersion]
      BY <2>4, <3>1 DEF TypeOK, FetchChunk
    <3>3. /\ pc' = [pc EXCEPT ![w] = "embed"] \/ pc' = [pc EXCEPT ![w] = "done"]
          /\ pc[w] # "idle"
          /\ UNCHANGED <<jobs, due, held, faults>> /\ UNCHANGED docVars /\ UNCHANGED indexVars
      BY <2>4 DEF FetchChunk
    <3>. QED  BY <3>2, <3>3 DEF TypeOK, Steps, docVars, indexVars
  <2>5. ASSUME NEW w \in Workers, EmbedChunk(w) PROVE TypeOK'
    BY <2>5 DEF TypeOK, EmbedChunk, Steps, docVars, indexVars
  <2>6. ASSUME NEW w \in Workers, StoreVector(w) PROVE TypeOK'
    <3>1. vectors' \subseteq Chunks
      BY <2>6, HeldTyped DEF TypeOK, StoreVector
    <3>. QED  BY <2>6, <3>1, AnswerTyped DEF TypeOK, StoreVector, Steps, docVars
  <2>7. ASSUME NEW w \in Workers, upsert_qdrant_doc_chunk(w) PROVE TypeOK'
    <3>1. points' \in [Chunks -> 0 .. MaxVersion]
      BY <2>7, HeldTyped DEF TypeOK, upsert_qdrant_doc_chunk
    <3>. QED  BY <2>7, <3>1, AnswerTyped DEF TypeOK, upsert_qdrant_doc_chunk, Steps, docVars
  <2>8. ASSUME NEW w \in Workers, handle_doc_delete(w) PROVE TypeOK'
    <3>1. points' \in [Chunks -> 0 .. MaxVersion]
      BY <2>8, HeldTyped DEF TypeOK, handle_doc_delete
    <3>. QED  BY <2>8, <3>1, AnswerTyped DEF TypeOK, handle_doc_delete, Steps, docVars
  <2>9. ASSUME NEW w \in Workers, MarkDone(w) PROVE TypeOK'
    BY <2>9, MarkTyped DEF MarkDone, JobStatus
  <2>10. ASSUME NEW w \in Workers, MarkFailed(w) PROVE TypeOK'
    BY <2>10, MarkTyped DEF MarkFailed, JobStatus
  <2>11. ASSUME NEW w \in Workers, Fail(w) PROVE TypeOK'
    <3>1. /\ pc' = [pc EXCEPT ![w] = "failed"] /\ pc[w] # "idle"
          /\ faults' \in 0 .. MaxFaults
          /\ UNCHANGED <<jobs, due, held, seen>> /\ UNCHANGED docVars /\ UNCHANGED indexVars
      BY <2>11 DEF TypeOK, Fail
    <3>. QED  BY <3>1 DEF TypeOK, Steps, docVars, indexVars
  <2>12. ASSUME NEW w \in Workers, Crash(w) PROVE TypeOK'
    BY <2>12 DEF TypeOK, Crash, Release, Steps, docVars, indexVars
  <2>13. ASSUME NEW j \in 1 .. Len(jobs), ComesDue(j) PROVE TypeOK'
    BY <2>13 DEF TypeOK, ComesDue, docVars, workerVars, indexVars
  <2>14. CASE UNCHANGED vars
    BY <2>14 DEF TypeOK, vars
  <2>. QED
    BY <2>1, <2>2, <2>3, <2>4, <2>5, <2>6, <2>7, <2>8, <2>9, <2>10, <2>11, <2>12, <2>13, <2>14
       DEF Next, WorkerStep
<1>. QED  BY <1>1, <1>2, PTL DEF Spec

-----------------------------------------------------------------------------
(* How the open rows of a chunk change. *)

LEMMA EnqueueOpen ==
    ASSUME TypeOK, NEW d \in Docs, NEW op \in Ops, EnqueueChunks(d, op)
    PROVE  /\ Len(jobs) \in Nat /\ Len(jobs) <= Len(jobs')
           /\ \A j \in 1 .. Len(jobs) :
                 jobs'[j] = jobs[j] /\ Chunk(j)' = Chunk(j) /\ (Open(j)' <=> Open(j))
           /\ \A j \in 1 .. Len(jobs') : j \notin 1 .. Len(jobs) => jobs'[j].doc = d
           /\ \A c \in Chunks, o \in Ops :
                 HasOpen(c, o)' <=> HasOpen(c, o) \/ (c[1] = d /\ o = op)
           /\ \A j \in 1 .. Len(jobs), c \in Chunks, o \in Ops :
                 OtherOpen(j, c, o)' <=> OtherOpen(j, c, o) \/ (c[1] = d /\ o = op)
  <1>1. /\ Len(jobs) \in Nat /\ ChunkCount \in Nat
        /\ Len(jobs') = Len(jobs) + ChunkCount
        /\ \A i \in 1 .. Len(jobs) : jobs'[i] = jobs[i]
        /\ \A i \in Indices : jobs'[Len(jobs) + i] =
              [doc |-> d, index |-> i, op |-> op, status |-> "PENDING"]
    BY EnqueueTyped, DocAssumption
  <1>2. \A j \in 1 .. Len(jobs) : Chunk(j)' = Chunk(j) /\ (Open(j)' <=> Open(j))
    BY <1>1 DEF Chunk, Open
  <1>3. ASSUME NEW j \in 1 .. Len(jobs'), j \notin 1 .. Len(jobs)
        PROVE  /\ jobs'[j].doc = d /\ jobs'[j].op = op /\ Open(j)' /\ Chunk(j)'[1] = d
    <2>1. PICK i \in Indices : j = Len(jobs) + i
      <3>1. j - Len(jobs) \in Indices /\ j = Len(jobs) + (j - Len(jobs))
        BY <1>1, <1>3 DEF Indices
      <3>. QED  BY <3>1
    <2>2. jobs'[j] = [doc |-> d, index |-> i, op |-> op, status |-> "PENDING"]
      BY <1>1, <2>1
    <2>. QED  BY <2>2 DEF Open, Chunk
  <1>4. ASSUME NEW c \in Chunks, c[1] = d
        PROVE  \E j \in 1 .. Len(jobs') :
                  j \notin 1 .. Len(jobs) /\ Open(j)' /\ Chunk(j)' = c /\ jobs'[j].op = op
    <2>1. PICK i \in Indices : c = <<d, i>>
      BY <1>4 DEF Chunks
    <2>2. PICK j : j = Len(jobs) + i
      OBVIOUS
    <2>3. j \in 1 .. Len(jobs') /\ j \notin 1 .. Len(jobs)
      BY <1>1, <2>2 DEF Indices
    <2>4. jobs'[j] = [doc |-> d, index |-> i, op |-> op, status |-> "PENDING"]
      BY <1>1, <2>2
    <2>. QED  BY <2>1, <2>3, <2>4 DEF Open, Chunk
  <1>5. \A j \in 1 .. Len(jobs) : j \in 1 .. Len(jobs')
    BY <1>1
  <1>6. ASSUME NEW c \in Chunks, NEW o \in Ops
        PROVE  HasOpen(c, o)' <=> HasOpen(c, o) \/ (c[1] = d /\ o = op)
    <2>1. HasOpen(c, o) => HasOpen(c, o)'
      BY <1>1, <1>2, <1>5 DEF HasOpen
    <2>2. c[1] = d /\ o = op => HasOpen(c, o)'
      BY <1>4 DEF HasOpen
    <2>3. HasOpen(c, o)' => HasOpen(c, o) \/ (c[1] = d /\ o = op)
      BY <1>1, <1>2, <1>3 DEF HasOpen
    <2>. QED  BY <2>1, <2>2, <2>3
  <1>7. ASSUME NEW k \in 1 .. Len(jobs), NEW c \in Chunks, NEW o \in Ops
        PROVE  OtherOpen(k, c, o)' <=> OtherOpen(k, c, o) \/ (c[1] = d /\ o = op)
    <2>1. OtherOpen(k, c, o) => OtherOpen(k, c, o)'
      BY <1>1, <1>2, <1>5 DEF OtherOpen
    <2>2. c[1] = d /\ o = op => OtherOpen(k, c, o)'
      BY <1>4 DEF OtherOpen
    <2>3. OtherOpen(k, c, o)' => OtherOpen(k, c, o) \/ (c[1] = d /\ o = op)
      BY <1>1, <1>2, <1>3 DEF OtherOpen
    <2>. QED  BY <2>1, <2>2, <2>3
  <1>8. Len(jobs) <= Len(jobs')
    BY <1>1
  <1>. QED  BY <1>1, <1>2, <1>3, <1>6, <1>7, <1>8

LEMMA UnchangedOpen ==
    ASSUME UNCHANGED jobs
    PROVE  /\ \A j : (Open(j)' <=> Open(j)) /\ Chunk(j)' = Chunk(j)
           /\ \A c, o : HasOpen(c, o)' <=> HasOpen(c, o)
           /\ \A j, c, o : OtherOpen(j, c, o)' <=> OtherOpen(j, c, o)
  BY DEF Open, HasOpen, OtherOpen, Chunk

(* Marking an open row: only DONE takes it from its chunk. *)
LEMMA MarkOpen ==
    ASSUME TypeOK, NEW j \in 1 .. Len(jobs), NEW s \in JobStatus, Open(j),
           jobs' = [jobs EXCEPT ![j].status = s]
    PROVE  /\ \A c \in Chunks, o \in Ops : OtherOpen(j, c, o) => HasOpen(c, o)'
           /\ \A c \in Chunks, o \in Ops : HasOpen(c, o)' => HasOpen(c, o)
           /\ \A c \in Chunks, o \in Ops :
                 HasOpen(c, o) => HasOpen(c, o)' \/ (c = Chunk(j) /\ o = jobs[j].op)
           /\ s # "DONE" => /\ \A c \in Chunks, o \in Ops : HasOpen(c, o)' <=> HasOpen(c, o)
                            /\ \A i \in 1 .. Len(jobs) : Open(i)' <=> Open(i)
                            /\ Open(j)'
  <1>1. /\ Len(jobs') = Len(jobs)
        /\ \A i \in 1 .. Len(jobs) : i # j => jobs'[i] = jobs[i]
        /\ \A i \in 1 .. Len(jobs) : jobs'[i].op = jobs[i].op /\ Chunk(i)' = Chunk(i)
        /\ jobs'[j].status = s
    BY RewriteTyped
  <1>2. \A i \in 1 .. Len(jobs) : i # j => (Open(i)' <=> Open(i))
    BY <1>1 DEF Open
  <1>3. Open(j)' <=> s # "DONE"
    BY <1>1 DEF Open
  <1>. QED  BY <1>1, <1>2, <1>3 DEF HasOpen, OtherOpen

-----------------------------------------------------------------------------
(* A put or a delete leaves rows for every chunk of its document, and the   *)
(* worker in the middle of one of them is covered by those rows.           *)
LEMMA ApiPreserves ==
    ASSUME TypeOK, IndexInv, NEW d \in Docs, NEW op \in Ops, EnqueueChunks(d, op),
           UNCHANGED workerVars, UNCHANGED indexVars,
           \A e \in Docs \ {d} : status'[e] = status[e] /\ version'[e] = version[e],
           \A c \in Chunks : c[1] # d => (c \in overtaken' <=> c \in overtaken),
           version'[d] \in Nat, version[d] <= version'[d], version'[d] # 0,
           \/ status'[d] = "active" /\ op = "UPSERT"
           \/ status'[d] = "deleted" /\ op = "DELETE",
           \A c \in Chunks : c[1] = d /\ status'[d] = "active" /\ c \notin overtaken'
              => ~HasOpen(c, "DELETE")
    PROVE  IndexInv'
  <1>. USE DEF IndexInv
  <1>1. /\ pc' = pc /\ held' = held /\ seen' = seen
        /\ vectors' = vectors /\ points' = points
    BY DEF workerVars, indexVars
  <1>2. /\ Len(jobs) \in Nat /\ Len(jobs) <= Len(jobs')
        /\ \A j \in 1 .. Len(jobs) :
              jobs'[j] = jobs[j] /\ Chunk(j)' = Chunk(j) /\ (Open(j)' <=> Open(j))
        /\ \A j \in 1 .. Len(jobs') : j \notin 1 .. Len(jobs) => jobs'[j].doc = d
        /\ \A c \in Chunks, o \in Ops :
              HasOpen(c, o)' <=> HasOpen(c, o) \/ (c[1] = d /\ o = op)
        /\ \A j \in 1 .. Len(jobs), c \in Chunks, o \in Ops :
              OtherOpen(j, c, o)' <=> OtherOpen(j, c, o) \/ (c[1] = d /\ o = op)
    BY EnqueueOpen
  <1>3. /\ \A e \in Docs : /\ version[e] \in Nat /\ version'[e] \in Nat
                            /\ version[e] <= version'[e]
        /\ \A c \in Chunks : c[1] \in Docs
        /\ "UPSERT" \in Ops /\ "DELETE" \in Ops
    BY DEF TypeOK, Chunks, Ops
  <1>4. DocHistory'
    <2>1. \A e \in Docs : status'[e] = "none" <=> version'[e] = 0
      BY DEF DocHistory
    <2>2. \A j \in 1 .. Len(jobs') : status'[jobs'[j].doc] # "none"
      <3>. SUFFICES ASSUME NEW j \in 1 .. Len(jobs') PROVE status'[jobs'[j].doc] # "none"
        OBVIOUS
      <3>1. CASE j \in 1 .. Len(jobs)
        <4>1. jobs[j] \in Job
          BY <3>1 DEF TypeOK
        <4>2. jobs'[j] = jobs[j] /\ status[jobs[j].doc] # "none" /\ jobs[j].doc \in Docs
          BY <1>2, <3>1, <4>1 DEF DocHistory, Job
        <4>. QED  BY <4>2
      <3>2. CASE j \notin 1 .. Len(jobs)
        BY <1>2, <3>2
      <3>. QED  BY <3>1, <3>2
    <2>3. \A c \in Chunks :
             status'[c[1]] = "active" /\ c \notin overtaken' => ~HasOpen(c, "DELETE")'
      BY <1>2, <1>3 DEF DocHistory
    <2>. QED  BY <2>1, <2>2, <2>3 DEF DocHistory
  <1>5. ASSUME NEW w \in Workers, pc[w] # "idle"
        PROVE  /\ held[w] \in 1 .. Len(jobs)
               /\ jobs'[held[w]] = jobs[held[w]]
               /\ jobs[held[w]].doc \in Docs
               /\ Chunk(held[w])' = Chunk(held[w]) /\ Chunk(held[w]) \in Chunks
               /\ Chunk(held[w])[1] = jobs[held[w]].doc
               /\ Open(held[w])' <=> Open(held[w])
    <2>1. PICK h \in 1 .. Len(jobs) : h = held[w] /\ h = held'[w]
      BY <1>1, <1>5, HeldTyped
    <2>2. jobs'[h] = jobs[h] /\ Chunk(h)' = Chunk(h) /\ (Open(h)' <=> Open(h))
      BY <1>2
    <2>. QED  BY <1>1, <1>5, <2>1, <2>2, HeldTyped DEF Open, Chunk
  <1>6. \A w \in Workers : Upserting(w)' <=> Upserting(w)
    BY <1>1 DEF Upserting
  <1>7. HeldJobs'
    <2>. SUFFICES ASSUME NEW w \in Workers PROVE HeldOf(w)'
      BY DEF HeldJobs
    <2>1. HeldOf(w)
      BY DEF HeldJobs
    <2>2. CASE pc[w] = "idle"
      BY <1>1, <1>6, <2>1, <2>2 DEF HeldOf, Upserting
    <2>3. CASE pc[w] # "idle"
      <3>1. seen[w] \in Nat /\ seen[w] <= version[jobs[held[w]].doc]
        BY <2>1, <2>3 DEF HeldOf, TypeOK
      <3>2. seen[w] <= version'[jobs[held[w]].doc]
        BY <1>3, <1>5, <2>3, <3>1
      <3>. QED  BY <1>1, <1>5, <1>6, <2>1, <2>3, <3>2 DEF HeldOf
    <2>. QED  BY <2>2, <2>3
  <1>8. InFlight'
    <2>. SUFFICES ASSUME NEW w \in Workers, pc[w] # "idle" PROVE InFlightOf(w)'
      BY <1>1 DEF InFlight
    <2>1. PICK h \in 1 .. Len(jobs), c \in Chunks, o \in Ops :
             h = held[w] /\ h = held'[w] /\ c = Chunk(h) /\ o = jobs[h].op
      BY <1>1, HeldTyped
    <2>2. c = Chunk(h)' /\ o = jobs'[h].op
      BY <1>2, <2>1
    <2>3. InFlightOf(w)
      BY DEF InFlight
    <2>4. Upserting(w) /\ status'[c[1]] = "deleted" => HasOpen(c, "DELETE")'
      <3>1. CASE c[1] = d
        BY <1>2, <1>3, <3>1
      <3>2. CASE c[1] # d
        <4>1. Upserting(w) /\ status[c[1]] = "deleted" => HasOpen(c, "DELETE")
          BY <2>1, <2>3 DEF InFlightOf, HasOpen
        <4>. QED  BY <1>2, <1>3, <3>2, <4>1
      <3>. QED  BY <3>1, <3>2
    <2>5. (Upserting(w) \/ (pc[w] = "done" /\ o = "UPSERT"))
              /\ status'[c[1]] = "active" /\ seen[w] # version'[c[1]]
           => OtherOpen(h, c, "UPSERT")'
      <3>1. CASE c[1] = d
        BY <1>2, <1>3, <3>1
      <3>2. CASE c[1] # d
        <4>1. (Upserting(w) \/ (pc[w] = "done" /\ o = "UPSERT"))
                 /\ status[c[1]] = "active" /\ seen[w] # version[c[1]]
               => OtherOpen(h, c, "UPSERT")
          BY <2>1, <2>3 DEF InFlightOf, OtherOpen
        <4>. QED  BY <1>2, <1>3, <3>2, <4>1
      <3>. QED  BY <3>1, <3>2
    <2>6. /\ pc[w] = "done" /\ o = "DELETE" => points[c] = 0
          /\ pc[w] = "done" /\ o = "UPSERT" /\ seen[w] # 0 => points[c] = seen[w]
          /\ pc[w] = "upsert" => c \in vectors
      BY <2>1, <2>3 DEF InFlightOf
    <2>. QED
      BY <1>1, <1>6, <2>1, <2>2, <2>4, <2>5, <2>6 DEF InFlightOf, HasOpen, OtherOpen
  <1>9. ASSUME NEW c \in Chunks
        PROVE  /\ status'[c[1]] = "deleted" /\ points[c] # 0 => HasOpen(c, "DELETE")'
               /\ status'[c[1]] = "active" /\ points[c] \notin {0, version'[c[1]]}
                    => HasOpen(c, "UPSERT")'
               /\ status'[c[1]] = "active" /\ points[c] = 0 /\ c \notin overtaken'
                    => HasOpen(c, "UPSERT")'
    <2>1. CASE c[1] = d
      BY <1>2, <1>3, <2>1
    <2>2. CASE c[1] # d
      BY <1>2, <1>3, <2>2 DEF NoOrphanPoints, NoStalePoints, NoLostChunk
    <2>. QED  BY <2>1, <2>2
  <1>10. NoOrphanPoints' /\ NoStalePoints' /\ NoLostChunk' /\ VectorsBeforePoints'
    BY <1>1, <1>9 DEF NoOrphanPoints, NoStalePoints, NoLostChunk, VectorsBeforePoints
  <1>. QED  BY <1>4, <1>7, <1>8, <1>10

LEMMA PutPreserves ==
    ASSUME TypeOK, IndexInv, NEW d \in Docs, docs_put(d)
    PROVE  IndexInv'
  <1>1. /\ EnqueueChunks(d, "UPSERT") /\ "UPSERT" \in Ops
        /\ UNCHANGED workerVars /\ UNCHANGED indexVars
    BY DEF docs_put, Ops
  <1>2. /\ \A e \in Docs \ {d} : status'[e] = status[e] /\ version'[e] = version[e]
        /\ version[d] \in Nat /\ version'[d] = version[d] + 1 /\ status'[d] = "active"
    BY DEF docs_put, TypeOK
  <1>3. /\ \A c \in Chunks : c[1] # d => (c \in overtaken' <=> c \in overtaken)
        /\ \A c \in Chunks : c[1] = d /\ c \notin overtaken' => ~HasOpen(c, "DELETE")
    BY DEF docs_put
  <1>4. version'[d] \in Nat /\ version[d] <= version'[d] /\ version'[d] # 0
    BY <1>2
  <1>. QED  BY <1>1, <1>2, <1>3, <1>4, ApiPreserves

LEMMA DeletePreserves ==
    ASSUME TypeOK, IndexInv, NEW d \in Docs, docs_delete(d)
    PROVE  IndexInv'
  <1>1. /\ EnqueueChunks(d, "DELETE") /\ "DELETE" \in Ops
        /\ UNCHANGED workerVars /\ UNCHANGED indexVars /\ UNCHANGED <<version, overtaken>>
    BY DEF docs_delete, Ops
  <1>2. /\ \A e \in Docs \ {d} : status'[e] = status[e]
        /\ status'[d] = "deleted" /\ status[d] = "active"
    BY DEF docs_delete, TypeOK
  <1>3. version[d] \in Nat /\ version[d] # 0
    BY <1>2 DEF IndexInv, DocHistory, TypeOK
  <1>. QED  BY <1>1, <1>2, <1>3, ApiPreserves

-----------------------------------------------------------------------------
(* The steps of the only worker. *)

(* A step that leaves documents and points alone, keeps every open row open *)
(* and leaves the worker with what it should know preserves the invariant. *)
LEMMA QuietStepPreserves ==
    ASSUME TypeOK, IndexInv, SingleWorker, NEW w \in Workers,
           UNCHANGED docVars, UNCHANGED points, vectors \subseteq vectors',
           Len(jobs') = Len(jobs),
           \A j \in 1 .. Len(jobs) : jobs'[j].doc = jobs[j].doc,
           \A c \in Chunks, o \in Ops : HasOpen(c, o)' <=> HasOpen(c, o),
           HeldOf(w)',
           pc'[w] # "idle" => InFlightOf(w)'
    PROVE  IndexInv'
  <1>. USE DEF IndexInv
  <1>1. \A v \in Workers : v = w
    BY DEF SingleWorker
  <1>2. status' = status /\ version' = version /\ overtaken' = overtaken
        /\ "UPSERT" \in Ops /\ "DELETE" \in Ops
    BY DEF docVars, Ops
  <1>3. DocHistory'
    BY <1>2 DEF DocHistory
  <1>4. HeldJobs' /\ InFlight'
    BY <1>1 DEF HeldJobs, InFlight
  <1>5. NoOrphanPoints' /\ NoStalePoints' /\ NoLostChunk' /\ VectorsBeforePoints'
    BY <1>2 DEF NoOrphanPoints, NoStalePoints, NoLostChunk, VectorsBeforePoints
  <1>. QED  BY <1>3, <1>4, <1>5

LEMMA ClaimPreserves ==
    ASSUME TypeOK, IndexInv, SingleWorker,
           NEW w \in Workers, NEW j \in 1 .. Len(jobs), Claim(w, j)
    PROVE  IndexInv'
  <1>1. /\ UNCHANGED docVars /\ UNCHANGED indexVars
        /\ held'[w] = j /\ seen' = seen /\ pc[w] = "idle" /\ Open(j)
        /\ pc'[w] = IF jobs[j].op = "UPSERT" THEN "fetch" ELSE "clear"
        /\ jobs' = [jobs EXCEPT ![j].status = "CLAIMED"] /\ "CLAIMED" \in JobStatus
    BY DEF Claim, TypeOK, Open, JobStatus
  <1>2. /\ Len(jobs') = Len(jobs)
        /\ \A i \in 1 .. Len(jobs) : /\ jobs'[i].doc = jobs[i].doc
                                     /\ jobs'[i].op = jobs[i].op
    BY <1>1, RewriteTyped
  <1>3. (\A c \in Chunks, o \in Ops : HasOpen(c, o)' <=> HasOpen(c, o)) /\ Open(j)'
    BY <1>1, MarkOpen
  <1>4. seen[w] = 0
    BY <1>1 DEF IndexInv, HeldJobs, HeldOf
  <1>5. jobs[j] \in Job
    BY DEF TypeOK
  <1>6. jobs[j].op \in Ops /\ version[jobs[j].doc] \in Nat
    BY <1>5 DEF TypeOK, Job
  <1>7. ~Upserting(w)' /\ pc'[w] \in {"fetch", "clear"}
    BY <1>1 DEF Upserting
  <1>8. HeldOf(w)'
    BY <1>1, <1>2, <1>3, <1>4, <1>6, <1>7 DEF HeldOf, docVars, Open, Ops
  <1>9. InFlightOf(w)'
    BY <1>7 DEF InFlightOf
  <1>10. vectors \subseteq vectors' /\ UNCHANGED points
    BY <1>1 DEF indexVars
  <1>. QED  BY <1>1, <1>2, <1>3, <1>8, <1>9, <1>10, QuietStepPreserves

(* Steps that leave the outbox as it is. *)
LEMMA StillPreserves ==
    ASSUME TypeOK, IndexInv, SingleWorker, NEW w \in Workers,
           UNCHANGED docVars, UNCHANGED points, UNCHANGED jobs, vectors \subseteq vectors',
           HeldOf(w)', pc'[w] # "idle" => InFlightOf(w)'
    PROVE  IndexInv'
  <1>1. \A c \in Chunks, o \in Ops : HasOpen(c, o)' <=> HasOpen(c, o)
    BY UnchangedOpen
  <1>. QED  BY <1>1, QuietStepPreserves

LEMMA FetchPreserves ==
    ASSUME TypeOK, IndexInv, SingleWorker, NEW w \in Workers, FetchChunk(w)
    PROVE  IndexInv'
  <1>1. /\ UNCHANGED docVars /\ UNCHANGED indexVars /\ UNCHANGED jobs
        /\ held' = held /\ pc[w] = "fetch"
    BY DEF FetchChunk
  <1>2. PICK h \in 1 .. Len(jobs), c \in Chunks, d \in Docs :
           /\ h = held[w] /\ h = held'[w] /\ c = Chunk(h) /\ d = jobs[h].doc /\ c[1] = d
           /\ Chunk(h)' = c
    BY <1>1, HeldTyped, UnchangedOpen
  <1>3. /\ HeldOf(w) /\ Open(h) /\ Open(h)' /\ jobs[h].op = "UPSERT" /\ seen[w] = 0
        /\ status' = status /\ version' = version
    BY <1>1, <1>2, UnchangedOpen DEF IndexInv, HeldJobs, HeldOf, docVars
  <1>4. version[d] \in Nat /\ (status[d] = "none" <=> version[d] = 0)
    BY DEF TypeOK, IndexInv, DocHistory
  <1>5. vectors \subseteq vectors' /\ UNCHANGED points
    BY <1>1 DEF indexVars
  <1>6. CASE status[d] = "active"
    <2>1. pc'[w] = "embed" /\ seen'[w] = version[d]
      BY <1>2, <1>6 DEF FetchChunk, TypeOK
    <2>2. HeldOf(w)'
      BY <1>1, <1>2, <1>3, <1>4, <1>6, <2>1 DEF HeldOf, Upserting
    <2>3. InFlightOf(w)'
      BY <1>2, <1>3, <1>6, <2>1 DEF InFlightOf, Upserting
    <2>. QED  BY <1>1, <1>5, <2>2, <2>3, StillPreserves
  <1>7. CASE status[d] # "active"
    <2>1. pc'[w] = "done" /\ seen' = seen
      BY <1>2, <1>7 DEF FetchChunk, TypeOK
    <2>2. HeldOf(w)'
      BY <1>1, <1>2, <1>3, <1>4, <2>1 DEF HeldOf, Upserting
    <2>3. InFlightOf(w)'
      BY <1>1, <1>2, <1>3, <1>7, <2>1 DEF InFlightOf, Upserting
    <2>. QED  BY <1>1, <1>5, <2>2, <2>3, StillPreserves
  <1>. QED  BY <1>6, <1>7

(* embed and store: the worker goes on with what it has read, or fails.    *)
LEMMA OnwardPreserves ==
    ASSUME TypeOK, IndexInv, SingleWorker, NEW w \in Workers,
           EmbedChunk(w) \/ StoreVector(w) \/ Fail(w)
    PROVE  IndexInv'
  <1>1. /\ UNCHANGED docVars /\ UNCHANGED points /\ UNCHANGED jobs
        /\ held' = held /\ seen' = seen /\ pc[w] # "idle"
        /\ vectors \subseteq vectors'
        /\ \/ pc'[w] = "failed"
           \/ Upserting(w) /\ pc'[w] = "store"
           \/ Upserting(w) /\ pc'[w] = "upsert" /\ Chunk(held[w]) \in vectors'
    BY DEF EmbedChunk, StoreVector, Fail, Answer, indexVars, TypeOK, Upserting
  <1>2. PICK h \in 1 .. Len(jobs), c \in Chunks, d \in Docs, o \in Ops :
           /\ h = held[w] /\ h = held'[w] /\ c = Chunk(h) /\ d = jobs[h].doc /\ c[1] = d
           /\ o = jobs[h].op /\ Chunk(h)' = c
    BY <1>1, HeldTyped, UnchangedOpen
  <1>3. /\ HeldOf(w) /\ InFlightOf(w) /\ Open(h) /\ Open(h)'
        /\ status' = status /\ version' = version
    BY <1>1, <1>2, UnchangedOpen DEF IndexInv, HeldJobs, HeldOf, InFlight, docVars
  <1>4. HeldOf(w)'
    BY <1>1, <1>2, <1>3 DEF HeldOf, Upserting
  <1>5. InFlightOf(w)'
    <2>1. CASE pc'[w] = "failed"
      BY <2>1 DEF InFlightOf, Upserting
    <2>2. CASE Upserting(w) /\ pc'[w] \in {"store", "upsert"}
      <3>1. (HasOpen(c, "DELETE")' <=> HasOpen(c, "DELETE"))
            /\ (OtherOpen(h, c, "UPSERT")' <=> OtherOpen(h, c, "UPSERT"))
        BY <1>1, UnchangedOpen
      <3>2. /\ status[d] = "deleted" => HasOpen(c, "DELETE")
            /\ status[d] = "active" /\ seen[w] # version[d] => OtherOpen(h, c, "UPSERT")
        BY <1>2, <1>3, <2>2 DEF InFlightOf, HasOpen, OtherOpen
      <3>. QED
        BY <1>1, <1>2, <1>3, <2>2, <3>1, <3>2 DEF InFlightOf, HasOpen, OtherOpen
    <2>. QED  BY <1>1, <2>1, <2>2
  <1>. QED  BY <1>1, <1>4, <1>5, StillPreserves

LEMMA CrashPreserves ==
    ASSUME TypeOK, IndexInv, SingleWorker, NEW w \in Workers, Crash(w)
    PROVE  IndexInv'
  <1>1. /\ UNCHANGED docVars /\ UNCHANGED points /\ UNCHANGED jobs /\ vectors \subseteq vectors'
        /\ pc'[w] = "idle" /\ seen'[w] = 0
    BY DEF Crash, Release, indexVars, TypeOK
  <1>2. HeldOf(w)'
    BY <1>1 DEF HeldOf, Upserting
  <1>. QED  BY <1>1, <1>2, StillPreserves

LEMMA MarkFailedPreserves ==
    ASSUME TypeOK, IndexInv, SingleWorker, NEW w \in Workers, MarkFailed(w)
    PROVE  IndexInv'
  <1>1. /\ UNCHANGED docVars /\ UNCHANGED points /\ vectors \subseteq vectors'
        /\ pc[w] # "idle" /\ pc'[w] = "idle" /\ seen'[w] = 0
        /\ jobs' = [jobs EXCEPT ![held[w]].status = "FAILED"] /\ "FAILED" \in JobStatus
    BY DEF MarkFailed, Release, indexVars, TypeOK, JobStatus
  <1>2. PICK h \in 1 .. Len(jobs) : h = held[w]
    BY <1>1, HeldTyped
  <1>3. Open(h)
    BY <1>1, <1>2 DEF IndexInv, HeldJobs, HeldOf
  <1>4. /\ Len(jobs') = Len(jobs)
        /\ \A i \in 1 .. Len(jobs) : jobs'[i].doc = jobs[i].doc
    BY <1>1, <1>2, RewriteTyped
  <1>5. \A c \in Chunks, o \in Ops : HasOpen(c, o)' <=> HasOpen(c, o)
    BY <1>1, <1>2, <1>3, MarkOpen
  <1>6. HeldOf(w)'
    BY <1>1 DEF HeldOf, Upserting
  <1>. QED  BY <1>1, <1>4, <1>5, <1>6, QuietStepPreserves

(* A point moves while the row of its chunk is open: to the metadata the    *)
(* worker has read, or away when the row is a DELETE.                      *)
LEMMA PointPreserves ==
    ASSUME TypeOK, IndexInv, SingleWorker, NEW w \in Workers,
           upsert_qdrant_doc_chunk(w) \/ handle_doc_delete(w)
    PROVE  IndexInv'
  <1>. USE DEF IndexInv
  <1>1. /\ UNCHANGED docVars /\ UNCHANGED jobs /\ vectors' = vectors
        /\ held' = held /\ seen' = seen /\ pc[w] \in {"upsert", "clear"}
        /\ pc'[w] \in {"done", "failed"}
    BY DEF upsert_qdrant_doc_chunk, handle_doc_delete, Answer, TypeOK
  <1>2. PICK h \in 1 .. Len(jobs), c \in Chunks, d \in Docs, o \in Ops :
           /\ h = held[w] /\ h = held'[w] /\ c = Chunk(h) /\ d = jobs[h].doc /\ c[1] = d
           /\ o = jobs[h].op /\ Chunk(h)' = c
    BY <1>1, HeldTyped, UnchangedOpen
  <1>3. /\ HeldOf(w) /\ InFlightOf(w) /\ Open(h) /\ Open(h)'
        /\ status' = status /\ version' = version /\ overtaken' = overtaken
    BY <1>1, <1>2, UnchangedOpen DEF HeldJobs, HeldOf, InFlight, docVars
  <1>4. \A v \in Workers : v = w
    BY DEF SingleWorker
  <1>5. HasOpen(c, o)
    BY <1>2, <1>3 DEF HasOpen
  <1>6. /\ \A b \in Chunks : b # c => points'[b] = points[b]
        /\ \/ pc[w] = "upsert" /\ o = "UPSERT" /\ points'[c] = seen[w] /\ seen[w] # 0
           \/ pc[w] = "clear" /\ o = "DELETE" /\ points'[c] = 0
    BY <1>2, <1>3 DEF upsert_qdrant_doc_chunk, handle_doc_delete, HeldOf, Upserting, TypeOK
  <1>7. DocHistory'
    BY <1>1, <1>3, UnchangedOpen DEF DocHistory
  <1>8. HeldJobs'
    <2>1. HeldOf(w)'
      BY <1>1, <1>2, <1>3 DEF HeldOf, Upserting
    <2>. QED  BY <1>4, <2>1 DEF HeldJobs
  <1>9. InFlight'
    <2>1. CASE pc'[w] = "failed"
      <3>1. InFlightOf(w)'
        BY <2>1 DEF InFlightOf, Upserting
      <3>. QED  BY <1>4, <3>1 DEF InFlight
    <2>2. CASE pc'[w] = "done"
      <3>1. OtherOpen(h, c, "UPSERT")' <=> OtherOpen(h, c, "UPSERT")
        BY <1>1, UnchangedOpen
      <3>2. o = "UPSERT" /\ status[d] = "active" /\ seen[w] # version[d]
               => OtherOpen(h, c, "UPSERT")
        BY <1>2, <1>3, <1>6 DEF InFlightOf, Upserting, OtherOpen
      <3>3. InFlightOf(w)'
        BY <1>1, <1>2, <1>3, <1>6, <2>2, <3>1, <3>2 DEF InFlightOf, Upserting, OtherOpen
      <3>. QED  BY <1>4, <3>3 DEF InFlight
    <2>. QED  BY <1>1, <2>1, <2>2
  <1>10. \A b \in Chunks, op \in Ops : HasOpen(b, op)' <=> HasOpen(b, op)
    BY <1>1, UnchangedOpen
  <1>11. o = "DELETE" => ~(status[d] = "active" /\ c \notin overtaken)
    BY <1>2, <1>5 DEF DocHistory
  <1>12. o = "UPSERT" /\ status[d] = "deleted" => HasOpen(c, "DELETE")
    BY <1>2, <1>3, <1>6 DEF InFlightOf, Upserting, HasOpen
  <1>13. o = "UPSERT" => c \in vectors
    BY <1>2, <1>3, <1>6 DEF InFlightOf
  <1>14. ASSUME NEW b \in Chunks
         PROVE  /\ status[b[1]] = "deleted" /\ points'[b] # 0 => HasOpen(b, "DELETE")
                /\ status[b[1]] = "active" /\ points'[b] \notin {0, version[b[1]]}
                     => HasOpen(b, "UPSERT")
                /\ status[b[1]] = "active" /\ points'[b] = 0 /\ b \notin overtaken
                     => HasOpen(b, "UPSERT")
                /\ points'[b] # 0 => b \in vectors
    <2>1. CASE b = c
      BY <1>2, <1>5, <1>6, <1>11, <1>12, <1>13, <2>1
    <2>2. CASE b # c
      BY <1>6, <2>2 DEF NoOrphanPoints, NoStalePoints, NoLostChunk, VectorsBeforePoints
    <2>. QED  BY <2>1, <2>2
  <1>15. NoOrphanPoints' /\ NoStalePoints' /\ NoLostChunk' /\ VectorsBeforePoints'
    BY <1>1, <1>3, <1>10, <1>14
       DEF NoOrphanPoints, NoStalePoints, NoLostChunk, VectorsBeforePoints, Ops
  <1>. QED  BY <1>7, <1>8, <1>9, <1>15

(* The row of a chunk is only closed when nothing is owed to the chunk, or  *)
(* another row is open.                                                    *)
LEMMA MarkDonePreserves ==
    ASSUME TypeOK, IndexInv, SingleWorker, NEW w \in Workers, MarkDone(w)
    PROVE  IndexInv'
  <1>. USE DEF IndexInv
  <1>1. /\ UNCHANGED docVars /\ UNCHANGED indexVars
        /\ pc[w] = "done" /\ pc'[w] = "idle" /\ seen'[w] = 0
        /\ jobs' = [jobs EXCEPT ![held[w]].status = "DONE"] /\ "DONE" \in JobStatus
    BY DEF MarkDone, Release, TypeOK, JobStatus
  <1>2. PICK h \in 1 .. Len(jobs), c \in Chunks, d \in Docs, o \in Ops :
           /\ h = held[w] /\ c = Chunk(h) /\ d = jobs[h].doc /\ c[1] = d /\ o = jobs[h].op
    BY <1>1, HeldTyped
  <1>3. HeldOf(w) /\ InFlightOf(w) /\ Open(h) /\ \A v \in Workers : v = w
    BY <1>1, <1>2 DEF HeldJobs, HeldOf, InFlight, SingleWorker
  <1>4. /\ \A b \in Chunks, p \in Ops : OtherOpen(h, b, p) => HasOpen(b, p)'
        /\ \A b \in Chunks, p \in Ops : HasOpen(b, p)' => HasOpen(b, p)
        /\ \A b \in Chunks, p \in Ops : HasOpen(b, p) => HasOpen(b, p)' \/ (b = c /\ p = o)
    BY <1>1, <1>2, <1>3, MarkOpen
  <1>5. /\ Len(jobs') = Len(jobs)
        /\ \A i \in 1 .. Len(jobs) : jobs'[i].doc = jobs[i].doc
    BY <1>1, <1>2, RewriteTyped
  <1>6. /\ status' = status /\ version' = version /\ overtaken' = overtaken
        /\ points' = points /\ vectors' = vectors /\ "UPSERT" \in Ops /\ "DELETE" \in Ops
    BY <1>1 DEF docVars, indexVars, Ops
  <1>7. DocHistory'
    BY <1>4, <1>5, <1>6 DEF DocHistory
  <1>8. HeldJobs' /\ InFlight'
    BY <1>1, <1>3 DEF HeldJobs, HeldOf, InFlight, Upserting
  <1>9. o = "DELETE" => points[c] = 0
    BY <1>1, <1>2, <1>3 DEF InFlightOf
  <1>10. o = "UPSERT" /\ status[d] = "active"
           => OtherOpen(h, c, "UPSERT") \/ (points[c] = version[d] /\ version[d] # 0)
    <2>. SUFFICES ASSUME o = "UPSERT", status[d] = "active", ~OtherOpen(h, c, "UPSERT")
                  PROVE  points[c] = version[d] /\ version[d] # 0
      OBVIOUS
    <2>1. seen[w] = version[d]
      BY <1>1, <1>2, <1>3 DEF InFlightOf, OtherOpen
    <2>2. version[d] # 0
      BY DEF DocHistory
    <2>. QED  BY <1>1, <1>2, <1>3, <2>1, <2>2 DEF InFlightOf
  <1>11. ASSUME NEW b \in Chunks
         PROVE  /\ status[b[1]] = "deleted" /\ points[b] # 0 => HasOpen(b, "DELETE")'
                /\ status[b[1]] = "active" /\ points[b] \notin {0, version[b[1]]}
                     => HasOpen(b, "UPSERT")'
                /\ status[b[1]] = "active" /\ points[b] = 0 /\ b \notin overtaken
                     => HasOpen(b, "UPSERT")'
    BY <1>2, <1>4, <1>6, <1>9, <1>10 DEF NoOrphanPoints, NoStalePoints, NoLostChunk
  <1>12. NoOrphanPoints' /\ NoStalePoints' /\ NoLostChunk' /\ VectorsBeforePoints'
    BY <1>6, <1>11 DEF NoOrphanPoints, NoStalePoints, NoLostChunk, VectorsBeforePoints
  <1>. QED  BY <1>7, <1>8, <1>12

LEMMA ComesDuePreserves ==
    ASSUME TypeOK, IndexInv,
           UNCHANGED docVars, UNCHANGED workerVars, UNCHANGED indexVars, UNCHANGED jobs
    PROVE  IndexInv'
  BY DEF docVars, workerVars, indexVars, IndexInv, DocHistory, HeldJobs, HeldOf, InFlight,
         InFlightOf, NoOrphanPoints, NoStalePoints, NoLostChunk, VectorsBeforePoints,
         HasOpen, OtherOpen, Open, Chunk, Upserting

(* With one worker the argument for the document index holds in every       *)
(* reachable state, whatever fails, crashes, is retried or overtakes.      *)
THEOREM IndexSafe ==
    ASSUME SingleWorker
    PROVE  Spec => []IndexInv
<1>1. Init => IndexInv
  <2>. SUFFICES ASSUME Init PROVE IndexInv
    OBVIOUS
  <2>1. /\ \A d \in Docs : status[d] = "none" /\ version[d] = 0
        /\ \A c \in Chunks : points[c] = 0 /\ c[1] \in Docs
        /\ \A w \in Workers : pc[w] = "idle" /\ seen[w] = 0
        /\ \A j \in 1 .. Len(jobs) : FALSE
    BY DEF Init, Chunks
  <2>2. DocHistory
    BY <2>1 DEF DocHistory
  <2>3. HeldJobs /\ InFlight
    BY <2>1 DEF HeldJobs, HeldOf, InFlight, Upserting
  <2>4. NoOrphanPoints /\ NoStalePoints /\ NoLostChunk /\ VectorsBeforePoints
    BY <2>1 DEF NoOrphanPoints, NoStalePoints, NoLostChunk, VectorsBeforePoints
  <2>. QED  BY <2>2, <2>3, <2>4 DEF IndexInv
<1>2. TypeOK /\ IndexInv /\ [Next]_vars => IndexInv'
  <2>. SUFFICES ASSUME TypeOK, IndexInv, [Next]_vars PROVE IndexInv'
    OBVIOUS
  <2>1. ASSUME NEW d \in Docs, docs_put(d) \/ docs_delete(d) PROVE IndexInv'
    BY <2>1, PutPreserves, DeletePreserves
  <2>2. ASSUME NEW w \in Workers, WorkerStep(w) PROVE IndexInv'
    BY <2>2, ClaimPreserves, FetchPreserves, OnwardPreserves, PointPreserves,
       MarkDonePreserves, MarkFailedPreserves DEF WorkerStep
  <2>3. ASSUME NEW w \in Workers, Fail(w) \/ Crash(w) PROVE IndexInv'
    BY <2>3, OnwardPreserves, CrashPreserves
  <2>4. ASSUME NEW j \in 1 .. Len(jobs), ComesDue(j) PROVE IndexInv'
    BY <2>4, ComesDuePreserves DEF ComesDue
  <2>5. CASE UNCHANGED vars
    BY <2>5, ComesDuePreserves DEF vars, docVars, workerVars, indexVars
  <2>. QED  BY <2>1, <2>2, <2>3, <2>4, <2>5 DEF Next
<1>. QED  BY <1>1, <1>2, TypeCorrect, PTL DEF Spec

(* No point of a deleted document is left without a DELETE row of its chunk. *)
THEOREM NoOrphans ==
    ASSUME SingleWorker
    PROVE  Spec => []NoOrphanPoints
<1>1. IndexInv => NoOrphanPoints
  BY DEF IndexInv
<1>. QED  BY <1>1, IndexSafe, PTL

(* No payload of an active document is outdated without an UPSERT row.      *)
THEOREM NoStale ==
    ASSUME SingleWorker
    PROVE  Spec => []NoStalePoints
<1>1. IndexInv => NoStalePoints
  BY DEF IndexInv
<1>. QED  BY <1>1, IndexSafe, PTL

(* No chunk of an active document is missing without an UPSERT row, unless  *)
(* it was put over an open DELETE.                                         *)
THEOREM NoLost ==
    ASSUME SingleWorker
    PROVE  Spec => []NoLostChunk
<1>1. IndexInv => NoLostChunk
  BY DEF IndexInv
<1>. QED  BY <1>1, IndexSafe, PTL

(* What IndexConverges promises holds whenever it may be expected: a chunk  *)
(* none of whose outbox rows is open has the point of its document, unless  *)
(* it was put again over an open DELETE (process_doc_indexing_outbox_once). *)
THEOREM SettledChunksAgree ==
    ASSUME SingleWorker
    PROVE  Spec => [](\A c \in Chunks :
                        status[c[1]] # "none" /\ ~HasOpen(c, "UPSERT") /\ ~HasOpen(c, "DELETE")
                            => IndexAgrees(c))
<1>1. TypeOK /\ IndexInv => \A c \in Chunks :
          status[c[1]] # "none" /\ ~HasOpen(c, "UPSERT") /\ ~HasOpen(c, "DELETE")
              => IndexAgrees(c)
  <2> SUFFICES ASSUME TypeOK, IndexInv, NEW c \in Chunks, status[c[1]] # "none",
                      ~HasOpen(c, "UPSERT"), ~HasOpen(c, "DELETE")
               PROVE  IndexAgrees(c)
    OBVIOUS
  <2>0. c[1] \in Docs
    BY DEF Chunks
  <2>1. CASE status[c[1]] = "active"
    BY <2>1 DEF IndexInv, NoStalePoints, NoLostChunk, IndexAgrees
  <2>2. CASE status[c[1]] = "deleted"
    BY <2>2 DEF IndexInv, NoOrphanPoints, IndexAgrees
  <2>. QED  BY <2>0, <2>1, <2>2 DEF TypeOK
<1>. QED  BY <1>1, IndexSafe, TypeCorrect, PTL

(* No point is in Qdrant without its vector in Postgres.                    *)
THEOREM VectorsFirst ==
    ASSUME SingleWorker
    PROVE  Spec => []VectorsBeforePoints
<1>1. IndexInv => VectorsBeforePoints
  BY DEF IndexInv
<1>. QED  BY <1>1, IndexSafe, PTL

-----------------------------------------------------------------------------
(* The document outbox implements DerivedIndex.                            *)

LEMMA DocSourceEntries ==
    ASSUME TypeOK, IndexInv, NEW c \in Chunks
    PROVE  Source[c] \in Promise!Entries
  <1>1. c[1] \in Docs
    BY DEF Chunks
  <1>2. CASE status[c[1]] = "active"
    <2>1. version[c[1]] \in 1 .. MaxVersion
      BY <1>1, <1>2 DEF TypeOK, IndexInv, DocHistory
    <2>. QED  BY <1>2, <2>1 DEF Source, Promise!Entries
  <1>3. CASE status[c[1]] # "active"
    BY <1>3 DEF Source, Promise!Entries
  <1>. QED  BY <1>2, <1>3

(* Putting or deleting a document writes all its chunks in the source.      *)
LEMMA DocWriteRefines ==
    ASSUME TypeOK, IndexInv, TypeOK', IndexInv',
           NEW d \in Docs, NEW op \in Ops, EnqueueChunks(d, op), UNCHANGED points,
           \A e \in Docs \ {d} : status'[e] = status[e] /\ version'[e] = version[e],
           \A c \in Chunks : c[1] # d => (c \in overtaken' <=> c \in overtaken)
    PROVE  Promise!Next
  <1>. DEFINE S == {c \in Chunks : c[1] = d}
  <1>1. \A c \in Chunks, o \in Ops :
           HasOpen(c, o)' <=> HasOpen(c, o) \/ (c[1] = d /\ o = op)
    BY EnqueueOpen
  <1>2. \A c \in Chunks : c \in Debt' <=> c \in Debt \/ c \in S
    BY <1>1 DEF Debt, Ops
  <1>3. Debt' = Debt \cup S
    <2>1. Debt \subseteq Chunks /\ Debt' \subseteq Chunks /\ S \subseteq Chunks
      BY DEF Debt, TypeOK
    <2>. HIDE DEF S
    <2>. QED  BY <1>2, <2>1
  <1>4. \A c \in Chunks : Source'[c] \in Promise!Entries
    BY DocSourceEntries DEF TypeOK, IndexInv, Source, Promise!Entries, DocHistory, Chunks
  <1>5. Source' \in [Chunks -> Promise!Entries]
    BY <1>4 DEF Source
  <1>6. \A c \in Chunks \ S : Source'[c] = Source[c]
    BY DEF Source, Chunks
  <1>7. Promise!Write(S)
    BY <1>3, <1>5, <1>6, Zenon DEF Promise!Write
  <1>8. S \in SUBSET Chunks
    OBVIOUS
  <1>. QED  BY <1>7, <1>8 DEF Promise!Next

LEMMA DocStutterRefines ==
    ASSUME UNCHANGED docVars, UNCHANGED points, UNCHANGED jobs
    PROVE  UNCHANGED <<Source, points, Debt>>
  BY DEF docVars, Source, Debt, HasOpen, Open, Chunk

(* Handing a row out or failing it leaves it open.                         *)
LEMMA DocRewriteRefines ==
    ASSUME TypeOK, NEW j \in 1 .. Len(jobs), NEW s \in JobStatus \ {"DONE"}, Open(j),
           jobs' = [jobs EXCEPT ![j].status = s], UNCHANGED docVars, UNCHANGED points
    PROVE  UNCHANGED <<Source, points, Debt>>
  <1>1. \A c \in Chunks, o \in Ops : HasOpen(c, o)' <=> HasOpen(c, o)
    BY MarkOpen
  <1>2. \A c \in Chunks : c \in Debt' <=> c \in Debt
    BY <1>1 DEF Debt, Ops, docVars
  <1>3. Debt \subseteq Chunks /\ Debt' \subseteq Chunks
    BY DEF Debt, TypeOK, docVars
  <1>4. Debt' = Debt
    BY <1>2, <1>3
  <1>. QED  BY <1>4 DEF Source, docVars

LEMMA DocMoveRefines ==
    ASSUME TypeOK, IndexInv, NEW w \in Workers, pc[w] # "idle",
           UNCHANGED docVars, UNCHANGED jobs, NEW v \in 0 .. MaxVersion,
           points' = [points EXCEPT ![Chunk(held[w])] = v]
    PROVE  Promise!Next
  <1>1. Chunk(held[w]) \in Chunks /\ jobs[held[w]].op \in Ops /\ held[w] \in 1 .. Len(jobs)
    BY HeldTyped
  <1>2. Open(held[w])
    BY DEF IndexInv, HeldJobs, HeldOf
  <1>3. Chunk(held[w]) \in Debt
    BY <1>1, <1>2 DEF Debt, HasOpen, Ops
  <1>4. UNCHANGED <<Source, Debt>>
    BY DEF docVars, Source, Debt, HasOpen, Open, Chunk
  <1>5. v \in Promise!Entries
    BY DocAssumption DEF Promise!Entries
  <1>6. Promise!Move(Chunk(held[w]))
    BY <1>3, <1>4, <1>5 DEF Promise!Move
  <1>. QED  BY <1>1, <1>6 DEF Promise!Next

LEMMA DocMarkDoneRefines ==
    ASSUME TypeOK, IndexInv, TypeOK', IndexInv', NEW w \in Workers, MarkDone(w)
    PROVE  Promise!Next \/ UNCHANGED <<Source, points, Debt>>
  <1>1. /\ UNCHANGED docVars /\ UNCHANGED points
        /\ pc[w] = "done"
        /\ jobs' = [jobs EXCEPT ![held[w]].status = "DONE"] /\ "DONE" \in JobStatus
    BY DEF MarkDone, indexVars, JobStatus
  <1>2. PICK c \in Chunks, j \in 1 .. Len(jobs), op \in Ops :
           j = held[w] /\ c = Chunk(j) /\ op = jobs[j].op
    BY <1>1, HeldTyped
  <1>3. Open(j)
    BY <1>1, <1>2 DEF IndexInv, HeldJobs, HeldOf
  <1>4. /\ \A b \in Chunks, o \in Ops : HasOpen(b, o) => HasOpen(b, o)' \/ (b = c /\ o = op)
        /\ \A b \in Chunks, o \in Ops : HasOpen(b, o)' => HasOpen(b, o)
    BY <1>1, <1>2, <1>3, MarkOpen
  <1>5. UNCHANGED <<Source, points>> /\ UNCHANGED <<status, version, overtaken>>
    BY <1>1 DEF Source, docVars
  <1>6. c \in Debt
    BY <1>2, <1>3 DEF Debt, HasOpen, Ops
  <1>7. \A b \in Chunks \ {c} : b \in Debt' <=> b \in Debt
    BY <1>4, <1>5 DEF Debt, Ops
  <1>8. Debt \subseteq Chunks /\ Debt' \subseteq Chunks
    BY <1>5 DEF Debt, TypeOK
  <1>9. CASE c \in Debt'
    <2>1. \A b \in Chunks : b \in Debt' <=> b \in Debt
      BY <1>6, <1>7, <1>9
    <2>2. Debt' = Debt
      BY <1>8, <2>1
    <2>. QED  BY <1>5, <2>2
  <1>10. CASE c \notin Debt'
    <2>1. Debt' = Debt \ {c}
      BY <1>6, <1>7, <1>8, <1>10
    <2>2. ~HasOpen(c, "UPSERT")' /\ ~HasOpen(c, "DELETE")' /\ c \notin overtaken'
      BY <1>10 DEF Debt
    <2>3. c[1] \in Docs /\ status[c[1]] # "none" /\ c[1] = jobs[j].doc
      BY <1>2 DEF IndexInv, DocHistory, Chunks, Chunk
    <2>4. points[c] = Source[c]
      <3>1. CASE status[c[1]] = "deleted"
        BY <1>5, <2>2, <3>1 DEF IndexInv, NoOrphanPoints, Source
      <3>2. CASE status[c[1]] = "active"
        BY <1>5, <2>2, <3>2 DEF IndexInv, NoStalePoints, NoLostChunk, Source
      <3>. QED  BY <2>3, <3>1, <3>2 DEF TypeOK
    <2>5. Promise!Settle(c)
      BY <1>5, <1>6, <2>1, <2>4 DEF Promise!Settle
    <2>. QED  BY <2>5 DEF Promise!Next
  <1>. QED  BY <1>9, <1>10

(* Every behaviour of the document outbox and one worker is a behaviour of  *)
(* the derived index, for every number of documents and chunks.            *)
THEOREM DocIndexImplements ==
    ASSUME SingleWorker
    PROVE  Spec => ImplementsDerivedIndex
<1>1. Init => Promise!Init
  BY DEF Init, Promise!Init, Source, Debt, HasOpen, Chunks
<1>2. /\ TypeOK /\ IndexInv /\ TypeOK' /\ IndexInv'
      /\ [Next]_vars
      => [Promise!Next]_(Promise!vars)
  <2>. SUFFICES ASSUME TypeOK, IndexInv, TypeOK', IndexInv', [Next]_vars
                PROVE  Promise!Next \/ UNCHANGED <<Source, points, Debt>>
    BY DEF Promise!vars
  <2>1. ASSUME NEW d \in Docs, docs_put(d) PROVE Promise!Next
    <3>1. EnqueueChunks(d, "UPSERT") /\ "UPSERT" \in Ops /\ UNCHANGED points
      BY <2>1 DEF docs_put, Ops, indexVars
    <3>2. \A e \in Docs \ {d} : status'[e] = status[e] /\ version'[e] = version[e]
      BY <2>1 DEF docs_put, TypeOK
    <3>3. \A c \in Chunks : c[1] # d => (c \in overtaken' <=> c \in overtaken)
      BY <2>1 DEF docs_put
    <3>. QED  BY <3>1, <3>2, <3>3, DocWriteRefines
  <2>2. ASSUME NEW d \in Docs, docs_delete(d) PROVE Promise!Next
    <3>1. EnqueueChunks(d, "DELETE") /\ "DELETE" \in Ops /\ UNCHANGED points
      BY <2>2 DEF docs_delete, Ops, indexVars
    <3>2. \A e \in Docs \ {d} : status'[e] = status[e] /\ version'[e] = version[e]
      BY <2>2 DEF docs_delete, TypeOK
    <3>3. \A c \in Chunks : c[1] # d => (c \in overtaken' <=> c \in overtaken)
      BY <2>2 DEF docs_delete
    <3>. QED  BY <3>1, <3>2, <3>3, DocWriteRefines
  <2>3. ASSUME NEW w \in Workers, NEW j \in 1 .. Len(jobs), Claim(w, j)
        PROVE  UNCHANGED <<Source, points, Debt>>
    <3>1. /\ jobs' = [jobs EXCEPT ![j].status = "CLAIMED"]
          /\ UNCHANGED docVars /\ UNCHANGED points /\ Open(j)
          /\ "CLAIMED" \in JobStatus \ {"DONE"}
      BY <2>3 DEF Claim, indexVars, Open, JobStatus
    <3>. QED  BY <3>1, DocRewriteRefines
  <2>4. ASSUME NEW w \in Workers,
               FetchChunk(w) \/ EmbedChunk(w) \/ StoreVector(w) \/ Fail(w) \/ Crash(w)
        PROVE  UNCHANGED <<Source, points, Debt>>
    BY <2>4, DocStutterRefines
       DEF FetchChunk, EmbedChunk, StoreVector, Fail, Crash, indexVars
  <2>5. ASSUME NEW w \in Workers, upsert_qdrant_doc_chunk(w) PROVE Promise!Next
    <3>1. seen[w] \in 0 .. MaxVersion
      BY DEF TypeOK
    <3>. QED  BY <2>5, <3>1, DocMoveRefines DEF upsert_qdrant_doc_chunk
  <2>6. ASSUME NEW w \in Workers, handle_doc_delete(w) PROVE Promise!Next
    <3>1. 0 \in 0 .. MaxVersion
      BY DocAssumption
    <3>. QED  BY <2>6, <3>1, DocMoveRefines DEF handle_doc_delete
  <2>7. ASSUME NEW w \in Workers, MarkDone(w)
        PROVE  Promise!Next \/ UNCHANGED <<Source, points, Debt>>
    BY <2>7, DocMarkDoneRefines
  <2>8. ASSUME NEW w \in Workers, MarkFailed(w) PROVE UNCHANGED <<Source, points, Debt>>
    <3>1. /\ jobs' = [jobs EXCEPT ![held[w]].status = "FAILED"]
          /\ UNCHANGED docVars /\ UNCHANGED points /\ pc[w] = "failed"
          /\ "FAILED" \in JobStatus \ {"DONE"}
      BY <2>8 DEF MarkFailed, indexVars, JobStatus
    <3>2. held[w] \in 1 .. Len(jobs) /\ Open(held[w])
      BY <3>1, HeldTyped DEF IndexInv, HeldJobs, HeldOf
    <3>. QED  BY <3>1, <3>2, DocRewriteRefines
  <2>9. ASSUME NEW j \in 1 .. Len(jobs), ComesDue(j) PROVE UNCHANGED <<Source, points, Debt>>
    BY <2>9, DocStutterRefines DEF ComesDue, indexVars
  <2>10. CASE UNCHANGED vars
    BY <2>10, DocStutterRefines DEF vars, docVars
  <2>. QED
    BY <2>1, <2>2, <2>3, <2>4, <2>5, <2>6, <2>7, <2>8, <2>9, <2>10 DEF Next, WorkerStep
<1>. QED
  BY <1>1, <1>2, TypeCorrect, IndexSafe, PTL DEF Spec, ImplementsDerivedIndex, Promise!Spec
=============================================================================
