------------------------- MODULE NoteIndexingProofs -------------------------
(***************************************************************************)
(* What NoteIndexing guarantees for every set of notes and every bound.    *)
(* Type correctness holds for any number of workers; the safety theorems   *)
(* are about a deployment that runs one elf-worker, and so is the theorem   *)
(* that NoteIndexing implements DerivedIndex, the index it promises.        *)
(***************************************************************************)
EXTENDS NoteIndexing, TLAPS

(* A step that leaves the outbox rows in place and only rewrites them keeps *)
(* their number and their types.                                           *)
LEMMA RewriteTyped ==
    ASSUME TypeOK,
           NEW j \in 1 .. Len(jobs),
           NEW s \in JobStatus,
           jobs' = [jobs EXCEPT ![j].status = s]
    PROVE  /\ jobs' \in Seq(Job)
           /\ Len(jobs') = Len(jobs)
           /\ jobs'[j] = [jobs[j] EXCEPT !.status = s]
           /\ \A i \in 1 .. Len(jobs) : i # j => jobs'[i] = jobs[i]
           /\ jobs'[j].note = jobs[j].note
           /\ jobs'[j].op = jobs[j].op
           /\ jobs'[j].status = s
  <1>1. jobs[j] \in Job
    BY DEF TypeOK
  <1>2. [jobs[j] EXCEPT !.status = s] \in Job
    BY <1>1 DEF Job
  <1>3. jobs' = [jobs EXCEPT ![j] = [jobs[j] EXCEPT !.status = s]]
    OBVIOUS
  <1>4. jobs' \in Seq(Job) /\ Len(jobs') = Len(jobs)
    BY <1>2, <1>3 DEF TypeOK
  <1>0. jobs \in Seq(Job) /\ DOMAIN jobs = 1 .. Len(jobs)
    BY DEF TypeOK
  <1>5. jobs'[j] = [jobs[j] EXCEPT !.status = s]
    BY <1>0, <1>3
  <1>6. \A i \in 1 .. Len(jobs) : i # j => jobs'[i] = jobs[i]
    BY <1>0, <1>3
  <1>. QED  BY <1>1, <1>4, <1>5, <1>6 DEF Job

(* enqueue_outbox_tx adds one PENDING row behind the others. *)
LEMMA EnqueueTyped ==
    ASSUME TypeOK,
           NEW n \in Notes,
           NEW op \in Ops,
           enqueue_outbox_tx(n, op)
    PROVE  /\ jobs' \in Seq(Job)
           /\ Len(jobs') = Len(jobs) + 1
           /\ Len(jobs') <= MaxJobs
           /\ due' \subseteq 1 .. Len(jobs')
           /\ held \in [Workers -> 0 .. Len(jobs')]
           /\ \A i \in 1 .. Len(jobs) : jobs'[i] = jobs[i]
           /\ jobs'[Len(jobs')] = [note |-> n, op |-> op, status |-> "PENDING"]
  <1>1. [note |-> n, op |-> op, status |-> "PENDING"] \in Job
    BY DEF Job, JobStatus
  <1>2. jobs \in Seq(Job) /\ Len(jobs) \in Nat
    BY DEF TypeOK
  <1>3. /\ jobs' \in Seq(Job)
        /\ Len(jobs') = Len(jobs) + 1
        /\ \A i \in 1 .. Len(jobs) : jobs'[i] = jobs[i]
        /\ jobs'[Len(jobs) + 1] = [note |-> n, op |-> op, status |-> "PENDING"]
    BY <1>1, <1>2 DEF enqueue_outbox_tx
  <1>4. Len(jobs') <= MaxJobs
    BY <1>2, <1>3, BoundsAssumption DEF enqueue_outbox_tx
  <1>5. due' \subseteq 1 .. Len(jobs')
    <2>. SUFFICES ASSUME NEW d \in due' PROVE d \in 1 .. Len(jobs')
      OBVIOUS
    <2>1. d \in due \/ d = Len(jobs) + 1
      BY DEF enqueue_outbox_tx
    <2>2. d \in 1 .. Len(jobs) \/ d = Len(jobs) + 1
      BY <2>1 DEF TypeOK
    <2>. QED  BY <1>2, <1>3, <2>2
  <1>6. held \in [Workers -> 0 .. Len(jobs')]
    <2>1. 0 .. Len(jobs) \subseteq 0 .. Len(jobs')
      BY <1>2, <1>3
    <2>2. held \in [Workers -> 0 .. Len(jobs)]
      BY DEF TypeOK
    <2>. QED  BY <2>1, <2>2
  <1>. QED  BY <1>2, <1>3, <1>4, <1>5, <1>6

LEMMA EnqueueAppends ==
    ASSUME TypeOK, NEW n \in Notes, NEW op \in Ops, enqueue_outbox_tx(n, op)
    PROVE  /\ Len(jobs) \in Nat /\ Len(jobs') = Len(jobs) + 1
           /\ \A i \in 1 .. Len(jobs) : jobs'[i] = jobs[i]
           /\ jobs'[Len(jobs) + 1] = [note |-> n, op |-> op, status |-> "PENDING"]
  <1>1. Len(jobs) \in Nat
    BY DEF TypeOK
  <1>. QED  BY <1>1, EnqueueTyped

LEMMA NewContentTyped ==
    ASSUME TypeOK, NEW n \in Notes, NewContent(n)
    PROVE  version' \in [Notes -> 0 .. MaxVersion]
  BY BoundsAssumption DEF TypeOK, NewContent

(* The job a busy worker holds is a row of the outbox. *)
LEMMA HeldTyped ==
    ASSUME TypeOK, NEW w \in Workers, pc[w] # "idle"
    PROVE  /\ held[w] \in 1 .. Len(jobs)
           /\ jobs[held[w]] \in Job
           /\ Note(w) \in Notes
           /\ HeldOp(w) \in Ops
  <1>1. held[w] \in 1 .. Len(jobs)
    BY DEF TypeOK
  <1>2. jobs[held[w]] \in Job
    BY <1>1 DEF TypeOK
  <1>. QED  BY <1>1, <1>2 DEF Job, Note, HeldOp

LEMMA TypeInit == Init => TypeOK
  <1>. SUFFICES ASSUME Init PROVE TypeOK
    OBVIOUS
  <1>1. jobs \in Seq(Job) /\ Len(jobs) = 0
    BY DEF Init
  <1>2. points \in [Notes -> [text : 0 .. MaxVersion, meta : 0 .. MaxVersion]]
    BY BoundsAssumption DEF Init, NoPoint, Point
  <1>. QED
    BY <1>1, <1>2, BoundsAssumption DEF Init, TypeOK, Statuses, Steps

LEMMA TypeNext == TypeOK /\ [Next]_vars => TypeOK'
  <1>. SUFFICES ASSUME TypeOK, [Next]_vars PROVE TypeOK'
    OBVIOUS
  <1>. USE BoundsAssumption
  <1>1. ASSUME NEW n \in Notes, AddNote(n) PROVE TypeOK'
    BY <1>1, EnqueueTyped, NewContentTyped
       DEF TypeOK, AddNote, Statuses, Ops, workerVars, indexVars
  <1>2. ASSUME NEW n \in Notes, UpdateNote(n) PROVE TypeOK'
    BY <1>2, EnqueueTyped, NewContentTyped
       DEF TypeOK, UpdateNote, Ops, workerVars, indexVars
  <1>3. ASSUME NEW n \in Notes, ResolveKeyedUpdate(n) PROVE TypeOK'
    BY <1>3 DEF TypeOK, ResolveKeyedUpdate, workerVars, indexVars
  <1>4. ASSUME NEW n \in Notes, ApplyKeyedUpdate(n) PROVE TypeOK'
    BY <1>4, EnqueueTyped, NewContentTyped
       DEF TypeOK, ApplyKeyedUpdate, Ops, workerVars, indexVars
  <1>5. ASSUME NEW n \in Notes, KeyedUpdateUnchanged(n) PROVE TypeOK'
    BY <1>5 DEF TypeOK, KeyedUpdateUnchanged, workerVars, indexVars
  <1>6. ASSUME NEW n \in Notes, DeleteNote(n) PROVE TypeOK'
    BY <1>6, EnqueueTyped DEF TypeOK, DeleteNote, Statuses, Ops, workerVars, indexVars
  <1>7. ASSUME NEW n \in Notes, SupersedeNote(n) PROVE TypeOK'
    BY <1>7, EnqueueTyped DEF TypeOK, SupersedeNote, Statuses, Ops, workerVars, indexVars
  <1>8. ASSUME NEW n \in Notes, RestoreNote(n) PROVE TypeOK'
    BY <1>8, EnqueueTyped, NewContentTyped
       DEF TypeOK, RestoreNote, Statuses, Ops, workerVars, indexVars
  <1>9. ASSUME NEW n \in Notes, Expire(n) PROVE TypeOK'
    BY <1>9 DEF TypeOK, Expire, workerVars, indexVars
  <1>10. ASSUME NEW w \in Workers, NEW j \in 1 .. Len(jobs), Claim(w, j) PROVE TypeOK'
    BY <1>10 DEF TypeOK, Claim, Steps, noteVars, indexVars
  <1>11. ASSUME NEW w \in Workers, FetchNote(w) PROVE TypeOK'
    <2>1. pc[w] = "fetch" /\ version[Note(w)] \in 0 .. MaxVersion
      BY <1>11, HeldTyped DEF TypeOK, FetchNote
    <2>2. PICK s \in {"embed", "done"} : pc' = [pc EXCEPT ![w] = s]
      BY <1>11 DEF FetchNote
    <2>3. seen' \in [Workers -> 0 .. MaxVersion]
      BY <1>11, <2>1 DEF TypeOK, FetchNote
    <2>4. UNCHANGED <<jobs, due, held, faults, noteVars, indexVars>>
      BY <1>11 DEF FetchNote
    <2>. QED  BY <2>1, <2>2, <2>3, <2>4 DEF TypeOK, Steps, noteVars, indexVars
  <1>12. ASSUME NEW w \in Workers, EmbedNote(w) PROVE TypeOK'
    BY <1>12 DEF TypeOK, EmbedNote, Steps, noteVars, indexVars
  <1>13. ASSUME NEW w \in Workers, NEW next \in Steps \ {"idle"}, Answer(w, next), pc[w] # "idle",
                UNCHANGED held
         PROVE  /\ pc' \in [Workers -> Steps]
                /\ faults' \in 0 .. MaxFaults
                /\ \A v \in Workers : held'[v] = 0 <=> pc'[v] = "idle"
    <2>1. /\ faults' = faults \/ (faults < MaxFaults /\ faults' = faults + 1)
          /\ pc' = [pc EXCEPT ![w] = next] \/ pc' = [pc EXCEPT ![w] = "failed"]
      BY <1>13 DEF Answer
    <2>2. faults' \in 0 .. MaxFaults
      BY <2>1 DEF TypeOK
    <2>3. PICK s \in Steps \ {"idle"} : pc' = [pc EXCEPT ![w] = s]
      BY <2>1 DEF Steps
    <2>. QED  BY <1>13, <2>2, <2>3 DEF TypeOK
  <1>14. ASSUME NEW w \in Workers, StoreRows(w) PROVE TypeOK'
    <2>1. rows' \in [Notes -> 0 .. MaxVersion]
      BY <1>14 DEF TypeOK, StoreRows
    <2>. QED  BY <1>13, <1>14, <2>1 DEF TypeOK, StoreRows, noteVars, Steps
  <1>15. ASSUME NEW w \in Workers, delete_note_points(w) PROVE TypeOK'
    <2>1. NoPoint \in [text : 0 .. MaxVersion, meta : 0 .. MaxVersion]
      BY DEF NoPoint, Point
    <2>2. points' \in [Notes -> [text : 0 .. MaxVersion, meta : 0 .. MaxVersion]]
      BY <1>15, <2>1 DEF TypeOK, delete_note_points
    <2>3. PICK s \in Steps \ {"idle"} : Answer(w, s)
      BY <1>15 DEF delete_note_points, Steps
    <2>. QED  BY <1>13, <1>15, <2>2, <2>3 DEF TypeOK, delete_note_points, noteVars
  <1>16. ASSUME NEW w \in Workers, upsert_chunks(w) PROVE TypeOK'
    <2>1. Point(seen[w]) \in [text : 0 .. MaxVersion, meta : 0 .. MaxVersion]
      BY DEF TypeOK, Point
    <2>2. points' \in [Notes -> [text : 0 .. MaxVersion, meta : 0 .. MaxVersion]]
      BY <1>16, <2>1 DEF TypeOK, upsert_chunks
    <2>. QED  BY <1>13, <1>16, <2>2 DEF TypeOK, upsert_chunks, noteVars, Steps
  <1>17. ASSUME NEW w \in Workers, MarkDone(w) PROVE TypeOK'
    <2>1. held[w] \in 1 .. Len(jobs)
      BY <1>17 DEF TypeOK, MarkDone
    <2>2. jobs' \in Seq(Job) /\ Len(jobs') = Len(jobs)
      BY <1>17, <2>1, RewriteTyped DEF MarkDone, JobStatus
    <2>. QED  BY <1>17, <2>2 DEF TypeOK, MarkDone, Release, Steps, noteVars, indexVars
  <1>18. ASSUME NEW w \in Workers, MarkFailed(w) PROVE TypeOK'
    <2>1. held[w] \in 1 .. Len(jobs)
      BY <1>18 DEF TypeOK, MarkFailed
    <2>2. jobs' \in Seq(Job) /\ Len(jobs') = Len(jobs)
      BY <1>18, <2>1, RewriteTyped DEF MarkFailed, JobStatus
    <2>. QED  BY <1>18, <2>2 DEF TypeOK, MarkFailed, Release, Steps, noteVars, indexVars
  <1>19. ASSUME NEW w \in Workers, Fail(w) PROVE TypeOK'
    BY <1>19 DEF TypeOK, Fail, Steps, noteVars, indexVars
  <1>20. ASSUME NEW w \in Workers, Crash(w) PROVE TypeOK'
    BY <1>20 DEF TypeOK, Crash, Release, Steps, noteVars, indexVars
  <1>21. ASSUME NEW j \in 1 .. Len(jobs), ComesDue(j) PROVE TypeOK'
    BY <1>21 DEF TypeOK, ComesDue, noteVars, workerVars, indexVars
  <1>22. ASSUME NEW n \in Notes, PromoteNote(n) PROVE TypeOK'
    BY <1>22, EnqueueTyped, NewContentTyped
       DEF TypeOK, PromoteNote, Ops, workerVars, indexVars
  <1>23. CASE UNCHANGED vars
    BY <1>23 DEF TypeOK, vars
  <1>. QED
    BY <1>1, <1>2, <1>3, <1>4, <1>5, <1>6, <1>7, <1>8, <1>9, <1>10, <1>11, <1>12,
       <1>14, <1>15, <1>16, <1>17, <1>18, <1>19, <1>20, <1>21, <1>22, <1>23
       DEF Next, ApiStep, WorkerStep

(* Type correctness for any number of workers. *)
THEOREM TypeCorrect == Spec => []TypeOK
  BY TypeInit, TypeNext, PTL DEF Spec

-----------------------------------------------------------------------------
(* How the open rows of a note change. *)

LEMMA EnqueueOpen ==
    ASSUME TypeOK,
           NEW n \in Notes,
           NEW op \in Ops,
           enqueue_outbox_tx(n, op)
    PROVE  /\ \A j \in 1 .. Len(jobs) : Open(j)' <=> Open(j)
           /\ \A m \in Notes, o \in Ops :
                 HasOpen(m, o)' <=> HasOpen(m, o) \/ (m = n /\ o = op)
           /\ \A j \in 1 .. Len(jobs), m \in Notes, o \in Ops :
                 OtherOpen(j, m, o)' <=> OtherOpen(j, m, o) \/ (m = n /\ o = op)
  <1>1. /\ Len(jobs') = Len(jobs) + 1
        /\ Len(jobs) \in Nat
        /\ \A i \in 1 .. Len(jobs) : jobs'[i] = jobs[i]
        /\ jobs'[Len(jobs) + 1] = [note |-> n, op |-> op, status |-> "PENDING"]
    BY EnqueueAppends
  <1>2. \A j \in 1 .. Len(jobs) : Open(j)' <=> Open(j)
    BY <1>1 DEF Open
  <1>3. \A j : j \in 1 .. Len(jobs') <=> j \in 1 .. Len(jobs) \/ j = Len(jobs) + 1
    BY <1>1
  <1>0. PICK k : k = Len(jobs) + 1
    OBVIOUS
  <1>4. /\ Open(k)' /\ k \notin 1 .. Len(jobs)
        /\ jobs'[k] = [note |-> n, op |-> op, status |-> "PENDING"]
    BY <1>0, <1>1, <1>3 DEF Open
  <1>5. ASSUME NEW m \in Notes, NEW o \in Ops
        PROVE  HasOpen(m, o)' <=> HasOpen(m, o) \/ (m = n /\ o = op)
    BY <1>0, <1>1, <1>2, <1>3, <1>4 DEF HasOpen
  <1>6. ASSUME NEW j \in 1 .. Len(jobs), NEW m \in Notes, NEW o \in Ops
        PROVE  OtherOpen(j, m, o)' <=> OtherOpen(j, m, o) \/ (m = n /\ o = op)
    BY <1>0, <1>1, <1>2, <1>3, <1>4 DEF OtherOpen
  <1>. QED  BY <1>2, <1>5, <1>6

LEMMA UnchangedOpen ==
    ASSUME UNCHANGED jobs
    PROVE  /\ \A j : Open(j)' <=> Open(j)
           /\ \A m, o : HasOpen(m, o)' <=> HasOpen(m, o)
           /\ \A j, m, o : OtherOpen(j, m, o)' <=> OtherOpen(j, m, o)
  BY DEF Open, HasOpen, OtherOpen

LEMMA MarkOpen ==
    ASSUME TypeOK,
           NEW j \in 1 .. Len(jobs),
           NEW s \in JobStatus,
           Open(j),
           jobs' = [jobs EXCEPT ![j].status = s]
    PROVE  /\ \A m \in Notes, o \in Ops : OtherOpen(j, m, o) => HasOpen(m, o)'
           /\ s = "DONE" => \A m \in Notes, o \in Ops :
                 HasOpen(m, o) => HasOpen(m, o)' \/ (m = jobs[j].note /\ o = jobs[j].op)
           /\ \A m \in Notes, o \in Ops : HasOpen(m, o)' => HasOpen(m, o)
           /\ s # "DONE" => \A m \in Notes, o \in Ops : HasOpen(m, o)' <=> HasOpen(m, o)
  <1>1. /\ Len(jobs') = Len(jobs)
        /\ \A i \in 1 .. Len(jobs) : i # j => jobs'[i] = jobs[i]
        /\ jobs'[j].note = jobs[j].note
        /\ jobs'[j].op = jobs[j].op
        /\ jobs'[j].status = s
    BY RewriteTyped
  <1>2. \A i \in 1 .. Len(jobs) : i # j => (Open(i)' <=> Open(i))
    BY <1>1 DEF Open
  <1>3. Open(j)' <=> s # "DONE"
    BY <1>1 DEF Open
  <1>4. \A i \in 1 .. Len(jobs) : jobs'[i].note = jobs[i].note /\ jobs'[i].op = jobs[i].op
    BY <1>1
  <1>. QED  BY <1>1, <1>2, <1>3, <1>4 DEF HasOpen, OtherOpen

-----------------------------------------------------------------------------
(* A write of the API that touches one note, adds rows to the outbox and    *)
(* leaves the worker alone preserves the invariant when it leaves a job for *)
(* what it changed.                                                        *)
LEMMA ApiPreserves ==
    ASSUME TypeOK, IndexInv,
           UNCHANGED workerVars, UNCHANGED indexVars,
           NEW n \in Notes,
           \A m \in Notes \ {n} :
              /\ status'[m] = status[m]
              /\ version'[m] = version[m]
              /\ m \in expired' <=> m \in expired
              /\ m \in resolved' <=> m \in resolved
              /\ m \in overtaken' <=> m \in overtaken
              /\ HasOpen(m, "DELETE")' => HasOpen(m, "DELETE"),
           version[n] \in Nat, version'[n] \in Nat, version[n] <= version'[n],
           Len(jobs) <= Len(jobs'),
           \A j \in 1 .. Len(jobs) : jobs'[j] = jobs[j] /\ (Open(j) => Open(j)'),
           \A j \in 1 .. Len(jobs') : j \notin 1 .. Len(jobs) => jobs'[j].note = n,
           \A m \in Notes, o \in Ops : HasOpen(m, o) => HasOpen(m, o)',
           \A j \in 1 .. Len(jobs), m \in Notes, o \in Ops :
              OtherOpen(j, m, o) => OtherOpen(j, m, o)',
           status'[n] # "none",
           version'[n] # 0,
           status'[n] = "active" /\ n \notin overtaken' => ~HasOpen(n, "DELETE")',
           status'[n] \in Inactive => status[n] \in Inactive \/ HasOpen(n, "DELETE")',
           note_is_active(n)' =>
              \/ note_is_active(n) /\ version'[n] = version[n]
                    /\ (n \in overtaken' <=> n \in overtaken)
              \/ /\ HasOpen(n, "UPSERT")'
                 /\ \A j \in 1 .. Len(jobs) : OtherOpen(j, n, "UPSERT")'
    PROVE  IndexInv'
  <1>. USE DEF IndexInv
  <1>1. /\ pc' = pc /\ held' = held /\ seen' = seen
        /\ rows' = rows /\ points' = points
    BY DEF workerVars, indexVars
  <1>2. \A w \in Workers : pc[w] # "idle" =>
           /\ held[w] \in 1 .. Len(jobs)
           /\ Note(w) \in Notes /\ Note(w)' = Note(w)
           /\ HeldOp(w) \in Ops /\ HeldOp(w)' = HeldOp(w)
    BY <1>1, HeldTyped DEF Note, HeldOp
  <1>3. \A w \in Workers : Upserting(w)' <=> Upserting(w)
    BY <1>1, <1>2 DEF Upserting
  <1>4. \A m \in Notes \ {n} : note_is_active(m)' <=> note_is_active(m)
    BY DEF note_is_active
  <1>5. ASSUME NEW m \in Notes
        PROVE  version[m] <= version'[m] /\ version[m] \in Nat /\ version'[m] \in Nat
    <2>1. CASE m = n
      BY <2>1
    <2>2. CASE m # n
      BY <2>2 DEF TypeOK
    <2>. QED  BY <2>1, <2>2
  <1>6. NoteHistory'
    BY DEF NoteHistory
  <1>7. HeldJobs'
    <2>. SUFFICES ASSUME NEW w \in Workers, pc[w] # "idle"
                  PROVE  /\ Open(held[w])'
                         /\ pc[w] \in {"fetch", "embed", "store", "upsert"} => HeldOp(w) = "UPSERT"
                         /\ seen[w] <= version'[Note(w)]
                         /\ Upserting(w) => seen[w] # 0
                         /\ pc[w] = "fetch" => seen[w] = 0
      BY <1>1, <1>2, <1>3 DEF HeldJobs
    <2>1. Open(held[w])
      BY DEF HeldJobs
    <2>2. Open(held[w])'
      BY <1>1, <1>2, <2>1 DEF Open
    <2>3. seen[w] <= version[Note(w)] /\ seen[w] \in Nat
      BY DEF HeldJobs, TypeOK
    <2>4. seen[w] <= version'[Note(w)]
      BY <1>2, <1>5, <2>3
    <2>. QED  BY <2>2, <2>4 DEF HeldJobs
  <1>8. InFlight'
    <2>. SUFFICES ASSUME NEW w \in Workers, pc[w] # "idle"
                  PROVE  InFlightOf(w)'
      BY <1>1 DEF InFlight
    <2>0. PICK m \in Notes : m = Note(w) /\ m = Note(w)'
      BY <1>2
    <2>1. /\ held[w] \in 1 .. Len(jobs) /\ Note(w) = m /\ Note(w)' = m
          /\ HeldOp(w)' = HeldOp(w) /\ (Upserting(w)' <=> Upserting(w))
      BY <1>2, <1>3, <2>0
    <2>2. InFlightOf(w)
      BY DEF InFlight
    <2>5. Upserting(w) /\ status[m] \in Inactive => HasOpen(m, "DELETE")
      BY <2>1, <2>2 DEF InFlightOf, HasOpen
    <2>3. Upserting(w) /\ status'[m] \in Inactive => HasOpen(m, "DELETE")'
      <3>1. CASE m = n
        BY <2>5, <3>1 DEF Ops
      <3>2. CASE m # n
        BY <2>5, <3>2 DEF Ops
      <3>. QED  BY <3>1, <3>2
    <2>4. /\ Upserting(w) \/ (pc[w] = "done" /\ HeldOp(w) = "UPSERT")
          /\ note_is_active(m)'
          /\ seen[w] # version'[m]
          => OtherOpen(held[w], m, "UPSERT")'
      <3>. SUFFICES ASSUME Upserting(w) \/ (pc[w] = "done" /\ HeldOp(w) = "UPSERT"),
                           note_is_active(m)', seen[w] # version'[m]
                    PROVE  OtherOpen(held[w], m, "UPSERT")'
        OBVIOUS
      <3>1. PICK h \in 1 .. Len(jobs) : h = held[w] /\ h = held'[w]
        BY <1>1, <2>1
      <3>2. OtherOpen(h, m, "UPSERT") => OtherOpen(h, m, "UPSERT")'
        BY <2>1 DEF Ops
      <3>3. note_is_active(m) /\ version'[m] = version[m] => OtherOpen(h, m, "UPSERT")
        BY <2>1, <2>2, <3>1 DEF InFlightOf, OtherOpen, note_is_active
      <3>4. OtherOpen(h, m, "UPSERT")'
        <4>1. CASE m = n
          BY <3>2, <3>3, <4>1
        <4>2. CASE m # n
          BY <1>4, <2>1, <3>2, <3>3, <4>2
        <4>. QED  BY <4>1, <4>2
      <3>. QED  BY <3>1, <3>4 DEF OtherOpen
    <2>. QED
      BY <1>1, <2>1, <2>2, <2>3, <2>4 DEF InFlightOf
  <1>9. RowsArePast'
    BY <1>1, <1>5 DEF RowsArePast, TypeOK
  <1>10. NoOrphanPoints'
    BY <1>1 DEF NoOrphanPoints, Ops
  <1>11. NoStalePoints'
    BY <1>1, <1>4 DEF NoStalePoints, Ops
  <1>12. NoLostNote'
    BY <1>1, <1>4 DEF NoLostNote, Ops
  <1>13. RowsBeforePoints'
    BY <1>1 DEF RowsBeforePoints
  <1>. QED  BY <1>6, <1>7, <1>8, <1>9, <1>10, <1>11, <1>12, <1>13

(* A write of one note that enqueues one job for it. *)
LEMMA ApiWritePreserves ==
    ASSUME TypeOK, IndexInv,
           UNCHANGED workerVars, UNCHANGED indexVars,
           NEW n \in Notes, NEW op \in Ops, enqueue_outbox_tx(n, op),
           \A m \in Notes \ {n} :
              /\ status'[m] = status[m]
              /\ version'[m] = version[m]
              /\ m \in expired' <=> m \in expired
              /\ m \in resolved' <=> m \in resolved
              /\ m \in overtaken' <=> m \in overtaken,
           version'[n] = version[n] \/ version'[n] = version[n] + 1,
           version'[n] # 0,
           status'[n] \in {"active"} \cup Inactive,
           status'[n] = "active" => op = "UPSERT",
           status'[n] \in Inactive => status[n] \in Inactive \/ op = "DELETE",
           status'[n] = "active" /\ n \notin overtaken' => ~HasOpen(n, "DELETE")
    PROVE  IndexInv'
  <1>. USE DEF IndexInv
  <1>1. /\ version \in [Notes -> Nat]
        /\ Len(jobs) \in Nat
    BY DEF TypeOK
  <1>2. /\ Len(jobs') = Len(jobs) + 1
        /\ \A i \in 1 .. Len(jobs) : jobs'[i] = jobs[i]
        /\ jobs'[Len(jobs')] = [note |-> n, op |-> op, status |-> "PENDING"]
    BY EnqueueTyped
  <1>3. \A j \in 1 .. Len(jobs') : j \notin 1 .. Len(jobs) => jobs'[j].note = n
    <2>. SUFFICES ASSUME NEW j \in 1 .. Len(jobs'), j \notin 1 .. Len(jobs)
                  PROVE  jobs'[j].note = n
      OBVIOUS
    <2>1. j = Len(jobs')
      BY <1>1, <1>2
    <2>. QED  BY <1>2, <2>1
  <1>4. /\ Len(jobs) <= Len(jobs')
        /\ version[n] \in Nat /\ version'[n] \in Nat /\ version[n] <= version'[n]
    BY <1>1, <1>2
  <1>5. /\ \A j \in 1 .. Len(jobs) : jobs'[j] = jobs[j] /\ (Open(j) => Open(j)')
        /\ \A m \in Notes, o \in Ops : HasOpen(m, o) => HasOpen(m, o)'
        /\ \A m \in Notes, o \in Ops : HasOpen(m, o)' => HasOpen(m, o) \/ (m = n /\ o = op)
        /\ \A j \in 1 .. Len(jobs), m \in Notes, o \in Ops :
              OtherOpen(j, m, o) => OtherOpen(j, m, o)'
        /\ HasOpen(n, op)'
        /\ \A j \in 1 .. Len(jobs) : OtherOpen(j, n, op)'
    BY <1>2, EnqueueOpen
  <1>6. "DELETE" \in Ops /\ "UPSERT" \in Ops
    BY DEF Ops
  <1>7. \A m \in Notes \ {n} : HasOpen(m, "DELETE")' => HasOpen(m, "DELETE")
    BY <1>5, <1>6
  <1>8. status'[n] # "none"
    BY DEF Inactive
  <1>9. status'[n] = "active" /\ n \notin overtaken' => ~HasOpen(n, "DELETE")'
    BY <1>5, <1>6
  <1>10. status'[n] \in Inactive => status[n] \in Inactive \/ HasOpen(n, "DELETE")'
    BY <1>5
  <1>11. note_is_active(n)' =>
           /\ HasOpen(n, "UPSERT")'
           /\ \A j \in 1 .. Len(jobs) : OtherOpen(j, n, "UPSERT")'
    BY <1>5 DEF note_is_active
  <1>. QED
    BY <1>3, <1>4, <1>5, <1>7, <1>8, <1>9, <1>10, <1>11, ApiPreserves

(* Every write of the API leaves the job its change calls for. *)
LEMMA ApiStepPreserves ==
    ASSUME TypeOK, IndexInv, NEW n \in Notes, ApiStep(n)
    PROVE  IndexInv'
  <1>. USE DEF IndexInv
  <1>1. /\ version \in [Notes -> Nat]
        /\ status \in [Notes -> Statuses]
        /\ "UPSERT" \in Ops /\ "DELETE" \in Ops
    BY DEF TypeOK, Ops
  <1>2. NewContent(n) =>
           /\ \A m \in Notes \ {n} : version'[m] = version[m]
           /\ version'[n] = version[n] + 1
           /\ version'[n] # 0
    BY <1>1 DEF NewContent
  <1>3. /\ status[n] # "none" => version[n] # 0
        /\ status[n] = "none" => n \notin resolved
        /\ status[n] = "active" /\ n \notin overtaken => ~HasOpen(n, "DELETE")
    BY DEF NoteHistory
  <1>5. CASE AddNote(n)
    <2>1. ~HasOpen(n, "DELETE")
      BY <1>5 DEF AddNote, NoteHistory, HasOpen
    <2>. QED
      BY <1>1, <1>2, <1>5, <2>1, ApiWritePreserves DEF AddNote, Inactive
  <1>6. CASE UpdateNote(n)
    BY <1>1, <1>2, <1>3, <1>6, ApiWritePreserves DEF UpdateNote, note_is_active
  <1>7. CASE ApplyKeyedUpdate(n)
    <2>1. status[n] \in {"active"} \cup Inactive
      BY <1>1, <1>3, <1>7 DEF ApplyKeyedUpdate, Statuses, Inactive
    <2>. QED
      BY <1>1, <1>2, <1>3, <1>7, <2>1, ApiWritePreserves DEF ApplyKeyedUpdate, Inactive
  <1>8. CASE DeleteNote(n)
    BY <1>1, <1>3, <1>8, ApiWritePreserves DEF DeleteNote, Inactive
  <1>9. CASE SupersedeNote(n)
    BY <1>1, <1>3, <1>9, ApiWritePreserves DEF SupersedeNote, Inactive
  <1>10. CASE RestoreNote(n)
    BY <1>1, <1>2, <1>10, ApiWritePreserves DEF RestoreNote
  <1>11. CASE ResolveKeyedUpdate(n) \/ KeyedUpdateUnchanged(n) \/ Expire(n)
    <2>1. /\ UNCHANGED <<status, version, overtaken, jobs, due>>
          /\ UNCHANGED workerVars /\ UNCHANGED indexVars
          /\ \A m \in Notes \ {n} : /\ m \in expired' <=> m \in expired
                                    /\ m \in resolved' <=> m \in resolved
          /\ n \in expired => n \in expired'
          /\ status[n] # "none"
      BY <1>11 DEF ResolveKeyedUpdate, KeyedUpdateUnchanged, Expire, NoteHistory, note_is_active
    <2>2. version[n] # 0
      BY <2>1 DEF NoteHistory
    <2>3. note_is_active(n)' => note_is_active(n)
      BY <2>1 DEF note_is_active
    <2>4. version[n] \in Nat /\ Len(jobs) \in Nat
      BY <1>1 DEF TypeOK
    <2>. QED
      BY <1>1, <1>3, <2>1, <2>2, <2>3, <2>4, UnchangedOpen, ApiPreserves
  <1>12. CASE PromoteNote(n)
    BY <1>1, <1>2, <1>3, <1>12, ApiWritePreserves DEF PromoteNote
  <1>. QED
    BY <1>5, <1>6, <1>7, <1>8, <1>9, <1>10, <1>11, <1>12 DEF ApiStep

-----------------------------------------------------------------------------
(* The steps of the only worker. *)

(* A worker step that leaves the rows of the outbox and the index alone and *)
(* keeps what is known of the job in hand preserves the invariant.         *)
LEMMA QuietStepPreserves ==
    ASSUME TypeOK, IndexInv, SingleWorker,
           UNCHANGED noteVars, UNCHANGED indexVars, UNCHANGED jobs,
           NEW w \in Workers,
           pc'[w] # "idle" => /\ Open(held[w])'
                              /\ pc'[w] \in {"fetch", "embed", "store", "upsert"}
                                    => HeldOp(w)' = "UPSERT"
                              /\ seen'[w] <= version[Note(w)']
                              /\ Upserting(w)' => seen'[w] # 0
                              /\ pc'[w] = "fetch" => seen'[w] = 0
                              /\ InFlightOf(w)'
    PROVE  IndexInv'
  <1>. USE DEF IndexInv
  <1>1. \A v \in Workers : v = w
    BY DEF SingleWorker
  <1>2. NoteHistory'
    BY UnchangedOpen DEF NoteHistory, noteVars
  <1>3. version' = version
    BY DEF noteVars
  <1>4. HeldJobs'
    BY <1>1, <1>3 DEF HeldJobs
  <1>5. InFlight'
    BY <1>1 DEF InFlight
  <1>6. RowsArePast' /\ RowsBeforePoints'
    BY DEF RowsArePast, RowsBeforePoints, noteVars, indexVars
  <1>7. NoOrphanPoints' /\ NoStalePoints' /\ NoLostNote'
    BY UnchangedOpen
       DEF NoOrphanPoints, NoStalePoints, NoLostNote, note_is_active, noteVars, indexVars
  <1>. QED  BY <1>2, <1>4, <1>5, <1>6, <1>7

LEMMA ClaimPreserves ==
    ASSUME TypeOK, IndexInv, SingleWorker,
           NEW w \in Workers, NEW j \in 1 .. Len(jobs), Claim(w, j)
    PROVE  IndexInv'
  <1>1. /\ UNCHANGED noteVars /\ UNCHANGED indexVars /\ UNCHANGED jobs
        /\ held'[w] = j /\ seen'[w] = 0
        /\ pc'[w] = IF jobs[j].op = "UPSERT" THEN "fetch" ELSE "clear"
    BY DEF Claim, TypeOK
  <1>2. Open(held[w])'
    BY <1>1 DEF Open, Claim
  <1>3. HeldOp(w)' = jobs[j].op /\ Note(w)' = jobs[j].note
    BY <1>1 DEF HeldOp, Note
  <1>4. jobs[j] \in Job
    BY DEF TypeOK
  <1>5. 0 <= version[jobs[j].note]
    <2>1. jobs[j].note \in Notes
      BY <1>4 DEF Job
    <2>2. version[jobs[j].note] \in 0 .. MaxVersion
      BY <2>1 DEF TypeOK
    <2>. QED  BY <2>2, BoundsAssumption
  <1>6. ~Upserting(w)' /\ pc'[w] # "done" /\ pc'[w] \notin {"embed", "store"}
    BY <1>1, <1>3 DEF Upserting
  <1>7. InFlightOf(w)'
    BY <1>1, <1>3, <1>6 DEF InFlightOf
  <1>. QED
    BY <1>1, <1>2, <1>3, <1>5, <1>6, <1>7, QuietStepPreserves

LEMMA FetchPreserves ==
    ASSUME TypeOK, IndexInv, SingleWorker, NEW w \in Workers, FetchNote(w)
    PROVE  IndexInv'
  <1>1. /\ UNCHANGED noteVars /\ UNCHANGED indexVars /\ UNCHANGED jobs
        /\ held' = held /\ pc[w] = "fetch"
    BY DEF FetchNote
  <1>2. PICK m \in Notes : m = Note(w) /\ m = Note(w)'
    BY <1>1, HeldTyped DEF Note
  <1>3. Open(held[w])' /\ HeldOp(w) = "UPSERT" /\ HeldOp(w)' = "UPSERT" /\ seen[w] <= version[m]
    BY <1>1, <1>2 DEF IndexInv, HeldJobs, Open, HeldOp
  <1>4. CASE note_is_active(m)
    <2>1. pc'[w] = "embed" /\ seen'[w] = version[m]
      BY <1>2, <1>4 DEF FetchNote, TypeOK
    <2>2. version[m] # 0 /\ status[m] \notin Inactive /\ version[m] \in Nat
      BY <1>4 DEF IndexInv, NoteHistory, note_is_active, Inactive, TypeOK
    <2>3. rows[m] <= seen'[w]
      BY <2>1 DEF IndexInv, RowsArePast
    <2>4. /\ status' = status /\ version' = version /\ rows' = rows
      BY <1>1 DEF noteVars, indexVars
    <2>5. InFlightOf(w)'
      BY <1>2, <2>1, <2>2, <2>3, <2>4 DEF InFlightOf
    <2>. QED
      BY <1>1, <1>2, <1>3, <2>1, <2>2, <2>5, QuietStepPreserves
  <1>5. CASE ~note_is_active(m)
    <2>1. pc'[w] = "done" /\ seen' = seen
      BY <1>2, <1>5 DEF FetchNote, TypeOK
    <2>2. ~note_is_active(m)'
      BY <1>1, <1>5 DEF note_is_active, noteVars
    <2>3. seen'[w] = 0
      BY <1>1, <2>1 DEF IndexInv, HeldJobs
    <2>4. InFlightOf(w)' /\ ~Upserting(w)'
      BY <1>2, <1>3, <2>1, <2>2, <2>3 DEF InFlightOf, Upserting, note_is_active
    <2>. QED
      BY <1>1, <1>2, <1>3, <2>1, <2>4, QuietStepPreserves
  <1>. QED  BY <1>4, <1>5

LEMMA EmbedPreserves ==
    ASSUME TypeOK, IndexInv, SingleWorker, NEW w \in Workers, EmbedNote(w)
    PROVE  IndexInv'
  <1>1. /\ UNCHANGED noteVars /\ UNCHANGED indexVars /\ UNCHANGED jobs
        /\ held' = held /\ seen' = seen /\ pc[w] = "embed" /\ pc'[w] = "store"
    BY DEF EmbedNote, TypeOK
  <1>2. PICK m \in Notes : m = Note(w) /\ m = Note(w)'
    BY <1>1, HeldTyped DEF Note
  <1>3. /\ Open(held[w])' /\ HeldOp(w) = "UPSERT" /\ HeldOp(w)' = "UPSERT"
        /\ seen[w] <= version[m] /\ seen[w] # 0 /\ Upserting(w)
    BY <1>1, <1>2 DEF IndexInv, HeldJobs, Open, HeldOp, Upserting
  <1>4. InFlightOf(w)
    BY <1>1 DEF IndexInv, InFlight
  <1>5. InFlightOf(w)'
    BY <1>1, <1>2, <1>3, <1>4, UnchangedOpen
       DEF InFlightOf, noteVars, indexVars, note_is_active, HasOpen, OtherOpen, Open
  <1>. QED
    BY <1>1, <1>2, <1>3, <1>5, QuietStepPreserves

LEMMA FailPreserves ==
    ASSUME TypeOK, IndexInv, SingleWorker, NEW w \in Workers, Fail(w)
    PROVE  IndexInv'
  <1>1. /\ UNCHANGED noteVars /\ UNCHANGED indexVars /\ UNCHANGED jobs
        /\ held' = held /\ seen' = seen /\ pc[w] # "idle" /\ pc'[w] = "failed"
    BY DEF Fail, TypeOK
  <1>2. Open(held[w])' /\ seen[w] <= version[Note(w)] /\ Note(w)' = Note(w)
    BY <1>1 DEF IndexInv, HeldJobs, Open, Note
  <1>3. InFlightOf(w)' /\ ~Upserting(w)'
    BY <1>1 DEF InFlightOf, Upserting
  <1>. QED
    BY <1>1, <1>2, <1>3, QuietStepPreserves

LEMMA CrashPreserves ==
    ASSUME TypeOK, IndexInv, SingleWorker, NEW w \in Workers, Crash(w)
    PROVE  IndexInv'
  <1>1. /\ UNCHANGED noteVars /\ UNCHANGED indexVars /\ UNCHANGED jobs
        /\ pc'[w] = "idle"
    BY DEF Crash, Release, TypeOK
  <1>. QED
    BY <1>1, QuietStepPreserves

(* The rows move to a content the worker has read, never back. *)
LEMMA StorePreserves ==
    ASSUME TypeOK, IndexInv, SingleWorker, NEW w \in Workers, StoreRows(w)
    PROVE  IndexInv'
  <1>. USE DEF IndexInv
  <1>1. /\ UNCHANGED noteVars /\ UNCHANGED jobs /\ points' = points
        /\ held' = held /\ seen' = seen /\ pc[w] = "store"
        /\ pc'[w] \in {"clear", "failed"}
    BY DEF StoreRows, Answer, TypeOK
  <1>2. PICK m \in Notes : m = Note(w) /\ m = Note(w)'
    BY <1>1, HeldTyped DEF Note
  <1>3. /\ Open(held[w])' /\ HeldOp(w) = "UPSERT" /\ HeldOp(w)' = "UPSERT"
        /\ seen[w] <= version[m] /\ seen[w] # 0 /\ Upserting(w)
    BY <1>1, <1>2 DEF HeldJobs, Open, HeldOp, Upserting
  <1>4. InFlightOf(w) /\ rows[m] <= seen[w]
    BY <1>1, <1>2 DEF InFlight, InFlightOf
  <1>5. rows' = [rows EXCEPT ![m] = seen[w]]
    BY <1>2 DEF StoreRows
  <1>6. rows'[m] = seen[w] /\ \A n \in Notes \ {m} : rows'[n] = rows[n]
    BY <1>5 DEF TypeOK
  <1>7. \A v \in Workers : v = w
    BY DEF SingleWorker
  <1>8. InFlight'
    <2>1. InFlightOf(w)'
      BY <1>1, <1>2, <1>3, <1>4, <1>6
         DEF InFlightOf, Upserting, noteVars, note_is_active, HasOpen, OtherOpen, Open
    <2>. QED  BY <1>7, <2>1 DEF InFlight
  <1>9. HeldJobs'
    BY <1>1, <1>2, <1>3, <1>7 DEF HeldJobs, noteVars, Upserting
  <1>10. NoteHistory'
    BY <1>1, UnchangedOpen DEF NoteHistory, noteVars
  <1>11. RowsArePast'
    BY <1>1, <1>3, <1>6 DEF RowsArePast, noteVars
  <1>12. RowsBeforePoints'
    <2>1. points[m].text \in Nat /\ rows[m] \in Nat /\ seen[w] \in Nat
      BY DEF TypeOK
    <2>. QED  BY <1>1, <1>4, <1>6, <2>1 DEF RowsBeforePoints
  <1>13. NoOrphanPoints' /\ NoStalePoints' /\ NoLostNote'
    BY <1>1, UnchangedOpen
       DEF NoOrphanPoints, NoStalePoints, NoLostNote, note_is_active, noteVars
  <1>. QED  BY <1>8, <1>9, <1>10, <1>11, <1>12, <1>13

(* Points only disappear while a job that will settle them is open, unless  *)
(* the note was overtaken.                                                 *)
LEMMA ClearPreserves ==
    ASSUME TypeOK, IndexInv, SingleWorker, NEW w \in Workers, delete_note_points(w)
    PROVE  IndexInv'
  <1>. USE DEF IndexInv
  <1>1. /\ UNCHANGED noteVars /\ UNCHANGED jobs /\ rows' = rows
        /\ held' = held /\ seen' = seen /\ pc[w] = "clear"
        /\ pc'[w] \in {"upsert", "done", "failed"}
        /\ pc'[w] = "upsert" => HeldOp(w) = "UPSERT"
        /\ pc'[w] = "done" => HeldOp(w) # "UPSERT"
    BY DEF delete_note_points, Answer, TypeOK, HeldOp
  <1>2. PICK m \in Notes : m = Note(w) /\ m = Note(w)'
    BY <1>1, HeldTyped DEF Note
  <1>3. /\ Open(held[w]) /\ Open(held[w])' /\ HeldOp(w)' = HeldOp(w) /\ HeldOp(w) \in Ops
        /\ seen[w] <= version[m] /\ (HeldOp(w) = "UPSERT" => seen[w] # 0)
        /\ (HeldOp(w) = "UPSERT" => Upserting(w))
    BY <1>1, <1>2, HeldTyped DEF HeldJobs, Open, HeldOp, Upserting
  <1>4. InFlightOf(w)
    BY <1>1 DEF InFlight
  <1>5. points' = [points EXCEPT ![m] = NoPoint]
    BY <1>2 DEF delete_note_points
  <1>6. points'[m] = NoPoint /\ \A n \in Notes \ {m} : points'[n] = points[n]
    BY <1>5 DEF TypeOK
  <1>7. \A v \in Workers : v = w
    BY DEF SingleWorker
  <1>8. InFlight'
    <2>1. InFlightOf(w)'
      BY <1>1, <1>2, <1>3, <1>4, <1>6
         DEF InFlightOf, Upserting, noteVars, note_is_active, HasOpen, OtherOpen, Open
    <2>. QED  BY <1>7, <2>1 DEF InFlight
  <1>9. HeldJobs'
    BY <1>1, <1>2, <1>3, <1>7 DEF HeldJobs, noteVars, Upserting
  <1>10. NoteHistory'
    BY <1>1, UnchangedOpen DEF NoteHistory, noteVars
  <1>11. RowsArePast'
    BY <1>1 DEF RowsArePast, noteVars
  <1>12. RowsBeforePoints'
    <2>1. NoPoint.text = 0 /\ rows[m] \in Nat
      BY DEF TypeOK, NoPoint, Point
    <2>. QED  BY <1>1, <1>6, <2>1 DEF RowsBeforePoints
  <1>13. NoOrphanPoints' /\ NoStalePoints'
    BY <1>1, <1>6, UnchangedOpen
       DEF NoOrphanPoints, NoStalePoints, note_is_active, noteVars
  <1>14. NoLostNote'
    <2>1. HasOpen(m, HeldOp(w))
      BY <1>2, <1>3 DEF HasOpen, Open, HeldOp, Note
    <2>2. CASE HeldOp(w) = "UPSERT"
      BY <1>1, <1>6, <2>1, <2>2, UnchangedOpen DEF NoLostNote, note_is_active, noteVars
    <2>3. CASE HeldOp(w) = "DELETE"
      <3>1. ~(status[m] = "active" /\ m \notin overtaken)
        BY <2>1, <2>3 DEF NoteHistory
      <3>. QED
        BY <1>1, <1>6, <3>1, UnchangedOpen DEF NoLostNote, note_is_active, noteVars
    <2>. QED  BY <1>3, <2>2, <2>3 DEF Ops
  <1>. QED  BY <1>8, <1>9, <1>10, <1>11, <1>12, <1>13, <1>14

(* New points are those of rows in place, and their job is still open. *)
LEMMA UpsertPreserves ==
    ASSUME TypeOK, IndexInv, SingleWorker, NEW w \in Workers, upsert_chunks(w)
    PROVE  IndexInv'
  <1>. USE DEF IndexInv
  <1>1. /\ UNCHANGED noteVars /\ UNCHANGED jobs /\ rows' = rows
        /\ held' = held /\ seen' = seen /\ pc[w] = "upsert"
        /\ pc'[w] \in {"done", "failed"}
    BY DEF upsert_chunks, Answer, TypeOK
  <1>2. PICK m \in Notes : m = Note(w) /\ m = Note(w)'
    BY <1>1, HeldTyped DEF Note
  <1>3. /\ Open(held[w]) /\ Open(held[w])' /\ HeldOp(w)' = HeldOp(w) /\ HeldOp(w) = "UPSERT"
        /\ seen[w] <= version[m] /\ seen[w] # 0 /\ Upserting(w)
    BY <1>1, <1>2, HeldTyped DEF HeldJobs, Open, HeldOp, Upserting
  <1>4. InFlightOf(w) /\ rows[m] = seen[w]
    BY <1>1, <1>2, <1>3 DEF InFlight, InFlightOf
  <1>5. points' = [points EXCEPT ![m] = Point(seen[w])]
    BY <1>2 DEF upsert_chunks
  <1>6. points'[m] = Point(seen[w]) /\ \A n \in Notes \ {m} : points'[n] = points[n]
    BY <1>5 DEF TypeOK
  <1>7. \A v \in Workers : v = w
    BY DEF SingleWorker
  <1>8. InFlight'
    <2>1. InFlightOf(w)'
      BY <1>1, <1>2, <1>3, <1>4, <1>6
         DEF InFlightOf, Upserting, noteVars, note_is_active, HasOpen, OtherOpen, Open
    <2>. QED  BY <1>7, <2>1 DEF InFlight
  <1>9. HeldJobs'
    BY <1>1, <1>2, <1>3, <1>7 DEF HeldJobs, noteVars, Upserting
  <1>10. NoteHistory'
    BY <1>1, UnchangedOpen DEF NoteHistory, noteVars
  <1>11. RowsArePast'
    BY <1>1 DEF RowsArePast, noteVars
  <1>12. RowsBeforePoints'
    <2>1. Point(seen[w]).text = seen[w] /\ seen[w] \in Nat
      BY DEF TypeOK, Point
    <2>. QED  BY <1>1, <1>4, <1>6, <2>1 DEF RowsBeforePoints
  <1>13. HasOpen(m, "UPSERT")
    BY <1>2, <1>3 DEF HasOpen, Open, HeldOp, Note
  <1>14. status[m] \in Inactive => HasOpen(m, "DELETE")
    BY <1>2, <1>3, <1>4 DEF InFlightOf, HasOpen
  <1>15. NoOrphanPoints'
    BY <1>1, <1>6, <1>14, UnchangedOpen DEF NoOrphanPoints, noteVars
  <1>16. NoStalePoints' /\ NoLostNote'
    BY <1>1, <1>6, <1>13, UnchangedOpen
       DEF NoStalePoints, NoLostNote, note_is_active, noteVars
  <1>. QED  BY <1>8, <1>9, <1>10, <1>11, <1>12, <1>15, <1>16

(* The last open job of a note is only closed when nothing is owed to it.  *)
LEMMA MarkDonePreserves ==
    ASSUME TypeOK, IndexInv, SingleWorker, NEW w \in Workers, MarkDone(w)
    PROVE  IndexInv'
  <1>. USE DEF IndexInv
  <1>1. /\ UNCHANGED noteVars /\ UNCHANGED indexVars
        /\ pc[w] = "done" /\ pc'[w] = "idle"
        /\ jobs' = [jobs EXCEPT ![held[w]].status = "DONE"]
    BY DEF MarkDone, Release, TypeOK
  <1>2. PICK m \in Notes, j \in 1 .. Len(jobs), op \in Ops :
           /\ j = held[w] /\ m = Note(w) /\ op = HeldOp(w)
           /\ m = jobs[j].note /\ op = jobs[j].op
    BY <1>1, HeldTyped DEF Note, HeldOp
  <1>3. Open(j)
    BY <1>1, <1>2 DEF HeldJobs
  <1>4. /\ jobs' = [jobs EXCEPT ![j].status = "DONE"]
        /\ "DONE" \in JobStatus
    BY <1>1, <1>2 DEF JobStatus
  <1>5. /\ \A n \in Notes, o \in Ops : OtherOpen(j, n, o) => HasOpen(n, o)'
        /\ \A n \in Notes, o \in Ops :
              HasOpen(n, o) => HasOpen(n, o)' \/ (n = m /\ o = op)
        /\ \A n \in Notes, o \in Ops : HasOpen(n, o)' => HasOpen(n, o)
    BY <1>2, <1>3, <1>4, MarkOpen
  <1>6. \A i \in 1 .. Len(jobs') : i \in 1 .. Len(jobs) /\ jobs'[i].note = jobs[i].note
    BY <1>4, RewriteTyped
  <1>7. InFlightOf(w) /\ \A v \in Workers : v = w
    BY <1>1 DEF InFlight, SingleWorker
  <1>8. HeldJobs' /\ InFlight'
    BY <1>1, <1>7 DEF HeldJobs, InFlight
  <1>9. NoteHistory'
    BY <1>1, <1>5, <1>6 DEF NoteHistory, noteVars, Ops
  <1>10. RowsArePast' /\ RowsBeforePoints'
    BY <1>1 DEF RowsArePast, RowsBeforePoints, noteVars, indexVars
  <1>11. ASSUME op = "DELETE" PROVE points[m] = NoPoint
    BY <1>1, <1>2, <1>7, <1>11 DEF InFlightOf
  <1>12. ASSUME op = "UPSERT", note_is_active(m)
         PROVE  OtherOpen(j, m, "UPSERT") \/ (points[m] = Point(version[m]) /\ version[m] # 0)
    <2>1. CASE seen[w] # version[m]
      BY <1>1, <1>2, <1>7, <1>12, <2>1 DEF InFlightOf
    <2>2. CASE seen[w] = version[m]
      <3>1. version[m] # 0
        BY <1>12 DEF NoteHistory, note_is_active
      <3>. QED  BY <1>1, <1>2, <1>7, <1>12, <2>2, <3>1 DEF InFlightOf
    <2>. QED  BY <2>1, <2>2
  <1>13. status' = status /\ version' = version /\ points' = points /\ overtaken' = overtaken
         /\ \A n : note_is_active(n)' <=> note_is_active(n)
    BY <1>1 DEF noteVars, indexVars, note_is_active
  <1>14. NoOrphanPoints'
    BY <1>5, <1>11, <1>13 DEF NoOrphanPoints, Ops
  <1>15. NoStalePoints'
    BY <1>5, <1>12, <1>13 DEF NoStalePoints, Ops
  <1>16. Point(version[m]) = NoPoint => version[m] = 0
    BY DEF Point, NoPoint
  <1>17. NoLostNote'
    BY <1>5, <1>12, <1>13, <1>16 DEF NoLostNote, Ops
  <1>. QED  BY <1>8, <1>9, <1>10, <1>14, <1>15, <1>17

(* A failed job stays open and is forgotten by its worker. *)
LEMMA MarkFailedPreserves ==
    ASSUME TypeOK, IndexInv, SingleWorker, NEW w \in Workers, MarkFailed(w)
    PROVE  IndexInv'
  <1>. USE DEF IndexInv
  <1>1. /\ UNCHANGED noteVars /\ UNCHANGED indexVars
        /\ pc[w] = "failed" /\ pc'[w] = "idle"
        /\ jobs' = [jobs EXCEPT ![held[w]].status = "FAILED"]
    BY DEF MarkFailed, Release, TypeOK
  <1>2. PICK j \in 1 .. Len(jobs) : j = held[w]
    BY <1>1, HeldTyped
  <1>3. Open(j)
    BY <1>1, <1>2 DEF HeldJobs
  <1>4. /\ jobs' = [jobs EXCEPT ![j].status = "FAILED"]
        /\ "FAILED" \in JobStatus
    BY <1>1, <1>2 DEF JobStatus
  <1>5. \A n \in Notes, o \in Ops : HasOpen(n, o)' <=> HasOpen(n, o)
    BY <1>2, <1>3, <1>4, MarkOpen
  <1>6. \A i \in 1 .. Len(jobs') : i \in 1 .. Len(jobs) /\ jobs'[i].note = jobs[i].note
    BY <1>4, RewriteTyped
  <1>7. HeldJobs' /\ InFlight'
    BY <1>1 DEF HeldJobs, InFlight, SingleWorker
  <1>8. NoteHistory'
    BY <1>1, <1>5, <1>6 DEF NoteHistory, noteVars, Ops
  <1>9. RowsArePast' /\ RowsBeforePoints'
    BY <1>1 DEF RowsArePast, RowsBeforePoints, noteVars, indexVars
  <1>10. NoOrphanPoints' /\ NoStalePoints' /\ NoLostNote'
    BY <1>1, <1>5
       DEF NoOrphanPoints, NoStalePoints, NoLostNote, note_is_active, noteVars, indexVars, Ops
  <1>. QED  BY <1>7, <1>8, <1>9, <1>10

LEMMA ComesDuePreserves ==
    ASSUME TypeOK, IndexInv, NEW j \in 1 .. Len(jobs), ComesDue(j)
    PROVE  IndexInv'
  BY DEF ComesDue, noteVars, workerVars, indexVars, IndexInv, NoteHistory, HeldJobs, InFlight,
         InFlightOf, RowsArePast, NoOrphanPoints, NoStalePoints, NoLostNote, RowsBeforePoints,
         HasOpen, OtherOpen, Open, Upserting, HeldOp, Note, note_is_active

-----------------------------------------------------------------------------
(* With one worker, every part of the argument for a correct index holds in *)
(* every reachable state, whatever fails, crashes, is retried or overtakes. *)
THEOREM IndexSafe ==
    ASSUME SingleWorker
    PROVE  Spec => []IndexInv
<1>1. Init => IndexInv
  <2>. SUFFICES ASSUME Init PROVE IndexInv
    OBVIOUS
  <2>1. /\ \A n \in Notes : status[n] = "none" /\ version[n] = 0 /\ rows[n] = 0
        /\ \A n \in Notes : points[n] = NoPoint /\ NoPoint.text = 0
        /\ \A w \in Workers : pc[w] = "idle"
        /\ resolved = {} /\ Len(jobs) = 0
    BY DEF Init, NoPoint, Point
  <2>2. NoteHistory
    <3>1. \A j \in 1 .. Len(jobs) : FALSE
      BY <2>1
    <3>. QED  BY <2>1, <3>1 DEF NoteHistory
  <2>3. HeldJobs /\ InFlight
    BY <2>1 DEF HeldJobs, InFlight
  <2>4. RowsArePast /\ RowsBeforePoints
    BY <2>1 DEF RowsArePast, RowsBeforePoints
  <2>5. NoOrphanPoints /\ NoStalePoints /\ NoLostNote
    BY <2>1 DEF NoOrphanPoints, NoStalePoints, NoLostNote, note_is_active
  <2>. QED  BY <2>2, <2>3, <2>4, <2>5 DEF IndexInv
<1>2. TypeOK /\ IndexInv /\ [Next]_vars => IndexInv'
  <2>. SUFFICES ASSUME TypeOK, IndexInv, [Next]_vars PROVE IndexInv'
    OBVIOUS
  <2>1. ASSUME NEW n \in Notes, ApiStep(n) PROVE IndexInv'
    BY <2>1, ApiStepPreserves
  <2>2. ASSUME NEW w \in Workers, WorkerStep(w) PROVE IndexInv'
    BY <2>2, ClaimPreserves, FetchPreserves, EmbedPreserves, StorePreserves, ClearPreserves,
       UpsertPreserves, MarkDonePreserves, MarkFailedPreserves DEF WorkerStep
  <2>3. ASSUME NEW w \in Workers, Fail(w) \/ Crash(w) PROVE IndexInv'
    BY <2>3, FailPreserves, CrashPreserves
  <2>4. ASSUME NEW j \in 1 .. Len(jobs), ComesDue(j) PROVE IndexInv'
    BY <2>4, ComesDuePreserves
  <2>5. CASE UNCHANGED vars
    BY <2>5 DEF vars, IndexInv, NoteHistory, HeldJobs, InFlight, InFlightOf, RowsArePast,
       NoOrphanPoints, NoStalePoints, NoLostNote, RowsBeforePoints, HasOpen, OtherOpen, Open,
       Upserting, HeldOp, Note, note_is_active
  <2>. QED  BY <2>1, <2>2, <2>3, <2>4, <2>5 DEF Next
<1>. QED  BY <1>1, <1>2, TypeCorrect, PTL DEF Spec

(* A deleted or deprecated note has no points once its DELETE is handled.  *)
THEOREM NoOrphans ==
    ASSUME SingleWorker
    PROVE  Spec => []NoOrphanPoints
<1>1. IndexInv => NoOrphanPoints
  BY DEF IndexInv
<1>. QED  BY <1>1, IndexSafe, PTL

(* Points of an older content are only seen while the UPSERT of the newer   *)
(* one is still to be handled.                                             *)
THEOREM NoStale ==
    ASSUME SingleWorker
    PROVE  Spec => []NoStalePoints
<1>1. IndexInv => NoStalePoints
  BY DEF IndexInv
<1>. QED  BY <1>1, IndexSafe, PTL

(* A note is only lost to the index by a restore that overtook a DELETE.    *)
THEOREM NoLoss ==
    ASSUME SingleWorker
    PROVE  Spec => []NoLostNote
<1>1. IndexInv => NoLostNote
  BY DEF IndexInv
<1>. QED  BY <1>1, IndexSafe, PTL

(* Points are cut from chunk rows that are committed.                      *)
THEOREM RowsFirst ==
    ASSUME SingleWorker
    PROVE  Spec => []RowsBeforePoints
<1>1. IndexInv => RowsBeforePoints
  BY DEF IndexInv
<1>. QED  BY <1>1, IndexSafe, PTL

(* What IndexConverges promises holds whenever it may be expected: an added *)
(* note none of whose outbox rows is open has the points of its row, but if *)
(* a restore overtook a DELETE (process_indexing_outbox_once).             *)
THEOREM SettledNotesAgree ==
    ASSUME SingleWorker
    PROVE  Spec => [](\A n \in Notes :
                        status[n] # "none" /\ ~HasOpen(n, "UPSERT") /\ ~HasOpen(n, "DELETE")
                            => IndexAgrees(n))
<1>1. TypeOK /\ IndexInv => \A n \in Notes :
          status[n] # "none" /\ ~HasOpen(n, "UPSERT") /\ ~HasOpen(n, "DELETE")
              => IndexAgrees(n)
  <2> SUFFICES ASSUME TypeOK, IndexInv, NEW n \in Notes, status[n] # "none",
                      ~HasOpen(n, "UPSERT"), ~HasOpen(n, "DELETE")
               PROVE  IndexAgrees(n)
    OBVIOUS
  <2>1. CASE note_is_active(n)
    BY <2>1 DEF IndexInv, NoStalePoints, NoLostNote, IndexAgrees
  <2>2. CASE status[n] \in Inactive
    BY <2>2 DEF IndexInv, NoOrphanPoints, IndexAgrees, note_is_active, Inactive
  <2>3. CASE status[n] = "active" /\ n \in expired
    BY <2>3 DEF IndexAgrees, note_is_active
  <2>. QED  BY <2>1, <2>2, <2>3 DEF TypeOK, Statuses, note_is_active, Inactive
<1>. QED  BY <1>1, IndexSafe, TypeCorrect, PTL

(* No late mark_failed reopens a job that was closed: with one worker the   *)
(* row a worker marks is open.                                             *)
THEOREM ClosedStaysClosed ==
    ASSUME SingleWorker
    PROVE  Spec => DoneIsFinal
<1>. DEFINE Kept == \A j \in 1 .. Len(jobs) : ~Open(j) => jobs'[j].status = "DONE"
<1>1. TypeOK /\ IndexInv /\ [Next]_vars => [Kept]_vars
  <2>. SUFFICES ASSUME TypeOK, IndexInv, Next,
                       NEW j \in 1 .. Len(jobs), ~Open(j)
                PROVE  jobs'[j].status = "DONE"
    OBVIOUS
  <2>1. jobs[j].status = "DONE"
    BY DEF Open
  <2>2. CASE UNCHANGED jobs
    BY <2>1, <2>2
  <2>3. CASE \E n \in Notes, op \in Ops : enqueue_outbox_tx(n, op)
    BY <2>1, <2>3, EnqueueTyped
  <2>4. ASSUME NEW w \in Workers, NEW s \in JobStatus, pc[w] # "idle",
               jobs' = [jobs EXCEPT ![held[w]].status = s]
        PROVE  jobs'[j].status = "DONE"
    <3>1. held[w] \in 1 .. Len(jobs) /\ Open(held[w])
      BY <2>4, HeldTyped DEF IndexInv, HeldJobs
    <3>2. jobs'[j] = jobs[j]
      BY <2>4, <3>1, RewriteTyped
    <3>. QED  BY <2>1, <3>2
  <2>5. ASSUME NEW n \in Notes, ApiStep(n)
        PROVE  UNCHANGED jobs \/ \E op \in Ops : enqueue_outbox_tx(n, op)
    BY <2>5 DEF ApiStep, AddNote, UpdateNote, ResolveKeyedUpdate, ApplyKeyedUpdate,
       KeyedUpdateUnchanged, PromoteNote, DeleteNote, SupersedeNote, RestoreNote, Expire, Ops
  <2>6. ASSUME NEW w \in Workers, WorkerStep(w) \/ Fail(w) \/ Crash(w)
        PROVE  \/ UNCHANGED jobs
               \/ pc[w] # "idle" /\ \E s \in JobStatus :
                     jobs' = [jobs EXCEPT ![held[w]].status = s]
    BY <2>6 DEF WorkerStep, Claim, FetchNote, EmbedNote, StoreRows, delete_note_points,
       upsert_chunks, MarkDone, MarkFailed, Fail, Crash, JobStatus
  <2>7. ASSUME NEW i \in 1 .. Len(jobs), ComesDue(i) PROVE UNCHANGED jobs
    BY <2>7 DEF ComesDue
  <2>. QED  BY <2>2, <2>3, <2>4, <2>5, <2>6, <2>7 DEF Next
<1>2. Spec => [][Kept]_vars
  BY <1>1, TypeCorrect, IndexSafe, PTL DEF Spec
<1>. QED  BY <1>2 DEF DoneIsFinal

(* With one worker the chunk rows only move forward: a retried job reads    *)
(* the note again.                                                         *)
THEOREM RowsForward ==
    ASSUME SingleWorker
    PROVE  Spec => RowsNeverGoBack
<1>. DEFINE Forward == \A n \in Notes : rows[n] <= rows'[n]
<1>1. TypeOK /\ IndexInv /\ [Next]_vars => [Forward]_vars
  <2>. SUFFICES ASSUME TypeOK, IndexInv, Next, NEW n \in Notes
                PROVE  rows[n] <= rows'[n]
    OBVIOUS
  <2>1. rows[n] \in Nat
    BY DEF TypeOK
  <2>2. CASE UNCHANGED rows
    BY <2>1, <2>2
  <2>3. ASSUME NEW w \in Workers, StoreRows(w) PROVE rows[n] <= rows'[n]
    <3>1. rows' = [rows EXCEPT ![Note(w)] = seen[w]] /\ pc[w] = "store"
      BY <2>3 DEF StoreRows
    <3>2. rows[Note(w)] <= seen[w]
      BY <3>1 DEF IndexInv, InFlight, InFlightOf
    <3>3. CASE n = Note(w)
      BY <3>1, <3>2, <3>3 DEF TypeOK
    <3>4. CASE n # Note(w)
      BY <2>1, <3>1, <3>4 DEF TypeOK
    <3>. QED  BY <3>3, <3>4
  <2>4. ASSUME NEW m \in Notes, ApiStep(m) PROVE UNCHANGED rows
    BY <2>4 DEF ApiStep, AddNote, UpdateNote, ResolveKeyedUpdate, ApplyKeyedUpdate,
       KeyedUpdateUnchanged, PromoteNote, DeleteNote, SupersedeNote, RestoreNote, Expire, indexVars
  <2>5. ASSUME NEW w \in Workers, WorkerStep(w) \/ Fail(w) \/ Crash(w)
        PROVE  UNCHANGED rows \/ StoreRows(w)
    BY <2>5 DEF WorkerStep, Claim, FetchNote, EmbedNote, delete_note_points,
       upsert_chunks, MarkDone, MarkFailed, Fail, Crash, indexVars
  <2>6. ASSUME NEW i \in 1 .. Len(jobs), ComesDue(i) PROVE UNCHANGED rows
    BY <2>6 DEF ComesDue, indexVars
  <2>. QED  BY <2>2, <2>3, <2>4, <2>5, <2>6 DEF Next
<1>2. Spec => [][Forward]_vars
  BY <1>1, TypeCorrect, IndexSafe, PTL DEF Spec
<1>. QED  BY <1>2 DEF RowsNeverGoBack

-----------------------------------------------------------------------------
(* The outbox and a single elf-worker implement DerivedIndex: for every      *)
(* step of NoteIndexing the refinement mapping takes a step of the abstract  *)
(* index or stutters.                                                      *)

(* The debt of a note, seen from one note at a time. *)
LEMMA DebtOf ==
    ASSUME NEW n \in Notes
    PROVE  n \in Debt <=> HasOpen(n, "UPSERT") \/ HasOpen(n, "DELETE") \/ n \in overtaken
  BY DEF Debt

LEMMA SourceEntries ==
    ASSUME TypeOK, IndexInv, NEW n \in Notes
    PROVE  Source[n] \in Promise!Entries
  <1>1. CASE status[n] = "active"
    <2>1. version[n] \in 1 .. MaxVersion
      BY <1>1 DEF TypeOK, IndexInv, NoteHistory
    <2>. QED  BY <1>1, <2>1 DEF Source, Promise!Entries
  <1>2. CASE status[n] # "active"
    BY <1>2 DEF Source, Promise!Entries
  <1>. QED  BY <1>1, <1>2

LEMMA PointEntries ==
    ASSUME NEW v \in 0 .. MaxVersion
    PROVE  Point(v) \in Promise!Entries
  <1>1. CASE v = 0
    BY <1>1 DEF Promise!Entries, NoPoint
  <1>2. CASE v # 0
    BY <1>2 DEF Promise!Entries
  <1>. QED  BY <1>1, <1>2

(* A write of one note that leaves a job for it is a write of the source.   *)
LEMMA WriteRefines ==
    ASSUME TypeOK, IndexInv, TypeOK', IndexInv',
           NEW n \in Notes, NEW op \in Ops,
           enqueue_outbox_tx(n, op), UNCHANGED points,
           \A m \in Notes \ {n} :
              /\ status'[m] = status[m]
              /\ version'[m] = version[m]
              /\ m \in expired' <=> m \in expired
              /\ m \in overtaken' <=> m \in overtaken
    PROVE  Promise!Next
  <1>1. \A m \in Notes, o \in Ops : HasOpen(m, o)' <=> HasOpen(m, o) \/ (m = n /\ o = op)
    BY EnqueueOpen
  <1>2. \A m \in Notes : m \in Debt' <=> m \in Debt \/ m = n
    BY <1>1 DEF Debt, Ops
  <1>3. Debt' = Debt \cup {n}
    BY <1>2, Zenon DEF Debt, TypeOK
  <1>4. \A m \in Notes : Source'[m] \in Promise!Entries
    BY SourceEntries, PointEntries DEF TypeOK, IndexInv, Source, Promise!Entries, NoteHistory
  <1>5. Source' \in [Notes -> Promise!Entries]
    BY <1>4 DEF Source
  <1>6. \A m \in Notes \ {n} : Source'[m] = Source[m]
    BY DEF Source
  <1>7. /\ Waived' \subseteq Notes
        /\ \A m \in Notes \ {n} : m \in Waived' <=> m \in Waived
    BY DEF Waived
  <1>8. Promise!Write({n})
    BY <1>3, <1>5, <1>6, <1>7 DEF Promise!Write
  <1>. QED  BY <1>8 DEF Promise!Next

(* Without a new job only the waiver of a note may change.                 *)
LEMMA StutterRefines ==
    ASSUME UNCHANGED <<status, version, expired, overtaken, jobs, points>>
    PROVE  UNCHANGED <<Source, points, Debt, Waived>>
  BY DEF Source, Debt, Waived, HasOpen, Open

LEMMA ExpireRefines ==
    ASSUME TypeOK, NEW n \in Notes, Expire(n)
    PROVE  Promise!Lapse(n) \/ UNCHANGED <<Source, points, Debt, Waived>>
  <1>1. UNCHANGED <<status, version, overtaken, jobs, points>> /\ expired' = expired \cup {n}
    BY DEF Expire, indexVars
  <1>2. UNCHANGED <<Source, points, Debt>>
    BY <1>1 DEF Source, Debt, HasOpen, Open
  <1>3. CASE status[n] = "active"
    <2>1. Waived' = Waived \cup {n}
      BY <1>1, <1>3 DEF Waived
    <2>. QED  BY <1>2, <2>1 DEF Promise!Lapse
  <1>4. CASE status[n] # "active"
    <2>1. Waived' = Waived
      BY <1>1, <1>4 DEF Waived
    <2>. QED  BY <1>2, <2>1
  <1>. QED  BY <1>3, <1>4

LEMMA ApiRefines ==
    ASSUME TypeOK, IndexInv, TypeOK', IndexInv', NEW n \in Notes, ApiStep(n)
    PROVE  Promise!Next \/ UNCHANGED <<Source, points, Debt, Waived>>
  <1>1. CASE \/ AddNote(n) \/ UpdateNote(n) \/ ApplyKeyedUpdate(n) \/ PromoteNote(n)
             \/ DeleteNote(n) \/ SupersedeNote(n) \/ RestoreNote(n)
    <2>1. PICK op \in Ops : enqueue_outbox_tx(n, op)
      BY <1>1 DEF AddNote, UpdateNote, ApplyKeyedUpdate, PromoteNote, DeleteNote, SupersedeNote,
         RestoreNote, Ops
    <2>2. UNCHANGED points
      BY <1>1 DEF AddNote, UpdateNote, ApplyKeyedUpdate, PromoteNote, DeleteNote, SupersedeNote,
         RestoreNote, indexVars
    <2>3. \A m \in Notes \ {n} : status'[m] = status[m] /\ version'[m] = version[m]
      BY <1>1 DEF AddNote, UpdateNote, ApplyKeyedUpdate, PromoteNote, DeleteNote, SupersedeNote,
         RestoreNote, NewContent, TypeOK
    <2>4. \A m \in Notes \ {n} : /\ m \in expired' <=> m \in expired
                                 /\ m \in overtaken' <=> m \in overtaken
      BY <1>1 DEF AddNote, UpdateNote, ApplyKeyedUpdate, PromoteNote, DeleteNote, SupersedeNote,
         RestoreNote
    <2>. QED  BY <2>1, <2>2, <2>3, <2>4, WriteRefines
  <1>2. CASE ResolveKeyedUpdate(n) \/ KeyedUpdateUnchanged(n)
    BY <1>2, StutterRefines DEF ResolveKeyedUpdate, KeyedUpdateUnchanged, indexVars
  <1>3. CASE Expire(n)
    BY <1>3, ExpireRefines DEF Promise!Next
  <1>. QED  BY <1>1, <1>2, <1>3 DEF ApiStep

(* Qdrant moves while the job in hand is open.                             *)
LEMMA MoveRefines ==
    ASSUME TypeOK, IndexInv, NEW w \in Workers, pc[w] # "idle",
           UNCHANGED noteVars, UNCHANGED jobs,
           NEW v \in 0 .. MaxVersion,
           points' = [points EXCEPT ![Note(w)] = Point(v)]
    PROVE  Promise!Next
  <1>1. Note(w) \in Notes /\ HeldOp(w) \in Ops /\ held[w] \in 1 .. Len(jobs) /\ Open(held[w])
    BY HeldTyped DEF IndexInv, HeldJobs
  <1>2. HasOpen(Note(w), HeldOp(w))
    BY <1>1 DEF HasOpen, Note, HeldOp
  <1>3. Note(w) \in Debt
    BY <1>1, <1>2 DEF Debt, Ops
  <1>4. UNCHANGED <<Source, Debt, Waived>>
    BY DEF noteVars, Source, Debt, Waived, HasOpen, Open
  <1>5. Point(v) \in Promise!Entries
    BY PointEntries
  <1>6. Promise!Move(Note(w))
    BY <1>3, <1>4, <1>5 DEF Promise!Move
  <1>. QED  BY <1>1, <1>6 DEF Promise!Next

(* Marking a job DONE settles the debt of its note or leaves it as it was.  *)
LEMMA MarkDoneRefines ==
    ASSUME TypeOK, IndexInv, TypeOK', IndexInv', NEW w \in Workers, MarkDone(w)
    PROVE  Promise!Next \/ UNCHANGED <<Source, points, Debt, Waived>>
  <1>1. /\ UNCHANGED <<status, version, expired, overtaken, points>>
        /\ pc[w] = "done"
        /\ jobs' = [jobs EXCEPT ![held[w]].status = "DONE"]
    BY DEF MarkDone, noteVars, indexVars
  <1>2. PICK m \in Notes, j \in 1 .. Len(jobs), op \in Ops :
           j = held[w] /\ m = jobs[j].note /\ op = jobs[j].op
    BY <1>1, HeldTyped DEF Note, HeldOp
  <1>3. Open(j) /\ "DONE" \in JobStatus
    BY <1>1, <1>2 DEF IndexInv, HeldJobs, JobStatus
  <1>4. /\ \A n \in Notes, o \in Ops :
              HasOpen(n, o) => HasOpen(n, o)' \/ (n = m /\ o = op)
        /\ \A n \in Notes, o \in Ops : HasOpen(n, o)' => HasOpen(n, o)
    BY <1>1, <1>2, <1>3, MarkOpen
  <1>5. UNCHANGED <<Source, points, Waived>>
    BY <1>1 DEF Source, Waived
  <1>6. m \in Debt
    BY <1>2, <1>3 DEF Debt, HasOpen, Ops
  <1>7. \A n \in Notes \ {m} : n \in Debt' <=> n \in Debt
    BY <1>1, <1>4 DEF Debt, Ops
  <1>8. CASE m \in Debt'
    <2>1. \A n \in Notes : n \in Debt' <=> n \in Debt
      BY <1>6, <1>7, <1>8
    <2>2. Debt' = Debt
      BY <2>1, Zenon DEF Debt, TypeOK
    <2>. QED  BY <1>5, <2>2
  <1>9. CASE m \notin Debt'
    <2>1. Debt' = Debt \ {m}
      BY <1>6, <1>7, <1>9 DEF Debt, TypeOK
    <2>2. ~HasOpen(m, "UPSERT")' /\ ~HasOpen(m, "DELETE")' /\ m \notin overtaken'
      BY <1>9 DEF Debt
    <2>3. points[m] = Source[m] \/ m \in Waived
      <3>1. status[m] # "none"
        BY <1>2 DEF IndexInv, NoteHistory
      <3>2. CASE status[m] \in Inactive
        BY <1>1, <2>2, <3>2 DEF IndexInv, NoOrphanPoints, Source, Inactive
      <3>3. CASE status[m] = "active" /\ m \in expired
        BY <3>3 DEF Waived
      <3>4. CASE status[m] = "active" /\ m \notin expired
        BY <1>1, <2>2, <3>4
           DEF IndexInv, NoStalePoints, NoLostNote, note_is_active, Source
      <3>. QED  BY <3>1, <3>2, <3>3, <3>4 DEF TypeOK, Statuses, Inactive
    <2>4. Promise!Settle(m)
      BY <1>5, <1>6, <2>1, <2>3 DEF Promise!Settle
    <2>. QED  BY <2>4 DEF Promise!Next
  <1>. QED  BY <1>8, <1>9

LEMMA MarkFailedRefines ==
    ASSUME TypeOK, IndexInv, NEW w \in Workers, MarkFailed(w)
    PROVE  UNCHANGED <<Source, points, Debt, Waived>>
  <1>1. /\ UNCHANGED <<status, version, expired, overtaken, points>>
        /\ pc[w] = "failed"
        /\ jobs' = [jobs EXCEPT ![held[w]].status = "FAILED"]
    BY DEF MarkFailed, noteVars, indexVars
  <1>2. PICK j \in 1 .. Len(jobs) : j = held[w]
    BY <1>1, HeldTyped
  <1>3. Open(j) /\ "FAILED" \in JobStatus
    BY <1>1, <1>2 DEF IndexInv, HeldJobs, JobStatus
  <1>4. \A n \in Notes, o \in Ops : HasOpen(n, o)' <=> HasOpen(n, o)
    BY <1>1, <1>2, <1>3, MarkOpen
  <1>5. \A n \in Notes : n \in Debt' <=> n \in Debt
    BY <1>1, <1>4 DEF Debt, Ops
  <1>6. Debt' = Debt
    <2>1. Debt \subseteq Notes /\ Debt' \subseteq Notes
      BY <1>1 DEF Debt, TypeOK
    <2>. QED  BY <1>5, <2>1
  <1>. QED  BY <1>1, <1>6 DEF Source, Waived

(* Every behaviour of the outbox and one worker is a behaviour of the       *)
(* derived index: ImplementsDerivedIndex for every value of the constants.  *)
THEOREM IndexImplements ==
    ASSUME SingleWorker
    PROVE  Spec => ImplementsDerivedIndex
<1>1. Init => Promise!Init
  BY DEF Init, Promise!Init, Source, Debt, Waived, HasOpen
<1>2. /\ TypeOK /\ IndexInv /\ TypeOK' /\ IndexInv'
      /\ [Next]_vars
      => [Promise!Next]_(Promise!vars)
  <2>. SUFFICES ASSUME TypeOK, IndexInv, TypeOK', IndexInv', [Next]_vars
                PROVE  Promise!Next \/ UNCHANGED <<Source, points, Debt, Waived>>
    BY DEF Promise!vars
  <2>1. ASSUME NEW n \in Notes, ApiStep(n)
        PROVE  Promise!Next \/ UNCHANGED <<Source, points, Debt, Waived>>
    BY <2>1, ApiRefines
  <2>2. ASSUME NEW w \in Workers,
               \/ \E j \in 1 .. Len(jobs) : Claim(w, j)
               \/ FetchNote(w) \/ EmbedNote(w) \/ StoreRows(w) \/ Fail(w) \/ Crash(w)
        PROVE  UNCHANGED <<Source, points, Debt, Waived>>
    BY <2>2, StutterRefines
       DEF Claim, FetchNote, EmbedNote, StoreRows, Fail, Crash, noteVars, indexVars
  <2>3. ASSUME NEW w \in Workers, delete_note_points(w) PROVE Promise!Next
    <3>1. points' = [points EXCEPT ![Note(w)] = Point(0)] /\ pc[w] # "idle"
      BY <2>3 DEF delete_note_points, NoPoint
    <3>2. 0 \in 0 .. MaxVersion
      BY BoundsAssumption
    <3>. QED  BY <2>3, <3>1, <3>2, MoveRefines DEF delete_note_points
  <2>4. ASSUME NEW w \in Workers, upsert_chunks(w) PROVE Promise!Next
    <3>1. seen[w] \in 0 .. MaxVersion
      BY DEF TypeOK
    <3>. QED  BY <2>4, <3>1, MoveRefines DEF upsert_chunks
  <2>5. ASSUME NEW w \in Workers, MarkDone(w) \/ MarkFailed(w)
        PROVE  Promise!Next \/ UNCHANGED <<Source, points, Debt, Waived>>
    BY <2>5, MarkDoneRefines, MarkFailedRefines
  <2>6. ASSUME NEW j \in 1 .. Len(jobs), ComesDue(j)
        PROVE  UNCHANGED <<Source, points, Debt, Waived>>
    BY <2>6, StutterRefines DEF ComesDue, noteVars, indexVars
  <2>7. CASE UNCHANGED vars
    BY <2>7, StutterRefines DEF vars
  <2>. QED  BY <2>1, <2>2, <2>3, <2>4, <2>5, <2>6, <2>7 DEF Next, WorkerStep
<1>. QED
  BY <1>1, <1>2, TypeCorrect, IndexSafe, PTL DEF Spec, ImplementsDerivedIndex, Promise!Spec
=============================================================================
