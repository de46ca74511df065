----------------------- MODULE NoteIndexingHarmProofs -----------------------
(***************************************************************************)
(* How far the harm of overlapping workers, of Qdrant calls that outlive   *)
(* their workers (NoteIndexingOverlap) and of a rebuild beside the worker  *)
(* (NoteIndexingRebuild) reaches, for every set of notes, every number of  *)
(* workers and every bound.  Both arguments are about one note at a time:  *)
(* while at most one worker handles it, what is known of the job in hand   *)
(* (Sound), of its points as long as nothing else writes them              *)
(* (PointsSound) and of their presence as long as nothing drops them       *)
(* (Present) survives every step of the requests and the workers, and a    *)
(* write of the note establishes the last two afresh.                      *)
(***************************************************************************)
EXTENDS NoteIndexingProofs, NoteIndexingOverlap, NoteIndexingRebuild

(* What a worker knows of the note of the job it handles.                   *)
HandlerSound(w, n) ==
    /\ Open(held[w])
    /\ pc[w] \in {"fetch", "embed", "store", "upsert"} => HeldOp(w) = "UPSERT"
    /\ Upserting(w) /\ status[n] \in Inactive => HasOpen(n, "DELETE")
    /\ Upserting(w) /\ note_is_active(n) /\ seen[w] # version[n]
           => OtherOpen(held[w], n, "UPSERT")
    /\ pc[w] \in {"clear", "upsert"} /\ HeldOp(w) = "UPSERT" => rows[n] = seen[w]
    /\ pc[w] = "done" /\ HeldOp(w) = "UPSERT" /\ note_is_active(n) /\ rows[n] # version[n]
           => OtherOpen(held[w], n, "UPSERT")

Sound(n) ==
    /\ \A v, w \in Workers : Handles(v, n) /\ Handles(w, n) => v = w
    /\ \A w \in Workers : Handles(w, n) => HandlerSound(w, n)
    /\ DeleteToCome(n) => n \in overtaken
    /\ note_is_active(n) /\ rows[n] # version[n] => HasOpen(n, "UPSERT")

(* The points are right, absent, or a row is open that will see to them:    *)
(* another row than the one a worker is about to close.                     *)
WrongPoints(n) == points[n] \notin {NoPoint, Point(version[n])}

PointsSound(n) ==
    /\ status[n] \in Inactive /\ points[n] # NoPoint =>
          /\ HasOpen(n, "DELETE")
          /\ \A w \in Workers : Handles(w, n) /\ pc[w] = "done" /\ HeldOp(w) = "DELETE"
                => OtherOpen(held[w], n, "DELETE")
    /\ note_is_active(n) /\ WrongPoints(n) =>
          /\ HasOpen(n, "UPSERT")
          /\ \A w \in Workers : Handles(w, n) /\ pc[w] = "done" /\ HeldOp(w) = "UPSERT"
                => OtherOpen(held[w], n, "UPSERT")

Present(n) ==
    note_is_active(n) /\ n \notin overtaken /\ points[n] = NoPoint =>
        /\ HasOpen(n, "UPSERT")
        /\ \A w \in Workers : Handles(w, n) /\ pc[w] = "done" /\ HeldOp(w) = "UPSERT"
              => OtherOpen(held[w], n, "UPSERT")

(* Rows and versions belong to notes that were added.                       *)
Begun ==
    \A n \in Notes :
        /\ status[n] # "none" => version[n] # 0
        /\ status[n] = "none" =>
              n \notin resolved /\ \A j \in 1 .. Len(jobs) : jobs[j].note # n

-----------------------------------------------------------------------------
(* Steps that leave a note alone.                                           *)

(* The outbox rows of a note stay open or closed as they are.               *)
RowsStay(n) ==
    /\ \A j \in 1 .. Len(jobs) :
          /\ j \in 1 .. Len(jobs')
          /\ jobs'[j].note = jobs[j].note /\ jobs'[j].op = jobs[j].op
          /\ jobs[j].note = n => (jobs'[j].status = "DONE" <=> jobs[j].status = "DONE")
    /\ \A j \in 1 .. Len(jobs') : j \in 1 .. Len(jobs) \/ jobs'[j].note # n

LEMMA RowsStayOpen ==
    ASSUME NEW n \in Notes, RowsStay(n)
    PROVE  /\ \A o : HasOpen(n, o)' <=> HasOpen(n, o)
           /\ \A j, o : OtherOpen(j, n, o)' <=> OtherOpen(j, n, o)
           /\ \A j \in 1 .. Len(jobs) : jobs[j].note = n => (Open(j)' <=> Open(j))
  <1>1. \A j \in 1 .. Len(jobs) : jobs[j].note = n => (Open(j)' <=> Open(j))
    BY DEF RowsStay, Open
  <1>2. \A j \in 1 .. Len(jobs') : jobs'[j].note = n =>
           j \in 1 .. Len(jobs) /\ jobs[j].note = n /\ jobs'[j].op = jobs[j].op
    BY DEF RowsStay
  <1>3. \A j \in 1 .. Len(jobs) : j \in 1 .. Len(jobs') /\ jobs'[j].note = jobs[j].note
                                  /\ jobs'[j].op = jobs[j].op
    BY DEF RowsStay
  <1>4. ASSUME NEW o PROVE HasOpen(n, o)' <=> HasOpen(n, o)
    BY <1>1, <1>2, <1>3 DEF HasOpen
  <1>5. ASSUME NEW j, NEW o PROVE OtherOpen(j, n, o)' <=> OtherOpen(j, n, o)
    BY <1>1, <1>2, <1>3 DEF OtherOpen
  <1>. QED  BY <1>1, <1>4, <1>5

LEMMA SameRowsStay == ASSUME UNCHANGED jobs PROVE \A n \in Notes : RowsStay(n)
  BY DEF RowsStay

LEMMA OtherRowsStay ==
    ASSUME TypeOK, NEW m \in Notes, NEW op \in Ops, enqueue_outbox_tx(m, op)
    PROVE  \A n \in Notes : n # m => RowsStay(n)
  <1>1. /\ Len(jobs) \in Nat /\ Len(jobs') = Len(jobs) + 1
        /\ \A i \in 1 .. Len(jobs) : jobs'[i] = jobs[i]
        /\ jobs'[Len(jobs) + 1] = [note |-> m, op |-> op, status |-> "PENDING"]
    BY EnqueueAppends
  <1>2. jobs'[Len(jobs) + 1].note = m
    BY <1>1
  <1>3. \A j \in 1 .. Len(jobs') : j \in 1 .. Len(jobs) \/ j = Len(jobs) + 1
    BY <1>1
  <1>4. \A j \in 1 .. Len(jobs) : j \in 1 .. Len(jobs')
    BY <1>1
  <1>. QED  BY <1>1, <1>2, <1>3, <1>4 DEF RowsStay

LEMMA MarkedRowStays ==
    ASSUME TypeOK, NEW j \in 1 .. Len(jobs), NEW s \in JobStatus,
           jobs' = [jobs EXCEPT ![j].status = s]
    PROVE  \A n \in Notes : n # jobs[j].note \/ (Open(j) /\ s # "DONE") => RowsStay(n)
  BY RewriteTyped DEF RowsStay, Open

(* What a note is made of stays, but that it may expire.                    *)
NoteStays(n) ==
    /\ status'[n] = status[n] /\ version'[n] = version[n]
    /\ n \in expired => n \in expired'
    /\ n \in overtaken' <=> n \in overtaken
    /\ rows'[n] = rows[n]

(* Nobody takes a job of the note up, and who has one leaves it, fails at it*)
(* or embeds the note.                                                      *)
HandlersQuiet(n) ==
    \A w \in Workers : Handles(w, n)' =>
        /\ Handles(w, n)
        /\ held'[w] = held[w] /\ seen'[w] = seen[w]
        /\ \/ pc'[w] = pc[w]
           \/ pc'[w] = "failed"
           \/ pc[w] = "embed" /\ pc'[w] = "store"

LEMMA HandlesRow ==
    ASSUME TypeOK, NEW w \in Workers, NEW n \in Notes
    PROVE  Handles(w, n) <=> /\ pc[w] # "idle"
                             /\ held[w] \in 1 .. Len(jobs) /\ jobs[held[w]].note = n
  <1>1. held[w] \in 0 .. Len(jobs) /\ (held[w] = 0 <=> pc[w] = "idle") /\ Len(jobs) \in Nat
    BY DEF TypeOK
  <1>. QED  BY <1>1 DEF Handles, Note

LEMMA QuietKeeps ==
    ASSUME TypeOK, NEW n \in Notes, RowsStay(n), NoteStays(n), HandlersQuiet(n)
    PROVE  /\ Sound(n) => Sound(n)'
           /\ points'[n] = points[n] /\ PointsSound(n) => PointsSound(n)'
           /\ points'[n] = points[n] /\ Present(n) => Present(n)'
  <1>1. /\ \A o : HasOpen(n, o)' <=> HasOpen(n, o)
        /\ \A j, o : OtherOpen(j, n, o)' <=> OtherOpen(j, n, o)
        /\ \A j \in 1 .. Len(jobs) : jobs[j].note = n => (Open(j)' <=> Open(j))
    BY RowsStayOpen
  <1>2. note_is_active(n)' => note_is_active(n)
    BY DEF note_is_active, NoteStays
  <1>3. ASSUME NEW w \in Workers, Handles(w, n)'
        PROVE  /\ Handles(w, n) /\ held'[w] = held[w] /\ seen'[w] = seen[w]
               /\ HeldOp(w)' = HeldOp(w)
               /\ Open(held[w])' <=> Open(held[w])
               /\ pc'[w] = "done" => pc[w] = "done"
               /\ pc'[w] \in {"clear", "upsert"} => pc'[w] = pc[w]
               /\ Upserting(w)' => Upserting(w)
               /\ pc'[w] \in {"fetch", "embed", "store", "upsert"} =>
                     pc[w] \in {"fetch", "embed", "store", "upsert"}
    <2>1. Handles(w, n) /\ held'[w] = held[w] /\ seen'[w] = seen[w]
      BY <1>3 DEF HandlersQuiet
    <2>2. held[w] \in 1 .. Len(jobs) /\ jobs[held[w]].note = n
      BY <2>1, HandlesRow
    <2>3. HeldOp(w)' = HeldOp(w)
      BY <2>1, <2>2 DEF HeldOp, RowsStay
    <2>4. Open(held[w])' <=> Open(held[w])
      BY <1>1, <2>1, <2>2 DEF Open
    <2>. QED  BY <1>3, <2>1, <2>3, <2>4 DEF HandlersQuiet, Upserting
  <1>4. Sound(n) => Sound(n)'
    <2>. SUFFICES ASSUME Sound(n) PROVE Sound(n)'
      OBVIOUS
    <2>1. ASSUME NEW w \in Workers, Handles(w, n)' PROVE HandlerSound(w, n)'
      <3>1. HandlerSound(w, n)
        BY <1>3, <2>1 DEF Sound
      <3>. QED  BY <1>1, <1>2, <1>3, <2>1, <3>1 DEF HandlerSound, NoteStays
    <2>2. (DeleteToCome(n) => n \in overtaken)'
      BY <1>1 DEF Sound, DeleteToCome, NoteStays
    <2>3. (note_is_active(n) /\ rows[n] # version[n] => HasOpen(n, "UPSERT"))'
      BY <1>1, <1>2 DEF Sound, NoteStays
    <2>4. (\A v, w \in Workers : Handles(v, n) /\ Handles(w, n) => v = w)'
      BY <1>3 DEF Sound
    <2>. QED  BY <2>1, <2>2, <2>3, <2>4 DEF Sound
  <1>5. ASSUME points'[n] = points[n], PointsSound(n) PROVE PointsSound(n)'
    <2>1. WrongPoints(n)' <=> WrongPoints(n)
      BY <1>5 DEF WrongPoints, NoteStays, NoPoint, Point
    <2>. QED  BY <1>1, <1>2, <1>3, <1>5, <2>1 DEF PointsSound, NoteStays
  <1>6. ASSUME points'[n] = points[n], Present(n) PROVE Present(n)'
    BY <1>1, <1>2, <1>3, <1>6 DEF Present, NoteStays
  <1>. QED  BY <1>4, <1>5, <1>6

-----------------------------------------------------------------------------
(* Steps of the requests.                                                   *)

(* The rows a step adds for a note make its points right in the end         *)
(* (Repaired) and nothing will undo that (Written).                         *)
LEMMA RepairingRows ==
    ASSUME TypeOK, NEW m \in Notes, NEW op \in Ops, enqueue_outbox_tx(m, op)
    PROVE  /\ Repaired \subseteq {m} /\ Written \subseteq Repaired
           /\ m \in Repaired => op = "DELETE" \/ status'[m] = "active"
  <1>1. /\ Len(jobs) \in Nat /\ Len(jobs') = Len(jobs) + 1
        /\ jobs'[Len(jobs) + 1] = [note |-> m, op |-> op, status |-> "PENDING"]
    BY EnqueueAppends
  <1>2. \A j \in (Len(jobs) + 1) .. Len(jobs') : jobs'[j].note = m /\ jobs'[j].op = op
    BY <1>1
  <1>. QED  BY <1>2 DEF Repaired, Written

LEMMA NoRepair ==
    ASSUME Len(jobs) \in Nat, Len(jobs') = Len(jobs)
    PROVE  Repaired = {} /\ Written = {}
  <1>1. (Len(jobs) + 1) .. Len(jobs') = {}
    OBVIOUS
  <1>. QED  BY <1>1 DEF Repaired, Written

(* A write that adds a job for the note.                                    *)
LEMMA WriteKeeps ==
    ASSUME TypeOK, NEW n \in Notes, NEW op \in Ops, enqueue_outbox_tx(n, op),
           UNCHANGED workerVars, UNCHANGED indexVars,
           status'[n] \in {"active"} \cup Inactive,
           status'[n] = "active" => op = "UPSERT",
           status'[n] \in Inactive => op = "DELETE" \/ status[n] \in Inactive,
           status'[n] = "active" =>
              \/ status[n] = "active" /\ (n \in overtaken => n \in overtaken')
              \/ HasOpen(n, "DELETE") => n \in overtaken'
    PROVE  /\ Sound(n) => Sound(n)'
           /\ PointsSound(n) => PointsSound(n)'
           /\ Present(n)'
           /\ op = "DELETE" \/ status'[n] = "active" => PointsSound(n)'
           /\ n \in Written => Sound(n)'
  <1>1. /\ \A j \in 1 .. Len(jobs) : Open(j)' <=> Open(j)
        /\ \A o \in Ops : HasOpen(n, o) => HasOpen(n, o)'
        /\ \A o \in Ops : HasOpen(n, o)' => HasOpen(n, o) \/ o = op
        /\ \A j \in 1 .. Len(jobs), o \in Ops : OtherOpen(j, n, o) => OtherOpen(j, n, o)'
        /\ HasOpen(n, op)'
        /\ \A j \in 1 .. Len(jobs) : OtherOpen(j, n, op)'
    BY EnqueueOpen
  <1>2. "UPSERT" \in Ops /\ "DELETE" \in Ops /\ "active" \notin Inactive
    BY DEF Ops, Inactive
  <1>3. pc' = pc /\ held' = held /\ seen' = seen /\ rows' = rows /\ points' = points
    BY DEF workerVars, indexVars
  <1>4. ASSUME NEW w \in Workers
        PROVE  /\ Handles(w, n)' <=> Handles(w, n)
               /\ Handles(w, n) => /\ held[w] \in 1 .. Len(jobs)
                                   /\ HeldOp(w)' = HeldOp(w) /\ (Upserting(w)' <=> Upserting(w))
    <2>1. pc[w] # "idle" => held[w] \in 1 .. Len(jobs) /\ jobs'[held[w]] = jobs[held[w]]
      BY HeldTyped, EnqueueTyped
    <2>2. held[w] = 0 <=> pc[w] = "idle"
      BY DEF TypeOK
    <2>. QED  BY <1>3, <2>1, <2>2 DEF Handles, Note, HeldOp, Upserting
  <1>5. ASSUME NEW w \in Workers, Handles(w, n)
        PROVE  /\ OtherOpen(held[w], n, op)'
               /\ \A o \in Ops : OtherOpen(held[w], n, o) => OtherOpen(held[w], n, o)'
    <2>1. PICK j \in 1 .. Len(jobs) : j = held[w] /\ j = held'[w]
      BY <1>3, <1>4, <1>5
    <2>2. OtherOpen(j, n, op)' /\ \A o \in Ops : OtherOpen(j, n, o) => OtherOpen(j, n, o)'
      BY <1>1
    <2>. QED  BY <2>1, <2>2 DEF OtherOpen
  <1>6. /\ note_is_active(n)' => HasOpen(n, "UPSERT")'
        /\ note_is_active(n)' =>
              \A w \in Workers : Handles(w, n) => OtherOpen(held[w], n, "UPSERT")'
    BY <1>1, <1>5 DEF note_is_active
  <1>7. status'[n] \in Inactive =>
           \/ /\ HasOpen(n, "DELETE")'
              /\ \A w \in Workers : Handles(w, n) => OtherOpen(held[w], n, "DELETE")'
           \/ status[n] \in Inactive /\ op = "UPSERT"
    BY <1>1, <1>5 DEF Ops
  <1>8. ASSUME Sound(n) PROVE Sound(n)'
    <2>1. ASSUME NEW w \in Workers, Handles(w, n)' PROVE HandlerSound(w, n)'
      <3>1. HandlerSound(w, n)
        BY <1>4, <1>8, <2>1 DEF Sound
      <3>2. PICK j \in 1 .. Len(jobs) : j = held[w] /\ j = held'[w]
        BY <1>3, <1>4, <2>1
      <3>3. Open(held[w])'
        BY <1>1, <3>1, <3>2 DEF HandlerSound, Open
      <3>4. (note_is_active(n) => OtherOpen(held[w], n, "UPSERT"))'
        BY <1>4, <1>6, <2>1
      <3>. QED  BY <1>1, <1>2, <1>3, <1>4, <1>7, <2>1, <3>1, <3>3, <3>4 DEF HandlerSound
    <2>2. (DeleteToCome(n) => n \in overtaken)'
      BY <1>1, <1>2, <1>8 DEF Sound, DeleteToCome
    <2>3. (note_is_active(n) /\ rows[n] # version[n] => HasOpen(n, "UPSERT"))'
      BY <1>6
    <2>4. (\A v, w \in Workers : Handles(v, n) /\ Handles(w, n) => v = w)'
      BY <1>4, <1>8 DEF Sound
    <2>. QED  BY <2>1, <2>2, <2>3, <2>4 DEF Sound
  <1>9. Present(n)'
    BY <1>3, <1>4, <1>6 DEF Present
  <1>10. ASSUME op = "DELETE" \/ status'[n] = "active" PROVE PointsSound(n)'
    BY <1>2, <1>3, <1>4, <1>6, <1>7, <1>10 DEF PointsSound
  <1>11. ASSUME PointsSound(n) PROVE PointsSound(n)'
    <2>1. CASE op = "DELETE" \/ status'[n] = "active"
      BY <1>10, <2>1
    <2>2. CASE ~(op = "DELETE" \/ status'[n] = "active")
      <3>1. status'[n] \in Inactive /\ status[n] \in Inactive
        BY <2>2
      <3>2. ~note_is_active(n)'
        BY <2>2 DEF note_is_active
      <3>3. \A w \in Workers : Handles(w, n) =>
               (OtherOpen(held[w], n, "DELETE") => OtherOpen(held[w], n, "DELETE")')
        BY <1>2, <1>5
      <3>. QED  BY <1>1, <1>2, <1>3, <1>4, <1>11, <3>1, <3>2, <3>3 DEF PointsSound
    <2>. QED  BY <2>1, <2>2
  <1>12. ASSUME n \in Written PROVE Sound(n)'
    <2>1. ~DeleteToCome(n)' /\ \A w \in Workers : ~Handles(w, n)
      BY <1>12 DEF Written
    <2>. QED  BY <1>4, <1>6, <2>1 DEF Sound
  <1>. QED  BY <1>8, <1>9, <1>10, <1>11, <1>12

LEMMA ApiKeeps ==
    ASSUME TypeOK, Begun, NEW m \in Notes, ApiStep(m), NEW n \in Notes
    PROVE  /\ Sound(n) => Sound(n)'
           /\ PointsSound(n) => PointsSound(n)'
           /\ Present(n) => Present(n)'
           /\ n \in Repaired => PointsSound(n)' /\ Present(n)'
           /\ n \in Written => Sound(n)' /\ PointsSound(n)' /\ Present(n)'
  <1>. DEFINE Kept == /\ Sound(n) => Sound(n)'
                      /\ PointsSound(n) => PointsSound(n)'
                      /\ Present(n) => Present(n)'
                      /\ n \in Repaired => PointsSound(n)' /\ Present(n)'
                      /\ n \in Written => Sound(n)' /\ PointsSound(n)' /\ Present(n)'
  <1>. SUFFICES Kept
    OBVIOUS
  <1>1. /\ status \in [Notes -> Statuses] /\ version \in [Notes -> Nat]
        /\ "UPSERT" \in Ops /\ "DELETE" \in Ops
        /\ Statuses = {"none", "active"} \cup Inactive /\ "none" \notin Inactive
        /\ "active" \notin Inactive
        /\ Len(jobs) \in Nat
    BY DEF TypeOK, Ops, Statuses, Inactive
  <1>2. /\ UNCHANGED workerVars /\ UNCHANGED indexVars
    BY DEF ApiStep, AddNote, UpdateNote, ResolveKeyedUpdate, ApplyKeyedUpdate,
           KeyedUpdateUnchanged, PromoteNote, DeleteNote, SupersedeNote, RestoreNote, Expire
  <1>3. ASSUME NEW op \in Ops, enqueue_outbox_tx(m, op), n # m, NoteStays(n) PROVE Kept
    <2>1. HandlersQuiet(n)
      <3>1. ASSUME NEW w \in Workers, Handles(w, n)' PROVE Handles(w, n)
        <4>1. held' = held
          BY <1>2 DEF workerVars
        <4>2. held[w] \in 1 .. Len(jobs)
          BY <3>1, <4>1 DEF Handles, TypeOK
        <4>3. jobs'[held[w]] = jobs[held[w]]
          BY <1>3, <4>2, EnqueueTyped
        <4>. QED  BY <3>1, <4>1, <4>3 DEF Handles, Note
      <3>. QED  BY <1>2, <3>1 DEF HandlersQuiet, workerVars
    <2>2. RowsStay(n)
      BY <1>3, OtherRowsStay
    <2>3. n \notin Repaired /\ n \notin Written
      BY <1>3, RepairingRows
    <2>. QED  BY <1>2, <1>3, <2>1, <2>2, <2>3, QuietKeeps DEF indexVars
  <1>4. ASSUME UNCHANGED jobs, NoteStays(n) PROVE Kept
    <2>1. HandlersQuiet(n) /\ RowsStay(n)
      BY <1>2, <1>4, SameRowsStay DEF HandlersQuiet, workerVars, Handles, Note
    <2>2. Repaired = {} /\ Written = {}
      BY <1>1, <1>4, NoRepair
    <2>. QED  BY <1>2, <1>4, <2>1, <2>2, QuietKeeps DEF indexVars
  <1>5. ASSUME NEW op \in Ops, enqueue_outbox_tx(m, op), n = m,
               status'[n] \in {"active"} \cup Inactive,
               status'[n] = "active" => op = "UPSERT",
               status'[n] \in Inactive => op = "DELETE" \/ status[n] \in Inactive,
               status'[n] = "active" =>
                  \/ status[n] = "active" /\ (n \in overtaken => n \in overtaken')
                  \/ HasOpen(n, "DELETE") => n \in overtaken'
        PROVE  Kept
    <2>1. n \in Written => n \in Repaired
      BY <1>5, RepairingRows
    <2>2. n \in Repaired => op = "DELETE" \/ status'[n] = "active"
      BY <1>5, RepairingRows
    <2>3. /\ Sound(n) => Sound(n)'
          /\ PointsSound(n) => PointsSound(n)'
          /\ Present(n)'
          /\ op = "DELETE" \/ status'[n] = "active" => PointsSound(n)'
          /\ n \in Written => Sound(n)'
      BY <1>2, <1>5, WriteKeeps
    <2>. QED  BY <2>1, <2>2, <2>3
  <1>. HIDE DEF Kept
  <1>6. \A w \in Notes : rows'[w] = rows[w]
    BY <1>2 DEF indexVars
  <1>7. ASSUME NEW op \in Ops, enqueue_outbox_tx(m, op),
               n # m => /\ status'[n] = status[n] /\ version'[n] = version[n]
                        /\ n \in expired => n \in expired'
                        /\ n \in overtaken' <=> n \in overtaken,
               status'[m] \in {"active"} \cup Inactive,
               status'[m] = "active" => op = "UPSERT",
               status'[m] \in Inactive => op = "DELETE" \/ status[m] \in Inactive,
               status'[m] = "active" =>
                  \/ status[m] = "active" /\ (m \in overtaken => m \in overtaken')
                  \/ HasOpen(m, "DELETE") => m \in overtaken'
        PROVE  Kept
    <2>1. CASE n = m
      BY <1>5, <1>7, <2>1
    <2>2. CASE n # m
      <3>1. NoteStays(n)
        BY <1>6, <1>7, <2>2 DEF NoteStays
      <3>. QED  BY <1>3, <1>7, <2>2, <3>1
    <2>. QED  BY <2>1, <2>2
  <1>8. ASSUME n # m, NewContent(m) PROVE version'[n] = version[n]
    BY <1>1, <1>8 DEF NewContent
  <1>9. CASE AddNote(m)
    <2>1. ~HasOpen(m, "DELETE")
      BY <1>9 DEF AddNote, Begun, HasOpen
    <2>2. status'[m] = "active" /\ (n # m => status'[n] = status[n])
      BY <1>1, <1>9 DEF AddNote
    <2>. QED  BY <1>1, <1>7, <1>8, <1>9, <2>1, <2>2 DEF AddNote
  <1>10. CASE UpdateNote(m)
    BY <1>1, <1>7, <1>8, <1>10 DEF UpdateNote, note_is_active
  <1>11. CASE ApplyKeyedUpdate(m)
    <2>1. status[m] \in {"active"} \cup Inactive
      BY <1>1, <1>11 DEF ApplyKeyedUpdate, Begun
    <2>2. n # m /\ n \in expired => n \in expired'
      BY <1>11 DEF ApplyKeyedUpdate
    <2>. QED  BY <1>1, <1>7, <1>8, <1>11, <2>1, <2>2 DEF ApplyKeyedUpdate
  <1>12. CASE PromoteNote(m)
    <2>1. n # m /\ n \in expired => n \in expired'
      BY <1>12 DEF PromoteNote
    <2>. QED  BY <1>1, <1>7, <1>8, <1>12, <2>1 DEF PromoteNote
  <1>13. CASE DeleteNote(m)
    <2>1. status'[m] \in Inactive /\ (n # m => status'[n] = status[n])
      BY <1>1, <1>13 DEF DeleteNote, Inactive
    <2>. QED  BY <1>1, <1>7, <1>13, <2>1 DEF DeleteNote
  <1>14. CASE SupersedeNote(m)
    <2>1. status'[m] \in Inactive /\ (n # m => status'[n] = status[n])
      BY <1>1, <1>14 DEF SupersedeNote, Inactive
    <2>. QED  BY <1>1, <1>7, <1>14, <2>1 DEF SupersedeNote
  <1>15. CASE RestoreNote(m)
    <2>1. status'[m] = "active" /\ (n # m => status'[n] = status[n])
      BY <1>1, <1>15 DEF RestoreNote
    <2>2. /\ HasOpen(m, "DELETE") => m \in overtaken'
          /\ n # m => (n \in expired => n \in expired') /\ (n \in overtaken' <=> n \in overtaken)
      BY <1>15 DEF RestoreNote
    <2>. QED  BY <1>1, <1>7, <1>8, <1>15, <2>1, <2>2 DEF RestoreNote
  <1>16. CASE ResolveKeyedUpdate(m) \/ KeyedUpdateUnchanged(m) \/ Expire(m)
    BY <1>4, <1>6, <1>16 DEF ResolveKeyedUpdate, KeyedUpdateUnchanged, Expire, NoteStays
  <1>. QED
    BY <1>9, <1>10, <1>11, <1>12, <1>13, <1>14, <1>15, <1>16 DEF ApiStep

-----------------------------------------------------------------------------
(* Steps of the workers.                                                    *)

(* A step of a worker that does not have the note afterwards.               *)
LEMMA OthersQuiet ==
    ASSUME TypeOK, NEW w \in Workers, NEW n \in Notes, ~Handles(w, n)',
           \A v \in Workers \ {w} : pc'[v] = pc[v] /\ held'[v] = held[v] /\ seen'[v] = seen[v],
           \A j \in 1 .. Len(jobs) : jobs'[j].note = jobs[j].note
    PROVE  HandlersQuiet(n)
  <1>. SUFFICES ASSUME NEW v \in Workers, Handles(v, n)'
                PROVE  /\ Handles(v, n)
                       /\ held'[v] = held[v] /\ seen'[v] = seen[v] /\ pc'[v] = pc[v]
    BY DEF HandlersQuiet
  <1>1. v # w /\ held[v] # 0 /\ held'[v] = held[v]
    BY DEF Handles
  <1>2. held[v] \in 1 .. Len(jobs)
    BY <1>1 DEF TypeOK
  <1>. QED  BY <1>1, <1>2 DEF Handles, Note

(* A step of the worker that has the note and keeps it.                     *)
LEMMA OwnStepKeeps ==
    ASSUME TypeOK, NEW n \in Notes, Sound(n), NEW w \in Workers, Handles(w, n),
           UNCHANGED noteVars, UNCHANGED <<jobs, held>>,
           HandlerSound(w, n)',
           rows'[n] = rows[n] \/ HeldOp(w) = "UPSERT"
    PROVE  /\ Sound(n)'
           /\ /\ status[n] \in Inactive /\ points'[n] # NoPoint =>
                    /\ HasOpen(n, "DELETE")
                    /\ pc'[w] = "done" /\ HeldOp(w) = "DELETE" => OtherOpen(held[w], n, "DELETE")
              /\ note_is_active(n) /\ WrongPoints(n)' =>
                    /\ HasOpen(n, "UPSERT")
                    /\ pc'[w] = "done" /\ HeldOp(w) = "UPSERT" => OtherOpen(held[w], n, "UPSERT")
              => PointsSound(n)'
           /\ (note_is_active(n) /\ n \notin overtaken /\ points'[n] = NoPoint =>
                  /\ HasOpen(n, "UPSERT")
                  /\ pc'[w] = "done" /\ HeldOp(w) = "UPSERT" => OtherOpen(held[w], n, "UPSERT"))
              => Present(n)'
  <1>1. /\ \A v : Handles(v, n)' <=> Handles(v, n)
        /\ HeldOp(w)' = HeldOp(w)
        /\ \A o : HasOpen(n, o)' <=> HasOpen(n, o)
        /\ \A o : OtherOpen(held[w], n, o)' <=> OtherOpen(held[w], n, o)
    BY DEF Handles, Note, HeldOp, HasOpen, OtherOpen, Open
  <1>2. status' = status /\ version' = version /\ overtaken' = overtaken
        /\ (note_is_active(n)' <=> note_is_active(n))
    BY DEF noteVars, note_is_active
  <1>3. \A v \in Workers : Handles(v, n) => v = w
    BY DEF Sound
  <1>4. HasOpen(n, HeldOp(w))
    <2>1. held[w] \in 1 .. Len(jobs) /\ jobs[held[w]].note = n /\ Open(held[w])
      BY HandlesRow DEF Sound, HandlerSound
    <2>. QED  BY <2>1 DEF HasOpen, HeldOp
  <1>5. Sound(n)'
    <2>1. (note_is_active(n) /\ rows[n] # version[n] => HasOpen(n, "UPSERT"))'
      BY <1>1, <1>2, <1>4 DEF Sound
    <2>2. (DeleteToCome(n) => n \in overtaken)'
      BY <1>1, <1>2 DEF Sound, DeleteToCome
    <2>. QED  BY <1>1, <1>3, <2>1, <2>2 DEF Sound
  <1>. QED  BY <1>1, <1>2, <1>3, <1>5 DEF PointsSound, Present

LEMMA WorkerKeeps ==
    ASSUME TypeOK, Begun, NEW w \in Workers, WorkerStep(w) \/ Fail(w) \/ Crash(w),
           NEW n \in Notes, n \notin Overlapping', Sound(n)
    PROVE  /\ Sound(n)'
           /\ PointsSound(n) => PointsSound(n)'
           /\ Present(n) => Present(n)'
  <1>. DEFINE Kept == /\ Sound(n)'
                      /\ PointsSound(n) => PointsSound(n)'
                      /\ Present(n) => Present(n)'
  <1>. SUFFICES Kept
    OBVIOUS
  <1>1. /\ pc \in [Workers -> Steps] /\ held \in [Workers -> 0 .. Len(jobs)]
        /\ seen \in [Workers -> 0 .. MaxVersion] /\ rows \in [Notes -> 0 .. MaxVersion]
        /\ points \in [Notes -> [text : 0 .. MaxVersion, meta : 0 .. MaxVersion]]
        /\ Len(jobs) \in Nat
        /\ \A v \in Workers : held[v] = 0 <=> pc[v] = "idle"
    BY DEF TypeOK
  <1>2. ASSUME UNCHANGED noteVars, rows'[n] = rows[n], points'[n] = points[n], RowsStay(n),
               HandlersQuiet(n)
        PROVE  Kept
    <2>1. NoteStays(n)
      BY <1>2 DEF NoteStays, noteVars
    <2>. QED  BY <1>2, <2>1, QuietKeeps
  <1>3. CASE Fail(w) \/ Crash(w) \/ EmbedNote(w)
    <2>1. RowsStay(n) /\ UNCHANGED noteVars /\ UNCHANGED indexVars
      BY <1>3, SameRowsStay DEF Fail, Crash, EmbedNote
    <2>2. HandlersQuiet(n)
      BY <1>1, <1>3 DEF Fail, Crash, EmbedNote, Release, HandlersQuiet, Handles, Note
    <2>. QED  BY <1>2, <2>1, <2>2 DEF indexVars
  <1>4. ASSUME NEW j \in 1 .. Len(jobs), Claim(w, j) PROVE Kept
    <2>1. /\ RowsStay(n) /\ UNCHANGED noteVars /\ UNCHANGED indexVars /\ UNCHANGED jobs
          /\ held' = [held EXCEPT ![w] = j] /\ ~Handles(w, n)
          /\ pc' = [pc EXCEPT ![w] = IF jobs[j].op = "UPSERT" THEN "fetch" ELSE "clear"]
          /\ seen' = [seen EXCEPT ![w] = 0]
      BY <1>1, <1>4, SameRowsStay DEF Claim, Handles
    <2>2. CASE jobs[j].note # n
      <3>1. ~Handles(w, n)'
        BY <1>1, <2>1, <2>2 DEF Handles, Note
      <3>2. \A v \in Workers \ {w} : pc'[v] = pc[v] /\ held'[v] = held[v] /\ seen'[v] = seen[v]
        BY <1>1, <2>1
      <3>3. HandlersQuiet(n)
        BY <2>1, <3>1, <3>2, OthersQuiet
      <3>. QED  BY <1>2, <2>1, <3>3 DEF indexVars
    <2>3. CASE jobs[j].note = n
      <3>1. Handles(w, n)'
        BY <1>1, <2>1, <2>3 DEF Handles, Note
      <3>2. \A v \in Workers : Handles(v, n)' => v = w
        BY <3>1 DEF Overlapping
      <3>3. HandlerSound(w, n)'
        <4>1. held'[w] = j /\ Open(j)' /\ HeldOp(w)' = jobs[j].op
          BY <1>1, <1>4, <2>1 DEF Claim, Open, HeldOp
        <4>2. \/ pc'[w] = "fetch" /\ jobs[j].op = "UPSERT"
              \/ pc'[w] = "clear" /\ jobs[j].op # "UPSERT"
          BY <1>1, <2>1
        <4>. QED  BY <4>1, <4>2 DEF HandlerSound, Upserting
      <3>4. /\ \A o : HasOpen(n, o)' <=> HasOpen(n, o)
            /\ note_is_active(n)' <=> note_is_active(n)
            /\ status' = status /\ version' = version /\ overtaken' = overtaken
            /\ rows' = rows /\ points' = points /\ (WrongPoints(n)' <=> WrongPoints(n))
            /\ DeleteToCome(n)' <=> DeleteToCome(n)
        BY <2>1, UnchangedOpen
           DEF note_is_active, noteVars, indexVars, WrongPoints, NoPoint, Point, DeleteToCome
      <3>5. Sound(n)'
        BY <3>2, <3>3, <3>4 DEF Sound
      <3>6. pc'[w] # "done"
        BY <1>1, <2>1
      <3>. QED  BY <3>2, <3>4, <3>5, <3>6 DEF PointsSound, Present
    <2>. QED  BY <2>2, <2>3
  <1>5. ASSUME ~Handles(w, n),
               FetchNote(w) \/ StoreRows(w) \/ delete_note_points(w) \/ upsert_chunks(w)
        PROVE  Kept
    <2>1. /\ UNCHANGED noteVars /\ UNCHANGED jobs /\ held' = held /\ pc[w] # "idle"
          /\ \A v \in Workers \ {w} : pc'[v] = pc[v] /\ seen'[v] = seen[v]
      BY <1>1, <1>5 DEF FetchNote, StoreRows, delete_note_points, upsert_chunks, Answer
    <2>2. Note(w) # n /\ Note(w) \in Notes
      BY <1>1, <1>5, <2>1, HeldTyped DEF Handles
    <2>3. rows'[n] = rows[n] /\ points'[n] = points[n]
      BY <1>1, <1>5, <2>2
         DEF FetchNote, StoreRows, delete_note_points, upsert_chunks, indexVars
    <2>4. RowsStay(n) /\ ~Handles(w, n)'
      BY <1>5, <2>1, SameRowsStay DEF Handles, Note
    <2>5. HandlersQuiet(n)
      BY <2>1, <2>4, OthersQuiet
    <2>. QED  BY <1>2, <2>1, <2>3, <2>4, <2>5
  <1>6. ASSUME MarkDone(w) \/ MarkFailed(w)
        PROVE  /\ UNCHANGED noteVars /\ UNCHANGED indexVars
               /\ held[w] \in 1 .. Len(jobs) /\ jobs[held[w]].note \in Notes
               /\ \E s \in JobStatus :
                     /\ jobs' = [jobs EXCEPT ![held[w]].status = s]
                     /\ s = "DONE" => MarkDone(w)
               /\ HandlersQuiet(n) /\ ~Handles(w, n)'
    <2>1. /\ UNCHANGED noteVars /\ UNCHANGED indexVars /\ Release(w) /\ pc[w] # "idle"
          /\ \E s \in JobStatus : /\ jobs' = [jobs EXCEPT ![held[w]].status = s]
                                  /\ s = "DONE" => MarkDone(w)
      BY <1>6 DEF MarkDone, MarkFailed, JobStatus
    <2>2. held[w] \in 1 .. Len(jobs) /\ jobs[held[w]].note \in Notes
      BY <2>1, HeldTyped DEF Job
    <2>3. \A j \in 1 .. Len(jobs) : jobs'[j].note = jobs[j].note
      BY <2>1, <2>2, RewriteTyped
    <2>4. /\ ~Handles(w, n)'
          /\ \A v \in Workers \ {w} : pc'[v] = pc[v] /\ held'[v] = held[v] /\ seen'[v] = seen[v]
      BY <1>1, <2>1 DEF Release, Handles
    <2>. QED  BY <2>1, <2>2, <2>3, <2>4, OthersQuiet
  <1>7. ASSUME MarkDone(w) \/ MarkFailed(w), ~Handles(w, n) \/ ~MarkDone(w) PROVE Kept
    <2>1. Handles(w, n) <=> jobs[held[w]].note = n
      BY <1>6, <1>7 DEF Handles, Note
    <2>2. Handles(w, n) => Open(held[w])
      BY DEF Sound, HandlerSound
    <2>3. RowsStay(n)
      <3>1. PICK j \in 1 .. Len(jobs), s \in JobStatus :
               /\ j = held[w] /\ jobs' = [jobs EXCEPT ![j].status = s]
               /\ s = "DONE" => MarkDone(w)
        BY <1>6, <1>7
      <3>2. n # jobs[j].note \/ (Open(j) /\ s # "DONE")
        BY <1>7, <2>1, <2>2, <3>1
      <3>. QED  BY <3>1, <3>2, MarkedRowStays
    <2>. QED  BY <1>2, <1>6, <1>7, <2>3 DEF indexVars
  <1>8. ASSUME MarkDone(w), Handles(w, n) PROVE Kept
    <2>1. PICK j \in 1 .. Len(jobs) :
             /\ j = held[w] /\ jobs[j].note = n /\ Open(j) /\ pc[w] = "done"
             /\ jobs' = [jobs EXCEPT ![j].status = "DONE"] /\ jobs[j].op \in Ops
             /\ HeldOp(w) = jobs[j].op
      BY <1>6, <1>8, HeldTyped DEF MarkDone, Handles, Note, HeldOp, Sound, HandlerSound
    <2>2. /\ \A o \in Ops : OtherOpen(j, n, o) => HasOpen(n, o)'
          /\ \A o \in Ops : HasOpen(n, o) => HasOpen(n, o)' \/ o = jobs[j].op
          /\ \A o \in Ops : HasOpen(n, o)' => HasOpen(n, o)
          /\ "UPSERT" \in Ops /\ "DELETE" \in Ops
      BY <2>1, MarkOpen DEF JobStatus, Ops
    <2>3. /\ status' = status /\ version' = version /\ overtaken' = overtaken
          /\ rows' = rows /\ points' = points /\ (WrongPoints(n)' <=> WrongPoints(n))
          /\ note_is_active(n)' <=> note_is_active(n)
      BY <1>6, <1>8 DEF note_is_active, noteVars, indexVars, WrongPoints, NoPoint, Point
    <2>4. \A v \in Workers : ~Handles(v, n)'
      BY <1>6, <1>8 DEF HandlersQuiet, Sound
    <2>5. Sound(n)'
      <3>1. (DeleteToCome(n) => n \in overtaken)'
        BY <2>2, <2>3 DEF Sound, DeleteToCome
      <3>2. (note_is_active(n) /\ rows[n] # version[n] => HasOpen(n, "UPSERT"))'
        BY <1>8, <2>1, <2>2, <2>3 DEF Sound, HandlerSound
      <3>. QED  BY <2>4, <3>1, <3>2 DEF Sound
    <2>6. PointsSound(n) => PointsSound(n)'
      BY <1>8, <2>1, <2>2, <2>3, <2>4 DEF PointsSound
    <2>7. Present(n) => Present(n)'
      BY <1>8, <2>1, <2>2, <2>3, <2>4 DEF Present
    <2>. QED  BY <2>5, <2>6, <2>7

  <1>9. ASSUME Handles(w, n), pc[w] # "idle"
        PROVE  /\ Note(w) = n /\ HandlerSound(w, n) /\ HasOpen(n, HeldOp(w))
               /\ HeldOp(w) \in {"UPSERT", "DELETE"}
    <2>1. held[w] \in 1 .. Len(jobs) /\ jobs[held[w]].note = n /\ HandlerSound(w, n)
      BY <1>9, HandlesRow DEF Sound
    <2>. QED  BY <1>9, <2>1, HeldTyped DEF HandlerSound, HasOpen, HeldOp, Handles, Ops
  <1>10. ASSUME UNCHANGED jobs, UNCHANGED held, UNCHANGED noteVars
         PROVE  /\ Open(held[w])' <=> Open(held[w])
                /\ HeldOp(w)' = HeldOp(w)
                /\ note_is_active(n)' <=> note_is_active(n)
                /\ status' = status /\ version' = version
                /\ \A o : HasOpen(n, o)' <=> HasOpen(n, o)
                /\ \A o : OtherOpen(held[w], n, o)' <=> OtherOpen(held[w], n, o)
    BY <1>10 DEF Open, HeldOp, note_is_active, noteVars, HasOpen, OtherOpen
  <1>11. ASSUME FetchNote(w), Handles(w, n) PROVE Kept
    <2>1. /\ UNCHANGED noteVars /\ UNCHANGED <<jobs, held>> /\ pc[w] = "fetch"
          /\ rows' = rows /\ points' = points
      BY <1>11 DEF FetchNote, indexVars
    <2>2. Note(w) = n /\ HandlerSound(w, n) /\ HasOpen(n, "UPSERT") /\ HeldOp(w) = "UPSERT"
      BY <1>9, <1>11, <2>1 DEF HandlerSound
    <2>3. \/ note_is_active(n) /\ pc'[w] = "embed" /\ seen'[w] = version[n]
          \/ ~note_is_active(n) /\ pc'[w] = "done"
      BY <1>1, <1>11, <2>2 DEF FetchNote
    <2>4. HandlerSound(w, n)'
      BY <1>10, <2>1, <2>2, <2>3 DEF HandlerSound, Upserting, note_is_active, Inactive
    <2>. QED  BY <1>11, <2>1, <2>2, <2>3, <2>4, OwnStepKeeps
              DEF PointsSound, Present, WrongPoints, noteVars, NoPoint, Point
  <1>12. ASSUME StoreRows(w), Handles(w, n) PROVE Kept
    <2>1. /\ UNCHANGED noteVars /\ UNCHANGED <<jobs, held>> /\ pc[w] = "store"
          /\ points' = points /\ seen' = seen
          /\ pc'[w] \in {"clear", "failed"}
      BY <1>1, <1>12 DEF StoreRows, Answer
    <2>2. Note(w) = n /\ HandlerSound(w, n) /\ HasOpen(n, "UPSERT") /\ HeldOp(w) = "UPSERT"
      BY <1>9, <1>12, <2>1 DEF HandlerSound
    <2>3. rows'[n] = seen[w]
      BY <1>1, <1>12, <2>2 DEF StoreRows
    <2>4. HandlerSound(w, n)'
      BY <1>10, <2>1, <2>2, <2>3 DEF HandlerSound, Upserting
    <2>. QED  BY <1>12, <2>1, <2>2, <2>4, OwnStepKeeps
              DEF PointsSound, Present, WrongPoints, noteVars, NoPoint, Point
  <1>13. ASSUME delete_note_points(w), Handles(w, n) PROVE Kept
    <2>1. /\ UNCHANGED noteVars /\ UNCHANGED <<jobs, held>> /\ pc[w] = "clear"
          /\ rows' = rows /\ seen' = seen
          /\ \/ pc'[w] = "failed"
             \/ pc'[w] = "upsert" /\ HeldOp(w) = "UPSERT"
             \/ pc'[w] = "done" /\ HeldOp(w) # "UPSERT"
      BY <1>1, <1>13 DEF delete_note_points, Answer, HeldOp
    <2>2. /\ Note(w) = n /\ HandlerSound(w, n) /\ HasOpen(n, HeldOp(w))
          /\ HeldOp(w) \in {"UPSERT", "DELETE"}
      BY <1>9, <1>13, <2>1
    <2>3. points'[n] = NoPoint
      BY <1>1, <1>13, <2>2 DEF delete_note_points
    <2>4. HandlerSound(w, n)'
      BY <1>10, <2>1, <2>2, <2>3 DEF HandlerSound, Upserting
    <2>5. HeldOp(w) = "DELETE" /\ note_is_active(n) => n \in overtaken
      BY <2>2 DEF Sound, DeleteToCome, note_is_active
    <2>6. ~WrongPoints(n)'
      BY <2>3 DEF WrongPoints, NoPoint, Point
    <2>. QED  BY <1>13, <2>1, <2>2, <2>3, <2>4, <2>5, <2>6, OwnStepKeeps
  <1>14. ASSUME upsert_chunks(w), Handles(w, n) PROVE Kept
    <2>1. /\ UNCHANGED noteVars /\ UNCHANGED <<jobs, held>> /\ pc[w] = "upsert"
          /\ rows' = rows /\ seen' = seen
          /\ pc'[w] \in {"failed", "done"}
      BY <1>1, <1>14 DEF upsert_chunks, Answer
    <2>2. Note(w) = n /\ HandlerSound(w, n) /\ HasOpen(n, "UPSERT") /\ HeldOp(w) = "UPSERT"
      BY <1>9, <1>14, <2>1 DEF HandlerSound
    <2>3. points'[n] = Point(seen[w])
      BY <1>1, <1>14, <2>2 DEF upsert_chunks
    <2>4. /\ status[n] \in Inactive => HasOpen(n, "DELETE")
          /\ note_is_active(n) /\ seen[w] # version[n] => OtherOpen(held[w], n, "UPSERT")
          /\ rows[n] = seen[w]
      BY <2>1, <2>2 DEF HandlerSound, Upserting
    <2>5. HandlerSound(w, n)'
      BY <1>10, <2>1, <2>2, <2>4 DEF HandlerSound, Upserting
    <2>6. WrongPoints(n)' \/ points'[n] = NoPoint => seen[w] # version[n] \/ version[n] = 0
      BY <2>1, <2>3 DEF WrongPoints, NoPoint, Point, noteVars
    <2>7. note_is_active(n) => version[n] # 0
      BY DEF Begun, note_is_active
    <2>. QED  BY <1>14, <2>1, <2>2, <2>4, <2>5, <2>6, <2>7, OwnStepKeeps
  <1>. QED
    BY <1>3, <1>4, <1>5, <1>7, <1>8, <1>11, <1>12, <1>13, <1>14 DEF WorkerStep

-----------------------------------------------------------------------------
(* Any step of the requests and the workers.                                *)

LEMMA BegunInit == Init => Begun
  <1>. SUFFICES ASSUME Init PROVE Begun
    OBVIOUS
  <1>1. Len(jobs) = 0 /\ 1 .. 0 = {}
    BY DEF Init
  <1>. QED  BY <1>1 DEF Init, Begun

LEMMA BegunNext ==
    ASSUME TypeOK, Begun, Next
    PROVE  /\ Begun'
           /\ \A n \in Notes : status'[n] = "none" => status[n] = "none"
           /\ \A n \in Notes : status'[n] = "none" => points'[n] = points[n]
  <1>1. /\ status \in [Notes -> Statuses] /\ version \in [Notes -> Nat]
        /\ points \in [Notes -> [text : 0 .. MaxVersion, meta : 0 .. MaxVersion]]
        /\ Len(jobs) \in Nat /\ "UPSERT" \in Ops /\ "DELETE" \in Ops
    BY DEF TypeOK, Ops
  <1>2. ASSUME NEW m \in Notes, NEW op \in Ops, enqueue_outbox_tx(m, op), UNCHANGED indexVars,
               resolved' \subseteq resolved,
               \A n \in Notes : /\ n # m => status'[n] = status[n] /\ version'[n] = version[n],
               status'[m] # "none", version'[m] # 0
        PROVE  /\ Begun'
               /\ \A n \in Notes : status'[n] = "none" => status[n] = "none"
               /\ \A n \in Notes : status'[n] = "none" => points'[n] = points[n]
    <2>1. \A j \in 1 .. Len(jobs') : \/ j \in 1 .. Len(jobs) /\ jobs'[j] = jobs[j]
                                    \/ jobs'[j].note = m
      <3>1. /\ Len(jobs') = Len(jobs) + 1 /\ \A i \in 1 .. Len(jobs) : jobs'[i] = jobs[i]
            /\ jobs'[Len(jobs')] = [note |-> m, op |-> op, status |-> "PENDING"]
        BY <1>2, EnqueueTyped
      <3>2. \A j \in 1 .. (Len(jobs) + 1) : j \in 1 .. Len(jobs) \/ j = Len(jobs) + 1
        BY <1>1
      <3>3. jobs'[Len(jobs) + 1].note = m
        BY <3>1
      <3>. QED  BY <3>1, <3>2, <3>3
    <2>2. ASSUME NEW n \in Notes, status'[n] = "none"
          PROVE  /\ n # m /\ status[n] = "none" /\ points'[n] = points[n]
                 /\ n \notin resolved' /\ \A j \in 1 .. Len(jobs') : jobs'[j].note # n
      <3>1. n # m /\ status[n] = "none"
        BY <1>2, <2>2
      <3>2. n \notin resolved /\ \A j \in 1 .. Len(jobs) : jobs[j].note # n
        BY <3>1 DEF Begun
      <3>. QED  BY <1>2, <2>1, <3>1, <3>2 DEF indexVars
    <2>3. ASSUME NEW n \in Notes, status'[n] # "none" PROVE version'[n] # 0
      BY <1>2, <2>3 DEF Begun
    <2>. QED  BY <2>2, <2>3 DEF Begun
  <1>3. ASSUME NEW m \in Notes, ApiStep(m)
        PROVE  /\ Begun'
               /\ \A n \in Notes : status'[n] = "none" => status[n] = "none"
               /\ \A n \in Notes : status'[n] = "none" => points'[n] = points[n]
    <2>1. NewContent(m) => /\ \A n \in Notes : n # m => version'[n] = version[n]
                           /\ version'[m] # 0
      BY <1>1 DEF NewContent
    <2>2. status[m] # "none" => version[m] # 0
      BY DEF Begun
    <2>3. CASE AddNote(m)
      BY <1>1, <1>2, <2>1, <2>3 DEF AddNote
    <2>4. CASE UpdateNote(m)
      BY <1>1, <1>2, <2>1, <2>4 DEF UpdateNote, note_is_active
    <2>5. CASE ApplyKeyedUpdate(m)
      <3>1. status[m] # "none"
        BY <2>5 DEF ApplyKeyedUpdate, Begun
      <3>. QED  BY <1>1, <1>2, <2>1, <2>5, <3>1 DEF ApplyKeyedUpdate
    <2>6. CASE PromoteNote(m)
      BY <1>1, <1>2, <2>1, <2>6 DEF PromoteNote
    <2>7. CASE DeleteNote(m)
      BY <1>1, <1>2, <2>2, <2>7 DEF DeleteNote
    <2>8. CASE SupersedeNote(m)
      BY <1>1, <1>2, <2>2, <2>8 DEF SupersedeNote
    <2>9. CASE RestoreNote(m)
      BY <1>1, <1>2, <2>1, <2>9 DEF RestoreNote
    <2>10. CASE ResolveKeyedUpdate(m) \/ KeyedUpdateUnchanged(m) \/ Expire(m)
      BY <2>10 DEF ResolveKeyedUpdate, KeyedUpdateUnchanged, Expire, Begun, note_is_active, indexVars
    <2>. QED
      BY <1>3, <2>3, <2>4, <2>5, <2>6, <2>7, <2>8, <2>9, <2>10 DEF ApiStep
  <1>4. ASSUME UNCHANGED noteVars, Len(jobs') = Len(jobs),
               \A j \in 1 .. Len(jobs) : jobs'[j].note = jobs[j].note,
               \A n \in Notes : points'[n] = points[n] \/
                                (\E j \in 1 .. Len(jobs) : jobs[j].note = n)
        PROVE  /\ Begun'
               /\ \A n \in Notes : status'[n] = "none" => status[n] = "none"
               /\ \A n \in Notes : status'[n] = "none" => points'[n] = points[n]
    BY <1>4 DEF Begun, noteVars
  <1>5. ASSUME NEW w \in Workers, WorkerStep(w) \/ Fail(w) \/ Crash(w)
        PROVE  /\ UNCHANGED noteVars /\ Len(jobs') = Len(jobs)
               /\ \A j \in 1 .. Len(jobs) : jobs'[j].note = jobs[j].note
               /\ \A n \in Notes : points'[n] = points[n] \/
                                   (\E j \in 1 .. Len(jobs) : jobs[j].note = n)
    <2>1. CASE MarkDone(w) \/ MarkFailed(w)
      <3>1. PICK j \in 1 .. Len(jobs), s \in JobStatus : jobs' = [jobs EXCEPT ![j].status = s]
        BY <2>1, HeldTyped DEF MarkDone, MarkFailed, JobStatus
      <3>. QED  BY <2>1, <3>1, RewriteTyped DEF MarkDone, MarkFailed, indexVars
    <2>2. CASE delete_note_points(w) \/ upsert_chunks(w)
      <3>1. /\ pc[w] # "idle" /\ UNCHANGED noteVars /\ jobs' = jobs
            /\ \E p : points' = [points EXCEPT ![Note(w)] = p]
        BY <2>2 DEF delete_note_points, upsert_chunks
      <3>2. held[w] \in 1 .. Len(jobs) /\ jobs[held[w]].note = Note(w)
        BY <3>1, HeldTyped DEF Note
      <3>. QED  BY <1>1, <3>1, <3>2
    <2>3. CASE (\E j \in 1 .. Len(jobs) : Claim(w, j)) \/ FetchNote(w) \/ EmbedNote(w)
                 \/ StoreRows(w) \/ Fail(w) \/ Crash(w)
      BY <2>3 DEF Claim, FetchNote, EmbedNote, StoreRows, Fail, Crash, indexVars
    <2>. QED  BY <1>5, <2>1, <2>2, <2>3 DEF WorkerStep
  <1>6. ASSUME NEW j \in 1 .. Len(jobs), ComesDue(j)
        PROVE  UNCHANGED noteVars /\ UNCHANGED indexVars /\ UNCHANGED jobs
    BY <1>6 DEF ComesDue
  <1>. QED  BY <1>3, <1>4, <1>5, <1>6 DEF Next, indexVars

(* What a note keeps over a step that does not put it into the hands of a   *)
(* second worker, and what a write of it restores.                          *)
LEMMA NextKeeps ==
    ASSUME TypeOK, Begun, Next, NEW n \in Notes, n \notin Overlapping'
    PROVE  /\ Sound(n) => Sound(n)'
           /\ Sound(n) /\ PointsSound(n) => PointsSound(n)'
           /\ Sound(n) /\ Present(n) => Present(n)'
           /\ n \in Repaired => PointsSound(n)' /\ Present(n)'
           /\ n \in Written => Sound(n)' /\ PointsSound(n)' /\ Present(n)'
  <1>1. CASE \E m \in Notes : ApiStep(m)
    BY <1>1, ApiKeeps
  <1>2. ASSUME NEW w \in Workers, WorkerStep(w) \/ Fail(w) \/ Crash(w)
        PROVE  /\ Sound(n) => Sound(n)' /\ (PointsSound(n) => PointsSound(n)')
                                       /\ (Present(n) => Present(n)')
               /\ n \notin Repaired /\ n \notin Written
    <2>1. Len(jobs') = Len(jobs) /\ Len(jobs) \in Nat
      <3>1. CASE MarkDone(w) \/ MarkFailed(w)
        <4>1. PICK j \in 1 .. Len(jobs), s \in JobStatus : jobs' = [jobs EXCEPT ![j].status = s]
          BY <3>1, HeldTyped DEF MarkDone, MarkFailed, JobStatus
        <4>. QED  BY <4>1, RewriteTyped DEF TypeOK
      <3>2. CASE ~(MarkDone(w) \/ MarkFailed(w))
        BY <1>2, <3>2
           DEF WorkerStep, Claim, FetchNote, EmbedNote, StoreRows, delete_note_points,
               upsert_chunks, Fail, Crash, TypeOK
      <3>. QED  BY <3>1, <3>2
    <2>. QED  BY <1>2, <2>1, NoRepair, WorkerKeeps
  <1>3. ASSUME NEW j \in 1 .. Len(jobs), ComesDue(j)
        PROVE  /\ Sound(n) => Sound(n)' /\ (PointsSound(n) => PointsSound(n)')
                                       /\ (Present(n) => Present(n)')
               /\ n \notin Repaired /\ n \notin Written
    <2>1. UNCHANGED noteVars /\ UNCHANGED indexVars /\ UNCHANGED jobs /\ UNCHANGED workerVars
      BY <1>3 DEF ComesDue
    <2>2. NoteStays(n) /\ RowsStay(n) /\ HandlersQuiet(n) /\ points'[n] = points[n]
      BY <2>1, SameRowsStay
         DEF noteVars, indexVars, workerVars, NoteStays, HandlersQuiet, Handles, Note
    <2>3. n \notin Repaired /\ n \notin Written
      <3>1. Len(jobs) \in Nat
        BY DEF TypeOK
      <3>. QED  BY <2>1, <3>1, NoRepair
    <2>. QED  BY <2>2, <2>3, QuietKeeps
  <1>. QED  BY <1>1, <1>2, <1>3 DEF Next

-----------------------------------------------------------------------------
(* Several workers, and Qdrant calls that outlive theirs.                   *)

CallsTyped ==
    adrift \subseteq [note : Notes, point : [text : 0 .. MaxVersion, meta : 0 .. MaxVersion]]

OverlapInv ==
    /\ TypeOK
    /\ Begun
    /\ CallsTyped
    /\ \A n \in Notes \ disturbed : Sound(n) /\ PointsSound(n) /\ Present(n)

LEMMA InitialNotes ==
    ASSUME Init, NEW n \in Notes
    PROVE  Sound(n) /\ PointsSound(n) /\ Present(n)
  <1>1. /\ status[n] = "none" /\ ~note_is_active(n) /\ status[n] \notin Inactive
        /\ \A w \in Workers : ~Handles(w, n)
    BY DEF Init, note_is_active, Inactive, Handles
  <1>. QED  BY <1>1 DEF Sound, PointsSound, Present, DeleteToCome

LEMMA WatchedStepKeeps ==
    ASSUME OverlapInv, WatchedStep
    PROVE  OverlapInv'
  <1>1. TypeOK' /\ Begun'
    BY TypeNext, BegunNext DEF OverlapInv, WatchedStep
  <1>2. CallsTyped'
    BY DEF OverlapInv, CallsTyped, WatchedStep
  <1>3. ASSUME NEW n \in Notes, n \notin disturbed' PROVE (Sound(n) /\ PointsSound(n) /\ Present(n))'
    <2>1. n \notin Overlapping' /\ (n \notin disturbed \/ n \in Written)
      BY <1>3 DEF WatchedStep
    <2>2. n \notin disturbed => Sound(n) /\ PointsSound(n) /\ Present(n)
      BY DEF OverlapInv
    <2>. QED  BY <2>1, <2>2, NextKeeps DEF OverlapInv, WatchedStep
  <1>. QED  BY <1>1, <1>2, <1>3 DEF OverlapInv

LEMMA AbandonCallKeeps ==
    ASSUME OverlapInv, NEW w \in Workers, AbandonCall(w)
    PROVE  OverlapInv'
  <1>1. Next /\ disturbed' = disturbed
    BY DEF AbandonCall, Next
  <1>2. TypeOK' /\ Begun'
    BY <1>1, TypeNext, BegunNext DEF OverlapInv
  <1>3. CallsTyped'
    <2>1. Note(w) \in Notes
      BY HeldTyped DEF AbandonCall, OverlapInv
    <2>2. Point(seen[w]) \in [text : 0 .. MaxVersion, meta : 0 .. MaxVersion]
      BY DEF Point, OverlapInv, TypeOK
    <2>3. NoPoint \in [text : 0 .. MaxVersion, meta : 0 .. MaxVersion]
      BY BoundsAssumption DEF NoPoint, Point
    <2>. QED  BY <2>1, <2>2, <2>3 DEF AbandonCall, OverlapInv, CallsTyped
  <1>4. ASSUME NEW n \in Notes, n \notin disturbed PROVE (Sound(n) /\ PointsSound(n) /\ Present(n))'
    <2>1. Sound(n) /\ PointsSound(n) /\ Present(n)
      BY <1>4 DEF OverlapInv
    <2>2. \A v \in Workers : Handles(v, n)' => Handles(v, n)
      BY DEF AbandonCall, Fail, Crash, Release, Handles, Note, OverlapInv, TypeOK
    <2>3. n \notin Overlapping'
      BY <2>1, <2>2 DEF Overlapping, Sound
    <2>. QED  BY <1>1, <2>1, <2>3, NextKeeps DEF OverlapInv
  <1>. QED  BY <1>1, <1>2, <1>3, <1>4 DEF OverlapInv

(* A call that lands late does no harm to a note that a row awaits: the row *)
(* is in nobody's hands.                                                    *)
LEMMA LandCallKeeps ==
    ASSUME OverlapInv, NEW c \in adrift, LandCall(c)
    PROVE  OverlapInv'
  <1>1. /\ UNCHANGED <<noteVars, workerVars, jobs, due, rows>>
        /\ points' = [points EXCEPT ![c.note] = c.point] /\ adrift' \subseteq adrift
        /\ c.note \in Notes /\ c.point \in [text : 0 .. MaxVersion, meta : 0 .. MaxVersion]
    BY DEF LandCall, OverlapInv, CallsTyped
  <1>2. TypeOK'
    BY <1>1 DEF OverlapInv, TypeOK, noteVars, workerVars
  <1>3. Begun' /\ CallsTyped'
    BY <1>1 DEF OverlapInv, Begun, CallsTyped, noteVars
  <1>4. ASSUME NEW n \in Notes, n \notin disturbed' PROVE (Sound(n) /\ PointsSound(n) /\ Present(n))'
    <2>1. Sound(n) /\ PointsSound(n) /\ Present(n)
      BY <1>4 DEF OverlapInv, LandCall
    <2>2. NoteStays(n) /\ RowsStay(n) /\ HandlersQuiet(n)
      BY <1>1, SameRowsStay DEF noteVars, workerVars, NoteStays, HandlersQuiet, Handles, Note
    <2>3. CASE n # c.note
      <3>1. points'[n] = points[n]
        BY <1>1, <2>3 DEF OverlapInv, TypeOK
      <3>. QED  BY <2>1, <2>2, <3>1, QuietKeeps DEF OverlapInv
    <2>4. CASE n = c.note
      <3>1. Sound(n)'
        BY <2>1, <2>2, QuietKeeps DEF OverlapInv
      <3>2. PICK j \in 1 .. Len(jobs) :
               /\ Open(j) /\ jobs[j].note = n /\ \A w \in Workers : held[w] # j
               /\ jobs[j].op = IF status[n] = "active" THEN "UPSERT" ELSE "DELETE"
        BY <1>4, <2>4 DEF LandCall, Awaits
      <3>3. /\ HasOpen(n, jobs[j].op)
            /\ \A w \in Workers : OtherOpen(held[w], n, jobs[j].op)
        BY <3>2 DEF HasOpen, OtherOpen
      <3>4. /\ status' = status /\ pc' = pc /\ held' = held
            /\ \A o : HasOpen(n, o)' <=> HasOpen(n, o)
            /\ \A o : \A w \in Workers : OtherOpen(held[w], n, o)' <=> OtherOpen(held[w], n, o)
        BY <1>1 DEF noteVars, workerVars, HasOpen, OtherOpen, Open
      <3>5. (PointsSound(n) /\ Present(n))'
        <4>1. CASE status[n] = "active"
          BY <3>2, <3>3, <3>4, <4>1 DEF PointsSound, Present, Inactive
        <4>2. CASE status[n] # "active"
          BY <3>2, <3>3, <3>4, <4>2 DEF PointsSound, Present, note_is_active
        <4>. QED  BY <4>1, <4>2
      <3>. QED  BY <3>1, <3>5
    <2>. QED  BY <2>3, <2>4
  <1>. QED  BY <1>2, <1>3, <1>4 DEF OverlapInv

(* With any number of workers on one outbox, wrong points that no open row  *)
(* will put right belong to a note that two workers handled at once, or     *)
(* that a call reached behind its worker's back, since the last write of it *)
(* that began afresh (claim_next_indexing_outbox_job, mark_failed).         *)
THEOREM HarmIsOverlap == OverlapSpec => []HarmNeedsOverlap
<1>1. OverlapInit => OverlapInv
  BY TypeInit, BegunInit, InitialNotes DEF OverlapInit, OverlapInv, CallsTyped
<1>2. OverlapInv /\ [OverlapNext]_<<vars, overlapVars>> => OverlapInv'
  <2>. SUFFICES ASSUME OverlapInv, UNCHANGED <<vars, overlapVars>> PROVE OverlapInv'
    BY WatchedStepKeeps, AbandonCallKeeps, LandCallKeeps DEF OverlapNext
  <2>1. TypeOK' /\ Begun' /\ CallsTyped' /\ disturbed' = disturbed
    BY DEF OverlapInv, TypeOK, Begun, CallsTyped, vars, overlapVars
  <2>2. \A n \in Notes : /\ NoteStays(n) /\ RowsStay(n) /\ HandlersQuiet(n)
                         /\ points'[n] = points[n]
    BY SameRowsStay DEF vars, NoteStays, HandlersQuiet, Handles, Note
  <2>. QED  BY <2>1, <2>2, QuietKeeps DEF OverlapInv
<1>3. OverlapInv => HarmNeedsOverlap
  <2>. SUFFICES ASSUME OverlapInv, NEW n \in Notes, n \notin overtaken, n \notin disturbed
                PROVE  /\ note_is_active(n) /\ points[n] # Point(version[n]) => HasOpen(n, "UPSERT")
                       /\ status[n] \in Inactive /\ points[n] # NoPoint => HasOpen(n, "DELETE")
    BY DEF HarmNeedsOverlap
  <2>1. PointsSound(n) /\ Present(n)
    BY DEF OverlapInv
  <2>. QED  BY <2>1 DEF PointsSound, Present, WrongPoints
<1>. QED  BY <1>1, <1>2, <1>3, PTL DEF OverlapSpec

-----------------------------------------------------------------------------
(* A rebuild beside the only worker.                                        *)

(* Dropped with the collection, and not yet passed by a rebuild that found  *)
(* nothing wrong with it.                                                   *)
Missing(n) == n \in lost /\ ~(rebuilding /\ unread[n] = NoPoint /\ n \notin skipped)

RebuildTypeOK ==
    /\ rebuilding \in BOOLEAN
    /\ unread \in [Notes -> [text : 0 .. MaxVersion, meta : 0 .. MaxVersion]]
    /\ skipped \subseteq Notes /\ lost \subseteq Notes /\ raced \subseteq Notes

RebuildInv ==
    /\ TypeOK
    /\ RebuildTypeOK
    /\ Begun
    /\ \A n \in Notes :
          /\ status[n] = "none" => points[n] = NoPoint /\ unread[n] = NoPoint
          /\ Sound(n)
          /\ n \in raced \/ PointsSound(n)
          /\ n \in raced \/ Missing(n) \/ Present(n)

LEMMA RebuildRowTyped ==
    ASSUME TypeOK, NEW n \in Notes
    PROVE  /\ RebuildRow(n) \in [text : 0 .. MaxVersion, meta : 0 .. MaxVersion]
           /\ status[n] = "none" => RebuildRow(n) = NoPoint
  BY BoundsAssumption DEF TypeOK, RebuildRow, NoPoint, Point, note_is_active

LEMMA IndexStepKeeps ==
    ASSUME SingleWorker, RebuildInv, IndexStep
    PROVE  RebuildInv'
  <1>1. TypeOK' /\ Begun'
    BY TypeNext, BegunNext DEF RebuildInv, IndexStep
  <1>2. RebuildTypeOK'
    BY DEF RebuildInv, RebuildTypeOK, IndexStep
  <1>3. ASSUME NEW n \in Notes
        PROVE  (/\ status[n] = "none" => points[n] = NoPoint /\ unread[n] = NoPoint
                /\ Sound(n)
                /\ n \in raced \/ PointsSound(n)
                /\ n \in raced \/ Missing(n) \/ Present(n))'
    <2>1. n \notin Overlapping'
      BY DEF SingleWorker, Overlapping
    <2>2. /\ Sound(n)'
          /\ PointsSound(n) => PointsSound(n)'
          /\ Present(n) => Present(n)'
          /\ n \in Repaired => PointsSound(n)' /\ Present(n)'
      BY <2>1, NextKeeps DEF RebuildInv, IndexStep
    <2>3. /\ n \in Repaired \/ (n \in raced => n \in raced')
          /\ n \in Repaired \/ (Missing(n) => Missing(n)')
      BY DEF IndexStep, Missing
    <2>4. (status[n] = "none" => points[n] = NoPoint /\ unread[n] = NoPoint)'
      <3>. SUFFICES ASSUME status'[n] = "none" PROVE points'[n] = NoPoint /\ unread'[n] = NoPoint
        BY DEF NoPoint, Point
      <3>. QED  BY BegunNext DEF RebuildInv, IndexStep
    <2>. QED  BY <2>2, <2>3, <2>4 DEF RebuildInv
  <1>. QED  BY <1>1, <1>2, <1>3 DEF RebuildInv

(* A step of the operator or of rebuild_qdrant: the rows of the outbox, the *)
(* notes and the hands they are in stay.                                    *)
RebuildStays ==
    /\ UNCHANGED noteVars /\ UNCHANGED <<jobs, due, pc, held, seen, rows>>
    /\ faults' \in 0 .. MaxFaults

LEMMA RebuildStaysKeeps ==
    ASSUME RebuildInv, RebuildStays,
           points' \in [Notes -> [text : 0 .. MaxVersion, meta : 0 .. MaxVersion]]
    PROVE  /\ TypeOK' /\ Begun'
           /\ \A n \in Notes :
                 /\ Sound(n)'
                 /\ points'[n] = points[n] /\ PointsSound(n) => PointsSound(n)'
                 /\ points'[n] = points[n] /\ Present(n) => Present(n)'
  <1>1. TypeOK' /\ Begun'
    BY DEF RebuildInv, RebuildStays, TypeOK, Begun, noteVars
  <1>2. \A n \in Notes : NoteStays(n) /\ RowsStay(n) /\ HandlersQuiet(n)
    BY SameRowsStay DEF RebuildStays, noteVars, NoteStays, HandlersQuiet, Handles, Note
  <1>. QED  BY <1>1, <1>2, QuietKeeps DEF RebuildInv

LEMMA DropKeeps ==
    ASSUME RebuildInv, DropCollection
    PROVE  RebuildInv'
  <1>1. /\ points' = [n \in Notes |-> NoPoint] /\ lost' = Notes /\ rebuilding' = FALSE
        /\ unread' = unread /\ skipped' = skipped /\ raced' = raced
        /\ RebuildStays
    BY DEF DropCollection, RebuildInv, RebuildTypeOK, TypeOK, RebuildStays, workerVars
  <1>2. NoPoint \in [text : 0 .. MaxVersion, meta : 0 .. MaxVersion]
    BY BoundsAssumption DEF NoPoint, Point
  <1>3. TypeOK' /\ Begun' /\ \A n \in Notes : Sound(n)'
    BY <1>1, <1>2, RebuildStaysKeeps
  <1>4. \A n \in Notes : PointsSound(n)' /\ Missing(n)'
    BY <1>1 DEF PointsSound, WrongPoints, Missing, NoPoint, Point
  <1>5. (\A n \in Notes : status[n] = "none" => points[n] = NoPoint /\ unread[n] = NoPoint)'
    BY <1>1 DEF RebuildInv, RebuildStays, noteVars, NoPoint, Point
  <1>. QED  BY <1>1, <1>3, <1>4, <1>5 DEF RebuildInv, RebuildTypeOK

(* Notes whose chunk rows are missing have an UPSERT to come, so a rebuild  *)
(* that does not read them need not bring them back.                       *)
LEMMA StartKeeps ==
    ASSUME RebuildInv, StartRebuild
    PROVE  RebuildInv'
  <1>1. /\ points' = points /\ lost' = lost /\ rebuilding' = TRUE /\ ~rebuilding
        /\ unread' = [n \in Notes |-> RebuildRow(n)] /\ skipped' = {} /\ raced' = raced
        /\ RebuildStays
    BY DEF StartRebuild, RebuildInv, TypeOK, RebuildStays, vars, noteVars
  <1>2. /\ TypeOK' /\ Begun'
        /\ \A n \in Notes : /\ Sound(n)'
                            /\ PointsSound(n) => PointsSound(n)'
                            /\ Present(n) => Present(n)'
    BY <1>1, RebuildStaysKeeps DEF RebuildInv, TypeOK
  <1>3. RebuildTypeOK'
    BY <1>1, RebuildRowTyped DEF RebuildInv, RebuildTypeOK
  <1>4. ASSUME NEW n \in Notes, RebuildRow(n) = NoPoint PROVE Present(n)
    <2>1. note_is_active(n) => rows[n] # version[n]
      BY <1>4 DEF RebuildRow, NoPoint, Point, note_is_active, RebuildInv, Begun
    <2>. QED  BY <2>1 DEF Present, RebuildInv, Sound, HandlerSound
  <1>5. ASSUME NEW n \in Notes
        PROVE  /\ n \in raced' \/ PointsSound(n)'
               /\ n \in raced' \/ Missing(n)' \/ Present(n)'
    <2>1. n \in raced \/ PointsSound(n)'
      BY <1>2 DEF RebuildInv
    <2>2. n \in lost /\ ~Missing(n)' => RebuildRow(n) = NoPoint
      BY <1>1 DEF Missing, NoPoint, Point
    <2>3. n \in raced \/ Missing(n)' \/ Present(n)
      BY <1>1, <1>4, <2>2 DEF RebuildInv, Missing
    <2>. QED  BY <1>1, <1>2, <2>1, <2>3
  <1>6. (\A n \in Notes : status[n] = "none" => points[n] = NoPoint /\ unread[n] = NoPoint)'
    BY <1>1, RebuildRowTyped DEF RebuildInv, RebuildStays, noteVars, NoPoint, Point
  <1>. QED  BY <1>2, <1>3, <1>5, <1>6 DEF RebuildInv

(* The row is current: points made of it are right, or its chunk rows are   *)
(* behind and an UPSERT is to come.                                         *)
LEMMA RebuildUpsertKeeps ==
    ASSUME RebuildInv, NEW n \in Notes, RebuildUpsert(n)
    PROVE  RebuildInv'
  <1>1. /\ points' = [points EXCEPT ![n] = unread[n]] /\ unread[n] # NoPoint
        /\ unread' = [unread EXCEPT ![n] = NoPoint]
        /\ raced' = IF unread[n] # RebuildRow(n) THEN raced \cup {n} ELSE raced
        /\ lost' = lost /\ rebuilding' = rebuilding /\ skipped' = skipped
        /\ RebuildStays
    BY DEF RebuildUpsert, RebuildInv, TypeOK, RebuildStays, workerVars
  <1>2. points' \in [Notes -> [text : 0 .. MaxVersion, meta : 0 .. MaxVersion]]
    BY <1>1 DEF RebuildInv, RebuildTypeOK, TypeOK
  <1>3. /\ TypeOK' /\ Begun'
        /\ \A m \in Notes : /\ Sound(m)'
                            /\ points'[m] = points[m] /\ PointsSound(m) => PointsSound(m)'
                            /\ points'[m] = points[m] /\ Present(m) => Present(m)'
    BY <1>1, <1>2, RebuildStaysKeeps
  <1>4. RebuildTypeOK'
    <2>1. NoPoint \in [text : 0 .. MaxVersion, meta : 0 .. MaxVersion]
      BY BoundsAssumption DEF NoPoint, Point
    <2>. QED  BY <1>1, <2>1 DEF RebuildInv, RebuildTypeOK
  <1>5. status[n] # "none"
    BY <1>1 DEF RebuildInv
  <1>6. ASSUME NEW m \in Notes, m # n
        PROVE  (/\ status[m] = "none" => points[m] = NoPoint /\ unread[m] = NoPoint
                /\ m \in raced \/ PointsSound(m)
                /\ m \in raced \/ Missing(m) \/ Present(m))'
    <2>1. points'[m] = points[m] /\ unread'[m] = unread[m] /\ (m \in raced => m \in raced')
      BY <1>1, <1>6 DEF RebuildInv, TypeOK, RebuildTypeOK
    <2>2. Missing(m) => Missing(m)'
      BY <1>1, <2>1 DEF Missing, NoPoint, Point
    <2>3. status'[m] = "none" => points'[m] = NoPoint /\ unread'[m] = NoPoint
      BY <1>1, <2>1 DEF RebuildInv, RebuildStays, noteVars
    <2>. QED  BY <1>3, <2>1, <2>2, <2>3 DEF RebuildInv, NoPoint, Point
  <1>7. ASSUME unread[n] = RebuildRow(n) PROVE PointsSound(n)' /\ Present(n)'
    <2>1. /\ note_is_active(n) /\ version[n] # 0
          /\ points'[n] = [text |-> rows[n], meta |-> version[n]]
      BY <1>1, <1>2, <1>5, <1>7 DEF RebuildRow, RebuildInv, Begun, TypeOK
    <2>2. /\ points'[n] # NoPoint /\ (rows[n] = version[n] => points'[n] = Point(version[n]))
      BY <2>1 DEF NoPoint, Point
    <2>3. /\ rows[n] # version[n] => HasOpen(n, "UPSERT")
          /\ rows[n] # version[n] =>
                \A w \in Workers : Handles(w, n) /\ pc[w] = "done" /\ HeldOp(w) = "UPSERT"
                   => OtherOpen(held[w], n, "UPSERT")
      BY <2>1 DEF RebuildInv, Sound, HandlerSound
    <2>4. /\ status' = status /\ version' = version /\ pc' = pc
          /\ \A w : (Handles(w, n)' <=> Handles(w, n)) /\ HeldOp(w)' = HeldOp(w)
          /\ HasOpen(n, "UPSERT")' <=> HasOpen(n, "UPSERT")
          /\ \A w : OtherOpen(held[w], n, "UPSERT")' <=> OtherOpen(held[w], n, "UPSERT")
      BY <1>1 DEF RebuildStays, noteVars, Handles, Note, HeldOp, HasOpen, OtherOpen, Open
    <2>5. status'[n] \notin Inactive
      BY <2>1, <2>4 DEF note_is_active, Inactive
    <2>6. WrongPoints(n)' => rows[n] # version[n]
      BY <2>2, <2>4 DEF WrongPoints, NoPoint, Point
    <2>7. points'[n] # NoPoint'
      BY <2>2 DEF NoPoint, Point
    <2>. QED  BY <2>3, <2>4, <2>5, <2>6, <2>7 DEF PointsSound, Present
  <1>8. ASSUME unread[n] # RebuildRow(n) PROVE n \in raced'
    BY <1>1, <1>8
  <1>9. status'[n] # "none"
    BY <1>1, <1>5 DEF RebuildStays, noteVars
  <1>10. ASSUME NEW m \in Notes
         PROVE  (/\ status[m] = "none" => points[m] = NoPoint /\ unread[m] = NoPoint
                 /\ Sound(m)
                 /\ m \in raced \/ PointsSound(m)
                 /\ m \in raced \/ Missing(m) \/ Present(m))'
    <2>1. CASE m = n
      BY <1>3, <1>7, <1>8, <1>9, <2>1
    <2>2. CASE m # n
      BY <1>3, <1>6, <2>2
    <2>. QED  BY <2>1, <2>2
  <1>. QED  BY <1>3, <1>4, <1>10 DEF RebuildInv

LEMMA RebuildReadsKeep ==
    ASSUME RebuildInv,
           FinishRebuild \/ AbandonRebuild \/ \E n \in Notes : RebuildSkip(n)
    PROVE  RebuildInv'
  <1>1. RebuildStays /\ points' = points /\ raced' = raced
    <2>1. MaxFaults \in Nat /\ faults \in 0 .. MaxFaults
      BY BoundsAssumption DEF RebuildInv, TypeOK
    <2>. QED  BY <2>1 DEF FinishRebuild, AbandonRebuild, RebuildSkip, RebuildStays, vars, noteVars,
                          indexVars
  <1>2. /\ TypeOK' /\ Begun'
        /\ \A n \in Notes : /\ Sound(n)'
                            /\ PointsSound(n) => PointsSound(n)'
                            /\ Present(n) => Present(n)'
    BY <1>1, RebuildStaysKeeps DEF RebuildInv, TypeOK
  <1>3. NoPoint \in [text : 0 .. MaxVersion, meta : 0 .. MaxVersion]
    BY BoundsAssumption DEF NoPoint, Point
  <1>4. RebuildTypeOK' /\ \A n \in Notes : unread[n] = NoPoint => unread'[n] = NoPoint
    <2>1. CASE FinishRebuild
      BY <2>1 DEF FinishRebuild, RebuildInv, RebuildTypeOK
    <2>2. CASE AbandonRebuild
      BY <1>3, <2>2 DEF AbandonRebuild, RebuildInv, RebuildTypeOK
    <2>3. ASSUME NEW n \in Notes, RebuildSkip(n)
          PROVE  RebuildTypeOK' /\ \A m \in Notes : unread[m] = NoPoint => unread'[m] = NoPoint
      BY <1>3, <2>3 DEF RebuildSkip, RebuildInv, RebuildTypeOK
    <2>. QED  BY <2>1, <2>2, <2>3
  <1>5. ASSUME NEW n \in Notes, Missing(n) PROVE Missing(n)'
    BY <1>5 DEF FinishRebuild, AbandonRebuild, RebuildSkip, Missing, RebuildInv, RebuildTypeOK,
                NoPoint, Point
  <1>6. ASSUME NEW n \in Notes
        PROVE  (status[n] = "none" => points[n] = NoPoint /\ unread[n] = NoPoint)'
    BY <1>1, <1>4 DEF RebuildInv, RebuildStays, noteVars, NoPoint, Point
  <1>. QED  BY <1>1, <1>2, <1>4, <1>5, <1>6 DEF RebuildInv

(* With one worker, whatever a rebuild meets, a note whose points are wrong *)
(* and that no outbox row will put right was overtaken by a late DELETE,    *)
(* was dropped with the collection and not brought back, or was upserted    *)
(* from a row that had changed (rebuild_qdrant).                            *)
THEOREM RebuildAgrees ==
    ASSUME SingleWorker
    PROVE  RebuildSpec => []RebuiltIndexAgrees
<1>1. RebuildInit => RebuildInv
  <2>. SUFFICES ASSUME RebuildInit PROVE RebuildInv
    OBVIOUS
  <2>1. NoPoint \in [text : 0 .. MaxVersion, meta : 0 .. MaxVersion]
    BY BoundsAssumption DEF NoPoint, Point
  <2>2. RebuildTypeOK /\ \A n \in Notes : points[n] = NoPoint /\ unread[n] = NoPoint
    BY <2>1 DEF RebuildInit, RebuildTypeOK, Init
  <2>. QED  BY <2>2, TypeInit, BegunInit, InitialNotes DEF RebuildInit, RebuildInv
<1>2. RebuildInv /\ [RebuildNext]_allVars => RebuildInv'
  <2>. SUFFICES ASSUME RebuildInv, UNCHANGED allVars PROVE RebuildInv'
    BY IndexStepKeeps, DropKeeps, StartKeeps, RebuildUpsertKeeps, RebuildReadsKeep DEF RebuildNext
  <2>1. RebuildStays /\ points' = points /\ RebuildTypeOK'
    BY DEF RebuildInv, TypeOK, RebuildTypeOK, RebuildStays, allVars, vars, rebuildVars, noteVars
  <2>2. /\ TypeOK' /\ Begun'
        /\ \A n \in Notes : /\ Sound(n)'
                            /\ PointsSound(n) => PointsSound(n)'
                            /\ Present(n) => Present(n)'
    BY <2>1, RebuildStaysKeeps DEF RebuildInv, TypeOK
  <2>3. UNCHANGED rebuildVars /\ UNCHANGED vars
    BY DEF allVars
  <2>4. \A n \in Notes : /\ (status[n] = "none" => points[n] = NoPoint /\ unread[n] = NoPoint)'
                         /\ Missing(n) => Missing(n)'
    BY <2>3 DEF RebuildInv, Missing, rebuildVars, vars, NoPoint, Point
  <2>. QED  BY <2>1, <2>2, <2>3, <2>4 DEF RebuildInv, rebuildVars
<1>3. RebuildInv => RebuiltIndexAgrees
  <2>. SUFFICES ASSUME RebuildInv, NEW n \in Notes, n \notin overtaken \cup lost \cup raced,
                       ~HasOpen(n, "UPSERT"), ~HasOpen(n, "DELETE")
                PROVE  IF note_is_active(n) THEN points[n] = Point(version[n])
                                            ELSE status[n] = "active" \/ points[n] = NoPoint
    BY DEF RebuiltIndexAgrees
  <2>1. PointsSound(n) /\ Present(n)
    BY DEF RebuildInv, Missing
  <2>2. status[n] \in {"none", "active"} \cup Inactive
    BY DEF RebuildInv, TypeOK, Statuses, Inactive
  <2>. QED  BY <2>1, <2>2 DEF PointsSound, Present, WrongPoints, RebuildInv
<1>. QED  BY <1>1, <1>2, <1>3, PTL DEF RebuildSpec
=============================================================================
