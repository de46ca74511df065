------------------------- MODULE NoteIndexingRebuild -------------------------
(***************************************************************************)
(* The rebuild of the note index beside the worker.  An operator may drop   *)
(* and recreate the Qdrant collection and call rebuild_qdrant, which reads  *)
(* the chunk rows of all active notes in one statement and then upserts     *)
(* them one by one, looking at nothing again.  Requests and the worker go   *)
(* on meanwhile.                                                           *)
(***************************************************************************)
EXTENDS NoteIndexing

CONSTANT MaxRebuilds       \* bound on the rebuilds

VARIABLES
    rebuilding,   \* a rebuild_qdrant request is running
    unread,       \* the rows it has read and not upserted yet, by note
    rebuilds,     \* rebuilds so far
    skipped,      \* rows the running rebuild could not upsert
    lost,         \* history: dropped with the collection, not brought back
    raced         \* history: written from a row that had changed meanwhile

rebuildVars == <<rebuilding, unread, rebuilds, skipped, lost, raced>>
allVars == <<vars, rebuildVars>>

RebuildInit ==
    /\ Init
    /\ rebuilding = FALSE
    /\ unread = [n \in Notes |-> NoPoint]
    /\ rebuilds = 0
    /\ skipped = {} /\ lost = {} /\ raced = {}

(* Slip: the WHERE clause on the status of the note is gone.                *)
RebuildRowAnyStatus(n) ==
    IF version[n] # 0 /\ rows[n] # 0 THEN [text |-> rows[n], meta |-> version[n]] ELSE NoPoint

(* What the SELECT returns for a note: the text and vector of its chunk     *)
(* rows, the payload of its note row.                                      *)
RebuildRow(n) ==
    IF note_is_active(n) /\ rows[n] # 0
    THEN [text |-> rows[n], meta |-> version[n]] ELSE NoPoint

(* The operator drops the collection and creates it again.                  *)
DropCollection ==
    /\ ~rebuilding
    /\ rebuilds < MaxRebuilds
    /\ points' = [n \in Notes |-> NoPoint]
    /\ lost' = Notes
    /\ UNCHANGED <<noteVars, workerVars, jobs, due, rows>>
    /\ UNCHANGED <<rebuilding, unread, rebuilds, skipped, raced>>

StartRebuild ==
    /\ ~rebuilding
    /\ rebuilds < MaxRebuilds
    /\ rebuilding' = TRUE
    /\ rebuilds' = rebuilds + 1
    /\ unread' = [n \in Notes |-> RebuildRow(n)]
    /\ skipped' = {}
    /\ UNCHANGED vars
    /\ UNCHANGED <<lost, raced>>

RebuildUpsert(n) ==
    /\ unread[n] # NoPoint
    /\ points' = [points EXCEPT ![n] = unread[n]]
    /\ unread' = [unread EXCEPT ![n] = NoPoint]
    /\ raced' = IF unread[n] # RebuildRow(n) THEN raced \cup {n} ELSE raced
    /\ UNCHANGED <<noteVars, workerVars, jobs, due, rows>>
    /\ UNCHANGED <<rebuilding, rebuilds, skipped, lost>>

(* A vector that is missing or does not parse, a failed upsert: counted,    *)
(* and the loop goes on.                                                   *)
RebuildSkip(n) ==
    /\ unread[n] # NoPoint
    /\ faults < MaxFaults
    /\ faults' = faults + 1
    /\ unread' = [unread EXCEPT ![n] = NoPoint]
    /\ skipped' = skipped \cup {n}
    /\ UNCHANGED <<noteVars, indexVars, jobs, due, pc, held, seen>>
    /\ UNCHANGED <<rebuilding, rebuilds, lost, raced>>

(* A report without errors means that what was dropped is back.             *)
FinishRebuild ==
    /\ rebuilding
    /\ \A n \in Notes : unread[n] = NoPoint
    /\ rebuilding' = FALSE
    /\ skipped' = {}
    /\ lost' = lost \cap skipped
    /\ UNCHANGED vars
    /\ UNCHANGED <<unread, rebuilds, raced>>

(* The API process dies, or the request is cancelled.                       *)
AbandonRebuild ==
    /\ rebuilding
    /\ faults < MaxFaults
    /\ faults' = faults + 1
    /\ rebuilding' = FALSE
    /\ unread' = [n \in Notes |-> NoPoint]
    /\ skipped' = {}
    /\ UNCHANGED <<noteVars, indexVars, jobs, due, pc, held, seen>>
    /\ UNCHANGED <<rebuilds, lost, raced>>

(* The job of a write sets the points right again, but for the UPSERT that  *)
(* a keyed add_note enqueues for a note that was removed meanwhile.         *)
Repaired == {n \in Notes : \E j \in (Len(jobs) + 1) .. Len(jobs') :
                jobs'[j].note = n /\ (jobs'[j].op = "DELETE" \/ status'[n] = "active")}

IndexStep ==
    /\ Next
    /\ lost' = lost \ Repaired
    /\ raced' = raced \ Repaired
    /\ UNCHANGED <<rebuilding, unread, rebuilds, skipped>>

RebuildNext ==
    \/ IndexStep
    \/ DropCollection
    \/ StartRebuild
    \/ \E n \in Notes : RebuildUpsert(n) \/ RebuildSkip(n)
    \/ FinishRebuild
    \/ AbandonRebuild

RebuildSpec == RebuildInit /\ [][RebuildNext]_allVars

(* A note whose points are wrong, and that no outbox row will put right,    *)
(* was overtaken by a late DELETE, or dropped with the collection and not   *)
(* reached by a rebuild that reported no error, or upserted by a rebuild    *)
(* after its row or its chunk rows had changed; and its next write ends it. *)
(* So a rebuild that meets no write repairs a lost collection, half-way     *)
(* through the handling of a job too.                                      *)
RebuiltIndexAgrees ==
    \A n \in Notes :
        \/ IF note_is_active(n) THEN points[n] = Point(version[n])
                                ELSE status[n] = "active" \/ points[n] = NoPoint
        \/ HasOpen(n, "UPSERT") \/ HasOpen(n, "DELETE")
        \/ n \in overtaken \cup lost \cup raced

=============================================================================
