------------------------ MODULE NoteIndexingOverlap ------------------------
(***************************************************************************)
(* What can go wrong with the note index when several workers poll one      *)
(* outbox, and when a Qdrant call outlives the worker that made it.  The    *)
(* claim keeps two workers off one row for 30 s, but not off two rows of    *)
(* one note, and the Qdrant client waits up to 60 s: a call it has given    *)
(* up, or whose worker has died, may still be carried out.                  *)
(***************************************************************************)
EXTENDS NoteIndexing

VARIABLES
    adrift,      \* Qdrant calls that nobody waits for any more
    disturbed    \* history: notes handled by two workers at once, or hit by a call adrift

overlapVars == <<adrift, disturbed>>

OverlapInit ==
    /\ Init
    /\ adrift = {}
    /\ disturbed = {}

Handles(w, n) == held[w] # 0 /\ Note(w) = n

(* Notes with rows in the hands of two workers, the same row or not.        *)
Overlapping ==
    {n \in Notes : \E v, w \in Workers : v # w /\ Handles(v, n) /\ Handles(w, n)}

(* An active note with a DELETE row to come: it was restored too early, or  *)
(* a late mark reopened the row behind the restore.                        *)
DeleteToCome(n) == status[n] = "active" /\ HasOpen(n, "DELETE")

(* A write that nobody is handling the note of, and that no DELETE row will *)
(* undo, leaves a job that begins afresh.                                   *)
Written ==
    {n \in Notes : /\ \A w \in Workers : ~Handles(w, n)
                   /\ \E j \in (Len(jobs) + 1) .. Len(jobs') :
                         jobs'[j].note = n /\ (jobs'[j].op = "DELETE" \/ status'[n] = "active")
                   /\ ~DeleteToCome(n)'}

WatchedStep ==
    /\ Next
    /\ disturbed' = (disturbed \ Written) \cup Overlapping'
    /\ UNCHANGED adrift

(* The client times out (Fail), or the worker dies (Crash), while Qdrant    *)
(* has the call.                                                            *)
AbandonCall(w) ==
    /\ pc[w] \in {"clear", "upsert"}
    /\ Fail(w) \/ Crash(w)
    /\ adrift' = adrift \cup {[note |-> Note(w),
                               point |-> IF pc[w] = "upsert" THEN Point(seen[w]) ELSE NoPoint]}
    /\ UNCHANGED disturbed

(* A row of the note that a worker has yet to take up, and that will make   *)
(* the points what they should be.                                          *)
Awaits(n) ==
    \E j \in 1 .. Len(jobs) :
        /\ Open(j) /\ jobs[j].note = n /\ \A w \in Workers : held[w] # j
        /\ jobs[j].op = IF status[n] = "active" THEN "UPSERT" ELSE "DELETE"

LandCall(c) ==
    /\ c \in adrift
    /\ points' = [points EXCEPT ![c.note] = c.point]
    /\ adrift' = adrift \ {c}
    /\ disturbed' = IF Awaits(c.note) THEN disturbed ELSE disturbed \cup {c.note}
    /\ UNCHANGED <<noteVars, workerVars, jobs, due, rows>>

OverlapNext ==
    \/ WatchedStep
    \/ \E w \in Workers : AbandonCall(w)
    \/ \E c \in adrift : LandCall(c)

OverlapSpec == OverlapInit /\ [][OverlapNext]_<<vars, overlapVars>> /\ Fairness

(* Points that are wrong, and that no open row will put right, belong to a  *)
(* note that two workers handled at once, or that a Qdrant call reached     *)
(* after its worker had given it up, since the last write that found it in  *)
(* nobody's hands and left no DELETE row to come; or they were overtaken by *)
(* a late DELETE.  Leases that run out and retries do no other harm, nor do *)
(* rows that late marks reopen, but for a DELETE reopened behind a restore. *)
HarmNeedsOverlap ==
    \A n \in Notes \ (overtaken \cup disturbed) :
        /\ note_is_active(n) /\ points[n] # Point(version[n]) => HasOpen(n, "UPSERT")
        /\ status[n] \in Inactive /\ points[n] # NoPoint => HasOpen(n, "DELETE")
=============================================================================
