--------------------------- MODULE ServingProofs ---------------------------
(***************************************************************************)
(* What the service keeps of its searches, profiles and core blocks, for   *)
(* every set of requests, clients and workers: search traces               *)
(* (SearchTraces), progressive sessions (SearchSessions), ingestion        *)
(* profiles (IngestionProfiles) and core memory blocks (CoreBlocks).       *)
(***************************************************************************)
EXTENDS SearchTraces, SearchSessions, IngestionProfiles, CoreBlocks, TLAPS

-----------------------------------------------------------------------------
(* Traces                                                                  *)

(* A worker that is about to mark its job DONE has stored the trace, which *)
(* is there or has expired since; a clean-up removes what has expired.     *)
MarksAreEarned ==
  \A p \in Pollers : pc[p] = "mark_done" => stored[job[p]] # {} \/ "header" \in past[job[p]]

SweepsAreDue == \A p \in Pollers, t \in Traces : sweep[p][t] \subseteq past[t]

TraceInv == TraceTypeOK /\ WholeTraces /\ MarksAreEarned /\ SweepsAreDue

LEMMA InitTraces == TraceInit => TraceInv
  BY TraceAssumption
     DEF TraceInit, TraceInv, TraceTypeOK, WholeTraces, MarksAreEarned, SweepsAreDue, Steps, Open,
         Parts, Nothing

LEMMA JobOfBusy ==
  ASSUME TraceInv, NEW p \in Pollers, pc[p] \in {"begun", "rest", "mark_done", "mark_failed"}
  PROVE  job[p] \in Traces
  BY DEF TraceInv, TraceTypeOK

(* Searches, the passing of time and the outbox.                           *)
LEMMA SearchKeepsTraces ==
  ASSUME TraceInv, NEW t \in Traces, SearchStep(t) \/ TraceComesDue(t) \/ LeaseOutrun(t)
  PROVE  TraceInv'
  <1>. USE TraceAssumption DEF TraceInv, TraceTypeOK, WholeTraces, MarksAreEarned, SweepsAreDue
  <1>1. CASE enqueue_trace(t)
    BY <1>1 DEF enqueue_trace, Open
  <1>2. CASE persist_trace_inline(t)
    BY <1>2 DEF persist_trace_inline, Parts
  <1>3. CASE TraceNotWritten(t)
    BY <1>3 DEF TraceNotWritten
  <1>4. ASSUME NEW part \in {"header", "candidates"}, Expire(t, part) PROVE TraceInv'
    BY <1>4 DEF Expire
  <1>5. CASE TraceComesDue(t)
    BY <1>5 DEF TraceComesDue
  <1>6. CASE LeaseOutrun(t)
    BY <1>6 DEF LeaseOutrun, Faulty
  <1>. QED  BY <1>1, <1>2, <1>3, <1>4, <1>5, <1>6 DEF SearchStep

(* Jobs.                                                                   *)
LEMMA JobKeepsTraces ==
  ASSUME TraceInv, NEW p \in Pollers,
         \/ \E t \in Traces : ClaimTrace(p, t)
         \/ NothingDue(p) \/ InsertHeader(p) \/ Committed(p) \/ CommittedUnheard(p)
         \/ HeaderPurged(p) \/ StatementFails(p)
         \/ MarkTraceDone(p) \/ MarkTraceFailed(p) \/ MarkFails(p)
  PROVE  TraceInv'
  <1>. USE TraceAssumption DEF TraceInv, TraceTypeOK, WholeTraces, MarksAreEarned, SweepsAreDue
  <1>1. ASSUME NEW t \in Traces, ClaimTrace(p, t) PROVE TraceInv'
    BY <1>1 DEF ClaimTrace, Steps
  <1>2. CASE NothingDue(p)
    BY <1>2 DEF NothingDue, Steps
  <1>3. CASE InsertHeader(p)
    <2>1. TraceTypeOK'
      BY <1>3 DEF InsertHeader, Steps
    <2>2. WholeTraces' /\ MarksAreEarned' /\ SweepsAreDue'
      BY <1>3 DEF InsertHeader
    <2>. QED  BY <2>1, <2>2
  <1>4. CASE Committed(p)
    <2>1. job[p] \in Traces
      BY <1>4, JobOfBusy DEF Committed, Commit
    <2>2. TraceTypeOK'
      BY <1>4, <2>1 DEF Committed, Commit, Parts, Steps
    <2>3. /\ stored' = [stored EXCEPT ![job[p]] = Parts]
          /\ UNCHANGED <<outbox, past, job, sweep>>
          /\ \A q \in Pollers \ {p} : pc'[q] = pc[q]
      BY <1>4 DEF Committed, Commit
    <2>4. stored'[job[p]] = Parts /\ \A t \in Traces \ {job[p]} : stored'[t] = stored[t]
      BY <2>1, <2>3
    <2>5. WholeTraces' /\ SweepsAreDue'
      BY <2>3, <2>4 DEF Parts
    <2>6. MarksAreEarned'
      BY <2>2, <2>3, <2>4 DEF Parts
    <2>. QED  BY <2>2, <2>5, <2>6
  <1>5. CASE CommittedUnheard(p)
    <2>1. job[p] \in Traces
      BY <1>5, JobOfBusy DEF CommittedUnheard, Commit
    <2>2. TraceTypeOK'
      BY <1>5, <2>1 DEF CommittedUnheard, Commit, Faulty, Parts, Steps
    <2>3. /\ stored' = [stored EXCEPT ![job[p]] = Parts]
          /\ UNCHANGED <<outbox, past, job, sweep>>
          /\ \A q \in Pollers \ {p} : pc'[q] = pc[q]
      BY <1>5 DEF CommittedUnheard, Commit
    <2>4. stored'[job[p]] = Parts /\ \A t \in Traces \ {job[p]} : stored'[t] = stored[t]
      BY <2>1, <2>3
    <2>5. WholeTraces' /\ SweepsAreDue'
      BY <2>3, <2>4 DEF Parts
    <2>6. MarksAreEarned'
      BY <2>2, <2>3, <2>4 DEF Parts
    <2>. QED  BY <2>2, <2>5, <2>6
  <1>6. CASE HeaderPurged(p)
    BY <1>6 DEF HeaderPurged, Steps
  <1>7. CASE StatementFails(p)
    BY <1>7 DEF StatementFails, Faulty, Steps
  <1>8. CASE MarkTraceDone(p)
    BY <1>8, JobOfBusy DEF MarkTraceDone, AfterJob, Steps, Open
  <1>9. CASE MarkTraceFailed(p)
    BY <1>9, JobOfBusy DEF MarkTraceFailed, AfterJob, Steps, Open
  <1>10. CASE MarkFails(p)
    BY <1>10 DEF MarkFails, Faulty, AfterJob, Steps
  <1>. QED  BY <1>1, <1>2, <1>3, <1>4, <1>5, <1>6, <1>7, <1>8, <1>9, <1>10

(* The clean-up, its clock and crashes.                                    *)
LEMMA CleanupKeepsTraces ==
  ASSUME TraceInv, NEW p \in Pollers,
         \/ ReadClock(p) \/ purge_expired_trace_candidates(p) \/ purge_expired_traces(p)
         \/ PurgeFails(p) \/ IntervalPasses(p) \/ CrashPoller(p)
  PROVE  TraceInv'
  <1>. USE TraceAssumption DEF TraceInv, TraceTypeOK, WholeTraces, MarksAreEarned, SweepsAreDue
  <1>1. CASE ReadClock(p)
    <2>1. /\ UNCHANGED <<searched, outbox, due, stored, past, job, inserted, overdue, traceFaults>>
          /\ pc[p] = "clock"
          /\ \/ pc' = [pc EXCEPT ![p] = "purge_candidates"]
             \/ pc' = [pc EXCEPT ![p] = "loop"]
      BY <1>1 DEF ReadClock
    <2>2. sweep' = [sweep EXCEPT ![p] = past] \/ sweep' = sweep
      BY <1>1 DEF ReadClock
    <2>3. pc' \in [Pollers -> Steps] /\ \A q \in Pollers : pc'[q] = pc[q] \/ q = p
      BY <2>1 DEF Steps
    <2>4. pc'[p] \in {"purge_candidates", "loop"}
      BY <2>1
    <2>5. /\ sweep' \in [Pollers -> [Traces -> SUBSET {"header", "candidates"}]]
          /\ \A q \in Pollers : sweep'[q] = sweep[q] \/ sweep'[q] = past
      BY <2>2
    <2>6. TraceTypeOK'
      BY <2>1, <2>3, <2>4, <2>5
    <2>7. SweepsAreDue'
      BY <2>1, <2>5
    <2>. QED  BY <2>1, <2>3, <2>4, <2>6, <2>7
  <1>2. CASE purge_expired_trace_candidates(p)
    BY <1>2 DEF purge_expired_trace_candidates, Steps
  <1>3. CASE purge_expired_traces(p)
    BY <1>3 DEF purge_expired_traces, Steps, Nothing
  <1>4. CASE PurgeFails(p)
    BY <1>4 DEF PurgeFails, Faulty, Steps, Nothing
  <1>5. CASE IntervalPasses(p)
    BY <1>5 DEF IntervalPasses
  <1>6. CASE CrashPoller(p)
    BY <1>6 DEF CrashPoller, Faulty, Steps, Nothing
  <1>. QED  BY <1>1, <1>2, <1>3, <1>4, <1>5, <1>6

LEMMA NextTraces == TraceInv /\ [TraceNext]_traceVars => TraceInv'
  <1>. SUFFICES ASSUME TraceInv, [TraceNext]_traceVars PROVE TraceInv'
    OBVIOUS
  <1>1. ASSUME NEW t \in Traces, SearchStep(t) \/ TraceComesDue(t) \/ LeaseOutrun(t)
        PROVE  TraceInv'
    BY <1>1, SearchKeepsTraces
  <1>2. ASSUME NEW p \in Pollers, PollerStep(p) \/ PollerFault(p) \/ IntervalPasses(p)
        PROVE  TraceInv'
    BY <1>2, JobKeepsTraces, CleanupKeepsTraces
       DEF PollerStep, PollerFault
  <1>3. CASE UNCHANGED traceVars
    BY <1>3 DEF traceVars, TraceInv, TraceTypeOK, WholeTraces, MarksAreEarned, SweepsAreDue
  <1>. QED  BY <1>1, <1>2, <1>3 DEF TraceNext

(* Traces are stored whole and purged whole, whatever retries, second      *)
(* workers and purges meet (handle_trace_job, purge_expired_traces), for   *)
(* any number of workers and faults.                                       *)
THEOREM TracesStayWhole == TraceSpec => []WholeTraces
<1>1. TraceInv => WholeTraces
  BY DEF TraceInv
<1>. QED  BY <1>1, InitTraces, NextTraces, PTL DEF TraceSpec

-----------------------------------------------------------------------------
(* Sessions                                                                *)

CleanupIsPast == cleanup <= clock

(* A session that nobody knows is not there, and nobody was promised it.   *)
UnknownAreUnused ==
  \A s \in Sessions : s \notin known => session[s] = NoSession /\ promised[s] = 0

(* A search stores a session that no other request names.                  *)
StoresAreAlone ==
  \A c \in Clients : request[c].at = "store" =>
    /\ request[c].id \in Sessions \ known
    /\ \A d \in Clients \ {c} : request[d].id # request[c].id

(* A follow-up that has loaded a session knows when it was created; since  *)
(* then it was only extended, unless it has expired and was purged.        *)
LoadsStillHold ==
  \A c \in Clients :
    LET r == request[c]
    IN /\ r.at \in {"load", "touch"} => r.id \in known
       /\ r.at = "touch" =>
            IF session[r.id] = NoSession THEN r.expires <= clock
            ELSE session[r.id].created = r.created /\ r.expires <= session[r.id].expires

SessionInv ==
  /\ SessionTypeOK /\ CleanupIsPast /\ UnknownAreUnused /\ StoresAreAlone /\ LoadsStillHold
  /\ PromisesKept

LEMMA InitSessions == SessionInit => SessionInv
  BY SessionAssumption
     DEF SessionInit, SessionInv, SessionTypeOK, CleanupIsPast, UnknownAreUnused, StoresAreAlone,
         LoadsStillHold, PromisesKept, Idle

(* The expiry a touch computes is within both limits.                      *)
LEMMA TouchedTyped ==
  ASSUME SessionTypeOK, NEW c \in Clients
  PROVE  /\ Touched(c) \in Nat
         /\ Touched(c) <= request[c].created + AbsoluteTtl
         /\ Touched(c) \in 0..(LastTime + AbsoluteTtl)
  <1>1. request[c].read_at \in 0..LastTime /\ request[c].created \in 0..LastTime
    BY DEF SessionTypeOK
  <1>. QED  BY <1>1, SessionAssumption DEF Touched

(* What a request may turn into.                                           *)
RequestType == [at : {"idle", "store", "load", "touch"}, read_at : 0..LastTime,
                id : Sessions \cup {NoSession}, created : 0..LastTime,
                expires : 0..(LastTime + AbsoluteTtl)]

LEMMA RequestMoves ==
  ASSUME SessionTypeOK, NEW c \in Clients, NEW r \in RequestType,
         request' = [request EXCEPT ![c] = r]
  PROVE  /\ request' \in [Clients -> RequestType]
         /\ request'[c] = r
         /\ \A d \in Clients \ {c} : request'[d] = request[d]
  BY DEF SessionTypeOK, RequestType

LEMMA IdleTyped == Idle \in RequestType /\ Idle.at = "idle" /\ Idle.id = NoSession
  BY SessionAssumption DEF Idle, RequestType

LEMMA StartTyped ==
  ASSUME SessionTypeOK, NEW at \in {"store", "load"}, NEW s \in Sessions
  PROVE  LET r == [Idle EXCEPT !.at = at, !.read_at = clock, !.id = s]
         IN  r \in RequestType /\ r.at = at /\ r.id = s
  <1>1. Idle \in RequestType
    BY IdleTyped
  <1>2. clock \in 0..LastTime
    BY DEF SessionTypeOK
  <1>. QED  BY <1>1, <1>2 DEF RequestType

(* A request that has loaded a session knows its times.                    *)
LoadedRequest(c) == [request[c] EXCEPT !.at = "touch", !.created = session[request[c].id].created,
                                !.expires = session[request[c].id].expires]

LEMMA LoadedRequestTyped ==
  ASSUME SessionTypeOK, NEW c \in Clients, session[request[c].id] \in Row
  PROVE  /\ LoadedRequest(c) \in RequestType
         /\ LoadedRequest(c).at = "touch" /\ LoadedRequest(c).id = request[c].id
         /\ LoadedRequest(c).created = session[request[c].id].created
         /\ LoadedRequest(c).expires = session[request[c].id].expires
  <1>1. request[c] \in RequestType
    BY DEF SessionTypeOK, RequestType
  <1>2. PICK x \in 0..LastTime, y \in 0..(LastTime + AbsoluteTtl) :
           session[request[c].id].created = x /\ session[request[c].id].expires = y
    BY DEF Row
  <1>3. LoadedRequest(c) = [request[c] EXCEPT !.at = "touch", !.created = x, !.expires = y]
    BY <1>2 DEF LoadedRequest
  <1>4. ASSUME NEW q \in RequestType
        PROVE  LET n == [q EXCEPT !.at = "touch", !.created = x, !.expires = y]
               IN  /\ n \in RequestType /\ n.at = "touch" /\ n.id = q.id
                   /\ n.created = x /\ n.expires = y
    BY DEF RequestType
  <1>. QED  BY <1>1, <1>2, <1>3, <1>4

LEMMA NextSessions == SessionInv /\ [SessionNext]_sessionVars => SessionInv'
  <1>. SUFFICES ASSUME SessionInv, [SessionNext]_sessionVars PROVE SessionInv'
    OBVIOUS
  <1>. USE SessionAssumption
       DEF SessionInv, SessionTypeOK, CleanupIsPast, UnknownAreUnused, StoresAreAlone,
           LoadsStillHold, PromisesKept, Row
  <1>1. ASSUME NEW c \in Clients, NEW s \in Sessions, SearchEnds(c, s) PROVE SessionInv'
    <2>. DEFINE r == [Idle EXCEPT !.at = "store", !.read_at = clock, !.id = s]
    <2>1. r \in RequestType /\ r.at = "store" /\ r.id = s
      BY StartTyped
    <2>2. /\ request' = [request EXCEPT ![c] = r]
          /\ s \notin known /\ \A d \in Clients : request[d].id # s
          /\ UNCHANGED <<clock, session, known, cleanup, promised, outrun>>
      BY <1>1 DEF SearchEnds
    <2>. QED  BY <2>1, <2>2, RequestMoves DEF RequestType
  <1>2. ASSUME NEW c \in Clients, NEW s \in Sessions, FollowUp(c, s) PROVE SessionInv'
    <2>. DEFINE r == [Idle EXCEPT !.at = "load", !.read_at = clock, !.id = s]
    <2>1. r \in RequestType /\ r.at = "load" /\ r.id = s
      BY StartTyped
    <2>2. /\ request' = [request EXCEPT ![c] = r] /\ s \in known
          /\ UNCHANGED <<clock, session, known, cleanup, promised, outrun>>
      BY <1>2 DEF FollowUp
    <2>. QED  BY <2>1, <2>2, RequestMoves DEF RequestType
  <1>3. ASSUME NEW c \in Clients, store_search_session(c) PROVE SessionInv'
    BY <1>3 DEF store_search_session, Respond, Idle
  <1>4. ASSUME NEW c \in Clients, Refused(c) PROVE SessionInv'
    BY <1>4 DEF Refused, Idle
  <1>5. ASSUME NEW c \in Clients, load_search_session(c) PROVE SessionInv'
    <2>. DEFINE s == request[c].id
    <2>1. /\ request[c].at = "load" /\ session[s] # NoSession /\ s \in known
          /\ UNCHANGED <<clock, session, known, cleanup, outrun>>
      BY <1>5 DEF load_search_session, Alive
    <2>2. s \in Sessions /\ session[s] \in Row
      BY <2>1
    <2>3. CASE /\ request' = [request EXCEPT ![c].at = "touch", ![c].created = session[s].created,
                                           ![c].expires = session[s].expires]
               /\ UNCHANGED promised
      <3>. DEFINE r == LoadedRequest(c)
      <3>2. /\ r \in RequestType /\ r.at = "touch" /\ r.id = s
            /\ r.created = session[s].created /\ r.expires = session[s].expires
        BY <2>2, LoadedRequestTyped
      <3>3. request' = [request EXCEPT ![c] = r]
        BY <2>3 DEF LoadedRequest
      <3>4. /\ request' \in [Clients -> RequestType]
            /\ request'[c] = r
            /\ \A d \in Clients \ {c} : request'[d] = request[d]
        BY <3>2, <3>3, RequestMoves
      <3>5. SessionTypeOK'
        BY <2>1, <2>3, <3>4 DEF RequestType
      <3>6. LoadsStillHold'
        <4>1. \A d \in Clients \ {c} : request'[d] = request[d]
          BY <3>4
        <4>2. r.expires <= session[s].expires
          BY <2>2, <3>2
        <4>. HIDE DEF r
        <4>. QED  BY <2>1, <3>2, <3>4, <4>1, <4>2
      <3>7. PromisesKept' /\ UnknownAreUnused' /\ CleanupIsPast'
        BY <2>1, <2>3
      <3>8. StoresAreAlone'
        BY <2>1, <3>2, <3>4
      <3>. QED  BY <3>5, <3>6, <3>7, <3>8
    <2>4. CASE Respond(c, s, session[s].expires)
      BY <2>1, <2>2, <2>4 DEF Respond, Idle
    <2>. QED  BY <1>5, <2>3, <2>4 DEF load_search_session
  <1>6. ASSUME NEW c \in Clients, touch_search_session(c) PROVE SessionInv'
    <2>. DEFINE s == request[c].id
    <2>1. /\ request[c].at = "touch" /\ s \in known /\ s \in Sessions
          /\ UNCHANGED <<clock, known, cleanup>>
      BY <1>6 DEF touch_search_session
    <2>2. /\ Touched(c) \in 0..(LastTime + AbsoluteTtl)
          /\ Touched(c) <= request[c].created + AbsoluteTtl
      BY TouchedTyped
    <2>3. CASE Touched(c) <= request[c].expires
      <3>1. Respond(c, s, request[c].expires) /\ UNCHANGED <<session, outrun>>
        BY <1>6, <2>3 DEF touch_search_session
      <3>2. /\ request' \in [Clients -> RequestType] /\ request'[c] = Idle
            /\ \A d \in Clients \ {c} : request'[d] = request[d]
        BY <3>1, IdleTyped, RequestMoves DEF Respond
      <3>3. request[c].expires \in 0..(LastTime + AbsoluteTtl)
        OBVIOUS
      <3>4. /\ promised' \in [Sessions -> 0..(LastTime + AbsoluteTtl)]
            /\ promised'[s] = promised[s] \/ promised'[s] = request[c].expires
            /\ \A t \in Sessions \ {s} : promised'[t] = promised[t]
        BY <2>1, <3>1, <3>3 DEF Respond
      <3>5. SessionTypeOK'
        BY <2>1, <3>1, <3>2, <3>4 DEF RequestType
      <3>6. /\ LoadsStillHold' /\ StoresAreAlone'
            /\ UnknownAreUnused' /\ CleanupIsPast'
        <4>1. LoadsStillHold'
          BY <2>1, <3>1, <3>2, <3>4, IdleTyped
        <4>2. StoresAreAlone'
          BY <2>1, <3>1, <3>2, <3>4, IdleTyped
        <4>3. UnknownAreUnused' /\ CleanupIsPast'
          BY <2>1, <3>1, <3>2, <3>4, IdleTyped
        <4>. QED  BY <4>1, <4>2, <4>3
      <3>7. PromisesKept'
        BY <2>1, <3>1, <3>4
      <3>. QED  BY <3>5, <3>6, <3>7
    <2>4. CASE ~(Touched(c) <= request[c].expires) /\ session[s] = NoSession
      <3>1. Respond(c, s, Touched(c)) /\ outrun' = outrun \cup {s} /\ UNCHANGED session
        BY <1>6, <2>4 DEF touch_search_session
      <3>2. /\ request' \in [Clients -> RequestType] /\ request'[c] = Idle
            /\ \A d \in Clients \ {c} : request'[d] = request[d]
        BY <3>1, IdleTyped, RequestMoves DEF Respond
      <3>3. /\ promised' \in [Sessions -> 0..(LastTime + AbsoluteTtl)]
            /\ \A t \in Sessions \ {s} : promised'[t] = promised[t]
        BY <2>1, <2>2, <3>1 DEF Respond
      <3>4. SessionTypeOK'
        BY <2>1, <3>1, <3>2, <3>3 DEF RequestType
      <3>5. /\ LoadsStillHold' /\ StoresAreAlone'
            /\ UnknownAreUnused' /\ CleanupIsPast'
        <4>1. LoadsStillHold'
          BY <2>1, <3>1, <3>2, <3>3, IdleTyped
        <4>2. StoresAreAlone'
          BY <2>1, <3>1, <3>2, <3>3, IdleTyped
        <4>3. UnknownAreUnused' /\ CleanupIsPast'
          BY <2>1, <3>1, <3>2, <3>3, IdleTyped
        <4>. QED  BY <4>1, <4>2, <4>3
      <3>6. PromisesKept'
        BY <2>1, <3>1, <3>3
      <3>. QED  BY <3>4, <3>5, <3>6
    <2>5. CASE ~(Touched(c) <= request[c].expires) /\ session[s] # NoSession
      <3>1. session[s] \in Row /\ session[s].created = request[c].created
        BY <2>1, <2>5
      <3>2. /\ Respond(c, s, Touched(c)) /\ UNCHANGED outrun
            /\ session' = [session EXCEPT ![s].expires = IF @ < Touched(c) THEN Touched(c) ELSE @]
        BY <1>6, <2>3, <2>5 DEF touch_search_session
      <3>3. PICK e \in 0..(LastTime + AbsoluteTtl) :
               /\ e = IF session[s].expires < Touched(c) THEN Touched(c) ELSE session[s].expires
               /\ e <= session[s].created + AbsoluteTtl
               /\ session[s].expires <= e /\ Touched(c) <= e
        BY <2>1, <2>2, <3>1
      <3>4. /\ session' = [session EXCEPT ![s] = [@ EXCEPT !.expires = e]]
            /\ [session[s] EXCEPT !.expires = e] = [created |-> session[s].created, expires |-> e]
        BY <2>1, <3>1, <3>2, <3>3
      <3>5. [created |-> session[s].created, expires |-> e] \in Row
        BY <3>1, <3>3
      <3>6. session' \in [Sessions -> Row \cup {NoSession}]
        BY <2>1, <3>4, <3>5 DEF Row
      <3>7. /\ session'[s] = [created |-> session[s].created, expires |-> e]
            /\ session'[s] # NoSession
            /\ \A t \in Sessions \ {s} : session'[t] = session[t]
        BY <2>1, <3>4, <3>5
      <3>8. /\ request' \in [Clients -> RequestType]
            /\ request'[c] = Idle
            /\ \A d \in Clients \ {c} : request'[d] = request[d]
        BY <3>2, IdleTyped, RequestMoves DEF Respond
      <3>9. /\ promised' \in [Sessions -> 0..(LastTime + AbsoluteTtl)]
            /\ promised'[s] = promised[s] \/ promised'[s] = Touched(c)
            /\ \A t \in Sessions \ {s} : promised'[t] = promised[t]
        BY <2>1, <2>2, <3>2 DEF Respond
      <3>10. SessionTypeOK'
        <4>1. \A t \in Sessions : session'[t] # NoSession =>
                 t \in known /\ session'[t].expires <= session'[t].created + AbsoluteTtl
          BY <2>1, <3>3, <3>7
        <4>. QED  BY <2>1, <3>2, <3>6, <3>8, <3>9, <4>1 DEF RequestType
      <3>11. LoadsStillHold'
        BY <2>1, <3>1, <3>3, <3>7, <3>8, IdleTyped
      <3>12. PromisesKept' /\ UnknownAreUnused' /\ StoresAreAlone' /\ CleanupIsPast'
        <4>1. session'[s].expires = e /\ session[s].expires \in 0..(LastTime + AbsoluteTtl)
          BY <3>1, <3>7
        <4>2. promised'[s] <= e \/ promised'[s] = promised[s]
          BY <3>3, <3>9
        <4>3. s \notin outrun => promised'[s] <= clock \/ promised'[s] <= e
          BY <2>1, <2>5, <3>3, <4>1, <4>2
        <4>4. PromisesKept'
          <5>1. ASSUME s \notin outrun, promised'[s] > clock
                PROVE  session'[s] # NoSession /\ session'[s].expires >= promised'[s]
            BY <2>1, <2>2, <3>7, <3>9, <4>1, <4>3, <5>1
          <5>2. \A t \in (Sessions \ {s}) \ outrun : promised'[t] > clock =>
                   session'[t] # NoSession /\ session'[t].expires >= promised'[t]
            BY <3>7, <3>9
          <5>3. clock' = clock /\ outrun' = outrun
            BY <2>1, <3>2
          <5>. QED  BY <5>1, <5>2, <5>3
        <4>5. UnknownAreUnused'
          BY <2>1, <3>7, <3>9
        <4>6. StoresAreAlone' /\ CleanupIsPast'
          BY <2>1, <3>8, IdleTyped
        <4>. QED  BY <4>4, <4>5, <4>6
      <3>. QED  BY <3>10, <3>11, <3>12
    <2>. QED  BY <2>3, <2>4, <2>5
  <1>7. CASE CleanupBegins
    BY <1>7 DEF CleanupBegins
  <1>8. CASE purge_expired_search_sessions
    BY <1>8 DEF purge_expired_search_sessions
  <1>9. CASE SessionTick
    BY <1>9 DEF SessionTick
  <1>10. CASE UNCHANGED sessionVars
    BY <1>10 DEF sessionVars
  <1>. QED  BY <1>1, <1>2, <1>3, <1>4, <1>5, <1>6, <1>7, <1>8, <1>9, <1>10 DEF SessionNext

(* A client that was told an expiry finds the session until then           *)
(* (touch_search_session, purge_expired_search_sessions), for any number   *)
(* of requests and any pair of lifetimes; and no session outlives the      *)
(* absolute one, however often it is used.                                 *)
THEOREM SessionsKeepPromises == SessionSpec => [](PromisesKept /\ SessionTypeOK)
<1>1. SessionInv => PromisesKept /\ SessionTypeOK
  BY DEF SessionInv
<1>. QED  BY <1>1, InitSessions, NextSessions, PTL DEF SessionSpec

-----------------------------------------------------------------------------
(***************************************************************************)
(* Ingestion profiles: versions are only added, so that what a request has *)
(* seen or seeded stays true until it uses it.                             *)
(***************************************************************************)
RequestsSeeProfiles ==
  \A a \in Admins :
    /\ admin[a].at \in {"set", "resolve"} => Exists(admin[a].id, admin[a].version)
    /\ admin[a].at \in {"seed_pointer", "select"} => Exists(DefaultProfile, DefaultVersion)

ProfileInv == ProfileTypeOK /\ RequestsSeeProfiles /\ DefaultResolves

LEMMA InitProfiles == ProfileInit => ProfileInv
  BY ProfileAssumption
     DEF ProfileInit, ProfileInv, ProfileTypeOK, RequestsSeeProfiles, DefaultResolves, NoRequest,
         Numbers

(* A request moves on with a profile and a number.                         *)
AdminType == [at : {"idle", "insert", "set", "seed_pointer", "select", "resolve"},
              id : Profiles, version : Numbers]

LEMMA AdminMoves ==
  ASSUME ProfileTypeOK, NEW a \in Admins,
         NEW at \in {"idle", "insert", "set", "seed_pointer", "select", "resolve"},
         NEW id \in Profiles, NEW n \in Numbers, Goes(a, at, id, n)
  PROVE  /\ admin' \in [Admins -> AdminType]
         /\ admin'[a].at = at /\ admin'[a].id = id /\ admin'[a].version = n
         /\ \A b \in Admins \ {a} : admin'[b] = admin[b]
  <1>. DEFINE r == [at |-> at, id |-> id, version |-> n]
  <1>1. r \in AdminType /\ r.at = at /\ r.id = id /\ r.version = n
    BY DEF AdminType
  <1>2. admin' = [admin EXCEPT ![a] = r] /\ admin \in [Admins -> AdminType]
    BY DEF Goes, ProfileTypeOK, AdminType
  <1>. HIDE DEF r
  <1>. QED  BY <1>1, <1>2

LEMMA NextProfiles == ProfileInv /\ [ProfileNext]_profileVars => ProfileInv'
  <1>. SUFFICES ASSUME ProfileInv, [ProfileNext]_profileVars PROVE ProfileInv'
    OBVIOUS
  <1>. USE ProfileAssumption DEF ProfileInv
  <1>1. Builtin \in Selector /\ DefaultProfile \in Profiles /\ DefaultVersion \in Numbers
    BY DEF Builtin, Selector, Numbers
  <1>2. ASSUME NEW a \in Admins, Ends(a) PROVE Goes(a, "idle", DefaultProfile, DefaultVersion)
    BY <1>2 DEF Ends, Goes, NoRequest
  <1>3. ASSUME NEW a \in Admins
        PROVE  /\ [id |-> admin[a].id, version |-> admin[a].version] \in Selector
               /\ admin[a].id \in Profiles /\ admin[a].version \in Numbers
    BY DEF ProfileTypeOK, Selector
  <1>4. ASSUME NEW a \in Admins, NEW id \in Profiles, CreateBegins(a, id) PROVE ProfileInv'
    <2>1. PICK n \in Numbers : Goes(a, "insert", id, n)
      BY <1>4 DEF CreateBegins
    <2>2. UNCHANGED <<versions, pointer, unresolved>>
      BY <1>4 DEF CreateBegins
    <2>3. /\ admin' \in [Admins -> AdminType] /\ admin'[a].at = "insert"
          /\ \A b \in Admins \ {a} : admin'[b] = admin[b]
      BY <2>1, AdminMoves
    <2>4. ProfileTypeOK' /\ DefaultResolves'
      BY <2>2, <2>3 DEF ProfileTypeOK, AdminType, DefaultResolves, Exists
    <2>5. RequestsSeeProfiles'
      BY <2>2, <2>3 DEF RequestsSeeProfiles, Exists
    <2>. QED  BY <2>4, <2>5
  <1>5. ASSUME NEW a \in Admins, NEW id \in Profiles, select_profile_metadata(a, id)
        PROVE  ProfileInv'
    <2>1. PICK v \in versions : v.id = id /\ Goes(a, "set", id, v.version)
      BY <1>5 DEF select_profile_metadata
    <2>2. v.version \in Numbers /\ Exists(id, v.version)
      BY <2>1 DEF ProfileTypeOK, Selector, Exists
    <2>3. UNCHANGED <<versions, pointer, unresolved>>
      BY <1>5 DEF select_profile_metadata
    <2>4. /\ admin' \in [Admins -> AdminType]
          /\ admin'[a].at = "set" /\ admin'[a].id = id /\ admin'[a].version = v.version
          /\ \A b \in Admins \ {a} : admin'[b] = admin[b]
      BY <2>1, <2>2, AdminMoves
    <2>5. ProfileTypeOK' /\ DefaultResolves'
      BY <2>3, <2>4 DEF ProfileTypeOK, AdminType, DefaultResolves, Exists
    <2>6. RequestsSeeProfiles'
      BY <2>2, <2>3, <2>4 DEF RequestsSeeProfiles, Exists
    <2>. QED  BY <2>5, <2>6
  <1>6. ASSUME NEW a \in Admins, insert_profile_metadata(a) PROVE ProfileInv'
    <2>1. /\ versions' = versions \cup {[id |-> admin[a].id, version |-> admin[a].version]}
          /\ Ends(a) /\ UNCHANGED <<pointer, unresolved>>
      BY <1>6 DEF insert_profile_metadata
    <2>. QED  BY <1>1, <1>2, <1>3, <2>1, AdminMoves
              DEF ProfileTypeOK, AdminType, RequestsSeeProfiles, DefaultResolves, Exists
  <1>7. ASSUME NEW a \in Admins, upsert_default_row(a) PROVE ProfileInv'
    <2>1. /\ pointer' = [id |-> admin[a].id, version |-> admin[a].version]
          /\ Exists(admin[a].id, admin[a].version)
          /\ Ends(a) /\ UNCHANGED <<versions, unresolved>>
      BY <1>7 DEF upsert_default_row, RequestsSeeProfiles
    <2>. QED  BY <1>1, <1>2, <1>3, <2>1, AdminMoves
              DEF ProfileTypeOK, AdminType, RequestsSeeProfiles, DefaultResolves, Exists
  <1>8. ASSUME NEW a \in Admins, seed_profile(a) PROVE ProfileInv'
    BY <1>1, <1>8, AdminMoves
       DEF seed_profile, ProfileTypeOK, AdminType, RequestsSeeProfiles, DefaultResolves, Exists,
           Builtin
  <1>9. ASSUME NEW a \in Admins, seed_pointer(a) PROVE ProfileInv'
    BY <1>1, <1>9, AdminMoves
       DEF seed_pointer, ProfileTypeOK, AdminType, RequestsSeeProfiles, DefaultResolves, Exists,
           Builtin
  <1>10. ASSUME NEW a \in Admins, select_default_selector(a) PROVE ProfileInv'
    <2>1. PICK v \in Selector : /\ v = IF pointer = NoPointer THEN Builtin ELSE pointer
                                /\ Exists(v.id, v.version)
      BY <1>1, <1>10 DEF select_default_selector, ProfileTypeOK, RequestsSeeProfiles,
                         DefaultResolves, Builtin
    <2>2. /\ Goes(a, "resolve", v.id, v.version) /\ v.id \in Profiles /\ v.version \in Numbers
          /\ UNCHANGED <<versions, pointer, unresolved>>
      BY <1>10, <2>1 DEF select_default_selector, Selector
    <2>. QED  BY <2>1, <2>2, AdminMoves
              DEF ProfileTypeOK, AdminType, RequestsSeeProfiles, DefaultResolves, Exists
  <1>11. ASSUME NEW a \in Admins, select_profile(a) PROVE ProfileInv'
    <2>1. unresolved' = {} /\ Ends(a) /\ UNCHANGED <<versions, pointer>>
      BY <1>11 DEF select_profile, RequestsSeeProfiles, DefaultResolves
    <2>. QED  BY <1>1, <1>2, <2>1, AdminMoves
              DEF ProfileTypeOK, AdminType, RequestsSeeProfiles, DefaultResolves, Exists
  <1>12. CASE UNCHANGED profileVars
    BY <1>12 DEF profileVars, ProfileTypeOK, RequestsSeeProfiles, DefaultResolves, Exists
  <1>. QED  BY <1>4, <1>5, <1>6, <1>7, <1>8, <1>9, <1>10, <1>11, <1>12 DEF ProfileNext

(* The default pointer always names a version that exists, and no event is *)
(* refused for want of a profile (seed_default_profile,                    *)
(* select_profile_metadata), whoever seeds, creates and repoints at once.  *)
THEOREM DefaultAlwaysResolves == ProfileSpec => [](DefaultResolves /\ ProfileTypeOK)
  <1>1. ProfileInv => DefaultResolves /\ ProfileTypeOK
    BY DEF ProfileInv
  <1>. QED  BY <1>1, InitProfiles, NextProfiles, PTL DEF ProfileSpec

-----------------------------------------------------------------------------
(***************************************************************************)
(* Core blocks.                                                            *)
(***************************************************************************)
BlockTypes == {"block_created", "block_updated"}
AttachmentTypes == {"attachment_added", "attachment_removed"}
Rows == BlockRow \cup AttachmentRow \cup {NoRow}

EditType ==
  [at : {"idle", "fetch", "check", "write", "commit"}, type : Types \cup {"none"},
   id : Blocks \cup Attachments \cup {NoRow}, prev : Rows, new : Rows]

EventType ==
  [type : Types, id : Blocks \cup Attachments, prev : Rows, new : BlockRow \cup AttachmentRow]

(* A block that is being created is not there; of one that is updated the  *)
(* transaction has the row, once it is locked; the key of one that is      *)
(* written is not the key of another.                                      *)
BlockEditGood(e) ==
  /\ e.at # "idle" /\ e.type = "block_created" =>
       /\ e.id \in Blocks /\ e.new \in BlockRow
       /\ e.prev = NoRow /\ blocks[e.id] = NoRow
  /\ e.at # "idle" /\ e.type = "block_updated" =>
       /\ e.id \in Blocks /\ e.new \in BlockRow /\ blocks[e.id] # NoRow
       /\ e.at # "fetch" => e.prev = blocks[e.id]
  /\ e.at = "commit" /\ e.type \in BlockTypes =>
       \A b \in Blocks \ {e.id} : blocks[b] # NoRow => blocks[b].key # e.new.key

(* An attachment that is added is new, or takes over the active row at its *)
(* place, where no other row is active; one that is removed is active.     *)
AttachmentEditGood(e) ==
  /\ e.at # "idle" /\ e.type = "attachment_added" =>
       /\ e.at \in {"write", "commit"} /\ e.id \in Attachments /\ e.new \in AttachmentRow
       /\ e.new.active
       /\ e.at = "write" => attachments[e.id] = NoRow
       /\ e.at = "commit" =>
            /\ attachments[e.id] # NoRow => attachments[e.id].active /\ SamePlace(attachments[e.id], e.new)
            /\ \A a \in Attachments \ {e.id} : attachments[a] # NoRow /\ attachments[a].active =>
                 ~SamePlace(attachments[a], e.new)
  /\ e.at # "idle" /\ e.type = "attachment_removed" =>
       /\ e.at \in {"fetch", "commit"} /\ e.id \in Attachments /\ attachments[e.id] # NoRow
       /\ e.at = "commit" =>
            /\ e.prev = attachments[e.id] /\ e.prev.active
            /\ e.new \in AttachmentRow /\ ~e.new.active /\ SamePlace(e.new, e.prev)

EditGood(e) ==
  /\ e.at # "idle" => e.type \in Types
  /\ BlockEditGood(e)
  /\ AttachmentEditGood(e)

(* Two open transactions do not work on the same row once they hold it, and *)
(* do not bring the same key or the same place.                            *)
Apart(e, f) ==
  e.at # "idle" /\ f.at # "idle" =>
    /\ e.type = "block_created" /\ f.type = "block_created" => e.id # f.id
    /\ e.type = "block_updated" /\ f.type = "block_updated" /\ e.at # "fetch" /\ f.at # "fetch" =>
         e.id # f.id
    /\ e.at = "commit" /\ f.at = "commit" /\ e.type \in BlockTypes /\ f.type \in BlockTypes =>
         e.new.key # f.new.key
    /\ e.type = "attachment_added" /\ f.type = "attachment_added" /\ e.id = f.id =>
         attachments[e.id] # NoRow
    /\ e.at = "commit" /\ f.at = "commit" /\ e.type \in AttachmentTypes /\ f.type \in AttachmentTypes =>
         e.id # f.id /\ ~SamePlace(e.new, f.new)

EditsGood ==
  /\ edit \in [Editors -> EditType]
  /\ \A w \in Editors : EditGood(edit[w])
  /\ \A v, w \in Editors : v # w => Apart(edit[v], edit[w])

(* A removed attachment stays removed.                                     *)
RemovedStay ==
  \A i \in 1..Len(events) : events[i].type = "attachment_removed" =>
    /\ events[i].id \in Attachments /\ attachments[events[i].id] # NoRow
    /\ ~attachments[events[i].id].active

BlocksInv ==
  /\ BlocksTypeOK /\ events \in Seq(EventType) /\ EditsGood /\ RemovedStay /\ BlocksReplay

LEMMA NoEditTyped == NoEdit \in EditType /\ NoEdit.at = "idle"
  BY DEF NoEdit, EditType, Rows

LEMMA NoEditGood == EditGood(NoEdit) /\ \A f : Apart(NoEdit, f) /\ Apart(f, NoEdit)
  BY NoEditTyped DEF EditGood, BlockEditGood, AttachmentEditGood, Apart

LEMMA InitBlocks == BlocksInit => BlocksInv
  <1>. SUFFICES ASSUME BlocksInit PROVE BlocksInv
    OBVIOUS
  <1>1. events = <<>> /\ Len(events) = 0 /\ events \in Seq(EventType)
    BY DEF BlocksInit
  <1>2. \A w \in Editors : edit[w] = NoEdit /\ edit[w].at = "idle"
    BY NoEditTyped DEF BlocksInit
  <1>3. /\ \A b \in Blocks : blocks[b] = NoRow
        /\ \A a \in Attachments : attachments[a] = NoRow
    BY DEF BlocksInit
  <1>4. BlocksTypeOK
    BY <1>1, <1>2 DEF BlocksInit, BlocksTypeOK
  <1>5. EditsGood
    BY <1>2, NoEditTyped, NoEditGood DEF BlocksInit, EditsGood
  <1>6. BlocksReplay /\ RemovedStay
    BY <1>1, <1>3 DEF BlocksReplay, Leaves, RemovedStay
  <1>. QED  BY <1>1, <1>4, <1>5, <1>6 DEF BlocksInv

LEMMA ApartBothWays == ASSUME NEW e, NEW f, Apart(e, f) PROVE Apart(f, e)
  BY DEF Apart, SamePlace

(* A step of one transaction before its commit.                            *)
LEMMA EditMoves ==
  ASSUME BlocksInv, NEW w \in Editors, NEW r \in EditType, EditGood(r),
         \A v \in Editors \ {w} : Apart(edit[v], r),
         edit' = [edit EXCEPT ![w] = r], UNCHANGED <<blocks, attachments, events>>
  PROVE  BlocksInv'
  <1>1. /\ edit' \in [Editors -> EditType] /\ edit'[w] = r
        /\ \A v \in Editors \ {w} : edit'[v] = edit[v]
    BY DEF BlocksInv, EditsGood
  <1>2. \A e : EditGood(e)' = EditGood(e)
    BY DEF EditGood, BlockEditGood, AttachmentEditGood
  <1>3. \A e, f : Apart(e, f)' = Apart(e, f)
    BY DEF Apart
  <1>4. \A v \in Editors : EditGood(edit'[v])
    BY <1>1 DEF BlocksInv, EditsGood
  <1>5. \A u, v \in Editors : u # v => Apart(edit'[u], edit'[v])
    BY <1>1, ApartBothWays DEF BlocksInv, EditsGood
  <1>6. EditsGood'
    <2>1. \A v \in Editors : EditGood(edit[v])'
      BY <1>4 DEF EditGood, BlockEditGood, AttachmentEditGood
    <2>2. \A u, v \in Editors : u # v => Apart(edit[u], edit[v])'
      BY <1>5 DEF Apart
    <2>. QED  BY <1>1, <2>1, <2>2 DEF EditsGood
  <1>7. BlocksTypeOK'
    BY <1>1 DEF BlocksInv, BlocksTypeOK, EditType
  <1>8. RemovedStay' /\ BlocksReplay' /\ (events \in Seq(EventType))'
    BY DEF BlocksInv, RemovedStay, BlocksReplay, Leaves
  <1>. QED  BY <1>6, <1>7, <1>8 DEF BlocksInv

LEMMA RollbackKeeps ==
  ASSUME BlocksInv, NEW w \in Editors, edit' = [edit EXCEPT ![w] = NoEdit],
         UNCHANGED <<blocks, attachments, events>>
  PROVE  BlocksInv'
  BY NoEditTyped, NoEditGood, EditMoves

(* What is known of an open transaction, and of two of them.               *)
LEMMA EditIsGood ==
  ASSUME BlocksInv, NEW w \in Editors
  PROVE  /\ edit[w] \in EditType /\ EditGood(edit[w])
         /\ \A v \in Editors \ {w} :
              /\ edit[v] \in EditType /\ EditGood(edit[v])
              /\ Apart(edit[v], edit[w]) /\ Apart(edit[w], edit[v])
  BY DEF BlocksInv, EditsGood

-----------------------------------------------------------------------------
LEMMA BlockBegins ==
  ASSUME BlocksInv, NEW w \in Editors, NEW b \in Blocks, NEW row \in BlockRow,
         insert_core_block(w, b, row) \/ update_core_block(w, b, row)
  PROVE  BlocksInv'
  <1>0. row \in Rows
    BY DEF Rows
  <1>1. CASE insert_core_block(w, b, row)
    <2>. DEFINE r == [at |-> "check", type |-> "block_created", id |-> b, prev |-> NoRow, new |-> row]
    <2>1. /\ r \in EditType /\ r.at = "check" /\ r.type = "block_created" /\ r.id = b
          /\ r.prev = NoRow /\ r.new = row
      BY <1>0 DEF EditType, Types, Rows
    <2>2. /\ edit' = [edit EXCEPT ![w] = r] /\ UNCHANGED <<blocks, attachments, events>>
          /\ blocks[b] = NoRow /\ \A v \in Others(w) : edit[v].id # b
      BY <1>1 DEF insert_core_block, Begins
    <2>. HIDE DEF r
    <2>3. EditGood(r)
      BY <2>1, <2>2 DEF EditGood, BlockEditGood, AttachmentEditGood, Types
    <2>4. \A v \in Editors \ {w} : Apart(edit[v], r)
      BY <2>1, <2>2 DEF Apart, Others
    <2>. QED  BY <2>1, <2>2, <2>3, <2>4, EditMoves
  <1>2. CASE update_core_block(w, b, row)
    <2>. DEFINE r == [at |-> "fetch", type |-> "block_updated", id |-> b, prev |-> NoRow, new |-> row]
    <2>1. /\ r \in EditType /\ r.at = "fetch" /\ r.type = "block_updated" /\ r.id = b
          /\ r.prev = NoRow /\ r.new = row
      BY <1>0 DEF EditType, Types, Rows
    <2>2. /\ edit' = [edit EXCEPT ![w] = r] /\ UNCHANGED <<blocks, attachments, events>>
          /\ blocks[b] # NoRow
      BY <1>2 DEF update_core_block, Begins
    <2>. HIDE DEF r
    <2>3. EditGood(r)
      BY <2>1, <2>2 DEF EditGood, BlockEditGood, AttachmentEditGood, Types
    <2>4. \A v \in Editors \ {w} : Apart(edit[v], r)
      BY <2>1 DEF Apart
    <2>. QED  BY <2>1, <2>2, <2>3, <2>4, EditMoves
  <1>. QED  BY <1>1, <1>2

LEMMA AttachmentBegins ==
  ASSUME BlocksInv, NEW w \in Editors, NEW a \in Attachments,
         detach(w, a) \/ \E b \in Blocks, x \in Readers : attach(w, a, b, x)
  PROVE  BlocksInv'
  <1>1. CASE detach(w, a)
    <2>. DEFINE r == [at |-> "fetch", type |-> "attachment_removed", id |-> a, prev |-> NoRow,
                      new |-> NoRow]
    <2>1. /\ r \in EditType /\ r.at = "fetch" /\ r.type = "attachment_removed" /\ r.id = a
      BY DEF EditType, Types, Rows
    <2>2. /\ edit' = [edit EXCEPT ![w] = r] /\ UNCHANGED <<blocks, attachments, events>>
          /\ attachments[a] # NoRow
      BY <1>1 DEF detach, Begins
    <2>. HIDE DEF r
    <2>3. EditGood(r)
      BY <2>1, <2>2 DEF EditGood, BlockEditGood, AttachmentEditGood, Types
    <2>4. \A v \in Editors \ {w} : Apart(edit[v], r)
      BY <2>1 DEF Apart
    <2>. QED  BY <2>1, <2>2, <2>3, <2>4, EditMoves
  <1>2. ASSUME NEW b \in Blocks, NEW x \in Readers, attach(w, a, b, x) PROVE BlocksInv'
    <2>. DEFINE row == [block |-> b, reader |-> x, by |-> w, active |-> TRUE]
                r == [at |-> "write", type |-> "attachment_added", id |-> a, prev |-> NoRow,
                      new |-> row]
    <2>1. row \in AttachmentRow /\ row.active
      BY DEF AttachmentRow
    <2>. HIDE DEF row
    <2>2. /\ r \in EditType /\ r.at = "write" /\ r.type = "attachment_added" /\ r.id = a
          /\ r.prev = NoRow /\ r.new = row
      BY <2>1 DEF EditType, Types, Rows
    <2>3. /\ edit' = [edit EXCEPT ![w] = r] /\ UNCHANGED <<blocks, attachments, events>>
          /\ attachments[a] = NoRow /\ \A v \in Others(w) : edit[v].id # a
      BY <1>2 DEF attach, Begins, row
    <2>. HIDE DEF r
    <2>4. EditGood(r)
      BY <2>1, <2>2, <2>3 DEF EditGood, BlockEditGood, AttachmentEditGood, Types
    <2>5. \A v \in Editors \ {w} : Apart(edit[v], r)
      BY <2>2, <2>3 DEF Apart, Others
    <2>. QED  BY <2>2, <2>3, <2>4, <2>5, EditMoves
  <1>. QED  BY <1>1, <1>2

LEMMA FetchKeeps ==
  ASSUME BlocksInv, NEW w \in Editors, fetch_owned_block_for_update(w)
  PROVE  BlocksInv'
  <1>1. /\ edit[w] \in EditType /\ EditGood(edit[w])
        /\ edit[w].at = "fetch" /\ edit[w].type = "block_updated" /\ edit[w].id \notin Locked(w)
    BY EditIsGood DEF fetch_owned_block_for_update
  <1>2. /\ edit[w].id \in Blocks /\ edit[w].new \in BlockRow /\ blocks[edit[w].id] # NoRow
        /\ blocks[edit[w].id] \in Rows
    BY <1>1 DEF EditGood, BlockEditGood, BlocksInv, BlocksTypeOK, Rows
  <1>. DEFINE r == [edit[w] EXCEPT !.at = "check", !.prev = blocks[edit[w].id]]
  <1>3. /\ r \in EditType /\ r.at = "check" /\ r.type = "block_updated" /\ r.id = edit[w].id
        /\ r.prev = blocks[edit[w].id] /\ r.new = edit[w].new
    BY <1>1, <1>2 DEF EditType
  <1>4. edit' = [edit EXCEPT ![w] = r] /\ UNCHANGED <<blocks, attachments, events>>
    BY DEF fetch_owned_block_for_update, BlocksInv, EditsGood
  <1>. HIDE DEF r
  <1>5. EditGood(r)
    BY <1>2, <1>3 DEF EditGood, BlockEditGood, AttachmentEditGood, Types
  <1>6. \A v \in Editors \ {w} : Apart(edit[v], r)
    BY <1>1, <1>3 DEF Apart, Locked, Others
  <1>. QED  BY <1>3, <1>4, <1>5, <1>6, EditMoves

(* Checking the key, and writing the row if the key is not taken.          *)
LEMMA CheckKeeps ==
  ASSUME BlocksInv, NEW w \in Editors, ensure_no_active_key_conflict(w)
  PROVE  BlocksInv'
  <1>1. /\ edit[w] \in EditType /\ EditGood(edit[w]) /\ edit[w].at = "check"
        /\ \A v \in Editors \ {w} : Apart(edit[v], edit[w])
        /\ UNCHANGED <<blocks, attachments, events>>
    BY EditIsGood DEF ensure_no_active_key_conflict
  <1>2. CASE KeyTaken(w)
    BY <1>1, <1>2, RollbackKeeps DEF ensure_no_active_key_conflict
  <1>3. CASE ~KeyTaken(w)
    <2>. DEFINE r == [edit[w] EXCEPT !.at = "write"]
    <2>1. /\ r \in EditType /\ r.at = "write" /\ r.type = edit[w].type /\ r.id = edit[w].id
          /\ r.prev = edit[w].prev /\ r.new = edit[w].new
      BY <1>1 DEF EditType
    <2>2. edit' = [edit EXCEPT ![w] = r]
      BY <1>1, <1>3 DEF ensure_no_active_key_conflict
    <2>. HIDE DEF r
    <2>3. EditGood(r)
      BY <1>1, <2>1 DEF EditGood, BlockEditGood, AttachmentEditGood
    <2>4. \A v \in Editors \ {w} : Apart(edit[v], r)
      BY <1>1, <2>1 DEF Apart
    <2>. QED  BY <1>1, <2>1, <2>2, <2>3, <2>4, EditMoves
  <1>. QED  BY <1>2, <1>3

LEMMA WriteBlockKeeps ==
  ASSUME BlocksInv, NEW w \in Editors, WriteBlock(w)
  PROVE  BlocksInv'
  <1>1. /\ edit[w] \in EditType /\ EditGood(edit[w]) /\ edit[w].at = "write"
        /\ edit[w].type \in BlockTypes /\ ~KeyInDoubt(w)
        /\ \A v \in Editors \ {w} : Apart(edit[v], edit[w])
        /\ UNCHANGED <<blocks, attachments, events>>
    BY EditIsGood DEF WriteBlock, BlockTypes
  <1>2. CASE KeyTaken(w)
    BY <1>1, <1>2, RollbackKeeps DEF WriteBlock
  <1>3. CASE ~KeyTaken(w)
    <2>. DEFINE r == [edit[w] EXCEPT !.at = "commit"]
    <2>1. /\ r \in EditType /\ r.at = "commit" /\ r.type = edit[w].type /\ r.id = edit[w].id
          /\ r.prev = edit[w].prev /\ r.new = edit[w].new
      BY <1>1 DEF EditType
    <2>2. edit' = [edit EXCEPT ![w] = r]
      BY <1>1, <1>3 DEF WriteBlock
    <2>. HIDE DEF r
    <2>3. EditGood(r)
      <3>1. \A b \in Blocks \ {r.id} : blocks[b] # NoRow => blocks[b].key # r.new.key
        BY <1>3, <2>1 DEF KeyTaken
      <3>. QED  BY <1>1, <2>1, <3>1
                DEF EditGood, BlockEditGood, AttachmentEditGood, BlockTypes
    <2>4. ASSUME NEW v \in Editors \ {w} PROVE Apart(edit[v], r)
      <3>1. edit[v].at = "commit" /\ edit[v].type \in BlockTypes => edit[v].new.key # r.new.key
        BY <1>1, <2>1 DEF KeyInDoubt, Others, BlockTypes
      <3>. QED  BY <1>1, <2>1, <3>1 DEF Apart, BlockTypes, AttachmentTypes
    <2>. QED  BY <1>1, <2>1, <2>2, <2>3, <2>4, EditMoves
  <1>. QED  BY <1>2, <1>3

(* Two active rows are never at the same place.                            *)
LEMMA OneActiveRow ==
  ASSUME BlocksInv, NEW a \in Attachments, NEW c \in Attachments,
         attachments[a] # NoRow, attachments[a].active,
         attachments[c] # NoRow, attachments[c].active, SamePlace(attachments[a], attachments[c])
  PROVE  a = c
  BY DEF BlocksInv, BlocksReplay

LEMMA AttachKeeps ==
  ASSUME BlocksInv, NEW w \in Editors, upsert_core_block_attachment(w)
  PROVE  BlocksInv'
  <1>. DEFINE new == edit[w].new
              there == {a \in Attachments : attachments[a] # NoRow /\ attachments[a].active
                                              /\ SamePlace(attachments[a], new)}
  <1>1. /\ edit[w] \in EditType /\ EditGood(edit[w])
        /\ edit[w].at = "write" /\ edit[w].type = "attachment_added"
        /\ UNCHANGED <<blocks, attachments, events>>
    BY EditIsGood DEF upsert_core_block_attachment
  <1>2. \A v \in Others(w) : edit[v].at = "commit" /\ edit[v].id \in Attachments =>
          ~SamePlace(edit[v].new, new)
    BY DEF upsert_core_block_attachment
  <1>3. PICK a \in (IF there = {} THEN {edit[w].id} ELSE there) :
           edit' = [edit EXCEPT ![w].at = "commit", ![w].id = a]
    BY DEF upsert_core_block_attachment
  <1>4. /\ edit[w].id \in Attachments /\ new \in AttachmentRow /\ new.active
        /\ attachments[edit[w].id] = NoRow
    BY <1>1 DEF EditGood, AttachmentEditGood
  <1>5. /\ a \in Attachments
        /\ attachments[a] # NoRow => attachments[a].active /\ SamePlace(attachments[a], new)
        /\ attachments[a] = NoRow => a = edit[w].id
        /\ \A c \in Attachments \ {a} : attachments[c] # NoRow /\ attachments[c].active =>
             ~SamePlace(attachments[c], new)
    <2>1. CASE there = {}
      BY <1>3, <1>4, <2>1
    <2>2. CASE there # {}
      <3>1. a \in there
        BY <1>3, <2>2
      <3>2. ASSUME NEW c \in Attachments, attachments[c] # NoRow, attachments[c].active,
                   SamePlace(attachments[c], new)
            PROVE  c = a
        BY <3>1, <3>2, OneActiveRow DEF SamePlace
      <3>. QED  BY <3>1, <3>2
    <2>. QED  BY <2>1, <2>2
  <1>. HIDE DEF there
  <1>. DEFINE r == [edit[w] EXCEPT !.at = "commit", !.id = a]
  <1>6. /\ r \in EditType /\ r.at = "commit" /\ r.type = "attachment_added" /\ r.id = a
        /\ r.prev = edit[w].prev /\ r.new = new
    BY <1>1, <1>5 DEF EditType
  <1>7. edit' = [edit EXCEPT ![w] = r]
    BY <1>3 DEF BlocksInv, EditsGood
  <1>. HIDE DEF r
  <1>8. EditGood(r)
    BY <1>1, <1>4, <1>5, <1>6 DEF EditGood, BlockEditGood, AttachmentEditGood, BlockTypes
  <1>9. ASSUME NEW v \in Editors \ {w} PROVE Apart(edit[v], r)
    <2>1. /\ edit[v] \in EditType /\ EditGood(edit[v]) /\ Apart(edit[v], edit[w])
      BY EditIsGood
    <2>2. ASSUME edit[v].at # "idle", edit[v].type = "attachment_added", edit[v].id = a,
                 attachments[a] = NoRow
          PROVE  FALSE
      BY <1>1, <1>4, <1>5, <2>1, <2>2 DEF Apart
    <2>3. ASSUME edit[v].at = "commit", edit[v].type \in AttachmentTypes
          PROVE  edit[v].id # a /\ ~SamePlace(edit[v].new, new)
      <3>1. edit[v].id \in Attachments /\ v \in Others(w)
        BY <2>1, <2>3 DEF EditGood, AttachmentEditGood, AttachmentTypes, Others
      <3>2. ~SamePlace(edit[v].new, new)
        BY <1>2, <2>3, <3>1
      <3>3. CASE edit[v].type = "attachment_added"
        BY <1>5, <2>1, <2>2, <2>3, <3>2, <3>3 DEF EditGood, AttachmentEditGood, SamePlace
      <3>4. CASE edit[v].type = "attachment_removed"
        BY <1>5, <2>1, <2>3, <3>2, <3>4 DEF EditGood, AttachmentEditGood, SamePlace
      <3>. QED  BY <2>3, <3>2, <3>3, <3>4 DEF AttachmentTypes
    <2>. QED  BY <1>6, <2>2, <2>3 DEF Apart, BlockTypes
  <1>. QED  BY <1>1, <1>6, <1>7, <1>8, <1>9, EditMoves

LEMMA DetachKeeps ==
  ASSUME BlocksInv, NEW w \in Editors, detach_core_block_attachment(w)
  PROVE  BlocksInv'
  <1>. DEFINE row == attachments[edit[w].id]
  <1>1. /\ edit[w] \in EditType /\ EditGood(edit[w])
        /\ edit[w].at = "fetch" /\ edit[w].type = "attachment_removed" /\ edit[w].id \notin Locked(w)
        /\ UNCHANGED <<blocks, attachments, events>>
    BY EditIsGood DEF detach_core_block_attachment
  <1>2. edit[w].id \in Attachments /\ row \in AttachmentRow /\ row # NoRow
    BY <1>1 DEF EditGood, AttachmentEditGood, BlocksInv, BlocksTypeOK
  <1>3. CASE ~row.active
    BY <1>1, <1>3, RollbackKeeps DEF detach_core_block_attachment
  <1>4. CASE row.active
    <2>. DEFINE off == [row EXCEPT !.active = FALSE]
                r == [edit[w] EXCEPT !.at = "commit", !.prev = row, !.new = off]
    <2>1. off \in AttachmentRow /\ ~off.active /\ SamePlace(off, row)
      BY <1>2 DEF AttachmentRow, SamePlace
    <2>. HIDE DEF off
    <2>2. /\ r \in EditType /\ r.at = "commit" /\ r.type = "attachment_removed" /\ r.id = edit[w].id
          /\ r.prev = row /\ r.new = off
      BY <1>1, <1>2, <2>1 DEF EditType, Rows
    <2>3. edit' = [edit EXCEPT ![w] = r]
      BY <1>4 DEF detach_core_block_attachment, off
    <2>. HIDE DEF r
    <2>4. EditGood(r)
      BY <1>2, <1>4, <2>1, <2>2 DEF EditGood, BlockEditGood, AttachmentEditGood, Types, BlockTypes
    <2>5. ASSUME NEW v \in Editors \ {w} PROVE Apart(edit[v], r)
      <3>1. edit[v] \in EditType /\ EditGood(edit[v])
        BY EditIsGood
      <3>2. ASSUME edit[v].at = "commit", edit[v].type \in AttachmentTypes
            PROVE  edit[v].id # r.id /\ ~SamePlace(edit[v].new, r.new)
        <4>1. edit[v].id # r.id /\ edit[v].id \in Attachments
          BY <1>1, <2>2, <3>1, <3>2
             DEF Locked, Others, AttachmentTypes, EditGood, AttachmentEditGood
        <4>2. CASE edit[v].type = "attachment_added"
          BY <1>2, <1>4, <2>1, <2>2, <3>1, <3>2, <4>1, <4>2
             DEF EditGood, AttachmentEditGood, SamePlace
        <4>3. CASE edit[v].type = "attachment_removed"
          <5>1. /\ edit[v].prev = attachments[edit[v].id] /\ attachments[edit[v].id] # NoRow
                /\ attachments[edit[v].id].active /\ SamePlace(edit[v].new, attachments[edit[v].id])
            BY <3>1, <3>2, <4>3 DEF EditGood, AttachmentEditGood
          <5>2. ~SamePlace(attachments[edit[v].id], row)
            BY <1>2, <1>4, <2>2, <4>1, <5>1, OneActiveRow
          <5>. QED  BY <2>1, <2>2, <4>1, <5>1, <5>2 DEF SamePlace
        <4>. QED  BY <3>2, <4>2, <4>3 DEF AttachmentTypes
      <3>. QED  BY <2>2, <3>2 DEF Apart, BlockTypes
    <2>. QED  BY <1>1, <2>2, <2>3, <2>4, <2>5, EditMoves
  <1>. QED  BY <1>3, <1>4

-----------------------------------------------------------------------------
(* What an event more leaves of the rows.                                  *)
LEMMA AnotherEvent ==
  ASSUME NEW es \in Seq(EventType), NEW e \in EventType
  PROVE  /\ Append(es, e) \in Seq(EventType) /\ Len(Append(es, e)) = Len(es) + 1
         /\ Len(es) \in Nat
         /\ \A i \in 1..Len(es) : Append(es, e)[i] = es[i]
         /\ Append(es, e)[Len(es) + 1] = e
         /\ 1..(Len(es) + 1) = 1..Len(es) \cup {Len(es) + 1}
  BY DEF EventType

LEMMA OldLeaves ==
  ASSUME NEW es \in Seq(EventType), NEW e \in EventType, NEW n \in 0..Len(es), NEW x, NEW row,
         Leaves(es, n, x, row)
  PROVE  Leaves(Append(es, e), n, x, row)
  <1>1. \A i \in 1..n : i \in 1..Len(es) /\ Append(es, e)[i] = es[i]
    BY AnotherEvent
  <1>. QED  BY <1>1 DEF Leaves

LEMMA OthersLeave ==
  ASSUME NEW es \in Seq(EventType), NEW e \in EventType, NEW x, NEW row,
         Leaves(es, Len(es), x, row), x # e.id
  PROVE  Leaves(Append(es, e), Len(es) + 1, x, row)
  <1>. DEFINE n == Len(es)
              all == Append(es, e)
  <1>1. /\ n \in Nat /\ \A i \in 1..n : all[i] = es[i]
        /\ all[n + 1] = e /\ 1..(n + 1) = 1..n \cup {n + 1}
    BY AnotherEvent
  <1>. HIDE DEF n, all
  <1>2. CASE row = NoRow /\ \A i \in 1..n : es[i].id # x
    BY <1>1, <1>2 DEF Leaves, n, all
  <1>3. ASSUME NEW i \in 1..n, es[i].id = x, es[i].new = row, \A j \in 1..n : j > i => es[j].id # x
        PROVE  Leaves(all, n + 1, x, row)
    <2>1. i \in 1..(n + 1) /\ all[i].id = x /\ all[i].new = row
      BY <1>1, <1>3
    <2>2. \A j \in 1..(n + 1) : j > i => all[j].id # x
      BY <1>1, <1>3
    <2>. QED  BY <2>1, <2>2 DEF Leaves
  <1>. QED  BY <1>2, <1>3 DEF Leaves, n, all

LEMMA LastLeaves ==
  ASSUME NEW es \in Seq(EventType), NEW e \in EventType
  PROVE  Leaves(Append(es, e), Len(es) + 1, e.id, e.new)
  <1>1. Len(es) \in Nat /\ Append(es, e)[Len(es) + 1] = e
    BY AnotherEvent
  <1>2. Len(es) + 1 \in 1..(Len(es) + 1)
    BY <1>1
  <1>3. \A j \in 1..(Len(es) + 1) : ~(j > Len(es) + 1)
    BY <1>1
  <1>. QED  BY <1>1, <1>2, <1>3 DEF Leaves

-----------------------------------------------------------------------------
(* The event of a transaction.                                             *)
EventOf(e) == [type |-> e.type, id |-> e.id, prev |-> e.prev, new |-> e.new]

LEMMA EventTyped ==
  ASSUME NEW e \in EditType, e.type \in Types, e.id \in Blocks \cup Attachments,
         e.new \in BlockRow \cup AttachmentRow
  PROVE  /\ EventOf(e) \in EventType /\ EventOf(e).type = e.type /\ EventOf(e).id = e.id
         /\ EventOf(e).prev = e.prev /\ EventOf(e).new = e.new
  BY DEF EditType, EventType, EventOf

(* What a commit finds and does, for a block and for an attachment.        *)
LEMMA CommitsBlock ==
  ASSUME BlocksInv, NEW w \in Editors, CommitEdit(w), edit[w].type \in BlockTypes
  PROVE  /\ edit[w].at = "commit" /\ edit[w].id \in Blocks /\ edit[w].id \notin Attachments
         /\ edit[w].new \in BlockRow /\ edit[w].prev = blocks[edit[w].id]
         /\ EventOf(edit[w]) \in EventType /\ events' = Append(events, EventOf(edit[w]))
         /\ blocks' = [blocks EXCEPT ![edit[w].id] = edit[w].new] /\ UNCHANGED attachments
         /\ edit' = [edit EXCEPT ![w] = NoEdit]
  <1>1. /\ edit[w].at = "commit" /\ edit[w] \in EditType /\ EditGood(edit[w])
    BY EditIsGood DEF CommitEdit
  <1>2. /\ edit[w].id \in Blocks /\ edit[w].new \in BlockRow /\ edit[w].prev = blocks[edit[w].id]
    BY <1>1 DEF EditGood, BlockEditGood, BlockTypes
  <1>3. edit[w].id \notin Attachments
    BY <1>2, BlocksAssumption
  <1>4. EventOf(edit[w]) \in EventType
    BY <1>1, <1>2, EventTyped DEF BlockTypes, Types
  <1>. QED  BY <1>1, <1>2, <1>3, <1>4 DEF CommitEdit, EventOf

LEMMA CommitsAttachment ==
  ASSUME BlocksInv, NEW w \in Editors, CommitEdit(w), edit[w].type \in AttachmentTypes
  PROVE  /\ edit[w].at = "commit" /\ edit[w].id \in Attachments /\ edit[w].id \notin Blocks
         /\ edit[w].new \in AttachmentRow
         /\ EventOf(edit[w]) \in EventType /\ events' = Append(events, EventOf(edit[w]))
         /\ attachments' = [attachments EXCEPT ![edit[w].id] = edit[w].new] /\ UNCHANGED blocks
         /\ edit' = [edit EXCEPT ![w] = NoEdit]
  <1>1. /\ edit[w].at = "commit" /\ edit[w] \in EditType /\ EditGood(edit[w])
    BY EditIsGood DEF CommitEdit
  <1>2. edit[w].id \in Attachments /\ edit[w].new \in AttachmentRow
    BY <1>1 DEF EditGood, AttachmentEditGood, AttachmentTypes
  <1>3. edit[w].id \notin Blocks
    BY <1>2, BlocksAssumption
  <1>4. EventOf(edit[w]) \in EventType
    BY <1>1, <1>2, EventTyped DEF AttachmentTypes, Types
  <1>. QED  BY <1>1, <1>2, <1>3, <1>4 DEF CommitEdit, EventOf

LEMMA CommitHasType ==
  ASSUME BlocksInv, NEW w \in Editors, CommitEdit(w)
  PROVE  edit[w].type \in BlockTypes \/ edit[w].type \in AttachmentTypes
  BY EditIsGood DEF CommitEdit, EditGood, BlockTypes, AttachmentTypes, Types

(* The events stay an explanation: those before say the same as before, and *)
(* the new one starts from what they left.                                 *)
LEMMA HistoryGrows ==
  ASSUME BlocksInv, NEW e \in EventType,
         e.id \in Blocks \/ e.type = "attachment_removed" => Leaves(events, Len(events), e.id, e.prev),
         e.type = "attachment_removed" => e.prev # NoRow,
         \A i \in 1..Len(events) : events[i].type = "attachment_removed" => events[i].id # e.id
  PROVE  LET all == Append(events, e)
         IN \A i \in 1..Len(all) :
              /\ all[i].id \in Blocks \/ all[i].type = "attachment_removed" =>
                   Leaves(all, i - 1, all[i].id, all[i].prev)
              /\ all[i].type = "attachment_removed" =>
                   /\ all[i].prev # NoRow
                   /\ \A j \in 1..Len(all) : j > i => all[j].id # all[i].id
  <1>. DEFINE n == Len(events)
              all == Append(events, e)
  <1>0. events \in Seq(EventType)
    BY DEF BlocksInv
  <1>1. /\ n \in Nat /\ Len(all) = n + 1 /\ \A i \in 1..n : all[i] = events[i]
        /\ all[n + 1] = e /\ 1..(n + 1) = 1..n \cup {n + 1}
    BY <1>0, AnotherEvent
  <1>2. ASSUME NEW m \in 0..n, NEW x, NEW row, Leaves(events, m, x, row) PROVE Leaves(all, m, x, row)
    BY <1>0, <1>2, OldLeaves
  <1>3. \A i \in 1..n :
          /\ events[i].id \in Blocks \/ events[i].type = "attachment_removed" =>
               Leaves(events, i - 1, events[i].id, events[i].prev)
          /\ events[i].type = "attachment_removed" =>
               /\ events[i].prev # NoRow
               /\ \A j \in 1..n : j > i => events[j].id # events[i].id
    BY DEF BlocksInv, BlocksReplay
  <1>. HIDE DEF all, n
  <1>4. ASSUME NEW i \in 1..n
        PROVE  /\ all[i].id \in Blocks \/ all[i].type = "attachment_removed" =>
                    Leaves(all, i - 1, all[i].id, all[i].prev)
               /\ all[i].type = "attachment_removed" =>
                    /\ all[i].prev # NoRow
                    /\ \A j \in 1..(n + 1) : j > i => all[j].id # all[i].id
    <2>1. all[i] = events[i] /\ i - 1 \in 0..n
      BY <1>1
    <2>2. all[i].id \in Blocks \/ all[i].type = "attachment_removed" =>
            Leaves(all, i - 1, all[i].id, all[i].prev)
      BY <1>2, <1>3, <2>1
    <2>3. ASSUME all[i].type = "attachment_removed", NEW j \in 1..(n + 1), j > i
          PROVE  all[j].id # all[i].id
      <3>1. CASE j \in 1..n
        BY <1>1, <1>3, <2>1, <2>3, <3>1
      <3>2. CASE j = n + 1
        BY <1>1, <2>1, <2>3, <3>2 DEF n
      <3>. QED  BY <1>1, <3>1, <3>2
    <2>. QED  BY <1>3, <2>1, <2>2, <2>3
  <1>5. /\ e.id \in Blocks \/ e.type = "attachment_removed" => Leaves(all, n, e.id, e.prev)
        /\ e.type = "attachment_removed" =>
             /\ e.prev # NoRow
             /\ \A j \in 1..(n + 1) : ~(j > n + 1)
    <2>1. n \in 0..n
      BY <1>1
    <2>. QED  BY <1>1, <1>2, <2>1 DEF n
  <1>6. n + 1 - 1 = n
    BY <1>1
  <1>. QED  BY <1>1, <1>4, <1>5, <1>6 DEF all, n

LEMMA EventsAreTyped ==
  ASSUME NEW es \in Seq(EventType), NEW i \in 1..Len(es)
  PROVE  /\ es[i].type \in Types /\ es[i].id \in Blocks \cup Attachments
         /\ es[i].new \in BlockRow \cup AttachmentRow
  <1>1. es[i] \in EventType
    OBVIOUS
  <1>. QED  BY <1>1 DEF EventType

LEMMA CommitBlockKeeps ==
  ASSUME BlocksInv, NEW w \in Editors, CommitEdit(w), edit[w].type \in BlockTypes
  PROVE  BlocksInv'
  <1>. DEFINE x == edit[w].id
              new == edit[w].new
              e == EventOf(edit[w])
  <1>0. /\ edit[w].at = "commit" /\ x \in Blocks /\ x \notin Attachments
        /\ new \in BlockRow /\ edit[w].prev = blocks[x] /\ e \in EventType
        /\ events' = Append(events, e) /\ blocks' = [blocks EXCEPT ![x] = new]
        /\ UNCHANGED attachments /\ edit' = [edit EXCEPT ![w] = NoEdit]
    BY CommitsBlock
  <1>1. /\ e.type = edit[w].type /\ e.id = x /\ e.prev = blocks[x] /\ e.new = new
        /\ e.type # "attachment_removed"
    BY <1>0 DEF EventOf, BlockTypes
  <1>2. new # NoRow
    BY <1>0, BlocksAssumption DEF BlockRow
  <1>3. /\ blocks' \in [Blocks -> BlockRow \cup {NoRow}] /\ blocks'[x] = new
        /\ \A b \in Blocks \ {x} : blocks'[b] = blocks[b]
    BY <1>0 DEF BlocksInv, BlocksTypeOK
  <1>4. /\ edit' \in [Editors -> EditType] /\ edit'[w] = NoEdit
        /\ \A v \in Editors \ {w} : edit'[v] = edit[v]
    BY <1>0, NoEditTyped DEF BlocksInv, EditsGood
  <1>5. \A b \in Blocks \ {x} : blocks[b] # NoRow => blocks[b].key # new.key
    BY <1>0, EditIsGood DEF EditGood, BlockEditGood
  <1>6. /\ events \in Seq(EventType) /\ events' \in Seq(EventType)
        /\ Len(events') = Len(events) + 1 /\ Len(events) \in Nat
        /\ \A i \in 1..Len(events) : events'[i] = events[i]
        /\ events'[Len(events) + 1] = e
        /\ 1..(Len(events) + 1) = 1..Len(events) \cup {Len(events) + 1}
    BY <1>0, AnotherEvent DEF BlocksInv
  <1>. HIDE DEF e
  <1>7. BlocksTypeOK'
    <2>1. \A i \in 1..Len(events') :
            /\ events'[i].type \in Types /\ events'[i].id \in Blocks \cup Attachments
            /\ events'[i].new \in BlockRow \cup AttachmentRow
      BY <1>6, EventsAreTyped
    <2>2. \A v \in Editors : edit'[v].at \in {"idle", "fetch", "check", "write", "commit"}
      BY <1>4 DEF EditType
    <2>3. attachments' \in [Attachments -> AttachmentRow \cup {NoRow}]
      BY <1>0 DEF BlocksInv, BlocksTypeOK
    <2>. QED  BY <1>3, <2>1, <2>2, <2>3 DEF BlocksTypeOK
  <1>8. ASSUME NEW v \in Editors \ {w} PROVE EditGood(edit[v])'
    <2>1. /\ edit[v] \in EditType /\ EditGood(edit[v]) /\ Apart(edit[v], edit[w])
          /\ EditGood(edit[w])
      BY EditIsGood
    <2>2. edit[v].at # "idle" /\ edit[v].type = "block_created" => edit[v].id # x
      BY <1>0, <2>1 DEF Apart, EditGood, BlockEditGood, BlockTypes
    <2>3. edit[v].at \notin {"idle", "fetch"} /\ edit[v].type = "block_updated" => edit[v].id # x
      BY <1>0, <2>1 DEF Apart, EditGood, BlockEditGood, BlockTypes
    <2>4. edit[v].at = "commit" /\ edit[v].type \in BlockTypes => edit[v].new.key # new.key
      BY <1>0, <2>1 DEF Apart
    <2>5. BlockEditGood(edit[v])'
      <3>1. edit[v].at # "idle" /\ edit[v].type = "block_created" =>
              /\ edit[v].id \in Blocks /\ edit[v].new \in BlockRow
              /\ edit[v].prev = NoRow /\ blocks'[edit[v].id] = NoRow
        BY <1>3, <2>1, <2>2 DEF EditGood, BlockEditGood
      <3>2. edit[v].at # "idle" /\ edit[v].type = "block_updated" =>
              /\ edit[v].id \in Blocks /\ edit[v].new \in BlockRow /\ blocks'[edit[v].id] # NoRow
              /\ edit[v].at # "fetch" => edit[v].prev = blocks'[edit[v].id]
        BY <1>2, <1>3, <2>1, <2>3 DEF EditGood, BlockEditGood
      <3>3. ASSUME edit[v].at = "commit", edit[v].type \in BlockTypes,
                   NEW b \in Blocks \ {edit[v].id}, blocks'[b] # NoRow
            PROVE  blocks'[b].key # edit[v].new.key
        BY <1>3, <2>1, <2>4, <3>3 DEF EditGood, BlockEditGood
      <3>. QED  BY <1>4, <3>1, <3>2, <3>3 DEF BlockEditGood
    <2>6. AttachmentEditGood(edit[v])'
      BY <1>0, <1>4, <2>1 DEF EditGood, AttachmentEditGood
    <2>. QED  BY <1>4, <2>1, <2>5, <2>6 DEF EditGood
  <1>9. EditsGood'
    <2>1. EditGood(edit[w])'
      BY <1>4, NoEditTyped DEF EditGood, BlockEditGood, AttachmentEditGood
    <2>2. ASSUME NEW u \in Editors, NEW v \in Editors, u # v PROVE Apart(edit[u], edit[v])'
      BY <1>0, <1>4, <2>2, NoEditTyped DEF BlocksInv, EditsGood, Apart
    <2>. QED  BY <1>4, <1>8, <2>1, <2>2 DEF EditsGood
  <1>10. RemovedStay'
    <2>. SUFFICES ASSUME NEW i \in 1..Len(events'), events'[i].type = "attachment_removed"
                  PROVE  /\ events'[i].id \in Attachments /\ attachments'[events'[i].id] # NoRow
                         /\ ~attachments'[events'[i].id].active
      BY DEF RemovedStay
    <2>1. i \in 1..Len(events) /\ events'[i] = events[i]
      BY <1>1, <1>6
    <2>. QED  BY <1>0, <2>1 DEF BlocksInv, RemovedStay
  <1>11. ASSUME NEW b \in Blocks PROVE Leaves(events', Len(events'), b, blocks'[b])
    <2>1. Leaves(events, Len(events), b, blocks[b])
      BY DEF BlocksInv, BlocksReplay
    <2>2. CASE b = x
      BY <1>0, <1>1, <1>3, <1>6, <2>2, LastLeaves
    <2>3. CASE b # x
      BY <1>0, <1>1, <1>3, <1>6, <2>1, <2>3, OthersLeave
    <2>. QED  BY <2>2, <2>3
  <1>12. ASSUME NEW a \in Attachments PROVE Leaves(events', Len(events'), a, attachments'[a])
    <2>1. Leaves(events, Len(events), a, attachments[a]) /\ a # x
      BY <1>0 DEF BlocksInv, BlocksReplay
    <2>. QED  BY <1>0, <1>1, <1>6, <2>1, OthersLeave
  <1>13. \A b \in Blocks : \A c \in Blocks \ {b} :
           blocks'[b] = NoRow \/ blocks'[c] = NoRow \/ blocks'[b].key # blocks'[c].key
    BY <1>3, <1>5 DEF BlocksInv, BlocksReplay
  <1>14. \A i \in 1..Len(events') :
           /\ events'[i].id \in Blocks \/ events'[i].type = "attachment_removed" =>
                Leaves(events', i - 1, events'[i].id, events'[i].prev)
           /\ events'[i].type = "attachment_removed" =>
                /\ events'[i].prev # NoRow
                /\ \A j \in 1..Len(events') : j > i => events'[j].id # events'[i].id
    <2>1. Leaves(events, Len(events), e.id, e.prev)
      BY <1>0, <1>1 DEF BlocksInv, BlocksReplay
    <2>2. \A i \in 1..Len(events) : events[i].type = "attachment_removed" => events[i].id # e.id
      BY <1>0, <1>1 DEF BlocksInv, RemovedStay
    <2>. QED  BY <1>0, <1>1, <2>1, <2>2, HistoryGrows
  <1>15. BlocksReplay'
    <2>1. \A a \in Attachments : attachments'[a] # NoRow /\ attachments'[a].active =>
            \A c \in Attachments \ {a} :
              attachments'[c] # NoRow /\ SamePlace(attachments'[a], attachments'[c]) =>
                ~attachments'[c].active
      BY <1>0 DEF BlocksInv, BlocksReplay
    <2>. QED  BY <1>11, <1>12, <1>13, <1>14, <2>1 DEF BlocksReplay, SamePlace
  <1>. QED  BY <1>6, <1>7, <1>9, <1>10, <1>15 DEF BlocksInv

LEMMA CommitAttachmentKeeps ==
  ASSUME BlocksInv, NEW w \in Editors, CommitEdit(w), edit[w].type \in AttachmentTypes
  PROVE  BlocksInv'
  <1>. DEFINE x == edit[w].id
              new == edit[w].new
              e == EventOf(edit[w])
  <1>0. /\ edit[w].at = "commit" /\ x \in Attachments /\ x \notin Blocks
        /\ new \in AttachmentRow /\ e \in EventType
        /\ events' = Append(events, e) /\ attachments' = [attachments EXCEPT ![x] = new]
        /\ UNCHANGED blocks /\ edit' = [edit EXCEPT ![w] = NoEdit]
    BY CommitsAttachment
  <1>1. e.type = edit[w].type /\ e.id = x /\ e.prev = edit[w].prev /\ e.new = new
    BY DEF EventOf
  <1>2. new # NoRow
    BY <1>0, BlocksAssumption DEF AttachmentRow
  <1>3. /\ attachments' \in [Attachments -> AttachmentRow \cup {NoRow}] /\ attachments'[x] = new
        /\ \A a \in Attachments \ {x} : attachments'[a] = attachments[a]
    BY <1>0 DEF BlocksInv, BlocksTypeOK
  <1>4. /\ edit' \in [Editors -> EditType] /\ edit'[w] = NoEdit
        /\ \A v \in Editors \ {w} : edit'[v] = edit[v]
    BY <1>0, NoEditTyped DEF BlocksInv, EditsGood
  <1>5. /\ edit[w].type = "attachment_removed" =>
             /\ edit[w].prev = attachments[x] /\ attachments[x] # NoRow /\ attachments[x].active
             /\ ~new.active
        /\ edit[w].type = "attachment_added" =>
             /\ attachments[x] # NoRow => attachments[x].active
             /\ \A a \in Attachments \ {x} : attachments[a] # NoRow /\ attachments[a].active =>
                  ~SamePlace(attachments[a], new)
    BY <1>0, EditIsGood DEF EditGood, AttachmentEditGood
  <1>6. /\ events \in Seq(EventType) /\ events' \in Seq(EventType)
        /\ Len(events') = Len(events) + 1 /\ Len(events) \in Nat
        /\ \A i \in 1..Len(events) : events'[i] = events[i]
        /\ events'[Len(events) + 1] = e
        /\ 1..(Len(events) + 1) = 1..Len(events) \cup {Len(events) + 1}
    BY <1>0, AnotherEvent DEF BlocksInv
  <1>. HIDE DEF e
  <1>7. BlocksTypeOK'
    <2>1. \A i \in 1..Len(events') :
            /\ events'[i].type \in Types /\ events'[i].id \in Blocks \cup Attachments
            /\ events'[i].new \in BlockRow \cup AttachmentRow
      BY <1>6, EventsAreTyped
    <2>2. \A v \in Editors : edit'[v].at \in {"idle", "fetch", "check", "write", "commit"}
      BY <1>4 DEF EditType
    <2>3. blocks' \in [Blocks -> BlockRow \cup {NoRow}]
      BY <1>0 DEF BlocksInv, BlocksTypeOK
    <2>. QED  BY <1>3, <2>1, <2>2, <2>3 DEF BlocksTypeOK
  <1>8. ASSUME NEW v \in Editors \ {w} PROVE EditGood(edit[v])'
    <2>1. /\ edit[v] \in EditType /\ EditGood(edit[v]) /\ Apart(edit[v], edit[w])
          /\ EditGood(edit[w])
      BY EditIsGood
    <2>2. BlockEditGood(edit[v])'
      BY <1>0, <1>4, <2>1 DEF EditGood, BlockEditGood
    <2>3. edit[v].at = "write" /\ edit[v].type = "attachment_added" => edit[v].id # x
      BY <1>0, <1>5, <2>1 DEF Apart, EditGood, AttachmentEditGood, AttachmentTypes
    <2>4. edit[v].at = "commit" /\ edit[v].type \in AttachmentTypes =>
            edit[v].id # x /\ ~SamePlace(edit[v].new, new)
      BY <1>0, <2>1 DEF Apart
    <2>5. edit[v].at # "idle" /\ edit[v].type = "attachment_added" =>
            /\ edit[v].at \in {"write", "commit"} /\ edit[v].id \in Attachments
            /\ edit[v].new \in AttachmentRow /\ edit[v].new.active
            /\ edit[v].at = "write" => attachments'[edit[v].id] = NoRow
      BY <1>3, <2>1, <2>3 DEF EditGood, AttachmentEditGood
    <2>6. ASSUME edit[v].at = "commit", edit[v].type = "attachment_added"
          PROVE  /\ attachments'[edit[v].id] # NoRow =>
                      /\ attachments'[edit[v].id].active
                      /\ SamePlace(attachments'[edit[v].id], edit[v].new)
                 /\ \A a \in Attachments \ {edit[v].id} :
                      attachments'[a] # NoRow /\ attachments'[a].active =>
                        ~SamePlace(attachments'[a], edit[v].new)
      <3>1. edit[v].id \in Attachments /\ edit[v].id # x /\ ~SamePlace(edit[v].new, new)
        BY <2>4, <2>5, <2>6 DEF AttachmentTypes
      <3>2. ~SamePlace(new, edit[v].new)
        BY <3>1 DEF SamePlace
      <3>3. /\ attachments[edit[v].id] # NoRow =>
                 attachments[edit[v].id].active /\ SamePlace(attachments[edit[v].id], edit[v].new)
            /\ \A a \in Attachments \ {edit[v].id} : attachments[a] # NoRow /\ attachments[a].active =>
                 ~SamePlace(attachments[a], edit[v].new)
        BY <2>1, <2>6 DEF EditGood, AttachmentEditGood
      <3>. QED  BY <1>3, <3>1, <3>2, <3>3
    <2>7. edit[v].at # "idle" /\ edit[v].type = "attachment_removed" =>
            /\ edit[v].at \in {"fetch", "commit"} /\ edit[v].id \in Attachments
            /\ attachments'[edit[v].id] # NoRow
            /\ edit[v].at = "commit" =>
                 /\ edit[v].prev = attachments'[edit[v].id] /\ edit[v].prev.active
                 /\ edit[v].new \in AttachmentRow /\ ~edit[v].new.active
                 /\ SamePlace(edit[v].new, edit[v].prev)
      BY <1>2, <1>3, <2>1, <2>4 DEF EditGood, AttachmentEditGood, AttachmentTypes
    <2>8. AttachmentEditGood(edit[v])'
      BY <1>4, <2>5, <2>6, <2>7 DEF AttachmentEditGood, SamePlace
    <2>. QED  BY <1>4, <2>1, <2>2, <2>8 DEF EditGood
  <1>9. EditsGood'
    <2>1. EditGood(edit[w])'
      BY <1>4, NoEditTyped DEF EditGood, BlockEditGood, AttachmentEditGood
    <2>2. ASSUME NEW u \in Editors, NEW v \in Editors, u # v PROVE Apart(edit[u], edit[v])'
      <3>1. CASE u = w \/ v = w
        BY <1>4, <3>1, NoEditTyped DEF Apart
      <3>2. CASE u # w /\ v # w
        <4>1. /\ Apart(edit[u], edit[v]) /\ edit'[u] = edit[u] /\ edit'[v] = edit[v]
              /\ EditGood(edit[u])
          BY <1>4, <2>2, <3>2 DEF BlocksInv, EditsGood
        <4>2. edit[u].at # "idle" /\ edit[u].type = "attachment_added" /\ attachments[edit[u].id] # NoRow =>
                attachments'[edit[u].id] # NoRow
          BY <1>2, <1>3, <4>1 DEF EditGood, AttachmentEditGood
        <4>. QED  BY <4>1, <4>2 DEF Apart, SamePlace
      <3>. QED  BY <3>1, <3>2
    <2>. QED  BY <1>4, <1>8, <2>1, <2>2 DEF EditsGood
  <1>10. \A i \in 1..Len(events) : events[i].type = "attachment_removed" => events[i].id # x
    BY <1>0, <1>5 DEF BlocksInv, RemovedStay, AttachmentTypes
  <1>11. RemovedStay'
    <2>. SUFFICES ASSUME NEW i \in 1..Len(events'), events'[i].type = "attachment_removed"
                  PROVE  /\ events'[i].id \in Attachments /\ attachments'[events'[i].id] # NoRow
                         /\ ~attachments'[events'[i].id].active
      BY DEF RemovedStay
    <2>1. CASE i \in 1..Len(events)
      BY <1>3, <1>6, <1>10, <2>1 DEF BlocksInv, RemovedStay
    <2>2. CASE i = Len(events) + 1
      BY <1>0, <1>1, <1>2, <1>3, <1>5, <1>6, <2>2
    <2>. QED  BY <1>6, <2>1, <2>2
  <1>12. ASSUME NEW b \in Blocks PROVE Leaves(events', Len(events'), b, blocks'[b])
    <2>1. Leaves(events, Len(events), b, blocks[b]) /\ b # x
      BY <1>0 DEF BlocksInv, BlocksReplay
    <2>. QED  BY <1>0, <1>1, <1>6, <2>1, OthersLeave
  <1>13. ASSUME NEW a \in Attachments PROVE Leaves(events', Len(events'), a, attachments'[a])
    <2>1. Leaves(events, Len(events), a, attachments[a])
      BY DEF BlocksInv, BlocksReplay
    <2>2. CASE a = x
      BY <1>0, <1>1, <1>3, <1>6, <2>2, LastLeaves
    <2>3. CASE a # x
      BY <1>0, <1>1, <1>3, <1>6, <2>1, <2>3, OthersLeave
    <2>. QED  BY <2>2, <2>3
  <1>14. ASSUME NEW a \in Attachments, attachments'[a] # NoRow, attachments'[a].active,
                NEW c \in Attachments \ {a}, attachments'[c] # NoRow,
                SamePlace(attachments'[a], attachments'[c])
         PROVE  ~attachments'[c].active
    <2>1. CASE a = x
      BY <1>0, <1>3, <1>5, <1>14, <2>1 DEF SamePlace, AttachmentTypes
    <2>2. CASE c = x
      BY <1>0, <1>3, <1>5, <1>14, <2>2 DEF SamePlace, AttachmentTypes
    <2>3. CASE a # x /\ c # x
      BY <1>3, <1>14, <2>3 DEF BlocksInv, BlocksReplay
    <2>. QED  BY <2>1, <2>2, <2>3
  <1>15. \A i \in 1..Len(events') :
           /\ events'[i].id \in Blocks \/ events'[i].type = "attachment_removed" =>
                Leaves(events', i - 1, events'[i].id, events'[i].prev)
           /\ events'[i].type = "attachment_removed" =>
                /\ events'[i].prev # NoRow
                /\ \A j \in 1..Len(events') : j > i => events'[j].id # events'[i].id
    <2>1. e.type = "attachment_removed" => Leaves(events, Len(events), e.id, e.prev) /\ e.prev # NoRow
      BY <1>0, <1>1, <1>5 DEF BlocksInv, BlocksReplay
    <2>. QED  BY <1>0, <1>1, <1>10, <2>1, HistoryGrows
  <1>16. BlocksReplay'
    <2>1. \A b \in Blocks : \A c \in Blocks \ {b} :
            blocks'[b] = NoRow \/ blocks'[c] = NoRow \/ blocks'[b].key # blocks'[c].key
      BY <1>0 DEF BlocksInv, BlocksReplay
    <2>. QED  BY <1>12, <1>13, <1>14, <1>15, <2>1 DEF BlocksReplay, SamePlace
  <1>. QED  BY <1>6, <1>7, <1>9, <1>11, <1>16 DEF BlocksInv

LEMMA NextBlocks == BlocksInv /\ [BlocksNext]_blockVars => BlocksInv'
  <1>. SUFFICES ASSUME BlocksInv, [BlocksNext]_blockVars PROVE BlocksInv'
    OBVIOUS
  <1>1. ASSUME NEW w \in Editors, RollbackEdit(w) PROVE BlocksInv'
    BY <1>1, RollbackKeeps DEF RollbackEdit
  <1>2. ASSUME NEW w \in Editors, CommitEdit(w) PROVE BlocksInv'
    BY <1>2, CommitHasType, CommitBlockKeeps, CommitAttachmentKeeps
  <1>3. CASE UNCHANGED blockVars
    BY <1>3 DEF blockVars, BlocksInv, BlocksTypeOK, EditsGood, EditGood, BlockEditGood,
                AttachmentEditGood, Apart, RemovedStay, BlocksReplay
  <1>. QED  BY <1>1, <1>2, <1>3, BlockBegins, AttachmentBegins, FetchKeeps, CheckKeeps,
               WriteBlockKeeps, AttachKeeps, DetachKeeps
            DEF BlocksNext

(* The audit history explains every block and attachment, however requests *)
(* meet (insert_core_block_event), for any number of them.                 *)
THEOREM BlocksAlwaysReplay == BlocksSpec => [](BlocksReplay /\ BlocksTypeOK)
  <1>1. BlocksInv => BlocksReplay /\ BlocksTypeOK
    BY DEF BlocksInv
  <1>. QED  BY <1>1, InitBlocks, NextBlocks, PTL DEF BlocksSpec
=============================================================================
