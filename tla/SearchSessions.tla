--------------------------- MODULE SearchSessions ---------------------------
(***************************************************************************)
(* A progressive search leaves a session that its follow-up requests page  *)
(* through. It expires some hours after its last use, and at the latest a  *)
(* day after its creation. Requests read the session, compute its new      *)
(* expiry and write it, in statements of their own on the pool; the        *)
(* clean-up of the workers deletes what has expired in the meantime.       *)
(*                                                                         *)
(* All processes read the same clock, in units of which SlidingTtl and     *)
(* AbsoluteTtl count.                                                      *)
(***************************************************************************)
EXTENDS Integers, FiniteSets

CONSTANTS Sessions,    \* search_session_id
          Clients,     \* requests in flight
          NoSession,   \* no session
          SlidingTtl,  \* SESSION_SLIDING_TTL_HOURS
          AbsoluteTtl, \* SESSION_ABSOLUTE_TTL_HOURS
          LastTime     \* bound on the clock

(* A session may be used at least once before it must end (6 h and 24 h).  *)
ASSUME SessionAssumption ==
  /\ SlidingTtl \in Nat /\ AbsoluteTtl \in Nat /\ LastTime \in Nat
  /\ SlidingTtl <= AbsoluteTtl
  /\ NoSession \notin Sessions
  /\ NoSession \notin [created : Nat, expires : Nat]

VARIABLES clock,
          session,   \* [Sessions -> [created, expires], or NoSession]
          known,     \* sessions that were ever created
          request,   \* [Clients -> [at, read_at, id, created, expires]]
          cleanup,   \* the clock the clean-up has read, or -1 outside a clean-up
          promised,  \* [Sessions -> the latest expires_at in a response]
          outrun     \* sessions that were purged between the read of a request and its write

sessionVars == <<clock, session, known, request, cleanup, promised, outrun>>

Idle == [at |-> "idle", read_at |-> 0, id |-> NoSession, created |-> 0, expires |-> 0]
Row == [created : 0..LastTime, expires : 0..(LastTime + AbsoluteTtl)]

(* Types. A session never outlives AbsoluteTtl.                            *)
SessionTypeOK ==
  /\ clock \in 0..LastTime
  /\ session \in [Sessions -> Row \cup {NoSession}]
  /\ known \subseteq Sessions
  /\ request \in [Clients -> [at : {"idle", "store", "load", "touch"}, read_at : 0..LastTime,
                              id : Sessions \cup {NoSession}, created : 0..LastTime,
                              expires : 0..(LastTime + AbsoluteTtl)]]
  /\ cleanup \in -1..LastTime
  /\ promised \in [Sessions -> 0..(LastTime + AbsoluteTtl)]
  /\ outrun \subseteq known
  /\ \A s \in Sessions : session[s] # NoSession =>
       s \in known /\ session[s].expires <= session[s].created + AbsoluteTtl

SessionInit ==
  /\ clock = 0
  /\ session = [s \in Sessions |-> NoSession]
  /\ known = {}
  /\ request = [c \in Clients |-> Idle]
  /\ cleanup = -1
  /\ promised = [s \in Sessions |-> 0]
  /\ outrun = {}

SessionTick ==
  /\ clock < LastTime
  /\ clock' = clock + 1
  /\ UNCHANGED <<session, known, request, cleanup, promised, outrun>>

-----------------------------------------------------------------------------
(* The end of a request: the response names an expiry.                     *)
Respond(c, s, expires) ==
  /\ promised' = [promised EXCEPT ![s] = IF @ < expires THEN expires ELSE @]
  /\ request' = [request EXCEPT ![c] = Idle]

(* The results are there; the session will count from here, before its     *)
(* structured fields are fetched.                                          *)
SearchEnds(c, s) ==
  /\ request[c].at = "idle" /\ s \notin known
  /\ \A d \in Clients : request[d].id # s
  /\ request' = [request EXCEPT ![c] = [Idle EXCEPT !.at = "store", !.read_at = clock, !.id = s]]
  /\ UNCHANGED <<clock, session, known, cleanup, promised, outrun>>

store_search_session(c) ==
  LET s == request[c].id  created == request[c].read_at
  IN /\ request[c].at = "store"
     /\ session' = [session EXCEPT ![s] = [created |-> created, expires |-> created + SlidingTtl]]
     /\ known' = known \cup {s}
     /\ Respond(c, s, created + SlidingTtl)
     /\ UNCHANGED <<clock, cleanup, outrun>>

(* A follow-up reads the clock once, before anything else.                 *)
FollowUp(c, s) ==
  /\ request[c].at = "idle" /\ s \in known
  /\ request' = [request EXCEPT ![c] = [Idle EXCEPT !.at = "load", !.read_at = clock, !.id = s]]
  /\ UNCHANGED <<clock, session, known, cleanup, promised, outrun>>

Alive(s, t) == session[s] # NoSession /\ session[s].expires > t

Refused(c) ==
  LET s == request[c].id
  IN /\ request[c].at = "load"
     /\ ~Alive(s, request[c].read_at)
     /\ request' = [request EXCEPT ![c] = Idle]
     /\ UNCHANGED <<clock, session, known, cleanup, promised, outrun>>

(* search_session_get with touch = false ends here; the other follow-ups   *)
(* always touch.                                                           *)
load_search_session(c) ==
  LET s == request[c].id
  IN /\ request[c].at = "load"
     /\ Alive(s, request[c].read_at)
     /\ \/ /\ request' = [request EXCEPT ![c].at = "touch", ![c].created = session[s].created,
                                         ![c].expires = session[s].expires]
           /\ UNCHANGED promised
        \/ Respond(c, s, session[s].expires)
     /\ UNCHANGED <<clock, session, known, cleanup, outrun>>

(* Slip: the session slides without end.                                   *)
TouchedWithoutEnd(c) == request[c].read_at + SlidingTtl

Touched(c) ==
  LET sliding == request[c].read_at + SlidingTtl
      absolute == request[c].created + AbsoluteTtl
  IN IF sliding < absolute THEN sliding ELSE absolute

(* Slip: the update does not ask whether somebody has extended further.    *)
touch_search_session_anyway(c) ==
  LET s == request[c].id
  IN /\ request[c].at = "touch"
     /\ IF Touched(c) <= request[c].expires
          THEN Respond(c, s, request[c].expires) /\ UNCHANGED <<session, outrun>>
          ELSE /\ Respond(c, s, Touched(c))
               /\ IF session[s] = NoSession
                    THEN outrun' = outrun \cup {s} /\ UNCHANGED session
                    ELSE session' = [session EXCEPT ![s].expires = Touched(c)] /\ UNCHANGED outrun
     /\ UNCHANGED <<clock, known, cleanup>>

(* The update is guarded by expires_at < $1 and its outcome is not looked  *)
(* at: the response names the new expiry even if the session has been      *)
(* purged meanwhile.                                                       *)
touch_search_session(c) ==
  LET s == request[c].id
  IN /\ request[c].at = "touch"
     /\ IF Touched(c) <= request[c].expires
          THEN Respond(c, s, request[c].expires) /\ UNCHANGED <<session, outrun>>
          ELSE /\ Respond(c, s, Touched(c))
               /\ IF session[s] = NoSession
                    THEN outrun' = outrun \cup {s} /\ UNCHANGED session
                    ELSE /\ session' = [session EXCEPT ![s].expires =
                                          IF @ < Touched(c) THEN Touched(c) ELSE @]
                         /\ UNCHANGED outrun
     /\ UNCHANGED <<clock, known, cleanup>>

-----------------------------------------------------------------------------
(* The clean-up reads the clock and purges traces and cache entries first. *)
CleanupBegins ==
  /\ cleanup = -1
  /\ cleanup' = clock
  /\ UNCHANGED <<clock, session, known, request, promised, outrun>>

purge_expired_search_sessions ==
  /\ cleanup # -1
  /\ session' = [s \in Sessions |->
                   IF session[s] # NoSession /\ session[s].expires <= cleanup
                     THEN NoSession ELSE session[s]]
  /\ cleanup' = -1
  /\ UNCHANGED <<clock, known, request, promised, outrun>>

SessionNext ==
  \/ \E c \in Clients : \/ \E s \in Sessions : SearchEnds(c, s) \/ FollowUp(c, s)
                        \/ store_search_session(c)
                        \/ Refused(c)
                        \/ load_search_session(c)
                        \/ touch_search_session(c)
  \/ CleanupBegins
  \/ purge_expired_search_sessions
  \/ SessionTick

SessionSpec == SessionInit /\ [][SessionNext]_sessionVars

-----------------------------------------------------------------------------
(* A client that was told an expiry finds the session until then: neither  *)
(* a slower request that read an earlier clock nor a clean-up takes it     *)
(* away (touch_search_session, purge_expired_search_sessions). The one     *)
(* exception is what the code does: a request that loaded a session just   *)
(* before it expired and touches it after it was purged promises a session *)
(* that is gone.                                                           *)
PromisesKept ==
  \A s \in Sessions \ outrun :
    promised[s] > clock => session[s] # NoSession /\ session[s].expires >= promised[s]
=============================================================================
