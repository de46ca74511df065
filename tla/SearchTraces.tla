---------------------------- MODULE SearchTraces ----------------------------
(***************************************************************************)
(* The trace of a search: a header, its items and stages, and the          *)
(* candidates that were considered, which are kept for a shorter time. A   *)
(* search writes its trace inline or leaves it in search_trace_outbox, from *)
(* which the workers store it; the same workers purge what has expired.    *)
(*                                                                         *)
(* Each worker is one loop (run_worker): at most one trace job, then the   *)
(* clean-up if 15 minutes have passed since the last one that succeeded.   *)
(***************************************************************************)
EXTENDS Naturals, FiniteSets

CONSTANTS Traces,     \* trace_id of the searches
          Pollers,    \* worker processes
          NoTrace,    \* no trace
          MaxTraceFaults  \* bound on errors, lost answers, crashes and outrun leases

ASSUME TraceAssumption == NoTrace \notin Traces /\ MaxTraceFaults \in Nat

VARIABLES searched,   \* traces whose search has written, or tried to write, them
          outbox,     \* [Traces -> status of the row of search_trace_outbox]
          due,        \* open rows with available_at <= now
          stored,     \* [Traces -> parts of the trace in its tables]
          past,       \* [Traces -> parts whose expires_at has passed]
          pc,         \* [Pollers -> next step of run_worker]
          job,        \* [Pollers -> trace of the claimed row]
          inserted,   \* workers whose open transaction inserted the header
          sweep,      \* [Pollers -> what had expired when the clean-up read the clock]
          overdue,    \* workers whose last clean-up is 15 minutes ago
          traceFaults \* faults so far

traceVars == <<searched, outbox, due, stored, past, pc, job, inserted, sweep, overdue,
               traceFaults>>

Parts == {"header", "items", "candidates"}
Open == {"PENDING", "FAILED"}
Steps == {"loop", "begun", "rest", "mark_done", "mark_failed", "clock",
          "purge_candidates", "purge_traces"}

(* Types. In the loop a worker has no job.                                 *)
TraceTypeOK ==
  /\ searched \subseteq Traces
  /\ outbox \in [Traces -> Open \cup {"none", "DONE"}]
  /\ due \subseteq Traces
  /\ stored \in [Traces -> SUBSET Parts]
  /\ past \in [Traces -> SUBSET {"header", "candidates"}]
  /\ pc \in [Pollers -> Steps]
  /\ job \in [Pollers -> Traces \cup {NoTrace}]
  /\ inserted \subseteq {p \in Pollers : pc[p] = "rest"}
  /\ sweep \in [Pollers -> [Traces -> SUBSET {"header", "candidates"}]]
  /\ overdue \subseteq Pollers
  /\ traceFaults \in 0..MaxTraceFaults
  /\ \A p \in Pollers : pc[p] \in {"begun", "rest", "mark_done", "mark_failed"} <=> job[p] # NoTrace
  /\ \A t \in due : outbox[t] \in Open

Nothing == [t \in Traces |-> {}]

TraceInit ==
  /\ searched = {}
  /\ outbox = [t \in Traces |-> "none"]
  /\ due = {}
  /\ stored = Nothing
  /\ past = Nothing
  /\ pc = [p \in Pollers |-> "loop"]
  /\ job = [p \in Pollers |-> NoTrace]
  /\ inserted = {}
  /\ sweep = [p \in Pollers |-> Nothing]
  /\ overdue = {}
  /\ traceFaults = 0

Faulty == traceFaults < MaxTraceFaults /\ traceFaults' = traceFaults + 1

-----------------------------------------------------------------------------
(* Searches                                                                *)

(* explain.write_mode = "outbox": the row is due at once.                  *)
enqueue_trace(t) ==
  /\ t \notin searched
  /\ searched' = searched \cup {t}
  /\ outbox' = [outbox EXCEPT ![t] = "PENDING"]
  /\ due' = due \cup {t}
  /\ UNCHANGED <<stored, past, pc, job, inserted, sweep, overdue, traceFaults>>

(* explain.write_mode = "inline": one transaction of the request.          *)
persist_trace_inline(t) ==
  /\ t \notin searched
  /\ searched' = searched \cup {t}
  /\ stored' = [stored EXCEPT ![t] = Parts]
  /\ UNCHANGED <<outbox, due, past, pc, job, inserted, sweep, overdue, traceFaults>>

(* Neither worked. In outbox mode the error is only logged, and the trace_id *)
(* of the response will never name a trace.                                *)
TraceNotWritten(t) ==
  /\ t \notin searched
  /\ searched' = searched \cup {t}
  /\ UNCHANGED <<outbox, due, stored, past, pc, job, inserted, sweep, overdue, traceFaults>>

(* Time: candidates never outlive the trace (candidate_retention_days).    *)
Expire(t, part) ==
  /\ t \in searched
  /\ part \notin past[t]
  /\ part = "header" => "candidates" \in past[t]
  /\ past' = [past EXCEPT ![t] = @ \cup {part}]
  /\ UNCHANGED <<searched, outbox, due, stored, pc, job, inserted, sweep, overdue, traceFaults>>

-----------------------------------------------------------------------------
(* Jobs                                                                    *)

Held(t) == \E p \in Pollers : job[p] = t

(* Slip: a row that failed is not looked at again.                         *)
TraceComesDueIfPending(t) ==
  /\ outbox[t] = "PENDING" /\ t \notin due /\ ~Held(t)
  /\ due' = due \cup {t}
  /\ UNCHANGED <<searched, outbox, stored, past, pc, job, inserted, sweep, overdue, traceFaults>>

(* available_at is reached: a backoff ends, or the lease of a worker that  *)
(* has died.                                                               *)
TraceComesDue(t) ==
  /\ outbox[t] \in Open /\ t \notin due /\ ~Held(t)
  /\ due' = due \cup {t}
  /\ UNCHANGED <<searched, outbox, stored, past, pc, job, inserted, sweep, overdue, traceFaults>>

(* It is reached while a worker still has the job: CLAIM_LEASE_SECONDS     *)
(* were not enough.                                                        *)
LeaseOutrun(t) ==
  /\ outbox[t] \in Open /\ t \notin due /\ Held(t)
  /\ Faulty
  /\ due' = due \cup {t}
  /\ UNCHANGED <<searched, outbox, stored, past, pc, job, inserted, sweep, overdue>>

(* FOR UPDATE SKIP LOCKED, and available_at moves 30 s ahead.              *)
ClaimTrace(p, t) ==
  /\ pc[p] = "loop" /\ t \in due
  /\ due' = due \ {t}
  /\ job' = [job EXCEPT ![p] = t]
  /\ pc' = [pc EXCEPT ![p] = "begun"]
  /\ UNCHANGED <<searched, outbox, stored, past, inserted, sweep, overdue, traceFaults>>

NothingDue(p) ==
  /\ pc[p] = "loop" /\ due = {}
  /\ pc' = [pc EXCEPT ![p] = "clock"]
  /\ UNCHANGED <<searched, outbox, due, stored, past, job, inserted, sweep, overdue, traceFaults>>

(* Slip: the header is inserted on the pool, not in the transaction.       *)
InsertHeaderOnPool(p) ==
  /\ pc[p] = "begun"
  /\ stored' = [stored EXCEPT ![job[p]] = @ \cup {"header"}]
  /\ pc' = [pc EXCEPT ![p] = "rest"]
  /\ UNCHANGED <<searched, outbox, due, past, job, inserted, sweep, overdue, traceFaults>>

(* ON CONFLICT DO NOTHING waits for a header another transaction has not   *)
(* committed yet, and does nothing, without a lock, if there is one.       *)
InsertHeader(p) ==
  /\ pc[p] = "begun"
  /\ \A q \in inserted : job[q] # job[p]
  /\ inserted' = IF "header" \in stored[job[p]] THEN inserted ELSE inserted \cup {p}
  /\ pc' = [pc EXCEPT ![p] = "rest"]
  /\ UNCHANGED <<searched, outbox, due, stored, past, job, sweep, overdue, traceFaults>>

(* Items, stages and candidates that are not there yet, and the commit.    *)
Commit(p) ==
  /\ pc[p] = "rest"
  /\ p \in inserted \/ "header" \in stored[job[p]]
  /\ stored' = [stored EXCEPT ![job[p]] = Parts]
  /\ inserted' = inserted \ {p}
  /\ UNCHANGED <<searched, outbox, due, past, job, sweep, overdue>>

Committed(p) ==
  /\ Commit(p)
  /\ pc' = [pc EXCEPT ![p] = "mark_done"]
  /\ UNCHANGED traceFaults

(* The answer to the commit is lost.                                       *)
CommittedUnheard(p) ==
  /\ Commit(p)
  /\ Faulty
  /\ pc' = [pc EXCEPT ![p] = "mark_failed"]

(* The header that was there has been purged: the items violate their      *)
(* foreign key.                                                            *)
HeaderPurged(p) ==
  /\ pc[p] = "rest" /\ p \notin inserted /\ "header" \notin stored[job[p]]
  /\ pc' = [pc EXCEPT ![p] = "mark_failed"]
  /\ UNCHANGED <<searched, outbox, due, stored, past, job, inserted, sweep, overdue, traceFaults>>

(* A statement fails and the transaction is rolled back.                   *)
StatementFails(p) ==
  /\ pc[p] \in {"begun", "rest"}
  /\ Faulty
  /\ inserted' = inserted \ {p}
  /\ pc' = [pc EXCEPT ![p] = "mark_failed"]
  /\ UNCHANGED <<searched, outbox, due, stored, past, job, sweep, overdue>>

AfterJob(p) ==
  /\ job' = [job EXCEPT ![p] = NoTrace]
  /\ pc' = [pc EXCEPT ![p] = "clock"]
  /\ UNCHANGED <<searched, stored, past, inserted, sweep, overdue>>

(* Both marks go by outbox_id alone: the lease may have passed to another  *)
(* worker, and the row may be DONE.                                        *)
MarkTraceDone(p) ==
  /\ pc[p] = "mark_done"
  /\ outbox' = [outbox EXCEPT ![job[p]] = "DONE"]
  /\ due' = due \ {job[p]}
  /\ AfterJob(p)
  /\ UNCHANGED traceFaults

MarkTraceFailed(p) ==
  /\ pc[p] = "mark_failed"
  /\ outbox' = [outbox EXCEPT ![job[p]] = "FAILED"]
  /\ due' = due \ {job[p]}
  /\ AfterJob(p)
  /\ UNCHANGED traceFaults

(* The mark fails; run_worker logs the error and goes on.                  *)
MarkFails(p) ==
  /\ pc[p] \in {"mark_done", "mark_failed"}
  /\ Faulty
  /\ AfterJob(p)
  /\ UNCHANGED <<outbox, due>>

-----------------------------------------------------------------------------
(* Clean-up                                                                *)

(* The clock is read once for the whole clean-up.                          *)
ReadClock(p) ==
  /\ pc[p] = "clock"
  /\ IF p \in overdue
       THEN /\ pc' = [pc EXCEPT ![p] = "purge_candidates"]
            /\ sweep' = [sweep EXCEPT ![p] = past]
       ELSE /\ pc' = [pc EXCEPT ![p] = "loop"]
            /\ UNCHANGED sweep
  /\ UNCHANGED <<searched, outbox, due, stored, past, job, inserted, overdue, traceFaults>>

purge_expired_trace_candidates(p) ==
  /\ pc[p] = "purge_candidates"
  /\ pc' = [pc EXCEPT ![p] = "purge_traces"]
  /\ stored' = [t \in Traces |->
                  IF "candidates" \in sweep[p][t] THEN stored[t] \ {"candidates"} ELSE stored[t]]
  /\ UNCHANGED <<searched, outbox, due, past, job, inserted, sweep, overdue, traceFaults>>

(* ON DELETE CASCADE takes the items, stages and candidates along. Only    *)
(* this purge sets last_trace_cleanup.                                     *)
purge_expired_traces(p) ==
  /\ pc[p] = "purge_traces"
  /\ pc' = [pc EXCEPT ![p] = "loop"]
  /\ stored' = [t \in Traces |-> IF "header" \in sweep[p][t] THEN {} ELSE stored[t]]
  /\ sweep' = [sweep EXCEPT ![p] = Nothing]
  /\ overdue' = overdue \ {p}
  /\ UNCHANGED <<searched, outbox, due, past, job, inserted, traceFaults>>

(* A purge fails: the clean-up goes on, and starts over in the next round  *)
(* if it was the purge of the traces.                                      *)
PurgeFails(p) ==
  /\ pc[p] \in {"purge_candidates", "purge_traces"}
  /\ Faulty
  /\ pc' = [pc EXCEPT ![p] = IF @ = "purge_candidates" THEN "purge_traces" ELSE "loop"]
  /\ sweep' = IF pc[p] = "purge_traces" THEN [sweep EXCEPT ![p] = Nothing] ELSE sweep
  /\ UNCHANGED <<searched, outbox, due, stored, past, job, inserted, overdue>>

(* TRACE_CLEANUP_INTERVAL_SECONDS have passed.                             *)
IntervalPasses(p) ==
  /\ p \notin overdue
  /\ overdue' = overdue \cup {p}
  /\ UNCHANGED <<searched, outbox, due, stored, past, pc, job, inserted, sweep, traceFaults>>

(* The process dies; a new one counts the 15 minutes from its start.       *)
CrashPoller(p) ==
  /\ Faulty
  /\ pc' = [pc EXCEPT ![p] = "loop"]
  /\ job' = [job EXCEPT ![p] = NoTrace]
  /\ inserted' = inserted \ {p}
  /\ sweep' = [sweep EXCEPT ![p] = Nothing]
  /\ overdue' = overdue \ {p}
  /\ UNCHANGED <<searched, outbox, due, stored, past>>

-----------------------------------------------------------------------------
PollerStep(p) ==
  \/ \E t \in Traces : ClaimTrace(p, t)
  \/ NothingDue(p)
  \/ InsertHeader(p)
  \/ Committed(p)
  \/ HeaderPurged(p)
  \/ MarkTraceDone(p)
  \/ MarkTraceFailed(p)
  \/ ReadClock(p)
  \/ purge_expired_trace_candidates(p)
  \/ purge_expired_traces(p)

PollerFault(p) ==
  \/ CommittedUnheard(p)
  \/ StatementFails(p)
  \/ MarkFails(p)
  \/ PurgeFails(p)
  \/ CrashPoller(p)

SearchStep(t) ==
  \/ enqueue_trace(t)
  \/ persist_trace_inline(t)
  \/ TraceNotWritten(t)
  \/ \E part \in {"header", "candidates"} : Expire(t, part)

TraceNext ==
  \/ \E t \in Traces : SearchStep(t) \/ TraceComesDue(t) \/ LeaseOutrun(t)
  \/ \E p \in Pollers : PollerStep(p) \/ PollerFault(p) \/ IntervalPasses(p)

TraceSpec == TraceInit /\ [][TraceNext]_traceVars

-----------------------------------------------------------------------------
(* A trace that can be read is whole: it has its items, and its candidates *)
(* as long as they have not expired; and a DONE row stands for a trace that *)
(* can be read unless it has expired. Retries of a job that took effect,   *)
(* a second worker after the lease, and purges in between must not leave a *)
(* part of a trace (handle_trace_job, purge_expired_traces).               *)
WholeTraces ==
  \A t \in Traces :
    /\ stored[t] # {} => /\ {"header", "items"} \subseteq stored[t]
                         /\ "candidates" \in stored[t] \cup past[t]
    /\ outbox[t] = "DONE" => stored[t] # {} \/ "header" \in past[t]

(* Once the faults have ended every trace that was enqueued is stored or   *)
(* expired, its row is DONE, and nothing that has expired is left          *)
(* (run_worker: failed jobs come back, and so does the clean-up).          *)
TracesSettle ==
  <>[](\A t \in Traces : /\ outbox[t] \in {"none", "DONE"}
                         /\ stored[t] \cap past[t] = {}
                         /\ "header" \in past[t] => stored[t] = {})
=============================================================================
