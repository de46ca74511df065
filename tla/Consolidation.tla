---------------------------- MODULE Consolidation ----------------------------
(***************************************************************************)
(* Consolidation runs: the API registers a run with a queued job, the      *)
(* worker materializes the proposals of its payload, and reviewers move    *)
(* each proposal through its lifecycle until it is applied to memory.      *)
(*                                                                         *)
(* handle_consolidation_job reads the state of the run before it opens the *)
(* transaction that writes the proposals, the run state and the job, so    *)
(* reading and writing are two actions.  A review locks its proposal row   *)
(* and is one transaction, hence one action.                               *)
(***************************************************************************)
EXTENDS Naturals, Sequences, FiniteSets

CONSTANTS
    Runs,         \* run_id of the runs that may be created, one job each
    Contracts,    \* the proposal contracts of a payload
    Promoting,    \* those whose apply_intent creates or updates a note
    Workers,      \* elf-worker processes that poll the job queue
    NoRun,        \* what a worker without a job holds
    MaxCopies,    \* bound on the materializations of one run
    MaxFaults     \* bound on errors, lost answers and crashes of workers

ASSUME ConsolidationAssumption ==
    /\ Promoting \subseteq Contracts
    /\ NoRun \notin Runs
    /\ MaxCopies \in Nat
    /\ MaxFaults \in Nat

VARIABLES
    run,          \* consolidation_runs.status as committed
    job,          \* consolidation_run_jobs.status
    due,          \* jobs whose available_at has passed
    pc,           \* what each worker does next
    held,         \* the run whose job each worker handles
    seen,         \* the run state the handler has read
    copies,       \* how many times the payload of a run was inserted
    review,       \* consolidation_proposals.review_state, row by row
    trail,        \* consolidation_proposal_reviews, row by row
    promoted,     \* note writes that applying a contract of a run has caused
    faults        \* errors, lost answers and crashes so far

workVars   == <<pc, held, seen, faults>>
reviewVars == <<review, trail, promoted>>
vars == <<run, job, due, pc, held, seen, copies, review, trail, promoted, faults>>

RunState     == {"none", "pending", "running", "completed"}
JobStatus    == {"none", "PENDING", "CLAIMED", "FAILED", "DONE"}
Steps        == {"idle", "read", "write", "failed"}
ReviewState  == {"none", "proposed", "approved", "rejected", "applied", "archived"}
ReviewAction == {"approve", "apply", "discard", "defer"}
Rows         == Runs \X Contracts \X (1 .. MaxCopies)

TypeOK ==
    /\ run \in [Runs -> RunState]
    /\ job \in [Runs -> JobStatus]
    /\ due \subseteq Runs
    /\ pc \in [Workers -> Steps]
    /\ held \in [Workers -> Runs \cup {NoRun}]
    /\ \A w \in Workers : held[w] = NoRun <=> pc[w] = "idle"
    /\ seen \in [Workers -> RunState]
    /\ copies \in [Runs -> 0 .. MaxCopies]
    /\ review \in [Rows -> ReviewState]
    /\ trail \in [Rows -> Seq([from : ReviewState, to : ReviewState])]
    /\ promoted \in [Runs \X Contracts -> Nat]
    /\ faults \in 0 .. MaxFaults

Init ==
    /\ run = [r \in Runs |-> "none"]
    /\ job = [r \in Runs |-> "none"]
    /\ due = {}
    /\ pc = [w \in Workers |-> "idle"]
    /\ held = [w \in Workers |-> NoRun]
    /\ seen = [w \in Workers |-> "none"]
    /\ copies = [r \in Runs |-> 0]
    /\ review = [p \in Rows |-> "none"]
    /\ trail = [p \in Rows |-> <<>>]
    /\ promoted = [rc \in Runs \X Contracts |-> 0]
    /\ faults = 0

-----------------------------------------------------------------------------
(* The job queue.                                                          *)

(* The run and its job are inserted in one transaction. *)
consolidation_run_create(r) ==
    /\ run[r] = "none"
    /\ run' = [run EXCEPT ![r] = "pending"]
    /\ job' = [job EXCEPT ![r] = "PENDING"]
    /\ due' = due \cup {r}
    /\ UNCHANGED copies
    /\ UNCHANGED workVars /\ UNCHANGED reviewVars

(* Slip: a row that was claimed once is never looked at again. *)
ClaimableOnce == {"PENDING", "FAILED"}

(* Open rows are claimable again once their lease or backoff runs out.     *)
Claimable == {"PENDING", "FAILED", "CLAIMED"}

(* claim_next_consolidation_run_job: status and lease in one transaction.  *)
Claim(w, r) ==
    /\ pc[w] = "idle"
    /\ r \in due
    /\ job[r] \in Claimable
    /\ job' = [job EXCEPT ![r] = "CLAIMED"]
    /\ due' = due \ {r}
    /\ pc' = [pc EXCEPT ![w] = "read"]
    /\ held' = [held EXCEPT ![w] = r]
    /\ UNCHANGED <<run, copies, seen, faults>>
    /\ UNCHANGED reviewVars

ComesDue(r) ==
    /\ job[r] \in Claimable
    /\ r \notin due
    /\ due' = due \cup {r}
    /\ UNCHANGED <<run, job, copies>>
    /\ UNCHANGED workVars /\ UNCHANGED reviewVars

(* get_consolidation_run, on the pool and without a lock. *)
ReadRun(w) ==
    /\ pc[w] = "read"
    /\ pc' = [pc EXCEPT ![w] = "write"]
    /\ seen' = [seen EXCEPT ![w] = run[held[w]]]
    /\ UNCHANGED <<run, job, due, held, copies, faults>>
    /\ UNCHANGED reviewVars

Release(w) ==
    /\ pc' = [pc EXCEPT ![w] = "idle"]
    /\ held' = [held EXCEPT ![w] = NoRun]
    /\ seen' = [seen EXCEPT ![w] = "none"]

(* The answer to the commit arrives, or is lost and read as an error.      *)
Answered(w) ==
    \/ Release(w) /\ UNCHANGED faults
    \/ /\ faults < MaxFaults
       /\ faults' = faults + 1
       /\ pc' = [pc EXCEPT ![w] = "failed"]
       /\ UNCHANGED <<held, seen>>

(* insert_consolidation_proposal for every contract of the payload, and    *)
(* the run from pending through running to completed: the update of the    *)
(* run state does not look at the state it replaces.                       *)
InsertProposals(r) ==
    /\ copies[r] < MaxCopies
    /\ copies' = [copies EXCEPT ![r] = @ + 1]
    /\ review' = [p \in Rows |-> IF p[1] = r /\ p[3] = copies[r] + 1
                                 THEN "proposed" ELSE review[p]]
    /\ run' = [run EXCEPT ![r] = "completed"]
    /\ UNCHANGED <<trail, promoted>>

(* Slip: a retried job inserts its payload whatever became of the run. *)
WriteRunAgain(w) ==
    /\ pc[w] = "write"
    /\ InsertProposals(held[w])
    /\ job' = [job EXCEPT ![held[w]] = "DONE"]
    /\ Answered(w)
    /\ UNCHANGED due

(* The transaction of handle_consolidation_job, decided by the state that  *)
(* was read before it began.                                               *)
WriteRun(w) ==
    /\ pc[w] = "write"
    /\ IF seen[w] \in {"pending", "running"}
       THEN InsertProposals(held[w])
       ELSE UNCHANGED <<run, copies>> /\ UNCHANGED reviewVars
    /\ job' = [job EXCEPT ![held[w]] = "DONE"]
    /\ Answered(w)
    /\ UNCHANGED due

(* Any statement before the commit may fail; the transaction rolls back.   *)
Fail(w) ==
    /\ pc[w] \in {"read", "write"}
    /\ faults < MaxFaults
    /\ faults' = faults + 1
    /\ pc' = [pc EXCEPT ![w] = "failed"]
    /\ UNCHANGED <<run, job, due, held, seen, copies>>
    /\ UNCHANGED reviewVars

(* Slip: the worker does not let go of the job it failed. *)
MarkFailedKeeping(w) ==
    /\ pc[w] = "failed"
    /\ job' = [job EXCEPT ![held[w]] = "FAILED"]
    /\ due' = due \ {held[w]}
    /\ pc' = [pc EXCEPT ![w] = "idle"]
    /\ UNCHANGED <<run, copies, faults, held, seen>>
    /\ UNCHANGED reviewVars

(* mark_consolidation_run_job_failed: by job_id alone, DONE rows as well.  *)
MarkFailed(w) ==
    /\ pc[w] = "failed"
    /\ job' = [job EXCEPT ![held[w]] = "FAILED"]
    /\ due' = due \ {held[w]}
    /\ Release(w)
    /\ UNCHANGED <<run, copies, faults>>
    /\ UNCHANGED reviewVars

(* The process dies, or marking the job fails and run_worker only logs it. *)
Crash(w) ==
    /\ pc[w] # "idle"
    /\ faults < MaxFaults
    /\ faults' = faults + 1
    /\ Release(w)
    /\ UNCHANGED <<run, job, due, copies>>
    /\ UNCHANGED reviewVars

-----------------------------------------------------------------------------
(* Reviews.                                                                *)

(* ConsolidationReviewState::validate_transition *)
Allowed == {<<"proposed", "approved">>, <<"proposed", "rejected">>, <<"proposed", "archived">>,
            <<"approved", "applied">>, <<"approved", "rejected">>, <<"approved", "archived">>}

(* The states a review action leads through: apply approves on the way.    *)
review_steps(current, action) ==
    CASE action = "approve" -> <<"approved">>
      [] action = "apply"   -> IF current = "proposed" THEN <<"approved", "applied">>
                                                       ELSE <<"applied">>
      [] action = "discard" -> <<"rejected">>
      [] action = "defer"   -> <<"archived">>

Transitions(current, steps) ==
    [i \in 1 .. Len(steps) |->
        [from |-> IF i = 1 THEN current ELSE steps[i - 1], to |-> steps[i]]]

(* Slip: the audit keeps one event per request. *)
ReviewProposalOneEvent(p, action) ==
    LET steps == review_steps(review[p], action)
        path  == Transitions(review[p], steps)
    IN  /\ review[p] # "none"
        /\ \A i \in 1 .. Len(path) : <<path[i].from, path[i].to>> \in Allowed
        /\ review' = [review EXCEPT ![p] = steps[Len(steps)]]
        /\ trail' = [trail EXCEPT ![p] = Append(@, path[Len(path)])]
        /\ promoted' = IF action = "apply" /\ p[2] \in Promoting
                       THEN [promoted EXCEPT ![<<p[1], p[2]>>] = @ + 1] ELSE promoted
        /\ UNCHANGED <<run, job, due, copies>>
        /\ UNCHANGED workVars

(* Slip: apply does not validate the transition. *)
ReviewProposalUnvalidated(p, action) ==
    LET steps == review_steps(review[p], action)
        path  == Transitions(review[p], steps)
    IN  /\ review[p] # "none"
        /\ promoted[<<p[1], p[2]>>] < 2
        /\ action = "apply" \/ \A i \in 1 .. Len(path) : <<path[i].from, path[i].to>> \in Allowed
        /\ review' = [review EXCEPT ![p] = steps[Len(steps)]]
        /\ trail' = [trail EXCEPT ![p] = @ \o path]
        /\ promoted' = IF action = "apply" /\ p[2] \in Promoting
                       THEN [promoted EXCEPT ![<<p[1], p[2]>>] = @ + 1] ELSE promoted
        /\ UNCHANGED <<run, job, due, copies>>
        /\ UNCHANGED workVars

(* consolidation_proposal_review: every transition is validated before the *)
(* first is written, each writes one audit event, and apply creates or     *)
(* updates a note in the same transaction.  A refused action changes       *)
(* nothing.                                                                *)
ReviewProposal(p, action) ==
    LET steps == review_steps(review[p], action)
        path  == Transitions(review[p], steps)
    IN  /\ review[p] # "none"
        /\ \A i \in 1 .. Len(path) : <<path[i].from, path[i].to>> \in Allowed
        /\ review' = [review EXCEPT ![p] = steps[Len(steps)]]
        /\ trail' = [trail EXCEPT ![p] = @ \o path]
        /\ promoted' = IF action = "apply" /\ p[2] \in Promoting
                       THEN [promoted EXCEPT ![<<p[1], p[2]>>] = @ + 1] ELSE promoted
        /\ UNCHANGED <<run, job, due, copies>>
        /\ UNCHANGED workVars

-----------------------------------------------------------------------------
WorkerStep(w) ==
    \/ \E r \in Runs : Claim(w, r)
    \/ ReadRun(w)
    \/ WriteRun(w)
    \/ MarkFailed(w)

(* Everything but the passing of leases and backoffs. *)
Operate ==
    \/ \E r \in Runs : consolidation_run_create(r)
    \/ \E w \in Workers : WorkerStep(w) \/ Fail(w) \/ Crash(w)
    \/ \E p \in Rows, action \in ReviewAction : ReviewProposal(p, action)

Next == Operate \/ \E r \in Runs : ComesDue(r)

Spec == Init /\ [][Next]_vars

(* No handler outlives its lease: 60 s for a few Postgres statements.      *)
WithinLease(r) == \A w \in Workers : held[w] # r

LeasedSpec == Init /\ [][Operate \/ \E r \in Runs : WithinLease(r) /\ ComesDue(r)]_vars

(* run_worker polls for ever and time passes; nothing is assumed of        *)
(* reviewers or of faults.                                                 *)
FairSpec ==
    /\ Spec
    /\ \A w \in Workers : WF_vars(WorkerStep(w))
    /\ \A r \in Runs : WF_vars(ComesDue(r))

-----------------------------------------------------------------------------
(* Properties.                                                             *)

(* The payload of a run is inserted exactly once, together with the run's  *)
(* completion: no retry after a lost commit answer, a crash or a late      *)
(* mark_failed of a DONE job inserts it again.                             *)
MaterializedOnce ==
    \A r \in Runs : copies[r] = IF run[r] = "completed" THEN 1 ELSE 0

(* A contract of a run is written to memory at most once, whatever retries *)
(* materialized it and however reviewers approve, apply, discard and defer *)
(* its rows; and if it was, one of its rows is applied.                    *)
PromotedOnce ==
    \A r \in Runs, c \in Contracts :
        /\ promoted[<<r, c>>] <= 1
        /\ promoted[<<r, c>>] = 1 =>
              \E k \in 1 .. MaxCopies : review[<<r, c, k>>] = "applied"

(* The review events of a proposal lead, one allowed transition after the  *)
(* other, from proposed to its review state.                               *)
AuditTrail ==
    \A p \in Rows : review[p] # "none" =>
        LET path == <<[from |-> "none", to |-> "proposed"]>> \o trail[p]
        IN  /\ path[Len(path)].to = review[p]
            /\ \A i \in 2 .. Len(path) : /\ path[i].from = path[i - 1].to
                                         /\ <<path[i].from, path[i].to>> \in Allowed

(* One elf-worker polls the queue. *)
SingleWorker == \A v, w \in Workers : v = w

(* What makes MaterializedOnce inductive for one worker: the state it has  *)
(* read is still the state of the run when it writes.                      *)
ReadStillHolds ==
    \A w \in Workers : pc[w] = "write" => seen[w] = run[held[w]] /\ seen[w] # "none"

(* No two workers handle the job of one run, and none is handed out while a *)
(* worker within its lease still handles it.                               *)
Alone == \A v, w \in Workers : held[v] = held[w] /\ held[v] \in Runs => v = w

LeasesHold == Alone /\ \A w \in Workers : held[w] \notin due

RunInv ==
    /\ \A w \in Workers : held[w] \in Runs => run[held[w]] # "none"
    /\ \A r \in Runs : run[r] = "none" => job[r] = "none" /\ r \notin due
    /\ ReadStillHolds
    /\ MaterializedOnce

(* Every registered run completes and its job is closed in the end: a job  *)
(* that fails, crashes or is reopened by a late mark_failed is retried.    *)
EveryRunCompletes ==
    \A r \in Runs : run[r] # "none" ~> (run[r] = "completed" /\ job[r] = "DONE")

(* Workers that outlive their leases insert the payload of a run once each *)
(* at the most: whoever reads the run after the first commit sees it       *)
(* completed.                                                              *)
OneCopyPerWorker == \A r \in Runs : copies[r] <= Cardinality(Workers)

(* Even when workers outlive their leases and a payload is inserted twice, *)
(* a decided proposal row keeps its decision.                              *)
DecisionsAreFinal ==
    [][\A p \in Rows : review[p] \in {"rejected", "applied", "archived"}
                          => review'[p] = review[p] /\ trail'[p] = trail[p]]_vars
=============================================================================
