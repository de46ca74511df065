------------------------- MODULE ConsolidationProofs -------------------------
(***************************************************************************)
(* What Consolidation guarantees for every set of runs, contracts and      *)
(* workers and for every bound.  The review lifecycle needs no assumption; *)
(* that a run is materialized once rests on a worker being alone with its  *)
(* job, because there is one worker or because leases hold.                *)
(***************************************************************************)
EXTENDS Consolidation, SequenceTheorems, FiniteSetTheorems, TLAPS

Transition == [from : ReviewState, to : ReviewState]

(* The transitions of a request form a path that starts where it started.  *)
LEMMA TransitionsTyped ==
    ASSUME NEW current \in ReviewState, NEW steps \in Seq(ReviewState), Len(steps) \in {1, 2},
           NEW path, path = Transitions(current, steps)
    PROVE  /\ path \in Seq(Transition)
           /\ Len(path) = Len(steps)
           /\ path[1] = [from |-> current, to |-> steps[1]]
           /\ Len(path) = 2 => path[2] = [from |-> steps[1], to |-> steps[2]]
  <1>1. CASE Len(steps) = 1
    <2>1. path = [i \in 1 .. 1 |-> [from |-> current, to |-> steps[1]]]
      BY <1>1 DEF Transitions
    <2>2. [from |-> current, to |-> steps[1]] \in Transition
      BY <1>1 DEF Transition
    <2>. QED  BY <1>1, <2>1, <2>2
  <1>2. CASE Len(steps) = 2
    <2>1. path = [i \in 1 .. 2 |-> IF i = 1 THEN [from |-> current, to |-> steps[1]]
                                             ELSE [from |-> steps[1], to |-> steps[2]]]
      BY <1>2 DEF Transitions
    <2>2. steps[1] \in ReviewState /\ steps[2] \in ReviewState
      BY <1>2
    <2>3. /\ [from |-> current, to |-> steps[1]] \in Transition
          /\ [from |-> steps[1], to |-> steps[2]] \in Transition
      BY <2>2 DEF Transition
    <2>. QED  BY <1>2, <2>1, <2>3
  <1>. QED  BY <1>1, <1>2

(* The states a review action leads through. *)
LEMMA StepsTyped ==
    ASSUME NEW current \in ReviewState, NEW action \in ReviewAction,
           NEW steps, steps = review_steps(current, action)
    PROVE  steps \in Seq(ReviewState) /\ Len(steps) \in {1, 2}
  <1>1. steps \in {<<"approved">>, <<"approved", "applied">>, <<"applied">>, <<"rejected">>,
                   <<"archived">>}
    <2>1. CASE action = "approve"
      BY <2>1 DEF review_steps
    <2>2. CASE action = "apply"
      BY <2>2 DEF review_steps
    <2>3. CASE action = "discard"
      BY <2>3 DEF review_steps
    <2>4. CASE action = "defer"
      BY <2>4 DEF review_steps
    <2>. QED  BY <2>1, <2>2, <2>3, <2>4 DEF ReviewAction
  <1>2. \A x \in ReviewState : <<x>> \in Seq(ReviewState) /\ Len(<<x>>) = 1
    OBVIOUS
  <1>3. \A x, y \in ReviewState : <<x, y>> \in Seq(ReviewState) /\ Len(<<x, y>>) = 2
    OBVIOUS
  <1>. QED  BY <1>1, <1>2, <1>3 DEF ReviewState

(* A review, said with the path it takes. *)
LEMMA ReviewPath ==
    ASSUME TypeOK, NEW p \in Rows, NEW action \in ReviewAction, ReviewProposal(p, action)
    PROVE  \E path \in Seq(Transition) :
              /\ Len(path) \in {1, 2}
              /\ path[1].from = review[p]
              /\ Len(path) = 2 => path[2].from = path[1].to
              /\ \A i \in 1 .. Len(path) : <<path[i].from, path[i].to>> \in Allowed
              /\ review[p] # "none"
              /\ review' = [review EXCEPT ![p] = path[Len(path)].to]
              /\ trail' = [trail EXCEPT ![p] = @ \o path]
  <1>1. PICK steps : steps = review_steps(review[p], action)
    OBVIOUS
  <1>2. PICK path : path = Transitions(review[p], steps)
    OBVIOUS
  <1>3. review[p] \in ReviewState
    BY DEF TypeOK
  <1>4. steps \in Seq(ReviewState) /\ Len(steps) \in {1, 2}
    BY <1>1, <1>3, StepsTyped
  <1>5. /\ path \in Seq(Transition)
        /\ Len(path) = Len(steps)
        /\ path[1] = [from |-> review[p], to |-> steps[1]]
        /\ Len(path) = 2 => path[2] = [from |-> steps[1], to |-> steps[2]]
    BY <1>2, <1>3, <1>4, TransitionsTyped
  <1>6. /\ \A i \in 1 .. Len(path) : <<path[i].from, path[i].to>> \in Allowed
        /\ review[p] # "none"
        /\ review' = [review EXCEPT ![p] = steps[Len(steps)]]
        /\ trail' = [trail EXCEPT ![p] = @ \o path]
    BY <1>1, <1>2 DEF ReviewProposal
  <1>7. path[Len(path)].to = steps[Len(steps)]
    <2>1. CASE Len(path) = 1
      BY <1>5, <2>1
    <2>2. CASE Len(path) = 2
      BY <1>5, <2>2
    <2>. QED  BY <1>4, <1>5, <2>1, <2>2
  <1>8. path[1].from = review[p] /\ (Len(path) = 2 => path[2].from = path[1].to)
    BY <1>5
  <1>9. review' = [review EXCEPT ![p] = path[Len(path)].to] /\ Len(path) \in {1, 2}
    BY <1>4, <1>5, <1>6, <1>7
  <1>. QED  BY <1>5, <1>6, <1>8, <1>9

(* The parts of a state that a worker step types. *)
LEMMA ReleaseTyped ==
    ASSUME TypeOK, NEW w \in Workers, Release(w)
    PROVE  /\ pc' \in [Workers -> Steps]
           /\ held' \in [Workers -> Runs \cup {NoRun}]
           /\ seen' \in [Workers -> RunState]
           /\ \A v \in Workers : held'[v] = NoRun <=> pc'[v] = "idle"
  BY DEF TypeOK, Release, Steps, RunState

LEMMA InsertTyped ==
    ASSUME TypeOK, NEW r \in Runs, InsertProposals(r)
    PROVE  /\ run' \in [Runs -> RunState]
           /\ copies' \in [Runs -> 0 .. MaxCopies]
           /\ review' \in [Rows -> ReviewState]
           /\ trail' \in [Rows -> Seq(Transition)]
           /\ promoted' \in [Runs \X Contracts -> Nat]
  BY ConsolidationAssumption
     DEF TypeOK, InsertProposals, RunState, ReviewState, Transition

LEMMA ReviewTyped ==
    ASSUME TypeOK, NEW p \in Rows, NEW action \in ReviewAction, ReviewProposal(p, action)
    PROVE  /\ review' \in [Rows -> ReviewState]
           /\ trail' \in [Rows -> Seq(Transition)]
           /\ promoted' \in [Runs \X Contracts -> Nat]
  <1>1. PICK path \in Seq(Transition) :
           /\ Len(path) \in {1, 2}
           /\ review' = [review EXCEPT ![p] = path[Len(path)].to]
           /\ trail' = [trail EXCEPT ![p] = @ \o path]
    BY ReviewPath
  <1>2. path[Len(path)] \in Transition
    <2>1. Len(path) \in {1, 2}
      BY <1>1, Zenon
    <2>2. Len(path) \in 1 .. Len(path)
      BY <2>1
    <2>. QED  BY <2>2
  <1>3. review' \in [Rows -> ReviewState]
    BY <1>1, <1>2 DEF TypeOK, Transition
  <1>4. trail \in [Rows -> Seq(Transition)]
    BY DEF TypeOK, Transition
  <1>5. trail[p] \o path \in Seq(Transition)
    BY <1>4
  <1>6. trail' \in [Rows -> Seq(Transition)]
    BY <1>1, <1>4, <1>5
  <1>7. promoted' = promoted \/ promoted' = [promoted EXCEPT ![<<p[1], p[2]>>] = @ + 1]
    BY DEF ReviewProposal
  <1>8. promoted' \in [Runs \X Contracts -> Nat]
    <2>1. PICK rc \in Runs \X Contracts : rc = <<p[1], p[2]>>
      BY DEF Rows
    <2>2. promoted \in [Runs \X Contracts -> Nat] /\ promoted[rc] + 1 \in Nat
      BY DEF TypeOK
    <2>3. promoted' = promoted \/ promoted' = [promoted EXCEPT ![rc] = promoted[rc] + 1]
      BY <1>7, <2>1, Zenon
    <2>. QED  BY <2>2, <2>3
  <1>. QED  BY <1>3, <1>6, <1>8

LEMMA TypeStep == TypeOK /\ [Next]_vars => TypeOK'
  <1>. SUFFICES ASSUME TypeOK, [Next]_vars PROVE TypeOK'
    OBVIOUS
  <1>. USE ConsolidationAssumption
  <1>1. ASSUME NEW r \in Runs, consolidation_run_create(r) PROVE TypeOK'
    BY <1>1 DEF TypeOK, consolidation_run_create, RunState, JobStatus, workVars, reviewVars
  <1>2. ASSUME NEW w \in Workers, NEW r \in Runs, Claim(w, r) PROVE TypeOK'
    BY <1>2 DEF TypeOK, Claim, JobStatus, Steps, reviewVars
  <1>3. ASSUME NEW w \in Workers, ReadRun(w) PROVE TypeOK'
    <2>1. held[w] \in Runs
      BY <1>3 DEF TypeOK, ReadRun
    <2>. QED  BY <1>3, <2>1 DEF TypeOK, ReadRun, Steps, reviewVars
  <1>4. ASSUME NEW w \in Workers, WriteRun(w) PROVE TypeOK'
    <2>1. held[w] \in Runs
      BY <1>4 DEF TypeOK, WriteRun
    <2>2. /\ run' \in [Runs -> RunState]
          /\ copies' \in [Runs -> 0 .. MaxCopies]
          /\ review' \in [Rows -> ReviewState]
          /\ trail' \in [Rows -> Seq(Transition)]
          /\ promoted' \in [Runs \X Contracts -> Nat]
      BY <1>4, <2>1, InsertTyped DEF WriteRun, TypeOK, reviewVars, Transition
    <2>3. job' \in [Runs -> JobStatus] /\ due' \subseteq Runs
      BY <1>4, <2>1 DEF WriteRun, TypeOK, JobStatus
    <2>4. /\ pc' \in [Workers -> Steps]
          /\ held' \in [Workers -> Runs \cup {NoRun}]
          /\ seen' \in [Workers -> RunState]
          /\ \A v \in Workers : held'[v] = NoRun <=> pc'[v] = "idle"
          /\ faults' \in 0 .. MaxFaults
      <3>1. CASE Release(w) /\ UNCHANGED faults
        BY <3>1, ReleaseTyped DEF TypeOK
      <3>2. CASE /\ faults < MaxFaults /\ faults' = faults + 1
                 /\ pc' = [pc EXCEPT ![w] = "failed"] /\ UNCHANGED <<held, seen>>
        BY <2>1, <3>2 DEF TypeOK, Steps
      <3>. QED  BY <1>4, <3>1, <3>2 DEF WriteRun, Answered
    <2>. QED  BY <2>2, <2>3, <2>4 DEF TypeOK, Transition
  <1>5. ASSUME NEW w \in Workers, Fail(w) PROVE TypeOK'
    <2>1. /\ pc' \in [Workers -> Steps] /\ pc'[w] = "failed"
          /\ \A v \in Workers \ {w} : pc'[v] = pc[v]
          /\ faults' \in 0 .. MaxFaults
          /\ held[w] # NoRun
      BY <1>5 DEF TypeOK, Fail, Steps
    <2>2. \A v \in Workers : held[v] = NoRun <=> pc'[v] = "idle"
      BY <2>1 DEF TypeOK
    <2>. QED  BY <1>5, <2>1, <2>2 DEF TypeOK, Fail, reviewVars
  <1>6. ASSUME NEW w \in Workers, MarkFailed(w) PROVE TypeOK'
    <2>1. held[w] \in Runs
      BY <1>6 DEF TypeOK, MarkFailed
    <2>. QED  BY <1>6, <2>1, ReleaseTyped DEF TypeOK, MarkFailed, JobStatus, reviewVars
  <1>7. ASSUME NEW w \in Workers, Crash(w) PROVE TypeOK'
    <2>1. faults' \in 0 .. MaxFaults
      BY <1>7 DEF TypeOK, Crash
    <2>. QED  BY <1>7, <2>1, ReleaseTyped DEF TypeOK, Crash, reviewVars
  <1>8. ASSUME NEW p \in Rows, NEW action \in ReviewAction, ReviewProposal(p, action)
        PROVE  TypeOK'
    BY <1>8, ReviewTyped DEF TypeOK, ReviewProposal, Transition, workVars
  <1>9. ASSUME NEW r \in Runs, ComesDue(r) PROVE TypeOK'
    BY <1>9 DEF TypeOK, ComesDue, workVars, reviewVars
  <1>10. CASE UNCHANGED vars
    BY <1>10 DEF TypeOK, vars
  <1>. QED
    BY <1>1, <1>2, <1>3, <1>4, <1>5, <1>6, <1>7, <1>8, <1>9, <1>10 DEF Next, Operate, WorkerStep

LEMMA InitTyped == Init => TypeOK
  BY ConsolidationAssumption
     DEF Init, TypeOK, RunState, JobStatus, Steps, ReviewState

(* Type correctness, whatever workers and leases do. *)
THEOREM TypeCorrect == Spec => []TypeOK
  BY InitTyped, TypeStep, PTL DEF Spec

-----------------------------------------------------------------------------
(* The proposal rows of a run exist exactly for its materializations, and a *)
(* row that does not exist has no review events.                           *)
RowsExist ==
    \A p \in Rows : /\ review[p] = "none" <=> p[3] > copies[p[1]]
                    /\ review[p] = "none" => trail[p] = <<>>

(* Only a proposal that is proposed or approved can be reviewed. *)
LEMMA ReviewedUndecided ==
    ASSUME TypeOK, NEW p \in Rows, NEW action \in ReviewAction, ReviewProposal(p, action)
    PROVE  /\ review[p] \in {"proposed", "approved"}
           /\ review'[p] # "none"
           /\ \A q \in Rows : q # p => review'[q] = review[q] /\ trail'[q] = trail[q]
           /\ UNCHANGED copies
  <1>1. PICK path \in Seq(Transition) :
           /\ Len(path) \in {1, 2}
           /\ path[1].from = review[p]
           /\ \A i \in 1 .. Len(path) : <<path[i].from, path[i].to>> \in Allowed
           /\ review' = [review EXCEPT ![p] = path[Len(path)].to]
           /\ trail' = [trail EXCEPT ![p] = @ \o path]
    BY ReviewPath
  <1>2. Len(path) \in {1, 2}
    BY <1>1, Zenon
  <1>3. 1 \in 1 .. Len(path) /\ Len(path) \in 1 .. Len(path)
    BY <1>2
  <1>4. /\ <<path[1].from, path[1].to>> \in Allowed
        /\ <<path[Len(path)].from, path[Len(path)].to>> \in Allowed
    BY <1>1, <1>3, Zenon
  <1>5. path[1].from \in {"proposed", "approved"} /\ path[Len(path)].to # "none"
    BY <1>4 DEF Allowed
  <1>6. review'[p] = path[Len(path)].to
    BY <1>1, Zenon DEF TypeOK
  <1>7. \A q \in Rows : q # p => review'[q] = review[q] /\ trail'[q] = trail[q]
    BY <1>1, Zenon DEF TypeOK
  <1>8. UNCHANGED copies
    BY DEF ReviewProposal
  <1>9. path[1].from = review[p]
    BY <1>1, Zenon
  <1>. QED  BY <1>5, <1>6, <1>7, <1>8, <1>9

(* Every other step leaves the reviews alone or inserts a payload. *)
LEMMA ReviewsOnlyBy ==
    ASSUME TypeOK, [Next]_vars
    PROVE  \/ UNCHANGED <<review, trail, promoted, copies>>
           \/ \E r \in Runs : InsertProposals(r)
           \/ \E p \in Rows, action \in ReviewAction : ReviewProposal(p, action)
  <1>1. ASSUME NEW r \in Runs, consolidation_run_create(r) \/ ComesDue(r)
        PROVE  UNCHANGED <<review, trail, promoted, copies>>
    BY <1>1 DEF consolidation_run_create, ComesDue, reviewVars
  <1>2. ASSUME NEW w \in Workers, WorkerStep(w) \/ Fail(w) \/ Crash(w), ~WriteRun(w)
        PROVE  UNCHANGED <<review, trail, promoted, copies>>
    BY <1>2 DEF WorkerStep, Claim, ReadRun, MarkFailed, Fail, Crash, reviewVars
  <1>3. ASSUME NEW w \in Workers, WriteRun(w)
        PROVE  \/ UNCHANGED <<review, trail, promoted, copies>>
               \/ \E r \in Runs : InsertProposals(r)
    <2>1. held[w] \in Runs
      BY <1>3 DEF TypeOK, WriteRun
    <2>. QED  BY <1>3, <2>1 DEF WriteRun, reviewVars
  <1>4. CASE UNCHANGED vars
    BY <1>4 DEF vars
  <1>. QED  BY <1>1, <1>2, <1>3, <1>4 DEF Next, Operate

LEMMA InsertRows ==
    ASSUME TypeOK, RowsExist, NEW r \in Runs, InsertProposals(r)
    PROVE  /\ RowsExist'
           /\ \A p \in Rows : review[p] # "none" => review'[p] = review[p]
           /\ \A p \in Rows : review'[p] \in {review[p], "proposed"}
           /\ UNCHANGED <<trail, promoted>>
  <1>1. /\ copies' = [copies EXCEPT ![r] = copies[r] + 1]
        /\ copies[r] < MaxCopies
        /\ review' = [p \in Rows |-> IF p[1] = r /\ p[3] = copies[r] + 1
                                     THEN "proposed" ELSE review[p]]
        /\ UNCHANGED <<trail, promoted>>
    BY DEF InsertProposals
  <1>2. ASSUME NEW p \in Rows
        PROVE  /\ p[1] \in Runs /\ p[3] \in 1 .. MaxCopies
               /\ copies[p[1]] \in Nat
               /\ copies'[p[1]] = IF p[1] = r THEN copies[r] + 1 ELSE copies[p[1]]
    BY <1>1 DEF Rows, TypeOK
  <1>3. ASSUME NEW p \in Rows
        PROVE  /\ review'[p] = "none" <=> p[3] > copies'[p[1]]
               /\ review'[p] = "none" => trail'[p] = <<>>
               /\ review[p] # "none" => review'[p] = review[p]
    <2>1. review'[p] = IF p[1] = r /\ p[3] = copies[r] + 1 THEN "proposed" ELSE review[p]
      BY <1>1
    <2>. QED  BY <1>1, <1>2, <2>1, ConsolidationAssumption DEF RowsExist
  <1>4. \A p \in Rows : review'[p] \in {review[p], "proposed"}
    BY <1>1
  <1>. QED  BY <1>1, <1>3, <1>4 DEF RowsExist

LEMMA RowsStep == TypeOK /\ RowsExist /\ [Next]_vars => RowsExist'
  <1>. SUFFICES ASSUME TypeOK, RowsExist, [Next]_vars PROVE RowsExist'
    OBVIOUS
  <1>1. CASE UNCHANGED <<review, trail, promoted, copies>>
    BY <1>1 DEF RowsExist
  <1>2. ASSUME NEW r \in Runs, InsertProposals(r) PROVE RowsExist'
    BY <1>2, InsertRows
  <1>3. ASSUME NEW p \in Rows, NEW action \in ReviewAction, ReviewProposal(p, action)
        PROVE  RowsExist'
    <2>1. review[p] # "none" /\ review'[p] # "none" /\ UNCHANGED copies
      BY <1>3, ReviewedUndecided
    <2>2. \A q \in Rows : q # p => review'[q] = review[q] /\ trail'[q] = trail[q]
      BY <1>3, ReviewedUndecided
    <2>. QED  BY <2>1, <2>2 DEF RowsExist
  <1>. QED  BY <1>1, <1>2, <1>3, ReviewsOnlyBy

(* Every row of a materialized copy is there to be reviewed, and none of a   *)
(* copy that was not inserted.                                             *)
THEOREM RowsAlwaysExist == Spec => []RowsExist
<1>1. Init => RowsExist
  BY DEF Init, RowsExist, Rows
<1>. QED  BY <1>1, RowsStep, TypeCorrect, PTL DEF Spec

(* A decided proposal keeps its decision and its audit trail, whoever       *)
(* reviews it again and however often its run is materialized.             *)
THEOREM DecisionsKept == Spec => DecisionsAreFinal
<1>. DEFINE Kept == \A p \in Rows : review[p] \in {"rejected", "applied", "archived"}
                                      => review'[p] = review[p] /\ trail'[p] = trail[p]
<1>1. TypeOK /\ RowsExist /\ [Next]_vars => [Kept]_vars
  <2>. SUFFICES ASSUME TypeOK, RowsExist, [Next]_vars PROVE Kept
    OBVIOUS
  <2>1. CASE UNCHANGED <<review, trail, promoted, copies>>
    BY <2>1
  <2>2. ASSUME NEW r \in Runs, InsertProposals(r) PROVE Kept
    BY <2>2, InsertRows
  <2>3. ASSUME NEW q \in Rows, NEW action \in ReviewAction, ReviewProposal(q, action)
        PROVE  Kept
    <3>1. review[q] \in {"proposed", "approved"}
      BY <2>3, ReviewedUndecided
    <3>2. \A p \in Rows : p # q => review'[p] = review[p] /\ trail'[p] = trail[p]
      BY <2>3, ReviewedUndecided
    <3>. QED  BY <3>1, <3>2
  <2>. QED  BY <2>1, <2>2, <2>3, ReviewsOnlyBy
<1>2. Spec => [][Kept]_vars
  BY <1>1, TypeCorrect, RowsAlwaysExist, PTL DEF Spec
<1>. QED  BY <1>2 DEF DecisionsAreFinal

-----------------------------------------------------------------------------
(* A chain of allowed transitions that ends in a state. *)
Chain(path, state) ==
    /\ path[Len(path)].to = state
    /\ \A i \in 2 .. Len(path) : /\ path[i].from = path[i - 1].to
                                 /\ <<path[i].from, path[i].to>> \in Allowed

Birth == [from |-> "none", to |-> "proposed"]

(* A chain goes on with the path of a review that starts where it ends. *)
LEMMA ChainExtends ==
    ASSUME NEW s \in Seq(Transition), Len(s) > 0, NEW state, Chain(s, state),
           NEW t \in Seq(Transition), Len(t) \in {1, 2},
           t[1].from = state,
           Len(t) = 2 => t[2].from = t[1].to,
           \A i \in 1 .. Len(t) : <<t[i].from, t[i].to>> \in Allowed
    PROVE  Chain(s \o t, t[Len(t)].to)
  <1>0. s \o t \in Seq(Transition)
    BY ConcatProperties
  <1>1. PICK u \in Seq(Transition) : u = s \o t
    BY <1>0
  <1>2. /\ Len(u) = Len(s) + Len(t)
        /\ \A i \in 1 .. Len(s) : u[i] = s[i]
        /\ \A i \in 1 .. Len(t) : u[Len(s) + i] = t[i]
    BY <1>1
  <1>3. Len(s) \in Nat /\ Len(t) \in Nat
    OBVIOUS
  <1>4. u[Len(u)].to = t[Len(t)].to
    BY <1>2, <1>3
  <1>5. ASSUME NEW i \in 2 .. Len(u)
        PROVE  u[i].from = u[i - 1].to /\ <<u[i].from, u[i].to>> \in Allowed
    <2>1. CASE i \in 1 .. Len(s)
      <3>1. u[i] = s[i] /\ u[i - 1] = s[i - 1] /\ i \in 2 .. Len(s)
        BY <1>2, <1>3, <2>1
      <3>. QED  BY <3>1 DEF Chain
    <2>2. CASE i = Len(s) + 1
      <3>1. i - 1 = Len(s) /\ Len(s) \in 1 .. Len(s) /\ 1 \in 1 .. Len(t)
        BY <1>3, <2>2
      <3>2. u[i] = t[1] /\ u[i - 1] = s[Len(s)]
        BY <1>2, <2>2, <3>1
      <3>3. u[i - 1].to = state
        BY <3>2 DEF Chain
      <3>4. <<t[1].from, t[1].to>> \in Allowed
        BY <3>1
      <3>. QED  BY <3>2, <3>3, <3>4, Zenon
    <2>3. CASE i = Len(s) + 2
      <3>1. Len(t) = 2
        BY <1>2, <1>3, <2>3
      <3>2. u[i] = t[2] /\ u[i - 1] = t[1] /\ 2 \in 1 .. Len(t)
        <4>1. 1 \in 1 .. Len(t) /\ 2 \in 1 .. Len(t) /\ i - 1 = Len(s) + 1
          BY <1>3, <2>3, <3>1
        <4>. QED  BY <1>2, <2>3, <4>1
      <3>. QED  BY <3>1, <3>2
    <2>4. i \in 1 .. Len(s) \/ i = Len(s) + 1 \/ i = Len(s) + 2
      BY <1>2, <1>3
    <2>. QED  BY <2>1, <2>2, <2>3, <2>4, Zenon
  <1>. QED  BY <1>1, <1>4, <1>5 DEF Chain

LEMMA BornFirst ==
    ASSUME NEW b \in Transition, NEW a \in Seq(Transition), NEW c \in Seq(Transition)
    PROVE  (<<b>> \o a) \o c = <<b>> \o (a \o c)
  <1>1. <<b>> \in Seq(Transition)
    OBVIOUS
  <1>. QED  BY <1>1, ConcatAssociative

LEMMA AuditIsChain ==
    AuditTrail <=> \A p \in Rows : review[p] # "none" => Chain(<<Birth>> \o trail[p], review[p])
  BY DEF AuditTrail, Chain, Birth

LEMMA AuditStep == TypeOK /\ RowsExist /\ AuditTrail /\ [Next]_vars => AuditTrail'
  <1>. SUFFICES ASSUME TypeOK, RowsExist, AuditTrail, [Next]_vars,
                       NEW p \in Rows, review'[p] # "none"
                PROVE  Chain(<<Birth>> \o trail'[p], review'[p])
    BY DEF AuditTrail, Chain, Birth
  <1>1. CASE review'[p] = review[p] /\ trail'[p] = trail[p]
    BY <1>1, AuditIsChain
  <1>2. ASSUME NEW r \in Runs, InsertProposals(r)
        PROVE  Chain(<<Birth>> \o trail'[p], review'[p])
    <2>1. CASE review[p] # "none"
      <3>1. review'[p] = review[p] /\ trail'[p] = trail[p]
        BY <1>2, <2>1, InsertRows
      <3>. QED  BY <1>1, <3>1
    <2>2. CASE review[p] = "none"
      <3>1. trail'[p] = <<>> /\ review'[p] = "proposed"
        BY <1>2, <2>2, InsertRows DEF RowsExist
      <3>2. <<Birth>> \o <<>> = <<Birth>>
        OBVIOUS
      <3>. QED  BY <3>1, <3>2 DEF Chain, Birth
    <2>. QED  BY <2>1, <2>2
  <1>3. ASSUME NEW q \in Rows, NEW action \in ReviewAction, ReviewProposal(q, action)
        PROVE  Chain(<<Birth>> \o trail'[p], review'[p])
    <2>1. CASE p # q
      <3>1. review'[p] = review[p] /\ trail'[p] = trail[p]
        BY <1>3, <2>1, ReviewedUndecided
      <3>. QED  BY <1>1, <3>1
    <2>2. CASE p = q
      <3>1. PICK t \in Seq(Transition) :
               /\ Len(t) \in {1, 2}
               /\ t[1].from = review[p]
               /\ Len(t) = 2 => t[2].from = t[1].to
               /\ \A i \in 1 .. Len(t) : <<t[i].from, t[i].to>> \in Allowed
               /\ review[p] # "none"
               /\ review' = [review EXCEPT ![p] = t[Len(t)].to]
               /\ trail' = [trail EXCEPT ![p] = @ \o t]
        BY <1>3, <2>2, ReviewPath
      <3>2. review'[p] = t[Len(t)].to /\ trail'[p] = trail[p] \o t
        BY <3>1, Zenon DEF TypeOK
      <3>3. Birth \in Transition /\ trail[p] \in Seq(Transition)
        BY DEF Birth, Transition, ReviewState, TypeOK
      <3>4. PICK s : s = <<Birth>> \o trail[p]
        OBVIOUS
      <3>5. s \in Seq(Transition) /\ Len(s) > 0
        BY <3>3, <3>4
      <3>6. Chain(s, review[p])
        BY <3>1, <3>4, AuditIsChain, Zenon
      <3>7. Chain(s \o t, t[Len(t)].to)
        BY <3>1, <3>5, <3>6, ChainExtends, Zenon
      <3>8. s \o t = <<Birth>> \o (trail[p] \o t)
        <4>1. (<<Birth>> \o trail[p]) \o t = <<Birth>> \o (trail[p] \o t)
          BY <3>3, BornFirst
        <4>. QED  BY <3>4, <4>1, Zenon
      <3>. QED  BY <3>2, <3>7, <3>8
    <2>. QED  BY <2>1, <2>2
  <1>4. CASE UNCHANGED <<review, trail, promoted, copies>>
    BY <1>1, <1>4
  <1>. QED  BY <1>2, <1>3, <1>4, ReviewsOnlyBy

(* The review events of every proposal row form a chain of allowed          *)
(* transitions from proposed to its state, even when a payload was inserted *)
(* twice.                                                                  *)
THEOREM Audited == Spec => []AuditTrail
<1>1. Init => AuditTrail
  BY DEF Init, AuditTrail
<1>. QED  BY <1>1, AuditStep, TypeCorrect, RowsAlwaysExist, PTL DEF Spec

-----------------------------------------------------------------------------
(* A worker that is alone with its job writes what the state it has read   *)
(* still asks for.                                                         *)
LEMMA RunStep == TypeOK /\ RunInv /\ Alone /\ [Next]_vars => RunInv'
  <1>. SUFFICES ASSUME TypeOK, RunInv, Alone, [Next]_vars PROVE RunInv'
    OBVIOUS
  <1>. USE DEF RunInv
  <1>0. /\ \A w \in Workers : pc[w] # "idle" => held[w] \in Runs /\ run[held[w]] # "none"
        /\ \A w \in Workers : pc[w] = "idle" => held[w] = NoRun
        /\ NoRun \notin Runs
    BY ConsolidationAssumption DEF TypeOK
  <1>1. ASSUME NEW r \in Runs, consolidation_run_create(r) PROVE RunInv'
    <2>1. /\ run' = [run EXCEPT ![r] = "pending"] /\ run[r] = "none"
          /\ job' = [job EXCEPT ![r] = "PENDING"] /\ due' = due \cup {r}
          /\ UNCHANGED <<pc, held, seen, copies>>
      BY <1>1 DEF consolidation_run_create, workVars
    <2>2. \A q \in Runs : run'[q] = IF q = r THEN "pending" ELSE run[q]
      BY <2>1 DEF TypeOK
    <2>3. \A q \in Runs : q # r => job'[q] = job[q] /\ (q \in due' <=> q \in due)
      BY <2>1 DEF TypeOK
    <2>4. ReadStillHolds'
      BY <1>0, <2>1, <2>2 DEF ReadStillHolds
    <2>5. MaterializedOnce'
      BY <2>1, <2>2 DEF MaterializedOnce
    <2>. QED  BY <1>0, <2>1, <2>2, <2>3, <2>4, <2>5
  <1>2. ASSUME NEW w \in Workers, NEW r \in Runs, Claim(w, r) PROVE RunInv'
    <2>1. /\ UNCHANGED <<run, copies, seen>> /\ r \in due
          /\ job' = [job EXCEPT ![r] = "CLAIMED"] /\ due' = due \ {r}
          /\ pc' = [pc EXCEPT ![w] = "read"] /\ held' = [held EXCEPT ![w] = r]
      BY <1>2 DEF Claim
    <2>2. run[r] # "none"
      BY <2>1
    <2>3. \A v \in Workers : held'[v] = IF v = w THEN r ELSE held[v]
      BY <2>1 DEF TypeOK
    <2>4. \A v \in Workers : pc'[v] = IF v = w THEN "read" ELSE pc[v]
      BY <2>1 DEF TypeOK
    <2>5. \A q \in Runs : run[q] = "none" => job'[q] = job[q]
      BY <2>1, <2>2 DEF TypeOK
    <2>6. ReadStillHolds' /\ MaterializedOnce'
      BY <2>1, <2>3, <2>4 DEF ReadStillHolds, MaterializedOnce
    <2>. QED  BY <2>1, <2>2, <2>3, <2>5, <2>6
  <1>3. ASSUME NEW w \in Workers, ReadRun(w) PROVE RunInv'
    <2>1. /\ UNCHANGED <<run, job, due, held, copies>>
          /\ pc[w] = "read"
          /\ pc' = [pc EXCEPT ![w] = "write"] /\ seen' = [seen EXCEPT ![w] = run[held[w]]]
      BY <1>3 DEF ReadRun
    <2>2. \A v \in Workers : /\ pc'[v] = IF v = w THEN "write" ELSE pc[v]
                             /\ seen'[v] = IF v = w THEN run[held[w]] ELSE seen[v]
      BY <2>1 DEF TypeOK
    <2>3. ReadStillHolds' /\ MaterializedOnce'
      BY <1>0, <2>1, <2>2 DEF ReadStillHolds, MaterializedOnce
    <2>. QED  BY <2>1, <2>3
  <1>4. ASSUME NEW w \in Workers, WriteRun(w) PROVE RunInv'
    <2>1. PICK r \in Runs : r = held[w]
      BY <1>0, <1>4 DEF WriteRun
    <2>2. /\ pc[w] = "write" /\ UNCHANGED due
          /\ IF seen[w] \in {"pending", "running"}
             THEN InsertProposals(r) ELSE UNCHANGED <<run, copies>>
          /\ job' = [job EXCEPT ![r] = "DONE"]
          /\ Answered(w)
      BY <1>4, <2>1 DEF WriteRun
    <2>3. seen[w] = run[r] /\ run[r] # "none"
      BY <2>1, <2>2 DEF ReadStillHolds
    <2>4. /\ \A q \in Runs : q # r => run'[q] = run[q] /\ copies'[q] = copies[q]
          /\ run'[r] # "none"
          /\ copies'[r] = IF run'[r] = "completed" THEN 1 ELSE 0
      <3>1. CASE seen[w] \in {"pending", "running"}
        <4>1. run' = [run EXCEPT ![r] = "completed"] /\ copies' = [copies EXCEPT ![r] = copies[r] + 1]
          BY <2>2, <3>1 DEF InsertProposals
        <4>2. copies[r] = 0
          BY <2>3, <3>1 DEF MaterializedOnce
        <4>. QED  BY <4>1, <4>2 DEF TypeOK
      <3>2. CASE seen[w] \notin {"pending", "running"}
        BY <2>2, <2>3, <3>2 DEF MaterializedOnce
      <3>. QED  BY <3>1, <3>2
    <2>5. MaterializedOnce'
      BY <2>4 DEF MaterializedOnce
    <2>6. /\ \A v \in Workers : v # w => pc'[v] = pc[v] /\ held'[v] = held[v] /\ seen'[v] = seen[v]
          /\ pc'[w] \in {"idle", "failed"}
          /\ held'[w] \in {NoRun, r}
      BY <2>1, <2>2 DEF Answered, Release, TypeOK
    <2>7. \A v \in Workers : v # w => held[v] # r
      BY <2>1 DEF Alone
    <2>8. ReadStillHolds'
      BY <1>0, <2>4, <2>6, <2>7 DEF ReadStillHolds
    <2>9. \A v \in Workers : held'[v] \in Runs => run'[held'[v]] # "none"
      BY <1>0, <2>4, <2>6, <2>7
    <2>10. \A q \in Runs : run'[q] = "none" => job'[q] = "none" /\ q \notin due'
      BY <2>2, <2>4 DEF TypeOK
    <2>. QED  BY <2>5, <2>8, <2>9, <2>10
  <1>5. ASSUME NEW w \in Workers, Fail(w) PROVE RunInv'
    <2>1. UNCHANGED <<run, job, due, held, seen, copies>> /\ pc' = [pc EXCEPT ![w] = "failed"]
      BY <1>5 DEF Fail
    <2>2. \A v \in Workers : pc'[v] = "write" => pc[v] = "write"
      BY <2>1 DEF TypeOK
    <2>. QED  BY <2>1, <2>2 DEF ReadStillHolds, MaterializedOnce
  <1>6. ASSUME NEW w \in Workers, MarkFailed(w) \/ Crash(w) PROVE RunInv'
    <2>1. /\ UNCHANGED <<run, copies>> /\ Release(w) /\ pc[w] # "idle"
          /\ job' = job \/ job' = [job EXCEPT ![held[w]] = "FAILED"]
          /\ due' \subseteq due
      BY <1>6 DEF MarkFailed, Crash
    <2>2. \A v \in Workers : \/ pc'[v] = pc[v] /\ held'[v] = held[v] /\ seen'[v] = seen[v]
                             \/ pc'[v] = "idle" /\ held'[v] = NoRun
      BY <2>1 DEF Release, TypeOK
    <2>3. \A q \in Runs : run[q] = "none" => job'[q] = job[q]
      BY <1>0, <2>1 DEF TypeOK
    <2>4. ReadStillHolds' /\ MaterializedOnce'
      BY <2>1, <2>2 DEF ReadStillHolds, MaterializedOnce
    <2>. QED  BY <1>0, <2>1, <2>2, <2>3, <2>4
  <1>7. ASSUME NEW p \in Rows, NEW action \in ReviewAction, ReviewProposal(p, action)
        PROVE  RunInv'
    BY <1>7 DEF ReviewProposal, workVars, ReadStillHolds, MaterializedOnce
  <1>8. ASSUME NEW r \in Runs, ComesDue(r) PROVE RunInv'
    <2>1. UNCHANGED <<run, job, copies, pc, held, seen>> /\ due' = due \cup {r} /\ job[r] # "none"
      BY <1>8 DEF ComesDue, workVars, Claimable
    <2>. QED  BY <2>1 DEF ReadStillHolds, MaterializedOnce
  <1>9. CASE UNCHANGED vars
    BY <1>9 DEF vars, ReadStillHolds, MaterializedOnce
  <1>. QED
    BY <1>1, <1>2, <1>3, <1>4, <1>5, <1>6, <1>7, <1>8, <1>9 DEF Next, Operate, WorkerStep

LEMMA InitRuns == Init => RunInv /\ LeasesHold
  <1>. SUFFICES ASSUME Init PROVE RunInv /\ LeasesHold
    OBVIOUS
  <1>1. /\ \A w \in Workers : held[w] = NoRun /\ pc[w] = "idle"
        /\ \A r \in Runs : run[r] = "none" /\ job[r] = "none" /\ copies[r] = 0
        /\ due = {} /\ NoRun \notin Runs
    BY ConsolidationAssumption DEF Init
  <1>. QED  BY <1>1 DEF RunInv, ReadStillHolds, MaterializedOnce, LeasesHold, Alone

(* One worker inserts the payload of a run exactly once, with its           *)
(* completion, whatever fails, is lost or is retried.                      *)
THEOREM OnceAlone ==
    ASSUME SingleWorker
    PROVE  Spec => []MaterializedOnce
<1>1. Alone
  BY DEF Alone, SingleWorker
<1>2. TypeOK /\ RunInv /\ [Next]_vars => RunInv'
  BY <1>1, RunStep
<1>3. Init => RunInv
  BY InitRuns
<1>4. RunInv => MaterializedOnce
  BY DEF RunInv
<1>. QED  BY <1>2, <1>3, <1>4, TypeCorrect, PTL DEF Spec

(* A job is handed out to a worker only when no other worker holds it.     *)
LEMMA LeaseStep ==
    ASSUME TypeOK, RunInv, LeasesHold,
           [Operate \/ \E r \in Runs : WithinLease(r) /\ ComesDue(r)]_vars
    PROVE  LeasesHold'
  <1>. USE DEF LeasesHold
  <1>0. /\ \A w \in Workers : held[w] \in Runs \cup {NoRun}
        /\ \A w \in Workers : pc[w] = "idle" => held[w] = NoRun
        /\ NoRun \notin Runs /\ due \subseteq Runs
    BY ConsolidationAssumption DEF TypeOK
  <1>1. ASSUME NEW r \in Runs, UNCHANGED held, due' = due \cup {r},
               \A w \in Workers : held[w] # r
        PROVE  LeasesHold'
    BY <1>1 DEF Alone
  <1>2. ASSUME NEW r \in Runs, consolidation_run_create(r) PROVE LeasesHold'
    <2>1. \A w \in Workers : held[w] # r
      BY <1>2 DEF consolidation_run_create, RunInv
    <2>. QED  BY <1>1, <1>2, <2>1 DEF consolidation_run_create, workVars
  <1>3. ASSUME NEW r \in Runs, WithinLease(r), ComesDue(r) PROVE LeasesHold'
    BY <1>1, <1>3 DEF WithinLease, ComesDue, workVars
  <1>4. ASSUME NEW w \in Workers, NEW r \in Runs, Claim(w, r) PROVE LeasesHold'
    <2>1. r \in due /\ due' = due \ {r} /\ held' = [held EXCEPT ![w] = r]
      BY <1>4 DEF Claim
    <2>2. \A v \in Workers : held'[v] = IF v = w THEN r ELSE held[v]
      BY <2>1 DEF TypeOK
    <2>3. \A v \in Workers : held[v] # r
      BY <2>1
    <2>. QED  BY <2>1, <2>2, <2>3 DEF Alone
  <1>5. ASSUME \A w \in Workers : held'[w] \in {held[w], NoRun}, due' \subseteq due
        PROVE  LeasesHold'
    <2>1. \A w \in Workers : held'[w] \in Runs => held'[w] = held[w]
      BY <1>0, <1>5
    <2>2. \A v, w \in Workers : held'[v] = held'[w] /\ held'[v] \in Runs => v = w
      BY <2>1 DEF Alone
    <2>3. \A w \in Workers : held'[w] \notin due'
      BY <1>0, <1>5, <2>1
    <2>. QED  BY <2>2, <2>3 DEF Alone
  <1>6. ASSUME NEW w \in Workers,
               ReadRun(w) \/ WriteRun(w) \/ MarkFailed(w) \/ Fail(w) \/ Crash(w)
        PROVE  LeasesHold'
    <2>1. due' \subseteq due /\ (UNCHANGED held \/ held' = [held EXCEPT ![w] = NoRun])
      BY <1>6 DEF ReadRun, WriteRun, Answered, MarkFailed, Fail, Crash, Release
    <2>2. \A v \in Workers : held'[v] \in {held[v], NoRun}
      BY <2>1 DEF TypeOK
    <2>. QED  BY <1>5, <2>1, <2>2
  <1>7. ASSUME NEW p \in Rows, NEW action \in ReviewAction, ReviewProposal(p, action)
        PROVE  LeasesHold'
    BY <1>5, <1>7 DEF ReviewProposal, workVars
  <1>8. CASE UNCHANGED vars
    BY <1>5, <1>8 DEF vars
  <1>. QED
    BY <1>2, <1>3, <1>4, <1>6, <1>7, <1>8 DEF Operate, WorkerStep

(* While no handler outlives its lease, any number of workers keep apart    *)
(* and insert the payload of a run exactly once.                           *)
THEOREM OnceLeased == LeasedSpec => [](LeasesHold /\ MaterializedOnce)
<1>. DEFINE Leased == Operate \/ \E r \in Runs : WithinLease(r) /\ ComesDue(r)
<1>1. [Leased]_vars => [Next]_vars
  BY DEF Next
<1>2. LeasesHold => Alone
  BY DEF LeasesHold
<1>3. TypeOK /\ RunInv /\ LeasesHold /\ [Leased]_vars => (TypeOK /\ RunInv /\ LeasesHold)'
  <2>. SUFFICES ASSUME TypeOK, RunInv, LeasesHold, [Leased]_vars
                PROVE  TypeOK' /\ RunInv' /\ LeasesHold'
    OBVIOUS
  <2>1. LeasesHold'
    BY LeaseStep
  <2>2. TypeOK' /\ RunInv'
    BY <1>1, <1>2, TypeStep, RunStep
  <2>. QED  BY <2>1, <2>2
<1>4. Init => TypeOK /\ RunInv /\ LeasesHold
  BY InitTyped, InitRuns
<1>5. TypeOK /\ RunInv /\ LeasesHold => LeasesHold /\ MaterializedOnce
  BY DEF RunInv
<1>. QED  BY <1>3, <1>4, <1>5, PTL DEF LeasedSpec

-----------------------------------------------------------------------------
(* With at most one row per contract, applying it again is refused.        *)
LEMMA PromotedStep ==
    ASSUME TypeOK, RowsExist, MaterializedOnce, PromotedOnce, [Next]_vars
    PROVE  PromotedOnce'
  <1>1. CASE UNCHANGED <<review, trail, promoted, copies>>
    BY <1>1 DEF PromotedOnce
  <1>2. ASSUME NEW r \in Runs, InsertProposals(r) PROVE PromotedOnce'
    <2>1. \A p \in Rows : review[p] = "applied" => review'[p] = "applied"
      BY <1>2, InsertRows
    <2>2. \A q \in Runs, c \in Contracts, k \in 1 .. MaxCopies : <<q, c, k>> \in Rows
      BY DEF Rows
    <2>3. UNCHANGED promoted
      BY <1>2, InsertRows
    <2>. QED  BY <2>1, <2>2, <2>3 DEF PromotedOnce
  <1>3. ASSUME NEW p \in Rows, NEW action \in ReviewAction, ReviewProposal(p, action)
        PROVE  PromotedOnce'
    <2>1. PICK r \in Runs, c \in Contracts, k \in 1 .. MaxCopies : p = <<r, c, k>>
      BY DEF Rows
    <2>2. /\ review[p] \in {"proposed", "approved"}
          /\ \A q \in Rows : q # p => review'[q] = review[q]
      BY <1>3, ReviewedUndecided
    <2>3. \A j \in 1 .. MaxCopies : review[<<r, c, j>>] # "applied"
      <3>. SUFFICES ASSUME NEW j \in 1 .. MaxCopies, review[<<r, c, j>>] = "applied"
                    PROVE  FALSE
        OBVIOUS
      <3>1. <<r, c, j>> \in Rows /\ <<r, c, k>> \in Rows
        BY DEF Rows
      <3>2. copies[r] \in {0, 1}
        BY DEF MaterializedOnce
      <3>3. ~(j > copies[r]) /\ ~(k > copies[r])
        BY <2>1, <2>2, <3>1 DEF RowsExist
      <3>4. j = k
        BY <3>2, <3>3, ConsolidationAssumption
      <3>. QED  BY <2>1, <2>2, <3>4
    <2>4. promoted[<<r, c>>] = 0
      <3>1. promoted[<<r, c>>] # 1 /\ promoted[<<r, c>>] <= 1
        BY <2>3 DEF PromotedOnce
      <3>2. PICK rc \in Runs \X Contracts : rc = <<r, c>>
        OBVIOUS
      <3>3. promoted[rc] \in Nat
        BY DEF TypeOK
      <3>. QED  BY <3>1, <3>2, <3>3
    <2>5. ASSUME NEW q \in Runs, NEW d \in Contracts, <<q, d>> # <<r, c>>
          PROVE  /\ promoted'[<<q, d>>] = promoted[<<q, d>>]
                 /\ \A j \in 1 .. MaxCopies : review'[<<q, d, j>>] = review[<<q, d, j>>]
      <3>1. promoted' = promoted \/ promoted' = [promoted EXCEPT ![<<r, c>>] = @ + 1]
        BY <1>3, <2>1 DEF ReviewProposal
      <3>2. \A j \in 1 .. MaxCopies : <<q, d, j>> \in Rows /\ <<q, d, j>> # p
        BY <2>1, <2>5 DEF Rows
      <3>. QED  BY <2>2, <2>5, <3>1, <3>2 DEF TypeOK
    <2>6. /\ promoted'[<<r, c>>] \in {0, 1}
          /\ promoted'[<<r, c>>] = 1 => action = "apply"
      <3>1. CASE promoted' = promoted
        BY <2>4, <3>1
      <3>2. CASE promoted' # promoted
        <4>1. action = "apply" /\ promoted' = [promoted EXCEPT ![<<r, c>>] = @ + 1]
          BY <1>3, <2>1, <3>2 DEF ReviewProposal
        <4>2. promoted'[<<r, c>>] = promoted[<<r, c>>] + 1
          BY <4>1 DEF TypeOK
        <4>. QED  BY <2>4, <4>1, <4>2
      <3>. QED  BY <3>1, <3>2
    <2>7. action = "apply" => review'[p] = "applied"
      <3>. SUFFICES ASSUME action = "apply" PROVE review'[p] = "applied"
        OBVIOUS
      <3>1. PICK steps : steps = review_steps(review[p], action)
        OBVIOUS
      <3>2. steps = <<"approved", "applied">> \/ steps = <<"applied">>
        BY <3>1 DEF review_steps
      <3>3. steps[Len(steps)] = "applied"
        BY <3>2
      <3>4. review' = [review EXCEPT ![p] = steps[Len(steps)]]
        BY <1>3, <3>1 DEF ReviewProposal
      <3>. QED  BY <3>3, <3>4 DEF TypeOK
    <2>8. ASSUME NEW q \in Runs, NEW d \in Contracts
          PROVE  /\ promoted'[<<q, d>>] <= 1
                 /\ promoted'[<<q, d>>] = 1 =>
                       \E j \in 1 .. MaxCopies : review'[<<q, d, j>>] = "applied"
      <3>1. CASE <<q, d>> = <<r, c>>
        BY <2>1, <2>6, <2>7, <3>1
      <3>2. CASE <<q, d>> # <<r, c>>
        <4>1. /\ promoted[<<q, d>>] <= 1
              /\ promoted[<<q, d>>] = 1 =>
                    \E j \in 1 .. MaxCopies : review[<<q, d, j>>] = "applied"
          BY DEF PromotedOnce
        <4>. QED  BY <2>5, <3>2, <4>1
      <3>. QED  BY <3>1, <3>2
    <2>. QED  BY <2>8 DEF PromotedOnce
  <1>. QED  BY <1>1, <1>2, <1>3, ReviewsOnlyBy

(* With one worker a contract of a run reaches memory at most once, however *)
(* its proposal is approved, applied, discarded and deferred.              *)
THEOREM PromotedAtMostOnce ==
    ASSUME SingleWorker
    PROVE  Spec => []PromotedOnce
<1>1. Init => PromotedOnce
  BY DEF Init, PromotedOnce
<1>2. TypeOK /\ RowsExist /\ MaterializedOnce /\ PromotedOnce /\ [Next]_vars => PromotedOnce'
  BY PromotedStep
<1>. QED  BY <1>1, <1>2, TypeCorrect, RowsAlwaysExist, OnceAlone, PTL DEF Spec

(* The same for any number of workers whose handlers end within their       *)
(* leases.                                                                  *)
THEOREM PromotedOnceLeased == LeasedSpec => []PromotedOnce
<1>1. Init => PromotedOnce
  BY DEF Init, PromotedOnce
<1>2. TypeOK /\ RowsExist /\ MaterializedOnce /\ PromotedOnce /\ [Next]_vars => PromotedOnce'
  BY PromotedStep
<1>3. LeasedSpec => Spec
  <2>1. [Operate \/ \E r \in Runs : WithinLease(r) /\ ComesDue(r)]_vars => [Next]_vars
    BY DEF Next
  <2>. QED  BY <2>1, PTL DEF LeasedSpec, Spec
<1>. QED  BY <1>1, <1>2, <1>3, TypeCorrect, RowsAlwaysExist, OnceLeased, PTL DEF Spec

(* A job within its lease is in one hand and not claimable.                 *)
THEOREM LeasesKeepApart == LeasedSpec => []LeasesHold
  BY OnceLeased, PTL

-----------------------------------------------------------------------------
(* Leases that run out under a handler: every worker that may still insert  *)
(* the payload read the run before it was completed, and inserts once.      *)

Inserters(r) ==
    {w \in Workers : pc[w] = "write" /\ held[w] = r /\ seen[w] \in {"pending", "running"}}

CopiesCovered ==
    \A r \in Runs : /\ run[r] # "completed" => copies[r] = 0
                    /\ copies[r] + Cardinality(Inserters(r)) <= Cardinality(Workers)

LEMMA InsertersCount ==
    ASSUME IsFiniteSet(Workers), NEW r \in Runs
    PROVE  /\ IsFiniteSet(Inserters(r)) /\ Cardinality(Inserters(r)) \in Nat
           /\ Cardinality(Inserters(r)) <= Cardinality(Workers) /\ Cardinality(Workers) \in Nat
  <1>1. Inserters(r) \subseteq Workers
    BY DEF Inserters
  <1>. QED  BY <1>1, FS_Subset, FS_CardinalityType

(* Fewer workers about to insert, and no more copies.                       *)
LEMMA FewerInserters ==
    ASSUME IsFiniteSet(Workers), TypeOK, CopiesCovered, NEW r \in Runs,
           copies'[r] = copies[r], Inserters(r)' \subseteq Inserters(r)
    PROVE  copies'[r] + Cardinality(Inserters(r)') <= Cardinality(Workers)
  <1>1. IsFiniteSet(Inserters(r))
    BY InsertersCount
  <1>2. /\ Cardinality(Inserters(r)') \in Nat /\ Cardinality(Inserters(r)) \in Nat
        /\ Cardinality(Inserters(r)') <= Cardinality(Inserters(r))
    BY <1>1, FS_Subset, FS_CardinalityType
  <1>3. copies[r] \in Nat /\ Cardinality(Workers) \in Nat
    BY FS_CardinalityType DEF TypeOK
  <1>. QED  BY <1>2, <1>3 DEF CopiesCovered

LEMMA CopiesStep ==
    ASSUME IsFiniteSet(Workers), TypeOK, CopiesCovered, [Next]_vars
    PROVE  CopiesCovered'
  <1>1. ASSUME NEW w \in Workers, ReadRun(w) PROVE CopiesCovered'
    <2>1. /\ UNCHANGED <<run, held, copies>>
          /\ pc' = [pc EXCEPT ![w] = "write"] /\ seen' = [seen EXCEPT ![w] = run[held[w]]]
      BY <1>1 DEF ReadRun
    <2>2. \A v \in Workers \ {w} : pc'[v] = pc[v] /\ seen'[v] = seen[v]
      BY <2>1 DEF TypeOK
    <2>3. pc'[w] = "write" /\ seen'[w] = run[held[w]]
      BY <2>1 DEF TypeOK
    <2>4. ASSUME NEW r \in Runs
          PROVE  copies'[r] + Cardinality(Inserters(r)') <= Cardinality(Workers)
      <3>1. CASE run[r] = "completed"
        <4>1. Inserters(r)' \subseteq Inserters(r)
          BY <2>1, <2>2, <2>3, <3>1 DEF Inserters
        <4>. QED  BY <2>1, <4>1, FewerInserters
      <3>2. CASE run[r] # "completed"
        <4>1. Inserters(r)' \subseteq Workers
          BY DEF Inserters
        <4>2. /\ Cardinality(Inserters(r)') \in Nat /\ Cardinality(Workers) \in Nat
              /\ Cardinality(Inserters(r)') <= Cardinality(Workers)
          BY <4>1, FS_Subset, FS_CardinalityType
        <4>3. copies'[r] = 0
          BY <2>1, <3>2 DEF CopiesCovered
        <4>. QED  BY <4>2, <4>3
      <3>. QED  BY <3>1, <3>2
    <2>. QED  BY <2>1, <2>4 DEF CopiesCovered
  <1>2. ASSUME NEW w \in Workers, WriteRun(w) PROVE CopiesCovered'
    <2>1. pc[w] = "write" /\ held[w] \in Runs
      BY <1>2 DEF WriteRun, TypeOK
    <2>2. /\ \A v \in Workers \ {w} : pc'[v] = pc[v] /\ held'[v] = held[v] /\ seen'[v] = seen[v]
          /\ pc'[w] \in {"idle", "failed"}
      BY <1>2 DEF WriteRun, Answered, Release, TypeOK
    <2>3. \A r \in Runs : Inserters(r)' = Inserters(r) \ {w}
      BY <2>2 DEF Inserters
    <2>4. CASE seen[w] \in {"pending", "running"}
      <3>1. InsertProposals(held[w])
        BY <1>2, <2>4 DEF WriteRun
      <3>2. \A r \in Runs : /\ r # held[w] => run'[r] = run[r] /\ copies'[r] = copies[r]
                            /\ r = held[w] => run'[r] = "completed" /\ copies'[r] = copies[r] + 1
        BY <2>1, <3>1 DEF InsertProposals, TypeOK
      <3>3. ASSUME NEW r \in Runs
            PROVE  copies'[r] + Cardinality(Inserters(r)') <= Cardinality(Workers)
        <4>1. CASE r # held[w]
          BY <2>3, <3>2, <4>1, FewerInserters
        <4>2. CASE r = held[w]
          <5>1. w \in Inserters(r) /\ IsFiniteSet(Inserters(r))
            BY <2>1, <2>4, <4>2, InsertersCount DEF Inserters
          <5>2. Cardinality(Inserters(r)') = Cardinality(Inserters(r)) - 1
            BY <2>3, <5>1, FS_RemoveElement
          <5>3. /\ Cardinality(Inserters(r)) \in Nat /\ Cardinality(Workers) \in Nat
                /\ copies[r] \in Nat
            BY InsertersCount DEF TypeOK
          <5>4. copies[r] + Cardinality(Inserters(r)) <= Cardinality(Workers)
            BY DEF CopiesCovered
          <5>. QED  BY <3>2, <4>2, <5>2, <5>3, <5>4
        <4>. QED  BY <4>1, <4>2
      <3>. QED  BY <3>2, <3>3 DEF CopiesCovered
    <2>5. CASE seen[w] \notin {"pending", "running"}
      <3>1. UNCHANGED <<run, copies>>
        BY <1>2, <2>5 DEF WriteRun
      <3>2. \A r \in Runs : Inserters(r)' \subseteq Inserters(r)
        BY <2>3
      <3>. QED  BY <3>1, <3>2, FewerInserters DEF CopiesCovered
    <2>. QED  BY <2>4, <2>5
  <1>3. ASSUME NEW r \in Runs, consolidation_run_create(r) PROVE CopiesCovered'
    <2>1. /\ UNCHANGED <<pc, held, seen, copies>> /\ run[r] = "none"
          /\ run' = [run EXCEPT ![r] = "pending"]
      BY <1>3 DEF consolidation_run_create, workVars
    <2>2. \A q \in Runs : run'[q] # "completed" => run[q] # "completed"
      BY <2>1 DEF TypeOK
    <2>3. \A q \in Runs : Inserters(q)' \subseteq Inserters(q)
      BY <2>1 DEF Inserters
    <2>. QED  BY <2>1, <2>2, <2>3, FewerInserters DEF CopiesCovered
  <1>4. ASSUME UNCHANGED <<run, copies>>,
               \A v \in Workers : pc'[v] = "write" =>
                   pc[v] = "write" /\ held'[v] = held[v] /\ seen'[v] = seen[v]
        PROVE  CopiesCovered'
    <2>1. \A r \in Runs : Inserters(r)' \subseteq Inserters(r)
      BY <1>4 DEF Inserters
    <2>. QED  BY <1>4, <2>1, FewerInserters DEF CopiesCovered
  <1>5. ASSUME NEW w \in Workers, NEW r \in Runs, Claim(w, r) PROVE CopiesCovered'
    BY <1>4, <1>5 DEF Claim, TypeOK
  <1>6. ASSUME NEW w \in Workers, Fail(w) PROVE CopiesCovered'
    BY <1>4, <1>6 DEF Fail, TypeOK
  <1>7. ASSUME NEW w \in Workers, MarkFailed(w) \/ Crash(w) PROVE CopiesCovered'
    BY <1>4, <1>7 DEF MarkFailed, Crash, Release, TypeOK
  <1>8. ASSUME NEW p \in Rows, NEW action \in ReviewAction, ReviewProposal(p, action)
        PROVE  CopiesCovered'
    BY <1>4, <1>8 DEF ReviewProposal, workVars
  <1>9. ASSUME NEW r \in Runs, ComesDue(r) PROVE CopiesCovered'
    BY <1>4, <1>9 DEF ComesDue, workVars
  <1>10. CASE UNCHANGED vars
    BY <1>4, <1>10 DEF vars
  <1>. QED
    BY <1>1, <1>2, <1>3, <1>5, <1>6, <1>7, <1>8, <1>9, <1>10 DEF Next, Operate, WorkerStep

(* However leases run out, each worker inserts the payload of a run at most *)
(* once.                                                                    *)
THEOREM CopiesBounded ==
    ASSUME IsFiniteSet(Workers)
    PROVE  Spec => []OneCopyPerWorker
<1>1. Init => CopiesCovered
  <2>. SUFFICES ASSUME Init, NEW r \in Runs
                PROVE  copies[r] = 0 /\ 0 + Cardinality(Inserters(r)) <= Cardinality(Workers)
    BY DEF CopiesCovered, Init
  <2>. QED  BY InsertersCount DEF Init
<1>2. TypeOK /\ CopiesCovered /\ [Next]_vars => CopiesCovered'
  BY CopiesStep
<1>3. TypeOK /\ CopiesCovered => OneCopyPerWorker
  <2>. SUFFICES ASSUME TypeOK, CopiesCovered, NEW r \in Runs
                PROVE  copies[r] <= Cardinality(Workers)
    BY DEF OneCopyPerWorker
  <2>1. copies[r] + Cardinality(Inserters(r)) <= Cardinality(Workers)
    BY DEF CopiesCovered
  <2>. QED  BY <2>1, InsertersCount DEF TypeOK
<1>. QED  BY <1>1, <1>2, <1>3, TypeCorrect, PTL DEF Spec
=============================================================================
