----------------------------- MODULE GraphFacts -----------------------------
(***************************************************************************)
(* Graph memory: the predicates an administrator curates, and the facts a   *)
(* note asserts under them.  A writer runs persist_graph_fields_tx inside   *)
(* the transaction that stores its note: it names the entities (taking the  *)
(* project's advisory lock), resolves the predicate, upserts the fact and   *)
(* closes the facts it supersedes, one READ COMMITTED statement each.  What *)
(* it wrote is seen by the others when it commits, and its row locks make   *)
(* them wait until then.  A patch of a predicate reads it and then updates  *)
(* it, in two statements of no transaction.                                *)
(*                                                                         *)
(* One tenant, project, scope and subject; a note asserts one relation.  A  *)
(* predicate is named by its canonical surface.                             *)
(***************************************************************************)
EXTENDS Naturals, Sequences, FiniteSets

CONSTANTS
    Agents,       \* agent_id of the owners of notes
    Surfaces,     \* normalized names a predicate may go by
    Objects,      \* objects of the facts
    Writers,      \* requests that store a note with a relation
    Ends,         \* ends a relation may be given with
    Unbound,      \* no predicate
    MaxTime,      \* bound on the clock
    MaxFacts      \* bound on the rows of graph_facts

ASSUME GraphAssumption ==
    /\ Unbound \notin Surfaces
    /\ MaxTime \in Nat \ {0}
    /\ MaxFacts \in Nat
    /\ Ends \subseteq 1 .. MaxTime

VARIABLES
    now,          \* the clock
    predicates,   \* graph_predicates: status and cardinality by canonical name
    aliases,      \* graph_predicate_aliases: the predicate a surface names
    facts,        \* graph_facts with its supersession rows, as committed
    tx            \* the transaction of each writer

vars == <<now, predicates, aliases, facts, tx>>

Statuses      == {"pending", "active", "deprecated"}
Cardinalities == {"single", "multi"}
Predicate     == [status : Statuses, cardinality : Cardinalities]
Registered    == [status |-> "pending", cardinality |-> "multi"]
NoPredicate   == [status |-> "none", cardinality |-> "multi"]
Unknown       == 0                     \* a start or an end that is not given
Times         == 1 .. MaxTime

Relation == {r \in [agent : Agents, surface : Surfaces, object : Objects,
                    from : Times \cup {Unknown}, to : Ends \cup {Unknown},
                    named : BOOLEAN] :
                r.to # Unknown => r.from < r.to}

(* A transaction up to its resolved predicate.  pc goes on from missed (no  *)
(* predicate found) and resolved to written (fact upserted), superseding   *)
(* (older facts picked) and superseded (older facts closed).               *)
Before(pc, r, at, p, truth, registers) ==
    [pc |-> pc, rel |-> r, at |-> at, predicate |-> p, truth |-> truth,
     registers |-> registers, fact |-> 0, closed |-> {}]

Idle == Before("idle", Unbound, 0, Unbound, FALSE, {})

Fact == [agent : Agents, predicate : Surfaces, object : Objects,
         from : Times \cup {Unknown}, to : Times \cup {Unknown},
         by : 0 .. MaxFacts,           \* the fact that superseded it, 0 for none
         named : BOOLEAN,              \* history: written under the advisory lock
         truth : BOOLEAN]              \* history: written as current truth

(* Where a fact stands at the time of a read.                               *)
relation_temporal_status(f, at) ==
    IF f.from > at THEN "future"
    ELSE IF f.to # Unknown /\ f.to <= at THEN "historical"
    ELSE IF f.from = Unknown THEN "unknown" ELSE "current"

predicate_status_transition_allowed(old, new) ==
    <<old, new>> \in {<<"pending", "active">>, <<"pending", "deprecated">>,
                      <<"active", "deprecated">>}

Init ==
    /\ now = 1
    /\ predicates = [s \in Surfaces |-> NoPredicate]
    /\ aliases = [s \in Surfaces |-> Unbound]
    /\ facts = <<>>
    /\ tx = [w \in Writers |-> Idle]

-----------------------------------------------------------------------------
(* Locks.  A writer that names its entities holds the advisory lock of the *)
(* project to the end of its transaction; one that gives entity ids does    *)
(* not take it.  Rows it closed, or reused through ON CONFLICT DO UPDATE,   *)
(* are locked, and so are the keys of the rows it inserted.                *)

(* Slip: a dropped pg_advisory_xact_lock.                                   *)
advisory_lock_dropped == TRUE

advisory_lock_free == \A v \in Writers : tx[v].pc # "idle" => ~tx[v].rel.named

RowsLocked(w) == (IF tx[w].pc = "superseded" THEN tx[w].closed ELSE {}) \cup ({tx[w].fact} \ {0})

NewFact(w) == [agent |-> tx[w].rel.agent, predicate |-> tx[w].predicate,
               object |-> tx[w].rel.object, from |-> tx[w].rel.from, to |-> tx[w].rel.to,
               by |-> 0, named |-> tx[w].rel.named, truth |-> tx[w].truth]

(* Slip: an index that takes two unknown starts for different (PostgreSQL's *)
(* default, NULLS DISTINCT).                                               *)
SameKeyNullsDistinct(f, p, r) ==
    /\ f.agent = r.agent /\ f.object = r.object /\ f.predicate = p
    /\ f.from = r.from /\ f.from # Unknown

(* The unique indexes on open facts, NULLS NOT DISTINCT: an unknown start   *)
(* is a start like any other.                                              *)
SameKey(f, p, r) == /\ f.agent = r.agent /\ f.object = r.object
                    /\ f.from = r.from /\ f.predicate = p

Open(i) == i \in 1 .. Len(facts) /\ facts[i].to = Unknown

(* A row of an open fact that w has inserted and not committed.             *)
Reserves(w, p, r) ==
    /\ tx[w].pc \in {"written", "superseding", "superseded"} /\ tx[w].fact = 0
    /\ tx[w].rel.to = Unknown /\ SameKey(NewFact(w), p, r)

-----------------------------------------------------------------------------
(* The writer.                                                             *)

(* Whether the fact supersedes others follows from the predicate as it is   *)
(* found here and the clock the request has read.                          *)
is_current_truth(r, at, row) ==
    /\ row = [status |-> "active", cardinality |-> "single"]
    /\ r.to = Unknown
    /\ r.from \in 1 .. at

(* What a lookup or an INSERT ... ON CONFLICT returned; a deprecated        *)
(* predicate ends the request.                                             *)
Resolved(w, r, at, p, row, registers) ==
    tx' = [tx EXCEPT ![w] =
              IF row.status = "deprecated" THEN Idle
              ELSE Before("resolved", r, 0, p, is_current_truth(r, at, row), registers)]

(* at: the clock as the request read it before its transaction and before  *)
(* it waited for the advisory lock.                                        *)
resolve_predicate(w, r, at) ==
    /\ tx[w].pc = "idle"
    /\ r.named => advisory_lock_free
    /\ LET p == aliases[r.surface] IN
          IF p = Unbound
          THEN tx' = [tx EXCEPT ![w] = Before("missed", r, at, Unbound, FALSE, {})]
          ELSE Resolved(w, r, at, p, predicates[p], {})
    /\ UNCHANGED <<now, predicates, aliases, facts>>

(* By the time a predicate that was not found is inserted, somebody else    *)
(* may have registered it or bound its name to another one; the names that  *)
(* another writer has inserted are waited for.                             *)
register_predicate(w) ==
    /\ tx[w].pc = "missed"
    /\ LET s   == tx[w].rel.surface
           new == predicates[s] = NoPredicate IN
       /\ \A v \in Writers \ {w} : tx[v].registers # {} => tx[v].rel.surface # s
       /\ Resolved(w, tx[w].rel, tx[w].at, s,
                   IF new THEN Registered ELSE predicates[s],
                   {x \in {"predicate", "alias"} :
                       IF x = "predicate" THEN new ELSE aliases[s] = Unbound})
    /\ UNCHANGED <<now, predicates, aliases, facts>>

(* An open row with the key of the relation is reused and locked.          *)
upsert_fact_with_evidence(w) ==
    /\ tx[w].pc = "resolved"
    /\ LET p   == tx[w].predicate
           r   == tx[w].rel
           dup == {i \in 1 .. Len(facts) : r.to = Unknown /\ Open(i) /\ SameKey(facts[i], p, r)} IN
       /\ \A v \in Writers \ {w} :
             dup \cap RowsLocked(v) = {} /\ ~(r.to = Unknown /\ Reserves(v, p, r))
       /\ \E i \in (IF dup = {} THEN {0} ELSE dup) :
             tx' = [tx EXCEPT ![w] = [@ EXCEPT !.pc = "written", !.fact = i]]
    /\ UNCHANGED <<now, predicates, aliases, facts>>

(* Slip: without valid_from < $1.                                           *)
ConflictingAnyStart(w) == {i \in 1 .. Len(facts) \ {tx[w].fact} :
                              /\ Open(i)
                              /\ facts[i].agent = tx[w].rel.agent
                              /\ facts[i].predicate = tx[w].predicate}

(* Open facts of the agent that started earlier; one of unknown start, or   *)
(* one that starts later, stays.                                           *)
Conflicting(w) == {i \in 1 .. Len(facts) \ {tx[w].fact} :
                      /\ Open(i)
                      /\ facts[i].agent = tx[w].rel.agent
                      /\ facts[i].predicate = tx[w].predicate
                      /\ facts[i].from # Unknown /\ facts[i].from < tx[w].rel.from}

(* The UPDATE picks its rows by the snapshot it begins with ...             *)
pick_conflicting_active_facts(w) ==
    /\ tx[w].pc = "written"
    /\ LET rows == IF tx[w].truth THEN Conflicting(w) ELSE {} IN
       tx' = [tx EXCEPT ![w] = [@ EXCEPT !.pc = IF rows = {} THEN "superseded" ELSE "superseding",
                                         !.closed = rows]]
    /\ UNCHANGED <<now, predicates, aliases, facts>>

(* ... waits for the locks on them, and leaves out those that somebody has  *)
(* closed by then; rows committed meanwhile are not looked at.             *)
supersede_conflicting_active_facts(w) ==
    /\ tx[w].pc = "superseding"
    /\ \A v \in Writers \ {w} : tx[w].closed \cap RowsLocked(v) = {}
    /\ tx' = [tx EXCEPT ![w] = [@ EXCEPT !.pc = "superseded",
                                         !.closed = tx[w].closed \cap Conflicting(w)]]
    /\ UNCHANGED <<now, predicates, aliases, facts>>

(* valid_to and the supersession row, which names the fact that took over.  *)
ClosedBy(f, id, at) == [f EXCEPT !.to = at, !.by = id]

Commit(w) ==
    /\ tx[w].pc = "superseded"
    /\ LET id     == IF tx[w].fact = 0 THEN Len(facts) + 1 ELSE tx[w].fact
           closed == [i \in 1 .. Len(facts) |->
                         IF i \in tx[w].closed THEN ClosedBy(facts[i], id, tx[w].rel.from)
                                               ELSE facts[i]]
           s      == tx[w].rel.surface IN
       /\ id <= MaxFacts
       /\ facts' = IF tx[w].fact = 0 THEN Append(closed, NewFact(w)) ELSE closed
       /\ predicates' = IF "predicate" \in tx[w].registers
                        THEN [predicates EXCEPT ![s] = Registered] ELSE predicates
       /\ aliases' = IF "alias" \in tx[w].registers
                     THEN [aliases EXCEPT ![s] = s] ELSE aliases
    /\ tx' = [tx EXCEPT ![w] = Idle]
    /\ UNCHANGED now

(* Slip: the rows of a failed transaction stay locked.                      *)
RollbackHoldingLocks(w) ==
    /\ tx[w].pc # "idle"
    /\ tx' = [tx EXCEPT ![w].pc = "idle"]
    /\ UNCHANGED <<now, predicates, aliases, facts>>

(* An error of any statement, or of the rest of the note's transaction; a   *)
(* deadlock that Postgres breaks.                                          *)
Rollback(w) ==
    /\ tx[w].pc # "idle"
    /\ tx' = [tx EXCEPT ![w] = Idle]
    /\ UNCHANGED <<now, predicates, aliases, facts>>

-----------------------------------------------------------------------------
(* Administrators.  A patch reads the row in one statement and updates it    *)
(* in another.  By then the row it has read may be any that the predicate   *)
(* has had; the guard turns every one but the present into a Conflict.      *)

(* Slip: update_predicate, which has no guard.                              *)
update_predicate(s, old, new) == predicates' = [predicates EXCEPT ![s] = new]

update_predicate_guarded(s, old, new) ==
    /\ predicates[s] = old
    /\ predicates' = [predicates EXCEPT ![s] = new]

PatchPredicate(s, old, new) ==
    /\ predicates[s] # NoPredicate
    /\ old.status # "deprecated"
    /\ new # old
    /\ new.status = old.status \/ predicate_status_transition_allowed(old.status, new.status)
    /\ update_predicate_guarded(s, old, new)
    /\ UNCHANGED <<now, aliases, facts, tx>>

(* That the predicate is not deprecated was checked in an earlier statement *)
(* and need not hold any more.  A surface that is bound is not bound to     *)
(* another predicate, and one that a writer has inserted is waited for.    *)
add_predicate_alias(s, p) ==
    /\ predicates[p] # NoPredicate
    /\ \A v \in Writers : "alias" \in tx[v].registers => tx[v].rel.surface # s
    /\ aliases[s] = Unbound
    /\ aliases' = [aliases EXCEPT ![s] = p]
    /\ UNCHANGED <<now, predicates, facts, tx>>

Tick ==
    /\ now < MaxTime
    /\ now' = now + 1
    /\ UNCHANGED <<predicates, aliases, facts, tx>>

Next ==
    \/ \E w \in Writers :
          \/ \E r \in Relation, at \in 1 .. now : resolve_predicate(w, r, at)
          \/ register_predicate(w)
          \/ upsert_fact_with_evidence(w)
          \/ pick_conflicting_active_facts(w)
          \/ supersede_conflicting_active_facts(w)
          \/ Commit(w)
          \/ Rollback(w)
    \/ \E s \in Surfaces :
          \/ \E old, new \in Predicate : PatchPredicate(s, old, new)
          \/ \E p \in Surfaces : add_predicate_alias(s, p)
    \/ Tick

Spec == Init /\ [][Next]_vars

-----------------------------------------------------------------------------
(* Properties.                                                             *)

(* The types of the state, and the fields each step of a transaction has.   *)
TypeOK ==
    /\ now \in Times
    /\ predicates \in [Surfaces -> Predicate \cup {NoPredicate}]
    /\ aliases \in [Surfaces -> Surfaces \cup {Unbound}]
    /\ facts \in Seq(Fact) /\ Len(facts) <= MaxFacts
    /\ \A w \in Writers :
          /\ tx[w].pc \in {"idle", "missed", "resolved", "written", "superseding", "superseded"}
          /\ tx[w].pc = "idle" => tx[w] = Idle
          /\ tx[w].pc # "idle" => tx[w].rel \in Relation /\ tx[w].at \in 0 .. now
          /\ tx[w].pc \in {"resolved", "written", "superseding", "superseded"} =>
                tx[w].predicate \in Surfaces
          /\ tx[w].closed \cup RowsLocked(w) \subseteq 1 .. Len(facts)

(* Of two current facts of one agent under a predicate, the one written     *)
(* later does not start later: as current truth it would have closed the    *)
(* other one.  It rests on the advisory lock, so it is claimed of facts     *)
(* whose writers named their entities; a fact dated before an open one      *)
(* stays beside it.                                                        *)
OneCurrentFact ==
    \A i, j \in 1 .. Len(facts) :
        /\ i < j
        /\ facts[i].agent = facts[j].agent /\ facts[i].predicate = facts[j].predicate
        /\ facts[i].named /\ facts[j].named /\ facts[j].truth
        /\ relation_temporal_status(facts[i], now) = "current" /\ facts[i].to = Unknown
        /\ relation_temporal_status(facts[j], now) = "current" /\ facts[j].to = Unknown
        => facts[j].from <= facts[i].from

(* A superseded fact ends exactly when the fact that took over begins, and  *)
(* both belong to one agent and predicate: at no time a read finds neither. *)
SupersessionsMeet ==
    \A i \in 1 .. Len(facts) : facts[i].by # 0 =>
        /\ facts[i].by \in 1 .. Len(facts)
        /\ LET g == facts[facts[i].by] IN
           /\ g.agent = facts[i].agent /\ g.predicate = facts[i].predicate
           /\ g.from = facts[i].to /\ facts[i].from < g.from

(* No open fact is stored twice, whoever writes it at the same time and     *)
(* even if nobody says when it began.                                      *)
NoDuplicateFacts ==
    \A i, j \in 1 .. Len(facts) :
        /\ Open(i) /\ Open(j)
        /\ facts[i].agent = facts[j].agent /\ facts[i].predicate = facts[j].predicate
        /\ facts[i].object = facts[j].object /\ facts[i].from = facts[j].from
        => i = j

(* However the patches of several administrators interleave, a predicate    *)
(* never leaves "deprecated" nor falls back to "pending", and a surface     *)
(* once bound keeps its predicate.                                         *)
PredicatesOnlyAdvance ==
    [][\A s \in Surfaces :
          /\ predicates[s].status # predicates'[s].status =>
                \/ predicates[s] = NoPredicate
                \/ predicate_status_transition_allowed(predicates[s].status, predicates'[s].status)
          /\ aliases[s] # Unbound => aliases'[s] = aliases[s]]_vars

=============================================================================
