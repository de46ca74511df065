-------------------------- MODULE GraphFactsProofs --------------------------
(***************************************************************************)
(* What GraphFacts guarantees for every set of agents, surfaces, objects   *)
(* and writers and for any number of facts.  A transaction carries what it *)
(* has read to its commit, so the invariant says what is still true of it: *)
(* the names it registers are free, the row it reuses has its key, the     *)
(* rows it closes started earlier, and no other transaction inserts its    *)
(* key.                                                                    *)
(***************************************************************************)
EXTENDS GraphFacts, TLAPS

USE GraphAssumption DEF GraphAssumption

Transaction ==
    [pc : {"idle", "missed", "resolved", "written", "superseding", "superseded"},
     rel : Relation \cup {Unbound}, at : Nat, predicate : Surfaces \cup {Unbound},
     truth : BOOLEAN, registers : SUBSET {"predicate", "alias"},
     fact : Nat, closed : SUBSET Nat]

(* TypeOK with the shape of a transaction.                                  *)
Typed == TypeOK /\ tx \in [Writers -> Transaction]

(* The names a transaction has inserted are free until it commits.          *)
NamesAreFree ==
    \A w \in Writers :
        LET s == tx[w].rel.surface IN
        /\ "predicate" \in tx[w].registers => predicates[s] = NoPredicate
        /\ "alias" \in tx[w].registers => aliases[s] = Unbound
        /\ tx[w].registers # {} =>
              \A v \in Writers \ {w} : tx[v].registers # {} => tx[v].rel.surface # s

(* The row it reuses and the rows it closes.                                *)
RowsAreKnown ==
    \A w \in Writers :
        /\ tx[w].fact # 0 => SameKey(facts[tx[w].fact], tx[w].predicate, tx[w].rel)
        /\ \A i \in tx[w].closed :
              /\ facts[i].agent = tx[w].rel.agent
              /\ facts[i].predicate = tx[w].predicate
              /\ facts[i].from < tx[w].rel.from

(* The key of an open row it has inserted is its alone.                     *)
Inserting(w) ==
    /\ tx[w].pc \in {"written", "superseding", "superseded"}
    /\ tx[w].fact = 0 /\ tx[w].rel.to = Unknown

KeysAreNew ==
    \A w \in Writers : Inserting(w) =>
        /\ \A i \in 1 .. Len(facts) :
              Open(i) => ~SameKey(facts[i], tx[w].predicate, tx[w].rel)
        /\ \A v \in Writers \ {w} : ~Reserves(v, tx[w].predicate, tx[w].rel)

(* The advisory lock has one holder.                                        *)
OneNamed ==
    \A v, w \in Writers :
        tx[v].pc # "idle" /\ tx[w].pc # "idle" /\ tx[v].rel.named /\ tx[w].rel.named => v = w

(* Its holder picks, and then closes, every earlier open fact that names    *)
(* its entities: none is added meanwhile.                                  *)
EarlierAreClosed ==
    \A w \in Writers :
        /\ tx[w].pc \in {"superseding", "superseded"} /\ tx[w].fact = 0
        /\ tx[w].rel.named /\ tx[w].truth
        => \A i \in 1 .. Len(facts) :
                /\ Open(i) /\ facts[i].named
                /\ facts[i].agent = tx[w].rel.agent /\ facts[i].predicate = tx[w].predicate
                /\ facts[i].from # Unknown /\ facts[i].from < tx[w].rel.from
                => i \in tx[w].closed

(* OneCurrentFact without the clock.                                        *)
LaterStartsEarlier ==
    \A i, j \in 1 .. Len(facts) :
        /\ i < j /\ Open(i) /\ Open(j)
        /\ facts[i].agent = facts[j].agent /\ facts[i].predicate = facts[j].predicate
        /\ facts[i].named /\ facts[j].named /\ facts[j].truth
        /\ facts[i].from # Unknown
        => facts[j].from <= facts[i].from

-----------------------------------------------------------------------------
(* What each step does to the transaction of its writer.                    *)

Moved(w) == /\ tx' \in [Writers -> Transaction]
            /\ \A v \in Writers \ {w} : tx'[v] = tx[v]

(* A transaction that has just begun, or has just found its predicate.      *)
Fresh(t) == /\ t.rel \in Relation /\ t.fact = 0 /\ t.closed = {}
            /\ t.pc = "resolved" => t.predicate \in Surfaces

Begun(w) ==
    /\ Moved(w)
    /\ tx[w].pc = "idle"
    /\ tx'[w].pc \in {"missed", "resolved"} /\ Fresh(tx'[w])
    /\ tx'[w].at \in 0 .. now /\ tx'[w].registers = {}
    /\ tx'[w].rel.named => advisory_lock_free

Named(w) ==
    LET s == tx[w].rel.surface IN
    /\ Moved(w)
    /\ tx[w].pc = "missed"
    /\ tx'[w].pc = "resolved" /\ tx'[w].rel = tx[w].rel /\ Fresh(tx'[w])
    /\ tx'[w].at = 0
    /\ \A v \in Writers \ {w} : tx[v].registers # {} => tx[v].rel.surface # s
    /\ "predicate" \in tx'[w].registers => predicates[s] = NoPredicate
    /\ "alias" \in tx'[w].registers => aliases[s] = Unbound

Ended(w) == Moved(w) /\ tx'[w] = Idle

SameButFact(t, u) ==
    /\ u.rel = t.rel /\ u.at = t.at /\ u.predicate = t.predicate /\ u.truth = t.truth
    /\ u.registers = t.registers

LEMMA IdleIsTyped == Idle \in Transaction
  BY DEF Idle, Before, Transaction

LEMMA Becomes ==
    ASSUME Typed, NEW w \in Writers, NEW t \in Transaction, tx' = [tx EXCEPT ![w] = t]
    PROVE  Moved(w) /\ tx'[w] = t
  BY DEF Typed, Moved

LEMMA ResolvedEffect ==
    ASSUME Typed, NEW w \in Writers, NEW r \in Relation, NEW at \in Nat, NEW p \in Surfaces,
           NEW row \in Predicate \cup {NoPredicate}, NEW names \in SUBSET {"predicate", "alias"},
           Resolved(w, r, at, p, row, names)
    PROVE  \/ Ended(w)
           \/ /\ Moved(w) /\ tx'[w].pc = "resolved" /\ tx'[w].rel = r /\ Fresh(tx'[w])
              /\ tx'[w].at = 0 /\ tx'[w].registers = names
  <1> DEFINE t == Before("resolved", r, 0, p, is_current_truth(r, at, row), names)
  <1>1. is_current_truth(r, at, row) \in BOOLEAN
    BY DEF is_current_truth
  <1>2. t \in Transaction
    BY <1>1 DEF Transaction, Before
  <1>3. CASE row.status = "deprecated"
    <2>1. tx' = [tx EXCEPT ![w] = Idle]
      BY <1>3 DEF Resolved
    <2>. QED  BY <2>1, IdleIsTyped, Becomes DEF Ended
  <1>4. CASE row.status # "deprecated"
    <2>1. tx' = [tx EXCEPT ![w] = t]
      BY <1>4 DEF Resolved
    <2>2. Moved(w) /\ tx'[w] = t
      BY <1>2, <2>1, Becomes
    <2>. QED  BY <2>2 DEF Fresh, Before
  <1>. QED  BY <1>3, <1>4

LEMMA ResolveEffect ==
    ASSUME Typed, NEW w \in Writers, NEW r \in Relation, NEW at \in 1 .. now,
           resolve_predicate(w, r, at)
    PROVE  Begun(w) \/ Ended(w)
  <1>0. at \in 0 .. now /\ at \in Nat /\ 0 \in 0 .. now
    BY DEF Typed, TypeOK, Times
  <1>1. CASE aliases[r.surface] = Unbound
    <2> DEFINE t == Before("missed", r, at, Unbound, FALSE, {})
    <2>1. t \in Transaction
      BY <1>0 DEF Transaction, Before
    <2>2. tx' = [tx EXCEPT ![w] = t]
      BY <1>1 DEF resolve_predicate
    <2>3. Moved(w) /\ tx'[w] = t
      BY <2>1, <2>2, Becomes
    <2>. QED  BY <1>0, <2>3 DEF Begun, Fresh, Before, resolve_predicate
  <1>2. CASE aliases[r.surface] # Unbound
    <2>1. r.surface \in Surfaces
      BY DEF Relation
    <2>2. /\ aliases[r.surface] \in Surfaces
          /\ predicates[aliases[r.surface]] \in Predicate \cup {NoPredicate}
      BY <1>2, <2>1 DEF Typed, TypeOK
    <2>3. Resolved(w, r, at, aliases[r.surface], predicates[aliases[r.surface]], {})
      BY <1>2 DEF resolve_predicate
    <2>4. \/ Ended(w)
          \/ /\ Moved(w) /\ tx'[w].pc = "resolved" /\ tx'[w].rel = r /\ Fresh(tx'[w])
             /\ tx'[w].at = 0 /\ tx'[w].registers = {}
      BY <1>0, <2>2, <2>3, ResolvedEffect
    <2>. QED  BY <1>0, <2>4 DEF Begun, resolve_predicate
  <1>. QED  BY <1>1, <1>2

LEMMA RegisterEffect ==
    ASSUME Typed, NEW w \in Writers, register_predicate(w)
    PROVE  Named(w) \/ Ended(w)
  <1> DEFINE s == tx[w].rel.surface
             new == predicates[s] = NoPredicate
             row == IF new THEN Registered ELSE predicates[s]
             names == {x \in {"predicate", "alias"} :
                          IF x = "predicate" THEN new ELSE aliases[s] = Unbound}
  <1>1. /\ tx[w].rel \in Relation /\ tx[w].at \in Nat
        /\ tx[w].pc = "missed"
        /\ \A v \in Writers \ {w} : tx[v].registers # {} => tx[v].rel.surface # s
        /\ Resolved(w, tx[w].rel, tx[w].at, s, row, names)
    BY DEF register_predicate, Typed, TypeOK, Times
  <1>2. s \in Surfaces
    BY <1>1 DEF Relation
  <1>3. row \in Predicate \cup {NoPredicate}
    BY <1>2 DEF Typed, TypeOK, Registered, Predicate, Statuses, Cardinalities
  <1>4. \/ Ended(w)
        \/ /\ Moved(w) /\ tx'[w].pc = "resolved" /\ tx'[w].rel = tx[w].rel /\ Fresh(tx'[w])
           /\ tx'[w].at = 0 /\ tx'[w].registers = names
    <2> HIDE DEF s, row, names
    <2>1. names \in SUBSET {"predicate", "alias"}
      BY DEF names
    <2>. QED  BY <1>1, <1>2, <1>3, <2>1, ResolvedEffect
  <1>. QED  BY <1>1, <1>4 DEF Named

(* Changing a field of a transaction.                                       *)
LEMMA Advances ==
    ASSUME NEW t \in Transaction, NEW p \in {"written", "superseding", "superseded"}
    PROVE  /\ [t EXCEPT !.pc = p] \in Transaction
           /\ SameButFact(t, [t EXCEPT !.pc = p])
           /\ [t EXCEPT !.pc = p].pc = p
           /\ [t EXCEPT !.pc = p].fact = t.fact /\ [t EXCEPT !.pc = p].closed = t.closed
  BY DEF Transaction, SameButFact

LEMMA Reuses ==
    ASSUME NEW t \in Transaction, NEW i \in Nat
    PROVE  LET u == [t EXCEPT !.pc = "written", !.fact = i] IN
           /\ u \in Transaction /\ SameButFact(t, u)
           /\ u.pc = "written" /\ u.fact = i /\ u.closed = t.closed
  <1> DEFINE a == [t EXCEPT !.pc = "written"]
  <1>1. /\ a \in Transaction /\ SameButFact(t, a)
        /\ a.pc = "written" /\ a.closed = t.closed
    BY Advances
  <1>2. [t EXCEPT !.pc = "written", !.fact = i] = [a EXCEPT !.fact = i]
    OBVIOUS
  <1> HIDE DEF a
  <1>3. /\ [a EXCEPT !.fact = i] \in Transaction /\ SameButFact(a, [a EXCEPT !.fact = i])
        /\ [a EXCEPT !.fact = i].pc = a.pc /\ [a EXCEPT !.fact = i].fact = i
        /\ [a EXCEPT !.fact = i].closed = a.closed
    BY <1>1 DEF Transaction, SameButFact
  <1>. QED  BY <1>1, <1>2, <1>3 DEF SameButFact

LEMMA Closes ==
    ASSUME Typed, NEW w \in Writers, NEW c \in SUBSET Nat,
           NEW pc \in {"superseding", "superseded"},
           tx' = [tx EXCEPT ![w] = [tx[w] EXCEPT !.pc = pc, !.closed = c]]
    PROVE  /\ Moved(w) /\ SameButFact(tx[w], tx'[w])
           /\ tx'[w].pc = pc /\ tx'[w].fact = tx[w].fact /\ tx'[w].closed = c
  <1>1. PICK t \in Transaction : t = tx[w]
    BY DEF Typed
  <1> DEFINE a == [t EXCEPT !.pc = pc]
             u == [a EXCEPT !.closed = c]
  <1>2. /\ a \in Transaction /\ SameButFact(t, a)
        /\ a.pc = pc /\ a.fact = t.fact
    BY Advances
  <1>3. tx' = [tx EXCEPT ![w] = u]
    BY <1>1
  <1> HIDE DEF a
  <1>4. /\ u \in Transaction /\ SameButFact(a, u)
        /\ u.pc = a.pc /\ u.fact = a.fact /\ u.closed = c
    BY <1>2 DEF Transaction, SameButFact
  <1> HIDE DEF u
  <1>5. Moved(w) /\ tx'[w] = u
    BY <1>3, <1>4, Becomes
  <1>. QED  BY <1>1, <1>2, <1>4, <1>5 DEF SameButFact

Upserted(w) ==
    LET p == tx[w].predicate  r == tx[w].rel IN
    /\ Moved(w)
    /\ tx[w].pc = "resolved" /\ tx'[w].pc = "written"
    /\ SameButFact(tx[w], tx'[w]) /\ tx'[w].closed = tx[w].closed
    /\ tx'[w].fact # 0 => /\ tx'[w].fact \in 1 .. Len(facts)
                          /\ SameKey(facts[tx'[w].fact], p, r)
    /\ tx'[w].fact = 0 /\ r.to = Unknown =>
          /\ \A i \in 1 .. Len(facts) : Open(i) => ~SameKey(facts[i], p, r)
          /\ \A v \in Writers \ {w} : ~Reserves(v, p, r)

LEMMA UpsertEffect ==
    ASSUME Typed, NEW w \in Writers, upsert_fact_with_evidence(w)
    PROVE  Upserted(w)
  <1> DEFINE p == tx[w].predicate
             r == tx[w].rel
             dup == {i \in 1 .. Len(facts) : r.to = Unknown /\ Open(i) /\ SameKey(facts[i], p, r)}
  <1>1. PICK i \in (IF dup = {} THEN {0} ELSE dup) :
               tx' = [tx EXCEPT ![w] = [@ EXCEPT !.pc = "written", !.fact = i]]
    BY DEF upsert_fact_with_evidence
  <1> DEFINE u == [tx[w] EXCEPT !.pc = "written", !.fact = i]
  <1>2. tx[w] \in Transaction /\ i \in Nat
    BY DEF Typed, TypeOK
  <1>3. /\ u \in Transaction /\ SameButFact(tx[w], u)
        /\ u.pc = "written" /\ u.fact = i /\ u.closed = tx[w].closed
    BY <1>2, Reuses
  <1>4. tx' = [tx EXCEPT ![w] = u]
    BY <1>1
  <1> HIDE DEF u
  <1>5. Moved(w) /\ tx'[w] = u
    BY <1>3, <1>4, Becomes
  <1>6. /\ tx[w].pc = "resolved"
        /\ r.to = Unknown => \A v \in Writers \ {w} : ~Reserves(v, p, r)
    BY DEF upsert_fact_with_evidence
  <1>. QED  BY <1>3, <1>5, <1>6 DEF Upserted

(* The rows an UPDATE picks, and what it leaves of them.                    *)
Picked(w) ==
    /\ tx[w].pc = "written" /\ tx'[w].pc \in {"superseding", "superseded"}
    /\ tx'[w].closed = IF tx[w].truth THEN Conflicting(w) ELSE {}

Left(w) ==
    /\ tx[w].pc = "superseding" /\ tx'[w].pc = "superseded"
    /\ tx'[w].closed = tx[w].closed \cap Conflicting(w)

Superseded(w) ==
    /\ Moved(w)
    /\ SameButFact(tx[w], tx'[w]) /\ tx'[w].fact = tx[w].fact
    /\ Picked(w) \/ Left(w)

LEMMA PickEffect ==
    ASSUME Typed, NEW w \in Writers, pick_conflicting_active_facts(w)
    PROVE  Superseded(w)
  <1> DEFINE c == IF tx[w].truth THEN Conflicting(w) ELSE {}
  <1>1. c \in SUBSET Nat
    BY DEF Conflicting
  <1>2. /\ tx[w].pc = "written"
        /\ c = {} => tx' = [tx EXCEPT ![w] = [tx[w] EXCEPT !.pc = "superseded", !.closed = c]]
        /\ c # {} => tx' = [tx EXCEPT ![w] = [tx[w] EXCEPT !.pc = "superseding", !.closed = c]]
    BY DEF pick_conflicting_active_facts
  <1> HIDE DEF c
  <1>3. /\ Moved(w) /\ SameButFact(tx[w], tx'[w])
        /\ tx'[w].pc \in {"superseding", "superseded"}
        /\ tx'[w].fact = tx[w].fact /\ tx'[w].closed = c
    <2>1. CASE c = {}
      BY <1>1, <1>2, <2>1, Closes
    <2>2. CASE c # {}
      BY <1>1, <1>2, <2>2, Closes
    <2>. QED  BY <2>1, <2>2
  <1> USE DEF c
  <1>. QED  BY <1>2, <1>3 DEF Superseded, Picked

LEMMA SupersedeEffect ==
    ASSUME Typed, NEW w \in Writers, supersede_conflicting_active_facts(w)
    PROVE  Superseded(w)
  <1> DEFINE c == tx[w].closed \cap Conflicting(w)
  <1>1. c \in SUBSET Nat
    BY DEF Conflicting
  <1>2. /\ tx' = [tx EXCEPT ![w] = [tx[w] EXCEPT !.pc = "superseded", !.closed = c]]
        /\ tx[w].pc = "superseding"
    BY DEF supersede_conflicting_active_facts
  <1> HIDE DEF c
  <1>3. /\ Moved(w) /\ SameButFact(tx[w], tx'[w])
        /\ tx'[w].pc = "superseded" /\ tx'[w].fact = tx[w].fact /\ tx'[w].closed = c
    BY <1>1, <1>2, Closes
  <1> USE DEF c
  <1>. QED  BY <1>2, <1>3 DEF Superseded, Left

(* A commit appends the fact or reuses a row, and closes what it supersedes. *)
Carries(g, f) ==
    /\ g.agent = f.agent /\ g.predicate = f.predicate /\ g.object = f.object
    /\ g.from = f.from /\ g.named = f.named /\ g.truth = f.truth

Stored(w) ==
    LET n == Len(facts)  new == tx[w].fact = 0 IN
    /\ facts' \in Seq(Fact) /\ Len(facts') <= MaxFacts
    /\ Len(facts') = IF new THEN n + 1 ELSE n
    /\ new => facts'[n + 1] = NewFact(w)
    /\ \A i \in 1 .. n :
          /\ Carries(facts'[i], facts[i])
          /\ i \notin tx[w].closed => facts'[i] = facts[i]
          /\ i \in tx[w].closed =>
                /\ facts'[i].to = tx[w].rel.from
                /\ facts'[i].by = IF new THEN n + 1 ELSE tx[w].fact

LEMMA NewFactIsTyped ==
    ASSUME Typed, NEW w \in Writers, tx[w].pc = "superseded"
    PROVE  NewFact(w) \in Fact
  <1>1. /\ tx[w].rel \in Relation /\ tx[w].predicate \in Surfaces
        /\ tx[w].truth \in BOOLEAN
    BY DEF Typed, TypeOK, Transaction
  <1>2. /\ tx[w].rel.agent \in Agents /\ tx[w].rel.object \in Objects
        /\ tx[w].rel.from \in Times \cup {Unknown} /\ tx[w].rel.to \in Times \cup {Unknown}
        /\ tx[w].rel.named \in BOOLEAN
    BY <1>1 DEF Relation, Times
  <1>. QED  BY <1>1, <1>2 DEF NewFact, Fact

LEMMA ClosedFactIsTyped ==
    ASSUME NEW f \in Fact, NEW t \in Times \cup {Unknown}, NEW k \in 0 .. MaxFacts
    PROVE  /\ ClosedBy(f, k, t) \in Fact /\ Carries(ClosedBy(f, k, t), f)
           /\ ClosedBy(f, k, t).to = t /\ ClosedBy(f, k, t).by = k
  <1> DEFINE a == [f EXCEPT !.to = t]
  <1>1. a \in Fact /\ Carries(a, f) /\ a.to = t
    BY DEF Fact, Carries
  <1>2. [f EXCEPT !.to = t, !.by = k] = [a EXCEPT !.by = k]
    OBVIOUS
  <1> HIDE DEF a
  <1>3. [a EXCEPT !.by = k] \in Fact /\ Carries([a EXCEPT !.by = k], a)
        /\ [a EXCEPT !.by = k].to = t /\ [a EXCEPT !.by = k].by = k
    BY <1>1 DEF Fact, Carries
  <1>. QED  BY <1>1, <1>2, <1>3 DEF Carries, ClosedBy

LEMMA CommitEffect ==
    ASSUME Typed, NEW w \in Writers, Commit(w)
    PROVE  Ended(w) /\ Stored(w)
  <1> DEFINE n == Len(facts)
             id == IF tx[w].fact = 0 THEN n + 1 ELSE tx[w].fact
             g(i) == ClosedBy(facts[i], id, tx[w].rel.from)
             closed == [i \in 1 .. n |-> IF i \in tx[w].closed THEN g(i) ELSE facts[i]]
  <1>1. /\ tx[w].pc = "superseded"
        /\ id <= MaxFacts
        /\ facts' = IF tx[w].fact = 0 THEN Append(closed, NewFact(w)) ELSE closed
        /\ tx' = [tx EXCEPT ![w] = Idle]
    BY DEF Commit
  <1>2. Ended(w)
    BY <1>1, IdleIsTyped, Becomes DEF Ended
  <1>3. /\ facts \in Seq(Fact) /\ n \in Nat /\ n <= MaxFacts
        /\ tx[w].fact \in 0 .. n
    BY DEF Typed, TypeOK, RowsLocked, Transaction
  <1>4. tx[w].rel.from \in Times \cup {Unknown} /\ id \in 0 .. MaxFacts
    <2>1. tx[w].rel \in Relation
      BY <1>1 DEF Typed, TypeOK
    <2>2. tx[w].rel.from \in Times \cup {Unknown}
      BY <2>1 DEF Relation
    <2>3. id \in 0 .. MaxFacts
      BY <1>1, <1>3
    <2>. QED  BY <2>2, <2>3
  <1>5. \A i \in 1 .. n : /\ g(i) \in Fact /\ Carries(g(i), facts[i])
                          /\ g(i).to = tx[w].rel.from /\ g(i).by = id
    <2> TAKE i \in 1 .. n
    <2>1. facts[i] \in Fact
      BY <1>3
    <2> DEFINE e == tx[w].rel.from
               f == facts[i]
    <2>2. e \in Times \cup {Unknown} /\ id \in 0 .. MaxFacts /\ f \in Fact
      BY <1>4, <2>1
    <2> HIDE DEF id, e, f
    <2>3. /\ ClosedBy(f, id, e) \in Fact /\ Carries(ClosedBy(f, id, e), f)
          /\ ClosedBy(f, id, e).to = e /\ ClosedBy(f, id, e).by = id
      BY <2>2, ClosedFactIsTyped
    <2>. QED  BY <2>3 DEF e, f
  <1>6. /\ closed \in Seq(Fact) /\ Len(closed) = n
        /\ \A i \in 1 .. n : closed[i] = IF i \in tx[w].closed THEN g(i) ELSE facts[i]
    <2> HIDE DEF g
    <2>1. closed \in [1 .. n -> Fact]
      BY <1>3, <1>5
    <2>. QED  BY <1>3, <2>1
  <1>7. NewFact(w) \in Fact
    BY <1>1, NewFactIsTyped
  <1> HIDE DEF closed, g
  <1>8. \A i \in 1 .. n : facts'[i] = closed[i]
    BY <1>1, <1>3, <1>6, <1>7
  <1>9. /\ facts' \in Seq(Fact)
        /\ Len(facts') = IF tx[w].fact = 0 THEN n + 1 ELSE n
        /\ tx[w].fact = 0 => facts'[n + 1] = NewFact(w)
    BY <1>1, <1>3, <1>6, <1>7
  <1>10. \A i \in 1 .. n :
           /\ Carries(facts'[i], facts[i])
           /\ i \notin tx[w].closed => facts'[i] = facts[i]
           /\ i \in tx[w].closed => facts'[i].to = tx[w].rel.from /\ facts'[i].by = id
    BY <1>5, <1>6, <1>8 DEF Carries
  <1>11. Len(facts') <= MaxFacts
    BY <1>1, <1>3, <1>9
  <1>. QED  BY <1>2, <1>9, <1>10, <1>11 DEF Stored

LEMMA RollbackEffect ==
    ASSUME Typed, NEW w \in Writers, Rollback(w)
    PROVE  Ended(w) /\ UNCHANGED <<now, predicates, aliases, facts>>
  BY IdleIsTyped, Becomes DEF Rollback, Ended

-----------------------------------------------------------------------------
(* Types.                                                                   *)

(* What TypeOK says of one transaction.                                     *)
TxOK(t, at, n) ==
    /\ t.pc \in {"idle", "missed", "resolved", "written", "superseding", "superseded"}
    /\ t.pc = "idle" => t = Idle
    /\ t.pc # "idle" => t.rel \in Relation /\ t.at \in 0 .. at
    /\ t.pc \in {"resolved", "written", "superseding", "superseded"} => t.predicate \in Surfaces
    /\ t.closed \cup ({t.fact} \ {0}) \subseteq 1 .. n

TablesOK ==
    /\ now \in Times
    /\ predicates \in [Surfaces -> Predicate \cup {NoPredicate}]
    /\ aliases \in [Surfaces -> Surfaces \cup {Unbound}]
    /\ facts \in Seq(Fact) /\ Len(facts) <= MaxFacts

LEMMA TypedParts ==
    Typed <=> /\ TablesOK /\ tx \in [Writers -> Transaction]
              /\ \A w \in Writers : TxOK(tx[w], now, Len(facts))
  BY DEF Typed, TypeOK, TablesOK, TxOK, RowsLocked

LEMMA TypedPartsNext ==
    ASSUME TablesOK', tx' \in [Writers -> Transaction],
           \A w \in Writers : TxOK(tx'[w], now', Len(facts'))
    PROVE  Typed'
  BY DEF Typed, TypeOK, TablesOK, TxOK, RowsLocked

LEMMA IdleOK ==
    ASSUME NEW at \in Nat, NEW n \in Nat
    PROVE  TxOK(Idle, at, n)
  BY DEF TxOK, Idle, Before

LEMMA TxOKStays ==
    ASSUME NEW t, NEW at \in Nat, NEW n \in Nat, NEW later \in Nat, NEW more \in Nat,
           TxOK(t, at, n), at <= later, n <= more
    PROVE  TxOK(t, later, more)
  <1>1. 0 .. at \subseteq 0 .. later /\ 1 .. n \subseteq 1 .. more
    OBVIOUS
  <1>. QED  BY <1>1 DEF TxOK

(* Others are not touched by the step of w.                                 *)
LEMMA OthersOK ==
    ASSUME Typed, NEW w \in Writers, Moved(w), TablesOK',
           now <= now', Len(facts) <= Len(facts'), TxOK(tx'[w], now', Len(facts'))
    PROVE  Typed'
  <1>1. /\ now \in Nat /\ now' \in Nat /\ Len(facts) \in Nat /\ Len(facts') \in Nat
    BY TypedParts DEF TablesOK, Times
  <1>2. \A v \in Writers : TxOK(tx'[v], now', Len(facts'))
    <2> TAKE v \in Writers
    <2>1. CASE v = w
      BY <2>1
    <2>2. CASE v # w
      <3>1. tx'[v] = tx[v] /\ TxOK(tx[v], now, Len(facts))
        BY <2>2, TypedParts DEF Moved
      <3>. QED  BY <1>1, <3>1, TxOKStays
    <2>. QED  BY <2>1, <2>2
  <1>. QED  BY <1>2, TypedPartsNext DEF Moved

LEMMA QuietStepTyped ==
    ASSUME Typed, NEW w \in Writers, UNCHANGED <<now, predicates, aliases, facts>>,
           Begun(w) \/ Named(w) \/ Upserted(w) \/ Superseded(w) \/ Ended(w)
    PROVE  Typed'
  <1>1. TablesOK' /\ now \in Nat /\ Len(facts) \in Nat
    BY TypedParts DEF TablesOK, Times
  <1>2. TxOK(tx[w], now, Len(facts)) /\ tx[w] \in Transaction
    BY TypedParts
  <1>3. Moved(w)
    BY DEF Begun, Named, Upserted, Superseded, Ended
  <1>4. TxOK(tx'[w], now', Len(facts'))
    <2>1. CASE Begun(w)
      BY <1>1, <2>1 DEF Begun, Fresh, TxOK
    <2>2. CASE Named(w)
      BY <1>1, <2>2 DEF Named, Fresh, TxOK
    <2>3. CASE Upserted(w)
      BY <1>1, <1>2, <2>3 DEF Upserted, SameButFact, TxOK
    <2>4. CASE Superseded(w)
      <3>1. tx'[w].closed \subseteq 1 .. Len(facts)
        BY <2>4 DEF Superseded, Picked, Left, Conflicting
      <3>. QED  BY <1>1, <1>2, <2>4, <3>1 DEF Superseded, Picked, Left, SameButFact, TxOK
    <2>5. CASE Ended(w)
      BY <1>1, <2>5, IdleOK DEF Ended
    <2>. QED  BY <2>1, <2>2, <2>3, <2>4, <2>5
  <1>. QED  BY <1>1, <1>3, <1>4, OthersOK

(* What a commit and an administrator do to the names.                      *)
LEMMA RegisteredIsTyped == Registered \in Predicate
  BY DEF Registered, Predicate, Statuses, Cardinalities

LEMMA CommitTyped ==
    ASSUME Typed, NEW w \in Writers, Commit(w)
    PROVE  Typed'
  <1>1. Ended(w) /\ Stored(w)
    BY CommitEffect
  <1>2. TablesOK /\ now' = now /\ now \in Nat /\ Len(facts) \in Nat
    BY TypedParts DEF TablesOK, Times, Commit
  <1>3. /\ predicates' \in [Surfaces -> Predicate \cup {NoPredicate}]
        /\ aliases' \in [Surfaces -> Surfaces \cup {Unbound}]
    <2>1. tx[w].rel \in Relation
      BY DEF Typed, TypeOK, Commit
    <2>2. tx[w].rel.surface \in Surfaces
      BY <2>1 DEF Relation
    <2>. QED  BY <1>2, <2>2, RegisteredIsTyped DEF Commit, TablesOK
  <1>4. TablesOK' /\ Len(facts) <= Len(facts')
    BY <1>1, <1>2, <1>3 DEF TablesOK, Stored
  <1>5. TxOK(tx'[w], now', Len(facts'))
    BY <1>1, <1>2, <1>4, IdleOK DEF Ended, Stored
  <1>. QED  BY <1>1, <1>2, <1>4, <1>5, OthersOK DEF Ended

LEMMA OutsideStepTyped ==
    ASSUME Typed, UNCHANGED <<facts, tx>>, TablesOK', now <= now'
    PROVE  Typed'
  <1>1. /\ now \in Nat /\ now' \in Nat /\ Len(facts) \in Nat
    BY TypedParts DEF TablesOK, Times
  <1>2. \A v \in Writers : TxOK(tx'[v], now', Len(facts'))
    BY <1>1, TypedParts, TxOKStays
  <1>. QED  BY <1>2, TypedParts, TypedPartsNext

WriterStep(w) ==
    \/ \E r \in Relation, at \in 1 .. now : resolve_predicate(w, r, at)
    \/ register_predicate(w)
    \/ upsert_fact_with_evidence(w)
    \/ pick_conflicting_active_facts(w)
    \/ supersede_conflicting_active_facts(w)
    \/ Rollback(w)

(* A step of a writer short of its commit stores nothing.                   *)
LEMMA QuietSteps ==
    ASSUME Typed, NEW w \in Writers, WriterStep(w)
    PROVE  /\ UNCHANGED <<now, predicates, aliases, facts>>
           /\ Begun(w) \/ Named(w) \/ Upserted(w) \/ Superseded(w) \/ Ended(w)
  <1>1. CASE \E r \in Relation, at \in 1 .. now : resolve_predicate(w, r, at)
    BY <1>1, ResolveEffect DEF resolve_predicate
  <1>2. CASE register_predicate(w)
    BY <1>2, RegisterEffect DEF register_predicate
  <1>3. CASE upsert_fact_with_evidence(w)
    BY <1>3, UpsertEffect DEF upsert_fact_with_evidence
  <1>4. CASE supersede_conflicting_active_facts(w)
    BY <1>4, SupersedeEffect DEF supersede_conflicting_active_facts
  <1>5. CASE pick_conflicting_active_facts(w)
    BY <1>5, PickEffect DEF pick_conflicting_active_facts
  <1>6. CASE Rollback(w)
    BY <1>6, RollbackEffect
  <1>. QED  BY <1>1, <1>2, <1>3, <1>4, <1>5, <1>6 DEF WriterStep

Patches ==
    \/ \E s \in Surfaces : \/ \E old, new \in Predicate : PatchPredicate(s, old, new)
                           \/ \E p \in Surfaces : add_predicate_alias(s, p)
    \/ Tick

LEMMA NextCases ==
    ASSUME [Next]_vars
    PROVE  \/ \E w \in Writers : WriterStep(w) \/ Commit(w)
           \/ Patches \/ UNCHANGED vars
  BY DEF Next, WriterStep, Patches

LEMMA PatchesTyped ==
    ASSUME Typed, Patches
    PROVE  Typed'
  <1>1. TablesOK /\ now \in Nat
    BY TypedParts DEF TablesOK, Times
  <1>2. ASSUME NEW s \in Surfaces, NEW old \in Predicate, NEW new \in Predicate,
               PatchPredicate(s, old, new)
        PROVE  Typed'
    <2>1. TablesOK' /\ now <= now' /\ UNCHANGED <<facts, tx>>
      BY <1>1, <1>2 DEF PatchPredicate, update_predicate_guarded, TablesOK
    <2>. QED  BY <2>1, OutsideStepTyped
  <1>3. ASSUME NEW s \in Surfaces, NEW p \in Surfaces, add_predicate_alias(s, p)
        PROVE  Typed'
    <2>1. TablesOK' /\ now <= now' /\ UNCHANGED <<facts, tx>>
      BY <1>1, <1>3 DEF add_predicate_alias, TablesOK
    <2>. QED  BY <2>1, OutsideStepTyped
  <1>4. CASE Tick
    <2>1. TablesOK' /\ now <= now' /\ UNCHANGED <<facts, tx>>
      BY <1>1, <1>4 DEF Tick, TablesOK, Times
    <2>. QED  BY <2>1, OutsideStepTyped
  <1>. QED  BY <1>2, <1>3, <1>4 DEF Patches

LEMMA TypedInit == Init => Typed
  <1> SUFFICES ASSUME Init PROVE Typed
    OBVIOUS
  <1>1. TablesOK
    BY DEF Init, TablesOK, Times
  <1>2. tx \in [Writers -> Transaction]
    BY IdleIsTyped DEF Init
  <1>3. \A w \in Writers : TxOK(tx[w], now, Len(facts))
    BY <1>1, IdleOK DEF Init, TablesOK
  <1>. QED  BY <1>1, <1>2, <1>3, TypedParts

LEMMA TypedStep == Typed /\ [Next]_vars => Typed'
  <1> SUFFICES ASSUME Typed, [Next]_vars PROVE Typed'
    OBVIOUS
  <1>1. ASSUME NEW w \in Writers, WriterStep(w) PROVE Typed'
    BY <1>1, QuietSteps, QuietStepTyped
  <1>2. ASSUME NEW w \in Writers, Commit(w) PROVE Typed'
    BY <1>2, CommitTyped
  <1>3. CASE Patches
    BY <1>3, PatchesTyped
  <1>4. CASE UNCHANGED vars
    BY <1>4 DEF vars, Typed, TypeOK, RowsLocked
  <1>. QED  BY <1>1, <1>2, <1>3, <1>4, NextCases

(* Facts, names and transactions keep their types, and a transaction only   *)
(* refers to rows that are there.                                          *)
THEOREM GraphTyped == Spec => []TypeOK
  <1>1. Typed => TypeOK
    BY DEF Typed
  <1>. QED  BY TypedInit, TypedStep, <1>1, PTL DEF Spec

-----------------------------------------------------------------------------
(* Names.                                                                   *)

LEMMA RegisteringHasASurface ==
    ASSUME Typed, NEW w \in Writers, tx[w].registers # {}
    PROVE  tx[w].rel.surface \in Surfaces
  <1>1. TxOK(tx[w], now, Len(facts))
    BY TypedParts
  <1>2. tx[w].rel \in Relation
    BY <1>1 DEF TxOK, Idle, Before
  <1>. QED  BY <1>2 DEF Relation

LEMMA IdleRegistersNothing == Idle.registers = {}
  BY DEF Idle, Before

(* A commit writes the names its transaction has inserted.                  *)
LEMMA CommitNames ==
    ASSUME Typed, NamesAreFree, NEW w \in Writers, Commit(w), NEW s \in Surfaces
    PROVE  /\ predicates'[s] # predicates[s] =>
                 /\ s = tx[w].rel.surface /\ "predicate" \in tx[w].registers
                 /\ predicates[s] = NoPredicate
           /\ aliases'[s] # aliases[s] =>
                 /\ s = tx[w].rel.surface /\ "alias" \in tx[w].registers
                 /\ aliases[s] = Unbound
  BY DEF Commit, Typed, TypeOK, NamesAreFree

LEMMA NamesInit == Init => NamesAreFree
  BY IdleRegistersNothing DEF Init, NamesAreFree

LEMMA NamesStep == Typed /\ NamesAreFree /\ [Next]_vars => NamesAreFree'
  <1> SUFFICES ASSUME Typed, NamesAreFree, [Next]_vars PROVE NamesAreFree'
    OBVIOUS
  <1>1. ASSUME NEW w \in Writers, WriterStep(w) PROVE NamesAreFree'
    <2>1. UNCHANGED <<predicates, aliases>>
      BY <1>1, QuietSteps
    <2>2. CASE Begun(w)
      BY <2>1, <2>2 DEF Begun, Moved, NamesAreFree
    <2>3. CASE Named(w)
      BY <2>1, <2>3 DEF Named, Moved, NamesAreFree
    <2>4. CASE Upserted(w)
      BY <2>1, <2>4 DEF Upserted, SameButFact, Moved, NamesAreFree
    <2>5. CASE Superseded(w)
      BY <2>1, <2>5 DEF Superseded, SameButFact, Moved, NamesAreFree
    <2>6. CASE Ended(w)
      BY <2>1, <2>6, IdleRegistersNothing DEF Ended, Moved, NamesAreFree
    <2>. QED  BY <1>1, <2>2, <2>3, <2>4, <2>5, <2>6, QuietSteps
  <1>2. ASSUME NEW w \in Writers, Commit(w) PROVE NamesAreFree'
    <2>1. Ended(w)
      BY <1>2, CommitEffect
    <2>2. \A v \in Writers : tx'[v].registers # {} => v # w /\ tx'[v] = tx[v]
      BY <2>1, IdleRegistersNothing DEF Ended, Moved
    <2>3. ASSUME NEW v \in Writers, tx'[v].registers # {}
          PROVE  /\ "predicate" \in tx[v].registers => predicates'[tx[v].rel.surface] = NoPredicate
                 /\ "alias" \in tx[v].registers => aliases'[tx[v].rel.surface] = Unbound
      <3>1. v # w /\ tx[v].registers # {} /\ tx[v].rel.surface \in Surfaces
        BY <2>2, <2>3, RegisteringHasASurface
      <3>2. tx[w].registers # {} => tx[w].rel.surface # tx[v].rel.surface
        BY <3>1 DEF NamesAreFree
      <3>. QED  BY <1>2, <3>1, <3>2, CommitNames DEF NamesAreFree
    <2>. QED  BY <2>2, <2>3 DEF NamesAreFree
  <1>3. ASSUME NEW s \in Surfaces, NEW old \in Predicate, NEW new \in Predicate,
               PatchPredicate(s, old, new)
        PROVE  NamesAreFree'
    <2>1. \A v \in Writers : "predicate" \in tx[v].registers => tx[v].rel.surface # s
      BY <1>3 DEF PatchPredicate, NamesAreFree
    <2>. QED  BY <1>3, <2>1 DEF PatchPredicate, update_predicate_guarded, NamesAreFree, Typed, TypeOK
  <1>4. ASSUME NEW s \in Surfaces, NEW p \in Surfaces, add_predicate_alias(s, p)
        PROVE  NamesAreFree'
    BY <1>4 DEF add_predicate_alias, NamesAreFree, Typed, TypeOK
  <1>5. CASE Tick
    BY <1>5 DEF Tick, NamesAreFree
  <1>6. CASE UNCHANGED vars
    BY <1>6 DEF vars, NamesAreFree
  <1>. QED  BY <1>1, <1>2, <1>3, <1>4, <1>5, <1>6, NextCases DEF Patches

Advancing ==
    \A s \in Surfaces :
       /\ predicates[s].status # predicates'[s].status =>
             \/ predicates[s] = NoPredicate
             \/ predicate_status_transition_allowed(predicates[s].status, predicates'[s].status)
       /\ aliases[s] # Unbound => aliases'[s] = aliases[s]

LEMMA Advance ==
    ASSUME Typed, NamesAreFree, [Next]_vars
    PROVE  Advancing
  <1>1. ASSUME NEW w \in Writers, WriterStep(w) PROVE Advancing
    BY <1>1, QuietSteps DEF Advancing
  <1>2. ASSUME NEW w \in Writers, Commit(w) PROVE Advancing
    BY <1>2, CommitNames DEF Advancing
  <1>3. ASSUME NEW s \in Surfaces, NEW old \in Predicate, NEW new \in Predicate,
               PatchPredicate(s, old, new)
        PROVE  Advancing
    BY <1>3 DEF PatchPredicate, update_predicate_guarded, Advancing, Typed, TypeOK
  <1>4. ASSUME NEW s \in Surfaces, NEW p \in Surfaces, add_predicate_alias(s, p)
        PROVE  Advancing
    BY <1>4 DEF add_predicate_alias, Advancing, Typed, TypeOK
  <1>5. CASE Tick \/ UNCHANGED vars
    BY <1>5 DEF Tick, vars, Advancing
  <1>. QED  BY <1>1, <1>2, <1>3, <1>4, <1>5, NextCases DEF Patches

(* No interleaving of patches and registrations takes a predicate back, or  *)
(* a surface from its predicate.                                           *)
THEOREM NamesAdvance == Spec => PredicatesOnlyAdvance
  <1>1. Spec => [](Typed /\ NamesAreFree)
    BY TypedInit, TypedStep, NamesInit, NamesStep, PTL DEF Spec
  <1>2. Typed /\ NamesAreFree /\ [Next]_vars => [Advancing]_vars
    BY Advance
  <1>3. PredicatesOnlyAdvance <=> [][Advancing]_vars
    BY DEF PredicatesOnlyAdvance, Advancing
  <1>. QED  BY <1>1, <1>2, <1>3, PTL DEF Spec

-----------------------------------------------------------------------------
(* Facts.                                                                   *)

LEMMA FactFields ==
    ASSUME Typed, NEW i \in 1 .. Len(facts)
    PROVE  facts[i] \in Fact /\ facts[i].from \in Nat
  <1>1. facts[i] \in Fact
    BY DEF Typed, TypeOK
  <1>. QED  BY <1>1 DEF Fact, Times, Unknown

LEMMA FactsAreFinite ==
    ASSUME Typed
    PROVE  Len(facts) \in Nat
  BY DEF Typed, TypeOK

LEMMA IdleHoldsNothing == Idle.pc = "idle" /\ Idle.fact = 0 /\ Idle.closed = {}
  BY DEF Idle, Before

LEMMA RowsHeld ==
    ASSUME Typed, NEW w \in Writers
    PROVE  /\ tx[w].fact # 0 => tx[w].fact \in 1 .. Len(facts)
           /\ tx[w].closed \subseteq 1 .. Len(facts)
  BY DEF Typed, TypeOK, RowsLocked

LEMMA RelationOf ==
    ASSUME Typed, NEW w \in Writers, tx[w].pc # "idle"
    PROVE  /\ tx[w].rel \in Relation /\ tx[w].rel.from \in Nat
           /\ tx[w].rel.named \in BOOLEAN
  <1>1. tx[w].rel \in Relation
    BY DEF Typed, TypeOK
  <1>. QED  BY <1>1 DEF Relation, Times, Unknown

LEMMA RowsInit == Init => RowsAreKnown
  BY IdleHoldsNothing DEF Init, RowsAreKnown

LEMMA RowsStep == Typed /\ RowsAreKnown /\ [Next]_vars => RowsAreKnown'
  <1> SUFFICES ASSUME Typed, RowsAreKnown, [Next]_vars PROVE RowsAreKnown'
    OBVIOUS
  <1>1. ASSUME NEW w \in Writers, WriterStep(w) PROVE RowsAreKnown'
    <2>1. UNCHANGED facts
      BY <1>1, QuietSteps
    <2>2. CASE Begun(w) \/ Named(w)
      BY <2>1, <2>2 DEF Begun, Named, Fresh, Moved, RowsAreKnown, SameKey
    <2>3. CASE Upserted(w)
      BY <2>1, <2>3 DEF Upserted, SameButFact, Moved, RowsAreKnown, SameKey
    <2>4. CASE Superseded(w)
      <3>1. \A i \in tx'[w].closed : /\ facts[i].agent = tx[w].rel.agent
                                     /\ facts[i].predicate = tx[w].predicate
                                     /\ facts[i].from < tx[w].rel.from
        BY <2>4 DEF Superseded, Picked, Left, Conflicting
      <3>. QED  BY <2>1, <2>4, <3>1 DEF Superseded, SameButFact, Moved, RowsAreKnown, SameKey
    <2>5. CASE Ended(w)
      BY <2>1, <2>5, IdleHoldsNothing DEF Ended, Moved, RowsAreKnown, SameKey
    <2>. QED  BY <1>1, <2>2, <2>3, <2>4, <2>5, QuietSteps
  <1>2. ASSUME NEW w \in Writers, Commit(w) PROVE RowsAreKnown'
    <2>1. Ended(w) /\ Stored(w)
      BY <1>2, CommitEffect
    <2>2. \A i \in 1 .. Len(facts) : Carries(facts'[i], facts[i])
      BY <2>1 DEF Stored
    <2>3. ASSUME NEW v \in Writers, v # w
          PROVE  /\ tx'[v] = tx[v]
                 /\ tx[v].fact # 0 => SameKey(facts'[tx[v].fact], tx[v].predicate, tx[v].rel)
                 /\ \A i \in tx[v].closed : /\ facts'[i].agent = tx[v].rel.agent
                                             /\ facts'[i].predicate = tx[v].predicate
                                             /\ facts'[i].from < tx[v].rel.from
      BY <2>1, <2>2, <2>3, RowsHeld DEF Ended, Moved, RowsAreKnown, Carries, SameKey
    <2>4. tx'[w].fact = 0 /\ tx'[w].closed = {}
      BY <2>1, IdleHoldsNothing DEF Ended
    <2>. QED  BY <2>3, <2>4 DEF RowsAreKnown, SameKey
  <1>3. CASE Patches
    BY <1>3 DEF Patches, PatchPredicate, add_predicate_alias, Tick, RowsAreKnown, SameKey
  <1>4. CASE UNCHANGED vars
    BY <1>4 DEF vars, RowsAreKnown, SameKey
  <1>. QED  BY <1>1, <1>2, <1>3, <1>4, NextCases

(* A row that is open after a commit was open before and is as it was.      *)
LEMMA StillOpen ==
    ASSUME Typed, RowsAreKnown, NEW w \in Writers, Commit(w),
           NEW i \in 1 .. Len(facts), facts'[i].to = Unknown
    PROVE  Open(i) /\ facts'[i] = facts[i] /\ i \notin tx[w].closed
  <1>1. Stored(w) /\ tx[w].pc = "superseded"
    BY CommitEffect DEF Commit
  <1>2. i \notin tx[w].closed
    <2> SUFFICES ASSUME i \in tx[w].closed PROVE FALSE
      OBVIOUS
    <2>1. facts'[i].to = tx[w].rel.from /\ facts[i].from < tx[w].rel.from
      BY <1>1 DEF Stored, RowsAreKnown
    <2>. QED  BY <1>1, <2>1, FactFields, RelationOf DEF Unknown
  <1>. QED  BY <1>1, <1>2 DEF Stored, Open

(* The row a commit appends.                                                *)
LEMMA Appended ==
    ASSUME Typed, NEW w \in Writers, Commit(w),
           NEW i \in 1 .. Len(facts'), i \notin 1 .. Len(facts)
    PROVE  /\ i = Len(facts) + 1 /\ tx[w].fact = 0 /\ tx[w].pc = "superseded"
           /\ facts'[i] = NewFact(w)
  <1>1. Stored(w) /\ tx[w].pc = "superseded" /\ Len(facts) \in Nat
    BY CommitEffect, FactsAreFinite DEF Commit
  <1>. QED  BY <1>1 DEF Stored

LEMMA MeetInit == Init => SupersessionsMeet
  BY DEF Init, SupersessionsMeet

LEMMA MeetStep ==
    Typed /\ RowsAreKnown /\ SupersessionsMeet /\ [Next]_vars => SupersessionsMeet'
  <1> SUFFICES ASSUME Typed, RowsAreKnown, SupersessionsMeet, [Next]_vars PROVE SupersessionsMeet'
    OBVIOUS
  <1>1. ASSUME NEW w \in Writers, Commit(w) PROVE SupersessionsMeet'
    <2>1. Stored(w) /\ Len(facts) \in Nat
      BY <1>1, CommitEffect, FactsAreFinite
    <2> SUFFICES ASSUME NEW i \in 1 .. Len(facts'), facts'[i].by # 0
                 PROVE  /\ facts'[i].by \in 1 .. Len(facts')
                        /\ LET g == facts'[facts'[i].by] IN
                           /\ g.agent = facts'[i].agent /\ g.predicate = facts'[i].predicate
                           /\ g.from = facts'[i].to /\ facts'[i].from < g.from
      BY DEF SupersessionsMeet
    <2>2. i \in 1 .. Len(facts)
      <3>1. NewFact(w).by = 0
        BY DEF NewFact
      <3>. QED  BY <1>1, <3>1, Appended
    <2>3. Carries(facts'[i], facts[i])
      BY <2>1, <2>2 DEF Stored
    <2>4. CASE i \notin tx[w].closed
      <3>1. facts'[i] = facts[i]
        BY <2>1, <2>2, <2>4 DEF Stored
      <3>2. facts[i].by \in 1 .. Len(facts)
        BY <2>2, <3>1 DEF SupersessionsMeet
      <3>3. Carries(facts'[facts[i].by], facts[facts[i].by]) /\ Len(facts) <= Len(facts')
        BY <2>1, <3>2 DEF Stored
      <3>4. LET g == facts[facts[i].by] IN
            /\ g.agent = facts[i].agent /\ g.predicate = facts[i].predicate
            /\ g.from = facts[i].to /\ facts[i].from < g.from
        BY <2>2, <3>1 DEF SupersessionsMeet
      <3>5. Len(facts') \in Nat
        BY <2>1 DEF Stored
      <3>. QED  BY <2>1, <3>1, <3>2, <3>3, <3>4, <3>5 DEF Carries
    <2>5. CASE i \in tx[w].closed
      <3>1. /\ facts[i].agent = tx[w].rel.agent /\ facts[i].predicate = tx[w].predicate
            /\ facts[i].from < tx[w].rel.from
        BY <2>5 DEF RowsAreKnown
      <3>2. facts'[i].to = tx[w].rel.from
        BY <2>1, <2>2, <2>5 DEF Stored
      <3>3. CASE tx[w].fact = 0
        <4>1. /\ facts'[i].by = Len(facts) + 1 /\ Len(facts') = Len(facts) + 1
              /\ facts'[Len(facts) + 1] = NewFact(w)
          BY <2>1, <2>2, <2>5, <3>3 DEF Stored
        <4>. QED  BY <2>1, <2>3, <3>1, <3>2, <4>1 DEF NewFact, Carries
      <3>4. CASE tx[w].fact # 0
        <4>1. /\ facts'[i].by = tx[w].fact /\ Len(facts') = Len(facts)
              /\ tx[w].fact \in 1 .. Len(facts)
          BY <2>1, <2>2, <2>5, <3>4, RowsHeld DEF Stored
        <4>2. Carries(facts'[tx[w].fact], facts[tx[w].fact])
          BY <2>1, <4>1 DEF Stored
        <4>3. SameKey(facts[tx[w].fact], tx[w].predicate, tx[w].rel)
          BY <3>4 DEF RowsAreKnown
        <4>. QED  BY <2>3, <3>1, <3>2, <4>1, <4>2, <4>3 DEF Carries, SameKey
      <3>. QED  BY <3>3, <3>4
    <2>. QED  BY <2>4, <2>5
  <1>2. CASE UNCHANGED facts
    BY <1>2 DEF SupersessionsMeet
  <1>. QED
    BY <1>1, <1>2, NextCases, QuietSteps
    DEF Patches, PatchPredicate, add_predicate_alias, Tick, vars

(* A superseded fact ends when the one that took over begins, whoever else  *)
(* writes facts meanwhile.                                                 *)
THEOREM NoGapAtSupersession == Spec => []SupersessionsMeet
  <1>1. Init => Typed /\ RowsAreKnown /\ SupersessionsMeet
    BY TypedInit, RowsInit, MeetInit
  <1>2. Typed /\ RowsAreKnown /\ SupersessionsMeet /\ [Next]_vars
            => (Typed /\ RowsAreKnown /\ SupersessionsMeet)'
    BY TypedStep, RowsStep, MeetStep
  <1>. QED  BY <1>1, <1>2, PTL DEF Spec

(* Keys.                                                                    *)

LEMMA KeysInit == Init => KeysAreNew /\ NoDuplicateFacts
  BY IdleHoldsNothing DEF Init, KeysAreNew, Inserting, NoDuplicateFacts

LEMMA KeysStep == Typed /\ RowsAreKnown /\ KeysAreNew /\ [Next]_vars => KeysAreNew'
  <1> SUFFICES ASSUME Typed, RowsAreKnown, KeysAreNew, [Next]_vars PROVE KeysAreNew'
    OBVIOUS
  <1>1. ASSUME NEW w \in Writers, WriterStep(w) PROVE KeysAreNew'
    <2>1. UNCHANGED facts
      BY <1>1, QuietSteps
    <2>2. CASE Begun(w) \/ Named(w)
      <3>1. Moved(w) /\ tx'[w].pc \in {"missed", "resolved"}
        BY <2>2 DEF Begun, Named
      <3>. QED  BY <2>1, <3>1 DEF Moved, KeysAreNew, Inserting, Reserves, NewFact, Open, SameKey
    <2>3. CASE Upserted(w)
      <3>1. ASSUME NEW v \in Writers \ {w}, Inserting(v)
            PROVE  ~Reserves(w, tx[v].predicate, tx[v].rel)'
        <4> SUFFICES ASSUME Reserves(w, tx[v].predicate, tx[v].rel)' PROVE FALSE
          OBVIOUS
        <4>1. /\ tx'[v] = tx[v] /\ tx'[w].predicate = tx[w].predicate /\ tx'[w].rel = tx[w].rel
              /\ tx'[w].fact = 0 /\ tx[w].rel.to = Unknown
          BY <2>3 DEF Upserted, SameButFact, Moved, Reserves, NewFact, SameKey
        <4>2. ~Reserves(v, tx[w].predicate, tx[w].rel)
          BY <2>3, <4>1 DEF Upserted
        <4>. QED  BY <3>1, <4>1, <4>2 DEF Reserves, NewFact, SameKey, Inserting
      <3>2. ASSUME NEW v \in Writers \ {w}
            PROVE  /\ tx'[v] = tx[v] /\ (Inserting(v)' => Inserting(v))
                   /\ \A p, r : Reserves(v, p, r)' <=> Reserves(v, p, r)
        BY <2>3 DEF Upserted, Moved, Inserting, Reserves, NewFact, SameKey
      <3>3. Inserting(w)' =>
              /\ \A i \in 1 .. Len(facts) : Open(i) => ~SameKey(facts[i], tx[w].predicate, tx[w].rel)
              /\ \A v \in Writers \ {w} : ~Reserves(v, tx[w].predicate, tx[w].rel)
        BY <2>3 DEF Upserted, SameButFact, Inserting
      <3>4. tx'[w].predicate = tx[w].predicate /\ tx'[w].rel = tx[w].rel
        BY <2>3 DEF Upserted, SameButFact
      <3>. QED  BY <2>1, <3>1, <3>2, <3>3, <3>4 DEF KeysAreNew, Open, SameKey
    <2>4. CASE Superseded(w)
      <3>1. /\ \A v \in Writers \ {w} : tx'[v] = tx[v]
            /\ tx'[w].predicate = tx[w].predicate /\ tx'[w].rel = tx[w].rel
            /\ tx'[w].fact = tx[w].fact
            /\ tx[w].pc \in {"written", "superseding"}
            /\ tx'[w].pc \in {"superseding", "superseded"}
        BY <2>4 DEF Superseded, Picked, Left, SameButFact, Moved
      <3>2. \A v \in Writers :
              /\ Inserting(v)' => Inserting(v)
              /\ tx'[v].predicate = tx[v].predicate /\ tx'[v].rel = tx[v].rel
              /\ \A p, r : Reserves(v, p, r)' => Reserves(v, p, r)
        BY <3>1 DEF Inserting, Reserves, NewFact, SameKey
      <3>. QED  BY <2>1, <3>2 DEF KeysAreNew, Open, SameKey
    <2>5. CASE Ended(w)
      <3>1. /\ \A v \in Writers \ {w} : tx'[v] = tx[v]
            /\ tx'[w].pc = "idle"
        BY <2>5, IdleHoldsNothing DEF Ended, Moved
      <3>. QED  BY <2>1, <3>1 DEF KeysAreNew, Inserting, Reserves, NewFact, Open, SameKey
    <2>. QED  BY <1>1, <2>2, <2>3, <2>4, <2>5, QuietSteps
  <1>2. ASSUME NEW w \in Writers, Commit(w) PROVE KeysAreNew'
    <2>1. /\ \A v \in Writers \ {w} : tx'[v] = tx[v]
          /\ tx'[w].pc = "idle"
      BY <1>2, CommitEffect, IdleHoldsNothing DEF Ended, Moved
    <2>2. ASSUME NEW v \in Writers, Inserting(v)', NEW i \in 1 .. Len(facts'),
                 facts'[i].to = Unknown, SameKey(facts'[i], tx[v].predicate, tx[v].rel)
          PROVE  FALSE
      <3>1. v # w /\ Inserting(v)
        BY <2>1, <2>2 DEF Inserting
      <3>2. CASE i \in 1 .. Len(facts)
        <4>1. Open(i) /\ facts'[i] = facts[i]
          BY <1>2, <2>2, <3>2, StillOpen
        <4>. QED  BY <2>2, <3>1, <3>2, <4>1 DEF KeysAreNew
      <3>3. CASE i \notin 1 .. Len(facts)
        <4>1. tx[w].fact = 0 /\ tx[w].pc = "superseded" /\ facts'[i] = NewFact(w)
          BY <1>2, <3>3, Appended
        <4>2. Reserves(w, tx[v].predicate, tx[v].rel)
          BY <2>2, <4>1 DEF Reserves, SameKey, NewFact
        <4>. QED  BY <3>1, <4>2 DEF KeysAreNew
      <3>. QED  BY <3>2, <3>3
    <2>. QED  BY <2>1, <2>2 DEF KeysAreNew, Inserting, Reserves, NewFact, SameKey, Open
  <1>3. CASE Patches
    BY <1>3 DEF Patches, PatchPredicate, add_predicate_alias, Tick, KeysAreNew, Inserting,
                Reserves, NewFact, Open, SameKey
  <1>4. CASE UNCHANGED vars
    BY <1>4 DEF vars, KeysAreNew, Inserting, Reserves, NewFact, Open, SameKey
  <1>. QED  BY <1>1, <1>2, <1>3, <1>4, NextCases

LEMMA DuplicatesStep ==
    Typed /\ RowsAreKnown /\ KeysAreNew /\ NoDuplicateFacts /\ [Next]_vars => NoDuplicateFacts'
  <1> SUFFICES ASSUME Typed, RowsAreKnown, KeysAreNew, NoDuplicateFacts, [Next]_vars
               PROVE  NoDuplicateFacts'
    OBVIOUS
  <1>1. ASSUME NEW w \in Writers, Commit(w) PROVE NoDuplicateFacts'
    <2>1. ASSUME NEW i \in 1 .. Len(facts), NEW j \in 1 .. Len(facts'), j \notin 1 .. Len(facts),
                 facts'[i].to = Unknown, facts'[j].to = Unknown,
                 facts'[i].agent = facts'[j].agent, facts'[i].object = facts'[j].object,
                 facts'[i].from = facts'[j].from, facts'[i].predicate = facts'[j].predicate
          PROVE  FALSE
      <3>1. Open(i) /\ facts'[i] = facts[i]
        BY <1>1, <2>1, StillOpen
      <3>2. tx[w].fact = 0 /\ tx[w].pc = "superseded" /\ facts'[j] = NewFact(w)
        BY <1>1, <2>1, Appended
      <3>3. Inserting(w) /\ SameKey(facts[i], tx[w].predicate, tx[w].rel)
        BY <2>1, <3>1, <3>2 DEF Inserting, SameKey, NewFact
      <3>. QED  BY <3>1, <3>3 DEF KeysAreNew
    <2>2. \A i \in 1 .. Len(facts) : facts'[i].to = Unknown => Open(i) /\ facts'[i] = facts[i]
      BY <1>1, StillOpen
    <2>3. \A i, j \in 1 .. Len(facts') :
             i \notin 1 .. Len(facts) /\ j \notin 1 .. Len(facts) => i = j
      BY <1>1, Appended
    <2>. QED  BY <2>1, <2>2, <2>3 DEF NoDuplicateFacts, Open
  <1>2. CASE UNCHANGED facts
    BY <1>2 DEF NoDuplicateFacts, Open
  <1>. QED
    BY <1>1, <1>2, NextCases, QuietSteps
    DEF Patches, PatchPredicate, add_predicate_alias, Tick, vars

(* One open row for each fact: a writer either finds the row or is alone in *)
(* inserting its key.                                                      *)
THEOREM FactsAreUnique == Spec => []NoDuplicateFacts
  <1>1. Init => Typed /\ RowsAreKnown /\ KeysAreNew /\ NoDuplicateFacts
    BY TypedInit, RowsInit, KeysInit
  <1>2. Typed /\ RowsAreKnown /\ KeysAreNew /\ NoDuplicateFacts /\ [Next]_vars
            => (Typed /\ RowsAreKnown /\ KeysAreNew /\ NoDuplicateFacts)'
    BY TypedStep, RowsStep, KeysStep, DuplicatesStep
  <1>. QED  BY <1>1, <1>2, PTL DEF Spec

-----------------------------------------------------------------------------
(* The advisory lock.                                                       *)

LEMMA NamedStep == Typed /\ OneNamed /\ [Next]_vars => OneNamed'
  <1> SUFFICES ASSUME Typed, OneNamed, [Next]_vars PROVE OneNamed'
    OBVIOUS
  <1>1. ASSUME NEW w \in Writers, WriterStep(w) \/ Commit(w) PROVE OneNamed'
    <2>1. CASE Begun(w)
      BY <2>1 DEF Begun, Moved, advisory_lock_free, OneNamed
    <2>2. CASE Named(w)
      BY <2>2 DEF Named, Moved, OneNamed
    <2>3. CASE Upserted(w)
      BY <2>3 DEF Upserted, SameButFact, Moved, OneNamed
    <2>4. CASE Superseded(w)
      <3>1. tx[w].pc # "idle" /\ tx'[w].rel = tx[w].rel
        BY <2>4 DEF Superseded, Picked, Left, SameButFact
      <3>. QED  BY <2>4, <3>1 DEF Superseded, Moved, OneNamed
    <2>5. CASE Ended(w)
      BY <2>5, IdleHoldsNothing DEF Ended, Moved, OneNamed
    <2>. QED  BY <1>1, <2>1, <2>2, <2>3, <2>4, <2>5, QuietSteps, CommitEffect
  <1>2. CASE Patches
    BY <1>2 DEF Patches, PatchPredicate, add_predicate_alias, Tick, OneNamed
  <1>3. CASE UNCHANGED vars
    BY <1>3 DEF vars, OneNamed
  <1>. QED  BY <1>1, <1>2, <1>3, NextCases

LEMMA EarlierStep ==
    Typed /\ RowsAreKnown /\ OneNamed /\ EarlierAreClosed /\ [Next]_vars => EarlierAreClosed'
  <1> SUFFICES ASSUME Typed, RowsAreKnown, OneNamed, EarlierAreClosed, [Next]_vars
               PROVE  EarlierAreClosed'
    OBVIOUS
  <1>1. ASSUME NEW w \in Writers, WriterStep(w) PROVE EarlierAreClosed'
    <2>1. UNCHANGED facts
      BY <1>1, QuietSteps
    <2>2. CASE Superseded(w)
      <3>1. /\ \A v \in Writers \ {w} : tx'[v] = tx[v]
            /\ SameButFact(tx[w], tx'[w]) /\ tx'[w].fact = tx[w].fact
        BY <2>2 DEF Superseded, Moved
      <3>2. tx'[w].fact = 0 /\ tx'[w].rel.named /\ tx'[w].truth =>
              \A i \in 1 .. Len(facts) :
                /\ Open(i) /\ facts[i].named
                /\ facts[i].agent = tx'[w].rel.agent /\ facts[i].predicate = tx'[w].predicate
                /\ facts[i].from # Unknown /\ facts[i].from < tx'[w].rel.from
                => i \in tx'[w].closed
        <4>1. CASE Picked(w)
          BY <3>1, <4>1 DEF Picked, SameButFact, Conflicting
        <4>2. CASE Left(w)
          <5> SUFFICES ASSUME tx'[w].fact = 0, tx'[w].rel.named, tx'[w].truth,
                              NEW i \in 1 .. Len(facts), Open(i), facts[i].named,
                              facts[i].agent = tx'[w].rel.agent,
                              facts[i].predicate = tx'[w].predicate,
                              facts[i].from # Unknown, facts[i].from < tx'[w].rel.from
                       PROVE  i \in tx'[w].closed
            OBVIOUS
          <5>1. /\ tx'[w].rel = tx[w].rel /\ tx'[w].predicate = tx[w].predicate
                /\ tx'[w].truth = tx[w].truth /\ tx'[w].fact = tx[w].fact
            BY <3>1 DEF SameButFact
          <5>2. i \in tx[w].closed
            BY <4>2, <5>1 DEF Left, EarlierAreClosed
          <5>3. i \in Conflicting(w)
            BY <5>1 DEF Conflicting
          <5>. QED  BY <4>2, <5>2, <5>3 DEF Left
        <4>. QED  BY <2>2, <4>1, <4>2 DEF Superseded
      <3>. QED  BY <2>1, <3>1, <3>2 DEF EarlierAreClosed, Open
    <2>3. CASE Begun(w) \/ Named(w) \/ Upserted(w) \/ Ended(w)
      <3>1. Moved(w) /\ tx'[w].pc \notin {"superseding", "superseded"}
        BY <2>3, IdleHoldsNothing DEF Begun, Named, Upserted, Ended
      <3>. QED  BY <2>1, <3>1 DEF Moved, EarlierAreClosed, Open
    <2>. QED  BY <1>1, <2>2, <2>3, QuietSteps
  <1>2. ASSUME NEW w \in Writers, Commit(w) PROVE EarlierAreClosed'
    <2>1. /\ \A v \in Writers \ {w} : tx'[v] = tx[v]
          /\ tx'[w].pc = "idle"
      BY <1>2, CommitEffect, IdleHoldsNothing DEF Ended, Moved
    <2> SUFFICES ASSUME NEW v \in Writers, tx'[v].pc \in {"superseding", "superseded"}, tx'[v].fact = 0,
                        tx'[v].rel.named, tx'[v].truth,
                        NEW i \in 1 .. Len(facts'), facts'[i].to = Unknown, facts'[i].named,
                        facts'[i].agent = tx'[v].rel.agent,
                        facts'[i].predicate = tx'[v].predicate,
                        facts'[i].from # Unknown, facts'[i].from < tx'[v].rel.from
                 PROVE  i \in tx'[v].closed
      BY DEF EarlierAreClosed, Open
    <2>2. v # w /\ tx'[v] = tx[v]
      BY <2>1
    <2>3. CASE i \in 1 .. Len(facts)
      <3>1. Open(i) /\ facts'[i] = facts[i]
        BY <1>2, <2>3, StillOpen
      <3>. QED  BY <2>2, <2>3, <3>1 DEF EarlierAreClosed
    <2>4. CASE i \notin 1 .. Len(facts)
      <3>1. tx[w].pc = "superseded" /\ facts'[i] = NewFact(w)
        BY <1>2, <2>4, Appended
      <3>2. tx[w].rel.named
        BY <3>1 DEF NewFact
      <3>. QED  BY <2>2, <3>1, <3>2 DEF OneNamed
    <2>. QED  BY <2>3, <2>4
  <1>3. CASE Patches
    BY <1>3 DEF Patches, PatchPredicate, add_predicate_alias, Tick, EarlierAreClosed, Open
  <1>4. CASE UNCHANGED vars
    BY <1>4 DEF vars, EarlierAreClosed, Open
  <1>. QED  BY <1>1, <1>2, <1>3, <1>4, NextCases

LEMMA LaterStep ==
    Typed /\ RowsAreKnown /\ EarlierAreClosed /\ LaterStartsEarlier /\ [Next]_vars
        => LaterStartsEarlier'
  <1> SUFFICES ASSUME Typed, RowsAreKnown, EarlierAreClosed, LaterStartsEarlier, [Next]_vars
               PROVE  LaterStartsEarlier'
    OBVIOUS
  <1>1. ASSUME NEW w \in Writers, Commit(w) PROVE LaterStartsEarlier'
    <2> SUFFICES ASSUME NEW i \in 1 .. Len(facts'), NEW j \in 1 .. Len(facts'), i < j,
                        facts'[i].to = Unknown, facts'[j].to = Unknown,
                        facts'[i].agent = facts'[j].agent,
                        facts'[i].predicate = facts'[j].predicate,
                        facts'[i].named, facts'[j].named, facts'[j].truth,
                        facts'[i].from # Unknown
                 PROVE  facts'[j].from <= facts'[i].from
      BY DEF LaterStartsEarlier, Open
    <2>1. i \in 1 .. Len(facts)
      <3>1. Len(facts) \in Nat /\ Stored(w)
        BY <1>1, FactsAreFinite, CommitEffect
      <3>2. Len(facts') <= Len(facts) + 1 /\ Len(facts') \in Nat
        BY <3>1 DEF Stored
      <3>. QED  BY <3>1, <3>2
    <2>2. Open(i) /\ facts'[i] = facts[i] /\ i \notin tx[w].closed
      BY <1>1, <2>1, StillOpen
    <2>3. CASE j \in 1 .. Len(facts)
      <3>1. Open(j) /\ facts'[j] = facts[j]
        BY <1>1, <2>3, StillOpen
      <3>. QED  BY <2>1, <2>2, <2>3, <3>1 DEF LaterStartsEarlier
    <2>4. CASE j \notin 1 .. Len(facts)
      <3>1. tx[w].fact = 0 /\ tx[w].pc = "superseded" /\ facts'[j] = NewFact(w)
        BY <1>1, <2>4, Appended
      <3>2. /\ tx[w].rel.named /\ tx[w].truth
            /\ facts'[j].from = tx[w].rel.from
            /\ facts[i].agent = tx[w].rel.agent /\ facts[i].predicate = tx[w].predicate
        BY <2>2, <3>1 DEF NewFact
      <3>3. ~(facts[i].from < tx[w].rel.from)
        BY <2>1, <2>2, <3>1, <3>2 DEF EarlierAreClosed
      <3>4. facts[i].from \in Nat /\ tx[w].rel.from \in Nat
        BY <2>1, <3>1, FactFields, RelationOf
      <3>. QED  BY <2>2, <3>2, <3>3, <3>4
    <2>. QED  BY <2>3, <2>4
  <1>2. CASE UNCHANGED facts
    BY <1>2 DEF LaterStartsEarlier, Open
  <1>. QED
    BY <1>1, <1>2, NextCases, QuietSteps
    DEF Patches, PatchPredicate, add_predicate_alias, Tick, vars

LEMMA CurrentIsOpen ==
    ASSUME Typed, LaterStartsEarlier
    PROVE  OneCurrentFact
  <1> SUFFICES ASSUME NEW i \in 1 .. Len(facts), NEW j \in 1 .. Len(facts), i < j,
                      facts[i].agent = facts[j].agent, facts[i].predicate = facts[j].predicate,
                      facts[i].named, facts[j].named, facts[j].truth,
                      relation_temporal_status(facts[i], now) = "current",
                      facts[i].to = Unknown, facts[j].to = Unknown
               PROVE  facts[j].from <= facts[i].from
    BY DEF OneCurrentFact
  <1>1. facts[i].from # Unknown
    BY DEF relation_temporal_status
  <1>. QED  BY <1>1 DEF LaterStartsEarlier, Open

(* No current fact of an agent stays open beside one that began later and   *)
(* was written after it as current truth, if both writers took the          *)
(* advisory lock.                                                          *)
THEOREM OneCurrentValue == Spec => []OneCurrentFact
  <1> DEFINE Inv == /\ Typed /\ RowsAreKnown /\ OneNamed /\ EarlierAreClosed
                    /\ LaterStartsEarlier
  <1>1. Init => Inv
    <2>1. Init => OneNamed /\ EarlierAreClosed /\ LaterStartsEarlier
      BY IdleHoldsNothing DEF Init, OneNamed, EarlierAreClosed, LaterStartsEarlier
    <2>. QED  BY <2>1, TypedInit, RowsInit
  <1>2. Inv /\ [Next]_vars => Inv'
    BY TypedStep, RowsStep, NamedStep, EarlierStep, LaterStep
  <1>3. Inv => OneCurrentFact
    BY CurrentIsOpen
  <1>. QED  BY <1>1, <1>2, <1>3, PTL DEF Spec

=============================================================================
