--------------------------- MODULE NoteWritesProofs ---------------------------
(***************************************************************************)
(* What NoteWrites guarantees for every set of notes, requests, scopes,    *)
(* keys and texts and for every number of writes.  Each step either leaves *)
(* the rows and their histories alone or is one Write; the lemma Steps     *)
(* says so, with what each kind of write does to a row, and every theorem  *)
(* is read off it.                                                         *)
(***************************************************************************)
EXTENDS NoteWrites, TLAPS

USE NoteWritesAssumption DEF NoteWritesAssumption, Projects

(* The row of a version that one operation writes over row[n]. *)
Written(n, new, op) ==
    /\ op = "ADD" => /\ row[n].status = "none"
                     /\ new.project = ProjectOf(new.scope)
                     /\ \E r \in Requests : InsertNote(r, n)
    /\ op # "ADD" => row[n].status # "none"
    /\ op \in {"UPDATE", "DELETE", "DEPRECATE"} =>
         /\ new.scope = row[n].scope
         /\ new.project = row[n].project
         /\ new.key = row[n].key
    /\ op = "UPDATE" => /\ new.status = row[n].status
                        /\ new.source \in {row[n].source, "caller"}
    /\ op \in {"DELETE", "DEPRECATE"} => new.status \in Inactive
    /\ op = "RESTORE" =>
         \E i \in DOMAIN versions[n] : /\ versions[n][i].prev.status = "active"
                                       /\ new.scope = versions[n][i].prev.scope
    /\ op = "PUBLISH" => new.project = ProjectOf(new.scope)
    /\ op = "UNPUBLISH" =>
         /\ new.scope = "agent_private"
         /\ new.project = IF row[n].scope = "org_shared" THEN "home" ELSE row[n].project
    /\ new.status # "none"

(* What a step may do to the grants. *)
GrantsKept == \A g \in Projects \X Shared : grants[g] # "none" => grants'[g] # "none"

(* The scope a write puts a note into is its own, one a version already    *)
(* tells of, or one with a grant.                                          *)
ScopeGranted(n, new) ==
    \/ new.scope = row[n].scope /\ row[n].status # "none"
    \/ \E i \in DOMAIN versions[n] : /\ versions[n][i].prev.status = "active"
                                     /\ new.scope = versions[n][i].prev.scope
    \/ new.scope \in Shared => grants'[GrantOf(new.scope)] # "none"

(* A note to update exists. *)
ResolvedExist ==
    \A r \in Requests : adding[r].note \in Notes => row[adding[r].note].status # "none"

(* What becomes of the three tables. *)
Effect(n, new, op, ts) ==
    /\ row' \in [Notes -> Row]
    /\ versions' \in [Notes -> Seq(Version)]
    /\ queued' \in [Notes -> Jobs]
    /\ row'[n] = new
    /\ Len(versions'[n]) = Len(versions[n]) + 1
    /\ \A i \in 1 .. Len(versions[n]) : versions'[n][i] = versions[n][i]
    /\ versions'[n][Len(versions[n]) + 1] = [op |-> op, prev |-> row[n], new |-> new, ts |-> ts]
    /\ queued'[n] = IF op \in {"DELETE", "DEPRECATE"} THEN "DELETE" ELSE "UPSERT"
    /\ \A m \in Notes \ {n} : /\ row'[m] = row[m]
                              /\ versions'[m] = versions[m]
                              /\ queued'[m] = queued[m]

LEMMA WriteEffect ==
    ASSUME TypeOK, NEW n \in Notes, NEW new \in Row, NEW op \in Ops, NEW ts \in 1 .. MaxNow,
           Write(n, new, op, ts)
    PROVE  Effect(n, new, op, ts)
  <1> DEFINE v == [op |-> op, prev |-> row[n], new |-> new, ts |-> ts]
  <1>1. v \in Version
    BY DEF TypeOK, Version
  <1>2. versions[n] \in Seq(Version)
    BY DEF TypeOK
  <1>3. versions' = [versions EXCEPT ![n] = Append(versions[n], v)]
    BY DEF Write, TypeOK
  <1> HIDE DEF v
  <1>4. /\ Append(versions[n], v) \in Seq(Version)
        /\ Len(Append(versions[n], v)) = Len(versions[n]) + 1
        /\ \A i \in 1 .. Len(versions[n]) : Append(versions[n], v)[i] = versions[n][i]
        /\ Append(versions[n], v)[Len(versions[n]) + 1] = v
    BY <1>1, <1>2
  <1>5. versions'[n] = Append(versions[n], v) /\ versions' \in [Notes -> Seq(Version)]
    BY <1>3, <1>4 DEF TypeOK
  <1>6. /\ row' \in [Notes -> Row]
        /\ queued' \in [Notes -> Jobs]
        /\ row'[n] = new
        /\ queued'[n] = IF op \in {"DELETE", "DEPRECATE"} THEN "DELETE" ELSE "UPSERT"
    BY DEF Write, TypeOK, Jobs
  <1>7. \A m \in Notes \ {n} : /\ row'[m] = row[m]
                               /\ versions'[m] = versions[m]
                               /\ queued'[m] = queued[m]
    BY <1>3 DEF Write, TypeOK
  <1>. QED  BY <1>4, <1>5, <1>6, <1>7 DEF v, Effect

(* ensure_active_project_scope_grant never takes a grant away. *)
LEMMA EnsureKeeps ==
    ASSUME TypeOK, NEW p \in Projects, NEW s \in Scopes, ensure_active_project_scope_grant(p, s)
    PROVE  /\ GrantsKept
           /\ grants' \in [Projects \X Shared -> {"none", "active", "revoked"}]
           /\ s \in Shared => grants'[<<p, s>>] # "none"
  BY DEF TypeOK, ensure_active_project_scope_grant, GrantsKept

LEMMA GrantNames ==
    ASSUME NEW s \in Scopes
    PROVE  /\ ProjectOf(s) \in Projects
           /\ s \in Shared => GrantOf(s) \in Projects \X Shared
  BY DEF ProjectOf, GrantOf

LEMMA EnsureOwn ==
    ASSUME TypeOK, NEW s \in Scopes, ensure_active_project_scope_grant(ProjectOf(s), s)
    PROVE  /\ GrantsKept
           /\ grants' \in [Projects \X Shared -> {"none", "active", "revoked"}]
           /\ s \in Shared => grants'[GrantOf(s)] # "none"
  BY GrantNames, EnsureKeeps DEF GrantOf

LEMMA KeptIs ==
    ASSUME GrantsKept, NEW s \in Shared, grants[GrantOf(s)] # "none"
    PROVE  grants'[GrantOf(s)] # "none"
  BY GrantNames DEF GrantsKept, Shared

(* What each write is. *)
WriteStep ==
    \E n \in Notes, new \in Row, op \in Ops, ts \in 1 .. MaxNow :
        /\ Write(n, new, op, ts)
        /\ Written(n, new, op)
        /\ GrantsKept
        /\ ScopeGranted(n, new)

(* A note that add_note inserts. *)
LEMMA InsertIsAWrite ==
    ASSUME TypeOK, NEW r \in Requests, NEW n \in Notes, InsertNote(r, n)
    PROVE  WriteStep
  <1> DEFINE new == [status |-> "active", scope |-> adding[r].scope,
                     project |-> ProjectOf(adding[r].scope), key |-> adding[r].key,
                     text |-> adding[r].text, source |-> "caller"]
  <1>1. new \in Row /\ adding[r].scope \in Scopes
    BY DEF TypeOK, Resolution, Row, Statuses, ProjectOf
  <1>2. now[r] \in 1 .. MaxNow
    BY DEF InsertNote, IsAdding, TypeOK, NotAdding
  <1>3. /\ Write(n, new, "ADD", now[r])
        /\ ensure_active_project_scope_grant(ProjectOf(new.scope), new.scope)
    BY DEF InsertNote
  <1>4. GrantsKept /\ ScopeGranted(n, new)
    <2> HIDE DEF new
    <2>1. new.scope \in Scopes
      BY <1>1 DEF Row
    <2>. QED  BY <1>3, <2>1, EnsureOwn DEF ScopeGranted
  <1>5. Written(n, new, "ADD")
    BY DEF Written, InsertNote, Inactive
  <1>. QED  BY <1>1, <1>2, <1>3, <1>4, <1>5 DEF WriteStep, Ops

(* A note that add_note updates in place. *)
LEMMA UpdateInPlaceIsAWrite ==
    ASSUME TypeOK, ResolvedExist, NEW r \in Requests, UpdateInPlace(r)
    PROVE  WriteStep
  <1> DEFINE n   == adding[r].note
             new == [row[n] EXCEPT !.text = adding[r].text, !.source = "caller"]
  <1>1. n \in Notes /\ row[n] \in Row /\ row[n].status # "none"
    BY DEF UpdateInPlace, TypeOK, Resolution, ResolvedExist
  <1>2. new \in Row /\ new.scope = row[n].scope /\ new.scope \in Scopes
    BY <1>1 DEF TypeOK, Resolution, Row
  <1>3. now[r] \in 1 .. MaxNow
    BY DEF UpdateInPlace, IsAdding, TypeOK, NotAdding
  <1>4. Write(n, new, "UPDATE", now[r]) /\ ensure_active_project_scope_grant(new.project, new.scope)
    BY <1>2 DEF UpdateInPlace
  <1>5. GrantsKept /\ ScopeGranted(n, new)
    <2> HIDE DEF new
    <2>1. new.project \in Projects /\ new.scope \in Scopes
      BY <1>2 DEF Row
    <2>. QED  BY <1>1, <1>2, <1>4, <2>1, EnsureKeeps DEF ScopeGranted
  <1>6. Written(n, new, "UPDATE")
    BY <1>1 DEF Written, Row
  <1>. QED  BY <1>1, <1>2, <1>3, <1>4, <1>5, <1>6 DEF WriteStep, Ops

(* The writes of a request that holds the row from the start. *)
LEMMA NoteStepIsAWrite ==
    ASSUME TypeOK, NEW r \in Requests, NEW n \in Notes, WriteNote(r, n)
    PROVE  WriteStep
  <1>a. InFlight(r) /\ UNCHANGED grants
    BY DEF WriteNote, UpdateNote, DeleteNote, CorrectByDelete, SupersedeNote, RestoreVersion,
           RestoreLatest, RestoreFrom
  <1>1. now[r] \in 1 .. MaxNow /\ UNCHANGED grants
    BY <1>a DEF InFlight, TypeOK
  <1>2. GrantsKept
    BY <1>1 DEF GrantsKept
  <1>3. row[n] \in Row
    BY DEF TypeOK
  <1>4. CASE \E t \in Texts : UpdateNote(r, n, t)
    <2> PICK t \in Texts : UpdateNote(r, n, t)
      BY <1>4
    <2> DEFINE new == [row[n] EXCEPT !.text = t]
    <2>1. new \in Row
      BY <1>3 DEF Row
    <2>2. Written(n, new, "UPDATE") /\ ScopeGranted(n, new)
      BY <1>3 DEF UpdateNote, Written, ScopeGranted, Row
    <2>. QED  BY <1>1, <1>2, <2>1, <2>2 DEF UpdateNote, WriteStep, Ops
  <1>5. CASE DeleteNote(r, n)
    <2> DEFINE new == [row[n] EXCEPT !.status = "deleted"]
    <2>1. new \in Row
      BY <1>3 DEF Row, Statuses
    <2>2. Written(n, new, "DELETE") /\ ScopeGranted(n, new)
      BY <1>3, <1>5 DEF DeleteNote, Written, ScopeGranted, Row, Inactive
    <2>. QED  BY <1>1, <1>2, <1>5, <2>1, <2>2 DEF DeleteNote, WriteStep, Ops
  <1>6. CASE CorrectByDelete(r, n)
    <2> DEFINE new == [row[n] EXCEPT !.status = "deleted", !.source = "correction"]
    <2>1. new \in Row
      BY <1>3 DEF Row, Statuses
    <2>2. Written(n, new, "DELETE") /\ ScopeGranted(n, new)
      BY <1>3, <1>6 DEF CorrectByDelete, Written, ScopeGranted, Row, Inactive
    <2>. QED  BY <1>1, <1>2, <1>6, <2>1, <2>2 DEF CorrectByDelete, WriteStep, Ops
  <1>7. CASE SupersedeNote(r, n)
    <2> DEFINE new == [row[n] EXCEPT !.status = "deprecated", !.source = "correction"]
    <2>1. new \in Row
      BY <1>3 DEF Row, Statuses
    <2>2. Written(n, new, "DEPRECATE") /\ ScopeGranted(n, new)
      BY <1>3, <1>7 DEF SupersedeNote, Written, ScopeGranted, Row, Inactive
    <2>. QED  BY <1>1, <1>2, <1>7, <2>1, <2>2 DEF SupersedeNote, WriteStep, Ops
  <1>8. CASE RestoreVersion(r, n) \/ RestoreLatest(r, n)
    <2> PICK i \in Restorable(n) : RestoreFrom(r, n, i)
      BY <1>8 DEF RestoreVersion, RestoreLatest, LatestByTime, Retirements
    <2>c. i \in DOMAIN versions[n] /\ versions[n][i].prev.status = "active"
      BY DEF Restorable
    <2>d. versions[n] \in Seq(Version)
      BY DEF TypeOK
    <2>e. versions[n][i] \in Version
      BY <2>c, <2>d
    <2>1. /\ i \in DOMAIN versions[n]
          /\ versions[n][i].prev.status = "active"
          /\ versions[n][i].prev \in Row
      BY <2>c, <2>e DEF Version
    <2> DEFINE old == versions[n][i].prev
    <2>a. old \in Row /\ old.status = "active" /\ row[n].project \in {"home", "__org__"}
      BY <1>3, <2>1 DEF Row
    <2>b. Restored(n, i) = [old EXCEPT !.project = row[n].project, !.source = "correction"]
      BY DEF Restored
    <2>2. Restored(n, i) \in Row /\ Restored(n, i).status = "active"
      <3> HIDE DEF old
      <3>. QED  BY <2>a, <2>b DEF Row
    <2>3. Restored(n, i).scope = versions[n][i].prev.scope
      BY <2>1 DEF Restored, Row
    <2>4. Written(n, Restored(n, i), "RESTORE") /\ ScopeGranted(n, Restored(n, i))
      BY <2>1, <2>2, <2>3 DEF RestoreFrom, Written, ScopeGranted, Inactive
    <2>. QED  BY <1>1, <1>2, <2>2, <2>4 DEF RestoreFrom, WriteStep, Ops
  <1>. QED  BY <1>4, <1>5, <1>6, <1>7, <1>8 DEF WriteNote

(* The writes that move a note between scopes. *)
LEMMA ShareStepIsAWrite ==
    ASSUME TypeOK, NEW n \in Notes, ShareNote(n)
    PROVE  WriteStep
  <1>1. row[n] \in Row
    BY DEF TypeOK
  <1>2. CASE \E s \in Scopes : PublishNote(n, s)
    <2> PICK s \in Scopes : PublishNote(n, s)
      BY <1>2
    <2> DEFINE new == [row[n] EXCEPT !.scope = s, !.project = ProjectOf(s)]
    <2>1. new \in Row
      BY <1>1 DEF Row, ProjectOf
    <2>2. Write(n, new, "PUBLISH", clock + 1) /\ clock + 1 \in 1 .. MaxNow
      BY <1>1 DEF PublishNote, Move, TypeOK, Row
    <2>3. GrantsKept /\ ScopeGranted(n, new)
      <3>1. new.scope = s
        BY <1>1 DEF Row
      <3>. QED  BY <3>1, EnsureOwn DEF PublishNote, ScopeGranted
    <2>4. Written(n, new, "PUBLISH")
      BY <1>1 DEF PublishNote, Move, Written, Row
    <2>. QED  BY <2>1, <2>2, <2>3, <2>4 DEF WriteStep, Ops
  <1>3. CASE UnpublishNote(n)
    <2> DEFINE new == [row[n] EXCEPT !.scope = "agent_private",
                          !.project = IF "UNPUBLISH" = "UNPUBLISH" /\ row[n].scope # "org_shared"
                                      THEN @ ELSE ProjectOf("agent_private")]
    <2>1. new \in Row
      BY <1>1 DEF Row, ProjectOf
    <2>2. Write(n, new, "UNPUBLISH", clock + 1) /\ clock + 1 \in 1 .. MaxNow
      BY <1>3 DEF UnpublishNote, Move, TypeOK
    <2>3. GrantsKept /\ ScopeGranted(n, new)
      BY <1>1, <1>3 DEF UnpublishNote, GrantsKept, ScopeGranted, Row, Shared
    <2>4. Written(n, new, "UNPUBLISH")
      BY <1>1, <1>3 DEF UnpublishNote, Move, Written, Row, ProjectOf
    <2>. QED  BY <2>1, <2>2, <2>3, <2>4 DEF WriteStep, Ops
  <1>. QED  BY <1>2, <1>3 DEF ShareNote

(* Every step is a write or leaves the notes alone. *)
LEMMA Steps ==
    ASSUME TypeOK, ResolvedExist, [Next]_vars
    PROVE  \/ UNCHANGED <<row, versions, queued>> /\ GrantsKept
           \/ WriteStep
  <1>1. CASE \E r \in Requests : Arrive(r) \/ GiveUp(r)
    BY <1>1 DEF Arrive, GiveUp, GrantsKept
  <1>2. CASE \E r \in Requests : AddNote(r)
    <2> PICK r \in Requests : AddNote(r)
      BY <1>2
    <2>1. CASE \E s \in Scopes, k \in Keys \cup {Null}, t \in Texts : Resolve(r, s, k, t)
      BY <2>1 DEF Resolve, GrantsKept
    <2>. QED  BY <2>1, InsertIsAWrite, UpdateInPlaceIsAWrite DEF AddNote
  <1>3. CASE \E r \in Requests, n \in Notes : WriteNote(r, n)
    BY <1>3, NoteStepIsAWrite
  <1>4. CASE \E n \in Notes : ShareNote(n)
    BY <1>4, ShareStepIsAWrite
  <1>5. CASE \E s \in Scopes : GrantProject(s) \/ RevokeProject(s)
    <2> PICK s \in Scopes : GrantProject(s) \/ RevokeProject(s)
      BY <1>5
    <2>1. CASE GrantProject(s)
      BY <2>1, EnsureOwn DEF GrantProject
    <2>2. CASE RevokeProject(s)
      BY <2>2 DEF RevokeProject, GrantsKept, TypeOK
    <2>. QED  BY <2>1, <2>2
  <1>6. CASE UNCHANGED vars
    BY <1>6 DEF vars, GrantsKept
  <1>. QED  BY <1>1, <1>2, <1>3, <1>4, <1>5, <1>6 DEF Next

-----------------------------------------------------------------------------
(* Type correctness.                                                       *)

LEMMA InitTyped == Init => TypeOK
  <1> SUFFICES ASSUME Init PROVE TypeOK
    OBVIOUS
  <1>1. NoRow \in Row /\ NotAdding \in Resolution
    BY DEF NoRow, Row, Statuses, NotAdding, Resolution
  <1>2. <<>> \in Seq(Version)
    OBVIOUS
  <1>. QED  BY <1>1, <1>2 DEF Init, TypeOK, Jobs

(* The tables are typed after every step, the requests in flight too. *)
LEMMA TablesTyped ==
    ASSUME TypeOK, ResolvedExist, [Next]_vars
    PROVE  /\ row' \in [Notes -> Row]
           /\ versions' \in [Notes -> Seq(Version)]
           /\ queued' \in [Notes -> Jobs]
  <1>1. CASE UNCHANGED <<row, versions, queued>>
    BY <1>1 DEF TypeOK
  <1>2. CASE WriteStep
    <2> PICK n \in Notes, new \in Row, op \in Ops, ts \in 1 .. MaxNow : Write(n, new, op, ts)
      BY <1>2 DEF WriteStep
    <2>1. Effect(n, new, op, ts)
      BY WriteEffect
    <2>. QED  BY <2>1 DEF Effect
  <1>. QED  BY <1>1, <1>2, Steps

(* What add_note resolves is an active note of its identity or none. *)
LEMMA ResolveEffect ==
    ASSUME NEW r \in Requests, NEW s \in Scopes, NEW k \in Keys \cup {Null}, NEW t \in Texts,
           Resolve(r, s, k, t)
    PROVE  \E x \in Candidates(s, TrimmedKey(k), t) \cup {Null} :
             /\ adding' = [adding EXCEPT ![r] = [scope |-> s, key |-> k, text |-> t, note |-> x]]
             /\ x # Null => TrimmedKey(k) # Null
             /\ TrimmedKey(k) # Null /\ x = Null => Candidates(s, TrimmedKey(k), t) = {}
             /\ TrimmedKey(k) = Null =>
                  \A n \in Candidates(s, TrimmedKey(k), t) : row[n].source # "caller"
  <1> DEFINE wanted == [scope |-> s, key |-> k, text |-> t, note |-> Null]
             found  == Candidates(s, TrimmedKey(k), t)
  <1>0. \/ /\ TrimmedKey(k) # Null
           /\ \E n \in Oldest(found) : adding' = [adding EXCEPT ![r] = [wanted EXCEPT !.note = n]]
        \/ /\ IF TrimmedKey(k) # Null THEN found = {}
                                       ELSE \A n \in found : row[n].source # "caller"
           /\ adding' = [adding EXCEPT ![r] = wanted]
    BY DEF Resolve
  <1>1. CASE /\ TrimmedKey(k) # Null
             /\ \E n \in Oldest(found) : adding' = [adding EXCEPT ![r] = [wanted EXCEPT !.note = n]]
    <2> PICK n \in Oldest(found) : adding' = [adding EXCEPT ![r] = [wanted EXCEPT !.note = n]]
      BY <1>1
    <2>1. [wanted EXCEPT !.note = n] = [scope |-> s, key |-> k, text |-> t, note |-> n]
      OBVIOUS
    <2>2. n \in found
      BY DEF Oldest
    <2> HIDE DEF found, wanted
    <2>3. adding' = [adding EXCEPT ![r] = [scope |-> s, key |-> k, text |-> t, note |-> n]]
      BY <2>1
    <2>4. found # {} /\ n # Null
      BY <2>2 DEF found, Candidates
    <2>. QED  BY <1>1, <2>2, <2>3, <2>4 DEF found
  <1>2. CASE /\ IF TrimmedKey(k) # Null THEN found = {}
                                       ELSE \A n \in found : row[n].source # "caller"
             /\ adding' = [adding EXCEPT ![r] = wanted]
    BY <1>2
  <1>. QED  BY <1>0, <1>1, <1>2

LEMMA RequestsTyped ==
    ASSUME TypeOK, [Next]_vars
    PROVE  /\ grants' \in [Projects \X Shared -> {"none", "active", "revoked"}]
           /\ clock' \in 0 .. MaxNow
           /\ now' \in [Requests -> 0 .. MaxNow]
           /\ \A r \in Requests : now'[r] <= clock'
           /\ adding' \in [Requests -> Resolution]
           /\ \A r \in Requests : now'[r] = 0 => adding'[r] = NotAdding
  <1> DEFINE Goal == /\ grants' \in [Projects \X Shared -> {"none", "active", "revoked"}]
                     /\ clock' \in 0 .. MaxNow
                     /\ now' \in [Requests -> 0 .. MaxNow]
                     /\ \A r \in Requests : now'[r] <= clock'
                     /\ adding' \in [Requests -> Resolution]
                     /\ \A r \in Requests : now'[r] = 0 => adding'[r] = NotAdding
  <1>1. NotAdding \in Resolution
    BY DEF NotAdding, Resolution
  <1>2. ASSUME NEW r \in Requests, Arrive(r) PROVE Goal
    BY <1>2 DEF Arrive, TypeOK
  <1>3. ASSUME NEW r \in Requests, GiveUp(r) PROVE Goal
    BY <1>1, <1>3 DEF GiveUp, TypeOK
  <1>4. ASSUME NEW r \in Requests, Done(r), NEW s \in Scopes,
               NEW p \in Projects,
               UNCHANGED grants \/ ensure_active_project_scope_grant(p, s)
        PROVE  Goal
    <2>1. grants' \in [Projects \X Shared -> {"none", "active", "revoked"}]
      BY <1>4, EnsureKeeps DEF TypeOK
    <2>. QED  BY <1>1, <1>4, <2>1 DEF Done, TypeOK
  <1>5. ASSUME NEW r \in Requests, AddNote(r) PROVE Goal
    <2>1. CASE \E s \in Scopes, k \in Keys \cup {Null}, t \in Texts : Resolve(r, s, k, t)
      <3> PICK s \in Scopes, k \in Keys \cup {Null}, t \in Texts : Resolve(r, s, k, t)
        BY <2>1
      <3>1. now[r] # 0 /\ UNCHANGED <<grants, clock, now>>
        BY DEF Resolve
      <3>2. PICK x \in Notes \cup {Null} :
              adding' = [adding EXCEPT ![r] = [scope |-> s, key |-> k, text |-> t, note |-> x]]
        BY ResolveEffect DEF Candidates
      <3>3. [scope |-> s, key |-> k, text |-> t, note |-> x] \in Resolution
        BY DEF Resolution
      <3>4. adding' \in [Requests -> Resolution]
        BY <3>2, <3>3 DEF TypeOK
      <3>5. ASSUME NEW q \in Requests, now'[q] = 0 PROVE adding'[q] = NotAdding
        <4>1. q # r /\ now[q] = 0
          BY <3>1, <3>5
        <4>2. adding'[q] = adding[q]
          BY <3>2, <4>1 DEF TypeOK
        <4>. QED  BY <4>1, <4>2 DEF TypeOK
      <3>6. UNCHANGED <<grants, clock, now>>
        BY <3>1
      <3>7. /\ grants' \in [Projects \X Shared -> {"none", "active", "revoked"}]
            /\ clock' \in 0 .. MaxNow /\ now' \in [Requests -> 0 .. MaxNow]
            /\ \A q \in Requests : now'[q] <= clock'
        BY <3>6 DEF TypeOK
      <3>. QED  BY <3>4, <3>5, <3>7
    <2>2. ASSUME NEW n \in Notes, InsertNote(r, n) PROVE Goal
      <3>1. adding[r].scope \in Scopes
        BY DEF TypeOK, Resolution
      <3>2. /\ Done(r)
            /\ ensure_active_project_scope_grant(ProjectOf(adding[r].scope), adding[r].scope)
        BY <2>2 DEF InsertNote
      <3>3. ProjectOf(adding[r].scope) \in Projects
        BY <3>1, GrantNames
      <3>. HIDE DEF Goal
      <3>. QED  BY <1>4, <3>1, <3>2, <3>3
    <2>3. CASE UpdateInPlace(r)
      <3>1. /\ row[adding[r].note].scope \in Scopes
            /\ row[adding[r].note].project \in Projects
        BY <2>3 DEF UpdateInPlace, TypeOK, Resolution, Row
      <3>. QED  BY <2>3, <3>1, <1>4 DEF UpdateInPlace
    <2>. QED  BY <1>5, <2>1, <2>2, <2>3 DEF AddNote
  <1>6. ASSUME NEW r \in Requests, NEW n \in Notes, WriteNote(r, n) PROVE Goal
    <2>1. UNCHANGED grants /\ Done(r)
      BY <1>6 DEF WriteNote, UpdateNote, DeleteNote, CorrectByDelete, SupersedeNote,
                  RestoreVersion, RestoreLatest, RestoreFrom
    <2>. QED  BY <2>1, <1>4 
  <1>7. ASSUME NEW n \in Notes, ShareNote(n) PROVE Goal
    <2>1. clock < MaxNow /\ clock' = clock + 1 /\ UNCHANGED <<now, adding>>
      BY <1>7 DEF ShareNote, PublishNote, UnpublishNote, Move
    <2>2. grants' \in [Projects \X Shared -> {"none", "active", "revoked"}]
      BY <1>7, EnsureOwn DEF ShareNote, PublishNote, UnpublishNote, TypeOK
    <2>. QED  BY <2>1, <2>2 DEF TypeOK
  <1>8. ASSUME NEW s \in Scopes, GrantProject(s) \/ RevokeProject(s) PROVE Goal
    <2>1. UNCHANGED <<clock, now, adding>>
      BY <1>8 DEF GrantProject, RevokeProject
    <2>2. grants' \in [Projects \X Shared -> {"none", "active", "revoked"}]
      BY <1>8, EnsureOwn DEF GrantProject, RevokeProject, TypeOK
    <2>. QED  BY <2>1, <2>2 DEF TypeOK
  <1>9. CASE UNCHANGED vars
    BY <1>9 DEF vars, TypeOK
  <1>. QED  BY <1>2, <1>3, <1>5, <1>6, <1>7, <1>8, <1>9 DEF Next

(* A step starts an add_note or, at most, ends some. *)
LEMMA AddingSteps ==
    ASSUME TypeOK, [Next]_vars, NEW r \in Requests
    PROVE  \/ adding'[r] = adding[r]
           \/ adding'[r] = NotAdding
           \/ \E q \in Requests, s \in Scopes, k \in Keys \cup {Null}, t \in Texts :
                  Resolve(q, s, k, t)
  <1>1. ASSUME NEW q \in Requests, Done(q) \/ GiveUp(q)
        PROVE  adding'[r] = adding[r] \/ adding'[r] = NotAdding
    BY <1>1 DEF Done, GiveUp, TypeOK
  <1>2. CASE \E q \in Requests, n \in Notes : WriteNote(q, n)
    BY <1>1, <1>2 DEF WriteNote, UpdateNote, DeleteNote, CorrectByDelete, SupersedeNote,
                     RestoreVersion, RestoreLatest, RestoreFrom
  <1>3. CASE \E q \in Requests : AddNote(q)
    BY <1>1, <1>3 DEF AddNote, InsertNote, UpdateInPlace
  <1>4. CASE \/ \E n \in Notes : ShareNote(n)
             \/ \E s \in Scopes : GrantProject(s) \/ RevokeProject(s)
             \/ UNCHANGED vars
    BY <1>4 DEF ShareNote, PublishNote, UnpublishNote, Move, GrantProject, RevokeProject, vars
  <1>5. CASE \E q \in Requests : Arrive(q)
    BY <1>5 DEF Arrive
  <1>. QED  BY <1>1, <1>2, <1>3, <1>4, <1>5 DEF Next

(* A row that exists goes on to exist, so what was resolved does. *)
LEMMA ResolvedStay ==
    ASSUME TypeOK, ResolvedExist, [Next]_vars
    PROVE  ResolvedExist'
  <1>1. ASSUME NEW n \in Notes, row[n].status # "none" PROVE row'[n].status # "none"
    <2>1. CASE UNCHANGED <<row, versions, queued>>
      BY <1>1, <2>1
    <2>2. CASE WriteStep
      <3> PICK m \in Notes, new \in Row, op \in Ops, ts \in 1 .. MaxNow :
                 Write(m, new, op, ts) /\ Written(m, new, op)
        BY <2>2 DEF WriteStep
      <3>0. Effect(m, new, op, ts)
        BY WriteEffect
      <3>1. row'[m] = new /\ \A x \in Notes \ {m} : row'[x] = row[x]
        BY <3>0 DEF Effect
      <3>. QED  BY <1>1, <3>1 DEF Written
    <2>. QED  BY <2>1, <2>2, Steps
  <1>2. ASSUME NEW r \in Requests, adding'[r].note \in Notes
        PROVE  row[adding'[r].note].status # "none"
    <2>1. CASE adding'[r] = adding[r]
      BY <1>2, <2>1 DEF ResolvedExist
    <2>2. CASE adding'[r] = NotAdding
      BY <1>2, <2>2 DEF NotAdding
    <2>3. CASE \E q \in Requests, s \in Scopes, k \in Keys \cup {Null}, t \in Texts :
                 Resolve(q, s, k, t)
      <3> PICK q \in Requests, s \in Scopes, k \in Keys \cup {Null}, t \in Texts :
                 Resolve(q, s, k, t)
        BY <2>3
      <3>1. PICK x \in Candidates(s, TrimmedKey(k), t) \cup {Null} :
              adding' = [adding EXCEPT ![q] = [scope |-> s, key |-> k, text |-> t, note |-> x]]
        BY ResolveEffect
      <3>2. adding'[r] = adding[r] \/ adding'[r].note = x
        BY <3>1 DEF TypeOK
      <3>3. x \in Notes => row[x].status = "active"
        BY <3>1 DEF Candidates
      <3>. QED  BY <1>2, <2>1, <3>2, <3>3
    <2>. QED  BY <2>1, <2>2, <2>3, AddingSteps
  <1>. QED  BY <1>1, <1>2, RequestsTyped DEF ResolvedExist, Resolution

(* Every variable keeps its type: no add_note leaves a resolution behind.   *)
THEOREM NoteWritesTyped == Spec => [](TypeOK /\ ResolvedExist)
  <1>1. Init => TypeOK /\ ResolvedExist
    BY InitTyped DEF Init, ResolvedExist, NotAdding
  <1>2. TypeOK /\ ResolvedExist /\ [Next]_vars
            => (TypeOK /\ ResolvedExist)'
    BY TablesTyped, RequestsTyped, ResolvedStay DEF TypeOK
  <1>. QED  BY <1>1, <1>2, PTL DEF Spec

-----------------------------------------------------------------------------
(* The history of a note.                                                  *)

LEMMA ChainsStep == TypeOK /\ ResolvedExist /\ HistoryChains /\ [Next]_vars => HistoryChains'
  <1>. SUFFICES ASSUME TypeOK, ResolvedExist, HistoryChains, [Next]_vars PROVE HistoryChains'
    OBVIOUS
  <1>1. CASE UNCHANGED <<row, versions, queued>>
    BY <1>1 DEF HistoryChains
  <1>2. CASE WriteStep
    <2> PICK n \in Notes, new \in Row, op \in Ops, ts \in 1 .. MaxNow :
               Write(n, new, op, ts) /\ Written(n, new, op)
      BY <1>2 DEF WriteStep
    <2> DEFINE h == versions[n]
               Chain(m) == /\ versions[m] = <<>> => row[m] = NoRow /\ queued[m] = "none"
                           /\ versions[m] # <<>> =>
                                /\ versions[m][1].op = "ADD"
                                /\ versions[m][Len(versions[m])].new = row[m]
                                /\ queued[m] = IF versions[m][Len(versions[m])].op
                                                      \in {"DELETE", "DEPRECATE"}
                                               THEN "DELETE" ELSE "UPSERT"
                           /\ \A i \in 2 .. Len(versions[m]) :
                                versions[m][i].prev = versions[m][i - 1].new
    <2>0. Effect(n, new, op, ts)
      BY WriteEffect
    <2>1. /\ versions' \in [Notes -> Seq(Version)]
          /\ row'[n] = new
          /\ Len(versions'[n]) = Len(h) + 1
          /\ \A i \in 1 .. Len(h) : versions'[n][i] = h[i]
          /\ versions'[n][Len(h) + 1] = [op |-> op, prev |-> row[n], new |-> new, ts |-> ts]
          /\ queued'[n] = IF op \in {"DELETE", "DEPRECATE"} THEN "DELETE" ELSE "UPSERT"
          /\ \A m \in Notes \ {n} : /\ row'[m] = row[m]
                                    /\ versions'[m] = versions[m]
                                    /\ queued'[m] = queued[m]
      BY <2>0 DEF Effect
    <2>2. h \in Seq(Version) /\ versions'[n] \in Seq(Version)
      BY <2>1 DEF TypeOK
    <2>3. versions'[n] # <<>>
      BY <2>1, <2>2
    <2>4. versions'[n][Len(versions'[n])].new = row'[n]
      BY <2>1
    <2>5. versions'[n][1].op = "ADD"
      <3>1. CASE h = <<>>
        <4>1. row[n].status = "none"
          BY <3>1 DEF HistoryChains, NoRow
        <4>2. op = "ADD"
          BY <4>1 DEF Written
        <4>. QED  BY <2>1, <3>1, <4>2
      <3>2. CASE h # <<>>
        <4>1. 1 \in 1 .. Len(h) /\ h[1].op = "ADD"
          BY <2>2, <3>2 DEF HistoryChains
        <4>. QED  BY <2>1, <4>1
      <3>. QED  BY <3>1, <3>2
    <2>6. ASSUME NEW i \in 2 .. Len(versions'[n])
          PROVE  versions'[n][i].prev = versions'[n][i - 1].new
      <3>1. CASE i \in 2 .. Len(h)
        <4>1. h[i].prev = h[i - 1].new
          BY <3>1 DEF HistoryChains
        <4>2. i \in 1 .. Len(h) /\ i - 1 \in 1 .. Len(h)
          BY <2>2, <3>1
        <4>3. versions'[n][i] = h[i] /\ versions'[n][i - 1] = h[i - 1]
          BY <2>1, <4>2
        <4>. QED  BY <4>1, <4>3
      <3>2. CASE i = Len(h) + 1
        <4>1. h # <<>> /\ Len(h) \in 1 .. Len(h) /\ i - 1 = Len(h)
          BY <2>2, <3>2
        <4>2. h[Len(h)].new = row[n]
          BY <4>1 DEF HistoryChains
        <4>. QED  BY <2>1, <3>2, <4>1, <4>2
      <3>. QED  BY <2>1, <2>2, <3>1, <3>2
    <2>7. queued'[n] = IF versions'[n][Len(versions'[n])].op \in {"DELETE", "DEPRECATE"}
                       THEN "DELETE" ELSE "UPSERT"
      BY <2>1
    <2>8. \A m \in Notes : Chain(m)
      BY DEF HistoryChains
    <2>9. ASSUME NEW m \in Notes \ {n} PROVE Chain(m)'
      <3>1. row'[m] = row[m] /\ versions'[m] = versions[m] /\ queued'[m] = queued[m]
        BY <2>1
      <3>2. Chain(m)
        BY <2>8
      <3>. QED  BY <3>1, <3>2
    <2>10. Chain(n)'
      BY <2>3, <2>4, <2>5, <2>6, <2>7
    <2>. QED  BY <2>9, <2>10 DEF HistoryChains
  <1>. QED  BY <1>1, <1>2, Steps

(* Every history is a chain of snapshots from the ADD to the row, and the   *)
(* outbox wants the point that the newest version wants.                   *)
THEOREM HistoriesChain == Spec => []HistoryChains
  <1>1. Init => HistoryChains
    <2>1. Len(<<>>) = 0 /\ 2 .. 0 = {}
      OBVIOUS
    <2>2. ASSUME Init, NEW n \in Notes PROVE row[n] = NoRow /\ versions[n] = <<>>
      BY <2>2 DEF Init
    <2>. QED  BY <2>1, <2>2 DEF Init, HistoryChains
  <1>. QED  BY <1>1, ChainsStep, NoteWritesTyped, PTL DEF Spec

-----------------------------------------------------------------------------
(* Scopes, projects and grants.                                            *)

LEMMA ScopeStep ==
    TypeOK /\ ResolvedExist /\ ScopeMatchesProject /\ [Next]_vars => ScopeMatchesProject'
  <1>. SUFFICES ASSUME TypeOK, ResolvedExist, ScopeMatchesProject, [Next]_vars,
                       NEW m \in Notes, row'[m].project # ProjectOf(row'[m].scope)
                PROVE  \E i \in DOMAIN versions'[m] : versions'[m][i].op = "RESTORE"
    BY DEF ScopeMatchesProject
  <1>1. CASE UNCHANGED <<row, versions, queued>>
    BY <1>1 DEF ScopeMatchesProject
  <1>2. CASE WriteStep
    <2> PICK n \in Notes, new \in Row, op \in Ops, ts \in 1 .. MaxNow :
               Write(n, new, op, ts) /\ Written(n, new, op)
      BY <1>2 DEF WriteStep
    <2>0. Effect(n, new, op, ts)
      BY WriteEffect
    <2>1. /\ row'[n] = new
          /\ Len(versions'[n]) = Len(versions[n]) + 1
          /\ \A i \in 1 .. Len(versions[n]) : versions'[n][i] = versions[n][i]
          /\ versions'[n][Len(versions[n]) + 1] =
               [op |-> op, prev |-> row[n], new |-> new, ts |-> ts]
          /\ \A x \in Notes \ {n} : row'[x] = row[x] /\ versions'[x] = versions[x]
          /\ versions' \in [Notes -> Seq(Version)]
      BY <2>0 DEF Effect
    <2>2. versions[n] \in Seq(Version) /\ versions'[n] \in Seq(Version) /\ row[n] \in Row
      BY <2>1 DEF TypeOK
    <2>3. CASE m # n
      <3>1. row'[m] = row[m] /\ versions'[m] = versions[m]
        BY <2>1, <2>3
      <3>2. PICK i \in DOMAIN versions[m] : versions[m][i].op = "RESTORE"
        BY <3>1 DEF ScopeMatchesProject
      <3>. QED  BY <3>1, <3>2
    <2>4. CASE m = n /\ op = "RESTORE"
      <3>1. Len(versions[n]) + 1 \in DOMAIN versions'[n]
        BY <2>1, <2>2
      <3>. QED  BY <2>1, <2>4, <3>1
    <2>5. CASE m = n /\ op # "RESTORE"
      <3>1. new.project # ProjectOf(new.scope)
        BY <2>1, <2>5
      <3>2. op \in {"UPDATE", "DELETE", "DEPRECATE", "UNPUBLISH"}
        BY <2>5, <3>1 DEF Ops, Written
      <3>3. row[n].project # ProjectOf(row[n].scope)
        BY <2>2, <3>1, <3>2 DEF Written, ProjectOf, Row
      <3>4. PICK i \in DOMAIN versions[n] : versions[n][i].op = "RESTORE"
        BY <3>3 DEF ScopeMatchesProject
      <3>5. i \in 1 .. Len(versions[n]) /\ i \in DOMAIN versions'[n]
        BY <2>1, <2>2
      <3>. QED  BY <2>1, <2>5, <3>4, <3>5
    <2>. QED  BY <2>3, <2>4, <2>5
  <1>. QED  BY <1>1, <1>2, Steps

(* Only a restore leaves a note in a project that is not its scope's. *)
THEOREM ScopesMatch == Spec => []ScopeMatchesProject
  <1>1. Init => ScopeMatchesProject
    BY DEF Init, ScopeMatchesProject, NoRow, ProjectOf
  <1>. QED  BY <1>1, ScopeStep, NoteWritesTyped, PTL DEF Spec

(* The snapshots a restore may put back were granted as well. *)
SnapshotsWereGranted ==
    \A n \in Notes : \A i \in DOMAIN versions[n] :
        LET snapshot == versions[n][i].prev
        IN  snapshot.status = "active" /\ snapshot.scope \in Shared
              => grants[GrantOf(snapshot.scope)] # "none"

LEMMA GrantStep ==
    /\ TypeOK /\ ResolvedExist
    /\ SharedNotesWereGranted /\ SnapshotsWereGranted
    /\ [Next]_vars
    => SharedNotesWereGranted' /\ SnapshotsWereGranted'
  <1>. SUFFICES ASSUME TypeOK, ResolvedExist, SharedNotesWereGranted, SnapshotsWereGranted,
                       [Next]_vars
                PROVE  SharedNotesWereGranted' /\ SnapshotsWereGranted'
    OBVIOUS
  <1>1. CASE UNCHANGED <<row, versions, queued>> /\ GrantsKept
    BY <1>1, KeptIs DEF SharedNotesWereGranted, SnapshotsWereGranted
  <1>2. CASE WriteStep
    <2> PICK n \in Notes, new \in Row, op \in Ops, ts \in 1 .. MaxNow :
               Write(n, new, op, ts) /\ GrantsKept /\ ScopeGranted(n, new)
      BY <1>2 DEF WriteStep
    <2>0. Effect(n, new, op, ts)
      BY WriteEffect
    <2>1. /\ row'[n] = new
          /\ Len(versions'[n]) = Len(versions[n]) + 1
          /\ \A i \in 1 .. Len(versions[n]) : versions'[n][i] = versions[n][i]
          /\ versions'[n][Len(versions[n]) + 1] =
               [op |-> op, prev |-> row[n], new |-> new, ts |-> ts]
          /\ \A x \in Notes \ {n} : row'[x] = row[x] /\ versions'[x] = versions[x]
          /\ versions' \in [Notes -> Seq(Version)]
      BY <2>0 DEF Effect
    <2>2. versions[n] \in Seq(Version) /\ versions'[n] \in Seq(Version)
      BY <2>1 DEF TypeOK
    <2>3. ASSUME NEW s \in Shared, grants[GrantOf(s)] # "none" PROVE grants'[GrantOf(s)] # "none"
      BY <2>3, KeptIs
    <2>4. SharedNotesWereGranted'
      <3>1. new.scope \in Shared => grants'[GrantOf(new.scope)] # "none"
        BY <2>3 DEF ScopeGranted, SharedNotesWereGranted, SnapshotsWereGranted
      <3>. QED  BY <2>1, <2>3, <3>1 DEF SharedNotesWereGranted
    <2>5. ASSUME NEW i \in DOMAIN versions'[n], versions'[n][i].prev.status = "active",
                 versions'[n][i].prev.scope \in Shared
          PROVE  grants'[GrantOf(versions'[n][i].prev.scope)] # "none"
      <3>1. CASE i \in 1 .. Len(versions[n])
        <4>1. versions'[n][i] = versions[n][i] /\ i \in DOMAIN versions[n]
          BY <2>1, <2>2, <3>1
        <4>2. grants[GrantOf(versions[n][i].prev.scope)] # "none"
          BY <2>5, <4>1 DEF SnapshotsWereGranted
        <4>. QED  BY <2>3, <2>5, <4>1, <4>2
      <3>2. CASE i = Len(versions[n]) + 1
        BY <2>1, <2>3, <2>5, <3>2 DEF SharedNotesWereGranted
      <3>. QED  BY <2>1, <2>2, <3>1, <3>2
    <2>6. \A x \in Notes \ {n} : \A i \in DOMAIN versions'[x] :
            versions'[x][i].prev.status = "active" /\ versions'[x][i].prev.scope \in Shared
              => grants'[GrantOf(versions'[x][i].prev.scope)] # "none"
      <3>1. \A x \in Notes \ {n} : versions'[x] = versions[x]
        BY <2>1
      <3>. QED  BY <2>3, <3>1 DEF SnapshotsWereGranted
    <2>. QED  BY <2>4, <2>5, <2>6 DEF SnapshotsWereGranted
  <1>. QED  BY <1>1, <1>2, Steps

(* No note is in a shared scope its project was never granted.             *)
THEOREM SharedNotesGranted == Spec => []SharedNotesWereGranted
  <1>1. Init => SharedNotesWereGranted /\ SnapshotsWereGranted
    BY DEF Init, SharedNotesWereGranted, SnapshotsWereGranted, NoRow
  <1>. QED  BY <1>1, GrantStep, NoteWritesTyped, PTL DEF Spec

-----------------------------------------------------------------------------
(* One note per identity.                                                  *)

(* An active note that only requests under the advisory lock, or requests   *)
(* that keep its identity, have written.                                   *)
Settled(n) == row[n].status = "active" /\ ~Moved(n)

(* Whether note n is what a lookup under this lock identity looks for. *)
Found(n, a) ==
    /\ row[n].scope = a.scope
    /\ row[n].key = TrimmedKey(a.key)
    /\ row[n].key = Null => row[n].text = a.text

(* A lookup does not overlook a settled note. *)
SettledAreVisible ==
    \A n \in Notes : Settled(n) => /\ row[n].source = "caller"
                                   /\ row[n].project = ProjectOf(row[n].scope)

LocksApart ==
    \A q, r \in Requests :
        IsAdding(q) /\ IsAdding(r) /\ q # r => LockIdentity(adding[q]) # LockIdentity(adding[r])

(* What a request is about to insert is not there yet. *)
PendingIsNew ==
    \A r \in Requests, n \in Notes :
        IsAdding(r) /\ adding[r].note = Null => ~(Settled(n) /\ Found(n, adding[r]))

IdentityInv == OneNotePerIdentity /\ SettledAreVisible /\ LocksApart /\ PendingIsNew

LEMMA TrimmedKeys ==
    ASSUME NEW k \in Keys \cup {Null}
    PROVE  /\ TrimmedKey(k) \in Keys \cup {Null}
           /\ TrimmedKey(TrimmedKey(k)) = TrimmedKey(k)
  BY DEF TrimmedKey

(* A settled note was settled before, with the same identity, or is the     *)
(* one add_note inserts.                                                   *)
LEMMA SettledSteps ==
    ASSUME TypeOK, ResolvedExist, [Next]_vars, NEW m \in Notes, Settled(m)'
    PROVE  \/ \E r \in Requests : InsertNote(r, m)
           \/ /\ Settled(m)
              /\ row'[m].scope = row[m].scope
              /\ row'[m].project = row[m].project
              /\ row'[m].key = row[m].key
              /\ row[m].key = Null => row'[m].text = row[m].text
              /\ row'[m].source \in {row[m].source, "caller"}
  <1>1. CASE row'[m] = row[m] /\ versions'[m] = versions[m]
    BY <1>1 DEF Settled, Moved
  <1>2. CASE WriteStep
    <2> PICK n \in Notes, new \in Row, op \in Ops, ts \in 1 .. MaxNow :
               Write(n, new, op, ts) /\ Written(n, new, op)
      BY <1>2 DEF WriteStep
    <2> DEFINE l == Len(versions[n])
    <2>0. Effect(n, new, op, ts)
      BY WriteEffect
    <2>1. /\ row'[n] = new
          /\ Len(versions'[n]) = l + 1
          /\ \A i \in 1 .. l : versions'[n][i] = versions[n][i]
          /\ versions'[n][l + 1] = [op |-> op, prev |-> row[n], new |-> new, ts |-> ts]
          /\ \A x \in Notes \ {n} : row'[x] = row[x] /\ versions'[x] = versions[x]
          /\ versions' \in [Notes -> Seq(Version)]
      BY <2>0 DEF Effect
    <2>2. /\ versions[n] \in Seq(Version) /\ versions'[n] \in Seq(Version)
          /\ l + 1 \in DOMAIN versions'[n]
          /\ DOMAIN versions[n] = 1 .. l
          /\ DOMAIN versions[n] \subseteq DOMAIN versions'[n]
      BY <2>1 DEF TypeOK
    <2> HIDE DEF l
    <2>3. CASE m # n
      BY <1>1, <2>1, <2>3
    <2>4. CASE m = n
      <3>1. versions'[n][l + 1].op = op
        BY <2>1
      <3>2. new.status = "active" /\ ~Moved(n)'
        BY <2>1, <2>4 DEF Settled
      <3>3. op \notin {"PUBLISH", "UNPUBLISH", "RESTORE"} /\ ~(op = "UPDATE" /\ new.key = Null)
        BY <2>1, <2>2, <3>1, <3>2 DEF Moved
      <3>4. op \in {"ADD", "UPDATE"}
        BY <3>2, <3>3 DEF Written, Inactive, Ops
      <3>5. CASE op = "ADD"
        BY <2>4, <3>5 DEF Written
      <3>6. CASE op = "UPDATE"
        <4>1. /\ row[n].key = new.key /\ new.key # Null
              /\ row[n].status = "active"
              /\ new.scope = row[n].scope /\ new.project = row[n].project
              /\ new.source \in {row[n].source, "caller"}
          BY <3>2, <3>3, <3>6 DEF Written
        <4>2. ~Moved(n)
          <5>1. SUFFICES ASSUME Moved(n) PROVE Moved(n)'
            BY <3>2
          <5>2. PICK i \in DOMAIN versions[n] :
                       versions[n][i].op \in {"PUBLISH", "UNPUBLISH", "RESTORE"}
            BY <4>1, <5>1 DEF Moved
          <5>3. i \in DOMAIN versions'[n] /\ versions'[n][i] = versions[n][i]
            BY <2>1, <2>2
          <5>. QED  BY <5>2, <5>3 DEF Moved
        <4>. QED  BY <2>1, <2>4, <4>1, <4>2 DEF Settled
      <3>. QED  BY <3>4, <3>5, <3>6
    <2>. QED  BY <2>3, <2>4
  <1>. QED  BY <1>1, <1>2, Steps

(* The row that add_note inserts. *)
LEMMA Inserted ==
    ASSUME TypeOK, NEW r \in Requests, NEW n \in Notes, InsertNote(r, n)
    PROVE  /\ IsAdding(r) /\ adding[r].note = Null
           /\ adding[r] \in Resolution
           /\ row'[n].scope = adding[r].scope
           /\ row'[n].project = ProjectOf(adding[r].scope)
           /\ row'[n].key = adding[r].key
           /\ row'[n].text = adding[r].text
           /\ row'[n].source = "caller"
           /\ \A m \in Notes : m # n => row'[m] = row[m] /\ versions'[m] = versions[m]
           /\ adding'[r] = NotAdding
  <1>1. /\ IsAdding(r) /\ adding[r].note = Null /\ adding[r] \in Resolution
        /\ adding' = [adding EXCEPT ![r] = NotAdding]
    BY DEF InsertNote, Done, TypeOK
  <1>2. row'[n] = [status |-> "active", scope |-> adding[r].scope,
                   project |-> ProjectOf(adding[r].scope), key |-> adding[r].key,
                   text |-> adding[r].text, source |-> "caller"]
    BY DEF InsertNote, Write, TypeOK
  <1>3. \A m \in Notes : m # n => row'[m] = row[m] /\ versions'[m] = versions[m]
    BY DEF InsertNote, Write, TypeOK
  <1>. QED  BY <1>1, <1>2, <1>3 DEF TypeOK

(* An insert leaves every other settled note as it was.                    *)
LEMMA KeptSettled ==
    ASSUME TypeOK, ResolvedExist, [Next]_vars, NEW m \in Notes, Settled(m)',
           NEW r \in Requests, NEW n \in Notes, InsertNote(r, n), m # n
    PROVE  Settled(m) /\ row'[m] = row[m]
  <1>1. row'[m] = row[m] /\ versions'[m] = versions[m]
    BY Inserted
  <1>. QED  BY <1>1 DEF Settled, Moved

LEMMA VisibleStep ==
    TypeOK /\ ResolvedExist /\ SettledAreVisible /\ [Next]_vars => SettledAreVisible'
  <1>. SUFFICES ASSUME TypeOK, ResolvedExist, SettledAreVisible, [Next]_vars,
                       NEW m \in Notes, Settled(m)'
                PROVE  row'[m].source = "caller" /\ row'[m].project = ProjectOf(row'[m].scope)
    BY DEF SettledAreVisible
  <1>1. CASE \E r \in Requests : InsertNote(r, m)
    <2> PICK r \in Requests : InsertNote(r, m)
      BY <1>1
    <2>. QED  BY Inserted
  <1>. QED  BY <1>1, SettledSteps DEF SettledAreVisible

LEMMA LocksStep == TypeOK /\ LocksApart /\ [Next]_vars => LocksApart'
  <1>. SUFFICES ASSUME TypeOK, LocksApart, [Next]_vars, NEW q \in Requests, NEW r \in Requests,
                       IsAdding(q)', IsAdding(r)', q # r
                PROVE  LockIdentity(adding'[q]) # LockIdentity(adding'[r])
    BY DEF LocksApart
  <1>1. adding'[q] # NotAdding /\ adding'[r] # NotAdding
    BY DEF IsAdding, NotAdding
  <1>2. CASE adding'[q] = adding[q] /\ adding'[r] = adding[r]
    BY <1>2 DEF LocksApart, IsAdding
  <1>3. CASE \E p \in Requests, s \in Scopes, k \in Keys \cup {Null}, t \in Texts :
               Resolve(p, s, k, t)
    <2> PICK p \in Requests, s \in Scopes, k \in Keys \cup {Null}, t \in Texts :
               Resolve(p, s, k, t)
      BY <1>3
    <2> DEFINE wanted == [scope |-> s, key |-> k, text |-> t, note |-> Null]
    <2>1. \A o \in Requests : IsAdding(o) => LockIdentity(adding[o]) # LockIdentity(wanted)
      BY DEF Resolve
    <2>2. PICK x : adding' = [adding EXCEPT ![p] = [scope |-> s, key |-> k, text |-> t, note |-> x]]
      BY ResolveEffect
    <2>3. LockIdentity(adding'[p]) = LockIdentity(wanted)
      BY <2>2 DEF LockIdentity, TypeOK
    <2>4. \A o \in Requests \ {p} : adding'[o] = adding[o]
      BY <2>2 DEF TypeOK
    <2> HIDE DEF wanted
    <2>5. CASE q = p
      BY <2>1, <2>3, <2>4, <2>5 DEF IsAdding
    <2>6. CASE r = p
      BY <2>1, <2>3, <2>4, <2>6 DEF IsAdding
    <2>7. CASE q # p /\ r # p
      BY <1>2, <2>4, <2>7
    <2>. QED  BY <2>5, <2>6, <2>7
  <1>. QED  BY <1>1, <1>2, <1>3, AddingSteps

LEMMA PendingStep ==
    /\ TypeOK /\ ResolvedExist
    /\ SettledAreVisible /\ LocksApart /\ PendingIsNew
    /\ [Next]_vars
    => PendingIsNew'
  <1>. SUFFICES ASSUME TypeOK, ResolvedExist, SettledAreVisible, LocksApart, PendingIsNew,
                       [Next]_vars, NEW r \in Requests, NEW n \in Notes,
                       IsAdding(r)', adding'[r].note = Null, Settled(n)', Found(n, adding[r])'
                PROVE  FALSE
    BY DEF PendingIsNew
  <1>1. adding'[r] # NotAdding
    BY DEF IsAdding, NotAdding
  <1>2. CASE \E p \in Requests, s \in Scopes, k \in Keys \cup {Null}, t \in Texts :
               Resolve(p, s, k, t)
    <2> PICK p \in Requests, s \in Scopes, k \in Keys \cup {Null}, t \in Texts :
               Resolve(p, s, k, t)
      BY <1>2
    <2>1. UNCHANGED <<row, versions>>
      BY DEF Resolve
    <2>2. Settled(n) /\ row[n].source = "caller" /\ row[n].project = ProjectOf(row[n].scope)
      BY <2>1 DEF Settled, Moved, SettledAreVisible
    <2>3. PICK x \in Candidates(s, TrimmedKey(k), t) \cup {Null} :
             /\ adding' = [adding EXCEPT ![p] = [scope |-> s, key |-> k, text |-> t, note |-> x]]
             /\ TrimmedKey(k) # Null /\ x = Null => Candidates(s, TrimmedKey(k), t) = {}
             /\ TrimmedKey(k) = Null =>
                  \A m \in Candidates(s, TrimmedKey(k), t) : row[m].source # "caller"
      BY ResolveEffect
    <2>4. CASE r = p
      <3>1. adding'[r] = [scope |-> s, key |-> k, text |-> t, note |-> x] /\ x = Null
        BY <2>3, <2>4 DEF TypeOK
      <3>2. /\ row[n].scope = s
            /\ row[n].key = TrimmedKey(k)
            /\ row[n].key = Null => row[n].text = t
        BY <2>1, <3>1 DEF Found
      <3>3. n \in Candidates(s, TrimmedKey(k), t)
        BY <2>2, <3>2 DEF Candidates, Settled
      <3>. QED  BY <2>2, <2>3, <3>1, <3>3
    <2>5. CASE r # p
      <3>1. adding'[r] = adding[r]
        BY <2>3, <2>5 DEF TypeOK
      <3>. QED  BY <2>1, <2>2, <3>1 DEF PendingIsNew, IsAdding, Found
    <2>. QED  BY <2>4, <2>5
  <1>3. CASE adding'[r] = adding[r]
    <2>1. IsAdding(r) /\ adding[r].note = Null
      BY <1>3 DEF IsAdding
    <2>2. adding[r] \in Resolution
      BY DEF TypeOK
    <2>3. CASE \E q \in Requests : InsertNote(q, n)
      <3> PICK q \in Requests : InsertNote(q, n)
        BY <2>3
      <3>1. /\ IsAdding(q)
            /\ adding[q] \in Resolution
            /\ row'[n].scope = adding[q].scope
            /\ row'[n].key = adding[q].key
            /\ row'[n].text = adding[q].text
            /\ adding'[q] = NotAdding
        BY Inserted DEF TypeOK
      <3>2. q # r
        BY <1>1, <3>1
      <3>3. /\ adding[q].scope = adding[r].scope
            /\ adding[q].key = TrimmedKey(adding[r].key)
            /\ adding[q].key = Null => adding[q].text = adding[r].text
        BY <1>3, <3>1 DEF Found
      <3>4. TrimmedKey(adding[q].key) = TrimmedKey(adding[r].key)
        BY <2>2, <3>3, TrimmedKeys DEF Resolution
      <3>5. TrimmedKey(adding[r].key) = Null => adding[q].text = adding[r].text
        BY <3>3
      <3>6. LockIdentity(adding[q]) = LockIdentity(adding[r])
        BY <3>3, <3>4, <3>5 DEF LockIdentity
      <3>. QED  BY <2>1, <3>1, <3>2, <3>6 DEF LocksApart
    <2>4. CASE /\ Settled(n)
               /\ row'[n].scope = row[n].scope
               /\ row'[n].key = row[n].key
               /\ row[n].key = Null => row'[n].text = row[n].text
      BY <1>3, <2>1, <2>4 DEF PendingIsNew, Found
    <2>. QED  BY <2>3, <2>4, SettledSteps
  <1>. QED  BY <1>1, <1>2, <1>3, AddingSteps

LEMMA OneNoteStep ==
    /\ TypeOK /\ ResolvedExist
    /\ OneNotePerIdentity /\ PendingIsNew
    /\ [Next]_vars
    => OneNotePerIdentity'
  <1>. SUFFICES ASSUME TypeOK, ResolvedExist, OneNotePerIdentity, PendingIsNew, [Next]_vars,
                       NEW m \in Notes, NEW n \in Notes, Settled(m)', Settled(n)',
                       SameIdentity(m, n)', TrimmedKey(row'[n].key) = row'[n].key, m # n
                PROVE  FALSE
    BY DEF OneNotePerIdentity, Settled
  <1>1. ASSUME NEW x \in Notes, NEW y \in Notes, x # y, Settled(x)', Settled(y)',
               SameIdentity(x, y)', TrimmedKey(row'[x].key) = row'[x].key,
               NEW r \in Requests, InsertNote(r, x)
        PROVE  FALSE
    <2>1. /\ IsAdding(r) /\ adding[r].note = Null
          /\ row'[x].scope = adding[r].scope
          /\ row'[x].key = adding[r].key
          /\ row'[x].text = adding[r].text
      BY <1>1, Inserted
    <2>2. Settled(y) /\ row'[y] = row[y]
      BY <1>1, KeptSettled
    <2>3. Found(y, adding[r])
      BY <1>1, <2>1, <2>2 DEF Found, SameIdentity
    <2>. QED  BY <2>1, <2>2, <2>3 DEF PendingIsNew
  <1>2. CASE \E r \in Requests : InsertNote(r, m)
    BY <1>1, <1>2 DEF SameIdentity
  <1>3. CASE \E r \in Requests : InsertNote(r, n)
    <2>1. SameIdentity(n, m)'
      BY DEF SameIdentity
    <2>. QED  BY <1>1, <1>3, <2>1
  <1> DEFINE Same(x) == /\ Settled(x)
                        /\ row'[x].scope = row[x].scope
                        /\ row'[x].key = row[x].key
                        /\ row[x].key = Null => row'[x].text = row[x].text
  <1>4. CASE Same(m) /\ Same(n)
    <2>1. SameIdentity(m, n) /\ TrimmedKey(row[n].key) = row[n].key
      BY <1>4 DEF SameIdentity
    <2>. QED  BY <1>4, <2>1 DEF OneNotePerIdentity, Settled
  <1>. QED  BY <1>2, <1>3, <1>4, SettledSteps

(* A trimmed key, or a keyless text, names at most one active note, but for *)
(* notes that were moved into place outside the advisory lock.             *)
THEOREM OneNoteEach == Spec => []OneNotePerIdentity
  <1>1. Init => IdentityInv
    <2>. SUFFICES ASSUME Init PROVE IdentityInv
      OBVIOUS
    <2>1. \A n \in Notes : row[n].status # "active"
      BY DEF Init, NoRow
    <2>2. \A r \in Requests : ~IsAdding(r)
      BY DEF Init, IsAdding, NotAdding
    <2>. QED
      BY <2>1, <2>2 DEF IdentityInv, OneNotePerIdentity, SettledAreVisible, LocksApart,
                        PendingIsNew, Settled
  <1>2. TypeOK /\ ResolvedExist /\ IdentityInv /\ [Next]_vars => IdentityInv'
    BY VisibleStep, LocksStep, PendingStep, OneNoteStep DEF IdentityInv
  <1>3. IdentityInv => OneNotePerIdentity
    BY DEF IdentityInv
  <1>. QED  BY <1>1, <1>2, <1>3, NoteWritesTyped, PTL DEF Spec
==============================================================================
