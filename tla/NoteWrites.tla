------------------------------ MODULE NoteWrites ------------------------------
(***************************************************************************)
(* The note rows themselves: the requests of one agent that write, move,   *)
(* retire and restore its notes, and the history each write appends.       *)
(*                                                                         *)
(* A request reads its clock when it arrives and opens its transaction     *)
(* afterwards.  Every handler but one locks its note FOR UPDATE in its     *)
(* first statement, so the transaction is one action.  add_note resolves   *)
(* its note under an advisory lock on the identity and locks the row later:*)
(* two actions, and other requests commit in between.  publish_note and    *)
(* unpublish_note read the clock under the row lock.                       *)
(*                                                                         *)
(* text stands for text, importance and confidence together.  Notes have   *)
(* no expires_at here, and one project besides the organisation's.         *)
(***************************************************************************)
EXTENDS Naturals, Sequences

CONSTANTS
    Notes,        \* note_id of the notes that may be written
    Requests,     \* requests that can be in flight at once
    Scopes,       \* the scopes of the configuration
    Keys,         \* note keys as callers send them
    Trimmed,      \* the key without its surrounding blanks, per key
    Texts,        \* what a note may say
    Null,         \* no key, no text, no note
    MaxNow        \* bound on the clock readings

Shared   == Scopes \cap {"project_shared", "org_shared"}
Projects == {"home", "__org__"}

ASSUME NoteWritesAssumption ==
    /\ Scopes \subseteq {"agent_private", "project_shared", "org_shared"}
    /\ "agent_private" \in Scopes
    /\ Null \notin Notes \cup Keys \cup Texts
    /\ Trimmed \in [Keys -> Keys \cup {Null}]
    /\ \A k \in Keys : Trimmed[k] # Null => Trimmed[Trimmed[k]] = Trimmed[k]
    /\ MaxNow \in Nat

VARIABLES
    row,          \* memory_notes
    versions,     \* memory_note_versions of each note, in order of commit
    queued,       \* op of the newest indexing_outbox row of each note
    grants,       \* memory_space_grants: the project grant per project and scope
    clock,        \* the last clock reading
    now,          \* the reading of each request in flight, 0 for none
    adding        \* what each add_note in flight has resolved

vars == <<row, versions, queued, grants, clock, now, adding>>

Statuses == {"none", "active", "deprecated", "deleted"}
Inactive == {"deprecated", "deleted"}
Jobs     == {"none", "UPSERT", "DELETE"}
Ops      == {"ADD", "UPDATE", "DELETE", "DEPRECATE", "RESTORE", "PUBLISH", "UNPUBLISH"}

(* A note, and the snapshot of it that a version keeps.  source tells the  *)
(* source_ref a caller gave from the one a correction wrote over it.       *)
Row == [status : Statuses, scope : Scopes, project : Projects,
        key : Keys \cup {Null}, text : Texts \cup {Null},
        source : {"caller", "correction"}]

NoRow == [status |-> "none", scope |-> "agent_private", project |-> "home",
          key |-> Null, text |-> Null, source |-> "caller"]

Version == [op : Ops, prev : Row, new : Row, ts : 1 .. MaxNow]

(* note is the note to update, Null for a note to insert. *)
Resolution == [scope : Scopes, key : Keys \cup {Null}, text : Texts \cup {Null},
               note : Notes \cup {Null}]

NotAdding == [scope |-> "agent_private", key |-> Null, text |-> Null, note |-> Null]

TypeOK ==
    /\ row \in [Notes -> Row]
    /\ versions \in [Notes -> Seq(Version)]
    /\ queued \in [Notes -> Jobs]
    /\ grants \in [Projects \X Shared -> {"none", "active", "revoked"}]
    /\ clock \in 0 .. MaxNow
    /\ now \in [Requests -> 0 .. MaxNow]
    /\ \A r \in Requests : now[r] <= clock
    /\ adding \in [Requests -> Resolution]
    /\ \A r \in Requests : now[r] = 0 => adding[r] = NotAdding

Init ==
    /\ row = [n \in Notes |-> NoRow]
    /\ versions = [n \in Notes |-> <<>>]
    /\ queued = [n \in Notes |-> "none"]
    /\ grants = [g \in Projects \X Shared |-> "none"]
    /\ clock = 0
    /\ now = [r \in Requests |-> 0]
    /\ adding = [r \in Requests |-> NotAdding]

-----------------------------------------------------------------------------
(* Requests and what their transactions write.                             *)

(* now_utc() at the top of a handler. *)
Arrive(r) ==
    /\ now[r] = 0
    /\ clock < MaxNow
    /\ clock' = clock + 1
    /\ now' = [now EXCEPT ![r] = clock + 1]
    /\ UNCHANGED <<row, versions, queued, grants, adding>>

(* Slip: the resolution of an add_note that failed is kept. *)
GiveUpKeepingResolution(r) ==
    /\ now[r] # 0
    /\ now' = [now EXCEPT ![r] = 0]
    /\ UNCHANGED <<row, versions, queued, grants, clock, adding>>

(* A rejection, a policy that ignores the note, a duplicate, an update that *)
(* changes nothing, an error or a lost client: the transaction leaves no    *)
(* trace in the notes.                                                     *)
GiveUp(r) ==
    /\ now[r] # 0
    /\ now' = [now EXCEPT ![r] = 0]
    /\ adding' = [adding EXCEPT ![r] = NotAdding]
    /\ UNCHANGED <<row, versions, queued, grants, clock>>

ProjectOf(s) == IF s = "org_shared" THEN "__org__" ELSE "home"

(* The grant that readers of scope s look for. *)
GrantOf(s) == <<ProjectOf(s), s>>

(* Slip: prev_snapshot is taken after the note was changed. *)
WriteLateSnapshot(n, new, op, ts) ==
    /\ row' = [row EXCEPT ![n] = new]
    /\ versions' = [versions EXCEPT ![n] =
                      Append(@, [op |-> op, prev |-> new, new |-> new, ts |-> ts])]
    /\ queued' = [queued EXCEPT ![n] =
                      IF op \in {"DELETE", "DEPRECATE"} THEN "DELETE" ELSE "UPSERT"]

(* insert_version and enqueue_outbox_tx, in the transaction that writes the *)
(* row: the old row and the new one as snapshots, under the request's time. *)
Write(n, new, op, ts) ==
    /\ row' = [row EXCEPT ![n] = new]
    /\ versions' = [versions EXCEPT ![n] =
                      Append(@, [op |-> op, prev |-> row[n], new |-> new, ts |-> ts])]
    /\ queued' = [queued EXCEPT ![n] =
                      IF op \in {"DELETE", "DEPRECATE"} THEN "DELETE" ELSE "UPSERT"]

(* ON CONFLICT with an active grant updates it; beside a revoked one a new  *)
(* grant is inserted.                                                      *)
ensure_active_project_scope_grant(p, s) ==
    grants' = [g \in Projects \X Shared |-> IF g = <<p, s>> THEN "active" ELSE grants[g]]

Done(r) ==
    /\ now' = [now EXCEPT ![r] = 0]
    /\ adding' = [adding EXCEPT ![r] = NotAdding]
    /\ UNCHANGED clock

-----------------------------------------------------------------------------
(* add_note and add_event.                                                 *)

TrimmedKey(k) == IF k = Null THEN Null ELSE Trimmed[k]

(* Slip: the text is part of the lock of a keyed note too. *)
LockIdentityWithText(a) == <<a.scope, TrimmedKey(a.key), a.text>>

(* What the advisory lock of resolve_update is on: the trimmed key, or the *)
(* text of a note without one.                                             *)
LockIdentity(a) ==
    <<a.scope, TrimmedKey(a.key), IF TrimmedKey(a.key) = Null THEN a.text ELSE Null>>

IsAdding(r) == adding[r].text # Null

(* RESOLVE_UPDATE_QUERY *)
Candidates(s, k, t) ==
    {n \in Notes : /\ row[n].status = "active"
                   /\ row[n].scope = s
                   /\ row[n].project = ProjectOf(s)
                   /\ IF k # Null THEN row[n].key = k
                                  ELSE row[n].key = Null /\ row[n].text = t}

(* ORDER BY created_at: the time of the version that added the note. *)
Oldest(S) == {n \in S : \A m \in S : versions[n][1].ts <= versions[m][1].ts}

(* resolve_update: the oldest note of the key is to be updated; a keyless   *)
(* text that is already there from this source is a duplicate, and the     *)
(* request has nothing left to do but give up; anything else is to be      *)
(* inserted.                                                               *)
Resolve(r, s, k, t) ==
    LET found  == Candidates(s, TrimmedKey(k), t)
        keyed  == TrimmedKey(k) # Null
        wanted == [scope |-> s, key |-> k, text |-> t, note |-> Null]
    IN  /\ now[r] # 0
        /\ ~IsAdding(r)
        /\ \A q \in Requests : IsAdding(q) => LockIdentity(adding[q]) # LockIdentity(wanted)
        /\ \/ /\ keyed /\ found # {}
              /\ \E n \in Oldest(found) : adding' = [adding EXCEPT ![r] = [wanted EXCEPT !.note = n]]
           \/ /\ IF keyed THEN found = {}
                          ELSE \A n \in found : row[n].source # "caller"
              /\ adding' = [adding EXCEPT ![r] = wanted]
        /\ UNCHANGED <<row, versions, queued, grants, clock, now>>

(* handle_add_note_add, persist_extracted_note_add: the key is stored as    *)
(* the caller sent it.                                                     *)
InsertNote(r, n) ==
    LET a == adding[r]
    IN  /\ IsAdding(r)
        /\ a.note = Null
        /\ row[n].status = "none"
        /\ Write(n, [status |-> "active", scope |-> a.scope, project |-> ProjectOf(a.scope),
                     key |-> a.key, text |-> a.text, source |-> "caller"], "ADD", now[r])
        /\ ensure_active_project_scope_grant(ProjectOf(a.scope), a.scope)
        /\ Done(r)

(* handle_add_note_update: the row is locked by its id, whatever became of  *)
(* it since it was resolved; status, scope, project and key stay.          *)
UpdateInPlace(r) ==
    LET a == adding[r]
        n == a.note
    IN  /\ IsAdding(r)
        /\ n # Null
        /\ a.text # row[n].text \/ row[n].source # "caller"
        /\ Write(n, [row[n] EXCEPT !.text = a.text, !.source = "caller"], "UPDATE", now[r])
        /\ ensure_active_project_scope_grant(row[n].project, row[n].scope)
        /\ Done(r)

-----------------------------------------------------------------------------
(* Updates, deletions, corrections and sharing.                            *)

InFlight(r) == now[r] # 0 /\ ~IsAdding(r)

UpdateNote(r, n, t) ==
    /\ InFlight(r)
    /\ row[n].status = "active"
    /\ row[n].text # t
    /\ Write(n, [row[n] EXCEPT !.text = t], "UPDATE", now[r])
    /\ UNCHANGED grants
    /\ Done(r)

DeleteNote(r, n) ==
    /\ InFlight(r)
    /\ row[n].status \in {"active", "deprecated"}
    /\ Write(n, [row[n] EXCEPT !.status = "deleted"], "DELETE", now[r])
    /\ UNCHANGED grants
    /\ Done(r)

(* The corrections of an operator: source_ref becomes the correction's.    *)
CorrectByDelete(r, n) ==
    /\ InFlight(r)
    /\ row[n].status \in {"active", "deprecated"}
    /\ Write(n, [row[n] EXCEPT !.status = "deleted", !.source = "correction"], "DELETE", now[r])
    /\ UNCHANGED grants
    /\ Done(r)

SupersedeNote(r, n) ==
    /\ InFlight(r)
    /\ row[n].status = "active"
    /\ Write(n, [row[n] EXCEPT !.status = "deprecated", !.source = "correction"],
             "DEPRECATE", now[r])
    /\ UNCHANGED grants
    /\ Done(r)

(* Versions of a note that its content can be restored from. *)
Restorable(n) == {i \in DOMAIN versions[n] : versions[n][i].prev.status = "active"}

Retirements(n) == {i \in Restorable(n) : versions[n][i].op \in {"DELETE", "DEPRECATE"}}

(* load_restore_snapshot without a version_id: ORDER BY ts DESC *)
LatestByTime(n) ==
    {i \in Retirements(n) : \A j \in Retirements(n) : versions[n][j].ts <= versions[n][i].ts}

(* apply_restore_snapshot: everything but the project comes back. *)
Restored(n, i) ==
    LET snapshot == versions[n][i].prev
    IN  [snapshot EXCEPT !.project = row[n].project, !.source = "correction"]

RestoreFrom(r, n, i) ==
    /\ InFlight(r)
    /\ row[n].status \in Inactive
    /\ Write(n, Restored(n, i), "RESTORE", now[r])
    /\ UNCHANGED grants
    /\ Done(r)

RestoreVersion(r, n) == \E i \in Restorable(n) : RestoreFrom(r, n, i)

RestoreLatest(r, n) == \E i \in LatestByTime(n) : RestoreFrom(r, n, i)

(* Slip: unpublish leaves the note in the organisation's project. *)
MoveInPlace(n, s, op) ==
    /\ row[n].status = "active"
    /\ clock < MaxNow
    /\ clock' = clock + 1
    /\ Write(n, [row[n] EXCEPT !.scope = s,
                    !.project = IF op = "UNPUBLISH" THEN @ ELSE ProjectOf(s)],
             op, clock + 1)
    /\ UNCHANGED <<now, adding>>

(* The clock is read under the row lock. *)
Move(n, s, op) ==
    /\ row[n].status = "active"
    /\ clock < MaxNow
    /\ clock' = clock + 1
    /\ Write(n, [row[n] EXCEPT !.scope = s,
                    !.project = IF op = "UNPUBLISH" /\ row[n].scope # "org_shared"
                                THEN @ ELSE ProjectOf(s)], op, clock + 1)
    /\ UNCHANGED <<now, adding>>

(* Slip: publish_note moves the note without a grant. *)
PublishNoteUngranted(n, s) ==
    /\ s \in Shared
    /\ row[n].scope # s \/ row[n].project # ProjectOf(s)
    /\ Move(n, s, "PUBLISH")
    /\ UNCHANGED grants

(* A note that is already there is answered without a commit, which rolls   *)
(* the grant back.                                                         *)
PublishNote(n, s) ==
    /\ s \in Shared
    /\ row[n].scope # s \/ row[n].project # ProjectOf(s)
    /\ Move(n, s, "PUBLISH")
    /\ ensure_active_project_scope_grant(ProjectOf(s), s)

UnpublishNote(n) ==
    /\ row[n].scope # "agent_private"
    /\ Move(n, "agent_private", "UNPUBLISH")
    /\ UNCHANGED grants

(* space_grant_upsert and space_grant_revoke with grantee_kind project. *)
GrantProject(s) ==
    /\ s \in Shared
    /\ ensure_active_project_scope_grant(ProjectOf(s), s)
    /\ UNCHANGED <<row, versions, queued, clock, now, adding>>

RevokeProject(s) ==
    /\ s \in Shared
    /\ grants[GrantOf(s)] = "active"
    /\ grants' = [grants EXCEPT ![GrantOf(s)] = "revoked"]
    /\ UNCHANGED <<row, versions, queued, clock, now, adding>>

AddNote(r) ==
    \/ \E s \in Scopes, k \in Keys \cup {Null}, t \in Texts : Resolve(r, s, k, t)
    \/ \E n \in Notes : InsertNote(r, n)
    \/ UpdateInPlace(r)

WriteNote(r, n) ==
    \/ \E t \in Texts : UpdateNote(r, n, t)
    \/ DeleteNote(r, n)
    \/ CorrectByDelete(r, n)
    \/ SupersedeNote(r, n)
    \/ RestoreVersion(r, n)
    \/ RestoreLatest(r, n)

ShareNote(n) ==
    \/ \E s \in Scopes : PublishNote(n, s)
    \/ UnpublishNote(n)

Next ==
    \/ \E r \in Requests :
         Arrive(r) \/ GiveUp(r) \/ AddNote(r) \/ \E n \in Notes : WriteNote(r, n)
    \/ \E n \in Notes : ShareNote(n)
    \/ \E s \in Scopes : GrantProject(s) \/ RevokeProject(s)

Spec == Init /\ [][Next]_vars

-----------------------------------------------------------------------------
(* The history of a note, in order of commit, is a chain of snapshots that *)
(* starts with its ADD and ends with its row, and the newest outbox row    *)
(* asks for the point the newest version wants.  Row locks are what makes  *)
(* it so: a snapshot taken before the lock would break the chain.          *)
HistoryChains ==
    \A n \in Notes :
        LET h == versions[n]
        IN  /\ h = <<>> => row[n] = NoRow /\ queued[n] = "none"
            /\ h # <<>> =>
                 /\ h[1].op = "ADD"
                 /\ h[Len(h)].new = row[n]
                 /\ queued[n] = IF h[Len(h)].op \in {"DELETE", "DEPRECATE"}
                                THEN "DELETE" ELSE "UPSERT"
            /\ \A i \in 2 .. Len(h) : h[i].prev = h[i - 1].new

(* A note whose identity was changed by a request that takes no advisory   *)
(* lock: publish, unpublish, restore, and update of a note without a key.  *)
Moved(n) ==
    \E i \in DOMAIN versions[n] :
        \/ versions[n][i].op \in {"PUBLISH", "UNPUBLISH", "RESTORE"}
        \/ versions[n][i].op = "UPDATE" /\ row[n].key = Null

SameIdentity(m, n) ==
    /\ row[m].scope = row[n].scope
    /\ row[m].key = row[n].key
    /\ row[m].key = Null => row[m].text = row[n].text

(* A key without blanks around it, or a keyless text, names at most one     *)
(* active note, however many add_note run at once, as long as no request   *)
(* moved a note into its place: the advisory lock of resolve_update.       *)
OneNotePerIdentity ==
    \A m, n \in Notes :
        /\ row[m].status = "active" /\ row[n].status = "active"
        /\ ~Moved(m) /\ ~Moved(n)
        /\ SameIdentity(m, n)
        /\ TrimmedKey(row[n].key) = row[n].key
        => m = n

(* A note of the organisation is in the organisation's project and no other *)
(* note is, unless a restore put an earlier scope back: publish_note and   *)
(* unpublish_note move both at once, apply_restore_snapshot does not.      *)
ScopeMatchesProject ==
    \A n \in Notes :
        row[n].project # ProjectOf(row[n].scope) =>
            \E i \in DOMAIN versions[n] : versions[n][i].op = "RESTORE"

(* The shared scope of a note, however the note came into it, has had a     *)
(* project grant, so that only a revocation takes the note away from the   *)
(* other agents: add_note, publish_note and a keyed update ensure a grant, *)
(* and a restore finds the one of the note's earlier days.                 *)
SharedNotesWereGranted ==
    \A n \in Notes :
        row[n].status # "none" /\ row[n].scope \in Shared =>
            grants[GrantOf(row[n].scope)] # "none"

(* The note as it was when it last stopped being active. *)
LastActive(n) ==
    LET last == {i \in Retirements(n) : \A j \in Retirements(n) : j <= i}
    IN  {versions[n][i].prev : i \in last}

PutsBack(n, snapshot) ==
    /\ row'[n].text = snapshot.text
    /\ row'[n].key = snapshot.key
    /\ row'[n].scope = snapshot.scope

(* restore without a version_id "restores the latest prior active snapshot *)
(* from a DELETE or DEPRECATE version".  It does not hold: the latest one   *)
(* is sought by ts, the clock of a request that may have waited for the    *)
(* lock while others wrote.                                                *)
LatestRestored ==
    [][\A r \in Requests, n \in Notes :
         RestoreLatest(r, n) =>
             \E snapshot \in LastActive(n) : PutsBack(n, snapshot)]_vars

(* "If key is not null and an active note exists with the same key ->      *)
(* UPDATE in place".  It does not hold: the lookup trims the key, the row  *)
(* keeps it as sent, and a key with blanks around it is never found again. *)
KeyedAddsUpdateInPlace ==
    [][\A r \in Requests, n \in Notes :
         InsertNote(r, n) /\ adding[r].key # Null =>
             ~ \E m \in Notes : /\ row[m].status = "active"
                                /\ ~Moved(m)
                                /\ row[m].scope = adding[r].scope
                                /\ row[m].key = adding[r].key]_vars
==============================================================================
