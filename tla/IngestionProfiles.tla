-------------------------- MODULE IngestionProfiles --------------------------
(***************************************************************************)
(* The ingestion profiles of one project: numbered versions of each        *)
(* profile and a pointer to the default one. Nothing runs in a             *)
(* transaction: creating a version reads the next number and inserts it,   *)
(* the first add_event of a project seeds the built-in profile and then    *)
(* the pointer, setting the pointer reads a version and then writes it.    *)
(***************************************************************************)
EXTENDS Naturals, FiniteSets

CONSTANTS Profiles,        \* profile_id, of the built-in profile and of others
          DefaultProfile,  \* DEFAULT_PROFILE_ID
          DefaultVersion,  \* DEFAULT_PROFILE_VERSION
          Admins,          \* requests in flight
          NoPointer,       \* no row in memory_ingestion_profile_defaults
          MaxProfileVersion  \* bound on the version numbers

ASSUME ProfileAssumption ==
  /\ MaxProfileVersion \in Nat
  /\ DefaultProfile \in Profiles /\ DefaultVersion \in 1..MaxProfileVersion

VARIABLES versions,  \* rows of memory_ingestion_profiles: [id, version]
          pointer,   \* row of memory_ingestion_profile_defaults: [id, version]
          admin,     \* [Admins -> [at, id, version]]
          unresolved \* requests that did not find the profile the pointer named

profileVars == <<versions, pointer, admin, unresolved>>

Numbers == 1..MaxProfileVersion
Selector == [id : Profiles, version : Numbers]
NoRequest == [at |-> "idle", id |-> DefaultProfile, version |-> DefaultVersion]
Builtin == [id |-> DefaultProfile, version |-> DefaultVersion]

(* Types.                                                                  *)
ProfileTypeOK ==
  /\ versions \subseteq Selector
  /\ pointer \in Selector \cup {NoPointer}
  /\ admin \in [Admins -> [at : {"idle", "insert", "set", "seed_pointer", "select", "resolve"},
                           id : Profiles, version : Numbers]]
  /\ unresolved \subseteq Admins

ProfileInit ==
  /\ versions = {}
  /\ pointer = NoPointer
  /\ admin = [a \in Admins |-> NoRequest]
  /\ unresolved = {}

Exists(id, n) == [id |-> id, version |-> n] \in versions

(* COALESCE(MAX(version), 0) + 1                                           *)
next_profile_version(id) ==
  CHOOSE n \in 1..(MaxProfileVersion + 1) :
    /\ \A v \in versions : v.id = id => v.version < n
    /\ n = 1 \/ Exists(id, n - 1)

Goes(a, at, id, n) == admin' = [admin EXCEPT ![a] = [at |-> at, id |-> id, version |-> n]]
Ends(a) == admin' = [admin EXCEPT ![a] = NoRequest]

-----------------------------------------------------------------------------
(* The number is given by the caller or read by a statement of its own.    *)
CreateBegins(a, id) ==
  /\ admin[a].at = "idle"
  /\ \E n \in Numbers : n \in {next_profile_version(id), DefaultVersion} /\ Goes(a, "insert", id, n)
  /\ UNCHANGED <<versions, pointer, unresolved>>

(* ON CONFLICT DO NOTHING: for a number that is taken the request ends     *)
(* with a conflict.                                                        *)
insert_profile_metadata(a) ==
  LET r == admin[a]
  IN /\ r.at = "insert"
     /\ versions' = versions \cup {[id |-> r.id, version |-> r.version]}
     /\ Ends(a)
     /\ UNCHANGED <<pointer, unresolved>>

(* The version asked for, or the latest; without one the request fails.    *)
select_profile_metadata(a, id) ==
  /\ admin[a].at = "idle"
  /\ \E v \in versions : v.id = id /\ Goes(a, "set", id, v.version)
  /\ UNCHANGED <<versions, pointer, unresolved>>

upsert_default_row(a) ==
  /\ admin[a].at = "set"
  /\ pointer' = [id |-> admin[a].id, version |-> admin[a].version]
  /\ Ends(a)
  /\ UNCHANGED <<versions, unresolved>>

-----------------------------------------------------------------------------
(* Slip: the pointer is set to the built-in profile whether or not there   *)
(* is one.                                                                 *)
seed_pointer_first(a) ==
  /\ admin[a].at = "idle"
  /\ pointer' = IF pointer = NoPointer THEN Builtin ELSE pointer
  /\ Goes(a, "select", DefaultProfile, DefaultVersion)
  /\ UNCHANGED <<versions, unresolved>>

(* add_event, and reading the pointer, begin with seed_default_profile: two *)
(* statements with ON CONFLICT DO NOTHING.                                 *)
seed_profile(a) ==
  /\ admin[a].at = "idle"
  /\ versions' = versions \cup {Builtin}
  /\ Goes(a, "seed_pointer", DefaultProfile, DefaultVersion)
  /\ UNCHANGED <<pointer, unresolved>>

seed_pointer(a) ==
  /\ admin[a].at = "seed_pointer"
  /\ pointer' = IF pointer = NoPointer THEN Builtin ELSE pointer
  /\ Goes(a, "select", DefaultProfile, DefaultVersion)
  /\ UNCHANGED <<versions, unresolved>>

(* Without a row the built-in profile would be named.                      *)
select_default_selector(a) ==
  LET selector == IF pointer = NoPointer THEN Builtin ELSE pointer
  IN /\ admin[a].at = "select"
     /\ Goes(a, "resolve", selector.id, selector.version)
     /\ UNCHANGED <<versions, pointer, unresolved>>

select_profile(a) ==
  /\ admin[a].at = "resolve"
  /\ unresolved' = IF Exists(admin[a].id, admin[a].version) THEN unresolved \ {a}
                   ELSE unresolved \cup {a}
  /\ Ends(a)
  /\ UNCHANGED <<versions, pointer>>

ProfileNext ==
  \E a \in Admins :
    \/ \E id \in Profiles : CreateBegins(a, id) \/ select_profile_metadata(a, id)
    \/ insert_profile_metadata(a)
    \/ upsert_default_row(a)
    \/ seed_profile(a)
    \/ seed_pointer(a)
    \/ select_default_selector(a)
    \/ select_profile(a)

ProfileSpec == ProfileInit /\ [][ProfileNext]_profileVars

-----------------------------------------------------------------------------
(* An event is never refused for want of a profile, whoever seeds, creates *)
(* and repoints at the same time, and the pointer names a version that     *)
(* exists, although no foreign key says so (resolve_add_event_profile).    *)
DefaultResolves ==
  /\ unresolved = {}
  /\ pointer # NoPointer => Exists(pointer.id, pointer.version)
=============================================================================
