------------------------ MODULE MC_ServiceComponents ------------------------
(***************************************************************************)
(* Six parts of the service that share no state in what is modelled of     *)
(* them, each on its own instance: focus says which one runs, the others   *)
(* stay where they start.                                                  *)
(***************************************************************************)
EXTENDS SearchTraces, SearchSessions, IngestionProfiles, CoreBlocks, KnowledgePages, Backfill

VARIABLE focus

(* DocKeys on three documents: the second and the third have one key.      *)
KeysOfDocs == <<1, 2, 2>>

Init ==
  /\ focus \in {"traces", "sessions", "profiles", "core", "pages", "backfill"}
  /\ TraceInit
  /\ SessionInit
  /\ ProfileInit
  /\ BlocksInit
  /\ PagesInit
  /\ BackfillInit

(* All but the variables of the traces.                                    *)
NotTraces == <<focus, sessionVars, profileVars, blockVars, pageVars, backfillVars>>

Next ==
  \/ /\ focus = "traces"
     /\ TraceNext
     /\ UNCHANGED NotTraces
  \/ /\ focus = "sessions"
     /\ SessionNext
     /\ UNCHANGED <<focus, traceVars, profileVars, blockVars, pageVars, backfillVars>>
  \/ /\ focus = "profiles"
     /\ ProfileNext
     /\ UNCHANGED <<focus, traceVars, sessionVars, blockVars, pageVars, backfillVars>>
  \/ /\ focus = "core"
     /\ BlocksNext
     /\ UNCHANGED <<focus, traceVars, sessionVars, profileVars, pageVars, backfillVars>>
  \/ /\ focus = "pages"
     /\ PagesNext
     /\ UNCHANGED <<focus, traceVars, sessionVars, profileVars, blockVars, backfillVars>>
  \/ /\ focus = "backfill"
     /\ BackfillNext
     /\ UNCHANGED <<focus, traceVars, sessionVars, profileVars, blockVars, pageVars>>

vars == <<traceVars, NotTraces>>

(* Only the traces make progress by themselves: the workers keep polling,  *)
(* backoffs and leases end, and the clean-up interval passes.              *)
Fairness ==
  /\ \A p \in Pollers :
       /\ WF_vars(focus = "traces" /\ PollerStep(p) /\ UNCHANGED NotTraces)
       /\ WF_vars(focus = "traces" /\ IntervalPasses(p) /\ UNCHANGED NotTraces)
  /\ \A t \in Traces : WF_vars(focus = "traces" /\ TraceComesDue(t) /\ UNCHANGED NotTraces)

Spec == Init /\ [][Next]_vars /\ Fairness

-----------------------------------------------------------------------------
(* The types of all six (their TypeOK).                                    *)
TypeOK ==
  /\ TraceTypeOK
  /\ SessionTypeOK
  /\ ProfileTypeOK
  /\ BlocksTypeOK
  /\ PagesTypeOK
  /\ BackfillTypeOK
=============================================================================
