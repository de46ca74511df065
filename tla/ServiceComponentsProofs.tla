---------------------- MODULE ServiceComponentsProofs ----------------------
(***************************************************************************)
(* What knowledge pages (KnowledgePages) and the evaluation backfill       *)
(* (Backfill) keep, for every set of sources and documents, and what the   *)
(* six components of MC_ServiceComponents keep side by side.               *)
(***************************************************************************)
EXTENDS MC_ServiceComponents, ServingProofs

(***************************************************************************)
(* Knowledge pages.                                                        *)
(***************************************************************************)
SourceRead == [source : Sources, version : 1..MaxChanges]

(* A lint that has compared the references with the sources.               *)
Reporting == {"delete_lint", "clear_findings", "insert_findings", "commit_lint"}
VisitSteps ==
  {"idle", "resolve", "list_refs", "list_sections", "lint_source_refs", "list_search_refs",
   "recall"} \cup Reporting \cup Replacing

(* A request is a record; what it has read depends on the step.            *)
VisitType ==
  [at : VisitSteps, ids : SUBSET Sources, read : SUBSET (SourceRead \cup Section \cup Finding),
   refs : SUBSET Section, seen : [Sources -> 0..MaxChanges] \cup {NothingSeen},
   build : 0..MaxBuilds, cleared : SUBSET FindingId, no : 0..MaxVisits,
   absent : SUBSET Sources]

(* A rebuild has read sources, and holds the page row with the last build. *)
RebuildGood(r) ==
  /\ r.at \in {"resolve"} \cup Replacing => r.read \subseteq SourceRead
  /\ r.at = "resolve" => r.ids # {} \/ r.read # {}
  /\ r.at \in Replacing => r.read # {} /\ r.build = builds /\ page < builds
  /\ r.at \in {"delete_sections", "delete_findings", "commit_page"} => r.refs = sections

(* A lint has read the references of the page it names, unless that was    *)
(* rebuilt since, and has a finding for each one that was out of date.     *)
LintGood(r) ==
  /\ r.at \in {"list_refs", "list_sections", "lint_source_refs"} \cup Reporting => r.no \in 1..MaxVisits
  /\ r.at \in {"list_sections", "lint_source_refs"} \cup Reporting =>
       r.build <= page /\ (r.build = page => r.refs = sections)
  /\ r.at \in {"lint_source_refs"} \cup Reporting => r.read \subseteq Finding
  /\ r.at \in Reporting =>
       \A c \in r.refs : r.seen[c.source] # c.version =>
         [lint |-> r.no, kind |-> "stale_source_ref", build |-> c.build, source |-> c.source]
           \in r.read

(* A search has read sections, and then the references of one build. What  *)
(* has been absent since it began is gone.                                 *)
SearchGood(r) ==
  /\ r.absent \subseteq gone
  /\ r.at \in {"list_search_refs", "recall"} => r.read \subseteq Section
  /\ r.at = "recall" => \A c \in r.refs : c.build = r.build

Good(r) == RebuildGood(r) /\ LintGood(r) /\ SearchGood(r)

VisitsGood == visit \in [Visitors -> VisitType] /\ \A v \in Visitors : Good(visit[v])
OneReplaces ==
  \A v, w \in Visitors : visit[v].at \in Replacing /\ visit[w].at \in Replacing => v = w
LintWasBefore == lastLint.build \in 0..page

PagesInv == PagesTypeOK /\ VisitsGood /\ OneReplaces /\ LintWasBefore /\ PagesAgree

LEMMA NoVisitTyped ==
  /\ NoVisit \in VisitType /\ NoVisit.at = "idle" /\ NoVisit.ids = {} /\ NoVisit.read = {}
  /\ NoVisit.refs = {} /\ NoVisit.build = 0 /\ NoVisit.cleared = {} /\ NoVisit.absent = {}
  <1>1. /\ NoVisit.at = "idle" /\ NoVisit.ids = {} /\ NoVisit.read = {}
        /\ NoVisit.refs = {} /\ NoVisit.build = 0 /\ NoVisit.cleared = {}
        /\ NoVisit.seen = NothingSeen /\ NoVisit.no = 0 /\ NoVisit.absent = {}
        /\ NoVisit = [at |-> NoVisit.at, ids |-> NoVisit.ids, read |-> NoVisit.read,
                      refs |-> NoVisit.refs, seen |-> NoVisit.seen, build |-> NoVisit.build,
                      cleared |-> NoVisit.cleared, no |-> NoVisit.no, absent |-> NoVisit.absent]
    BY DEF NoVisit
  <1>. QED  BY <1>1, PagesAssumption DEF VisitType, VisitSteps

(* The rows of the findings, and what a lookup of the sources finds.       *)
LEMMA IdsTyped ==
  ASSUME PagesTypeOK
  PROVE  /\ {finding_id(f) : f \in findings} \subseteq FindingId
         /\ \A rows \in SUBSET FindingId : StillThere(rows) \in SUBSET FindingId
  <1>1. \A f \in Finding : finding_id(f) \in FindingId
    BY DEF Finding, FindingId, finding_id
  <1>. QED  BY <1>1 DEF PagesTypeOK, StillThere

LEMMA FoundTyped ==
  ASSUME PagesTypeOK
  PROVE  /\ Found \in [Sources -> 0..MaxChanges]
         /\ \A s \in Sources : /\ s \in gone <=> Found[s] = Gone
                               /\ Found[s] # Gone => Found[s] \in 1..MaxChanges
  <1>1. \A s \in Sources : sources[s] \in 1..MaxChanges /\ Found[s] \in 0..MaxChanges
    BY PagesAssumption DEF PagesTypeOK, Found, Gone
  <1>. QED  BY <1>1, PagesAssumption DEF Found, Gone

LEMMA IdleIsGood == Good(NoVisit)
  BY NoVisitTyped DEF Good, RebuildGood, LintGood, SearchGood, Replacing, Reporting

LEMMA InitPages == PagesInit => PagesInv
  <1>. SUFFICES ASSUME PagesInit PROVE PagesInv
    OBVIOUS
  <1>1. PagesTypeOK
    BY PagesAssumption DEF PagesInit, PagesTypeOK
  <1>2. VisitsGood
    BY NoVisitTyped, IdleIsGood DEF PagesInit, VisitsGood
  <1>3. OneReplaces /\ LintWasBefore
    BY NoVisitTyped DEF PagesInit, OneReplaces, LintWasBefore, Replacing
  <1>4. PagesAgree
    BY DEF PagesInit, PagesAgree, OneBuild, LintTellsStale, NoneMisled
  <1>. QED  BY <1>1, <1>2, <1>3, <1>4 DEF PagesInv

(* A step of one request that leaves the page alone.                       *)
LEMMA VisitMoves ==
  ASSUME PagesInv, NEW v \in Visitors, NEW r \in VisitType, Good(r),
         r.at \in Replacing => visit[v].at \in Replacing,
         visit' = [visit EXCEPT ![v] = r],
         visits' = visits \/ (visits < MaxVisits /\ visits' = visits + 1),
         UNCHANGED <<sources, gone, page, sections, findings, builds, lastLint, misled>>
  PROVE  PagesInv'
  <1>1. /\ visit' \in [Visitors -> VisitType] /\ visit'[v] = r
        /\ \A w \in Visitors \ {v} : visit'[w] = visit[w]
    BY DEF PagesInv, VisitsGood
  <1>2. \A q : Good(q)' = Good(q)
    BY DEF Good, RebuildGood, LintGood, SearchGood
  <1>3. VisitsGood'
    BY <1>1, <1>2 DEF PagesInv, VisitsGood, Good, RebuildGood, LintGood, SearchGood
  <1>4. OneReplaces'
    BY <1>1 DEF PagesInv, OneReplaces
  <1>5. visits' \in 0..MaxVisits
    BY PagesAssumption DEF PagesInv, PagesTypeOK
  <1>6. PagesTypeOK' /\ LintWasBefore' /\ PagesAgree'
    BY <1>5 DEF PagesInv, PagesTypeOK, LintWasBefore, PagesAgree, OneBuild, LintTellsStale, NoneMisled
  <1>. QED  BY <1>3, <1>4, <1>6 DEF PagesInv

(* The records that a request moves to.                                    *)
LEMMA VisitFields ==
  ASSUME NEW q \in VisitType
  PROVE  /\ q.at \in VisitSteps /\ q.ids \subseteq Sources
         /\ q.read \subseteq SourceRead \cup Section \cup Finding
         /\ q.refs \subseteq Section /\ q.build \in 0..MaxBuilds
         /\ q.cleared \in SUBSET FindingId
  BY DEF VisitType

LEMMA VisitIsGood ==
  ASSUME PagesInv, NEW v \in Visitors
  PROVE  visit[v] \in VisitType /\ Good(visit[v]) /\ visits \in 0..MaxVisits
  BY DEF PagesInv, VisitsGood, PagesTypeOK

-----------------------------------------------------------------------------
LEMMA AbortsKeeps ==
  ASSUME PagesInv, NEW v \in Visitors, visit' = [visit EXCEPT ![v] = NoVisit],
         UNCHANGED <<sources, gone, page, sections, findings, builds, visits, lastLint, misled>>
  PROVE  PagesInv'
  <1>1. NoVisit.at \notin Replacing
    BY NoVisitTyped DEF Replacing
  <1>. QED  BY <1>1, NoVisitTyped, IdleIsGood, VisitMoves

LEMMA RebuildBegins ==
  ASSUME PagesInv, NEW v \in Visitors, NEW ids \in (SUBSET Sources) \ {{}},
         knowledge_page_rebuild(v, ids)
  PROVE  PagesInv'
  <1>. DEFINE r == [NoVisit EXCEPT !.at = "resolve", !.ids = ids]
  <1>1. /\ r \in VisitType /\ r.at = "resolve" /\ r.ids = ids /\ r.read = {} /\ r.absent = {}
    BY NoVisitTyped DEF VisitType, VisitSteps
  <1>2. /\ visit' = [visit EXCEPT ![v] = r]
        /\ UNCHANGED <<sources, gone, page, sections, findings, builds, lastLint, misled>>
        /\ visits < MaxVisits /\ visits' = visits + 1
    BY DEF knowledge_page_rebuild, Visits
  <1>. HIDE DEF r
  <1>3. ids # {} /\ r.at \notin Replacing
    BY <1>1 DEF Replacing
  <1>4. RebuildGood(r)
    BY <1>1, <1>3 DEF RebuildGood, Replacing
  <1>5. LintGood(r) /\ SearchGood(r)
    BY <1>1 DEF LintGood, SearchGood, Reporting
  <1>. QED  BY <1>1, <1>2, <1>3, <1>4, <1>5, VisitMoves DEF Good

LEMMA ResolveKeeps ==
  ASSUME PagesInv, NEW v \in Visitors, NEW s \in Sources, resolve_sources(v, s)
  PROVE  PagesInv'
  <1>1. CASE Found[s] = Gone
    BY <1>1, AbortsKeeps DEF resolve_sources, Proceeds
  <1>2. CASE Found[s] # Gone
    <2>. DEFINE new == [source |-> s, version |-> Found[s]]
                r == [visit[v] EXCEPT !.ids = @ \ {s}, !.read = @ \cup {new}]
    <2>1. visit[v] \in VisitType /\ Good(visit[v]) /\ visit[v].at = "resolve"
      BY VisitIsGood DEF resolve_sources, At
    <2>2. new \in SourceRead
      <3>1. Found[s] \in 1..MaxChanges
        BY <1>2, FoundTyped DEF PagesInv
      <3>. QED  BY <3>1 DEF SourceRead
    <2>. HIDE DEF new
    <2>3. /\ r \in VisitType /\ r.at = "resolve" /\ r.ids = visit[v].ids \ {s}
          /\ r.read = visit[v].read \cup {new} /\ r.absent = visit[v].absent
      BY <2>1, <2>2 DEF VisitType
    <2>4. /\ visit' = [visit EXCEPT ![v] = r]
          /\ UNCHANGED <<sources, gone, page, sections, findings, builds, visits, lastLint, misled>>
      BY <1>2 DEF resolve_sources, Proceeds, new
    <2>. HIDE DEF r
    <2>5. Good(r) /\ r.at \notin Replacing
      BY <2>1, <2>2, <2>3 DEF Good, RebuildGood, LintGood, SearchGood, Replacing, Reporting
    <2>. QED  BY <2>3, <2>4, <2>5, VisitMoves
  <1>. QED  BY <1>1, <1>2

(* Nobody else holds the page row when it is taken.                        *)
LEMMA UpsertKeeps ==
  ASSUME PagesInv, NEW v \in Visitors, upsert_knowledge_page(v)
  PROVE  PagesInv'
  <1>1. /\ visit[v] \in VisitType /\ Good(visit[v]) /\ visit[v].at = "resolve" /\ visit[v].ids = {}
        /\ builds < MaxBuilds /\ builds' = builds + 1
        /\ UNCHANGED <<sources, gone, page, sections, findings, visits, lastLint, misled>>
    BY VisitIsGood DEF upsert_knowledge_page, At
  <1>2. \A w \in Visitors \ {v} : visit[w].at \notin Replacing
    BY DEF upsert_knowledge_page, Elsewhere
  <1>3. builds \in Nat /\ builds + 1 \in 0..MaxBuilds /\ page \in 0..builds
    BY <1>1, PagesAssumption DEF PagesInv, PagesTypeOK
  <1>4. PICK r \in VisitType : /\ r = [visit[v] EXCEPT !.at = "delete_children", !.build = builds + 1]
                               /\ r.at = "delete_children" /\ r.build = builds + 1
                               /\ r.read = visit[v].read /\ r.absent = visit[v].absent
    <2>. DEFINE q == [visit[v] EXCEPT !.at = "delete_children", !.build = builds + 1]
    <2>1. /\ q \in VisitType /\ q.at = "delete_children" /\ q.build = builds + 1
          /\ q.read = visit[v].read /\ q.absent = visit[v].absent
      BY <1>1, <1>3 DEF VisitType, VisitSteps, Replacing
    <2>. HIDE DEF q
    <2>. QED  BY <2>1 DEF q
  <1>5. visit' = [visit EXCEPT ![v] = r]
    BY <1>1, <1>4 DEF upsert_knowledge_page, PagesInv, VisitsGood
  <1>6. /\ visit' \in [Visitors -> VisitType] /\ visit'[v] = r
        /\ \A w \in Visitors \ {v} : visit'[w] = visit[w]
    BY <1>5 DEF PagesInv, VisitsGood
  <1>7. Good(r)'
    <2>1. r.read # {} /\ r.read \subseteq SourceRead /\ r.build = builds' /\ page' < builds'
      BY <1>1, <1>3, <1>4 DEF Good, RebuildGood
    <2>2. RebuildGood(r)'
      BY <1>4, <2>1 DEF RebuildGood, Replacing
    <2>3. LintGood(r)' /\ SearchGood(r)'
      BY <1>1, <1>4 DEF Good, LintGood, SearchGood, Reporting
    <2>. QED  BY <2>2, <2>3 DEF Good
  <1>8. \A w \in Visitors \ {v} : Good(visit[w])'
    BY <1>1, <1>2, <1>6 DEF PagesInv, VisitsGood, Good, RebuildGood, LintGood, SearchGood
  <1>9. VisitsGood'
    <2>1. Good(visit[v])'
      BY <1>6, <1>7 DEF Good, RebuildGood, LintGood, SearchGood
    <2>. QED  BY <1>6, <1>8, <2>1 DEF VisitsGood
  <1>10. OneReplaces'
    BY <1>2, <1>6 DEF OneReplaces, Replacing
  <1>11. PagesTypeOK' /\ LintWasBefore'
    BY <1>1, <1>3 DEF PagesInv, PagesTypeOK, LintWasBefore
  <1>12. PagesAgree'
    BY <1>1 DEF PagesInv, PagesAgree, OneBuild, LintTellsStale, NoneMisled
  <1>. QED  BY <1>9, <1>10, <1>11, <1>12 DEF PagesInv

LEMMA DeleteKeeps ==
  ASSUME PagesInv, NEW v \in Visitors,
         delete_knowledge_page_children(v) \/ delete_sections(v) \/ delete_findings(v)
  PROVE  PagesInv'
  <1>1. CASE delete_knowledge_page_children(v)
    <2>. DEFINE ids == {finding_id(f) : f \in findings}
                r == [visit[v] EXCEPT !.at = "delete_sections", !.refs = sections, !.cleared = ids]
    <2>1. /\ visit[v] \in VisitType /\ Good(visit[v]) /\ visit[v].at = "delete_children"
          /\ sections \subseteq Section
      BY <1>1, VisitIsGood DEF delete_knowledge_page_children, At, PagesInv, PagesTypeOK
    <2>2. ids \in SUBSET FindingId
      BY IdsTyped DEF PagesInv
    <2>3. /\ visit' = [visit EXCEPT ![v] = r]
          /\ UNCHANGED <<sources, gone, page, sections, findings, builds, visits, lastLint, misled>>
      BY <1>1 DEF delete_knowledge_page_children, Proceeds
    <2>. HIDE DEF ids
    <2>4. /\ r \in VisitType /\ r.at = "delete_sections" /\ r.refs = sections
          /\ r.read = visit[v].read /\ r.build = visit[v].build /\ r.absent = visit[v].absent
      BY <2>1, <2>2 DEF VisitType, VisitSteps, Replacing
    <2>. HIDE DEF r
    <2>5. Good(r) /\ visit[v].at \in Replacing
      BY <2>1, <2>4 DEF Good, RebuildGood, LintGood, SearchGood, Replacing, Reporting
    <2>. QED  BY <2>3, <2>4, <2>5, VisitMoves
  <1>2. CASE delete_sections(v)
    <2>. DEFINE r == [visit[v] EXCEPT !.at = "delete_findings"]
    <2>1. visit[v] \in VisitType /\ Good(visit[v]) /\ visit[v].at = "delete_sections"
      BY <1>2, VisitIsGood DEF delete_sections, At
    <2>2. /\ r \in VisitType /\ r.at = "delete_findings" /\ r.refs = visit[v].refs
          /\ r.read = visit[v].read /\ r.build = visit[v].build /\ r.absent = visit[v].absent
      BY <2>1 DEF VisitType, VisitSteps, Replacing
    <2>3. /\ visit' = [visit EXCEPT ![v] = r]
          /\ UNCHANGED <<sources, gone, page, sections, findings, builds, visits, lastLint, misled>>
      BY <1>2 DEF delete_sections, Proceeds
    <2>. HIDE DEF r
    <2>4. Good(r) /\ visit[v].at \in Replacing
      BY <2>1, <2>2 DEF Good, RebuildGood, LintGood, SearchGood, Replacing, Reporting
    <2>. QED  BY <2>2, <2>3, <2>4, VisitMoves
  <1>3. CASE delete_findings(v)
    <2>. DEFINE ids == StillThere(visit[v].cleared)
                r == [visit[v] EXCEPT !.at = "commit_page", !.cleared = ids]
    <2>1. visit[v] \in VisitType /\ Good(visit[v]) /\ visit[v].at = "delete_findings"
      BY <1>3, VisitIsGood DEF delete_findings, At
    <2>2. ids \in SUBSET FindingId
      BY <2>1, IdsTyped, VisitFields DEF PagesInv
    <2>3. /\ visit' = [visit EXCEPT ![v] = r]
          /\ UNCHANGED <<sources, gone, page, sections, findings, builds, visits, lastLint, misled>>
      BY <1>3 DEF delete_findings, Proceeds
    <2>. HIDE DEF ids
    <2>4. /\ r \in VisitType /\ r.at = "commit_page" /\ r.refs = visit[v].refs
          /\ r.read = visit[v].read /\ r.build = visit[v].build /\ r.absent = visit[v].absent
      BY <2>1, <2>2 DEF VisitType, VisitSteps, Replacing
    <2>. HIDE DEF r
    <2>5. Good(r) /\ visit[v].at \in Replacing
      BY <2>1, <2>4 DEF Good, RebuildGood, LintGood, SearchGood, Replacing, Reporting
    <2>. QED  BY <2>3, <2>4, <2>5, VisitMoves
  <1>. QED  BY <1>1, <1>2, <1>3

(* The new page replaces all of the old one.                               *)
LEMMA CommitPageKeeps ==
  ASSUME PagesInv, NEW v \in Visitors, CommitPage(v)
  PROVE  PagesInv'
  <1>. DEFINE new == {[build |-> visit[v].build, source |-> r.source, version |-> r.version] :
                        r \in visit[v].read}
  <1>1. /\ visit[v] \in VisitType /\ Good(visit[v]) /\ visit[v].at = "commit_page"
        /\ page' = visit[v].build
        /\ sections' = (sections \ visit[v].refs) \cup new
        /\ visit' = [visit EXCEPT ![v] = NoVisit]
        /\ UNCHANGED <<sources, gone, builds, visits, lastLint, misled>>
    BY VisitIsGood DEF CommitPage, At
  <1>2. /\ visit[v].read \subseteq SourceRead /\ visit[v].read # {}
        /\ visit[v].build = builds /\ page < builds /\ visit[v].refs = sections
    BY <1>1 DEF Good, RebuildGood, Replacing
  <1>3. builds \in 1..MaxBuilds /\ page \in 0..builds
    BY <1>2, PagesAssumption DEF PagesInv, PagesTypeOK
  <1>4. new \subseteq Section /\ new # {} /\ \A c \in new : c.build = builds
    <2>1. ASSUME NEW r \in visit[v].read
          PROVE  [build |-> builds, source |-> r.source, version |-> r.version] \in Section
      BY <1>2, <1>3 DEF SourceRead, Section
    <2>2. new = {[build |-> builds, source |-> r.source, version |-> r.version] : r \in visit[v].read}
      BY <1>2
    <2>. HIDE DEF new
    <2>3. new \subseteq Section
      BY <2>1, <2>2
    <2>4. new # {}
      BY <1>2, <2>2
    <2>5. \A c \in new : c.build = builds
      BY <2>2
    <2>. QED  BY <2>3, <2>4, <2>5
  <1>. HIDE DEF new
  <1>5. sections' = new /\ page' = builds /\ builds' = builds
    BY <1>1, <1>2
  <1>6. findings' \subseteq Finding
    <2>1. \A f \in Finding : [f EXCEPT !.build = 0] \in Finding
      BY PagesAssumption DEF Finding
    <2>. QED  BY <2>1 DEF CommitPage, PagesInv, PagesTypeOK
  <1>7. PagesTypeOK' /\ LintWasBefore'
    BY <1>1, <1>3, <1>4, <1>5, <1>6 DEF PagesInv, PagesTypeOK, LintWasBefore
  <1>8. /\ visit' \in [Visitors -> VisitType] /\ visit'[v] = NoVisit
        /\ \A w \in Visitors \ {v} : visit'[w] = visit[w]
    BY <1>1, NoVisitTyped DEF PagesInv, VisitsGood
  <1>9. visit[v].at \in Replacing /\ NoVisit.at = "idle"
    BY <1>1, NoVisitTyped DEF Replacing
  <1>10. OneReplaces'
    BY <1>8, <1>9 DEF PagesInv, OneReplaces, Replacing
  <1>11. ASSUME NEW w \in Visitors \ {v} PROVE Good(visit[w])'
    <2>1. visit[w].at \notin Replacing /\ Good(visit[w]) /\ visit[w] \in VisitType
      BY <1>9, VisitIsGood DEF PagesInv, OneReplaces
    <2>2. RebuildGood(visit[w])'
      BY <1>8, <2>1 DEF Good, RebuildGood, Replacing
    <2>3. LintGood(visit[w])'
      <3>1. visit[w].build <= page => visit[w].build <= builds /\ visit[w].build # builds
        BY <1>2, <1>3, <2>1, VisitFields
      <3>. QED  BY <1>5, <1>8, <2>1, <3>1 DEF Good, LintGood, Reporting
    <2>4. SearchGood(visit[w])'
      BY <1>1, <1>8, <2>1 DEF Good, SearchGood
    <2>. QED  BY <2>2, <2>3, <2>4 DEF Good
  <1>12. Good(visit[v])'
    BY <1>8, <1>9, NoVisitTyped DEF Good, RebuildGood, LintGood, SearchGood, Replacing, Reporting
  <1>13. VisitsGood'
    BY <1>8, <1>11, <1>12 DEF VisitsGood
  <1>14. page' # lastLint'.build
    BY <1>1, <1>2, <1>3, <1>5 DEF PagesInv, LintWasBefore
  <1>15. PagesAgree'
    <2>1. OneBuild'
      BY <1>4, <1>5 DEF OneBuild
    <2>2. LintTellsStale'
      BY <1>14 DEF LintTellsStale
    <2>3. NoneMisled'
      BY <1>1 DEF PagesInv, PagesAgree, NoneMisled
    <2>. QED  BY <2>1, <2>2, <2>3 DEF PagesAgree
  <1>. QED  BY <1>7, <1>10, <1>13, <1>15 DEF PagesInv

-----------------------------------------------------------------------------
LEMMA LintReads ==
  ASSUME PagesInv, NEW v \in Visitors, knowledge_page_lint(v) \/ list_source_refs(v)
  PROVE  PagesInv'
  <1>1. CASE knowledge_page_lint(v)
    <2>. DEFINE r == [NoVisit EXCEPT !.at = "list_refs", !.no = visits + 1]
    <2>1. /\ visit' = [visit EXCEPT ![v] = r]
          /\ UNCHANGED <<sources, gone, page, sections, findings, builds, lastLint, misled>>
          /\ visits < MaxVisits /\ visits' = visits + 1
      BY <1>1 DEF knowledge_page_lint, Visits
    <2>2. visits + 1 \in 1..MaxVisits
      BY <2>1, PagesAssumption DEF PagesInv, PagesTypeOK
    <2>3. r \in VisitType /\ r.at = "list_refs" /\ r.no = visits + 1 /\ r.absent = {}
      <3>1. visits + 1 \in 0..MaxVisits
        BY <2>2, PagesAssumption
      <3>. QED  BY <3>1, NoVisitTyped DEF VisitType, VisitSteps
    <2>. HIDE DEF r
    <2>4. Good(r) /\ r.at \notin Replacing
      BY <2>2, <2>3 DEF Good, RebuildGood, LintGood, SearchGood, Replacing, Reporting
    <2>. QED  BY <2>1, <2>3, <2>4, VisitMoves
  <1>2. CASE list_source_refs(v)
    <2>. DEFINE r == [visit[v] EXCEPT !.at = "list_sections", !.refs = sections, !.build = page]
    <2>1. /\ visit[v] \in VisitType /\ Good(visit[v]) /\ visit[v].at = "list_refs"
          /\ sections \subseteq Section /\ page \in 0..MaxBuilds /\ page <= page
      BY <1>2, VisitIsGood, PagesAssumption DEF list_source_refs, At, PagesInv, PagesTypeOK
    <2>2. /\ r \in VisitType /\ r.at = "list_sections" /\ r.refs = sections /\ r.build = page
          /\ r.no = visit[v].no /\ r.absent = visit[v].absent
      BY <2>1 DEF VisitType, VisitSteps
    <2>3. /\ visit' = [visit EXCEPT ![v] = r]
          /\ UNCHANGED <<sources, gone, page, sections, findings, builds, visits, lastLint, misled>>
      BY <1>2 DEF list_source_refs, Proceeds
    <2>. HIDE DEF r
    <2>4. Good(r) /\ r.at \notin Replacing
      BY <2>1, <2>2 DEF Good, RebuildGood, LintGood, SearchGood, Replacing, Reporting
    <2>. QED  BY <2>2, <2>3, <2>4, VisitMoves
  <1>. QED  BY <1>1, <1>2

LEMMA ListSectionsKeeps ==
  ASSUME PagesInv, NEW v \in Visitors, list_sections(v)
  PROVE  PagesInv'
  <1>. DEFINE missing == {Tells(v, "missing_source_ref", c) :
                            c \in {c \in sections : \A r \in visit[v].refs : r.build # c.build}}
              q == [visit[v] EXCEPT !.at = "lint_source_refs", !.read = missing]
  <1>1. /\ visit[v] \in VisitType /\ Good(visit[v]) /\ visit[v].at = "list_sections"
        /\ visit[v].no \in 1..MaxVisits
    BY VisitIsGood DEF list_sections, At, Good, LintGood
  <1>2. missing \subseteq Finding
    <2>1. sections \subseteq Section
      BY DEF PagesInv, PagesTypeOK
    <2>2. \A c \in Section : Tells(v, "missing_source_ref", c) \in Finding
      BY <1>1, PagesAssumption DEF Section, Finding, Kinds, Tells
    <2>. QED  BY <2>1, <2>2
  <1>3. visit' = [visit EXCEPT ![v] = q]
    BY DEF list_sections, Proceeds
  <1>. HIDE DEF missing
  <1>4. /\ q \in VisitType /\ q.at = "lint_source_refs" /\ q.refs = visit[v].refs
        /\ q.build = visit[v].build /\ q.read = missing
        /\ q.no = visit[v].no /\ q.absent = visit[v].absent
    BY <1>1, <1>2 DEF VisitType, VisitSteps
  <1>5. UNCHANGED <<sources, gone, page, sections, findings, builds, visits, lastLint, misled>>
    BY DEF list_sections, Proceeds
  <1>. HIDE DEF q
  <1>6. Good(q) /\ q.at \notin Replacing
    BY <1>1, <1>2, <1>4 DEF Good, RebuildGood, LintGood, SearchGood, Replacing, Reporting
  <1>. QED  BY <1>3, <1>4, <1>5, <1>6, VisitMoves

LEMMA LintSourceRefsKeeps ==
  ASSUME PagesInv, NEW v \in Visitors, lint_source_refs(v)
  PROVE  PagesInv'
  <1>. DEFINE stale == {Tells(v, "stale_source_ref", r) :
                          r \in {r \in visit[v].refs : Found[r.source] # r.version}}
              q == [visit[v] EXCEPT !.at = "delete_lint", !.seen = Found, !.read = @ \cup stale]
  <1>1. /\ visit[v] \in VisitType /\ Good(visit[v]) /\ visit[v].at = "lint_source_refs"
        /\ visit[v].refs \subseteq Section /\ visit[v].no \in 1..MaxVisits
        /\ Found \in [Sources -> 0..MaxChanges]
    BY VisitIsGood, VisitFields, FoundTyped DEF lint_source_refs, At, PagesInv, Good, LintGood
  <1>2. stale \subseteq Finding
    <2>1. \A c \in Section : Tells(v, "stale_source_ref", c) \in Finding
      BY <1>1, PagesAssumption DEF Section, Finding, Kinds, Tells
    <2>. QED  BY <1>1, <2>1
  <1>3. \A c \in visit[v].refs : Found[c.source] # c.version =>
          [lint |-> visit[v].no, kind |-> "stale_source_ref", build |-> c.build,
           source |-> c.source] \in stale
    BY DEF Tells
  <1>4. visit' = [visit EXCEPT ![v] = q]
    BY DEF lint_source_refs, Proceeds
  <1>. HIDE DEF stale
  <1>5. /\ q \in VisitType /\ q.at = "delete_lint" /\ q.refs = visit[v].refs
        /\ q.build = visit[v].build /\ q.read = visit[v].read \cup stale /\ q.seen = Found
        /\ q.no = visit[v].no /\ q.absent = visit[v].absent
    BY <1>1, <1>2 DEF VisitType, VisitSteps, Reporting
  <1>6. UNCHANGED <<sources, gone, page, sections, findings, builds, visits, lastLint, misled>>
    BY DEF lint_source_refs, Proceeds
  <1>. HIDE DEF q
  <1>7. Good(q) /\ q.at \notin Replacing
    BY <1>1, <1>2, <1>3, <1>5 DEF Good, RebuildGood, LintGood, SearchGood, Replacing, Reporting
  <1>. QED  BY <1>4, <1>5, <1>6, <1>7, VisitMoves

(* A lint that only moves on, or notes which findings it deletes.          *)
LEMMA ReportMoves ==
  ASSUME PagesInv, NEW v \in Visitors, NEW to \in Reporting, visit[v].at \in Reporting,
         NEW rows \in SUBSET FindingId,
         visit' = [visit EXCEPT ![v] = [visit[v] EXCEPT !.at = to, !.cleared = rows]],
         UNCHANGED <<sources, gone, page, sections, findings, builds, visits, lastLint, misled>>
  PROVE  PagesInv'
  <1>. DEFINE q == [visit[v] EXCEPT !.at = to, !.cleared = rows]
  <1>1. visit[v] \in VisitType /\ Good(visit[v])
    BY VisitIsGood
  <1>2. /\ q \in VisitType /\ q.at = to /\ q.refs = visit[v].refs /\ q.build = visit[v].build
        /\ q.read = visit[v].read /\ q.seen = visit[v].seen
        /\ q.no = visit[v].no /\ q.absent = visit[v].absent
    BY <1>1 DEF VisitType, VisitSteps
  <1>3. visit' = [visit EXCEPT ![v] = q]
    BY DEF PagesInv, VisitsGood
  <1>. HIDE DEF q
  <1>4. Good(q) /\ q.at \notin Replacing
    BY <1>1, <1>2 DEF Good, RebuildGood, LintGood, SearchGood, Replacing, Reporting
  <1>. QED  BY <1>2, <1>3, <1>4, VisitMoves

LEMMA LintWrites ==
  ASSUME PagesInv, NEW v \in Visitors,
         \/ delete_knowledge_page_lint_findings(v)
         \/ clear_findings(v)
         \/ insert_lint_finding(v)
  PROVE  PagesInv'
  <1>1. visit[v] \in VisitType /\ PagesTypeOK
    BY VisitIsGood DEF PagesInv
  <1>2. CASE delete_knowledge_page_lint_findings(v)
    <2>. DEFINE ids == {finding_id(f) : f \in findings}
    <2>1. ids \in SUBSET FindingId
      BY <1>1, IdsTyped
    <2>2. /\ visit' = [visit EXCEPT ![v] = [visit[v] EXCEPT !.at = "clear_findings", !.cleared = ids]]
          /\ UNCHANGED <<sources, gone, page, sections, findings, builds, visits, lastLint, misled>>
      BY <1>2 DEF delete_knowledge_page_lint_findings, Proceeds
    <2>. HIDE DEF ids
    <2>3. visit[v].at \in Reporting /\ "clear_findings" \in Reporting
      BY <1>2 DEF delete_knowledge_page_lint_findings, At, Reporting
    <2>. QED  BY <2>1, <2>2, <2>3, ReportMoves
  <1>3. CASE clear_findings(v)
    <2>. DEFINE ids == StillThere(visit[v].cleared)
    <2>1. ids \in SUBSET FindingId
      BY <1>1, IdsTyped, VisitFields
    <2>2. /\ visit' = [visit EXCEPT ![v] = [visit[v] EXCEPT !.at = "insert_findings", !.cleared = ids]]
          /\ UNCHANGED <<sources, gone, page, sections, findings, builds, visits, lastLint, misled>>
      BY <1>3 DEF clear_findings, Proceeds
    <2>. HIDE DEF ids
    <2>3. visit[v].at \in Reporting /\ "insert_findings" \in Reporting
      BY <1>3 DEF clear_findings, At, Reporting
    <2>. QED  BY <2>1, <2>2, <2>3, ReportMoves
  <1>4. CASE insert_lint_finding(v)
    <2>. DEFINE ids == visit[v].cleared
    <2>1. ids \in SUBSET FindingId
      BY <1>1, VisitFields
    <2>2. [visit[v] EXCEPT !.at = "commit_lint"]
            = [visit[v] EXCEPT !.at = "commit_lint", !.cleared = visit[v].cleared]
      BY <1>1 DEF VisitType
    <2>3. /\ \/ visit' = [visit EXCEPT ![v] = [visit[v] EXCEPT !.at = "commit_lint"]]
             \/ visit' = [visit EXCEPT ![v] = NoVisit]
          /\ UNCHANGED <<sources, gone, page, sections, findings, builds, visits, lastLint, misled>>
      BY <1>4 DEF insert_lint_finding, Proceeds
    <2>4. visit[v].at \in Reporting /\ "commit_lint" \in Reporting
      BY <1>4 DEF insert_lint_finding, At, Reporting
    <2>5. CASE visit' = [visit EXCEPT ![v] = [visit[v] EXCEPT !.at = "commit_lint"]]
      <3>1. visit' = [visit EXCEPT ![v] = [visit[v] EXCEPT !.at = "commit_lint", !.cleared = ids]]
        BY <2>2, <2>5
      <3>. QED  BY <2>1, <2>3, <2>4, <3>1, ReportMoves
    <2>. QED  BY <2>3, <2>5, AbortsKeeps
  <1>. QED  BY <1>2, <1>3, <1>4

(* What the lint has found out of date is among the findings from here on. *)
LEMMA CommitLintKeeps ==
  ASSUME PagesInv, NEW v \in Visitors, CommitLint(v)
  PROVE  PagesInv'
  <1>1. /\ visit[v] \in VisitType /\ Good(visit[v]) /\ visit[v].at = "commit_lint"
        /\ visit[v].build \in 0..MaxBuilds /\ page \in 0..builds /\ builds \in 0..MaxBuilds
    BY VisitIsGood, VisitFields DEF CommitLint, At, PagesInv, PagesTypeOK
  <1>2. /\ visit[v].read \subseteq findings' /\ findings' \subseteq findings \cup visit[v].read
        /\ lastLint' = [build |-> visit[v].build, seen |-> visit[v].seen]
        /\ visit' = [visit EXCEPT ![v] = NoVisit]
        /\ UNCHANGED <<sources, gone, page, sections, builds, visits, misled>>
    BY DEF CommitLint
  <1>3. /\ visit[v].build <= page /\ visit[v].read \subseteq Finding
        /\ visit[v].build = page => visit[v].refs = sections
        /\ \A c \in visit[v].refs : visit[v].seen[c.source] # c.version =>
             [lint |-> visit[v].no, kind |-> "stale_source_ref", build |-> c.build,
              source |-> c.source] \in visit[v].read
    BY <1>1 DEF Good, LintGood, Reporting
  <1>4. PagesTypeOK' /\ LintWasBefore'
    BY <1>1, <1>2, <1>3 DEF PagesInv, PagesTypeOK, LintWasBefore
  <1>5. /\ visit' \in [Visitors -> VisitType] /\ visit'[v] = NoVisit
        /\ \A w \in Visitors \ {v} : visit'[w] = visit[w]
    BY <1>2, NoVisitTyped DEF PagesInv, VisitsGood
  <1>6. VisitsGood'
    <2>1. Good(visit[v])'
      BY <1>5, NoVisitTyped DEF Good, RebuildGood, LintGood, SearchGood, Replacing, Reporting
    <2>2. \A w \in Visitors \ {v} : Good(visit[w])'
      BY <1>2, <1>5 DEF PagesInv, VisitsGood, Good, RebuildGood, LintGood, SearchGood
    <2>. QED  BY <1>5, <2>1, <2>2 DEF VisitsGood
  <1>7. OneReplaces'
    BY <1>5, NoVisitTyped DEF PagesInv, OneReplaces, Replacing
  <1>8. LintTellsStale'
    <2>. SUFFICES ASSUME page = visit[v].build, NEW c \in sections,
                         visit[v].seen[c.source] # c.version
                  PROVE  \E f \in findings' : /\ f.kind = "stale_source_ref"
                                              /\ f.build = c.build /\ f.source = c.source
      BY <1>2 DEF LintTellsStale
    <2>. DEFINE f == [lint |-> visit[v].no, kind |-> "stale_source_ref", build |-> c.build,
                      source |-> c.source]
    <2>1. f \in findings'
      BY <1>2, <1>3
    <2>. QED  BY <2>1
  <1>9. PagesAgree'
    BY <1>2, <1>8 DEF PagesInv, PagesAgree, OneBuild, NoneMisled
  <1>. QED  BY <1>4, <1>6, <1>7, <1>9 DEF PagesInv

-----------------------------------------------------------------------------
LEMMA SearchReads ==
  ASSUME PagesInv, NEW v \in Visitors,
         search_knowledge_page_sections(v) \/ list_knowledge_page_source_refs_for_pages(v)
  PROVE  PagesInv'
  <1>0. /\ sections \subseteq Section /\ gone \subseteq Sources /\ page \in 0..MaxBuilds
        /\ \A c \in sections : c.build = page
        /\ visit[v] \in VisitType /\ Good(visit[v])
    BY VisitIsGood, PagesAssumption DEF PagesInv, PagesTypeOK, PagesAgree, OneBuild
  <1>1. CASE search_knowledge_page_sections(v)
    <2>. DEFINE q == [NoVisit EXCEPT !.at = "list_search_refs", !.read = sections, !.absent = gone]
    <2>1. q \in VisitType /\ q.at = "list_search_refs" /\ q.read = sections /\ q.absent = gone
      BY <1>0, NoVisitTyped DEF VisitType, VisitSteps
    <2>2. /\ visit' = [visit EXCEPT ![v] = q]
          /\ UNCHANGED <<sources, gone, page, sections, findings, builds, lastLint, misled>>
          /\ visits < MaxVisits /\ visits' = visits + 1
      BY <1>1 DEF search_knowledge_page_sections, Visits
    <2>. HIDE DEF q
    <2>3. Good(q) /\ q.at \notin Replacing
      BY <1>0, <2>1 DEF Good, RebuildGood, LintGood, SearchGood, Replacing, Reporting
    <2>. QED  BY <2>1, <2>2, <2>3, VisitMoves
  <1>2. CASE list_knowledge_page_source_refs_for_pages(v)
    <2>. DEFINE q == [visit[v] EXCEPT !.at = "recall", !.refs = sections, !.build = page]
    <2>1. visit[v].at = "list_search_refs"
      BY <1>2 DEF list_knowledge_page_source_refs_for_pages, At
    <2>2. /\ q \in VisitType /\ q.at = "recall" /\ q.read = visit[v].read
          /\ q.refs = sections /\ q.build = page /\ q.absent = visit[v].absent
      BY <1>0 DEF VisitType, VisitSteps
    <2>3. /\ visit' = [visit EXCEPT ![v] = q]
          /\ UNCHANGED <<sources, gone, page, sections, findings, builds, visits, lastLint, misled>>
      BY <1>2 DEF list_knowledge_page_source_refs_for_pages, Proceeds
    <2>. HIDE DEF q
    <2>4. Good(q) /\ q.at \notin Replacing
      BY <1>0, <2>1, <2>2 DEF Good, RebuildGood, LintGood, SearchGood, Replacing, Reporting
    <2>. QED  BY <2>2, <2>3, <2>4, VisitMoves
  <1>. QED  BY <1>1, <1>2

(* A section is shown only if its reference was on the page when the        *)
(* references were read, and its source is there.                          *)
LEMMA RecallKeeps ==
  ASSUME PagesInv, NEW v \in Visitors, resolve_current_recallable_source_keys(v)
  PROVE  PagesInv'
  <1>. DEFINE shown == {c \in visit[v].read : recallable_source_refs(c, visit[v].refs)}
  <1>1. /\ visit[v] \in VisitType /\ Good(visit[v]) /\ visit[v].at = "recall"
        /\ misled' = misled \cup {c \in shown : c.build # visit[v].build \/ c.source \in visit[v].absent}
        /\ visit' = [visit EXCEPT ![v] = NoVisit]
        /\ UNCHANGED <<sources, gone, page, sections, findings, builds, visits, lastLint>>
    BY VisitIsGood DEF resolve_current_recallable_source_keys, At
  <1>2. ASSUME NEW c \in shown PROVE c.build = visit[v].build /\ c.source \notin visit[v].absent
    <2>1. PICK r \in visit[v].refs : /\ r.build = c.build /\ r.source = c.source
                                     /\ Found[r.source] # Gone
      BY <1>2 DEF recallable_source_refs
    <2>2. c \in Section /\ c.source \in Sources
      BY <1>1 DEF Good, SearchGood, Section
    <2>3. c.source \notin gone
      <3>1. Found[c.source] # Gone
        BY <2>1
      <3>. QED  BY <2>2, <3>1, FoundTyped DEF PagesInv
    <2>. QED  BY <1>1, <2>1, <2>3 DEF Good, SearchGood
  <1>3. misled' = misled
    BY <1>1, <1>2
  <1>. QED  BY <1>1, <1>3, AbortsKeeps

(* An update leaves a source where it was; what goes is gone from now on.  *)
LEMMA SourceChangesKeeps ==
  ASSUME PagesInv, NEW s \in Sources, SourceChanges(s) \/ SourceGoes(s)
  PROVE  PagesInv'
  <1>1. /\ UNCHANGED <<page, sections, findings, visit, builds, visits, lastLint, misled>>
        /\ gone \subseteq gone'
    BY DEF SourceChanges, SourceGoes
  <1>2. sources' \in [Sources -> 1..MaxChanges] /\ gone' \subseteq Sources
    BY PagesAssumption DEF SourceChanges, SourceGoes, PagesInv, PagesTypeOK
  <1>3. PagesTypeOK' /\ OneReplaces' /\ LintWasBefore' /\ PagesAgree'
    BY <1>1, <1>2 DEF PagesInv, PagesTypeOK, OneReplaces, LintWasBefore, PagesAgree, OneBuild,
                      LintTellsStale, NoneMisled
  <1>4. VisitsGood'
    BY <1>1 DEF PagesInv, VisitsGood, Good, RebuildGood, LintGood, SearchGood
  <1>. QED  BY <1>3, <1>4 DEF PagesInv

(* What comes back has not been absent all along of any search.            *)
LEMMA SourceReturnsKeeps ==
  ASSUME PagesInv, NEW s \in Sources, SourceReturns(s)
  PROVE  PagesInv'
  <1>1. /\ UNCHANGED <<page, sections, findings, builds, visits, lastLint, misled>>
        /\ gone' = gone \ {s}
        /\ visit' = [v \in Visitors |-> [visit[v] EXCEPT !.absent = @ \ {s}]]
    BY DEF SourceReturns
  <1>2. sources' \in [Sources -> 1..MaxChanges] /\ gone' \subseteq Sources
    BY PagesAssumption DEF SourceReturns, PagesInv, PagesTypeOK
  <1>3. ASSUME NEW v \in Visitors
        PROVE  /\ visit'[v] \in VisitType
               /\ visit'[v].at = visit[v].at /\ visit'[v].ids = visit[v].ids
               /\ visit'[v].read = visit[v].read /\ visit'[v].refs = visit[v].refs
               /\ visit'[v].seen = visit[v].seen /\ visit'[v].build = visit[v].build
               /\ visit'[v].no = visit[v].no /\ visit'[v].absent = visit[v].absent \ {s}
    BY <1>1, VisitIsGood DEF VisitType
  <1>4. VisitsGood'
    <2>1. visit' \in [Visitors -> VisitType]
      BY <1>1, <1>3
    <2>2. ASSUME NEW v \in Visitors PROVE Good(visit[v])'
      <3>1. RebuildGood(visit[v])'
        BY <1>1, <1>3, VisitIsGood DEF Good, RebuildGood
      <3>2. LintGood(visit[v])'
        BY <1>1, <1>3, VisitIsGood DEF Good, LintGood
      <3>3. SearchGood(visit[v])'
        BY <1>1, <1>3, VisitIsGood DEF Good, SearchGood
      <3>. QED  BY <3>1, <3>2, <3>3 DEF Good
    <2>. QED  BY <2>1, <2>2 DEF VisitsGood
  <1>5. OneReplaces'
    BY <1>3 DEF PagesInv, OneReplaces
  <1>6. PagesTypeOK' /\ LintWasBefore' /\ PagesAgree'
    BY <1>1, <1>2 DEF PagesInv, PagesTypeOK, LintWasBefore, PagesAgree, OneBuild, LintTellsStale,
                      NoneMisled
  <1>. QED  BY <1>4, <1>5, <1>6 DEF PagesInv

LEMMA NextPages == PagesInv /\ [PagesNext]_pageVars => PagesInv'
  <1>. SUFFICES ASSUME PagesInv, [PagesNext]_pageVars PROVE PagesInv'
    OBVIOUS
  <1>1. ASSUME NEW v \in Visitors, Aborts(v) PROVE PagesInv'
    BY <1>1, AbortsKeeps DEF Aborts, Proceeds
  <1>2. CASE UNCHANGED pageVars
    BY <1>2 DEF pageVars, PagesInv, PagesTypeOK, VisitsGood, Good, RebuildGood, LintGood, SearchGood,
                OneReplaces, LintWasBefore, PagesAgree, OneBuild, LintTellsStale, NoneMisled
  <1>. QED  BY <1>1, <1>2, RebuildBegins, ResolveKeeps, UpsertKeeps, DeleteKeeps, CommitPageKeeps,
               LintReads, ListSectionsKeeps, LintSourceRefsKeeps, LintWrites, CommitLintKeeps,
               SearchReads, RecallKeeps, SourceChangesKeeps, SourceReturnsKeeps
            DEF PagesNext

(* A page is of one build, the last lint has a finding for every reference *)
(* it found out of date, and no search shows a replaced section or one      *)
(* about a source that was gone from its beginning to its end              *)
(* (upsert_knowledge_page, knowledge_page_lint, and the recall of sources  *)
(* after search_knowledge_page_sections), for any number of requests,      *)
(* whether or not sources that are gone come back.                         *)
THEOREM PagesAlwaysAgree == PagesSpec => [](PagesAgree /\ PagesTypeOK)
  <1>1. PagesInv => PagesAgree /\ PagesTypeOK
    BY DEF PagesInv
  <1>. QED  BY <1>1, InitPages, NextPages, PTL DEF PagesSpec

-----------------------------------------------------------------------------
(***************************************************************************)
(* Backfill.                                                               *)
(***************************************************************************)
RunSteps == {"idle", "load", "select", "prune", "batch", "add", "verify"}

(* A run is a record; its counters are whatever they are.                  *)
RunType(budget, attempt) ==
  [at : RunSteps, corpus : [Docs -> 0..MaxText], completed : [Docs -> Entry],
   existing : [Docs -> Entry], batch : SUBSET Docs, results : [Docs -> Entry],
   budget : {budget}, attempt : {attempt}]

IsRun(r) == r \in RunType(r.budget, r.attempt)

RunTyped == IsRun(run)

(* What the run has of the checkpoint is what the file says.               *)
RunHasFile == run.at \in {"select", "prune", "batch", "add", "verify"} => run.completed = Loaded

(* The notes the run has selected are still the notes.                     *)
RunHasNotes == run.at = "prune" /\ ~disturbed => run.existing = NotesOfDocs

(* An entry of d tells the text the run has read and the note that is there. *)
Confirmed(d, entry) == entry # NoEntry => entry.text = run.corpus[d] /\ NotesOfDocs[d] = entry

EntriesConfirmed ==
  ~disturbed /\ DistinctKeys =>
    \A d \in Docs :
      /\ run.at \in {"batch", "add", "verify"} => Confirmed(d, run.completed[d])
      /\ run.at = "add" => Confirmed(d, run.results[d])

BatchIsPending == run.at = "add" => run.batch \subseteq Pending

VerifiesAll == run.at = "verify" => \A d \in Present(run.corpus) : run.completed[d] # NoEntry

BackfillInv ==
  /\ BackfillTypeOK /\ RunTyped /\ RunHasFile /\ RunHasNotes /\ EntriesConfirmed
  /\ BatchIsPending /\ VerifiesAll /\ ResumedRunsSucceed

LEMMA NoneTyped == None \in [Docs -> Entry] /\ \A d \in Docs : None[d] = NoEntry
  BY DEF None, Entry

LEMMA NoRunTyped == IsRun(NoRun) /\ NoRun.at = "idle"
  BY NoneTyped, BackfillAssumption DEF NoRun, IsRun, RunType, RunSteps

(* The types of the model, from those of a record.                         *)
LEMMA RunFields ==
  ASSUME NEW r, IsRun(r)
  PROVE  /\ r.at \in RunSteps /\ r.corpus \in [Docs -> 0..MaxText] /\ r.completed \in [Docs -> Entry]
         /\ r.existing \in [Docs -> Entry] /\ r.batch \subseteq Docs /\ r.results \in [Docs -> Entry]
  BY DEF IsRun, RunType

(* A run that is over leaves nothing to show.                              *)
LEMMA RunEnds ==
  ASSUME BackfillInv, run' = NoRun,
         UNCHANGED <<corpus, noteOf, noteIds, file>>, failed' \in BOOLEAN, ~failed'
  PROVE  BackfillInv'
  <1>1. BackfillTypeOK' /\ RunTyped'
    BY NoRunTyped, RunFields DEF BackfillInv, BackfillTypeOK, RunTyped, RunSteps
  <1>2. run'.at = "idle"
    BY NoRunTyped
  <1>. QED  BY <1>1, <1>2 DEF BackfillInv, RunHasFile, RunHasNotes, EntriesConfirmed,
                              BatchIsPending, VerifiesAll, ResumedRunsSucceed

LEMMA NotesTyped == BackfillTypeOK => NotesOfDocs \in [Docs -> Entry]
  <1>. SUFFICES ASSUME BackfillTypeOK, NEW d \in Docs PROVE NotesOfDocs[d] \in Entry
    BY DEF NotesOfDocs
  <1>1. DocKeys[d] \in NotesKeys
    BY DEF NotesKeys
  <1>2. noteOf[DocKeys[d]] \in [id : 1..MaxNoteId, doc : Docs, text : 1..MaxText] \cup {NoEntry}
    BY <1>1 DEF BackfillTypeOK
  <1>. QED  BY <1>2 DEF NotesOfDocs, Entry

LEMMA LoadedCheckpointTyped == BackfillTypeOK => Loaded \in [Docs -> Entry]
  BY NoneTyped DEF BackfillTypeOK, Loaded

(* An entry has a text.                                                    *)
LEMMA EntryHasText ==
  ASSUME NEW e \in Entry, e # NoEntry
  PROVE  e.id \in 1..MaxNoteId /\ e.text \in 1..MaxText /\ e = [id |-> e.id, text |-> e.text]
  BY DEF Entry

LEMMA InitBackfill == BackfillInit => BackfillInv
  <1>. SUFFICES ASSUME BackfillInit PROVE BackfillInv
    OBVIOUS
  <1>1. /\ run = NoRun /\ run.at = "idle"
    BY NoRunTyped DEF BackfillInit
  <1>2. file \in [corpus : [Docs -> 0..MaxText], completed : [Docs -> Entry]]
    <2>1. [d \in Docs |-> 0] \in [Docs -> 0..MaxText]
      BY BackfillAssumption
    <2>. QED  BY <2>1, NoneTyped DEF BackfillInit
  <1>3. BackfillTypeOK /\ RunTyped
    <2>1. RunTyped
      BY <1>1, NoRunTyped DEF RunTyped
    <2>2. /\ run.at \in RunSteps
          /\ run.completed \in [Docs -> Entry] /\ run.existing \in [Docs -> Entry]
      BY <2>1, RunFields DEF RunTyped
    <2>3. corpus \in [Docs -> 0..MaxText] /\ noteIds \in 0..MaxNoteId
      BY BackfillAssumption DEF BackfillInit
    <2>4. noteOf \in [NotesKeys -> [id : 1..MaxNoteId, doc : Docs, text : 1..MaxText] \cup {NoEntry}]
      BY DEF BackfillInit
    <2>5. failed = FALSE
      BY DEF BackfillInit
    <2>. QED  BY <1>2, <2>1, <2>2, <2>3, <2>4, <2>5 DEF BackfillTypeOK, RunSteps
  <1>. QED  BY <1>1, <1>3
            DEF BackfillInit, BackfillInv, RunHasFile, RunHasNotes, EntriesConfirmed,
                BatchIsPending, VerifiesAll, ResumedRunsSucceed

-----------------------------------------------------------------------------
LEMMA WorldKeepsBackfill ==
  ASSUME BackfillInv,
         (\E d \in Docs : EditCorpus(d)) \/ (\E k \in NotesKeys : RemoveNote(k))
  PROVE  BackfillInv'
  <1>1. ASSUME NEW d \in Docs, EditCorpus(d) PROVE BackfillInv'
    <2>1. PICK n : /\ n \in {0, corpus[d] + 1} /\ n <= MaxText
                   /\ corpus' = [corpus EXCEPT ![d] = n]
      BY <1>1 DEF EditCorpus
    <2>2. n \in 0..MaxText
      BY <2>1, BackfillAssumption DEF BackfillInv, BackfillTypeOK
    <2>3. /\ run.at = "idle" /\ UNCHANGED <<noteOf, noteIds, file, run, disturbed, failed>>
      BY <1>1 DEF EditCorpus
    <2>4. BackfillTypeOK' /\ RunTyped'
      BY <2>1, <2>2, <2>3 DEF BackfillInv, BackfillTypeOK, RunTyped, RunSteps
    <2>. QED  BY <2>3, <2>4
              DEF BackfillInv, RunHasFile, RunHasNotes, EntriesConfirmed,
                  BatchIsPending, VerifiesAll, ResumedRunsSucceed
  <1>2. ASSUME NEW k \in NotesKeys, RemoveNote(k) PROVE BackfillInv'
    <2>1. /\ noteOf' = [noteOf EXCEPT ![k] = NoEntry] /\ disturbed'
          /\ UNCHANGED <<corpus, noteIds, file, run, failed>>
      BY <1>2 DEF RemoveNote
    <2>2. BackfillTypeOK' /\ RunTyped'
      BY <2>1 DEF BackfillInv, BackfillTypeOK, RunTyped, RunSteps
    <2>3. RunHasFile' /\ BatchIsPending' /\ VerifiesAll'
      BY <2>1 DEF BackfillInv, RunHasFile, BatchIsPending, VerifiesAll, Loaded, Pending, Present
    <2>. QED  BY <2>1, <2>2, <2>3
              DEF BackfillInv, RunHasNotes, EntriesConfirmed, ResumedRunsSucceed
  <1>. QED  BY <1>1, <1>2

LEMMA RunBegins ==
  ASSUME BackfillInv, run_resumable_backfill
  PROVE  BackfillInv'
  <1>1. PICK budget : run' = [NoRun EXCEPT !.at = "load", !.corpus = corpus, !.budget = budget,
                                           !.attempt = 1]
    BY DEF run_resumable_backfill
  <1>2. UNCHANGED <<corpus, noteOf, noteIds, file, failed>>
    BY DEF run_resumable_backfill
  <1>3. /\ IsRun(run') /\ run'.at = "load" /\ run'.corpus = corpus
        /\ run'.completed = None /\ run'.existing = None /\ run'.results = None /\ run'.batch = {}
    BY <1>1, NoneTyped DEF NoRun, IsRun, RunType, RunSteps, BackfillInv, BackfillTypeOK
  <1>4. BackfillTypeOK' /\ RunTyped'
    BY <1>2, <1>3, RunFields DEF BackfillInv, BackfillTypeOK, RunTyped, RunSteps
  <1>. QED  BY <1>2, <1>3, <1>4
            DEF BackfillInv, RunHasFile, RunHasNotes, EntriesConfirmed,
                BatchIsPending, VerifiesAll, ResumedRunsSucceed

(* What a step of the run that touches no note leaves alone.               *)
LEMMA NotesStay ==
  ASSUME NEW r, RunGoes(r), r.corpus = run.corpus
  PROVE  /\ run' = r /\ UNCHANGED <<corpus, noteOf, noteIds, disturbed, failed>>
         /\ NotesOfDocs' = NotesOfDocs /\ DistinctKeys' = DistinctKeys
         /\ \A d, e : Confirmed(d, e)' = Confirmed(d, e)
  BY DEF RunGoes, NotesOfDocs, DistinctKeys, Confirmed

LEMMA load_checkpoint_keeps ==
  ASSUME BackfillInv, load_backfill_checkpoint
  PROVE  BackfillInv'
  <1>. DEFINE r == [run EXCEPT !.at = "select", !.completed = Loaded]
  <1>1. /\ IsRun(r) /\ r.at = "select" /\ r.corpus = run.corpus /\ r.completed = Loaded
        /\ r.existing = run.existing /\ r.results = run.results /\ r.batch = run.batch
    BY LoadedCheckpointTyped, NotesTyped, NoneTyped
       DEF BackfillInv, RunTyped, IsRun, RunType, RunSteps
  <1>2. RunGoes(r) /\ UNCHANGED file
    BY DEF load_backfill_checkpoint
  <1>. HIDE DEF r
  <1>3. run' = r /\ UNCHANGED <<corpus, noteOf, noteIds, disturbed, failed>>
    BY <1>1, <1>2, NotesStay
  <1>4. BackfillTypeOK' /\ RunTyped'
    BY <1>1, <1>2, <1>3, RunFields DEF BackfillInv, BackfillTypeOK, RunTyped, RunSteps
  <1>5. RunHasFile'
    BY <1>1, <1>2, <1>3 DEF RunHasFile, Loaded
  <1>. QED  BY <1>1, <1>3, <1>4, <1>5
            DEF BackfillInv, RunHasNotes, EntriesConfirmed, BatchIsPending, VerifiesAll,
                ResumedRunsSucceed

LEMMA load_notes_keeps ==
  ASSUME BackfillInv, load_existing_backfill_notes
  PROVE  BackfillInv'
  <1>. DEFINE r == [run EXCEPT !.at = "prune", !.existing = NotesOfDocs]
  <1>1. /\ IsRun(r) /\ r.at = "prune" /\ r.corpus = run.corpus /\ r.completed = run.completed
        /\ r.existing = NotesOfDocs /\ r.results = run.results /\ r.batch = run.batch
    BY LoadedCheckpointTyped, NotesTyped, NoneTyped
       DEF BackfillInv, RunTyped, IsRun, RunType, RunSteps
  <1>2. RunGoes(r) /\ UNCHANGED file /\ run.at = "select"
    BY DEF load_existing_backfill_notes
  <1>. HIDE DEF r
  <1>3. /\ run' = r /\ UNCHANGED <<corpus, noteOf, noteIds, disturbed, failed>>
        /\ NotesOfDocs' = NotesOfDocs
    BY <1>1, <1>2, NotesStay
  <1>4. BackfillTypeOK' /\ RunTyped'
    BY <1>1, <1>2, <1>3, RunFields DEF BackfillInv, BackfillTypeOK, RunTyped, RunSteps
  <1>5. RunHasFile' /\ RunHasNotes'
    BY <1>1, <1>2, <1>3 DEF BackfillInv, RunHasFile, RunHasNotes, Loaded
  <1>. QED  BY <1>1, <1>3, <1>4, <1>5
            DEF BackfillInv, EntriesConfirmed, BatchIsPending, VerifiesAll, ResumedRunsSucceed

LEMMA prune_keeps ==
  ASSUME BackfillInv, prune_completed
  PROVE  BackfillInv'
  <1>. DEFINE valid == [d \in Docs |->
                          IF checkpoint_entry_valid(d, run.completed[d], run.existing)
                            THEN run.completed[d] ELSE NoEntry]
              r == [run EXCEPT !.at = "batch", !.completed = valid]
  <1>3. valid \in [Docs -> Entry]
    BY RunFields DEF BackfillInv, RunTyped, Entry
  <1>1. /\ IsRun(r) /\ r.at = "batch" /\ r.corpus = run.corpus /\ r.completed = valid
        /\ r.existing = run.existing /\ r.results = run.results /\ r.batch = run.batch
    <2>. HIDE DEF valid
    <2>. QED  BY <1>3 DEF BackfillInv, RunTyped, IsRun, RunType, RunSteps
  <1>2. /\ RunGoes(r) /\ run.at = "prune"
        /\ file' = IF valid = run.completed THEN file
                   ELSE [corpus |-> run.corpus, completed |-> valid]
    BY DEF prune_completed
  <1>4. \A d \in Docs : valid[d] # NoEntry =>
          valid[d].text = run.corpus[d] /\ run.existing[d] = valid[d]
    BY DEF checkpoint_entry_valid
  <1>. HIDE DEF r, valid
  <1>5. /\ run' = r /\ UNCHANGED <<corpus, noteOf, noteIds, disturbed, failed>>
        /\ NotesOfDocs' = NotesOfDocs
    BY <1>1, <1>2, NotesStay
  <1>6. file' \in [corpus : [Docs -> 0..MaxText], completed : [Docs -> Entry]]
    BY <1>2, <1>3, RunFields DEF BackfillInv, BackfillTypeOK, RunTyped, RunSteps
  <1>7. BackfillTypeOK' /\ RunTyped'
    BY <1>1, <1>3, <1>5, <1>6, RunFields DEF BackfillInv, BackfillTypeOK, RunTyped, RunSteps
  <1>8. RunHasFile'
    BY <1>1, <1>2, <1>5 DEF BackfillInv, RunHasFile, Loaded
  <1>9. EntriesConfirmed'
    BY <1>1, <1>2, <1>4, <1>5 DEF BackfillInv, EntriesConfirmed, RunHasNotes, Confirmed
  <1>. QED  BY <1>1, <1>5, <1>7, <1>8, <1>9
            DEF BackfillInv, RunHasNotes, BatchIsPending, VerifiesAll, ResumedRunsSucceed

LEMMA next_batch_keeps ==
  ASSUME BackfillInv, NextBatch
  PROVE  BackfillInv'
  <1>1. PICK n : RunGoes([run EXCEPT !.at = "add", !.batch = FirstOf(Pending, n), !.results = None])
    BY DEF NextBatch
  <1>. DEFINE r == [run EXCEPT !.at = "add", !.batch = FirstOf(Pending, n), !.results = None]
  <1>2. /\ IsRun(r) /\ r.at = "add" /\ r.corpus = run.corpus /\ r.completed = run.completed
        /\ r.existing = run.existing /\ r.results = None /\ r.batch = FirstOf(Pending, n)
    <2>1. FirstOf(Pending, n) \subseteq Docs
      BY DEF FirstOf, Pending, Present
    <2>. HIDE DEF None, FirstOf
    <2>. QED  BY <2>1, NoneTyped DEF BackfillInv, RunTyped, IsRun, RunType, RunSteps
  <1>3. UNCHANGED file /\ run.at = "batch" /\ RunGoes(r)
    BY <1>1 DEF NextBatch
  <1>. HIDE DEF r
  <1>4. /\ run' = r /\ UNCHANGED <<corpus, noteOf, noteIds, disturbed, failed>>
        /\ DistinctKeys' = DistinctKeys /\ \A d, e : Confirmed(d, e)' = Confirmed(d, e)
    BY <1>2, <1>3, NotesStay
  <1>5. FirstOf(Pending, n) \subseteq Pending /\ Pending \subseteq Docs /\ Pending' = Pending
    BY <1>2, <1>4 DEF FirstOf, Pending, Present
  <1>6. BackfillTypeOK' /\ RunTyped'
    BY <1>2, <1>3, <1>4, <1>5, RunFields DEF BackfillInv, BackfillTypeOK, RunTyped, RunSteps
  <1>7. RunHasFile' /\ BatchIsPending'
    BY <1>2, <1>3, <1>4, <1>5 DEF BackfillInv, RunHasFile, Loaded, BatchIsPending
  <1>8. EntriesConfirmed'
    <2>1. \A d \in Docs : Confirmed(d, None[d])
      BY NoneTyped DEF Confirmed
    <2>. QED  BY <1>2, <1>3, <1>4, <2>1 DEF BackfillInv, EntriesConfirmed, Confirmed, NotesOfDocs
  <1>. QED  BY <1>2, <1>4, <1>6, <1>7, <1>8
            DEF BackfillInv, RunHasNotes, VerifiesAll, ResumedRunsSucceed

(* The note a step of the request writes, and its result.                  *)
LEMMA add_note_keeps ==
  ASSUME BackfillInv, add_note
  PROVE  BackfillInv'
  <1>1. PICK d \in run.batch, id \in 1..MaxNoteId :
           /\ noteIds' \in 0..MaxNoteId
           /\ noteOf' = [noteOf EXCEPT ![DocKeys[d]] = [id |-> id, doc |-> d, text |-> run.corpus[d]]]
           /\ run' = [run EXCEPT !.batch = @ \ {d}, !.results[d] = [id |-> id, text |-> run.corpus[d]]]
    <2>1. PICK d \in run.batch :
             LET old == noteOf[DocKeys[d]]
                 id == IF old = NoEntry THEN noteIds + 1 ELSE old.id
             IN /\ id <= MaxNoteId
                /\ noteIds' = IF old = NoEntry THEN id ELSE noteIds
                /\ noteOf' = [noteOf EXCEPT ![DocKeys[d]] =
                                 [id |-> id, doc |-> d, text |-> run.corpus[d]]]
                /\ run' = [run EXCEPT !.batch = @ \ {d},
                                      !.results[d] = [id |-> id, text |-> run.corpus[d]]]
      BY DEF add_note
    <2>. DEFINE old == noteOf[DocKeys[d]]
                id == IF old = NoEntry THEN noteIds + 1 ELSE old.id
    <2>2. DocKeys[d] \in NotesKeys
      BY RunFields DEF BackfillInv, RunTyped, NotesKeys
    <2>3. id \in 1..MaxNoteId
      BY <2>1, <2>2, BackfillAssumption DEF BackfillInv, BackfillTypeOK
    <2>4. noteIds' \in 0..MaxNoteId
      BY <2>1, <2>3 DEF BackfillInv, BackfillTypeOK
    <2>. HIDE DEF id
    <2>. QED  BY <2>1, <2>3, <2>4 DEF id
  <1>. DEFINE entry == [id |-> id, text |-> run.corpus[d]]
              note == [id |-> id, doc |-> d, text |-> run.corpus[d]]
              r == [run EXCEPT !.batch = @ \ {d}, !.results[d] = entry]
  <1>2. run.at = "add" /\ UNCHANGED <<corpus, file, disturbed, failed>>
    BY DEF add_note
  <1>3. /\ d \in Docs /\ d \in Pending /\ d \in Present(run.corpus) /\ run.completed[d] = NoEntry
        /\ run.corpus[d] \in 1..MaxText /\ DocKeys[d] \in NotesKeys
    BY <1>2, RunFields, BackfillAssumption
       DEF BackfillInv, RunTyped, BatchIsPending, Pending, Present, NotesKeys
  <1>4. /\ entry \in Entry /\ entry # NoEntry /\ entry.text = run.corpus[d]
        /\ note \in [id : 1..MaxNoteId, doc : Docs, text : 1..MaxText] /\ note # NoEntry
        /\ note.doc = d /\ note.id = entry.id /\ note.text = entry.text
        /\ entry = [id |-> note.id, text |-> note.text]
    BY <1>3, BackfillAssumption DEF Entry
  <1>. HIDE DEF entry, note
  <1>5. /\ IsRun(r) /\ r.at = run.at /\ r.corpus = run.corpus /\ r.completed = run.completed
        /\ r.existing = run.existing /\ r.batch = run.batch \ {d}
        /\ r.results = [run.results EXCEPT ![d] = entry]
    BY <1>4 DEF BackfillInv, RunTyped, IsRun, RunType
  <1>6. run' = r
    BY <1>1 DEF entry
  <1>7. noteOf' = [noteOf EXCEPT ![DocKeys[d]] = note]
    BY <1>1 DEF note
  <1>. HIDE DEF r
  <1>8. BackfillTypeOK' /\ RunTyped'
    <2>1. RunTyped' /\ run'.at \in RunSteps /\ run'.completed \in [Docs -> Entry]
          /\ run'.existing \in [Docs -> Entry]
      BY <1>5, <1>6, RunFields DEF RunTyped
    <2>2. noteOf' \in [NotesKeys -> [id : 1..MaxNoteId, doc : Docs, text : 1..MaxText] \cup {NoEntry}]
      BY <1>3, <1>4, <1>7 DEF BackfillInv, BackfillTypeOK
    <2>. QED  BY <1>1, <1>2, <2>1, <2>2 DEF BackfillInv, BackfillTypeOK, RunSteps
  <1>9. RunHasFile' /\ BatchIsPending' /\ DistinctKeys' = DistinctKeys
    BY <1>2, <1>5, <1>6
       DEF BackfillInv, RunHasFile, Loaded, BatchIsPending, Pending, Present, DistinctKeys
  <1>10. /\ NotesOfDocs'[d] = entry
         /\ \A e \in Docs : DocKeys[e] # DocKeys[d] => NotesOfDocs'[e] = NotesOfDocs[e]
    <2>1. noteOf'[DocKeys[d]] = note
      BY <1>3, <1>7 DEF BackfillInv, BackfillTypeOK
    <2>2. \A e \in Docs : DocKeys[e] # DocKeys[d] => noteOf'[DocKeys[e]] = noteOf[DocKeys[e]]
      BY <1>7 DEF BackfillInv, BackfillTypeOK, NotesKeys
    <2>. QED  BY <1>3, <1>4, <2>1, <2>2 DEF NotesOfDocs
  <1>11. EntriesConfirmed'
    <2>. SUFFICES ASSUME ~disturbed, DistinctKeys, NEW e \in Docs
                  PROVE  Confirmed(e, run.completed[e])' /\ Confirmed(e, run.results[e])'
      BY <1>2, <1>5, <1>6, <1>9 DEF EntriesConfirmed
    <2>1. Confirmed(e, run.completed[e]) /\ Confirmed(e, run.results[e])
      BY <1>2 DEF BackfillInv, EntriesConfirmed
    <2>2. run.completed[e] \in Entry /\ run.results[e] \in Entry /\ run.results \in [Docs -> Entry]
      BY RunFields DEF BackfillInv, RunTyped
    <2>3. ASSUME NEW x \in Entry, x # NoEntry, Confirmed(e, x), e # d
          PROVE  NotesOfDocs'[e] = x /\ x.text = run'.corpus[e]
      <3>1. x.text = run.corpus[e] /\ x.text \in 1..MaxText /\ NotesOfDocs[e] = x
        BY <2>3, EntryHasText DEF Confirmed
      <3>2. e \in Present(run.corpus)
        BY <3>1 DEF Present
      <3>3. DocKeys[e] # DocKeys[d]
        BY <1>3, <2>3, <3>2 DEF DistinctKeys
      <3>. QED  BY <1>5, <1>6, <1>10, <3>1, <3>3
    <2>4. CASE e = d
      BY <1>3, <1>4, <1>5, <1>6, <1>10, <2>2, <2>4 DEF Confirmed
    <2>5. CASE e # d
      BY <1>5, <1>6, <2>1, <2>2, <2>3, <2>5 DEF Confirmed
    <2>. QED  BY <2>4, <2>5
  <1>. QED  BY <1>2, <1>5, <1>6, <1>8, <1>9, <1>11
            DEF BackfillInv, RunHasNotes, VerifiesAll, ResumedRunsSucceed

LEMMA write_keeps ==
  ASSUME BackfillInv, write_backfill_checkpoint
  PROVE  BackfillInv'
  <1>. DEFINE completed == [d \in Docs |-> IF run.results[d] # NoEntry THEN run.results[d]
                                                                      ELSE run.completed[d]]
  <1>. DEFINE written == Cardinality({d \in Docs : run.results[d] # NoEntry})
  <1>1. PICK at \in {"load", "batch"}, attempt \in {run.attempt, 2},
             budget \in {0, run.budget - written} :
           /\ RunGoes([run EXCEPT !.completed = completed, !.results = None, !.at = at,
                                  !.attempt = attempt, !.budget = budget])
           /\ file' = [corpus |-> run.corpus, completed |-> completed]
           /\ run.at = "add"
    BY DEF write_backfill_checkpoint
  <1>. DEFINE r == [run EXCEPT !.completed = completed, !.results = None, !.at = at,
                               !.attempt = attempt, !.budget = budget]
  <1>2. completed \in [Docs -> Entry]
    BY RunFields DEF BackfillInv, RunTyped
  <1>3. /\ IsRun(r) /\ r.at = at /\ r.corpus = run.corpus /\ r.completed = completed
        /\ r.existing = run.existing /\ r.batch = run.batch /\ r.results = None
    <2>. HIDE DEF completed
    <2>. QED  BY <1>2, NoneTyped DEF BackfillInv, RunTyped, IsRun, RunType, RunSteps
  <1>4. \A d \in Docs : completed[d] = run.results[d] \/ completed[d] = run.completed[d]
    OBVIOUS
  <1>. HIDE DEF r, completed
  <1>5. /\ run' = r /\ UNCHANGED <<corpus, noteOf, noteIds, disturbed, failed>>
        /\ NotesOfDocs' = NotesOfDocs /\ DistinctKeys' = DistinctKeys
    BY <1>1, <1>3, NotesStay DEF r
  <1>6. file' \in [corpus : [Docs -> 0..MaxText], completed : [Docs -> Entry]]
    BY <1>1, <1>2, RunFields DEF BackfillInv, RunTyped
  <1>7. BackfillTypeOK' /\ RunTyped'
    BY <1>3, <1>5, <1>6, RunFields DEF BackfillInv, BackfillTypeOK, RunTyped, RunSteps
  <1>8. RunHasFile'
    BY <1>1, <1>3, <1>5, <1>6 DEF RunHasFile, Loaded
  <1>9. EntriesConfirmed'
    <2>. SUFFICES ASSUME ~disturbed, DistinctKeys, NEW d \in Docs
                  PROVE  Confirmed(d, run.completed[d])'
      BY <1>3, <1>5 DEF EntriesConfirmed
    <2>1. Confirmed(d, run.completed[d]) /\ Confirmed(d, run.results[d])
      BY <1>1 DEF BackfillInv, EntriesConfirmed
    <2>. QED  BY <1>3, <1>4, <1>5, <2>1 DEF Confirmed
  <1>. QED  BY <1>3, <1>5, <1>7, <1>8, <1>9
            DEF BackfillInv, RunHasNotes, BatchIsPending, VerifiesAll, ResumedRunsSucceed

LEMMA reload_keeps ==
  ASSUME BackfillInv, reload_checkpoint
  PROVE  BackfillInv'
  <1>. DEFINE r == [run EXCEPT !.at = "verify", !.completed = Loaded]
  <1>1. /\ IsRun(r) /\ r.at = "verify" /\ r.corpus = run.corpus /\ r.completed = Loaded
        /\ r.existing = run.existing /\ r.batch = run.batch /\ r.results = run.results
    BY LoadedCheckpointTyped DEF BackfillInv, RunTyped, IsRun, RunType, RunSteps
  <1>2. RunGoes(r) /\ UNCHANGED file /\ run.at = "batch" /\ Pending = {}
    BY DEF reload_checkpoint
  <1>3. Loaded = run.completed
    BY <1>2 DEF BackfillInv, RunHasFile
  <1>. HIDE DEF r
  <1>4. /\ run' = r /\ UNCHANGED <<corpus, noteOf, noteIds, disturbed, failed>>
        /\ NotesOfDocs' = NotesOfDocs /\ DistinctKeys' = DistinctKeys
    BY <1>1, <1>2, NotesStay
  <1>5. BackfillTypeOK' /\ RunTyped'
    BY <1>1, <1>2, <1>4, RunFields DEF BackfillInv, BackfillTypeOK, RunTyped, RunSteps
  <1>6. RunHasFile'
    BY <1>1, <1>2, <1>4 DEF RunHasFile, Loaded
  <1>7. EntriesConfirmed' /\ VerifiesAll'
    BY <1>1, <1>2, <1>3, <1>4
       DEF BackfillInv, EntriesConfirmed, Confirmed, VerifiesAll, Pending, Present
  <1>. QED  BY <1>1, <1>4, <1>5, <1>6, <1>7
            DEF BackfillInv, RunHasNotes, BatchIsPending, ResumedRunsSucceed

LEMMA verify_keeps ==
  ASSUME BackfillInv, Verify
  PROVE  BackfillInv'
  <1>1. run.at = "verify" /\ run' = NoRun /\ UNCHANGED <<corpus, noteOf, noteIds, file>>
    BY DEF Verify
  <1>2. ASSUME ~disturbed, DistinctKeys, NEW d \in Present(run.corpus)
        PROVE  checkpoint_entry_valid(d, run.completed[d], NotesOfDocs)
    <2>1. d \in Docs
      BY DEF Present
    <2>. QED  BY <1>1, <1>2, <2>1
              DEF BackfillInv, EntriesConfirmed, VerifiesAll, Confirmed, checkpoint_entry_valid
  <1>3. failed' = FALSE
    <2>1. ~ (/\ ~disturbed /\ DistinctKeys
             /\ \E d \in Present(run.corpus) : ~checkpoint_entry_valid(d, run.completed[d], NotesOfDocs))
      BY <1>2, Zenon
    <2>2. ~failed
      BY DEF BackfillInv, ResumedRunsSucceed
    <2>. QED  BY <2>1, <2>2, Zenon DEF Verify
  <1>. QED  BY <1>1, <1>3, RunEnds

LEMMA NextBackfill == BackfillInv /\ [BackfillNext]_backfillVars => BackfillInv'
  <1>. SUFFICES ASSUME BackfillInv, [BackfillNext]_backfillVars PROVE BackfillInv'
    OBVIOUS
  <1>1. CASE RunDies
    BY <1>1, RunEnds DEF RunDies, BackfillInv, BackfillTypeOK, ResumedRunsSucceed
  <1>2. CASE UNCHANGED backfillVars
    BY <1>2 DEF backfillVars, BackfillInv, BackfillTypeOK, RunTyped, RunHasFile, RunHasNotes,
                EntriesConfirmed, BatchIsPending, VerifiesAll, ResumedRunsSucceed, Confirmed,
                NotesOfDocs, DistinctKeys, Loaded, Pending
  <1>. QED  BY <1>1, <1>2, WorldKeepsBackfill, RunBegins, load_checkpoint_keeps, load_notes_keeps,
               prune_keeps, next_batch_keeps, add_note_keeps, write_keeps, reload_keeps, verify_keeps
            DEF BackfillNext

(* A run that gets through on documents with keys of their own, with nobody *)
(* removing notes meanwhile, is confirmed by the notes, however often it   *)
(* was interrupted and resumed (run_resumable_backfill).                   *)
THEOREM ResumedRunsAlwaysSucceed == BackfillSpec => [](ResumedRunsSucceed /\ BackfillTypeOK)
  <1>1. BackfillInv => ResumedRunsSucceed /\ BackfillTypeOK
    BY DEF BackfillInv
  <1>. QED  BY <1>1, InitBackfill, NextBackfill, PTL DEF BackfillSpec

-----------------------------------------------------------------------------
(***************************************************************************)
(* The six components side by side.                                        *)
(***************************************************************************)
(* What each of the six keeps.                                             *)
ComponentsInv ==
  /\ TraceInv
  /\ SessionInv
  /\ ProfileInv
  /\ BlocksInv
  /\ PagesInv
  /\ BackfillInv

LEMMA InitComponents == Init => ComponentsInv
  BY InitTraces, InitSessions, InitProfiles, InitBlocks, InitPages, InitBackfill
     DEF Init, ComponentsInv

(* A step of one of them leaves the variables of the others alone.         *)
LEMMA NextComponents == ComponentsInv /\ [Next]_vars => ComponentsInv'
  <1>. SUFFICES ASSUME ComponentsInv, [Next]_vars PROVE ComponentsInv'
    OBVIOUS
  <1>1. [TraceNext]_traceVars
    BY DEF Next, vars, NotTraces
  <1>2. [SessionNext]_sessionVars
    BY DEF Next, vars, NotTraces
  <1>3. [ProfileNext]_profileVars
    BY DEF Next, vars, NotTraces
  <1>4. [BlocksNext]_blockVars
    BY DEF Next, vars, NotTraces
  <1>5. [PagesNext]_pageVars
    BY DEF Next, vars, NotTraces
  <1>6. [BackfillNext]_backfillVars
    BY DEF Next, vars, NotTraces
  <1>. QED  BY <1>1, <1>2, <1>3, <1>4, <1>5, <1>6, NextTraces, NextSessions, NextProfiles,
               NextBlocks, NextPages, NextBackfill DEF ComponentsInv

(* Side by side the six keep their types and what each of them promises:   *)
(* whole traces (persist_trace_inline, handle_trace_job), sessions that    *)
(* last as long as a response said (touch_search_session), a default       *)
(* profile that resolves (seed_default_profile), core blocks that replay   *)
(* from their events (insert_core_block_event), pages that agree with      *)
(* their sections (upsert_knowledge_page) and backfills that resume to     *)
(* success (run_resumable_backfill).                                       *)
THEOREM ComponentsKeepTheirPromises ==
  Spec => [](/\ TypeOK
             /\ WholeTraces
             /\ PromisesKept
             /\ DefaultResolves
             /\ BlocksReplay
             /\ PagesAgree
             /\ ResumedRunsSucceed)
<1>1. ComponentsInv => /\ TypeOK
                       /\ WholeTraces
                       /\ PromisesKept
                       /\ DefaultResolves
                       /\ BlocksReplay
                       /\ PagesAgree
                       /\ ResumedRunsSucceed
  BY DEF ComponentsInv, TypeOK, TraceInv, SessionInv, ProfileInv, BlocksInv, PagesInv, BackfillInv
<1>. QED  BY <1>1, InitComponents, NextComponents, PTL DEF Spec

=============================================================================
