--------------------------- MODULE KnowledgePages ---------------------------
(***************************************************************************)
(* One derived knowledge page: the page row, its sections with the source  *)
(* references they cite, and the lint findings. A rebuild reads the        *)
(* sources in one statement per kind and then replaces the page in one     *)
(* transaction; a lint compares the references with the sources and        *)
(* replaces the findings in one transaction; a search reads sections,      *)
(* references and sources in statements of their own. All of them run side *)
(* by side with each other and with whoever changes the sources.           *)
(*                                                                         *)
(* Every source is of a kind of its own here, so that a section cites one  *)
(* source: a section and its reference are [build, source, version].       *)
(***************************************************************************)
EXTENDS Naturals, FiniteSets

CONSTANTS Sources,     \* (source_kind, source_id)
          Visitors,    \* requests in flight
          MaxChanges,  \* bound on updated_at of a source
          MaxBuilds,   \* bound on the rebuilds that reach their transaction
          MaxVisits    \* bound on the requests

ASSUME PagesAssumption ==
  /\ MaxChanges \in Nat \ {0}
  /\ MaxBuilds \in Nat
  /\ MaxVisits \in Nat

VARIABLES sources,    \* [Sources -> updated_at]
          gone,       \* sources that are deleted, expired or deprecated
          page,       \* build of the page row, 0 before the first
          sections,   \* committed sections and references
          findings,   \* [lint, kind, build, source]; build 0: section_id is NULL
          visit,      \* [Visitors -> what the request has read]
          builds,     \* builds so far
          visits,     \* requests so far
          lastLint,   \* history: the page and the sources that the last lint had read
          misled      \* history: sections that a search should not have shown

pageVars == <<sources, gone, page, sections, findings, visit, builds, visits, lastLint, misled>>

Gone == 0
Section == [build : 1..MaxBuilds, source : Sources, version : 1..MaxChanges]
Kinds   == {"stale_source_ref", "missing_source_ref"}
Finding == [lint : 1..MaxVisits, kind : Kinds, build : 0..MaxBuilds, source : Sources]
FindingId == (1..MaxVisits) \X Kinds \X Sources
NothingSeen == [s \in {} |-> Gone]

(* What a request has read; no: the number of a lint; absent (history): of  *)
(* a search, the sources that have been gone ever since it began.          *)
NoVisit == [at |-> "idle", ids |-> {}, read |-> {}, refs |-> {}, seen |-> NothingSeen,
            build |-> 0, cleared |-> {}, no |-> 0, absent |-> {}]

finding_id(f) == <<f.lint, f.kind, f.source>>

(* Types. The page row and its children exist together.                    *)
PagesTypeOK ==
  /\ sources \in [Sources -> 1..MaxChanges]
  /\ gone \subseteq Sources
  /\ visits \in 0..MaxVisits
  /\ page \in 0..builds /\ builds \in 0..MaxBuilds
  /\ sections \subseteq Section
  /\ findings \subseteq Finding
  /\ page = 0 <=> sections = {}
  /\ misled \subseteq Section

PagesInit ==
  /\ sources = [s \in Sources |-> 1] /\ gone = {}
  /\ page = 0 /\ sections = {} /\ findings = {}
  /\ visit = [v \in Visitors |-> NoVisit]
  /\ builds = 0 /\ visits = 0
  /\ lastLint = [build |-> 0, seen |-> NothingSeen]
  /\ misled = {}

(* A source is updated, ...                                                *)
SourceChanges(s) ==
  /\ s \notin gone /\ sources[s] < MaxChanges
  /\ sources' = [sources EXCEPT ![s] = @ + 1]
  /\ UNCHANGED <<gone, page, sections, findings, visit, builds, visits, lastLint, misled>>

(* ... is deleted, expires or is deprecated, ...                           *)
SourceGoes(s) ==
  /\ s \notin gone
  /\ gone' = gone \cup {s}
  /\ UNCHANGED <<sources, page, sections, findings, visit, builds, visits, lastLint, misled>>

(* ... and comes back: a note is restored, a document is put again.        *)
SourceReturns(s) ==
  /\ s \in gone /\ sources[s] < MaxChanges
  /\ gone' = gone \ {s}
  /\ sources' = [sources EXCEPT ![s] = @ + 1]
  /\ visit' = [v \in Visitors |-> [visit[v] EXCEPT !.absent = @ \ {s}]]
  /\ UNCHANGED <<page, sections, findings, builds, visits, lastLint, misled>>

(* What a statement that looks sources up finds.                           *)
Found == [s \in Sources |-> IF s \in gone THEN Gone ELSE sources[s]]

Visits(v, new) ==
  /\ visit[v].at = "idle" /\ visits < MaxVisits
  /\ visits' = visits + 1
  /\ visit' = [visit EXCEPT ![v] = new]
  /\ UNCHANGED <<sources, gone, page, sections, findings, builds, lastLint, misled>>

Proceeds(v, new) ==
  /\ visit' = [visit EXCEPT ![v] = new]
  /\ UNCHANGED <<sources, gone, page, sections, findings, builds, visits, lastLint, misled>>

At(v, step) == visit[v].at = step
Elsewhere(v, steps) == \E w \in Visitors \ {v} : visit[w].at \in steps

-----------------------------------------------------------------------------
(* Rebuild                                                                 *)

(* Sources named by the request, or by the references of the page for      *)
(* knowledge_pages_watch_rebuild.                                          *)
knowledge_page_rebuild(v, ids) == Visits(v, [NoVisit EXCEPT !.at = "resolve", !.ids = ids])

(* require_counts refuses a rebuild one of whose sources is not found.     *)
resolve_sources(v, s) ==
  /\ At(v, "resolve") /\ s \in visit[v].ids
  /\ Proceeds(v, IF Found[s] = Gone THEN NoVisit
              ELSE [visit[v] EXCEPT !.ids = @ \ {s},
                                    !.read = @ \cup {[source |-> s, version |-> Found[s]]}])

Replacing == {"delete_children", "delete_sections", "delete_findings", "commit_page"}

(* Slip: the children of the page are deleted before the page is upserted. *)
upsert_knowledge_page_unlocked(v) ==
  /\ At(v, "resolve") /\ visit[v].ids = {}
  /\ builds < MaxBuilds
  /\ builds' = builds + 1
  /\ visit' = [visit EXCEPT ![v].at = "delete_children", ![v].build = builds + 1]
  /\ UNCHANGED <<sources, gone, page, sections, findings, visits, lastLint, misled>>

(* The row of the page, new or not, is locked until the end.               *)
upsert_knowledge_page(v) ==
  /\ At(v, "resolve") /\ visit[v].ids = {}
  /\ ~Elsewhere(v, Replacing)
  /\ builds < MaxBuilds
  /\ builds' = builds + 1
  /\ visit' = [visit EXCEPT ![v].at = "delete_children", ![v].build = builds + 1]
  /\ UNCHANGED <<sources, gone, page, sections, findings, visits, lastLint, misled>>

(* One statement deletes the children. Its snapshot is from its beginning:  *)
(* what a lint commits while it waits is not among the findings it deletes. *)
delete_knowledge_page_children(v) ==
  /\ At(v, "delete_children")
  /\ Proceeds(v, [visit[v] EXCEPT !.at = "delete_sections", !.refs = sections,
                                  !.cleared = {finding_id(f) : f \in findings}])

(* It deletes the sections, which wait for a lint that has inserted         *)
(* findings about them ...                                                 *)
delete_sections(v) ==
  /\ At(v, "delete_sections")
  /\ \A w \in Visitors : visit[w].at = "commit_lint" => visit[w].read = {}
  /\ Proceeds(v, [visit[v] EXCEPT !.at = "delete_findings"])

(* Findings about the sections that the rebuild has deleted.               *)
AboutDeleted(v) ==
  {finding_id(f) : f \in {f \in findings : \E c \in visit[v].refs : c.build = f.build}}

(* Rows of findings that a request has deleted, or cut from their section   *)
(* (ON DELETE SET NULL), and not committed.                                *)
FindingsLocked(v) ==
  CASE visit[v].at \in {"insert_findings", "commit_lint"} -> visit[v].cleared
    [] visit[v].at = "commit_page" -> visit[v].cleared \cup AboutDeleted(v)
    [] OTHER -> {}

(* A DELETE waits for whoever has locked one of its rows, and skips the     *)
(* rows that are gone by then.                                             *)
FreeToDelete(v, rows) == \A w \in Visitors \ {v} : FindingsLocked(w) \cap rows = {}
StillThere(rows) == rows \cap {finding_id(f) : f \in findings}

(* ... and the findings; the others about its sections lose their section. *)
delete_findings(v) ==
  /\ At(v, "delete_findings")
  /\ FreeToDelete(v, visit[v].cleared \cup AboutDeleted(v))
  /\ Proceeds(v, [visit[v] EXCEPT !.at = "commit_page", !.cleared = StillThere(@)])

(* insert_section and insert_source_ref, and the commit.                   *)
CommitPage(v) ==
  LET new == {[build |-> visit[v].build, source |-> r.source, version |-> r.version] :
                r \in visit[v].read}
  IN /\ At(v, "commit_page")
     /\ page' = visit[v].build
     /\ sections' = (sections \ visit[v].refs) \cup new
     /\ findings' = {IF \E c \in visit[v].refs : c.build = f.build
                       THEN [f EXCEPT !.build = 0] ELSE f :
                     f \in {f \in findings : finding_id(f) \notin visit[v].cleared}}
     /\ visit' = [visit EXCEPT ![v] = NoVisit]
     /\ UNCHANGED <<sources, gone, builds, visits, lastLint, misled>>

-----------------------------------------------------------------------------
(* Lint                                                                    *)

knowledge_page_lint(v) ==
  page # 0 /\ Visits(v, [NoVisit EXCEPT !.at = "list_refs", !.no = visits + 1])

list_source_refs(v) ==
  /\ At(v, "list_refs")
  /\ Proceeds(v, [visit[v] EXCEPT !.at = "list_sections", !.refs = sections, !.build = page])

Tells(v, kind, c) == [lint |-> visit[v].no, kind |-> kind, build |-> c.build, source |-> c.source]

(* The findings about the sections themselves: one that is not among the   *)
(* references read before has no source_ref.                               *)
list_sections(v) ==
  /\ At(v, "list_sections")
  /\ Proceeds(v, [visit[v] EXCEPT !.at = "lint_source_refs",
                 !.read = {Tells(v, "missing_source_ref", c) :
                             c \in {c \in sections : \A r \in visit[v].refs : r.build # c.build}}])

(* missing_source_finding and stale_source_finding (source_changed).       *)
lint_source_refs(v) ==
  /\ At(v, "lint_source_refs")
  /\ Proceeds(v, [visit[v] EXCEPT !.at = "delete_lint", !.seen = Found,
                 !.read = @ \cup {Tells(v, "stale_source_ref", r) :
                                    r \in {r \in visit[v].refs : Found[r.source] # r.version}}])

(* The DELETE begins with its snapshot ...                                 *)
delete_knowledge_page_lint_findings(v) ==
  /\ At(v, "delete_lint")
  /\ Proceeds(v, [visit[v] EXCEPT !.at = "clear_findings",
                                  !.cleared = {finding_id(f) : f \in findings}])

(* ... and ends when its rows are free.                                    *)
clear_findings(v) ==
  /\ At(v, "clear_findings")
  /\ FreeToDelete(v, visit[v].cleared)
  /\ Proceeds(v, [visit[v] EXCEPT !.at = "insert_findings", !.cleared = StillThere(@)])

(* The foreign key to the section waits for a rebuild that is deleting it  *)
(* and fails when it is gone.                                              *)
insert_lint_finding(v) ==
  /\ At(v, "insert_findings")
  /\ visit[v].read = {} \/ ~Elsewhere(v, {"delete_findings", "commit_page"})
  /\ Proceeds(v, IF \A f \in visit[v].read : \E c \in sections : c.build = f.build /\ c.source = f.source
              THEN [visit[v] EXCEPT !.at = "commit_lint"] ELSE NoVisit)

CommitLint(v) ==
  /\ At(v, "commit_lint")
  /\ findings' = {f \in findings : finding_id(f) \notin visit[v].cleared} \cup visit[v].read
  /\ lastLint' = [build |-> visit[v].build, seen |-> visit[v].seen]
  /\ visit' = [visit EXCEPT ![v] = NoVisit]
  /\ UNCHANGED <<sources, gone, page, sections, builds, visits, misled>>

(* A statement fails, the process dies, or PostgreSQL ends a deadlock: a   *)
(* rebuild that deletes findings and a lint that inserts them can wait for *)
(* each other.                                                             *)
Aborts(v) == visit[v].at \notin {"idle"} /\ Proceeds(v, NoVisit)

-----------------------------------------------------------------------------
(* Search                                                                  *)

search_knowledge_page_sections(v) ==
  /\ page # 0
  /\ Visits(v, [NoVisit EXCEPT !.at = "list_search_refs", !.read = sections, !.absent = gone])

list_knowledge_page_source_refs_for_pages(v) ==
  /\ At(v, "list_search_refs")
  /\ Proceeds(v, [visit[v] EXCEPT !.at = "recall", !.refs = sections, !.build = page])

(* A section must have references, and every one of them must resolve.     *)
recallable_source_refs(c, refs) ==
  \E r \in refs : r.build = c.build /\ r.source = c.source /\ Found[r.source] # Gone

resolve_current_recallable_source_keys(v) ==
  LET shown == {c \in visit[v].read : recallable_source_refs(c, visit[v].refs)}
  IN /\ At(v, "recall")
     /\ misled' = misled \cup {c \in shown : c.build # visit[v].build \/ c.source \in visit[v].absent}
     /\ visit' = [visit EXCEPT ![v] = NoVisit]
     /\ UNCHANGED <<sources, gone, page, sections, findings, builds, visits, lastLint>>

PagesNext ==
  \/ \E s \in Sources : SourceChanges(s) \/ SourceGoes(s) \/ SourceReturns(s)
  \/ \E v \in Visitors :
       \/ \E ids \in (SUBSET Sources) \ {{}} : knowledge_page_rebuild(v, ids)
       \/ \E s \in Sources : resolve_sources(v, s)
       \/ upsert_knowledge_page(v)
       \/ delete_knowledge_page_children(v)
       \/ delete_sections(v)
       \/ delete_findings(v)
       \/ CommitPage(v)
       \/ knowledge_page_lint(v)
       \/ list_source_refs(v)
       \/ list_sections(v)
       \/ lint_source_refs(v)
       \/ delete_knowledge_page_lint_findings(v)
       \/ clear_findings(v)
       \/ insert_lint_finding(v)
       \/ CommitLint(v)
       \/ Aborts(v)
       \/ search_knowledge_page_sections(v)
       \/ list_knowledge_page_source_refs_for_pages(v)
       \/ resolve_current_recallable_source_keys(v)

PagesSpec == PagesInit /\ [][PagesNext]_pageVars

-----------------------------------------------------------------------------
(* The sections come from one build, that of the page row, however         *)
(* rebuilds of the page overlap.                                           *)
OneBuild == \A c \in sections : c.build = page

(* As long as the page is not rebuilt, every reference that the last lint  *)
(* found out of date has its finding.                                      *)
LintTellsStale ==
  page = lastLint.build /\ page # 0 =>
    \A c \in sections : lastLint.seen[c.source] # c.version =>
      \E f \in findings : /\ f.kind = "stale_source_ref"
                          /\ f.build = c.build /\ f.source = c.source

(* A search reads sections, references and sources at three times: it shows *)
(* no section that a rebuild had replaced by the time the references were  *)
(* read, and none about a source that was gone from before the sections    *)
(* were read until the sources were.                                       *)
NoneMisled == misled = {}

(* A page never mixes two builds, a lint is not undone by what runs beside *)
(* it, and a search is not misled by what happens between its statements   *)
(* (knowledge_page_rebuild, knowledge_page_lint, knowledge_pages_search).  *)
PagesAgree == OneBuild /\ LintTellsStale /\ NoneMisled
=============================================================================
