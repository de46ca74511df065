# ELF in TLA+

ELF keeps the memory of agents: notes, documents, relations and reviewed
proposals live in Postgres, a vector index in Qdrant is derived from them, and a
background worker carries the changes of the one to the other. This directory
models the parts of ELF whose correctness depends on the order in which several
processes act, checks them with TLC on small instances, and proves the properties
that matter most with TLAPS for every value of the constants.

## 1. The system

### Processes and shared state

| Process | Code | What it does |
| --- | --- | --- |
| HTTP API | `apps/elf-api`, on `packages/elf-service` | each request is one Rust future; it reads and writes Postgres, queries Qdrant and calls the providers. Any number run at once |
| MCP server | `apps/elf-mcp` | forwards tool calls to the HTTP API; keeps no state |
| Worker | `apps/elf-worker` | one loop: at most one job from each of four queues, then clean-up every 15 minutes, then 500 ms of sleep. An error is logged and the loop goes on. Several workers may share a database |
| Command line | `apps/elf-cli` | a client of the HTTP API |
| Evaluation | `apps/elf-eval` | benchmark drivers and reports; outside the service |

Postgres rows are the source of truth. All writes of the API are transactions at
READ COMMITTED; the rows they decide on are locked `FOR UPDATE`, with the
exceptions listed under "hard behaviour". Qdrant offers single calls (delete by
filter, upsert) and no transaction with Postgres. The embedding and extraction
providers are HTTP calls that may take seconds or fail.

### Components

| Component | State it keeps | Operations | Talks to | What makes it correct |
| --- | --- | --- | --- | --- |
| Note indexing (`elf-worker`, `elf-storage/outbox.rs`) | `indexing_outbox`, chunk rows and embeddings, Qdrant points | claim with a 30 s lease, upsert, delete, mark done or failed with backoff | every writer of notes | the points agree with the note once its jobs are done, whatever failed on the way; no job is parked for ever |
| Note writes (`add_note`, `add_event`, `update`, `delete`, `memory_corrections`, `sharing`, `consolidation/promotion`) | `memory_notes`, versions, ingest decisions | add, update by key or id, delete, supersede, restore, publish, unpublish, promote | the outbox, in the same transaction | a committed change always leaves its version and the outbox row that makes the index follow; an identity names one note |
| Index rebuild (`admin.rs`) | none of its own | re-inserts every active note from Postgres vectors | Qdrant, concurrently with the worker | Qdrant agrees with Postgres afterwards |
| Document indexing (`docs`, `doc_outbox.rs`, `doc_indexing.rs`) | `doc_documents`, `doc_chunks`, `doc_indexing_outbox`, document points | put (also over a deleted document), delete, claim, upsert, delete | the same worker loop | as note indexing, chunk by chunk |
| Consolidation (`consolidation`, `consolidation_jobs.rs`) | runs, run jobs, proposals, review events | register a run, materialize its proposals in the worker, approve, apply, discard, defer | note writes (apply) | a run materializes once, a decision is final and fully audited, applying writes memory once |
| Traces (`search/trace`, `trace_jobs`) | `search_trace_outbox`, traces, items, candidates | enqueue or write inline, persist, expire | search | a trace is stored once or not at all; the purge takes only what has expired |
| Clean-up (`trace_jobs/cleanup.rs`) | clock of the last clean-up | purge candidates, traces, cache, sessions | tables with `expires_at` | nothing that is not expired is purged; a failed purge is retried |
| Sharing and access (`sharing`, `access.rs`) | `memory_space_grants` | publish, unpublish, grant, revoke, read checks | note writes, search | a reader sees a shared note exactly while a grant covers it |
| Core blocks (`core_blocks`) | blocks, attachments, events | upsert, attach, detach | - | one active attachment per block and target; the events explain the rows |
| Graph memory (`graph*`, `entity_memory`, `admin_graph_predicates`) | entities, aliases, predicates, facts, evidence, supersessions | upsert facts, supersede, predicate administration | note writes, in whose transaction it runs | a newer value takes over without gap or duplicate; a deprecated predicate does not come back |
| Search (`search`, `progressive_search`, `ranking_explain_v2.rs`) | sessions, LLM cache, hit counters | plan, retrieve, fuse, rerank, diversify, page | Qdrant, providers | results are re-validated against Postgres; fusion and paging are deterministic |
| Knowledge pages (`knowledge`) | pages, sections, lint findings | rebuild, lint, search | notes, docs, graph | a page is replaced as a whole, and a lint tells what is out of date |
| Work journal (`work_journal`) | entries | append, read back | - | entries are immutable |
| Ingestion profiles (`ingestion_profiles`) | versions and the default pointer | create, activate, select | add_event | the default points at an existing version |
| Read models (`list`, `notes`, `provenance`, `evidence`, `recall_debug`, `context_pack`, `graph_report`, `dreaming_review_queue`) | none | queries | all tables | they show committed rows |
| Domain rules (`elf-domain`, `elf-chunking`) | none | write gate, memory policy, TTL, chunking | - | pure functions |
| Evaluation backfill (`elf-eval`, `live_baseline_elf/backfill`) | checkpoint file | add the notes of a corpus in batches, be interrupted, resume, verify | `add_note` | a resumed run neither skips nor repeats a document |
| Providers, configuration (`elf-providers`, `elf-config`, `elf-testkit`) | none | HTTP clients, TOML validation | - | I/O |

### Hard behaviour

* **Read, work for seconds, write.** The worker reads a note or a chunk without a
  lock, calls the embedding provider, and then writes chunk rows and points. Every
  API request can commit in between (`note_indexing.rs:31`, `doc_indexing.rs:71`).
* **No transaction across Postgres and Qdrant.** Rows are committed first, then points
  are deleted, then inserted, then the job is marked. Each step can fail, take effect
  and lose its answer, or be the last before a crash.
* **Leases by time.** A claim moves `available_at` 30 s ahead (60 s for consolidation
  runs); nobody checks that a worker that marks a job still holds its lease.
* **Order.** The claim orders by `available_at`, which is the clock of a request before
  it waited for the row lock (notes) or the start of its transaction (documents), and
  which backoffs and leases move. Jobs of one note are therefore handled in any order.
* **DELETE jobs do not look at the row.** UPSERT jobs check whether the note or document
  is active; DELETE jobs remove points unconditionally.
* **Resolve, then lock.** `add_note` on an existing key finds an active note in one
  statement and locks it by id in the next, without asking for its status again.
* **Clocks read before locks.** Every writer but publish and unpublish reads `now` before it
  begins its transaction and stores it as `ts` and `updated_at`; while it waits for the
  row others commit under later times (`update.rs:54`, `delete.rs:35`,
  `memory_corrections/service.rs:31`).
* **Two kinds of lock.** `add_note` takes an advisory lock on an identity; restore, publish,
  unpublish and update change identities under the row lock alone.
* **Reads outside the transaction.** The consolidation handler decides on a run state it
  read before it began its transaction; a rebuild of the index or of a knowledge page, a
  lint, a patch of a predicate and a follow-up of a search session write what they
  computed from rows read in earlier statements.
* **No transaction at all.** Seeding an ingestion profile and pointing at it, loading a
  session and extending it, are statements on the pool.

The complete list, with the line where each hazard bites and the properties that
cover it, is `hazards` in `PROJECT.json`.

## 2. Modules

| Module | What it is |
| --- | --- |
| `DerivedIndex` | abstract specification: an index derived from a source. A write of the source records a debt; the index moves only while a debt is recorded; a debt is settled only when the index agrees or readers ignore the item |
| `NoteIndexing` | writers of notes, `indexing_outbox`, workers, chunk rows, note points |
| `NoteIndexingOverlap` | `NoteIndexing` with several workers and Qdrant calls that outlive the worker that made them |
| `NoteIndexingRebuild` | `NoteIndexing` with `rebuild_qdrant` and the loss of the collection |
| `NoteIndexingProofs` | type correctness and the safety of `NoteIndexing`, and that it implements `DerivedIndex` |
| `NoteIndexingHarmProofs` | the properties of `NoteIndexingOverlap` and `NoteIndexingRebuild` |
| `DocIndexing` | `docs_put`, `docs_delete`, `doc_indexing_outbox`, workers, document points |
| `DocIndexingProofs` | type correctness and safety of `DocIndexing`, and that it implements `DerivedIndex` |
| `NoteWrites` | requests that add, update, retire, restore and move notes; versions; project grants |
| `NoteWritesProofs` | types, history chains, one note per identity, scopes and grants |
| `Consolidation` | runs, run jobs, workers, proposals, reviews, memory writes |
| `ConsolidationProofs` | exactly-once materialization, copies per worker, final decisions, audit trail |
| `GraphFacts` | predicates and their aliases, the relations that notes assert, supersession |
| `GraphFactsProofs` | all properties of `GraphFacts` |
| `SearchTraces` | the trace outbox, the workers that store traces, the clean-up |
| `SearchSessions` | progressive search sessions, their follow-ups and their expiry |
| `IngestionProfiles` | versions of ingestion profiles and the default pointer |
| `CoreBlocks` | core blocks, attachments, audit events |
| `KnowledgePages` | rebuild, lint and search of one knowledge page |
| `Backfill` | the resumable backfill of the evaluation |
| `MC_NoteIndexing`, `MC_NoteIndexingOverlap`, `MC_NoteIndexingRebuild`, `MC_DocIndexing`, `MC_NoteWrites`, `MC_Consolidation`, `MC_GraphFacts` | the modules as TLC runs them; the first adds a specification in which claims are served oldest first |
| `MC_ServiceComponents` | the six modules from `SearchTraces` to `Backfill`, one beside the other |
| `ServingProofs` | `SearchTraces`, `SearchSessions`, `IngestionProfiles` and `CoreBlocks`, each by itself |
| `ServiceComponentsProofs` | `KnowledgePages` and `Backfill` each by itself, and `MC_ServiceComponents` as a whole |

`NoteIndexing` and `DocIndexing` both instantiate `DerivedIndex`: two queues with
different columns and statuses, written by different code, keep the same promise.
`NoteWrites` and `NoteIndexing` share the writers of notes and look at them from two
sides: for the index a note is a content and a status, and what matters is the job each
write leaves; for `NoteWrites` it is a row with an identity and a history, and the outbox
is only the operation of its newest row. `NoteIndexingRebuild` composes the rebuild with
the whole of `NoteIndexing`: every step of writers and workers is a step beside it.

The six modules of `MC_ServiceComponents` share no state in the code that they model, so
composing them would only multiply their states. `focus` says which of the six runs; the
others stay in their initial states. One run explores the six state spaces after each other.

### State and code

`NoteIndexing`: `status`, `version` and `expired` are the columns `status`, the content
columns and `expires_at < now` of `memory_notes`; a version stands for one content.
`jobs` is `indexing_outbox` in insertion order, `due` the open rows with
`available_at <= now`. `pc`, `held`, `seen` are the local state of
`process_indexing_outbox_once` and `handle_upsert` (what comes next, the claimed row,
the note that was read). `rows` is the content in `memory_note_chunks` and
`note_chunk_embeddings`; `points` the content of the points in Qdrant, with text and
payload kept apart, because a point is made of a chunk row and a note row. `resolved`
holds the `add_note` requests between resolving and locking. `overtaken` is a history
variable: notes that were restored while a DELETE job was open.

`NoteIndexingOverlap` adds `adrift`, the Qdrant calls that nobody waits for any more (the
client times out after 60 s, `qdrant.rs:35`; or the worker died) and that may still be
carried out, and `disturbed`, a history variable: notes that two workers handled at once, or
that such a call reached with no later job to repair it. A write of the note ends it if
nobody is handling the note and no DELETE row is to come that would undo the write: two
workers at once can leave such a row, because the late `mark_failed` of one may reopen the
DELETE that the other has closed, behind a restore.

`NoteIndexingRebuild` adds a running `rebuild_qdrant`: `unread` are the rows its one SELECT
returned and it has not upserted yet. Three history variables name what may be wrong
afterwards: `lost` (dropped with the collection and not brought back), `raced` (written
from a row that had changed since the SELECT), `skipped` (rows it could not upsert).

`DocIndexing` has the same shape as `NoteIndexing`, per chunk: a document has `ChunkCount`
chunks, put and delete enqueue one row for each, a claim sets the status `CLAIMED`, a point
carries the metadata version of its document (the text of a chunk never changes: `doc_id`
and `chunk_id` are hashes of the content). `vectors` is `doc_chunk_embeddings`.

`NoteWrites`: `row` is `memory_notes` of one agent (status, scope, project, key, text and
whether `source_ref` is the caller's or a correction's); `versions` is
`memory_note_versions` of each note in order of commit, with both snapshots and `ts`;
`queued` the operation of its newest outbox row; `grants` the project grants of
`memory_space_grants`. `now` holds the clock that each request in flight has read, and
`adding` what an `add_note` has resolved and still holds the advisory lock for. A note of
an `add_note` batch is a request of its own, as it is a transaction of its own.

`Consolidation`: `run` and `job` are `consolidation_runs.status` and
`consolidation_run_jobs.status`; `copies` counts how often the payload of a run was
inserted, `review` and `trail` are the proposal rows and their review events, `promoted`
counts the note writes that applying a contract caused.

`GraphFacts`: `predicates`, `aliases` and `facts` are the committed rows of
`graph_predicates`, `graph_predicate_aliases` and of `graph_facts` with
`graph_fact_supersessions`; `tx` is what each open note transaction has resolved, inserted,
reused or closed, one statement of `persist_graph_fields_tx` per step. Locks are derived
from `tx`: the advisory lock of the project, held by a transaction that names its entities
and not by one that gives their ids; the rows it closed or reused; the unique keys it
inserted. The fields `named` and `truth` of a fact are history: how it was written. `at` is
the clock a request has read before its transaction, so it may be earlier than `now` when
the advisory lock is granted. `SameKey` is the key of the unique indexes on open facts, which
are NULLS NOT DISTINCT: an unknown start conflicts with an unknown start.

At READ COMMITTED an UPDATE or DELETE that waits for row locks has picked its rows by the
snapshot of its beginning and checks those again, but no others. Where that matters it
is two steps: `pick_conflicting_active_facts` and `supersede_conflicting_active_facts` in
`GraphFacts`; in `KnowledgePages` `delete_knowledge_page_children` before `delete_sections` and
`delete_findings`, and `delete_knowledge_page_lint_findings` before `clear_findings`. A
finding that a lint commits while a rebuild waits for it so survives without its section
(`ON DELETE SET NULL`), until the next lint or rebuild.

`SearchTraces`: `outbox` is `search_trace_outbox`, `stored` which of header, items and
candidates of a trace are in their tables, `past` what has expired. `pc` walks through one
round of `run_worker`: a job, then the clock, then the purges. `inserted` tells whose open
transaction has inserted the header: an insert that conflicts takes no lock.

`SearchSessions`: `session` is `search_sessions` (creation and expiry); `request` a request
between the statements it makes on the pool; `promised` the latest expiry that a response
named; `outrun` the sessions that were purged between the read of a request and its
write. `IngestionProfiles`: `versions` and `pointer` are the two tables, `admin` the
requests between their statements. `CoreBlocks`: `blocks`, `attachments`, `events` are the
committed rows, `edit` the open transactions with their row locks. `KnowledgePages`:
`page`, `sections`, `findings` are one page and its children, `visit` what each rebuild,
lint or search has read so far; a section and its reference to a source are one record.
`sources` is `updated_at` of each source and `gone` the sources that lookups do not find
(deleted, deprecated, expired); a source may come back under a later `updated_at`, as a
restored note and a document that is put again do. `absent` is history: of a search, the
sources that have been gone ever since it began. `misled` collects the sections that a search
showed although they had been replaced before it read the references, or although their
source was absent throughout.
`Backfill`: `corpus` are the files, `noteOf` the active notes by key, `file` the checkpoint,
`run` the process with its copy of the checkpoint.

An API request is one action where it is one transaction on a locked row; elsewhere, as a
worker step, it is one statement or call that another process can observe. `Answer` and
`Answered` are the two outcomes of a call that took effect: the answer arrives, or is lost
and handled as an error. `Fail` is a call that did not take effect. `Crash` is the end of
the process, or an error while marking the job, which `run_worker` only logs. Definitions
that begin with the comment "Slip:" are faulty variants of the definition that follows
them; no specification uses them. They document which mistake each property would
reveal (`mutants` in `PROJECT.json`).

## 3. Runs

| Run | Instance | Shows |
| --- | --- | --- |
| `index` | 1 note, 1 worker, 2 contents, 4 jobs, 2 faults | no orphaned, stale or lost points without an open job; `NoteIndexing` implements `DerivedIndex`; after the faults, and once the writes stop, the index agrees for good |
| `index_two_workers` | 1 note, 2 workers, 2 contents, 2 jobs, 1 fault | points are left wrong only where two workers, or a call given up, touched a note since its last write that began afresh; every job settles although workers reopen each other's rows |
| `index_restore` | 1 note, oldest-first claims | **violated**: a retried DELETE removes the points of a restored note |
| `index_rebuild` | 1 note, 1 worker, 2 contents, 3 jobs, 1 fault, 2 rebuilds | what a rebuild leaves wrong is what it wrote from rows that had changed meanwhile, or did not reach; the next write of the note ends it |
| `docs_index` | 1 document of 2 chunks, 1 worker, 2 puts, 6 rows, 1 fault | the same properties as `index`, per chunk, with all chunks of a document written at once |
| `consolidation_leases` | 2 runs of 2 contracts, 2 workers within their leases, 2 faults | materialized once, promoted once, audited |
| `consolidation_overrun` | 1 run, 2 workers beyond their leases, 3 copies, 3 faults | at most one copy per worker; decisions stay final; every run completes |
| `note_writes` | 2 notes, 2 requests, 2 scopes, a key with and without blanks, 2 texts, 4 clock readings | histories are chains; one note per identity; scope and project agree; shared notes were granted |
| `note_writes_restore` | 1 note, 2 requests, 6 clock readings | **violated**: restore puts back a snapshot that is not the last active one |
| `note_writes_keys` | 2 notes, 2 requests, 1 scope | **violated**: a key with blanks is added twice |
| `graph_facts` | 1 agent, 1 predicate and a second name for it, 1 object, 2 writers, 2 times, 3 facts | of two current facts written under the advisory lock the later one takes over; supersessions leave no gap; no open fact twice; predicates only advance |
| `service_components` | traces: 1 trace, 2 workers, 2 faults | traces are stored and purged whole; every trace job settles and everything that expires is purged |
| | sessions: 1 session, 2 requests, sliding expiry 2, absolute 4, clock to 5 | a session lives as long as a response said |
| | profiles: 2 profiles, versions up to 3, 2 requests | the default profile resolves, whoever seeds, creates and repoints |
| | core blocks: 2 blocks, 2 keys, 2 attachments, 2 requests, 4 events | the audit events explain the rows; keys and attachments are unique |
| | knowledge pages: 2 sources, 2 requests at a time of 3, 2 builds, 2 changes | a page is of one build; a lint's findings survive beside rebuilds; a search shows no section replaced before it read the references, and none about a source that was gone all the while, though sources come back |
| | backfill: 3 documents of which 2 share a key, batches of 2, 2 texts, 3 notes, 4 changes from outside | a run that gets through, undisturbed, ends with a checkpoint that the notes confirm |

The bounds (`MaxVersion`, `MaxJobs`, `MaxFaults`, `MaxCopies`, `MaxRebuilds`, `MaxTime`,
`MaxFacts`, `MaxTraceFaults`, `LastTime`, `MaxProfileVersion`, `MaxEvents`, `MaxChanges`,
`MaxBuilds`, `MaxVisits`, `MaxText`, `MaxNoteId`, `MaxEdits`) are guards of the actions they
limit. In `note_writes` every write takes a clock reading, so four of them are the
shortest history that publishes, retires and restores a note, and two requests are enough
for two first writes of one identity. Unpublishing a note of the project, as opposed to
one of the organisation, needs the third scope: it is left to the proofs, which have all
three. Notes, documents and runs do not interact through anything but the worker
that serves one job at a time, so one of each, or two where the worker's choice
matters, shows every interleaving that concerns a property. Four jobs are one more than
the shortest scenario in which an update, a delete and a restore overtake each other;
two faults let a job fail, be retried and crash. In `graph_facts` three facts are a value,
one that supersedes it and one dated before both. Two builds are an old page and the one
that replaces it, with one more request beside them. The absolute lifetime of a session is
twice the sliding one, so that both limits apply. The proofs remove the bounds from all
the safety properties. Deadlock is not checked: at the bounds, and
with no request pending, the system really stops.

**What `NoLostNote` and `NoLostChunk` except.** Items that were restored, or put again,
while a DELETE of theirs was open: the DELETE may fail and come back behind the UPSERT. The
run `index_restore` drops the exception for notes, serves claims oldest first, so that the
only disturbance is one failed DELETE, and fails. `handle_doc_delete` has the same shape,
and dropping the exception of `NoLostChunk` fails in the same way.

**Expired notes.** `docs/spec/system_elf_memory_service_v2.md:917` describes a daily job
that marks expired notes as deleted. The worker has none: they stay active rows with
points, and searches filter them by `expires_at`. In `DerivedIndex` they are waived.

**Several workers.** The safety of `index` does not hold for two workers, nor for a Qdrant
call that outlasts the 30 s lease of its job: the upsert of an earlier content may land
after the job of a later one was closed (`note_indexing.rs:120`). The runbooks start one
worker. `HarmNeedsOverlap` says that this is all: expired leases, late marks and retries
do no harm unless two workers have rows of one note in hand at the same time, or a call
given up lands when nothing is left to repair it. The next write of the note ends the harm,
with one exception: after two workers at once, a late `mark_failed` may have reopened a
DELETE behind a restore (`outbox.rs:107`), and its next handling removes the points of the
active note, whatever was written before. It takes four rows, more than the run has; the
proof for any number of rows brought it out, and TLC confirmed it from a state with these
rows.

**What `RebuiltIndexAgrees` excepts** is what `rebuild_qdrant` does: it looks at nothing
between its SELECT and its last upsert, so a point of a note deleted meanwhile may come
back after its DELETE job was done, and stays until the next write or rebuild.

**What `OneCurrentFact` does not claim.** A fact dated before an open one stays open beside
it, and transactions that give entity ids take no advisory lock: both can leave two current
values under a single-valued predicate. The property speaks of facts whose writers named
their entities, and of the order of starts.

**What a search may show.** A source that is gone when a search of knowledge pages begins and
is restored before the sources are looked up (`knowledge/read.rs:91`) is shown, and rightly
so: `PagesAgree` speaks of sources that are gone from its first statement to its last.

**What `PromisesKept` excepts** is `outrun`: a follow-up that loads a session just before
it expires and touches it after the purge answers with an expiry, although the session is
gone. `touch_search_session` does not look at the number of rows it updated.

**Two violated runs are about note writes.** `LatestRestored` says what the specification document
says of restore and fails because versions are sought by `ts`. It takes one request that
waits while a retirement and a restore commit, and no test has that; the remedy would be an order of
commit, for instance reading the clock under the row lock as publish does.
`KeyedAddsUpdateInPlace` fails sequentially, without any interleaving: the lookup trims the
key and the insert does not. `findings` in `PROJECT.json` quotes the sentences.

### Fairness

`run_worker` loops for ever, logs every error and goes on: weak fairness of the steps of
each worker taken together. Time passes: weak fairness of every lease or backoff
running out, and in `SearchTraces` of the clean-up interval passing. Nothing is assumed of
requests or reviewers (they may stop at any time), of
faults (there may be none, and they are bounded: an error that repeats for ever lets no
job settle), or of the order of claims.

## 4. Proofs

All theorems hold for every value of the constants that satisfies the named assumptions
(`BoundsAssumption`, `DocAssumption`, `ConsolidationAssumption`, `NoteWritesAssumption`,
`GraphAssumption`, `TraceAssumption`, `SessionAssumption`, `ProfileAssumption`,
`BlocksAssumption`, `PagesAssumption`, `BackfillAssumption`). Types are proved for any
number of workers. Every safety and action property that a passing run checks is stated by
a theorem.

*The index* (`NoteIndexingProofs`, `DocIndexingProofs`). The safety properties are not
inductive: that a job is closed without harm depends on what its worker read and when.
`IndexInv` adds the history of a note (a note that never existed has no jobs; an active
note that was not overtaken has no open DELETE), what a worker holds (its row is open)
and, in `InFlightOf`, what it has read and written so far: once the note has changed
since the read, another open row covers the change, and a worker that is about to mark
its row DONE has left the points as it read them. With that, the only step that can hurt
is `MarkDone`, and there the case that the content is outdated is covered by the other
row. The assumption `SingleWorker` is needed: with two workers a stale upsert may land
after the newer job was closed. One proof step per action, with lemmas for the two ways
the open rows of an item change (a row is appended; a row is rewritten). Further facts
(`RowsFirst`, `ClosedStaysClosed`, `RowsForward`, `VectorsFirst`) are read off the same
invariant: chunk rows before points, done jobs stay done, rows never go back.
`SettledNotesAgree` and `SettledChunksAgree` put the three safety properties together: what
has no open row agrees with its source, which is the safety half of `IndexConverges`.

*Several workers, calls adrift, rebuilds* (`NoteIndexingHarmProofs`). `IndexInv` fails as
soon as two workers run, but it fails note by note: the argument is told again for one note
at a time, and only while at most one worker handles that note. `Sound` is what the handler
knows of its row and of what it read; `PointsSound` that wrong points have an open row, one
that the handler is not about to close; `Present` the same for missing points. `NextKeeps`
says that every step of `NoteIndexing`, by any worker on any note, keeps `Sound` for a note
that at most one worker handles afterwards, and keeps `PointsSound` and `Present`
each for itself; a write that begins afresh establishes them. For `HarmNeedsOverlap` the
three hold of every note outside `disturbed`, for any number of workers. For
`RebuiltIndexAgrees`, `Sound` holds of every note (a rebuild writes points only),
`PointsSound` of those not `raced`, and `Present` of those that are neither `raced` nor
`Missing` (dropped with the collection, and not yet reached by the rebuild that runs).

*Refinement.* `Source` maps an active note to the points of its content, `Debt` to the
notes with open rows or overtaken, `Waived` to active notes that have expired, which
search filters out by itself. Requests are `Write`, Qdrant calls `Move`, the last
`MarkDone` of an item `Settle`, everything else stutters. `IndexInv` supplies what
`Settle` demands.

*Consolidation.* `DecisionsKept` and `Audited` need no assumption: reviews lock their row,
and inserting a payload again adds rows without touching others. `OnceAlone` holds for
one worker because the state it read is still the state when it writes; `OnceLeased` for
any number of workers under `LeasesHold`. `PromotedAtMostOnce` follows from one copy of
each row and from `applied` having no way out. When leases run out under their handlers,
`CopiesBounded` still holds for finitely many workers: the copies of a run and the workers
that have read it as unfinished are together at most as many as there are workers, and
none of them reads it so again once a copy is there.

*Note writes.* The lemma `Steps` says that a step leaves all rows and histories alone or is
one `Write` that does what its operation may do to a row; the theorems are read off it.
`HistoriesChain` is inductive as it stands. `SharedNotesGranted` also needs that every
snapshot a restore may put back was granted. `OneNoteEach` needs the argument behind the
advisory lock: no two requests hold the same identity (`LocksApart`), what a request is
about to insert is not there yet (`PendingIsNew`), and a lookup cannot overlook a note
that was never moved (`SettledAreVisible`). It holds for keys without blanks only, and
for notes that no restore, publish, unpublish or keyless update has put into place:
the two exceptions are what the code does, not a weakness of the model.

*Graph facts.* A transaction carries what it has read to its commit, several statements
later; the invariant says what is still true of it then. The names it registers are free
(`NamesAreFree`), the row it reuses still has its key and the rows it closes started
earlier (`RowsAreKnown`), and nobody else inserts its key (`KeysAreNew`, the unique index):
from these follow `NamesAdvance`, `NoGapAtSupersession` and `FactsAreUnique`.
`OneCurrentValue` needs the advisory lock: one holder at a time (`OneNamed`), so that what
the holder picks, and after the wait for the row locks closes, is everything still open that
started earlier (`EarlierAreClosed`) until it commits. Lemmas say once what each statement does to the transaction of its writer.

*The components of the service* (`ServingProofs`, `ServiceComponentsProofs`). Each invariant
says what is still true, several statements later, of what a request has read.
A worker about to mark a trace job DONE has stored the trace or it has expired since
(`MarksAreEarned`), and a purge has picked only what has expired (`SweepsAreDue`).
A request that has loaded a session knows its creation, and an expiry that is not later than
the one in the table, unless the session has expired and was purged (`LoadsStillHold`).
Profile versions are never removed, so what an administrator has seen stays there
(`RequestsSeeProfiles`). For core blocks the row locks and the unique indexes make two open
transactions `Apart`: what one is about to commit concerns no row, key or place of another;
then each commit appends one event that leaves the row it says. For pages one rebuild
replaces at a time (`OneReplaces`, the lock on the page row), a lint that reads a page not
rebuilt since has a finding for each outdated reference (`LintGood`), and what a search still
counts as absent is gone (`SearchGood`): whatever comes back is not counted any more. For the backfill each entry of the
checkpoint that the run holds is confirmed by the note that is there (`EntriesConfirmed`)
until something from outside disturbs it. `ComponentsKeepTheirPromises` composes the six
as `service_components` explores them.

*Only model-checked:* the liveness properties, which are out of the prover's reach
(`IndexConverges`, `EveryJobSettles`, `EveryRunCompletes`, `TracesSettle`).

## 5. Abstractions

A content is a number, the points and chunks of a note are one value (all of them are
replaced by one call each), timestamps are the sets `due` and `expired`. Access checks,
the LLM's part in `add_event`, validation of requests, formats, embeddings and payload fields are left out; they refuse
requests but do not change the order of what is accepted. The outbox rows of the
notes keep the order of insertion but are claimed in any order. `attempts` only sets the
length of a backoff, which the model leaves open.

In `NoteWrites` one agent writes in one project and in that of the organisation, all notes
have one type and no `expires_at`, a text stands for text, importance and confidence
together, and no two clock readings are equal. Notes written by applied proposals are in
`NoteIndexing` only.

`GraphFacts` has one tenant, project, scope and subject, and a note asserts one relation
(each relation of a note is handled alike, one after the other, in one transaction); a
predicate goes by its canonical name. Entities exist; evidence rows, which only collect
notes, are left out. A deadlock that Postgres breaks is a `Rollback`.

In `SearchTraces` items and stages are one part (they are inserted and purged together). In
`SearchSessions` all processes read one clock. `KnowledgePages` has every source in a kind
of its own, so that the sources of a rebuild are read one after the other. `CoreBlocks`
has one agent and scope. `Backfill` takes `add_note` as one step (its own concurrency is
`NoteWrites`) and replaces the file as a whole, as the rename does.

### Not modelled

* *Environments that fail for ever*, such as a missing document collection
  (`doc_indexing.rs:109`): faults are bounded.
* *Search and ranking, domain rules, chunking, backoff arithmetic*: sequential functions
  over text and floating-point numbers, with no state; unit tests reach them.
* *Work journal, LLM cache, ingest decisions, structured fields, hit counters*: rows that
  are inserted or deleted by themselves and that nothing else decides on.
* *Read models and front ends*: queries and translation of requests.
* *Benchmarks, reports, adapters, the command line* (`elf-eval` but for its backfill,
  `elf-cli`): the larger part of the repository's lines. They drive the service from
  outside, one call after the other, and keep no state that outlives a run.
* *Grants to single agents and the read checks* of shared notes, *entities and their
  aliases*, and *the read-back order of core-block events*, which goes by `ts` and so by a
  clock read before the lock: see the plan.

## 6. Plan

1. `Sharing`: grants to single agents and the read checks on top of `NoteWrites`: who
   sees a note while grants are given and revoked.
2. `GraphFacts` with entities and their aliases, and several relations per note.
3. Proofs: an abstract specification of the consolidation of one run (materialized once,
   decided once) and of a session as a client sees it, with their refinements.
4. Pure algorithms as recursive functions checked against reference definitions:
   rank fusion, diversity selection, memory policy, TTL.
