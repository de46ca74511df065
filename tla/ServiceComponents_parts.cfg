SPECIFICATION Spec
CHECK_DEADLOCK FALSE
CONSTANTS
  Traces = {t1}
  Pollers = {p1, p2}
  NoTrace = noTrace
  MaxTraceFaults = 2
  Sessions = {s1}
  Clients = {c1, c2}
  NoSession = noSession
  SlidingTtl = 2
  AbsoluteTtl = 4
  LastTime = 5
  Profiles = {d1, d2}
  DefaultProfile = d1
  DefaultVersion = 2
  Admins = {a1, a2}
  NoPointer = noPointer
  MaxProfileVersion = 3
  Blocks = {b1, b2}
  Keys = {k1, k2}
  Contents = {x1}
  Attachments = {at1, at2}
  Readers = {r1}
  Editors = {w1, w2}
  NoRow = noRow
  MaxEvents = 4
  Sources = {n1, n2}
  Visitors = {v1, v2}
  MaxChanges = 2
  MaxBuilds = 2
  MaxVisits = 3
  Docs = {1, 2, 3}
  DocKeys <- KeysOfDocs
  NoEntry = noEntry
  Batch = 2
  MaxText = 2
  MaxNoteId = 3
  MaxEdits = 4
INVARIANTS TypeOK WholeTraces PromisesKept DefaultResolves BlocksReplay PagesAgree ResumedRunsSucceed
PROPERTY TracesSettle
