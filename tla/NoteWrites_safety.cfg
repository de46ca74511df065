SPECIFICATION Spec
CONSTANTS
  Notes = {n1, n2}
  Requests = {r1, r2}
  Scopes = {"agent_private", "org_shared"}
  k = k
  blank_k = blank_k
  Keys <- MCKeys
  Trimmed <- MCTrimmed
  Texts = {t1, t2}
  Null = Null
  MaxNow = 4
SYMMETRY Symmetry
CHECK_DEADLOCK FALSE
INVARIANTS
  TypeOK
  HistoryChains
  OneNotePerIdentity
  ScopeMatchesProject
  SharedNotesWereGranted
