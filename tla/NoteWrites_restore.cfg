SPECIFICATION Spec
CONSTANTS
  Notes = {n1}
  Requests = {r1, r2}
  Scopes = {"agent_private"}
  k = k
  blank_k = blank_k
  Keys = {}
  Trimmed <- MCNoKeys
  Texts = {t1, t2}
  Null = Null
  MaxNow = 6
SYMMETRY Symmetry
CHECK_DEADLOCK FALSE
PROPERTIES
  LatestRestored
