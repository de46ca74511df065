SPECIFICATION LeasedSpec
CONSTANTS
  Runs = {r1, r2}
  Contracts = {c1, c2}
  Promoting = {c1}
  Workers = {w1, w2}
  NoRun = NoRun
  MaxCopies = 2
  MaxFaults = 2
CHECK_DEADLOCK FALSE
INVARIANTS
  TypeOK
  MaterializedOnce
  PromotedOnce
  AuditTrail
