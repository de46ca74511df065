SPECIFICATION FairSpec
CONSTANTS
  Runs = {r1}
  Contracts = {c1}
  Promoting = {c1}
  Workers = {w1, w2}
  NoRun = NoRun
  MaxCopies = 3
  MaxFaults = 3
CHECK_DEADLOCK FALSE
INVARIANTS
  OneCopyPerWorker
PROPERTIES
  DecisionsAreFinal
  EveryRunCompletes
