SPECIFICATION RebuildSpec
CONSTANTS
  Notes = {n1}
  Workers = {w1}
  MaxVersion = 2
  MaxJobs = 3
  MaxFaults = 1
  MaxRebuilds = 2
CHECK_DEADLOCK FALSE
INVARIANTS
  RebuiltIndexAgrees
