SPECIFICATION OverlapSpec
CONSTANTS
  Notes = {n1}
  Workers = {w1, w2}
  MaxVersion = 2
  MaxJobs = 2
  MaxFaults = 1
CHECK_DEADLOCK FALSE
INVARIANT HarmNeedsOverlap
PROPERTY EveryJobSettles
