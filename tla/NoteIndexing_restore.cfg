SPECIFICATION InOrderSpec
CONSTANTS
  Notes = {n1}
  Workers = {w1}
  MaxVersion = 2
  MaxJobs = 3
  MaxFaults = 1
CHECK_DEADLOCK FALSE
INVARIANT NoLostNoteAtAll
