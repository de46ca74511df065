SPECIFICATION FairSpec
CONSTANTS
  Notes = {n1}
  Workers = {w1}
  MaxVersion = 2
  MaxJobs = 4
  MaxFaults = 2
CHECK_DEADLOCK FALSE
INVARIANTS
  TypeOK
  NoOrphanPoints
  NoStalePoints
  NoLostNote
PROPERTIES
  ImplementsDerivedIndex
  IndexConverges
