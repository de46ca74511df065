SPECIFICATION FairSpec
CONSTANTS
  Docs = {d1}
  ChunkCount = 2
  Workers = {w1}
  MaxVersion = 2
  MaxJobs = 6
  MaxFaults = 1
CHECK_DEADLOCK FALSE
INVARIANTS
  TypeOK
  NoOrphanPoints
  NoStalePoints
  NoLostChunk
PROPERTIES
  ImplementsDerivedIndex
  IndexConverges
