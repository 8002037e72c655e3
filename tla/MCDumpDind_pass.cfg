\* The scan and one dump thread, several disks, failing opens, reads and writes,
\* killed and restarted once at any moment.
SPECIFICATION FairSpec
CONSTANTS
  t1 = t1
  t2 = t2
  Threads = {t1}
  WORDS = 3
  GROUP0_DATA_START = 0
  GROUP0_DATA_END = 2
  DIND_MAX_OFFSET = 2
  MAX_BLOCKS = 6
  MAX_QUEUED_NUM = 1
  ChunkBlocks = 2
  Disks <- ManyDisks
  Dinds = {1, 2}
  Faults = {"open", "read", "write", "spurious"}
  MaxKills = 1
INVARIANTS
  TypeOK
  RecoveredRight
  OnlyRightData
  ScanFindsAll
PROPERTIES
  EveryDumpEnds
  ScanEnds
CHECK_DEADLOCK FALSE
