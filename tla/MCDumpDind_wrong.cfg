\* The scan and two dump threads, one disk, no fault.
SPECIFICATION Spec
CONSTANTS
  t1 = t1
  t2 = t2
  Threads = {t1, t2}
  WORDS = 3
  GROUP0_DATA_START = 0
  GROUP0_DATA_END = 2
  DIND_MAX_OFFSET = 2
  MAX_BLOCKS = 6
  MAX_QUEUED_NUM = 2
  ChunkBlocks = 2
  Disks <- OneDisk
  Dinds = {1, 2}
  Faults = {}
  MaxKills = 0
INVARIANT EveryFileRight
CHECK_DEADLOCK FALSE
