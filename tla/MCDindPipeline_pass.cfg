\* Two dump threads, a ring of two slots, four blocks read up to three at a time,
\* threads scheduled fairly, every environment fault: the ring fills in some
\* behaviors and not in others.  Main may stop for good (failed, or asleep).
SPECIFICATION FairSpec
CONSTANTS
  w1 = w1
  w2 = w2
  Main = Main
  NoThread = NoThread
  Workers <- WorkersMC
  MAX_QUEUED_NUM = 2
  GROUP0_DATA_START = 1
  GROUP0_DATA_END = 4
  DiskBlocks = 5
  ChunkBlocks = 3
  Faults = {"create", "read", "spurious"}
INVARIANTS
  TypeOK
  NoDindForgotten
  DumpedOnce
  DrainedAtExit
  MutualExclusion
PROPERTIES
  WorkSpec
  BlockedForGood
  QueuedIsDumped
  EndsOrSleeps
CHECK_DEADLOCK FALSE
