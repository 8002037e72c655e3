\* Two dump threads, no faults: does the scan always get to the last block?
SPECIFICATION FairSpec
CONSTANTS
  w1 = w1
  w2 = w2
  Main = Main
  NoThread = NoThread
  Workers <- WorkersMC
  MAX_QUEUED_NUM = 2
  GROUP0_DATA_START = 1
  GROUP0_DATA_END = 4
  DiskBlocks = 5
  ChunkBlocks = 3
  Faults = {}
PROPERTY ScanFinishes
CHECK_DEADLOCK FALSE
