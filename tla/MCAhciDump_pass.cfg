\* The whole program; the calls may fail.  It stops: no deadlock check.
SPECIFICATION Spec
CONSTANTS
  BUF_LEN = 24
  BEHIND = 4
  WIDTH = 16777216
  PAGE = 256
  Files <- SmallFiles
  Garbage <- SmallGarbage
  PortSets <- SmallPortSets
  Faults = {"open", "mmap"}
INVARIANTS
  TypeOK
  LineByLine
  RecordedRight
  OutcomeRight
  WithinFourfold
  PortsComplete
PROPERTY EndsOrHangs
CHECK_DEADLOCK FALSE
