\* Is every port beyond the mapping reported?
SPECIFICATION Spec
CONSTANTS
  BUF_LEN = 24
  BEHIND = 4
  WIDTH = 16777216
  PAGE = 256
  Files <- SmallFiles
  Garbage <- SmallGarbage
  PortSets <- SmallPortSets
  Faults = {}
INVARIANT BoundMessageRight
CHECK_DEADLOCK FALSE
