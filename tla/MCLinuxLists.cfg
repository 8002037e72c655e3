\* Two heads, two buckets and three elements.
SPECIFICATION ListsSpec
CONSTANTS
  h1 = h1
  h2 = h2
  b1 = b1
  b2 = b2
  e1 = e1
  e2 = e2
  e3 = e3
  NULL = NULL
  MaxTurns = 5
  Heads = {h1, h2}
  Entries = {e1, e2, e3}
  Buckets = {b1, b2}
SYMMETRY Alike
INVARIANTS
  RingsClosed
  SafeLoopVisitsAll
  PprevRight
PROPERTIES
  SeqSpec
  HCallsRight
CHECK_DEADLOCK FALSE
