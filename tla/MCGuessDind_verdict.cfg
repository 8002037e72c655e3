\* Blocks of 7 words, lists of 2 to 3 entries asked for, two descents allowed,
\* words from 0 to 3 of which 3 is past the end of the disk.
SPECIFICATION Spec
CONSTANTS
  WORDS = 7
  DIND_MIN_OFFSET = 2
  DIND_MAX_OFFSET = 3
  MAX_BLOCKS = 2
  BAD_LIMIT = 2
  Values <- SmallValues
INVARIANTS
  TypeOK
  VerdictIsRight
CHECK_DEADLOCK FALSE
