\* Two users, a buffer of two bytes, an offset behind it, every fault.
SPECIFICATION FairSpec
CONSTANTS
  u1 = u1
  u2 = u2
  Users = {u1, u2}
  BUF_SIZE = 2
  MaxOffset = 3
  Faults = {"kthread_run", "cdev", "user_page", "sigkill"}
INVARIANTS
  TypeOK
  NothingOutlivesModule
PROPERTIES
  TimerEmptiesBuffer
  ExitEnds
  TransfersInBuffer
  OldReadableOnlyByGap
CHECK_DEADLOCK FALSE
