----------------------------- MODULE TdrvProofs -----------------------------
(***************************************************************************)
(* What holds of the character device for any number of users, any size of *)
(* the buffer and whatever may go wrong.                                   *)
(***************************************************************************)
EXTENDS Tdrv, TLAPS

-----------------------------------------------------------------------------
(* Types                                                                   *)

\* An offset that a transfer moves stays in the buffer.
LEMMA LeastGreatest ==
  ASSUME NEW a \in Nat, NEW b \in Nat
  PROVE  /\ Least(a, b) \in {a, b} /\ Least(a, b) <= a /\ Least(a, b) <= b
         /\ Greatest(a, b) \in {a, b} /\ a <= Greatest(a, b) /\ b <= Greatest(a, b)
  BY DEF Least, Greatest

LEMMA TypeInit == Init => TypeOK
<1> SUFFICES ASSUME Init
             PROVE  TypeOK
  OBVIOUS
<1>1. 0 \in 0 .. BUF_SIZE /\ 0 \in 0 .. MaxOffset
  BY TdrvAssumption
<1>2. QED
  BY <1>1 DEF Init, TypeOK

\* What write stores fits behind the offset.
LEMMA WriteFits ==
  ASSUME TypeOK, NEW u \in Users, f_pos[u] < BUF_SIZE, NEW count \in WriteCounts(u)
  PROVE  count \in Nat /\ f_pos[u] + count \in 0 .. BUF_SIZE
<1>1. /\ f_pos[u] \in Nat /\ BUF_SIZE \in Nat
  BY TdrvAssumption DEF TypeOK
<1>2. PICK c \in 0 .. BUF_SIZE : count = Least(c, BUF_SIZE - f_pos[u])
  BY DEF WriteCounts
<1>3. c \in Nat /\ BUF_SIZE - f_pos[u] \in Nat
  BY <1>1
<1>4. QED
  BY <1>1, <1>2, <1>3, LeastGreatest

LEMMA TypeStep == TypeOK /\ [Next]_vars => TypeOK'
<1> SUFFICES ASSUME TypeOK, [Next]_vars
             PROVE  TypeOK'
  OBVIOUS
<1>b. BUF_SIZE \in Nat \ {0} /\ MaxOffset \in Nat /\ BUF_SIZE < MaxOffset
  BY TdrvAssumption
<1> USE DEF TypeOK, vars, deviceVars, threadVars, Quiet
<1>1. CASE CreateThread \/ CreateThreadFails \/ AddDevice \/ AddDeviceFails \/ Rmmod
  BY <1>1 DEF CreateThread, CreateThreadFails, AddDevice, AddDeviceFails, Rmmod
<1>2. CASE ExitNext
  BY <1>2 DEF ExitNext, DelTimer, KthreadStop, DelDevice
<1>3. CASE TimerNext
  BY <1>3 DEF TimerNext, TimerExpires, SetWakeup, WakeUp
<1>4. CASE ThreadNext
  <2>1. CASE FreeBuffer
    <3>1. (0 .. size - 1) \subseteq Bytes
      BY <1>b DEF Bytes
    <3>2. 0 \in 0 .. BUF_SIZE
      BY <1>b
    <3>3. QED
      BY <2>1, <3>1, <3>2 DEF FreeBuffer, ThreadStep
  <2>2. CASE ~ FreeBuffer
    BY <1>4, <2>2 DEF ThreadNext, StopsAtLoop, FlushSignals, PrepareToWait, WaitEnds,
                      FallsAsleep, Awakes, ClearWakeup, CheckStop, ThreadStep
  <2>3. QED
    BY <2>1, <2>2
<1>5. CASE Kill
  BY <1>5 DEF Kill
<1>6. ASSUME NEW u \in Users, Open(u) \/ Release(u) \/ Seek(u) \/ SetTime(u)
      PROVE  TypeOK'
  <2>1. CASE Open(u)
    <3>1. 0 \in 0 .. MaxOffset
      BY <1>b
    <3>2. QED
      BY <2>1, <3>1 DEF Open
  <2>2. CASE Release(u)
    BY <2>2 DEF Release
  <2>3. CASE Seek(u)
    BY <2>3 DEF Seek
  <2>4. CASE SetTime(u)
    BY <2>4 DEF SetTime
  <2>5. QED
    BY <1>6, <2>1, <2>2, <2>3, <2>4
<1>7. ASSUME NEW u \in Users, Read(u)
      PROVE  TypeOK'
  <2>1. PICK count \in 0 .. BUF_SIZE : f_pos' = [f_pos EXCEPT ![u] = Least(@ + count, size)]
    BY <1>7 DEF Read
  <2>2. Least(f_pos[u] + count, size) \in 0 .. MaxOffset
    <3>1. f_pos[u] + count \in Nat /\ size \in Nat /\ size <= BUF_SIZE
      BY <1>b
    <3>2. QED
      BY <1>b, <3>1, LeastGreatest
  <2>3. QED
    BY <1>7, <2>1, <2>2 DEF Read
<1>8. ASSUME NEW u \in Users, Write(u)
      PROVE  TypeOK'
  <2>1. PICK count \in WriteCounts(u) :
          /\ old' = old \ Span(u, count, BUF_SIZE)
          /\ f_pos' = [f_pos EXCEPT ![u] = @ + count]
          /\ size' = Greatest(size, f_pos'[u])
    BY <1>8 DEF Write
  <2>2. f_pos[u] + count \in 0 .. BUF_SIZE
    BY <1>8, WriteFits DEF Write, HasRoom
  <2>3. f_pos'[u] = f_pos[u] + count /\ f_pos' \in [Users -> 0 .. MaxOffset]
    BY <1>b, <2>1, <2>2
  <2>4. size' \in 0 .. BUF_SIZE
    <3>1. size \in Nat /\ f_pos'[u] \in Nat /\ size <= BUF_SIZE
      BY <1>b, <2>2, <2>3
    <3>2. QED
      BY <1>b, <2>1, <2>2, <2>3, <3>1, LeastGreatest
  <2>5. QED
    BY <1>8, <2>1, <2>3, <2>4 DEF Write
<1>9. CASE \E u \in Users : WriteFails(u)
  BY <1>9 DEF WriteFails
<1>10. CASE UNCHANGED vars
  BY <1>10
<1>11. QED
  BY <1>1, <1>2, <1>3, <1>4, <1>5, <1>6, <1>7, <1>8, <1>9, <1>10 DEF Next

\* The data stay within the buffer, wherever the offsets are.
THEOREM TypeCorrect == FairSpec => []TypeOK
  BY TypeInit, TypeStep, PTL DEF FairSpec, Spec

-----------------------------------------------------------------------------
(* What a transfer touches                                                 *)

\* A read goes from an offset inside the data to one no further than their end.
LEMMA ReadInside ==
  ASSUME TypeOK, NEW u \in Users, Read(u)
  PROVE  f_pos[u] <= f_pos'[u] /\ f_pos'[u] <= size' /\ size' <= BUF_SIZE
<1>1. /\ BUF_SIZE \in Nat /\ size \in Nat /\ size <= BUF_SIZE /\ size' = size
      /\ f_pos[u] \in Nat /\ f_pos[u] < size
  BY TdrvAssumption DEF TypeOK, Read, HasData
<1>2. PICK count \in 0 .. BUF_SIZE : f_pos' = [f_pos EXCEPT ![u] = Least(@ + count, size)]
  BY DEF Read
<1>3. f_pos'[u] = Least(f_pos[u] + count, size) /\ f_pos[u] + count \in Nat
  BY <1>1, <1>2 DEF TypeOK
<1>4. QED
  BY <1>1, <1>2, <1>3 DEF Least

\* A write goes from an offset inside the buffer to one no further than its end.
LEMMA WriteInside ==
  ASSUME TypeOK, NEW u \in Users, Write(u)
  PROVE  f_pos[u] <= f_pos'[u] /\ f_pos'[u] <= size' /\ size' <= BUF_SIZE
<1>1. /\ BUF_SIZE \in Nat /\ size \in Nat /\ size <= BUF_SIZE
      /\ f_pos[u] \in Nat /\ f_pos[u] < BUF_SIZE
  BY TdrvAssumption DEF TypeOK, Write, HasRoom
<1>2. PICK count \in WriteCounts(u) :
        /\ f_pos' = [f_pos EXCEPT ![u] = @ + count]
        /\ size' = Greatest(size, f_pos'[u])
  BY DEF Write
<1>3. count \in Nat /\ f_pos[u] + count \in 0 .. BUF_SIZE
  BY <1>1, WriteFits
<1>4. f_pos'[u] = f_pos[u] + count
  BY <1>2 DEF TypeOK
<1>5. QED
  BY <1>1, <1>2, <1>3, <1>4 DEF Greatest

\* No read or write touches a byte outside the buffer, wherever a user has seeked.
THEOREM TransfersInside == FairSpec => TransfersInBuffer
<1> DEFINE Inside == \A u \in Users : Read(u) \/ Write(u) =>
                       f_pos[u] <= f_pos'[u] /\ f_pos'[u] <= size' /\ size' <= BUF_SIZE
<1>1. TypeOK => Inside
  BY ReadInside, WriteInside
<1>2. TypeOK /\ [Next]_vars => [Inside]_vars
  BY <1>1
<1>3. QED
  BY <1>2, TypeInit, TypeStep, PTL DEF FairSpec, Spec, TransfersInBuffer

-----------------------------------------------------------------------------
(* The end of the module                                                   *)

(***************************************************************************)
(* Only a loaded module is open; before that and after del_timer_sync no   *)
(* timer is pending and its function does not run.  The module is gone     *)
(* only after the thread has exited, and the thread does not come back.    *)
(***************************************************************************)
ExitInv ==
  /\ opened # {} => module = "live"
  /\ module \in {"init", "device", "stop_thread", "join", "gone"} => ~ timer /\ timerFn = "idle"
  /\ module = "gone" => pc = "exited"

LEMMA ExitInit == Init => ExitInv
  BY DEF Init, ExitInv

LEMMA ExitStep == ExitInv /\ [Next]_vars => ExitInv'
<1> SUFFICES ASSUME ExitInv, [Next]_vars
             PROVE  ExitInv'
  OBVIOUS
<1> USE DEF ExitInv, vars, deviceVars, threadVars, Quiet
<1>1. CASE CreateThread \/ CreateThreadFails \/ AddDevice \/ AddDeviceFails \/ Rmmod
  BY <1>1 DEF CreateThread, CreateThreadFails, AddDevice, AddDeviceFails, Rmmod
<1>2. CASE ExitNext
  BY <1>2 DEF ExitNext, DelTimer, KthreadStop, DelDevice
<1>3. CASE TimerNext
  BY <1>3 DEF TimerNext, TimerExpires, SetWakeup, WakeUp
<1>4. CASE ThreadNext
  BY <1>4 DEF ThreadNext, StopsAtLoop, FlushSignals, PrepareToWait, WaitEnds, FallsAsleep,
              Awakes, ClearWakeup, CheckStop, FreeBuffer, ThreadStep
<1>5. CASE Kill
  BY <1>5 DEF Kill
<1>6. CASE \E u \in Users : Open(u) \/ Release(u) \/ SetTime(u)
  BY <1>6 DEF Open, Release, SetTime
<1>7. CASE \E u \in Users : Seek(u) \/ Read(u) \/ Write(u) \/ WriteFails(u)
  BY <1>7 DEF Seek, Read, Write, WriteFails
<1>8. CASE UNCHANGED vars
  BY <1>8
<1>9. QED
  BY <1>1, <1>2, <1>3, <1>4, <1>5, <1>6, <1>7, <1>8 DEF Next

\* Once tdrv_exit is done no open file, timer or thread of the module is left.
THEOREM ModuleLeavesNothing == FairSpec => []NothingOutlivesModule
<1>1. ExitInv => NothingOutlivesModule
  BY DEF ExitInv, NothingOutlivesModule
<1>2. QED
  BY <1>1, ExitInit, ExitStep, PTL DEF FairSpec, Spec

-----------------------------------------------------------------------------
(* Emptied bytes                                                           *)

\* A write that makes an emptied byte readable does not reach it, and sets the size.
LEMMA ExposedByWrite ==
  ASSUME TypeOK, NEW u \in Users, Write(u), NEW b \in OldReadable' \ OldReadable
  PROVE  b < f_pos[u] /\ f_pos'[u] = size'
<1>1. PICK count \in WriteCounts(u) :
        /\ old' = old \ Span(u, count, BUF_SIZE)
        /\ f_pos' = [f_pos EXCEPT ![u] = @ + count]
        /\ size' = Greatest(size, f_pos'[u])
  BY DEF Write
<1>2. count \in Nat /\ f_pos[u] + count \in 0 .. BUF_SIZE
  BY WriteFits DEF Write, HasRoom
<1>3. f_pos[u] \in Nat /\ size \in Nat /\ BUF_SIZE \in Nat /\ f_pos'[u] = f_pos[u] + count
  BY <1>1, TdrvAssumption DEF TypeOK
<1>4. b \in Nat /\ b \in old /\ b \notin Span(u, count, BUF_SIZE) /\ b < size' /\ ~ (b < size)
  BY <1>1 DEF OldReadable, TypeOK, Bytes
<1>5. size' = f_pos[u] + count
  BY <1>1, <1>2, <1>3, <1>4 DEF Greatest
<1>6. Span(u, count, BUF_SIZE) = f_pos[u] .. f_pos[u] + count - 1
  BY <1>2, <1>3 DEF Span, Least
<1>7. QED
  BY <1>2, <1>3, <1>4, <1>5, <1>6

LEMMA ExposedStep ==
  ASSUME TypeOK, [Next]_vars, NEW b \in OldReadable' \ OldReadable
  PROVE  \E u \in opened : b < f_pos[u] /\ f_pos'[u] = size'
<1> USE DEF OldReadable, vars, deviceVars, threadVars, Quiet
<1>1. CASE CreateThread \/ CreateThreadFails \/ AddDevice \/ AddDeviceFails \/ Rmmod
  BY <1>1 DEF CreateThread, CreateThreadFails, AddDevice, AddDeviceFails, Rmmod
<1>2. CASE ExitNext
  BY <1>2 DEF ExitNext, DelTimer, KthreadStop, DelDevice
<1>3. CASE TimerNext
  BY <1>3 DEF TimerNext, TimerExpires, SetWakeup, WakeUp
<1>4. CASE ThreadNext
  <2>1. CASE FreeBuffer
    <3>1. b \in Nat /\ b < 0
      BY <2>1 DEF FreeBuffer, ThreadStep, TypeOK, Bytes
    <3>2. QED
      BY <3>1
  <2>2. CASE ~ FreeBuffer
    BY <1>4, <2>2 DEF ThreadNext, StopsAtLoop, FlushSignals, PrepareToWait, WaitEnds,
                      FallsAsleep, Awakes, ClearWakeup, CheckStop, ThreadStep
  <2>3. QED
    BY <2>1, <2>2
<1>5. CASE Kill
  BY <1>5 DEF Kill
<1>6. CASE \E u \in Users : Open(u) \/ Release(u) \/ Seek(u) \/ Read(u) \/ SetTime(u)
  BY <1>6 DEF Open, Release, Seek, Read, SetTime
<1>7. ASSUME NEW u \in Users, Write(u)
      PROVE  \E v \in opened : b < f_pos[v] /\ f_pos'[v] = size'
  BY <1>7, ExposedByWrite DEF Write
<1>8. CASE \E u \in Users : WriteFails(u)
  BY <1>8 DEF WriteFails
<1>9. CASE UNCHANGED vars
  BY <1>9
<1>10. QED
  BY <1>1, <1>2, <1>3, <1>4, <1>5, <1>6, <1>7, <1>8, <1>9 DEF Next

\* What was emptied is readable again only after a write that began behind it.
THEOREM EmptiedReturnsByGap == FairSpec => OldReadableOnlyByGap
<1> DEFINE Gap == \A b \in OldReadable' \ OldReadable :
                    \E u \in opened : b < f_pos[u] /\ f_pos'[u] = size'
<1>1. TypeOK /\ [Next]_vars => [Gap]_vars
  BY ExposedStep
<1>2. QED
  BY <1>1, TypeInit, TypeStep, PTL DEF FairSpec, Spec, OldReadableOnlyByGap

=============================================================================
