-------------------------------- MODULE Tdrv --------------------------------
(***************************************************************************)
(* kthread_test.c: a character device with a small buffer that a kernel    *)
(* thread empties.  User processes write and read the buffer and, with     *)
(* ioctl, arm a timer; the timer function sets THREAD_WAKEUP and wakes the *)
(* thread, which sets the size of the buffer to 0.                         *)
(*                                                                         *)
(* read, write and the emptying run under tdrv_dev.lock from start to end, *)
(* so each of them is one step.  wait_event_interruptible, the timer       *)
(* function and kthread_stop are taken apart as far as a wake-up could get *)
(* lost between their parts.  Time is left out: an armed timer expires at  *)
(* any later moment.  What the bytes are is left out too, except whether   *)
(* they were in the buffer when it was last emptied.                       *)
(***************************************************************************)
EXTENDS Integers

CONSTANTS Users,      \* the processes that use the device, one open file each
          BUF_SIZE,
          MaxOffset,  \* bound: how far lseek goes, beyond the buffer
          Faults      \* what may go wrong: see TdrvAssumption

ASSUME TdrvAssumption ==
  /\ BUF_SIZE \in Nat \ {0}
  /\ MaxOffset \in Nat /\ BUF_SIZE < MaxOffset
  /\ Faults \subseteq {"kthread_run", "cdev", "user_page", "sigkill"}

VARIABLES module,     \* how far tdrv_init or tdrv_exit is
          opened,     \* the users that have the device open
          f_pos,      \* the offset of their file
          size,       \* tdrv_dev.size
          timer,      \* whether tdrv_dev.timer is pending
          timerFn,    \* where tdrv_timer_fn is
          wakeup,     \* the bit THREAD_WAKEUP of thread.flags
          pc,         \* where freeb_thread is
          awake,      \* freeb_thread is not TASK_INTERRUPTIBLE
          signal,     \* a signal is pending for freeb_thread
          should_stop,\* what kthread_should_stop answers
          old         \* history: the bytes of buf that were emptied, not rewritten

deviceVars == <<opened, f_pos, size, old>>
threadVars == <<pc, awake, signal>>
vars == <<module, deviceVars, timer, timerFn, wakeup, threadVars, should_stop>>

Bytes == 0 .. BUF_SIZE - 1

Init ==
  /\ module = "init"
  /\ opened = {}
  /\ f_pos = [u \in Users |-> 0]
  /\ size = 0
  /\ timer = FALSE
  /\ timerFn = "idle"
  /\ wakeup = FALSE
  /\ pc = "none"
  /\ awake = TRUE
  /\ signal = FALSE
  /\ should_stop = FALSE
  /\ old = {}

-----------------------------------------------------------------------------
(* tdrv_init and tdrv_exit                                                 *)

CreateThread ==
  /\ module = "init"
  /\ module' = "device"
  /\ pc' = "loop"
  /\ UNCHANGED <<deviceVars, timer, timerFn, wakeup, awake, signal, should_stop>>

CreateThreadFails ==
  /\ module = "init" /\ "kthread_run" \in Faults
  /\ module' = "failed"
  /\ UNCHANGED <<deviceVars, timer, timerFn, wakeup, threadVars, should_stop>>

AddDevice ==
  /\ module = "device"
  /\ module' = "live"
  /\ UNCHANGED <<deviceVars, timer, timerFn, wakeup, threadVars, should_stop>>

\* insmod fails; nobody stops the thread that was created.
AddDeviceFails ==
  /\ module = "device" /\ "cdev" \in Faults
  /\ module' = "failed"
  /\ UNCHANGED <<deviceVars, timer, timerFn, wakeup, threadVars, should_stop>>

\* rmmod starts only when nobody has the device open (owner = THIS_MODULE).
Rmmod ==
  /\ module = "live"
  /\ opened = {}
  /\ module' = "del_timer"
  /\ UNCHANGED <<deviceVars, timer, timerFn, wakeup, threadVars, should_stop>>

\* del_timer_sync waits for the end of a timer function that is running.
DelTimer ==
  /\ module = "del_timer"
  /\ timerFn = "idle"
  /\ timer' = FALSE
  /\ module' = "stop_thread"
  /\ UNCHANGED <<deviceVars, timerFn, wakeup, threadVars, should_stop>>

KthreadStop ==
  /\ module = "stop_thread"
  /\ should_stop' = TRUE
  /\ awake' = TRUE
  /\ module' = "join"
  /\ UNCHANGED <<deviceVars, timer, timerFn, wakeup, pc, signal>>

\* kthread_stop returns when the thread has; then the device is removed.
DelDevice ==
  /\ module = "join"
  /\ pc = "exited"
  /\ module' = "gone"
  /\ UNCHANGED <<deviceVars, timer, timerFn, wakeup, threadVars, should_stop>>

-----------------------------------------------------------------------------
(* The system calls of the users                                           *)

Quiet == UNCHANGED <<module, timer, timerFn, wakeup, threadVars, should_stop>>

BugOpenAnyTime(u) ==
  /\ module \notin {"init", "device", "failed", "gone"}
  /\ u \notin opened
  /\ opened' = opened \cup {u}
  /\ f_pos' = [f_pos EXCEPT ![u] = 0]
  /\ UNCHANGED <<size, old>> /\ Quiet

\* The module cannot be opened any more once rmmod has started.
Open(u) ==
  /\ module = "live"
  /\ u \notin opened
  /\ opened' = opened \cup {u}
  /\ f_pos' = [f_pos EXCEPT ![u] = 0]
  /\ UNCHANGED <<size, old>> /\ Quiet

Release(u) ==
  /\ u \in opened
  /\ opened' = opened \ {u}
  /\ UNCHANGED <<f_pos, size, old>> /\ Quiet

\* The driver has no llseek of its own: the default one takes any offset.
Seek(u) ==
  /\ u \in opened
  /\ \E p \in 0 .. MaxOffset : f_pos' = [f_pos EXCEPT ![u] = p]
  /\ UNCHANGED <<opened, size, old>> /\ Quiet

Least(a, b) == IF a <= b THEN a ELSE b
Greatest(a, b) == IF a <= b THEN b ELSE a

\* The bytes a transfer of count bytes at the file's offset touches.
Span(u, count, limit) == f_pos[u] .. Least(f_pos[u] + count, limit) - 1

BugAnyOffset(u) == TRUE

\* Where read and write go on, and do not return 0 at once.
HasData(u) == f_pos[u] < size
HasRoom(u) == f_pos[u] < BUF_SIZE

\* A read whose copy_to_user fails changes nothing and returns nothing.
Read(u) ==
  /\ u \in opened
  /\ HasData(u)
  /\ \E count \in 0 .. BUF_SIZE :
        f_pos' = [f_pos EXCEPT ![u] = Least(@ + count, size)]
  /\ UNCHANGED <<opened, size, old>> /\ Quiet

BugUnbounded(u) == 0 .. BUF_SIZE

\* What write makes of the count it is called with.
WriteCounts(u) == {Least(count, BUF_SIZE - f_pos[u]) : count \in 0 .. BUF_SIZE}

Write(u) ==
  /\ u \in opened
  /\ HasRoom(u)
  /\ \E count \in WriteCounts(u) :
        /\ old' = old \ Span(u, count, BUF_SIZE)
        /\ f_pos' = [f_pos EXCEPT ![u] = @ + count]
        /\ size' = Greatest(size, f_pos'[u])
  /\ UNCHANGED opened /\ Quiet

BugSizeFirst(u) ==
  /\ u \in opened /\ "user_page" \in Faults
  /\ HasRoom(u)
  /\ \E count \in WriteCounts(u) :
        /\ old' = old \ Span(u, count, BUF_SIZE)
        /\ size' = Greatest(size, f_pos[u] + count)
  /\ UNCHANGED <<opened, f_pos>> /\ Quiet

\* copy_from_user fails: it has filled buf with data or zeros nevertheless.
WriteFails(u) ==
  /\ u \in opened /\ "user_page" \in Faults
  /\ HasRoom(u)
  /\ \E count \in WriteCounts(u) : old' = old \ Span(u, count, BUF_SIZE)
  /\ UNCHANGED <<opened, f_pos, size>> /\ Quiet

\* The timer is armed even if the argument could not be read (ret = -EFAULT).
SetTime(u) ==
  /\ u \in opened
  /\ timer' = TRUE
  /\ UNCHANGED <<module, deviceVars, timerFn, wakeup, threadVars, should_stop>>

-----------------------------------------------------------------------------
(* The timer                                                               *)

TimerExpires ==
  /\ timer /\ timerFn = "idle"
  /\ timer' = FALSE
  /\ timerFn' = "set_bit"
  /\ UNCHANGED <<module, deviceVars, wakeup, threadVars, should_stop>>

SetWakeup ==
  /\ timerFn = "set_bit"
  /\ wakeup' = TRUE
  /\ timerFn' = "wake_up"
  /\ UNCHANGED <<module, deviceVars, timer, threadVars, should_stop>>

WakeUp ==
  /\ timerFn = "wake_up"
  /\ awake' = TRUE
  /\ timerFn' = "idle"
  /\ UNCHANGED <<module, deviceVars, timer, wakeup, pc, signal, should_stop>>

-----------------------------------------------------------------------------
(* tdrv_thread                                                             *)

ThreadStep(from, to) == pc = from /\ pc' = to

StopsAtLoop ==
  /\ ThreadStep("loop", "exited")
  /\ should_stop
  /\ UNCHANGED <<module, deviceVars, timer, timerFn, wakeup, awake, signal, should_stop>>

BugClearsBeforeWait ==
  /\ ThreadStep("loop", "wait")
  /\ ~ should_stop
  /\ signal' = FALSE
  /\ wakeup' = FALSE
  /\ UNCHANGED <<module, deviceVars, timer, timerFn, awake, should_stop>>

FlushSignals ==
  /\ ThreadStep("loop", "wait")
  /\ ~ should_stop
  /\ signal' = FALSE
  /\ UNCHANGED <<module, deviceVars, timer, timerFn, wakeup, awake, should_stop>>

\* wait_event_interruptible: get ready to sleep, then look at the condition.
PrepareToWait ==
  /\ ThreadStep("wait", "test")
  /\ awake' = FALSE
  /\ UNCHANGED <<module, deviceVars, timer, timerFn, wakeup, signal, should_stop>>

BugOnlyTheBit == wakeup

WaitCondition == wakeup \/ should_stop

\* The wait ends with the condition or with a signal, which nobody looks at.
WaitEnds ==
  /\ ThreadStep("test", "clear_bit")
  /\ WaitCondition \/ signal
  /\ awake' = TRUE
  /\ UNCHANGED <<module, deviceVars, timer, timerFn, wakeup, signal, should_stop>>

FallsAsleep ==
  /\ ThreadStep("test", "asleep")
  /\ ~ WaitCondition /\ ~ signal
  /\ UNCHANGED <<module, deviceVars, timer, timerFn, wakeup, awake, signal, should_stop>>

Awakes ==
  /\ ThreadStep("asleep", "wait")
  /\ awake
  /\ UNCHANGED <<module, deviceVars, timer, timerFn, wakeup, awake, signal, should_stop>>

ClearWakeup ==
  /\ ThreadStep("clear_bit", "check_stop")
  /\ wakeup' = FALSE
  /\ UNCHANGED <<module, deviceVars, timer, timerFn, awake, signal, should_stop>>

CheckStop ==
  /\ pc = "check_stop"
  /\ pc' = IF should_stop THEN "loop" ELSE "free"
  /\ UNCHANGED <<module, deviceVars, timer, timerFn, wakeup, awake, signal, should_stop>>

\* Only the size is reset; the bytes stay in buf.
FreeBuffer ==
  /\ ThreadStep("free", "loop")
  /\ size' = 0
  /\ old' = old \cup (0 .. size - 1)
  /\ UNCHANGED <<module, opened, f_pos, timer, timerFn, wakeup, awake, signal, should_stop>>

\* The superuser kills freeb_thread, which has allowed SIGKILL.
Kill ==
  /\ pc \notin {"none", "exited"} /\ "sigkill" \in Faults
  /\ signal' = TRUE
  /\ awake' = TRUE
  /\ UNCHANGED <<module, deviceVars, timer, timerFn, wakeup, pc, should_stop>>

-----------------------------------------------------------------------------

TimerNext == TimerExpires \/ SetWakeup \/ WakeUp

ThreadNext ==
  \/ StopsAtLoop \/ FlushSignals \/ PrepareToWait \/ WaitEnds \/ FallsAsleep
  \/ Awakes \/ ClearWakeup \/ CheckStop \/ FreeBuffer

ExitNext == DelTimer \/ KthreadStop \/ DelDevice

Next ==
  \/ CreateThread \/ CreateThreadFails \/ AddDevice \/ AddDeviceFails
  \/ Rmmod \/ ExitNext \/ TimerNext \/ ThreadNext \/ Kill
  \/ \E u \in Users :
       \/ Open(u) \/ Release(u) \/ Seek(u) \/ Read(u)
       \/ Write(u) \/ WriteFails(u) \/ SetTime(u)

Spec == Init /\ [][Next]_vars

(***************************************************************************)
(* The kernel schedules the thread, expires pending timers and runs their  *)
(* function to the end, and tdrv_exit goes on once it has started.         *)
(* Nothing is assumed of the users.                                        *)
(***************************************************************************)
FairSpec == Spec /\ WF_vars(TimerNext) /\ WF_vars(ThreadNext) /\ WF_vars(ExitNext)

-----------------------------------------------------------------------------
(* Properties                                                              *)

\* The data stay within the buffer, wherever the offsets are.
TypeOK ==
  /\ module \in {"init", "device", "live", "failed", "del_timer", "stop_thread",
                 "join", "gone"}
  /\ opened \subseteq Users
  /\ f_pos \in [Users -> 0 .. MaxOffset]
  /\ size \in 0 .. BUF_SIZE
  /\ timer \in BOOLEAN
  /\ timerFn \in {"idle", "set_bit", "wake_up"}
  /\ wakeup \in BOOLEAN
  /\ pc \in {"none", "loop", "wait", "test", "asleep", "clear_bit", "check_stop",
             "free", "exited"}
  /\ awake \in BOOLEAN
  /\ signal \in BOOLEAN
  /\ should_stop \in BOOLEAN
  /\ old \subseteq Bytes

(***************************************************************************)
(* Once tdrv_exit is done nothing is left that could run the module's      *)
(* code or touch its data: no open file, no timer, no thread.              *)
(***************************************************************************)
NothingOutlivesModule ==
  module = "gone" => opened = {} /\ ~ timer /\ timerFn = "idle" /\ pc = "exited"

(***************************************************************************)
(* No timer is lost: whatever the thread is doing when the timer expires,  *)
(* the buffer is emptied afterwards, or the module is removed.             *)
(***************************************************************************)
TimerEmptiesBuffer == timerFn = "set_bit" /\ size > 0 ~> size = 0 \/ should_stop

\* rmmod comes to an end: kthread_stop finds or makes the thread awake.
ExitEnds == module = "del_timer" ~> module = "gone"

(***************************************************************************)
(* read and write touch bytes of the buffer only, the ones between the old *)
(* and the new offset, although an offset may be far behind the buffer or  *)
(* behind data that the thread has emptied since: without the tests of     *)
(* lines 113 and 136 the count, which is unsigned, would wrap around.      *)
(***************************************************************************)
TransfersInBuffer ==
  [][\A u \in Users : Read(u) \/ Write(u) =>
       f_pos[u] <= f_pos'[u] /\ f_pos'[u] <= size' /\ size' <= BUF_SIZE]_vars

(***************************************************************************)
(* Bytes that were emptied but not overwritten become readable again only  *)
(* by a write that begins behind them, with a gap: the emptying resets the *)
(* size, not the offsets of the open files.                                *)
(***************************************************************************)
OldReadable == {b \in old : b < size}

OldReadableOnlyByGap ==
  [][\A b \in OldReadable' \ OldReadable :
       \E u \in opened : b < f_pos[u] /\ f_pos'[u] = size']_vars

=============================================================================
