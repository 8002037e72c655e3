---------------------------- MODULE DindPipeline ----------------------------
(***************************************************************************)
(* The threads of guess_inode.c.  main creates the dump threads, scans the *)
(* disk chunk by chunk, and queues every block that guess_dind_data takes  *)
(* for a double indirect block.  Each dump thread (dump_file_thread) takes *)
(* block numbers off the ring and dumps the file they lead to.  The ring   *)
(* is guarded by queue->mutex; main waits on queue->cond when it is full.  *)
(*                                                                         *)
(* One action is one stretch of code between two points where another      *)
(* thread can matter: acquiring the mutex, the critical section, releasing *)
(* it, the disk reads, and the unsynchronised accesses to is_finish.       *)
(* What guess_dind_data answers is left open (any block may look like a    *)
(* double indirect block), and dump_dind_data is one step.                 *)
(***************************************************************************)
EXTENDS DindRing

CONSTANTS Workers,            \* the DUMP_THREAD_NUM dump threads
          Main, NoThread,     \* main's thread; no thread at all
          GROUP0_DATA_START,  \* the first block that is scanned
          GROUP0_DATA_END,    \* the last block that is scanned
          DiskBlocks,         \* the number of blocks of the disk
          ChunkBlocks,        \* READ_BUFSIZE / BLK_SIZE
          Faults              \* what the environment may do

Blocks == GROUP0_DATA_START .. GROUP0_DATA_END

(***************************************************************************)
(* Environment faults: pthread_create fails, the read of a chunk fails,    *)
(* pthread_cond_wait returns although nobody signalled (POSIX allows it).  *)
(***************************************************************************)
FaultKinds == {"create", "read", "spurious"}

ASSUME PipelineAssumption ==
  /\ Main \notin Workers
  /\ NoThread \notin Workers \cup {Main}
  /\ GROUP0_DATA_START \in Nat
  /\ GROUP0_DATA_END \in Nat
  /\ GROUP0_DATA_START <= GROUP0_DATA_END
  /\ DiskBlocks \in Nat
  /\ ChunkBlocks \in Nat \ {0}
  /\ Faults \subseteq FaultKinds

VARIABLES mutex,       \* the holder of queue->mutex
          is_finish,
          mainPc,      \* where main is
          next_block,  \* main's next_block
          left,        \* blocks of the current chunk not yet looked at
          pc,          \* pc[w]: where worker w is
          empty,       \* the workers' local variables
          blk_no,
          found,       \* history: blocks guess_dind_data answered 0 for
          dumped,      \* history: blocks a worker has dumped
          dropped      \* history: blocks enqueue refused

workerVars == <<pc, empty, blk_no, dumped>>
mainVars == <<mainPc, next_block, left, is_finish, found, dropped>>
vars == <<ring, mutex, mainVars, workerVars>>

MainPcs == {"create", "read", "guess", "lock", "check", "wait", "relock",
            "woken", "unlock", "advance", "join", "done", "failed"}
WorkerPcs == {"none", "absent", "lock", "check", "signal", "sleep", "dump", "exit"}

Init ==
  /\ RingInit
  /\ mutex = NoThread
  /\ is_finish = FALSE
  /\ mainPc = "create"
  /\ next_block = GROUP0_DATA_START
  /\ left = 0
  /\ pc = [w \in Workers |-> "none"]
  /\ empty = [w \in Workers |-> FALSE]
  /\ blk_no = [w \in Workers |-> 0]
  /\ found = {}
  /\ dumped = {}
  /\ dropped = {}

-----------------------------------------------------------------------------
(* main                                                                    *)

(***************************************************************************)
(* One turn of the pthread_create loop.  main tests ret < 0, but           *)
(* pthread_create reports failure by a positive number: a thread that was  *)
(* not created is absent and main carries on.  (The threads are alike, so  *)
(* the order of the loop is left open.)                                    *)
(***************************************************************************)
CreateThread(w) ==
  /\ mainPc = "create"
  /\ pc[w] = "none"
  /\ \E p \in {"lock"} \cup {q \in {"absent"} : "create" \in Faults} :
        pc' = [pc EXCEPT ![w] = p]
  /\ mainPc' = IF \A v \in Workers \ {w} : pc[v] # "none" THEN "read" ELSE "create"
  /\ UNCHANGED <<ring, mutex, is_finish, next_block, left, found, dropped,
                 empty, blk_no, dumped>>

(***************************************************************************)
(* get_block_data: a read returns some of the blocks asked for.  At the    *)
(* end of the disk it returns none; the for loop has no turn and main      *)
(* reads again, for ever if the disk ends before GROUP0_DATA_END.          *)
(***************************************************************************)
ReadChunk ==
  /\ mainPc = "read"
  /\ next_block < DiskBlocks
  /\ \E n \in 1 .. ChunkBlocks :
        /\ next_block + n <= DiskBlocks
        /\ left' = n
  /\ mainPc' = "guess"
  /\ UNCHANGED <<ring, mutex, is_finish, next_block, found, dropped, workerVars>>

\* main returns -1; the process ends and the worker threads with it.
ReadFails ==
  /\ mainPc = "read"
  /\ "read" \in Faults
  /\ mainPc' = "failed"
  /\ UNCHANGED <<ring, mutex, is_finish, next_block, left, found, dropped, workerVars>>

GuessDind ==
  /\ mainPc = "guess"
  /\ \/ /\ found' = found \cup {next_block}
        /\ mainPc' = "lock"
     \/ /\ mainPc' = "advance"
        /\ UNCHANGED found
  /\ UNCHANGED <<ring, mutex, is_finish, next_block, left, dropped, workerVars>>

MainLock ==
  /\ mainPc = "lock"
  /\ mutex = NoThread
  /\ mutex' = Main
  /\ mainPc' = "check"
  /\ UNCHANGED <<ring, is_finish, next_block, left, found, dropped, workerVars>>

\* main drops the result of enqueue: a refused block is gone.
MainEnqueue ==
  /\ enqueue(next_block)
  /\ dropped' = IF EnqueueRefused THEN dropped \cup {next_block} ELSE dropped
  /\ mainPc' = "unlock"
  /\ UNCHANGED <<mutex, is_finish, next_block, left, found, workerVars>>

MainQueues ==
  /\ mainPc = "check"
  /\ ~ queue_full
  /\ MainEnqueue

\* pthread_cond_wait releases the mutex and sleeps in one step.
MainWaits ==
  /\ mainPc = "check"
  /\ queue_full
  /\ mutex' = NoThread
  /\ mainPc' = "wait"
  /\ UNCHANGED <<ring, is_finish, next_block, left, found, dropped, workerVars>>

SpuriousWakeup ==
  /\ mainPc = "wait"
  /\ "spurious" \in Faults
  /\ mainPc' = "relock"
  /\ UNCHANGED <<ring, mutex, is_finish, next_block, left, found, dropped, workerVars>>

BugNoRelock ==
  /\ mainPc = "relock"
  /\ mainPc' = "woken"
  /\ UNCHANGED <<ring, mutex, is_finish, next_block, left, found, dropped, workerVars>>

MainRelock ==
  /\ mainPc = "relock"
  /\ mutex = NoThread
  /\ mutex' = Main
  /\ mainPc' = "woken"
  /\ UNCHANGED <<ring, is_finish, next_block, left, found, dropped, workerVars>>

\* After pthread_cond_wait the queue is not looked at again.
MainQueuesWoken ==
  /\ mainPc = "woken"
  /\ MainEnqueue

MainUnlock ==
  /\ mainPc = "unlock"
  /\ mutex' = NoThread
  /\ mainPc' = "advance"
  /\ UNCHANGED <<ring, is_finish, next_block, left, found, dropped, workerVars>>

\* is_finish is set without the mutex.
Advance ==
  /\ mainPc = "advance"
  /\ next_block' = next_block + 1
  /\ left' = left - 1
  /\ is_finish' = (next_block' > GROUP0_DATA_END)
  /\ mainPc' = IF next_block' > GROUP0_DATA_END THEN "join"
               ELSE IF left' > 0 THEN "guess" ELSE "read"
  /\ UNCHANGED <<ring, mutex, found, dropped, workerVars>>

\* The pthread_join loop, which waits for every thread that was created.
JoinThreads ==
  /\ mainPc = "join"
  /\ \A w \in Workers : pc[w] \in {"exit", "absent"}
  /\ mainPc' = "done"
  /\ UNCHANGED <<ring, mutex, is_finish, next_block, left, found, dropped, workerVars>>

\* Joining a thread that was never created uses an uninitialised thread_id.
JoinAbsent ==
  /\ mainPc = "join"
  /\ \E w \in Workers : pc[w] = "absent"
  /\ mainPc' = "failed"
  /\ UNCHANGED <<ring, mutex, is_finish, next_block, left, found, dropped, workerVars>>

MainStep ==
  \/ ReadChunk \/ GuessDind
  \/ MainLock \/ MainQueues \/ MainWaits
  \/ MainRelock \/ MainQueuesWoken \/ MainUnlock
  \/ Advance \/ JoinThreads

MainFault == ReadFails \/ SpuriousWakeup \/ JoinAbsent

-----------------------------------------------------------------------------
(* dump_file_thread                                                        *)

\* A thread takes steps until the process ends.
Alive == mainPc # "failed"

WorkerLock(w) ==
  /\ Alive
  /\ pc[w] = "lock"
  /\ mutex = NoThread
  /\ mutex' = w
  /\ pc' = [pc EXCEPT ![w] = "check"]
  /\ UNCHANGED <<ring, mainVars, empty, blk_no, dumped>>

BugExitsWhenIdle(w) ==
  /\ Alive
  /\ pc[w] = "check"
  /\ queue_empty
  /\ mutex' = NoThread
  /\ pc' = [pc EXCEPT ![w] = "exit"]
  /\ UNCHANGED <<ring, mainVars, empty, blk_no, dumped>>

WorkerExits(w) ==
  /\ Alive
  /\ pc[w] = "check"
  /\ queue_empty
  /\ is_finish
  /\ mutex' = NoThread
  /\ pc' = [pc EXCEPT ![w] = "exit"]
  /\ empty' = [empty EXCEPT ![w] = TRUE]
  /\ UNCHANGED <<ring, mainVars, blk_no, dumped>>

WorkerFindsNothing(w) ==
  /\ Alive
  /\ pc[w] = "check"
  /\ queue_empty
  /\ ~ is_finish
  /\ empty' = [empty EXCEPT ![w] = TRUE]
  /\ pc' = [pc EXCEPT ![w] = "signal"]
  /\ UNCHANGED <<ring, mutex, mainVars, blk_no, dumped>>

WorkerTakes(w) ==
  /\ Alive
  /\ pc[w] = "check"
  /\ ~ queue_empty
  /\ empty' = [empty EXCEPT ![w] = FALSE]
  /\ blk_no' = [blk_no EXCEPT ![w] = DequeuedBlock]
  /\ dequeue
  /\ pc' = [pc EXCEPT ![w] = "signal"]
  /\ UNCHANGED <<mutex, mainVars, dumped>>

SignalsUntested(w) ==
  /\ Alive
  /\ pc[w] = "signal"
  /\ mainPc' = IF mainPc = "wait" THEN "relock" ELSE mainPc
  /\ mutex' = NoThread
  /\ pc' = [pc EXCEPT ![w] = IF empty[w] THEN "sleep" ELSE "dump"]
  /\ UNCHANGED <<ring, is_finish, next_block, left, found, dropped, empty, blk_no, dumped>>

\* The condition is tested after the dequeue, still under the mutex.
WorkerSignals(w) ==
  /\ Alive
  /\ pc[w] = "signal"
  /\ mainPc' = IF queue_full /\ mainPc = "wait" THEN "relock" ELSE mainPc
  /\ mutex' = NoThread
  /\ pc' = [pc EXCEPT ![w] = IF empty[w] THEN "sleep" ELSE "dump"]
  /\ UNCHANGED <<ring, is_finish, next_block, left, found, dropped, empty, blk_no, dumped>>

WorkerSleeps(w) ==
  /\ Alive
  /\ pc[w] = "sleep"
  /\ pc' = [pc EXCEPT ![w] = "lock"]
  /\ UNCHANGED <<ring, mutex, mainVars, empty, blk_no, dumped>>

WorkerDumps(w) ==
  /\ Alive
  /\ pc[w] = "dump"
  /\ dumped' = dumped \cup {blk_no[w]}
  /\ pc' = [pc EXCEPT ![w] = "lock"]
  /\ UNCHANGED <<ring, mutex, mainVars, empty, blk_no>>

WorkerNext(w) ==
  \/ WorkerLock(w) \/ WorkerExits(w) \/ WorkerFindsNothing(w) \/ WorkerTakes(w)
  \/ WorkerSignals(w) \/ WorkerSleeps(w) \/ WorkerDumps(w)

Next == MainStep \/ MainFault \/ \E w \in Workers : CreateThread(w) \/ WorkerNext(w)

Spec == Init /\ [][Next]_vars

(***************************************************************************)
(* The operating system runs every thread.  A worker acquires the mutex    *)
(* because some step of the workers releases it again; main acquires it    *)
(* under contention because an idle worker sleeps a second and a busy one  *)
(* dumps a file between two acquisitions.                                  *)
(***************************************************************************)
Fairness ==
  /\ WF_vars(MainStep)
  /\ SF_vars(MainLock) /\ SF_vars(MainRelock)
  /\ \A w \in Workers : /\ WF_vars(CreateThread(w))
                        /\ WF_vars(WorkerNext(w))
                        /\ SF_vars(WorkerLock(w))

FairSpec == Spec /\ Fairness

-----------------------------------------------------------------------------
(* Properties                                                              *)

\* Main is in the for loop over the blocks of a chunk.
InChunk == mainPc \in {"guess", "lock", "check", "wait", "relock", "woken",
                       "unlock", "advance"}

(***************************************************************************)
(* Types.  Inside the loop over a chunk some block is left to look at, so  *)
(* the scan never reads past what get_block_data returned.                 *)
(***************************************************************************)
TypeOK ==
  /\ RingTypeOK
  /\ mutex \in Workers \cup {Main, NoThread}
  /\ is_finish \in BOOLEAN
  /\ mainPc \in MainPcs
  /\ next_block \in Nat
  /\ left \in Nat
  /\ InChunk => left > 0
  /\ pc \in [Workers -> WorkerPcs]
  /\ empty \in [Workers -> BOOLEAN]
  /\ blk_no \in [Workers -> Nat]
  /\ found \subseteq Nat
  /\ dumped \subseteq Nat
  /\ dropped \subseteq Nat

\* Where a block that was found can be.
MainHand ==
  {b \in {next_block} : mainPc \in {"lock", "check", "wait", "relock", "woken"}}
Holds(w) == pc[w] \in {"signal", "dump"} /\ ~ empty[w]
Hand(w) == {b \in {blk_no[w]} : Holds(w)}
InHand == UNION {Hand(w) : w \in Workers}

(***************************************************************************)
(* No candidate is forgotten: every block main found is with main, in the  *)
(* ring, with a worker, dumped, or was refused by enqueue; and nothing is  *)
(* anywhere that was not found.                                            *)
(***************************************************************************)
NoDindForgotten ==
  found = MainHand \cup Queued \cup InHand \cup dumped \cup dropped

(***************************************************************************)
(* No candidate is dumped twice (two workers would write one file): the    *)
(* places a block can be in never share a block, whatever the order in     *)
(* which the threads reach the ring.                                       *)
(***************************************************************************)
DumpedOnce ==
  /\ \A i, j \in 0 .. size - 1 : At(i) = At(j) => i = j
  /\ \A v, w \in Workers : v # w => Hand(v) \cap Hand(w) = {}
  /\ InHand \cap dumped = {}
  /\ (InHand \cup dumped) \cap Queued = {}
  /\ dropped \cap (Queued \cup InHand \cup dumped) = {}
  /\ MainHand \cap (Queued \cup InHand \cup dumped \cup dropped) = {}

(***************************************************************************)
(* A worker leaves its loop only when nothing more can come: the scan is   *)
(* over and the ring is empty for good.  So when main has joined its       *)
(* threads, and at least one of them was created, every candidate that     *)
(* enqueue accepted has been dumped.                                       *)
(***************************************************************************)
DrainedAtExit ==
  /\ \A w \in Workers : pc[w] = "exit" => is_finish /\ size = 0
  /\ mainPc = "done" /\ (\E w \in Workers : pc[w] = "exit")
        => found = dumped \cup dropped

(***************************************************************************)
(* Nobody acts on the ring without the mutex: the threads inside their     *)
(* critical sections are exactly the holder.                               *)
(***************************************************************************)
InCritical ==
  {w \in Workers : pc[w] \in {"check", "signal"}}
    \cup {t \in {Main} : mainPc \in {"check", "woken", "unlock"}}

MutualExclusion == InCritical = {mutex} \ {NoThread}

\* enqueue never refuses a block (it can when pthread_cond_wait returns unasked).
NothingDropped == dropped = {}

(***************************************************************************)
(* The condition variable is never signalled to any effect: dump threads   *)
(* test queue_full after their dequeue, when it is false, so once main has *)
(* gone to sleep on a full queue only a spurious wakeup gets it out.       *)
(***************************************************************************)
BlockedForGood == [][mainPc = "wait" => mainPc' = "wait" \/ SpuriousWakeup]_vars

\* No dump thread could be created.
NoWorker == \A w \in Workers : pc[w] = "absent"

(***************************************************************************)
(* Every candidate that made it into the ring is dumped, even if main is   *)
(* stuck, as long as there is a dump thread and the process lives: main    *)
(* ends it when a read fails.                                              *)
(***************************************************************************)
QueuedIsDumped ==
  \A b \in Blocks : b \in Queued ~> b \in dumped \/ NoWorker \/ ~ Alive

(***************************************************************************)
(* On a disk that reaches the last block the program ends with all dumped  *)
(* that enqueue took, unless a fault has ended it or left it without dump  *)
(* threads, or main fell asleep on a full queue for good.                  *)
(***************************************************************************)
EndsOrSleeps ==
  \/ <>(mainPc = "done" /\ found = dumped \cup dropped)
  \/ <>[](mainPc = "wait")
  \/ <>(NoWorker \/ ~ Alive)

(***************************************************************************)
(* What main announces with "Scan IND_DATA Finish!!" happens: the scan     *)
(* reaches the last block.                                                 *)
(***************************************************************************)
ScanFinishes == <>(is_finish)

-----------------------------------------------------------------------------
(* The inductive invariant behind these properties                         *)

\* Mutual exclusion thread by thread.
LockInv ==
  /\ \A w \in Workers : pc[w] \in {"check", "signal"} <=> mutex = w
  /\ mainPc \in {"check", "woken", "unlock"} <=> mutex = Main

\* A dump thread that reaches the signal has made room, or found the ring empty.
SignalInv == \A w \in Workers : pc[w] = "signal" => ~ queue_full

\* The scan is over once is_finish is set, and a thread that left saw an empty ring.
ExitInv ==
  /\ is_finish <=> next_block > GROUP0_DATA_END
  /\ mainPc \notin {"join", "done", "failed"} => ~ is_finish
  /\ mainPc = "done" => \A w \in Workers : pc[w] \in {"exit", "absent"}
  /\ \A w \in Workers : pc[w] = "exit" => is_finish /\ size = 0

\* A worker dumps only what it has taken.
DumpsTaken == \A w \in Workers : pc[w] = "dump" => ~ empty[w]

\* Where the scan is: every candidate below has left main's hands.
Frontier == IF mainPc \in {"unlock", "advance"} THEN next_block + 1 ELSE next_block

\* The ring holds ascending block numbers ...
RingAscends == \A i, j \in 0 .. size - 1 : i < j => At(i) < At(j)

\* ... that the scan has passed, and that enqueue did not refuse.
RingPassed == \A i \in 0 .. size - 1 : At(i) < Frontier /\ At(i) \notin dropped

\* A block that was taken off the ring is below everything that is still in it.
Gone(b) == b < Frontier /\ b \notin dropped /\ \A i \in 0 .. size - 1 : b < At(i)

HandsGone == \A w \in Workers : Holds(w) => Gone(blk_no[w]) /\ blk_no[w] \notin dumped

HandsApart == \A v, w \in Workers : Holds(v) /\ Holds(w) /\ blk_no[v] = blk_no[w] => v = w

DumpedGone == \A b \in dumped : Gone(b)

DroppedPassed == \A b \in dropped : b < Frontier

(***************************************************************************)
(* Blocks leave main, the ring and the workers in the order of the scan.   *)
(***************************************************************************)
ScanOrder ==
  /\ GROUP0_DATA_START <= next_block
  /\ RingShape /\ RingAscends /\ RingPassed
  /\ HandsGone /\ HandsApart
  /\ DumpedGone /\ DroppedPassed

-----------------------------------------------------------------------------
(* The refinement of the abstract pipeline                                 *)

Work == INSTANCE DindWork WITH
  Capacity <- MAX_QUEUED_NUM,
  frontier <- Frontier,
  fifo <- Contents,
  hand <- [w \in Workers |-> Hand(w)],
  lost <- dropped

(***************************************************************************)
(* The threads implement the abstract pipeline: candidates pass through a  *)
(* FIFO in scan order, one taker each, and are lost only to a full queue.  *)
(***************************************************************************)
WorkSpec == Work!Spec

=============================================================================
