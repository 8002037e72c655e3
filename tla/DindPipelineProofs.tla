------------------------- MODULE DindPipelineProofs -------------------------
(***************************************************************************)
(* Proofs about DindPipeline, for every number of threads, every ring      *)
(* length, every disk and every environment fault.                         *)
(***************************************************************************)
EXTENDS DindPipeline, TLAPS

-----------------------------------------------------------------------------
(* The ring                                                                *)

\* Adding to a slot number less than a lap ahead wraps at most once.
LEMMA ModuloWraps ==
  ASSUME NEW M \in Nat \ {0}, NEW x \in 0 .. 2 * M - 1
  PROVE  x % M = IF x < M THEN x ELSE x - M
  BY SMT

LEMMA NextSlotType ==
  ASSUME NEW i \in Slots
  PROVE  NextSlot(i) \in Slots
  BY CapacityAssumption, SMT DEF NextSlot, Slots

\* enqueue keeps the ring well typed.
LEMMA EnqueueType ==
  ASSUME NEW b \in Nat, RingTypeOK, enqueue(b)
  PROVE  RingTypeOK'
<1>1. CASE EnqueueRefused
  BY <1>1 DEF enqueue, RingTypeOK, ring
<1>2. CASE ~ EnqueueRefused
  <2>1. tail' \in Slots
    BY <1>2, NextSlotType DEF enqueue, RingTypeOK
  <2>2. size' \in 0 .. MAX_QUEUED_NUM
    BY <1>2, CapacityAssumption DEF enqueue, RingTypeOK, EnqueueRefused
  <2>3. QED
    BY <1>2, <2>1, <2>2 DEF enqueue, RingTypeOK
<1>3. QED
  BY <1>1, <1>2

\* dequeue keeps the ring well typed, and what it delivers is a block number.
LEMMA DequeueType ==
  ASSUME RingTypeOK, dequeue
  PROVE  RingTypeOK' /\ DequeuedBlock \in Nat
<1>1. CASE size = 0
  BY <1>1 DEF dequeue, RingTypeOK, ring, DequeuedBlock
<1>2. CASE size # 0
  <2>1. head' \in Slots
    BY <1>2, NextSlotType DEF dequeue, RingTypeOK
  <2>2. size' \in 0 .. MAX_QUEUED_NUM
    BY <1>2, CapacityAssumption DEF dequeue, RingTypeOK
  <2>3. QED
    BY <1>2, <2>1, <2>2 DEF dequeue, RingTypeOK, DequeuedBlock
<1>3. QED
  BY <1>1, <1>2

-----------------------------------------------------------------------------
(* Types                                                                   *)

\* Every step keeps the types.
LEMMA TypeStep == TypeOK /\ [Next]_vars => TypeOK'
<1> SUFFICES ASSUME TypeOK, [Next]_vars
             PROVE  TypeOK'
  OBVIOUS
<1> USE PipelineAssumption DEF TypeOK, InChunk
<1>1. CASE ReadChunk
  BY <1>1 DEF ReadChunk, ring, workerVars, RingTypeOK, MainPcs
<1>2. CASE GuessDind
  BY <1>2 DEF GuessDind, ring, workerVars, RingTypeOK, MainPcs
<1>3. CASE MainLock
  BY <1>3 DEF MainLock, ring, workerVars, RingTypeOK, MainPcs
<1>4. ASSUME MainEnqueue, InChunk
      PROVE  TypeOK'
  <2>1. RingTypeOK'
    BY <1>4, EnqueueType DEF MainEnqueue
  <2>2. QED
    BY <1>4, <2>1 DEF MainEnqueue, workerVars, MainPcs
<1>5. CASE MainQueues \/ MainQueuesWoken
  BY <1>4, <1>5 DEF MainQueues, MainQueuesWoken
<1>6. CASE MainWaits
  BY <1>6 DEF MainWaits, ring, workerVars, RingTypeOK, MainPcs
<1>7. CASE MainRelock
  BY <1>7 DEF MainRelock, ring, workerVars, RingTypeOK, MainPcs
<1>8. CASE MainUnlock
  BY <1>8 DEF MainUnlock, ring, workerVars, RingTypeOK, MainPcs
<1>9. CASE Advance
  BY <1>9 DEF Advance, ring, workerVars, RingTypeOK, MainPcs
<1>10. CASE JoinThreads
  BY <1>10 DEF JoinThreads, ring, workerVars, RingTypeOK, MainPcs
<1>11. CASE MainFault
  BY <1>11 DEF MainFault, ReadFails, SpuriousWakeup, JoinAbsent,
               ring, workerVars, RingTypeOK, MainPcs
<1>12. ASSUME NEW w \in Workers, CreateThread(w)
       PROVE  TypeOK'
  BY <1>12 DEF CreateThread, ring, RingTypeOK, MainPcs, WorkerPcs
<1>13. ASSUME NEW w \in Workers, WorkerTakes(w)
       PROVE  TypeOK'
  <2>1. RingTypeOK' /\ DequeuedBlock \in Nat
    BY <1>13, DequeueType DEF WorkerTakes
  <2>2. QED
    BY <1>13, <2>1 DEF WorkerTakes, mainVars, WorkerPcs
<1>14. ASSUME NEW w \in Workers, WorkerSignals(w)
       PROVE  TypeOK'
  BY <1>14 DEF WorkerSignals, ring, RingTypeOK, MainPcs, WorkerPcs
<1>15. ASSUME NEW w \in Workers,
              \/ WorkerLock(w) \/ WorkerExits(w) \/ WorkerFindsNothing(w)
              \/ WorkerSleeps(w) \/ WorkerDumps(w)
       PROVE  TypeOK'
  <2>1. CASE WorkerLock(w) \/ WorkerSleeps(w)
    BY <2>1 DEF WorkerLock, WorkerSleeps, ring, mainVars, RingTypeOK, WorkerPcs
  <2>2. CASE WorkerExits(w) \/ WorkerFindsNothing(w)
    BY <2>2 DEF WorkerExits, WorkerFindsNothing, ring, mainVars, RingTypeOK, WorkerPcs
  <2>3. CASE WorkerDumps(w)
    BY <2>3 DEF WorkerDumps, ring, mainVars, RingTypeOK, WorkerPcs
  <2>4. QED
    BY <1>15, <2>1, <2>2, <2>3
<1>16. CASE UNCHANGED vars
  BY <1>16 DEF vars, ring, mainVars, workerVars, RingTypeOK
<1>17. QED
  BY <1>1, <1>2, <1>3, <1>5, <1>6, <1>7, <1>8, <1>9, <1>10, <1>11, <1>12,
     <1>13, <1>14, <1>15, <1>16 DEF Next, MainStep, WorkerNext

LEMMA TypeInit == Init => TypeOK
<1> SUFFICES ASSUME Init PROVE TypeOK
  OBVIOUS
<1>1. RingTypeOK
  BY CapacityAssumption DEF Init, RingInit, RingTypeOK, Slots
<1>2. QED
  BY <1>1, PipelineAssumption DEF Init, TypeOK, InChunk, MainPcs, WorkerPcs

(***************************************************************************)
(* The variables of DindPipeline keep their types: in particular head and  *)
(* tail never leave block_no[] and size never exceeds MAX_QUEUED_NUM.      *)
(***************************************************************************)
THEOREM TypeCorrect == Spec => []TypeOK
  BY TypeInit, TypeStep, PTL DEF Spec

-----------------------------------------------------------------------------
(* The mutex                                                               *)

LEMMA LockInit == Init => LockInv /\ SignalInv
  BY PipelineAssumption DEF Init, LockInv, SignalInv

LEMMA LockStep == TypeOK /\ LockInv /\ [Next]_vars => LockInv'
<1> SUFFICES ASSUME TypeOK, LockInv, [Next]_vars
             PROVE  LockInv'
  OBVIOUS
<1> USE PipelineAssumption DEF TypeOK, LockInv, WorkerPcs
<1>1. CASE ReadChunk \/ GuessDind \/ Advance \/ JoinThreads \/ MainFault
  BY <1>1 DEF ReadChunk, GuessDind, Advance, JoinThreads, MainFault, ReadFails,
              SpuriousWakeup, JoinAbsent, workerVars
<1>2. CASE MainLock \/ MainRelock
  BY <1>2 DEF MainLock, MainRelock, workerVars
<1>3. CASE MainQueues \/ MainQueuesWoken
  BY <1>3 DEF MainQueues, MainQueuesWoken, MainEnqueue, workerVars
<1>4. CASE MainWaits \/ MainUnlock
  BY <1>4 DEF MainWaits, MainUnlock, workerVars
<1>5. ASSUME NEW w \in Workers, CreateThread(w)
      PROVE  LockInv'
  BY <1>5 DEF CreateThread
<1>6. ASSUME NEW w \in Workers, WorkerLock(w)
      PROVE  LockInv'
  BY <1>6 DEF WorkerLock, mainVars
<1>7. ASSUME NEW w \in Workers, WorkerExits(w)
      PROVE  LockInv'
  BY <1>7 DEF WorkerExits, mainVars
<1>8. ASSUME NEW w \in Workers, WorkerFindsNothing(w) \/ WorkerTakes(w)
      PROVE  LockInv'
  BY <1>8 DEF WorkerFindsNothing, WorkerTakes, mainVars
<1>9. ASSUME NEW w \in Workers, WorkerSignals(w)
      PROVE  LockInv'
  BY <1>9 DEF WorkerSignals
<1>10. ASSUME NEW w \in Workers, WorkerSleeps(w) \/ WorkerDumps(w)
       PROVE  LockInv'
  BY <1>10 DEF WorkerSleeps, WorkerDumps, mainVars
<1>11. CASE UNCHANGED vars
  BY <1>11 DEF vars, mainVars, workerVars
<1>12. QED
  BY <1>1, <1>2, <1>3, <1>4, <1>5, <1>6, <1>7, <1>8, <1>9, <1>10, <1>11
     DEF Next, MainStep, WorkerNext

\* Mutual exclusion thread by thread is mutual exclusion of the set.
LEMMA LockSafe == TypeOK /\ LockInv => MutualExclusion
<1> SUFFICES ASSUME TypeOK, LockInv
             PROVE  MutualExclusion
  OBVIOUS
<1>1. {w \in Workers : pc[w] \in {"check", "signal"}} = {w \in Workers : w = mutex}
  BY DEF LockInv
<1>2. {t \in {Main} : mainPc \in {"check", "woken", "unlock"}} = {t \in {Main} : t = mutex}
  BY DEF LockInv
<1>3. mutex \in Workers \cup {Main, NoThread}
  BY DEF TypeOK
<1>4. {w \in Workers : w = mutex} \cup {t \in {Main} : t = mutex} = {mutex} \ {NoThread}
  BY <1>3, PipelineAssumption
<1>5. QED
  BY <1>1, <1>2, <1>4 DEF MutualExclusion, InCritical

\* Only the holder of the mutex fills the ring, so no worker is at the signal then.
LEMMA SignalStep == TypeOK /\ LockInv /\ SignalInv /\ [Next]_vars => SignalInv'
<1> SUFFICES ASSUME TypeOK, LockInv, SignalInv, [Next]_vars,
                    NEW v \in Workers, pc'[v] = "signal"
             PROVE  ~ queue_full'
  BY DEF SignalInv
<1> USE PipelineAssumption, CapacityAssumption
    DEF TypeOK, RingTypeOK, LockInv, SignalInv, WorkerPcs, queue_full
<1>1. CASE ReadChunk \/ GuessDind \/ MainLock \/ MainWaits \/ MainRelock \/ MainUnlock
           \/ Advance \/ JoinThreads \/ MainFault
  BY <1>1 DEF ReadChunk, GuessDind, MainLock, MainWaits, MainRelock, MainUnlock,
              Advance, JoinThreads, MainFault, ReadFails, SpuriousWakeup, JoinAbsent,
              workerVars, ring
<1>2. CASE MainQueues \/ MainQueuesWoken
  BY <1>2 DEF MainQueues, MainQueuesWoken, MainEnqueue, workerVars
<1>3. ASSUME NEW w \in Workers, CreateThread(w)
      PROVE  ~ queue_full'
  BY <1>3 DEF CreateThread, ring
<1>4. ASSUME NEW w \in Workers, WorkerFindsNothing(w)
      PROVE  ~ queue_full'
  BY <1>4 DEF WorkerFindsNothing, queue_empty, ring
<1>5. ASSUME NEW w \in Workers, WorkerTakes(w)
      PROVE  ~ queue_full'
  BY <1>5 DEF WorkerTakes, dequeue, queue_empty
<1>6. ASSUME NEW w \in Workers,
             WorkerLock(w) \/ WorkerExits(w) \/ WorkerSignals(w) \/ WorkerSleeps(w)
               \/ WorkerDumps(w)
      PROVE  ~ queue_full'
  BY <1>6 DEF WorkerLock, WorkerExits, WorkerSignals, WorkerSleeps, WorkerDumps, ring
<1>7. CASE UNCHANGED vars
  BY <1>7 DEF vars, ring, workerVars
<1>8. QED
  BY <1>1, <1>2, <1>3, <1>4, <1>5, <1>6, <1>7 DEF Next, MainStep, WorkerNext

LEMMA LockCorrect == Spec => [](TypeOK /\ LockInv /\ SignalInv)
  BY TypeInit, TypeStep, LockInit, LockStep, SignalStep, PTL DEF Spec

(***************************************************************************)
(* Whoever is between pthread_mutex_lock and pthread_mutex_unlock holds    *)
(* queue->mutex, so no two threads are, and pthread_cond_wait gives it up. *)
(***************************************************************************)
THEOREM Mutex == Spec => []MutualExclusion
  BY LockCorrect, LockSafe, PTL

-----------------------------------------------------------------------------
(* The condition variable                                                  *)

\* A signal is only sent when the ring is full, which it never is at that point.
LEMMA NeverSignalled ==
  ASSUME SignalInv, NEW w \in Workers, WorkerSignals(w)
  PROVE  mainPc' = mainPc
  BY DEF SignalInv, WorkerSignals

LEMMA WaitStep ==
  ASSUME SignalInv, [Next]_vars, mainPc = "wait"
  PROVE  mainPc' = "wait" \/ SpuriousWakeup
<1>1. CASE MainStep
  BY <1>1 DEF MainStep, ReadChunk, GuessDind, MainLock, MainQueues, MainWaits,
              MainRelock, MainQueuesWoken, MainUnlock, Advance, JoinThreads
<1>2. CASE MainFault
  BY <1>2 DEF MainFault, ReadFails, JoinAbsent
<1>3. ASSUME NEW w \in Workers, CreateThread(w)
      PROVE  mainPc' = "wait"
  BY <1>3 DEF CreateThread
<1>4. ASSUME NEW w \in Workers, WorkerNext(w)
      PROVE  mainPc' = "wait"
  BY <1>4, NeverSignalled
     DEF WorkerNext, WorkerLock, WorkerExits, WorkerFindsNothing, WorkerTakes,
         WorkerSleeps, WorkerDumps, mainVars
<1>5. CASE UNCHANGED vars
  BY <1>5 DEF vars, mainVars
<1>6. QED
  BY <1>1, <1>2, <1>3, <1>4, <1>5 DEF Next

(***************************************************************************)
(* Main returns from pthread_cond_wait only unasked: the test of           *)
(* queue_full before pthread_cond_signal comes after the dequeue, whatever *)
(* the ring length and thread count.                                       *)
(***************************************************************************)
THEOREM WaitIsForEver == Spec => BlockedForGood
<1>1. SignalInv /\ [Next]_vars => [mainPc = "wait" => mainPc' = "wait" \/ SpuriousWakeup]_vars
  BY WaitStep
<1>2. QED
  BY <1>1, LockCorrect, PTL DEF Spec, BlockedForGood

\* Main enqueues only on a ring that has room.
NeverRefused ==
  /\ mainPc \notin {"relock", "woken"}
  /\ dropped = {}

LEMMA NeverRefusedStep ==
  ASSUME "spurious" \notin Faults, TypeOK, SignalInv, NeverRefused, [Next]_vars
  PROVE  NeverRefused'
<1> USE DEF NeverRefused
<1>1. CASE MainQueues
  BY <1>1 DEF MainQueues, MainEnqueue, queue_full, EnqueueRefused, TypeOK, RingTypeOK
<1>2. CASE ReadChunk \/ GuessDind \/ MainLock \/ MainWaits \/ MainRelock
           \/ MainQueuesWoken \/ MainUnlock \/ Advance \/ JoinThreads
  BY <1>2 DEF ReadChunk, GuessDind, MainLock, MainWaits, MainRelock, MainQueuesWoken,
              MainUnlock, Advance, JoinThreads
<1>3. CASE MainFault
  BY <1>3 DEF MainFault, ReadFails, SpuriousWakeup, JoinAbsent
<1>4. ASSUME NEW w \in Workers, CreateThread(w)
      PROVE  NeverRefused'
  BY <1>4 DEF CreateThread
<1>5. ASSUME NEW w \in Workers, WorkerNext(w)
      PROVE  NeverRefused'
  BY <1>5, NeverSignalled
     DEF WorkerNext, WorkerLock, WorkerExits, WorkerFindsNothing, WorkerTakes,
         WorkerSignals, WorkerSleeps, WorkerDumps, mainVars
<1>6. CASE UNCHANGED vars
  BY <1>6 DEF vars, mainVars
<1>7. QED
  BY <1>1, <1>2, <1>3, <1>4, <1>5, <1>6 DEF Next, MainStep

(***************************************************************************)
(* Where pthread_cond_wait returns only when it is signalled, enqueue      *)
(* never refuses a candidate, although main ignores its result: main gets  *)
(* that far only when the ring has room.                                   *)
(***************************************************************************)
THEOREM NoneDropped ==
  ASSUME "spurious" \notin Faults
  PROVE  Spec => []NothingDropped
<1>1. Init => NeverRefused
  BY DEF Init, NeverRefused
<1>2. TypeOK /\ SignalInv /\ NeverRefused /\ [Next]_vars => NeverRefused'
  BY NeverRefusedStep
<1>3. NeverRefused => NothingDropped
  BY DEF NeverRefused, NothingDropped
<1>4. QED
  BY <1>1, <1>2, <1>3, LockCorrect, PTL DEF Spec

=============================================================================
