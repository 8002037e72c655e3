--------------------------- MODULE DindOrderProofs ---------------------------
(***************************************************************************)
(* What becomes of a candidate: proofs about DindPipeline that rest on the *)
(* order of the blocks, and the refinement of DindWork.                    *)
(***************************************************************************)
EXTENDS DindPipelineProofs, SequenceTheorems

-----------------------------------------------------------------------------
(* The ring as a queue                                                     *)

\* The slot of an entry, or of the next one to come, without the modulus.
LEMMA SlotOf ==
  ASSUME NEW h \in Slots, NEW k \in 0 .. MAX_QUEUED_NUM
  PROVE  /\ (h + k) % MAX_QUEUED_NUM \in Slots
         /\ (h + k) % MAX_QUEUED_NUM = IF h + k < MAX_QUEUED_NUM THEN h + k
                                       ELSE (h + k) - MAX_QUEUED_NUM
<1>1. h + k \in 0 .. 2 * MAX_QUEUED_NUM - 1
  BY CapacityAssumption DEF Slots
<1>2. (h + k) % MAX_QUEUED_NUM = IF h + k < MAX_QUEUED_NUM THEN h + k
                                 ELSE (h + k) - MAX_QUEUED_NUM
  BY <1>1, CapacityAssumption, ModuloWraps
<1>3. QED
  BY <1>1, <1>2, CapacityAssumption DEF Slots

\* Entries less than a lap apart are in different slots.
LEMMA SlotsApart ==
  ASSUME NEW h \in Slots, NEW k \in 0 .. MAX_QUEUED_NUM, NEW l \in 0 .. MAX_QUEUED_NUM,
         k < l, l - k < MAX_QUEUED_NUM
  PROVE  (h + k) % MAX_QUEUED_NUM # (h + l) % MAX_QUEUED_NUM
<1>1. /\ (h + k) % MAX_QUEUED_NUM = IF h + k < MAX_QUEUED_NUM THEN h + k
                                     ELSE (h + k) - MAX_QUEUED_NUM
      /\ (h + l) % MAX_QUEUED_NUM = IF h + l < MAX_QUEUED_NUM THEN h + l
                                     ELSE (h + l) - MAX_QUEUED_NUM
  BY SlotOf
<1>2. h \in Nat /\ k \in Nat /\ l \in Nat /\ MAX_QUEUED_NUM \in Nat
  BY CapacityAssumption DEF Slots
<1>3. QED
  BY <1>1, <1>2

\* Every entry is a block number.
LEMMA AtType ==
  ASSUME RingTypeOK, NEW k \in 0 .. MAX_QUEUED_NUM
  PROVE  At(k) \in Nat
  BY SlotOf DEF RingTypeOK, At

\* The slot after that of the k-th entry is that of the next one.
LEMMA NextSlotOf ==
  ASSUME NEW h \in Slots, NEW k \in 0 .. MAX_QUEUED_NUM - 1
  PROVE  /\ NextSlot((h + k) % MAX_QUEUED_NUM) = (h + k + 1) % MAX_QUEUED_NUM
         /\ (NextSlot(h) + k) % MAX_QUEUED_NUM = (h + k + 1) % MAX_QUEUED_NUM
<1> DEFINE s == (h + k) % MAX_QUEUED_NUM
<1>1. s \in Slots /\ s = IF h + k < MAX_QUEUED_NUM THEN h + k ELSE (h + k) - MAX_QUEUED_NUM
  BY SlotOf, CapacityAssumption
<1>2. (h + (k + 1)) % MAX_QUEUED_NUM = IF h + (k + 1) < MAX_QUEUED_NUM THEN h + (k + 1)
                                       ELSE (h + (k + 1)) - MAX_QUEUED_NUM
  BY SlotOf, CapacityAssumption
<1>3. h + (k + 1) = h + k + 1
  BY CapacityAssumption DEF Slots
<1>4. (s + 1) % MAX_QUEUED_NUM = IF s + 1 < MAX_QUEUED_NUM THEN s + 1 ELSE (s + 1) - MAX_QUEUED_NUM
  BY <1>1, SlotOf, CapacityAssumption
<1>5. NextSlot(h) \in Slots
      /\ NextSlot(h) = IF h + 1 < MAX_QUEUED_NUM THEN h + 1 ELSE (h + 1) - MAX_QUEUED_NUM
  BY SlotOf, CapacityAssumption DEF NextSlot
<1> DEFINE n == NextSlot(h)
<1>6. (n + k) % MAX_QUEUED_NUM = IF n + k < MAX_QUEUED_NUM THEN n + k ELSE (n + k) - MAX_QUEUED_NUM
  BY <1>5, SlotOf, CapacityAssumption
<1>7. NextSlot(s) = (s + 1) % MAX_QUEUED_NUM
  BY DEF NextSlot
<1> HIDE DEF s, n
<1>8. NextSlot(s) = (h + k + 1) % MAX_QUEUED_NUM
  BY <1>1, <1>2, <1>3, <1>4, <1>7, CapacityAssumption DEF Slots
<1>9. (n + k) % MAX_QUEUED_NUM = (h + k + 1) % MAX_QUEUED_NUM
  BY <1>2, <1>3, <1>5, <1>6, CapacityAssumption DEF Slots, n
<1>10. QED
  BY <1>8, <1>9 DEF s, n

\* enqueue puts the block behind the others, which stay where they are.
LEMMA EnqueueAppends ==
  ASSUME RingTypeOK, RingShape, NEW b \in Nat, ~ EnqueueRefused, enqueue(b)
  PROVE  /\ size' = size + 1
         /\ RingShape'
         /\ \A k \in 0 .. size : At(k)' = IF k < size THEN At(k) ELSE b
<1>1. /\ head \in Slots /\ size \in 0 .. MAX_QUEUED_NUM - 1
      /\ tail = (head + size) % MAX_QUEUED_NUM /\ tail \in Slots
      /\ block_no \in [Slots -> Nat]
      /\ head' = head /\ size' = size + 1 /\ tail' = NextSlot(tail)
      /\ block_no' = [block_no EXCEPT ![tail] = b]
  BY CapacityAssumption DEF RingTypeOK, RingShape, EnqueueRefused, enqueue
<1>2. RingShape'
  <2>1. head' + size' = head + size + 1
    BY <1>1, CapacityAssumption DEF Slots
  <2>2. QED
    BY <1>1, <2>1, NextSlotOf DEF RingShape
<1>3. ASSUME NEW k \in 0 .. size - 1
      PROVE  At(k)' = At(k)
  <2>1. (head + k) % MAX_QUEUED_NUM # tail
    BY <1>1, <1>3, SlotsApart, CapacityAssumption
  <2>2. QED
    BY <1>1, <2>1 DEF At
<1>4. ASSUME NEW k \in 0 .. size, ~ (k < size)
      PROVE  At(k)' = b
  <2>1. k = size
    BY <1>1, <1>4, CapacityAssumption
  <2>2. (head' + k) % MAX_QUEUED_NUM = tail
    BY <1>1, <2>1
  <2>3. QED
    BY <1>1, <2>2 DEF At
<1>5. \A k \in 0 .. size : k < size => k \in 0 .. size - 1
  BY <1>1, CapacityAssumption
<1>6. QED
  BY <1>1, <1>2, <1>3, <1>4, <1>5

\* dequeue takes the first entry, and every other moves up by one.
LEMMA DequeueShifts ==
  ASSUME RingTypeOK, RingShape, size # 0, dequeue
  PROVE  /\ size' = size - 1
         /\ RingShape'
         /\ \A k \in 0 .. size - 2 : At(k)' = At(k + 1)
         /\ DequeuedBlock = At(0)
<1>1. /\ head \in Slots /\ size \in 1 .. MAX_QUEUED_NUM
      /\ tail = (head + size) % MAX_QUEUED_NUM
      /\ head' = NextSlot(head) /\ size' = size - 1 /\ tail' = tail
      /\ block_no' = block_no
  BY CapacityAssumption DEF RingTypeOK, RingShape, dequeue
<1>2. RingShape'
  <2>1. size - 1 \in 0 .. MAX_QUEUED_NUM - 1
    BY <1>1, CapacityAssumption
  <2>2. (NextSlot(head) + (size - 1)) % MAX_QUEUED_NUM = (head + (size - 1) + 1) % MAX_QUEUED_NUM
    BY <1>1, <2>1, NextSlotOf
  <2>3. head + (size - 1) + 1 = head + size
    BY <1>1, CapacityAssumption DEF Slots
  <2>4. QED
    BY <1>1, <2>2, <2>3 DEF RingShape
<1>3. ASSUME NEW k \in 0 .. size - 2
      PROVE  At(k)' = At(k + 1)
  <2>1. k \in 0 .. MAX_QUEUED_NUM - 1 /\ head + (k + 1) = head + k + 1
    BY <1>1, CapacityAssumption DEF Slots
  <2>2. (head' + k) % MAX_QUEUED_NUM = (head + (k + 1)) % MAX_QUEUED_NUM
    BY <1>1, <2>1, NextSlotOf
  <2>3. QED
    BY <1>1, <2>2 DEF At
<1>4. DequeuedBlock = At(0)
  <2>1. head + 0 = head /\ head < MAX_QUEUED_NUM /\ 0 \in 0 .. MAX_QUEUED_NUM
    BY <1>1, CapacityAssumption DEF Slots
  <2>2. (head + 0) % MAX_QUEUED_NUM = head
    BY <1>1, <2>1, SlotOf
  <2>3. QED
    BY <2>2 DEF DequeuedBlock, At
<1>5. QED
  BY <1>1, <1>2, <1>3, <1>4

-----------------------------------------------------------------------------
(* Exit                                                                    *)

LEMMA ExitInit == Init => ExitInv /\ DumpsTaken
  BY PipelineAssumption DEF Init, RingInit, ExitInv, DumpsTaken

LEMMA ExitStep == TypeOK /\ ExitInv /\ [Next]_vars => ExitInv'
<1> SUFFICES ASSUME TypeOK, ExitInv, [Next]_vars
             PROVE  ExitInv'
  OBVIOUS
<1> USE PipelineAssumption DEF TypeOK, ExitInv
<1>1. CASE ReadChunk \/ GuessDind \/ MainLock \/ MainWaits \/ MainRelock \/ MainUnlock
  BY <1>1 DEF ReadChunk, GuessDind, MainLock, MainWaits, MainRelock, MainUnlock,
              ring, workerVars
<1>2. CASE MainQueues \/ MainQueuesWoken
  BY <1>2 DEF MainQueues, MainQueuesWoken, MainEnqueue, workerVars
<1>3. CASE Advance
  BY <1>3 DEF Advance, ring, workerVars
<1>4. CASE JoinThreads \/ MainFault
  BY <1>4 DEF JoinThreads, MainFault, ReadFails, SpuriousWakeup, JoinAbsent, ring, workerVars
<1>5. ASSUME NEW w \in Workers, CreateThread(w)
      PROVE  ExitInv'
  BY <1>5 DEF CreateThread, ring
<1>6. ASSUME NEW w \in Workers, WorkerTakes(w)
      PROVE  ExitInv'
  BY <1>6 DEF WorkerTakes, mainVars, queue_empty
<1>7. ASSUME NEW w \in Workers, WorkerExits(w)
      PROVE  ExitInv'
  BY <1>7 DEF WorkerExits, mainVars, ring, queue_empty
<1>8. ASSUME NEW w \in Workers, WorkerSignals(w)
      PROVE  ExitInv'
  BY <1>8 DEF WorkerSignals, ring
<1>9. ASSUME NEW w \in Workers,
             WorkerLock(w) \/ WorkerFindsNothing(w) \/ WorkerSleeps(w) \/ WorkerDumps(w)
      PROVE  ExitInv'
  BY <1>9 DEF WorkerLock, WorkerFindsNothing, WorkerSleeps, WorkerDumps, mainVars, ring
<1>10. CASE UNCHANGED vars
  BY <1>10 DEF vars, mainVars, workerVars, ring
<1>11. QED
  BY <1>1, <1>2, <1>3, <1>4, <1>5, <1>6, <1>7, <1>8, <1>9, <1>10
     DEF Next, MainStep, WorkerNext

LEMMA DumpsTakenStep == TypeOK /\ DumpsTaken /\ [Next]_vars => DumpsTaken'
<1> SUFFICES ASSUME TypeOK, DumpsTaken, [Next]_vars
             PROVE  DumpsTaken'
  OBVIOUS
<1> USE DEF TypeOK, DumpsTaken
<1>1. CASE MainStep \/ MainFault
  BY <1>1 DEF MainStep, ReadChunk, GuessDind, MainLock, MainQueues, MainWaits, MainRelock,
              MainQueuesWoken, MainEnqueue, MainUnlock, Advance, JoinThreads, MainFault,
              ReadFails, SpuriousWakeup, JoinAbsent, workerVars
<1>2. ASSUME NEW w \in Workers, CreateThread(w)
      PROVE  DumpsTaken'
  BY <1>2 DEF CreateThread
<1>3. ASSUME NEW w \in Workers, WorkerNext(w)
      PROVE  DumpsTaken'
  BY <1>3 DEF WorkerNext, WorkerLock, WorkerExits, WorkerFindsNothing, WorkerTakes,
              WorkerSignals, WorkerSleeps, WorkerDumps
<1>4. CASE UNCHANGED vars
  BY <1>4 DEF vars, workerVars
<1>5. QED
  BY <1>1, <1>2, <1>3, <1>4 DEF Next

-----------------------------------------------------------------------------
(* The order of the blocks                                                 *)

OrderInv == TypeOK /\ LockInv /\ ExitInv /\ DumpsTaken /\ ScanOrder

LEMMA OrderInit == Init => ScanOrder
<1> SUFFICES ASSUME Init
             PROVE  ScanOrder
  OBVIOUS
<1>1. RingShape
  BY SlotOf, CapacityAssumption DEF Init, RingInit, RingShape, Slots
<1>2. 0 .. size - 1 = {}
  BY DEF Init, RingInit
<1>3. QED
  BY <1>1, <1>2, PipelineAssumption
     DEF Init, ScanOrder, RingAscends, RingPassed, HandsGone, HandsApart, Holds,
         DumpedGone, DroppedPassed

\* A step that takes no block anywhere keeps the order, even if the scan moves on.
LEMMA OrderQuiet ==
  ASSUME OrderInv, next_block' \in Nat, Frontier' \in Nat,
         next_block <= next_block', Frontier <= Frontier',
         UNCHANGED <<ring, blk_no, dumped, dropped>>,
         \A w \in Workers : Holds(w)' => Holds(w)
  PROVE  ScanOrder'
<1>1. \A k : At(k)' = At(k)
  BY DEF At, ring
<1>2. size' = size /\ RingShape'
  BY DEF OrderInv, ScanOrder, RingShape, ring
<1>3. \A b : Gone(b)' <=> b < Frontier' /\ b \notin dropped /\ \A k \in 0 .. size - 1 : b < At(k)
  BY <1>1, <1>2 DEF Gone
<1>4. /\ Frontier \in Nat /\ Frontier' \in Nat /\ GROUP0_DATA_START \in Nat
      /\ next_block \in Nat /\ dumped \subseteq Nat /\ dropped \subseteq Nat
      /\ blk_no \in [Workers -> Nat] /\ size \in 0 .. MAX_QUEUED_NUM
  <2>1. next_block \in Nat
    BY DEF OrderInv, TypeOK
  <2>2. Frontier \in Nat
    BY <2>1 DEF Frontier
  <2>3. QED
    BY <2>1, <2>2, PipelineAssumption DEF OrderInv, TypeOK, RingTypeOK
<1>5. \A k \in 0 .. size - 1 : At(k) \in Nat
  BY <1>4, AtType, CapacityAssumption DEF OrderInv, TypeOK
<1>6. \A b \in Nat : Gone(b) => Gone(b)'
  BY <1>3, <1>4 DEF Gone
<1>7. RingAscends' /\ RingPassed'
  BY <1>1, <1>2, <1>4, <1>5 DEF OrderInv, ScanOrder, RingAscends, RingPassed
<1>8. HandsGone' /\ HandsApart'
  BY <1>4, <1>6 DEF OrderInv, ScanOrder, HandsGone, HandsApart
<1>9. DumpedGone' /\ DroppedPassed'
  BY <1>4, <1>6 DEF OrderInv, ScanOrder, DumpedGone, DroppedPassed
<1>10. QED
  BY <1>2, <1>4, <1>7, <1>8, <1>9 DEF OrderInv, ScanOrder

\* What main enqueues is the block it is at, behind everything that was queued.
LEMMA OrderEnqueue ==
  ASSUME OrderInv, MainEnqueue, mainPc \in {"check", "woken"}
  PROVE  ScanOrder'
<1>1. /\ next_block \in Nat /\ next_block' = next_block
      /\ Frontier = next_block /\ Frontier' = next_block + 1
      /\ dumped' = dumped /\ blk_no' = blk_no /\ pc' = pc /\ empty' = empty
      /\ dumped \subseteq Nat /\ dropped \subseteq Nat /\ blk_no \in [Workers -> Nat]
      /\ size \in 0 .. MAX_QUEUED_NUM /\ GROUP0_DATA_START \in Nat
      /\ GROUP0_DATA_START <= next_block
  BY PipelineAssumption
     DEF OrderInv, TypeOK, RingTypeOK, ScanOrder, MainEnqueue, workerVars, Frontier
<1>2. \A k \in 0 .. size - 1 : At(k) \in Nat /\ At(k) < next_block
  BY <1>1, AtType, CapacityAssumption DEF OrderInv, TypeOK, ScanOrder, RingPassed
<1>3. \A w \in Workers : Holds(w)' <=> Holds(w)
  BY <1>1 DEF Holds
<1>4. CASE EnqueueRefused
  <2>1. UNCHANGED ring /\ dropped' = dropped \cup {next_block}
    BY <1>4 DEF MainEnqueue, enqueue
  <2>2. \A k : At(k)' = At(k)
    BY <2>1 DEF At, ring
  <2>3. size' = size /\ RingShape'
    BY <2>1 DEF OrderInv, ScanOrder, RingShape, ring
  <2>4. \A b \in Nat : Gone(b) => Gone(b)'
    BY <1>1, <2>1, <2>2, <2>3 DEF Gone
  <2>5. RingAscends' /\ RingPassed'
    BY <1>1, <1>2, <2>1, <2>2, <2>3 DEF OrderInv, ScanOrder, RingAscends, RingPassed
  <2>6. HandsGone' /\ HandsApart'
    BY <1>1, <1>3, <2>4 DEF OrderInv, ScanOrder, HandsGone, HandsApart
  <2>7. DumpedGone' /\ DroppedPassed'
    BY <1>1, <2>1, <2>4 DEF OrderInv, ScanOrder, DumpedGone, DroppedPassed
  <2>8. QED
    BY <1>1, <2>3, <2>5, <2>6, <2>7 DEF ScanOrder
<1>5. CASE ~ EnqueueRefused
  <2>1. /\ size' = size + 1 /\ RingShape' /\ dropped' = dropped
        /\ \A k \in 0 .. size : At(k)' = IF k < size THEN At(k) ELSE next_block
    BY <1>1, <1>5, EnqueueAppends DEF OrderInv, TypeOK, ScanOrder, MainEnqueue
  <2>2. next_block \notin dropped
    BY <1>1 DEF OrderInv, ScanOrder, DroppedPassed
  <2>3. RingAscends'
    BY <1>1, <1>2, <2>1 DEF OrderInv, ScanOrder, RingAscends
  <2>4. RingPassed'
    BY <1>1, <1>2, <2>1, <2>2 DEF OrderInv, ScanOrder, RingPassed
  <2>5. \A b \in Nat : Gone(b) => Gone(b)'
    BY <1>1, <2>1 DEF Gone
  <2>6. HandsGone' /\ HandsApart'
    BY <1>1, <1>3, <2>5 DEF OrderInv, ScanOrder, HandsGone, HandsApart
  <2>7. DumpedGone' /\ DroppedPassed'
    BY <1>1, <2>1, <2>5 DEF OrderInv, ScanOrder, DumpedGone, DroppedPassed
  <2>8. QED
    BY <1>1, <2>1, <2>3, <2>4, <2>6, <2>7 DEF ScanOrder
<1>6. QED
  BY <1>4, <1>5

\* A worker takes the lowest block of the ring, which nobody else has or had.
LEMMA OrderTake ==
  ASSUME OrderInv, NEW w \in Workers, WorkerTakes(w)
  PROVE  ScanOrder'
<1>1. /\ next_block' = next_block /\ Frontier' = Frontier /\ Frontier \in Nat
      /\ dumped' = dumped /\ dropped' = dropped
      /\ dumped \subseteq Nat /\ dropped \subseteq Nat /\ blk_no \in [Workers -> Nat]
      /\ size \in 1 .. MAX_QUEUED_NUM
  BY DEF OrderInv, TypeOK, RingTypeOK, WorkerTakes, mainVars, Frontier, queue_empty
<1>2. /\ size' = size - 1 /\ RingShape' /\ DequeuedBlock = At(0)
      /\ \A k \in 0 .. size - 2 : At(k)' = At(k + 1)
  BY <1>1, DequeueShifts DEF OrderInv, TypeOK, ScanOrder, WorkerTakes
<1>3. \A k \in 0 .. size - 1 : At(k) \in Nat
  BY <1>1, AtType, CapacityAssumption DEF OrderInv, TypeOK
<1>4. /\ blk_no' = [blk_no EXCEPT ![w] = At(0)]
      /\ Holds(w)' /\ \A v \in Workers \ {w} : Holds(v)' <=> Holds(v)
  BY <1>2 DEF WorkerTakes, Holds, OrderInv, TypeOK
<1>5. RingAscends'
  BY <1>1, <1>2, <1>3 DEF OrderInv, ScanOrder, RingAscends
<1>6. RingPassed'
  BY <1>1, <1>2, <1>3 DEF OrderInv, ScanOrder, RingPassed
<1>7. \A b \in Nat : Gone(b) => Gone(b)'
  BY <1>1, <1>2 DEF Gone
<1>8. PICK b \in Nat : b = At(0) /\ Gone(b)' /\ b \notin dumped
  <2>1. 0 \in 0 .. size - 1 /\ \A k \in 0 .. size - 2 : k + 1 \in 0 .. size - 1 /\ 0 < k + 1
    BY <1>1
  <2>2. At(0) < Frontier /\ At(0) \notin dropped /\ \A k \in 0 .. size - 2 : At(0) < At(k + 1)
    BY <2>1 DEF OrderInv, ScanOrder, RingPassed, RingAscends
  <2>3. At(0) \notin dumped
    BY <1>3, <2>1 DEF OrderInv, ScanOrder, DumpedGone, Gone
  <2>4. size' - 1 = size - 2
    BY <1>1, <1>2
  <2>5. PICK b : b = At(0)
    OBVIOUS
  <2>6. Gone(b)' /\ b \in Nat
    BY <1>1, <1>2, <1>3, <2>1, <2>2, <2>4, <2>5 DEF Gone
  <2>7. QED
    BY <2>3, <2>5, <2>6
<1>9. \A v \in Workers : Holds(v) => blk_no[v] < At(0)
  BY <1>1 DEF OrderInv, ScanOrder, HandsGone, Gone
<1>10. HandsGone'
  BY <1>1, <1>4, <1>7, <1>8 DEF OrderInv, ScanOrder, HandsGone
<1>11. HandsApart'
  BY <1>1, <1>3, <1>4, <1>9 DEF OrderInv, ScanOrder, HandsApart
<1>12. DumpedGone' /\ DroppedPassed'
  BY <1>1, <1>7 DEF OrderInv, ScanOrder, DumpedGone, DroppedPassed
<1>13. QED
  BY <1>1, <1>2, <1>5, <1>6, <1>10, <1>11, <1>12 DEF OrderInv, ScanOrder

\* A worker that dumps a block has it no more.
LEMMA OrderDump ==
  ASSUME OrderInv, NEW w \in Workers, WorkerDumps(w)
  PROVE  ScanOrder'
<1>1. /\ UNCHANGED <<ring, next_block, dropped, blk_no>> /\ Frontier' = Frontier
      /\ dumped' = dumped \cup {blk_no[w]}
      /\ Holds(w) /\ ~ Holds(w)' /\ \A v \in Workers \ {w} : Holds(v)' <=> Holds(v)
  BY DEF OrderInv, TypeOK, DumpsTaken, WorkerDumps, mainVars, Frontier, Holds
<1>2. \A k : At(k)' = At(k)
  BY <1>1 DEF At, ring
<1>3. size' = size /\ RingShape'
  BY <1>1 DEF OrderInv, ScanOrder, RingShape, ring
<1>4. \A b : Gone(b)' <=> Gone(b)
  BY <1>1, <1>2, <1>3 DEF Gone
<1>5. RingAscends' /\ RingPassed'
  BY <1>1, <1>2, <1>3 DEF OrderInv, ScanOrder, RingAscends, RingPassed
<1>6. Gone(blk_no[w]) /\ \A v \in Workers \ {w} : Holds(v) => blk_no[v] # blk_no[w]
  BY <1>1 DEF OrderInv, ScanOrder, HandsGone, HandsApart
<1>7. HandsGone' /\ HandsApart'
  BY <1>1, <1>4, <1>6 DEF OrderInv, ScanOrder, HandsGone, HandsApart
<1>8. DumpedGone' /\ DroppedPassed'
  BY <1>1, <1>4, <1>6 DEF OrderInv, ScanOrder, DumpedGone, DroppedPassed
<1>9. QED
  BY <1>1, <1>3, <1>5, <1>7, <1>8 DEF OrderInv, ScanOrder

LEMMA OrderStep == OrderInv /\ [Next]_vars => ScanOrder'
<1> SUFFICES ASSUME OrderInv, [Next]_vars
             PROVE  ScanOrder'
  OBVIOUS
<1> DEFINE Quiet == /\ next_block' \in Nat /\ Frontier' \in Nat
                    /\ next_block <= next_block'
                    /\ Frontier <= Frontier'
                    /\ UNCHANGED <<ring, blk_no, dumped, dropped>>
                    /\ \A w \in Workers : Holds(w)' => Holds(w)
<1>1. next_block \in Nat /\ pc \in [Workers -> WorkerPcs] /\ empty \in [Workers -> BOOLEAN]
  BY DEF OrderInv, TypeOK
<1>2. CASE ReadChunk \/ GuessDind \/ MainLock \/ MainWaits \/ MainRelock \/ MainUnlock
           \/ Advance \/ JoinThreads \/ MainFault
  <2>1. Quiet
    BY <1>1, <1>2 DEF ReadChunk, GuessDind, MainLock, MainWaits, MainRelock, MainUnlock,
              Advance, JoinThreads, MainFault, ReadFails, SpuriousWakeup, JoinAbsent,
              workerVars, Frontier, Holds
  <2>2. QED
    BY <2>1, OrderQuiet
<1>3. CASE MainQueues \/ MainQueuesWoken
  BY <1>3, OrderEnqueue DEF MainQueues, MainQueuesWoken
<1>4. ASSUME NEW w \in Workers,
             \/ CreateThread(w) \/ WorkerLock(w) \/ WorkerExits(w)
             \/ WorkerFindsNothing(w) \/ WorkerSignals(w) \/ WorkerSleeps(w)
      PROVE  ScanOrder'
  <2>1. Quiet
    BY <1>1, <1>4 DEF CreateThread, WorkerLock, WorkerExits, WorkerFindsNothing,
              WorkerSignals, WorkerSleeps, mainVars, Frontier, Holds
  <2>2. QED
    BY <2>1, OrderQuiet
<1>5. CASE UNCHANGED vars
  <2>1. Quiet
    BY <1>1, <1>5 DEF vars, mainVars, workerVars, Frontier, Holds
  <2>2. QED
    BY <2>1, OrderQuiet
<1>6. QED
  BY <1>2, <1>3, <1>4, <1>5, OrderTake, OrderDump DEF Next, MainStep, WorkerNext

LEMMA OrderCorrect == Spec => []OrderInv
<1>1. Init => OrderInv
  BY TypeInit, LockInit, ExitInit, OrderInit DEF OrderInv
<1>2. OrderInv /\ [Next]_vars => OrderInv'
  BY TypeStep, LockStep, ExitStep, DumpsTakenStep, OrderStep DEF OrderInv
<1>3. QED
  BY <1>1, <1>2, PTL DEF Spec

(***************************************************************************)
(* A block that is in one place of the pipeline is in no other, so no two  *)
(* workers ever get the same one: the scan offers each block once, and the *)
(* ring hands the lowest to one worker under the mutex.                    *)
(***************************************************************************)
THEOREM OnlyOnce == Spec => []DumpedOnce
<1>1. ASSUME OrderInv
      PROVE  DumpedOnce
  <2>1. /\ \A i \in 0 .. size - 1 : At(i) \in Nat
        /\ blk_no \in [Workers -> Nat] /\ dumped \subseteq Nat /\ dropped \subseteq Nat
        /\ size \in Nat /\ next_block \in Nat
    BY <1>1, AtType, CapacityAssumption DEF OrderInv, TypeOK, RingTypeOK
  <2>2. \A b \in InHand : \E w \in Workers : Holds(w) /\ b = blk_no[w]
    BY DEF InHand, Hand
  <2>3. \A b \in InHand : b \in Nat /\ Gone(b) /\ b \notin dumped
    BY <1>1, <2>1, <2>2 DEF OrderInv, ScanOrder, HandsGone
  <2>4. \A b \in dumped : b \in Nat /\ Gone(b)
    BY <1>1, <2>1 DEF OrderInv, ScanOrder, DumpedGone
  <2>5. \A b \in Queued : b \in Nat /\ b < Frontier /\ b \notin dropped
    BY <1>1, <2>1 DEF OrderInv, ScanOrder, RingPassed, Queued
  <2>6. \A b \in Nat : Gone(b) => b \notin Queued /\ b \notin dropped /\ b < Frontier
    BY <2>1 DEF Gone, Queued
  <2>7. \A b \in dropped : b \in Nat /\ b < Frontier
    BY <1>1, <2>1 DEF OrderInv, ScanOrder, DroppedPassed
  <2>8. \A b \in MainHand : b = next_block /\ Frontier = next_block
    BY DEF MainHand, Frontier
  <2>9. \A i, j \in 0 .. size - 1 : At(i) = At(j) => i = j
    <3>1. \A i, j \in 0 .. size - 1 : i < j \/ j < i \/ i = j
      BY <2>1
    <3>2. \A i, j \in 0 .. size - 1 : i < j => At(i) < At(j)
      BY <1>1 DEF OrderInv, ScanOrder, RingAscends
    <3>3. QED
      BY <2>1, <3>1, <3>2
  <2>10. \A v, w \in Workers : v # w => Hand(v) \cap Hand(w) = {}
    BY <1>1 DEF OrderInv, ScanOrder, HandsApart, Hand
  <2>11. InHand \cap dumped = {} /\ (InHand \cup dumped) \cap Queued = {}
    BY <2>3, <2>4, <2>6
  <2>12. dropped \cap (Queued \cup InHand \cup dumped) = {}
    BY <2>3, <2>4, <2>5, <2>6
  <2>13. \A b \in Queued \cup InHand \cup dumped \cup dropped : b \in Nat /\ b < Frontier
    BY <2>3, <2>4, <2>5, <2>6, <2>7
  <2>14. MainHand \cap (Queued \cup InHand \cup dumped \cup dropped) = {}
    <3>1. \A b \in MainHand : b \in Nat /\ ~ (b < Frontier)
      BY <2>1, <2>8
    <3>2. QED
      BY <2>13, <3>1
  <2>15. QED
    BY <2>9, <2>10, <2>11, <2>12, <2>14 DEF DumpedOnce
<1>2. QED
  BY <1>1, OrderCorrect, PTL

-----------------------------------------------------------------------------
(* Where the candidates are                                                *)

\* A step of a thread that touches neither its block nor the ring.
LEMMA PlacesQuiet ==
  ASSUME UNCHANGED <<ring, blk_no>>, \A w \in Workers : Holds(w)' <=> Holds(w)
  PROVE  Queued' = Queued /\ InHand' = InHand
<1>1. \A k : At(k)' = At(k)
  BY DEF At, ring
<1>2. Queued' = Queued
  BY <1>1 DEF Queued, ring
<1>3. \A w \in Workers : Hand(w)' = Hand(w)
  BY DEF Hand
<1>4. InHand' = InHand
  BY <1>3 DEF InHand
<1>5. QED
  BY <1>2, <1>4

\* enqueue adds its block to those queued, or main counts it as refused.
LEMMA EnqueuePlaces ==
  ASSUME OrderInv, MainEnqueue
  PROVE  Queued' \cup dropped' = Queued \cup dropped \cup {next_block}
<1>1. next_block \in Nat /\ size \in Nat /\ RingTypeOK /\ RingShape
  BY DEF OrderInv, TypeOK, RingTypeOK, ScanOrder
<1>2. CASE EnqueueRefused
  <2>1. UNCHANGED ring /\ dropped' = dropped \cup {next_block}
    BY <1>2 DEF MainEnqueue, enqueue
  <2>2. \A k : At(k)' = At(k)
    BY <2>1 DEF At, ring
  <2>3. Queued' = Queued
    BY <2>1, <2>2 DEF Queued, ring
  <2>4. QED
    BY <2>1, <2>3
<1>3. CASE ~ EnqueueRefused
  <2>1. /\ size' = size + 1 /\ dropped' = dropped
        /\ \A k \in 0 .. size : At(k)' = IF k < size THEN At(k) ELSE next_block
    BY <1>1, <1>3, EnqueueAppends DEF MainEnqueue
  <2>2. 0 .. size' - 1 = (0 .. size - 1) \cup {size}
    BY <1>1, <2>1
  <2>3. \A k \in 0 .. size - 1 : At(k)' = At(k)
    BY <1>1, <2>1
  <2>4. \A k \in {size} : At(k)' = next_block
    BY <1>1, <2>1
  <2>5. Queued' = Queued \cup {next_block}
    BY <2>2, <2>3, <2>4 DEF Queued
  <2>6. QED
    BY <2>1, <2>5
<1>4. QED
  BY <1>2, <1>3

\* dequeue moves the block at the head from the ring to the worker.
LEMMA TakePlaces ==
  ASSUME OrderInv, NEW w \in Workers, WorkerTakes(w)
  PROVE  /\ ~ Holds(w)
         /\ Queued' \cup InHand' = Queued \cup InHand
<1>1. /\ size \in Nat /\ size # 0 /\ RingTypeOK /\ RingShape /\ dequeue
      /\ blk_no \in [Workers -> Nat] /\ pc[w] = "check"
  BY DEF OrderInv, TypeOK, RingTypeOK, ScanOrder, WorkerTakes, queue_empty
<1>2. PICK b : b = At(0)
  OBVIOUS
<1>3. /\ size' = size - 1 /\ DequeuedBlock = b
      /\ \A k \in 0 .. size - 2 : At(k)' = At(k + 1)
  BY <1>1, <1>2, DequeueShifts
<1>4. Queued = Queued' \cup {b}
  <2>1. \A k \in 0 .. size' - 1 : k + 1 \in 0 .. size - 1 /\ At(k)' = At(k + 1)
    BY <1>1, <1>3
  <2>2. \A k \in 0 .. size - 1 : k = 0 \/ (k - 1 \in 0 .. size' - 1 /\ (k - 1) + 1 = k)
    BY <1>1, <1>3
  <2>3. 0 \in 0 .. size - 1
    BY <1>1
  <2>4. QED
    BY <1>2, <2>1, <2>2, <2>3 DEF Queued
<1>5. /\ ~ Holds(w) /\ Holds(w)' /\ blk_no'[w] = b
      /\ \A v \in Workers \ {w} : (Holds(v)' <=> Holds(v)) /\ blk_no'[v] = blk_no[v]
  BY <1>1, <1>3 DEF WorkerTakes, Holds, OrderInv, TypeOK
<1>6. /\ Hand(w) = {} /\ Hand(w)' = {b}
      /\ \A v \in Workers \ {w} : Hand(v)' = Hand(v)
  BY <1>5 DEF Hand
<1>7. InHand' = InHand \cup {b}
  BY <1>6 DEF InHand
<1>8. QED
  BY <1>4, <1>5, <1>7

\* dump_dind_data moves the block from the worker to the dumped ones.
LEMMA DumpPlaces ==
  ASSUME OrderInv, NEW w \in Workers, WorkerDumps(w)
  PROVE  /\ Queued' = Queued
         /\ InHand' \cup dumped' = InHand \cup dumped
<1>1. /\ UNCHANGED <<ring, blk_no>> /\ dumped' = dumped \cup {blk_no[w]}
      /\ Holds(w) /\ ~ Holds(w)' /\ \A v \in Workers \ {w} : Holds(v)' <=> Holds(v)
  BY DEF OrderInv, TypeOK, DumpsTaken, WorkerDumps, mainVars, Holds
<1>2. \A k : At(k)' = At(k)
  BY <1>1 DEF At, ring
<1>3. Queued' = Queued
  BY <1>1, <1>2 DEF Queued, ring
<1>4. /\ Hand(w) = {blk_no[w]} /\ Hand(w)' = {}
      /\ \A v \in Workers \ {w} : Hand(v)' = Hand(v)
  BY <1>1 DEF Hand
<1>5. InHand = InHand' \cup {blk_no[w]}
  BY <1>4 DEF InHand
<1>6. QED
  BY <1>1, <1>3, <1>5

LEMMA ForgottenStep == OrderInv /\ NoDindForgotten /\ [Next]_vars => NoDindForgotten'
<1> SUFFICES ASSUME OrderInv, NoDindForgotten, [Next]_vars
             PROVE  NoDindForgotten'
  OBVIOUS
<1> DEFINE Quiet == UNCHANGED <<ring, blk_no>> /\ \A w \in Workers : Holds(w)' <=> Holds(w)
<1>1. CASE ReadChunk \/ GuessDind \/ MainLock \/ MainWaits \/ MainRelock \/ MainUnlock
           \/ Advance \/ JoinThreads \/ MainFault
  <2>1. Quiet /\ dumped' = dumped /\ dropped' = dropped
    BY <1>1 DEF ReadChunk, GuessDind, MainLock, MainWaits, MainRelock, MainUnlock,
              Advance, JoinThreads, MainFault, ReadFails, SpuriousWakeup, JoinAbsent,
              workerVars, Holds
  <2>2. \/ found' = found /\ MainHand' = MainHand
        \/ found' = found \cup {next_block} /\ MainHand = {} /\ MainHand' = {next_block}
    <3>1. CASE GuessDind
      BY <3>1 DEF GuessDind, MainHand
    <3>2. CASE Advance
      BY <3>2 DEF Advance, MainHand
    <3>3. CASE ReadChunk \/ MainLock \/ MainWaits \/ MainRelock \/ MainUnlock
               \/ JoinThreads \/ MainFault
      BY <3>3 DEF ReadChunk, MainLock, MainWaits, MainRelock, MainUnlock, JoinThreads,
              MainFault, ReadFails, SpuriousWakeup, JoinAbsent, MainHand
    <3>4. QED
      BY <1>1, <3>1, <3>2, <3>3
  <2>3. Queued' = Queued /\ InHand' = InHand
    BY <2>1, PlacesQuiet
  <2>4. QED
    BY <2>1, <2>2, <2>3 DEF NoDindForgotten
<1>2. CASE MainQueues \/ MainQueuesWoken
  <2>1. MainEnqueue /\ mainPc \in {"check", "woken"}
    BY <1>2 DEF MainQueues, MainQueuesWoken
  <2>2. /\ found' = found /\ dumped' = dumped /\ blk_no' = blk_no
        /\ \A w \in Workers : Holds(w)' <=> Holds(w)
        /\ MainHand = {next_block} /\ MainHand' = {}
    BY <2>1 DEF MainEnqueue, workerVars, Holds, MainHand
  <2>3. InHand' = InHand
    BY <2>2 DEF InHand, Hand
  <2>4. Queued' \cup dropped' = Queued \cup dropped \cup {next_block}
    BY <2>1, EnqueuePlaces
  <2>5. QED
    BY <2>2, <2>3, <2>4 DEF NoDindForgotten
<1>3. ASSUME NEW w \in Workers, WorkerTakes(w)
      PROVE  NoDindForgotten'
  <2>1. UNCHANGED <<found, dumped, dropped, MainHand>>
    BY <1>3 DEF WorkerTakes, mainVars, MainHand
  <2>2. QED
    BY <1>3, <2>1, TakePlaces DEF NoDindForgotten
<1>4. ASSUME NEW w \in Workers, WorkerDumps(w)
      PROVE  NoDindForgotten'
  <2>1. UNCHANGED <<found, dropped, MainHand>>
    BY <1>4 DEF WorkerDumps, mainVars, MainHand
  <2>2. QED
    BY <1>4, <2>1, DumpPlaces DEF NoDindForgotten
<1>5. ASSUME NEW w \in Workers, WorkerSignals(w)
      PROVE  NoDindForgotten'
  <2>1. Quiet /\ UNCHANGED <<found, dumped, dropped>>
    BY <1>5 DEF WorkerSignals, Holds, OrderInv, TypeOK
  <2>2. MainHand' = MainHand
    BY <1>5 DEF WorkerSignals, MainHand
  <2>3. QED
    BY <2>1, <2>2, PlacesQuiet DEF NoDindForgotten
<1>6. ASSUME NEW w \in Workers,
             CreateThread(w) \/ WorkerLock(w) \/ WorkerExits(w) \/ WorkerFindsNothing(w)
               \/ WorkerSleeps(w)
      PROVE  NoDindForgotten'
  <2>1. Quiet /\ UNCHANGED <<found, dumped, dropped>>
    BY <1>6 DEF CreateThread, WorkerLock, WorkerExits, WorkerFindsNothing, WorkerSleeps,
              mainVars, Holds, OrderInv, TypeOK
  <2>2. MainHand' = MainHand
    BY <1>6 DEF CreateThread, WorkerLock, WorkerExits, WorkerFindsNothing, WorkerSleeps,
              mainVars, MainHand
  <2>3. QED
    BY <2>1, <2>2, PlacesQuiet DEF NoDindForgotten
<1>7. CASE UNCHANGED vars
  <2>1. Quiet /\ UNCHANGED <<found, dumped, dropped, MainHand>>
    BY <1>7 DEF vars, mainVars, workerVars, Holds, MainHand
  <2>2. QED
    BY <2>1, PlacesQuiet DEF NoDindForgotten
<1>8. QED
  BY <1>1, <1>2, <1>3, <1>4, <1>5, <1>6, <1>7 DEF Next, MainStep, WorkerNext

LEMMA ForgottenInit == Init => NoDindForgotten
<1> SUFFICES ASSUME Init
             PROVE  NoDindForgotten
  OBVIOUS
<1>1. MainHand = {} /\ InHand = {}
  BY DEF Init, MainHand, InHand, Hand, Holds
<1>2. Queued = {}
  BY DEF Init, RingInit, Queued
<1>3. QED
  BY <1>1, <1>2 DEF Init, NoDindForgotten

LEMMA PlacesCorrect == Spec => [](OrderInv /\ NoDindForgotten)
  BY OrderCorrect, ForgottenInit, ForgottenStep, PTL DEF Spec

(***************************************************************************)
(* Every candidate guess_dind_data accepted is with main, in the ring,     *)
(* with a worker, dumped, or was refused by enqueue, at every moment of    *)
(* every interleaving and with every environment fault.                    *)
(***************************************************************************)
THEOREM NothingForgotten == Spec => []NoDindForgotten
  BY PlacesCorrect, PTL

(***************************************************************************)
(* A worker leaves only when the scan is over and the ring empty, so that  *)
(* after pthread_join everything enqueue accepted has been dumped, if any  *)
(* thread was created at all.                                              *)
(***************************************************************************)
THEOREM Drained == Spec => []DrainedAtExit
<1>1. ASSUME OrderInv, NoDindForgotten
      PROVE  DrainedAtExit
  <2>1. ASSUME mainPc = "done", NEW w \in Workers, pc[w] = "exit"
        PROVE  found = dumped \cup dropped
    <3>1. MainHand = {}
      BY <2>1 DEF MainHand
    <3>2. Queued = {}
      <4>1. size = 0
        BY <1>1, <2>1 DEF OrderInv, ExitInv
      <4>2. 0 .. size - 1 = {}
        BY <4>1
      <4>3. QED
        BY <4>2 DEF Queued
    <3>3. InHand = {}
      BY <1>1, <2>1 DEF OrderInv, ExitInv, InHand, Hand, Holds
    <3>4. QED
      BY <1>1, <3>1, <3>2, <3>3 DEF NoDindForgotten
  <2>2. QED
    BY <1>1, <2>1 DEF DrainedAtExit, OrderInv, ExitInv
<1>2. QED
  BY <1>1, PlacesCorrect, PTL

-----------------------------------------------------------------------------
(* The refinement of DindWork                                              *)

\* The ring seen as a sequence.
ContentsIsRing ==
  /\ Contents \in Seq(Nat) /\ Len(Contents) = size /\ size \in Nat
  /\ \A i \in 1 .. size : Contents[i] = At(i - 1)

LEMMA ContentsSeq == RingTypeOK => ContentsIsRing
<1> SUFFICES ASSUME RingTypeOK
             PROVE  ContentsIsRing
  OBVIOUS
<1>1. size \in Nat /\ \A i \in 1 .. size : i - 1 \in 0 .. MAX_QUEUED_NUM
  BY CapacityAssumption DEF RingTypeOK
<1>2. \A i \in 1 .. size : At(i - 1) \in Nat
  BY <1>1, AtType
<1>3. Contents \in [1 .. size -> Nat] /\ \A i \in 1 .. size : Contents[i] = At(i - 1)
  BY <1>2 DEF Contents
<1>4. Contents \in Seq(Nat)
  BY <1>1, <1>3, SeqDef
<1>5. Len(Contents) = size
  BY <1>1, <1>3, <1>4, LenProperties
<1>6. QED
  BY <1>1, <1>3, <1>4, <1>5 DEF ContentsIsRing

\* On the abstract queue enqueue is Append.
LEMMA EnqueueIsAppend ==
  ASSUME RingTypeOK, RingShape, NEW b \in Nat, ~ EnqueueRefused, enqueue(b)
  PROVE  Contents' = Append(Contents, b)
<1>1. RingTypeOK'
  BY EnqueueType
<1>2. /\ Contents \in Seq(Nat) /\ Len(Contents) = size /\ size \in Nat
      /\ \A i \in 1 .. size : Contents[i] = At(i - 1)
  BY ContentsSeq DEF ContentsIsRing
<1>3. /\ Contents' \in Seq(Nat) /\ Len(Contents)' = size'
      /\ \A i \in 1 .. size' : Contents'[i] = At(i - 1)'
  <2>1. ContentsIsRing'
    BY <1>1, ContentsSeq, PTL
  <2>2. QED
    BY <2>1 DEF ContentsIsRing
<1>4. size' = size + 1 /\ \A k \in 0 .. size : At(k)' = IF k < size THEN At(k) ELSE b
  BY EnqueueAppends
<1>5. ASSUME NEW i \in 1 .. size'
      PROVE  Contents'[i] = IF i <= size THEN Contents[i] ELSE b
  <2>1. i - 1 \in 0 .. size /\ (i - 1 < size <=> i <= size)
    BY <1>2, <1>4, <1>5
  <2>2. At(i - 1)' = IF i - 1 < size THEN At(i - 1) ELSE b
    BY <1>4, <2>1
  <2>3. QED
    BY <1>2, <1>3, <1>5, <2>1, <2>2
<1>6. QED
  BY <1>2, <1>3, <1>4, <1>5, AppendProperties, SeqEqual

\* dequeue is Head and Tail.
LEMMA DequeueIsTail ==
  ASSUME RingTypeOK, RingShape, size # 0, dequeue
  PROVE  Contents # <<>> /\ DequeuedBlock = Head(Contents) /\ Contents' = Tail(Contents)
<1>1. RingTypeOK'
  BY DequeueType
<1>2. /\ Contents \in Seq(Nat) /\ Len(Contents) = size /\ size \in Nat
      /\ \A i \in 1 .. size : Contents[i] = At(i - 1)
  BY ContentsSeq DEF ContentsIsRing
<1>3. /\ Contents' \in Seq(Nat) /\ Len(Contents)' = size'
      /\ \A i \in 1 .. size' : Contents'[i] = At(i - 1)'
  <2>1. ContentsIsRing'
    BY <1>1, ContentsSeq, PTL
  <2>2. QED
    BY <2>1 DEF ContentsIsRing
<1>4. /\ size' = size - 1 /\ DequeuedBlock = At(0)
      /\ \A k \in 0 .. size - 2 : At(k)' = At(k + 1)
  BY DequeueShifts
<1>5. Contents # <<>> /\ Head(Contents) = Contents[1]
  BY <1>2
<1>6. DequeuedBlock = Head(Contents)
  BY <1>2, <1>4, <1>5
<1>7. ASSUME NEW i \in 1 .. size'
      PROVE  Contents'[i] = Contents[i + 1]
  <2>1. i - 1 \in 0 .. size - 2 /\ (i - 1) + 1 = (i + 1) - 1 /\ i + 1 \in 1 .. size
    BY <1>2, <1>4, <1>7
  <2>2. At(i - 1)' = At((i - 1) + 1)
    BY <1>4, <2>1
  <2>3. QED
    BY <1>2, <1>3, <1>7, <2>1, <2>2
<1>8. /\ Tail(Contents) \in Seq(Nat) /\ Len(Tail(Contents)) = size'
      /\ \A i \in 1 .. size' : Tail(Contents)[i] = Contents[i + 1]
  BY <1>2, <1>4, <1>5, HeadTailProperties
<1>9. Contents' = Tail(Contents)
  BY <1>3, <1>7, <1>8, SeqEqual
<1>10. QED
  BY <1>5, <1>6, <1>9

\* The state of the abstract pipeline, as one value.
Abstract == <<Frontier, Contents, [w \in Workers |-> Hand(w)], dumped, dropped>>

\* A step that changes no variable of the pipeline the abstract one can see.
LEMMA WorkQuiet ==
  ASSUME UNCHANGED <<ring, blk_no, dumped, dropped>>,
         \A w \in Workers : Holds(w)' <=> Holds(w)
  PROVE  /\ Contents' = Contents /\ dumped' = dumped /\ dropped' = dropped
         /\ [w \in Workers |-> Hand(w)]' = [w \in Workers |-> Hand(w)]
<1>1. \A k : At(k)' = At(k)
  BY DEF At, ring
<1>2. Contents' = Contents
  BY <1>1 DEF Contents, ring
<1>3. \A w \in Workers : Hand(w)' = Hand(w)
  BY DEF Hand
<1>4. QED
  BY <1>2, <1>3

\* While main looks at a block, the block is one of those to be scanned.
LEMMA ScansBlocks ==
  ASSUME OrderInv, mainPc \in {"guess", "check", "woken"}
  PROVE  next_block \in Blocks /\ Frontier = next_block
BY PipelineAssumption DEF OrderInv, TypeOK, ExitInv, ScanOrder, Blocks, Frontier

\* Main's critical section queues the block, or loses it to a full ring.
LEMMA WorkEnqueue ==
  ASSUME OrderInv, MainEnqueue, mainPc \in {"check", "woken"}
  PROVE  Work!Next
<1>1. /\ next_block \in Blocks /\ Frontier = next_block /\ next_block \in Nat
      /\ RingTypeOK /\ RingShape /\ Len(Contents) = size /\ size \in 0 .. MAX_QUEUED_NUM
  BY ScansBlocks, ContentsSeq DEF OrderInv, TypeOK, ScanOrder, ContentsIsRing, RingTypeOK
<1>2. Frontier' = next_block + 1 /\ dumped' = dumped /\ blk_no' = blk_no
      /\ \A w \in Workers : Holds(w)' <=> Holds(w)
  BY DEF MainEnqueue, workerVars, Frontier, Holds
<1>3. [w \in Workers |-> Hand(w)]' = [w \in Workers |-> Hand(w)]
  <2>1. \A w \in Workers : Hand(w)' = Hand(w)
    BY <1>2 DEF Hand
  <2>2. QED
    BY <2>1
<1>4. CASE EnqueueRefused
  <2>1. UNCHANGED ring /\ dropped' = dropped \cup {next_block}
    BY <1>4 DEF MainEnqueue, enqueue
  <2>2. Contents' = Contents
    <3>1. \A k : At(k)' = At(k)
      BY <2>1 DEF At, ring
    <3>2. QED
      BY <2>1, <3>1 DEF Contents, ring
  <2>3. Work!Lose(next_block)
    BY <1>1, <1>2, <1>3, <1>4, <2>1, <2>2 DEF Work!Lose, EnqueueRefused
  <2>4. QED
    BY <1>1, <2>3 DEF Work!Next
<1>5. CASE ~ EnqueueRefused
  <2>1. dropped' = dropped /\ Contents' = Append(Contents, next_block)
    BY <1>1, <1>5, EnqueueIsAppend DEF MainEnqueue
  <2>2. Len(Contents) < MAX_QUEUED_NUM
    BY <1>1, <1>5, CapacityAssumption DEF EnqueueRefused
  <2>3. Work!Queue(next_block)
    BY <1>1, <1>2, <1>3, <2>1, <2>2 DEF Work!Queue
  <2>4. QED
    BY <1>1, <2>3 DEF Work!Next
<1>6. QED
  BY <1>4, <1>5

\* A worker's critical section with a block in the ring hands it the oldest.
LEMMA WorkTake ==
  ASSUME OrderInv, NEW w \in Workers, WorkerTakes(w)
  PROVE  Work!Next
<1>1. /\ RingTypeOK /\ RingShape /\ size # 0 /\ dequeue /\ pc[w] = "check"
      /\ Frontier' = Frontier /\ dumped' = dumped /\ dropped' = dropped
  BY DEF OrderInv, TypeOK, ScanOrder, WorkerTakes, queue_empty, mainVars, Frontier
<1>2. Contents # <<>> /\ DequeuedBlock = Head(Contents) /\ Contents' = Tail(Contents)
  BY <1>1, DequeueIsTail
<1>3. /\ ~ Holds(w) /\ Holds(w)' /\ blk_no'[w] = Head(Contents)
      /\ \A v \in Workers \ {w} : (Holds(v)' <=> Holds(v)) /\ blk_no'[v] = blk_no[v]
  BY <1>1, <1>2 DEF WorkerTakes, Holds, OrderInv, TypeOK
<1>4. /\ Hand(w) = {} /\ Hand(w)' = {Head(Contents)}
      /\ \A v \in Workers \ {w} : Hand(v)' = Hand(v)
  BY <1>3 DEF Hand
<1>5. [v \in Workers |-> Hand(v)]' = [[v \in Workers |-> Hand(v)] EXCEPT ![w] = {Head(Contents)}]
  BY <1>4
<1>6. Work!Take(w)
  BY <1>1, <1>2, <1>4, <1>5 DEF Work!Take
<1>7. QED
  BY <1>6 DEF Work!Next

\* dump_dind_data finishes with the worker's block.
LEMMA WorkDump ==
  ASSUME OrderInv, NEW w \in Workers, WorkerDumps(w)
  PROVE  Work!Next
<1>1. /\ UNCHANGED <<ring, dropped, blk_no>> /\ Frontier' = Frontier
      /\ dumped' = dumped \cup {blk_no[w]}
      /\ Holds(w) /\ ~ Holds(w)' /\ \A v \in Workers \ {w} : Holds(v)' <=> Holds(v)
  BY DEF OrderInv, TypeOK, DumpsTaken, WorkerDumps, mainVars, Frontier, Holds
<1>2. Contents' = Contents
  <2>1. \A k : At(k)' = At(k)
    BY <1>1 DEF At, ring
  <2>2. QED
    BY <1>1, <2>1 DEF Contents, ring
<1>3. /\ Hand(w) = {blk_no[w]} /\ Hand(w)' = {}
      /\ \A v \in Workers \ {w} : Hand(v)' = Hand(v)
  BY <1>1 DEF Hand
<1>4. [v \in Workers |-> Hand(v)]' = [[v \in Workers |-> Hand(v)] EXCEPT ![w] = {}]
  BY <1>3
<1>5. Work!Finish(w)
  BY <1>1, <1>2, <1>3, <1>4 DEF Work!Finish
<1>6. QED
  BY <1>5 DEF Work!Next

LEMMA WorkStep == OrderInv /\ [Next]_vars => [Work!Next]_(Work!workVars)
<1> SUFFICES ASSUME OrderInv, [Next]_vars
             PROVE  Work!Next \/ UNCHANGED Abstract
  BY DEF Abstract, Work!workVars
<1> DEFINE Quiet == /\ UNCHANGED <<ring, blk_no, dumped, dropped>>
                    /\ \A w \in Workers : Holds(w)' <=> Holds(w)
<1>1. CASE GuessDind
  <2>1. Quiet /\ mainPc = "guess" /\ next_block' = next_block
    BY <1>1 DEF GuessDind, workerVars, Holds
  <2>2. next_block \in Blocks /\ Frontier = next_block /\ next_block \in Nat
    BY <2>1, ScansBlocks DEF OrderInv, TypeOK
  <2>3. Frontier' \in {next_block, next_block + 1}
    BY <2>1, <1>1 DEF GuessDind, Frontier
  <2>4. CASE Frontier' = next_block
    BY <2>1, <2>2, <2>4, WorkQuiet DEF Abstract
  <2>5. CASE Frontier' = next_block + 1
    <3>1. Work!Pass(next_block)
      BY <2>1, <2>2, <2>5, WorkQuiet DEF Work!Pass
    <3>2. QED
      BY <2>2, <3>1 DEF Work!Next
  <2>6. QED
    BY <2>3, <2>4, <2>5
<1>2. CASE ReadChunk \/ MainLock \/ MainWaits \/ MainRelock \/ MainUnlock
           \/ Advance \/ JoinThreads \/ MainFault
  <2>1. Quiet
    BY <1>2 DEF ReadChunk, MainLock, MainWaits, MainRelock, MainUnlock, Advance,
              JoinThreads, MainFault, ReadFails, SpuriousWakeup, JoinAbsent,
              workerVars, Holds
  <2>2. Frontier' = Frontier
    BY <1>2 DEF ReadChunk, MainLock, MainWaits, MainRelock, MainUnlock, Advance,
              JoinThreads, MainFault, ReadFails, SpuriousWakeup, JoinAbsent, Frontier
  <2>3. QED
    BY <2>1, <2>2, WorkQuiet DEF Abstract
<1>3. CASE MainQueues \/ MainQueuesWoken
  BY <1>3, WorkEnqueue DEF MainQueues, MainQueuesWoken
<1>4. ASSUME NEW w \in Workers,
             CreateThread(w) \/ WorkerLock(w) \/ WorkerExits(w) \/ WorkerFindsNothing(w)
               \/ WorkerSignals(w) \/ WorkerSleeps(w)
      PROVE  UNCHANGED Abstract
  <2>1. Quiet
    BY <1>4 DEF CreateThread, WorkerLock, WorkerExits, WorkerFindsNothing, WorkerSignals,
              WorkerSleeps, mainVars, Holds, OrderInv, TypeOK
  <2>2. Frontier' = Frontier
    BY <1>4 DEF CreateThread, WorkerLock, WorkerExits, WorkerFindsNothing, WorkerSignals,
              WorkerSleeps, mainVars, Frontier
  <2>3. QED
    BY <2>1, <2>2, WorkQuiet DEF Abstract
<1>5. CASE UNCHANGED vars
  <2>1. Quiet /\ Frontier' = Frontier
    BY <1>5 DEF vars, mainVars, workerVars, Holds, Frontier
  <2>2. QED
    BY <2>1, WorkQuiet DEF Abstract
<1>6. QED
  BY <1>1, <1>2, <1>3, <1>4, <1>5, WorkTake, WorkDump DEF Next, MainStep, WorkerNext

LEMMA WorkInit == Init => Work!Init
<1> SUFFICES ASSUME Init
             PROVE  Work!Init
  OBVIOUS
<1>1. Frontier = GROUP0_DATA_START /\ \A b \in Blocks : Frontier <= b
  BY DEF Init, Frontier, Blocks
<1>2. Contents = <<>>
  <2>1. RingTypeOK
    BY TypeInit DEF TypeOK
  <2>2. Len(Contents) = 0 /\ Contents \in Seq(Nat)
    BY <2>1, ContentsSeq DEF ContentsIsRing, Init, RingInit
  <2>3. QED
    BY <2>2, EmptySeq
<1>3. \A w \in Workers : Hand(w) = {}
  BY DEF Init, Hand, Holds
<1>4. QED
  BY <1>1, <1>2, <1>3, PipelineAssumption DEF Work!Init, Init

(***************************************************************************)
(* The threads of guess_inode.c, with their mutex, ring and flags,         *)
(* implement DindWork: whatever the interleaving, candidates go through    *)
(* one queue in the order of the scan, to one worker each, are dumped      *)
(* once, and are lost only when enqueue finds the ring full.               *)
(***************************************************************************)
THEOREM ImplementsDindWork == Spec => WorkSpec
<1>1. Init => Work!Init
  BY WorkInit
<1>2. OrderInv /\ [Next]_vars => [Work!Next]_(Work!workVars)
  BY WorkStep
<1>3. QED
  BY <1>1, <1>2, OrderCorrect, PTL DEF Spec, WorkSpec, Work!Spec

=============================================================================
