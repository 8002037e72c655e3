------------------------------ MODULE DindRing ------------------------------
(***************************************************************************)
(* struct dumpdind_queue of guess_inode.c: the ring buffer through which   *)
(* the scanning thread hands block numbers to the dump threads.  The       *)
(* functions below are called with queue->mutex held; the module that      *)
(* calls them models the mutex.                                            *)
(***************************************************************************)
EXTENDS Integers, Sequences

CONSTANT MAX_QUEUED_NUM      \* slots of the ring (2000 in the code)

ASSUME CapacityAssumption == MAX_QUEUED_NUM \in Nat \ {0}

VARIABLES head, tail, size,  \* queue->head, queue->tail, queue->size
          block_no           \* queue->block_no[]

ring == <<head, tail, size, block_no>>

Slots == 0 .. MAX_QUEUED_NUM - 1

RingInit ==
  /\ head = 0
  /\ tail = 0
  /\ size = 0
  /\ block_no = [s \in Slots |-> 0]

(* Operators named Bug... are what a plausible mistake would make of the   *)
(* definition that follows them; the specification does not use them.      *)

queue_full == size >= MAX_QUEUED_NUM

BugEmptyTooEarly == size <= 1

queue_empty == size = 0

\* enqueue returns -1 and changes nothing exactly when the ring is full.
EnqueueRefused == size = MAX_QUEUED_NUM

BugNoWrap(i) == i + 1

NextSlot(i) == (i + 1) % MAX_QUEUED_NUM

BugOverwrites(blkno) ==
  /\ block_no' = [block_no EXCEPT ![tail] = blkno]
  /\ tail' = NextSlot(tail)
  /\ size' = IF EnqueueRefused THEN size ELSE size + 1
  /\ UNCHANGED head

enqueue(blkno) ==
  IF EnqueueRefused
  THEN UNCHANGED ring
  ELSE /\ block_no' = [block_no EXCEPT ![tail] = blkno]
       /\ tail' = NextSlot(tail)
       /\ size' = size + 1
       /\ UNCHANGED head

BugNewestFirst == block_no[(tail + MAX_QUEUED_NUM - 1) % MAX_QUEUED_NUM]

\* What dequeue stores through its out parameter.
DequeuedBlock == block_no[head]

BugHeadStays ==
  /\ size' = size - 1
  /\ UNCHANGED <<head, tail, block_no>>

\* dequeue returns -1 and changes nothing when the ring is empty.
dequeue ==
  IF size = 0
  THEN UNCHANGED ring
  ELSE /\ head' = NextSlot(head)
       /\ size' = size - 1
       /\ UNCHANGED <<tail, block_no>>

-----------------------------------------------------------------------------

\* The i-th queued block number, counted from the head.
At(i) == block_no[(head + i) % MAX_QUEUED_NUM]

\* The queue as a sequence, oldest entry first.
Contents == [i \in 1 .. size |-> At(i - 1)]

Queued == {At(i) : i \in 0 .. size - 1}

RingTypeOK ==
  /\ head \in Slots
  /\ tail \in Slots
  /\ size \in 0 .. MAX_QUEUED_NUM
  /\ block_no \in [Slots -> Nat]

\* tail is always size slots ahead of head.
RingShape == tail = (head + size) % MAX_QUEUED_NUM

=============================================================================
