------------------------------ MODULE DindWork ------------------------------
(***************************************************************************)
(* What the scan and dump pipeline of guess_inode.c promises, with no      *)
(* mutex, ring or program counter: candidate blocks are queued in scan     *)
(* order, each is handed to one worker in that order and dumped once, and  *)
(* a candidate is given up only when the queue is full.                    *)
(***************************************************************************)
EXTENDS Integers, Sequences

CONSTANTS Workers,   \* the dump threads
          Capacity,  \* the length of the queue
          Blocks     \* the block numbers the scan goes through

VARIABLES frontier,  \* the scan has gone through every block below this one
          fifo,      \* the queued candidates
          hand,      \* hand[w]: {} or the one block worker w is dumping
          dumped,    \* the candidates a worker is done with
          lost       \* the candidates that were refused by a full queue

workVars == <<frontier, fifo, hand, dumped, lost>>

Init ==
  /\ frontier \in Nat /\ \A b \in Blocks : frontier <= b
  /\ fifo = <<>>
  /\ hand = [w \in Workers |-> {}]
  /\ dumped = {}
  /\ lost = {}

Pass(b) ==
  /\ b >= frontier
  /\ frontier' = b + 1
  /\ UNCHANGED <<fifo, hand, dumped, lost>>

Queue(b) ==
  /\ b >= frontier
  /\ Len(fifo) < Capacity
  /\ fifo' = Append(fifo, b)
  /\ frontier' = b + 1
  /\ UNCHANGED <<hand, dumped, lost>>

Lose(b) ==
  /\ b >= frontier
  /\ Len(fifo) = Capacity
  /\ lost' = lost \cup {b}
  /\ frontier' = b + 1
  /\ UNCHANGED <<fifo, hand, dumped>>

Take(w) ==
  /\ hand[w] = {}
  /\ fifo # <<>>
  /\ hand' = [hand EXCEPT ![w] = {Head(fifo)}]
  /\ fifo' = Tail(fifo)
  /\ UNCHANGED <<frontier, dumped, lost>>

Finish(w) ==
  /\ hand[w] # {}
  /\ dumped' = dumped \cup hand[w]
  /\ hand' = [hand EXCEPT ![w] = {}]
  /\ UNCHANGED <<frontier, fifo, lost>>

Next ==
  \/ \E b \in Blocks : Pass(b) \/ Queue(b) \/ Lose(b)
  \/ \E w \in Workers : Take(w) \/ Finish(w)

Spec == Init /\ [][Next]_workVars

=============================================================================
