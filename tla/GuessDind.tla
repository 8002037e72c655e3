----------------------------- MODULE GuessDind -----------------------------
(***************************************************************************)
(* guess_dind_data of guess_inode.c: does a disk block look like the       *)
(* double indirect block of a large file, that is, like an ascending list  *)
(* of block numbers that ends in zeros?                                    *)
(*                                                                         *)
(* The function gets a pointer into the 4 MB buffer of main and reads the  *)
(* words from there on.  mem is what it sees: the words of the block, then *)
(* the words that follow it in memory, which belong to the next block, or  *)
(* to nobody when the block is the last one of the buffer, and are left    *)
(* open.                                                                   *)
(***************************************************************************)
EXTENDS Integers, FiniteSets

CONSTANTS WORDS,            \* BLK_SIZE / sizeof(uint32_t), 1024
          DIND_MIN_OFFSET,  \* 30
          DIND_MAX_OFFSET,  \* 384
          MAX_BLOCKS,       \* 122095999
          BAD_LIMIT,        \* 10
          Values            \* the words that memory may hold

ASSUME GuessAssumption ==
  /\ WORDS \in Nat
  /\ DIND_MIN_OFFSET \in Nat \ {0}
  /\ DIND_MAX_OFFSET \in Nat
  /\ DIND_MIN_OFFSET <= WORDS - DIND_MAX_OFFSET
  /\ DIND_MAX_OFFSET > 0
  /\ MAX_BLOCKS \in Nat
  /\ BAD_LIMIT \in Nat
  /\ 0 \in Values /\ Values \subseteq Nat

\* sizeof(zero_buf) in words: both where the compared bytes start and how many there are.
ZeroWords == WORDS - DIND_MAX_OFFSET

\* The words memcmp compares with zero_buf.
Window == ZeroWords .. 2 * ZeroWords - 1

Block == 0 .. WORDS - 1

VARIABLES mem,                  \* the words from the start of the block on
          i, pre_num, bad_cnt,  \* locals
          pc                    \* "window", "loop", or the verdict

vars == <<mem, i, pre_num, bad_cnt, pc>>

Init ==
  /\ mem \in [Block \cup Window -> Values]
  /\ i = 0
  /\ pre_num = 0
  /\ bad_cnt = 0
  /\ pc = "window"

Answer(verdict) ==
  /\ pc' = verdict
  /\ UNCHANGED <<mem, i, pre_num, bad_cnt>>

CompareWindow ==
  /\ pc = "window"
  /\ Answer(IF \A k \in Window : mem[k] = 0 THEN "loop" ELSE "reject")

\* The turn of the for loop with counter i.
Turn == pc = "loop" /\ i < WORDS

BugExceeds == mem[i] > MAX_BLOCKS + 1

ExceedsMaxBlocks == mem[i] > MAX_BLOCKS

BugEndOfList ==
  /\ pc = "loop"
  /\ i < WORDS => mem[i] = 0
  /\ Answer("accept")

\* A zero, or the end of the block, ends the list of block numbers ...
EndOfList ==
  /\ pc = "loop"
  /\ i < WORDS => mem[i] = 0 /\ i >= DIND_MIN_OFFSET
  /\ Answer("accept")

\* ... or there are too few of them.
TooSmall ==
  /\ Turn
  /\ mem[i] = 0 /\ i < DIND_MIN_OFFSET
  /\ Answer("reject")

NoBlockNumber ==
  /\ Turn
  /\ mem[i] # 0 /\ ExceedsMaxBlocks
  /\ Answer("reject")

\* One more word of the list; good_cnt and cost are computed and never used.
CountWord ==
  /\ Turn
  /\ mem[i] # 0 /\ ~ ExceedsMaxBlocks
  /\ bad_cnt' = IF mem[i] > pre_num THEN bad_cnt ELSE bad_cnt + 1
  /\ IF bad_cnt' > BAD_LIMIT
     THEN /\ pc' = "reject"
          /\ UNCHANGED <<i, pre_num>>
     ELSE /\ pre_num' = mem[i]
          /\ i' = i + 1
          /\ UNCHANGED pc
  /\ UNCHANGED mem

Next == CompareWindow \/ EndOfList \/ TooSmall \/ NoBlockNumber \/ CountWord

Spec == Init /\ [][Next]_vars

-----------------------------------------------------------------------------
(* Properties                                                              *)

\* The counter stays in the block, and what it has passed are block numbers.
TypeOK ==
  /\ mem \in [Block \cup Window -> Values]
  /\ i \in 0 .. WORDS
  /\ pre_num \in 0 .. MAX_BLOCKS
  /\ bad_cnt \in Nat
  /\ pc \in {"window", "loop", "accept", "reject"}

\* The descents among the first n words: a word not above the one before it.
Descents(n) == {k \in 0 .. n - 1 : k > 0 /\ mem[k] <= mem[k - 1]}

\* The first n words are block numbers, and the list of them ends there.
IsList(n) ==
  /\ \A k \in 0 .. n - 1 : mem[k] \in 1 .. MAX_BLOCKS
  /\ n < WORDS => mem[n] = 0

\* What the loop computes, without the loop.
LooksLikeDind ==
  /\ \A k \in Window : mem[k] = 0
  /\ \E n \in DIND_MIN_OFFSET .. WORDS :
        IsList(n) /\ Cardinality(Descents(n)) <= BAD_LIMIT

(***************************************************************************)
(* guess_dind_data answers 0 exactly for the blocks that start with a list *)
(* of at least DIND_MIN_OFFSET block numbers, all valid, with few          *)
(* descents, and that are zero in the compared window.                     *)
(***************************************************************************)
VerdictIsRight ==
  /\ pc = "accept" => LooksLikeDind
  /\ pc = "reject" => ~ LooksLikeDind

(***************************************************************************)
(* The list of an accepted block fits in front of the window: the first    *)
(* word of the window ends it at the latest, although the window starts    *)
(* where it should have ended (its start and its length are the same       *)
(* number).                                                                *)
(***************************************************************************)
AcceptedLength ==
  pc = "accept" => \E n \in DIND_MIN_OFFSET .. ZeroWords : IsList(n)

(***************************************************************************)
(* "file size between 120M and 1.5G": an accepted block has at most        *)
(* DIND_MAX_OFFSET entries of 4 MB each.                                   *)
(***************************************************************************)
AtMostMaxOffset ==
  pc = "accept" => \E n \in DIND_MIN_OFFSET .. DIND_MAX_OFFSET : IsList(n)

-----------------------------------------------------------------------------
(* The loop invariant: what the words before the counter have been found   *)
(* to be.                                                                  *)

LoopInv ==
  /\ pc \in {"loop", "accept"} => \A k \in Window : mem[k] = 0
  /\ pc = "window" => i = 0
  /\ pc # "reject" =>
        /\ \A k \in 0 .. i - 1 : mem[k] \in 1 .. MAX_BLOCKS
        /\ pre_num = IF i = 0 THEN 0 ELSE mem[i - 1]
        /\ bad_cnt = Cardinality(Descents(i))
        /\ bad_cnt <= BAD_LIMIT
  /\ pc = "accept" => i >= DIND_MIN_OFFSET /\ IsList(i)
  /\ pc = "reject" => ~ LooksLikeDind

=============================================================================
