-------------------------- MODULE GuessDindProofs --------------------------
(***************************************************************************)
(* guess_dind_data computes LooksLikeDind, for every block size, window    *)
(* and limit, and whatever words follow the block in memory.               *)
(***************************************************************************)
EXTENDS GuessDind, FiniteSetTheorems, TLAPS

-----------------------------------------------------------------------------
(* Counting descents                                                       *)

LEMMA DescentsFinite ==
  ASSUME NEW n \in Nat
  PROVE  IsFiniteSet(Descents(n)) /\ Cardinality(Descents(n)) \in Nat
<1>1. IsFiniteSet(0 .. n - 1)
  BY FS_Interval
<1>2. Descents(n) \in SUBSET (0 .. n - 1)
  BY DEF Descents
<1>3. QED
  BY <1>1, <1>2, FS_Subset, FS_CardinalityType

LEMMA NoDescents == Cardinality(Descents(0)) = 0
<1>1. Descents(0) = {}
  BY DEF Descents
<1>2. QED
  BY <1>1, FS_EmptySet

\* One more word adds at most itself.
LEMMA DescentsStep ==
  ASSUME NEW n \in Nat
  PROVE  Cardinality(Descents(n + 1)) =
           IF n > 0 /\ mem[n] <= mem[n - 1] THEN Cardinality(Descents(n)) + 1
                                            ELSE Cardinality(Descents(n))
<1>1. CASE n > 0 /\ mem[n] <= mem[n - 1]
  <2>1. Descents(n + 1) = Descents(n) \cup {n}
    BY <1>1 DEF Descents
  <2>2. n \notin Descents(n)
    BY DEF Descents
  <2>3. QED
    BY <1>1, <2>1, <2>2, DescentsFinite, FS_AddElement
<1>2. CASE ~ (n > 0 /\ mem[n] <= mem[n - 1])
  <2>1. Descents(n + 1) = Descents(n)
    BY <1>2 DEF Descents
  <2>2. QED
    BY <1>2, <2>1
<1>3. QED
  BY <1>1, <1>2

\* A longer list has no fewer descents.
LEMMA DescentsMonotonic ==
  ASSUME NEW m \in Nat, NEW n \in Nat, m <= n
  PROVE  Cardinality(Descents(m)) <= Cardinality(Descents(n))
<1>1. Descents(m) \in SUBSET Descents(n)
  BY DEF Descents
<1>2. QED
  BY <1>1, DescentsFinite, FS_Subset

-----------------------------------------------------------------------------
(* Types                                                                   *)

LEMMA TypeInit == Init => TypeOK
  BY GuessAssumption DEF Init, TypeOK

LEMMA TypeStep == TypeOK /\ [Next]_vars => TypeOK'
<1> SUFFICES ASSUME TypeOK, [Next]_vars
             PROVE  TypeOK'
  OBVIOUS
<1> USE GuessAssumption DEF TypeOK, Answer
<1>1. CASE CompareWindow
  BY <1>1 DEF CompareWindow
<1>2. CASE EndOfList
  BY <1>2 DEF EndOfList
<1>3. CASE TooSmall
  BY <1>3 DEF TooSmall
<1>4. CASE NoBlockNumber
  BY <1>4 DEF NoBlockNumber
<1>5. CASE CountWord
  <2>1. mem[i] \in Nat
    <3>1. i \in Block
      BY <1>5 DEF CountWord, Turn, Block
    <3>2. QED
      BY <3>1
  <2>2. QED
    BY <1>5, <2>1 DEF CountWord, Turn, ExceedsMaxBlocks
<1>6. CASE UNCHANGED vars
  BY <1>6 DEF vars
<1>7. QED
  BY <1>1, <1>2, <1>3, <1>4, <1>5, <1>6 DEF Next

-----------------------------------------------------------------------------
(* The loop invariant                                                      *)

LEMMA LoopInit == Init => LoopInv
  BY NoDescents, GuessAssumption DEF Init, LoopInv

\* A word that cannot be in the list, and does not end it, spoils every list.
LEMMA SpoiltList ==
  ASSUME TypeOK, LoopInv, Turn,
         \A n \in i + 1 .. WORDS : DIND_MIN_OFFSET <= n => ~ IsList(n),
         mem[i] # 0 \/ i < DIND_MIN_OFFSET
  PROVE  ~ LooksLikeDind
<1> SUFFICES ASSUME NEW n \in DIND_MIN_OFFSET .. WORDS, IsList(n)
             PROVE  FALSE
  BY DEF LooksLikeDind
<1>1. n \in Nat /\ n >= DIND_MIN_OFFSET /\ n <= WORDS /\ i \in Nat /\ i < WORDS /\ pc = "loop"
  BY GuessAssumption DEF TypeOK, Turn
<1>2. n < WORDS => mem[n] = 0
  BY DEF IsList
<1>3. CASE n > i
  BY <1>1, <1>3
<1>4. CASE n = i
  BY <1>1, <1>2, <1>4, GuessAssumption
<1>5. CASE n < i
  <2>1. \A k \in 0 .. i - 1 : mem[k] \in 1 .. MAX_BLOCKS
    BY <1>1 DEF LoopInv
  <2>2. n \in 0 .. i - 1
    BY <1>1, <1>5, GuessAssumption
  <2>3. mem[n] \in 1 .. MAX_BLOCKS
    BY <2>1, <2>2
  <2>4. QED
    BY <1>1, <1>2, <1>5, <2>3, GuessAssumption
<1>6. QED
  BY <1>1, <1>3, <1>4, <1>5

LEMMA LoopStep == TypeOK /\ LoopInv /\ [Next]_vars => LoopInv'
<1> SUFFICES ASSUME TypeOK, LoopInv, [Next]_vars
             PROVE  LoopInv'
  OBVIOUS
<1> USE GuessAssumption
<1>m. mem' = mem
  BY DEF Next, CompareWindow, EndOfList, TooSmall, NoBlockNumber, CountWord, Answer, vars
<1>d. (\A n : Descents(n)' = Descents(n) /\ (IsList(n)' <=> IsList(n)))
      /\ (LooksLikeDind' <=> LooksLikeDind)
  BY <1>m DEF Descents, IsList, LooksLikeDind
<1>1. CASE CompareWindow
  BY <1>1, <1>m, <1>d DEF CompareWindow, Answer, LoopInv, LooksLikeDind
<1>2. CASE EndOfList
  <2>1. i >= DIND_MIN_OFFSET /\ IsList(i)
    BY <1>2 DEF EndOfList, IsList, LoopInv, TypeOK
  <2>2. QED
    BY <1>2, <1>m, <1>d, <2>1 DEF EndOfList, Answer, LoopInv
<1>3. CASE TooSmall
  <2>1. \A n \in i + 1 .. WORDS : ~ IsList(n)
    BY <1>3 DEF TooSmall, Turn, IsList, TypeOK
  <2>2. ~ LooksLikeDind
    BY <1>3, <2>1, SpoiltList DEF TooSmall
  <2>3. QED
    BY <1>3, <1>m, <1>d, <2>2 DEF TooSmall, Answer, LoopInv
<1>4. CASE NoBlockNumber
  <2>1. \A n \in i + 1 .. WORDS : ~ IsList(n)
    BY <1>4 DEF NoBlockNumber, ExceedsMaxBlocks, Turn, IsList, TypeOK
  <2>2. ~ LooksLikeDind
    BY <1>4, <2>1, SpoiltList DEF NoBlockNumber
  <2>3. QED
    BY <1>4, <1>m, <1>d, <2>2 DEF NoBlockNumber, Answer, LoopInv
<1>5. CASE CountWord
  <2>1. mem[i] \in 1 .. MAX_BLOCKS /\ i \in Nat /\ i < WORDS /\ pc = "loop"
    <3>1. i \in Nat /\ i < WORDS /\ pc = "loop" /\ i \in Block
      BY <1>5 DEF CountWord, Turn, TypeOK, Block
    <3>2. mem[i] \in Nat
      BY <3>1 DEF TypeOK
    <3>3. QED
      BY <1>5, <3>1, <3>2 DEF CountWord, ExceedsMaxBlocks
  <2>2. bad_cnt' = Cardinality(Descents(i + 1))
    <3>1. bad_cnt = Cardinality(Descents(i)) /\ pre_num = IF i = 0 THEN 0 ELSE mem[i - 1]
      BY <2>1 DEF LoopInv
    <3>2. i > 0 => mem[i - 1] \in Nat
      BY <2>1 DEF LoopInv
    <3>3. QED
      BY <1>5, <2>1, <3>1, <3>2, DescentsStep DEF CountWord
  <2>3. CASE bad_cnt' > BAD_LIMIT
    <3>1. \A n \in i + 1 .. WORDS : Cardinality(Descents(n)) > BAD_LIMIT
      BY <2>1, <2>2, <2>3, DescentsMonotonic, DescentsFinite
    <3>2. ~ LooksLikeDind
      <4> SUFFICES ASSUME NEW n \in DIND_MIN_OFFSET .. WORDS, IsList(n),
                          Cardinality(Descents(n)) <= BAD_LIMIT
                   PROVE  FALSE
        BY DEF LooksLikeDind
      <4>1. n \in Nat /\ Cardinality(Descents(n)) \in Nat
        BY DescentsFinite
      <4>2. CASE n > i
        BY <2>1, <3>1, <4>1, <4>2
      <4>3. CASE n <= i
        BY <2>1, <4>1, <4>3 DEF IsList, LoopInv
      <4>4. QED
        BY <2>1, <4>1, <4>2, <4>3
    <3>3. QED
      BY <1>5, <2>3, <1>m, <1>d, <3>2 DEF CountWord, LoopInv
  <2>4. CASE ~ (bad_cnt' > BAD_LIMIT)
    <3>1. pc' = "loop" /\ i' = i + 1 /\ pre_num' = mem[i]
      BY <1>5, <2>1, <2>4 DEF CountWord
    <3>2. \A k \in 0 .. i' - 1 : mem[k] \in 1 .. MAX_BLOCKS
      BY <2>1, <3>1 DEF LoopInv
    <3>3. bad_cnt' = Cardinality(Descents(i')) /\ bad_cnt' <= BAD_LIMIT
      <4>1. Cardinality(Descents(i + 1)) \in Nat
        BY <2>1, DescentsFinite
      <4>2. QED
        BY <2>2, <2>4, <3>1, <4>1
    <3>4. \A k \in Window : mem[k] = 0
      BY <2>1 DEF LoopInv
    <3>5. QED
      BY <1>m, <1>d, <2>1, <3>1, <3>2, <3>3, <3>4 DEF LoopInv
  <2>5. QED
    BY <2>3, <2>4
<1>6. CASE UNCHANGED vars
  BY <1>6, <1>d DEF vars, LoopInv
<1>7. QED
  BY <1>1, <1>2, <1>3, <1>4, <1>5, <1>6 DEF Next

LEMMA LoopCorrect == Spec => [](TypeOK /\ LoopInv)
<1>1. TypeOK /\ LoopInv /\ [Next]_vars => (TypeOK /\ LoopInv)'
  BY TypeStep, LoopStep
<1>2. QED
  BY <1>1, TypeInit, LoopInit, PTL DEF Spec

(***************************************************************************)
(* The loop of guess_dind_data never runs past the words of the block, and *)
(* pre_num is always a number a block may have.                            *)
(***************************************************************************)
THEOREM TypeCorrect == Spec => []TypeOK
  BY LoopCorrect, PTL

(***************************************************************************)
(* guess_dind_data answers 0 for the blocks that look like a double        *)
(* indirect block, and for no others.                                      *)
(***************************************************************************)
THEOREM GuessCorrect == Spec => []VerdictIsRight
<1>1. TypeOK /\ LoopInv => VerdictIsRight
  <2> SUFFICES ASSUME TypeOK, LoopInv, pc = "accept"
               PROVE  LooksLikeDind
    BY DEF VerdictIsRight, LoopInv
  <2>1. i \in DIND_MIN_OFFSET .. WORDS /\ IsList(i)
    BY GuessAssumption DEF LoopInv, TypeOK
  <2>2. QED
    BY <2>1 DEF LoopInv, LooksLikeDind
<1>2. QED
  BY <1>1, LoopCorrect, PTL

(***************************************************************************)
(* An accepted block lists at least DIND_MIN_OFFSET and at most            *)
(* 1024 - DIND_MAX_OFFSET = 640 first level blocks.                        *)
(***************************************************************************)
THEOREM LengthBound == Spec => []AcceptedLength
<1>1. TypeOK /\ LoopInv => AcceptedLength
  <2> SUFFICES ASSUME TypeOK, LoopInv, pc = "accept"
               PROVE  i \in DIND_MIN_OFFSET .. ZeroWords /\ IsList(i)
    BY DEF AcceptedLength
  <2>1. i \in Nat /\ i >= DIND_MIN_OFFSET /\ IsList(i)
    BY DEF LoopInv, TypeOK
  <2>2. ZeroWords \in Nat /\ ZeroWords \in Window
    BY GuessAssumption DEF ZeroWords, Window
  <2>3. mem[ZeroWords] = 0
    BY <2>2 DEF LoopInv
  <2>4. ~ (ZeroWords < i)
    BY <2>1, <2>2, <2>3 DEF IsList
  <2>5. QED
    BY <2>1, <2>2, <2>4
<1>2. QED
  BY <1>1, LoopCorrect, PTL

=============================================================================
