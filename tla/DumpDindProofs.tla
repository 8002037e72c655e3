--------------------------- MODULE DumpDindProofs ---------------------------
(***************************************************************************)
(* Proofs about DumpDind, for every disk, every number of dump threads,    *)
(* every size of the lists, every fault and every number of restarts.      *)
(***************************************************************************)
EXTENDS DumpDind, SequenceTheorems, WellFoundedInduction, TLAPS

-----------------------------------------------------------------------------
(* Positions and lengths                                                   *)

\* The constants that are numbers.
Sizes ==
  /\ WORDS \in Nat \ {0} /\ DIND_MAX_OFFSET \in 1 .. WORDS
  /\ GROUP0_DATA_START \in Nat /\ GROUP0_DATA_END \in Nat
  /\ GROUP0_DATA_START \in GROUP0_DATA_START .. GROUP0_DATA_END + 1
  /\ 0 \in 0 .. ChunkBlocks /\ 0 \in 0 .. MaxKills
  /\ ChunkBlocks \in Nat \ {0} /\ MAX_BLOCKS \in Nat /\ MaxKills \in Nat
  /\ MaxLength \in Nat

LEMMA SizesOK == Sizes
  BY DumpAssumption DEF Sizes, MaxLength

\* A set of numbers that is not empty has a least one.
LEMMA Least ==
  ASSUME NEW T \in SUBSET Nat, T # {}
  PROVE  \E x \in T : \A y \in T : x <= y
<1> DEFINE R == OpToRel(<, Nat)
<1>1. IsWellFoundedOn(R, Nat)
  BY NatLessThanWellFounded
<1>2. \A x, y \in Nat : y < x => <<y, x>> \in R
  BY DEF OpToRel
<1> HIDE DEF R
<1>3. PICK x \in T : \A y \in T : ~ (<<y, x>> \in R)
  BY <1>1, WFMin
<1>4. \A y \in T : ~ (y < x)
  BY <1>2, <1>3
<1>5. \A y \in T : x \in Nat /\ y \in Nat
  BY <1>3
<1>6. QED
  BY <1>3, <1>4, <1>5

\* The position after p whole first level blocks and q entries of the next.
LEMMA DivMod ==
  ASSUME NEW p \in Nat, NEW q \in 0 .. WORDS - 1
  PROVE  (p * WORDS + q) \div WORDS = p /\ (p * WORDS + q) % WORDS = q
<1>1. WORDS \in Nat \ {0}
  BY DumpAssumption
<1>2. p * WORDS \in Nat
  BY <1>1
<1>3. QED
  BY <1>1, <1>2

\* A position inside the lists is below MaxLength.
LEMMA PositionBound ==
  ASSUME NEW p \in 0 .. DIND_MAX_OFFSET - 1, NEW q \in 0 .. WORDS
  PROVE  /\ p * WORDS + q \in 0 .. MaxLength
         /\ q < WORDS => p * WORDS + q < MaxLength
         /\ p * WORDS + WORDS = (p + 1) * WORDS
<1>1. WORDS \in Nat /\ DIND_MAX_OFFSET \in Nat /\ p \in Nat /\ q \in Nat
  BY DumpAssumption
<1>2. p * WORDS \in Nat /\ MaxLength \in Nat
  BY <1>1 DEF MaxLength
<1>3. (p + 1) * WORDS = p * WORDS + WORDS
  BY <1>1
<1>4. (p + 1) * WORDS <= MaxLength
  BY <1>1 DEF MaxLength
<1>5. QED
  BY <1>1, <1>2, <1>3, <1>4

LEMMA DiskShape ==
  ASSUME disk \in Disks
  PROVE  /\ DiskBlocks \in Nat /\ DiskRange = 0 .. DiskBlocks - 1
         /\ \A b \in DiskRange : disk[b] \in [Words -> Nat]
  BY DumpAssumption DEF DiskBlocks, DiskRange

\* The disk does not change, and with it what the file of a block is.
LEMMA DiskStays ==
  ASSUME disk' = disk
  PROVE  /\ DiskRange' = DiskRange /\ DiskBlocks' = DiskBlocks
         /\ \A b, k : /\ FirstOf(b, k)' = FirstOf(b, k)
                      /\ DataOf(b, k)' = DataOf(b, k)
                      /\ Readable(b, k)' <=> Readable(b, k)
         /\ \A b : /\ FileLength(b)' = FileLength(b)
                   /\ LostFile(b)' = LostFile(b)
                   /\ EndsWell(b)' <=> EndsWell(b)
<1>1. DiskRange' = DiskRange /\ DiskBlocks' = DiskBlocks
  BY DEF DiskRange, DiskBlocks, BlocksOf
<1>2. \A b, k : FirstOf(b, k)' = FirstOf(b, k)
  BY <1>1 DEF FirstOf
<1>3. \A b, k : DataOf(b, k)' = DataOf(b, k)
  BY <1>2 DEF DataOf
<1>4. \A b, k : (NoFirst(b, k)' <=> NoFirst(b, k)) /\ (NoData(b, k)' <=> NoData(b, k))
  BY <1>1, <1>2, <1>3 DEF NoFirst, NoData
<1>5. \A b, l : IsLength(b, l)' <=> IsLength(b, l)
  BY <1>4 DEF IsLength
<1>6. \A b : FileLength(b)' = FileLength(b)
  BY <1>5 DEF FileLength
<1>7. \A b : LostFile(b)' = LostFile(b)
  BY <1>3, <1>6 DEF LostFile
<1>8. \A b : EndsWell(b)' <=> EndsWell(b)
  BY <1>1, <1>2, <1>3, <1>6 DEF EndsWell
<1>9. QED
  BY <1>1, <1>2, <1>3, <1>4, <1>6, <1>7, <1>8 DEF Readable

\* Every file has a length: the first position that cannot be read, or all of them.
LEMMA LengthExists ==
  ASSUME NEW b
  PROVE  /\ MaxLength \in Nat
         /\ FileLength(b) \in 0 .. MaxLength
         /\ \A k \in 0 .. FileLength(b) - 1 : Readable(b, k)
         /\ FileLength(b) < MaxLength => ~ Readable(b, FileLength(b))
<1>1. MaxLength \in Nat
  BY DumpAssumption DEF MaxLength
<1> DEFINE T == {len \in 0 .. MaxLength : len < MaxLength => ~ Readable(b, len)}
<1>2. MaxLength \in T /\ T \in SUBSET Nat
  BY <1>1
<1> HIDE DEF T
<1>3. PICK x \in T : \A y \in T : x <= y
  BY <1>2, Least
<1> USE DEF T
<1>4. \A k \in 0 .. x - 1 : Readable(b, k)
  BY <1>1, <1>3
<1>5. x \in 0 .. MaxLength /\ IsLength(b, x)
  BY <1>3, <1>4 DEF IsLength, Readable
<1>6. FileLength(b) \in 0 .. MaxLength /\ IsLength(b, FileLength(b))
  BY <1>5 DEF FileLength
<1>7. QED
  BY <1>1, <1>6 DEF IsLength, Readable

\* A readable stretch is no longer than the file; if it cannot go on it is the file.
LEMMA LengthIs ==
  ASSUME NEW b, NEW m \in 0 .. MaxLength, \A k \in 0 .. m - 1 : Readable(b, k)
  PROVE  /\ m <= FileLength(b)
         /\ (m < MaxLength => ~ Readable(b, m)) => FileLength(b) = m
<1> DEFINE L == FileLength(b)
<1>1. /\ MaxLength \in Nat /\ L \in 0 .. MaxLength
      /\ \A k \in 0 .. L - 1 : Readable(b, k)
      /\ L < MaxLength => ~ Readable(b, L)
  BY LengthExists
<1> HIDE DEF L
<1>2. m <= L
  <2>1. CASE L < m
    <3>1. L \in 0 .. m - 1 /\ L < MaxLength
      BY <1>1, <2>1
    <3>2. QED
      BY <1>1, <3>1
  <2>2. QED
    BY <1>1, <2>1
<1>3. ASSUME m < MaxLength => ~ Readable(b, m), m < L
      PROVE  FALSE
  <2>1. m \in 0 .. L - 1 /\ m < MaxLength
    BY <1>1, <1>3
  <2>2. QED
    BY <1>1, <1>3, <2>1
<1>4. QED
  BY <1>1, <1>2, <1>3 DEF L

LEMMA LostFileSeq ==
  ASSUME NEW b
  PROVE  /\ LostFile(b) \in Seq({DataOf(b, k) : k \in Nat})
         /\ Len(LostFile(b)) = FileLength(b)
         /\ \A k \in 1 .. FileLength(b) : LostFile(b)[k] = DataOf(b, k - 1)
<1> DEFINE L == FileLength(b)
           D == {DataOf(b, k) : k \in Nat}
           f == LostFile(b)
<1>1. L \in Nat
  BY LengthExists
<1>2. f = [k \in 1 .. L |-> DataOf(b, k - 1)]
  BY DEF LostFile
<1>3. \A k \in 1 .. L : k - 1 \in Nat
  BY <1>1
<1> HIDE DEF L, f
<1>4. \A k \in 1 .. L : DataOf(b, k - 1) \in D
  BY <1>3
<1> HIDE DEF D
<1>5. f \in [1 .. L -> D]
  BY <1>2, <1>4
<1>6. f \in Seq(D)
  BY <1>1, <1>5, SeqDef
<1>7. Len(f) = L
  BY <1>1, <1>5, <1>6, LenProperties
<1>8. QED
  BY <1>2, <1>6, <1>7 DEF L, f, D

\* Content that is right is the beginning of the lost file.
LEMMA RightIsPrefix ==
  ASSUME TypeOK, NEW b \in Numbers, ContentRight(b)
  PROVE  /\ Len(content[b]) <= FileLength(b)
         /\ IsPrefix(content[b], LostFile(b))
         /\ Len(content[b]) = FileLength(b) => content[b] = LostFile(b)
<1> DEFINE c == content[b]
           f == LostFile(b)
           L == FileLength(b)
           D == {DataOf(b, k) : k \in Nat}
           m == Len(c)
<1>1. c \in Seq(DiskRange) /\ m \in Nat
  BY LenProperties DEF TypeOK, SharedTypeOK
<1>2. /\ m <= MaxLength
      /\ \A k \in 0 .. m - 1 : Readable(b, k) /\ c[k + 1] = DataOf(b, k)
  BY DEF ContentRight
<1>3. MaxLength \in Nat /\ L \in Nat
  BY LengthExists
<1>4. f \in Seq(D) /\ Len(f) = L /\ \A k \in 1 .. L : f[k] = DataOf(b, k - 1)
  BY LostFileSeq
<1>5. m <= L
  <2>1. m \in 0 .. MaxLength /\ \A k \in 0 .. m - 1 : Readable(b, k)
    BY <1>1, <1>2, <1>3
  <2>2. QED
    BY <2>1, LengthIs
<1> HIDE DEF c, f, L, m, D
<1>6. \A k \in 1 .. m : c[k] = f[k] /\ c[k] \in D
  <2> TAKE k \in 1 .. m
  <2>1. k - 1 \in 0 .. m - 1 /\ (k - 1) + 1 = k /\ k \in 1 .. L /\ k \in 1 .. Len(f)
    BY <1>1, <1>3, <1>4, <1>5
  <2>2. c[(k - 1) + 1] = DataOf(b, k - 1) /\ f[k] = DataOf(b, k - 1)
    BY <1>2, <1>4, <2>1
  <2>3. f[k] \in D
    BY <1>4, <2>1, ElementOfSeq
  <2>4. QED
    BY <2>1, <2>2, <2>3
<1>7. c \in [1 .. m -> D]
  BY <1>1, <1>6, LenProperties DEF m
<1>8. c \in Seq(D)
  BY <1>1, <1>7, SeqDef
<1>9. SubSeq(c, 1, m) = SubSeq(f, 1, m)
  <2>1. \A k \in 1 .. m : c[k] \in D /\ f[k] \in D
    BY <1>6
  <2>2. /\ SubSeq(c, 1, m) \in Seq(D) /\ SubSeq(f, 1, m) \in Seq(D)
        /\ Len(SubSeq(c, 1, m)) = m /\ Len(SubSeq(f, 1, m)) = m
        /\ \A k \in 1 .. m : SubSeq(c, 1, m)[k] = c[k] /\ SubSeq(f, 1, m)[k] = f[k]
    BY <1>1, <2>1, SubSeqProperties
  <2>3. \A k \in 1 .. m : SubSeq(c, 1, m)[k] = SubSeq(f, 1, m)[k]
    BY <1>6, <2>2
  <2>4. QED
    BY <2>2, <2>3, SeqEqual
<1>10. IsPrefix(c, f)
  BY <1>4, <1>5, <1>9 DEF IsPrefix, m
<1>11. ASSUME m = L
       PROVE  c = f
  BY <1>4, <1>6, <1>8, <1>11, SeqEqual DEF m
<1>12. QED
  BY <1>5, <1>10, <1>11 DEF c, f, L, m

-----------------------------------------------------------------------------
(* Types, and where a thread is in the lists                               *)

TypeInv == TypeOK /\ JobsApart /\ ScanInv /\ PlacesOK

LEMMA InitTypes == Init => TypeInv
<1> SUFFICES ASSUME Init
             PROVE  TypeInv
  OBVIOUS
<1>1. <<>> \in Seq(DiskRange) /\ Sizes
  BY EmptySeq, SizesOK
<1>2. TypeOK
  <2>1. /\ pc \in [Threads -> {"idle", "seek", "read", "first", "second", "write"}]
        /\ level \in [Threads -> {"dind", "ind", "data"}]
        /\ result \in [Numbers -> Results]
    BY DEF Init, Fresh, Results
  <2>2. /\ job \in [Threads -> Numbers \cup {0}]
        /\ first \in [Threads -> DiskRange \cup {0}]
        /\ ind \in [Threads -> DiskRange \cup {0}]
        /\ data \in [Threads -> DiskRange \cup {0}]
        /\ i \in [Threads -> 0 .. DIND_MAX_OFFSET]
        /\ n \in [Threads -> 0 .. WORDS]
        /\ fpos \in [Threads -> 0 .. MaxLength]
    BY <1>1 DEF Init, Fresh, Sizes
  <2>3. content \in [Numbers -> Seq(DiskRange)]
    BY <1>1 DEF Init
  <2>4. ThreadTypeOK
    BY <2>1, <2>2 DEF ThreadTypeOK
  <2>5. SharedTypeOK
    <3>1. /\ disk \in Disks /\ offset = 0 /\ next_block = GROUP0_DATA_START /\ at = 0
          /\ scanPc = "seek" /\ left = 0 /\ exists = {} /\ kills = 0 /\ torn = {}
          /\ scanTorn = FALSE
      BY DEF Init
    <3>2. QED
      BY <1>1, <2>1, <2>3, <3>1 DEF SharedTypeOK, Sizes
  <2>6. QED
    BY <2>4, <2>5 DEF TypeOK
<1>3. JobsApart
  BY DEF Init, JobsApart, Working, Fresh
<1>4. ScanInv
  BY DumpAssumption DEF Init, ScanInv
<1>5. PlacesOK
  BY DEF Init, PlacesOK, PlaceOK, Phase, Fresh
<1>6. QED
  BY <1>2, <1>3, <1>4, <1>5 DEF TypeInv

\* Main is done with a block: it rejected it, or it tried to queue it.
MovesOn ==
  /\ scanPc \in {"look", "awake"}
  /\ \/ at \notin Dinds /\ result' = result
     \/ /\ at \in Dinds
        /\ \E r \in {"found", "refused"} : result' = [result EXCEPT ![next_block] = r]
  /\ NextBlock

\* Main falls asleep on the ring, or wakes up.
Naps ==
  /\ at \in Dinds
  /\ \/ scanPc = "look" /\ scanPc' = "wait"
     \/ scanPc = "wait" /\ scanPc' = "awake"
  /\ UNCHANGED <<diskVars, next_block, at, left, scanTorn, fileVars, local, kills, torn>>

LEMMA MovingOn == ScanInv /\ (ScanLook \/ ScanWoken) => MovesOn
<1> SUFFICES ASSUME ScanInv, ScanLook \/ ScanWoken
             PROVE  MovesOn
  OBVIOUS
<1>1. Enqueue => \E r \in {"found", "refused"} : result' = [result EXCEPT ![next_block] = r]
  BY DEF Enqueue
<1>2. QED
  BY <1>1 DEF MovesOn, ScanLook, ScanWoken, ScanInv

LEMMA Napping == ScanInv /\ (ScanSleeps \/ SpuriousWakeup) => Naps
  BY DEF Naps, ScanSleeps, SpuriousWakeup, ScanInv

\* A thread takes a candidate that is in the ring; if main moves, it is woken.
LEMMA Dequeued ==
  ASSUME NEW b, Dequeue(b)
  PROVE  /\ b \in Numbers /\ result[b] = "found"
         /\ scanPc' = scanPc \/ (scanPc = "wait" /\ scanPc' = "awake")
         /\ UNCHANGED <<next_block, at, left, scanTorn>>
BY DEF Dequeue, Queued

\* What one thread does leaves the place of every other alone.
LEMMA OthersStay ==
  ASSUME TypeOK, NEW t \in Threads, ThreadNext(t), NEW s \in Threads, s # t
  PROVE  /\ pc'[s] = pc[s] /\ job'[s] = job[s] /\ level'[s] = level[s]
         /\ first'[s] = first[s] /\ ind'[s] = ind[s] /\ data'[s] = data[s]
         /\ i'[s] = i[s] /\ n'[s] = n[s] /\ fpos'[s] = fpos[s]
<1> USE DEF TypeOK, ThreadTypeOK
<1>1. CASE Open(t) \/ OpenFails(t)
  BY <1>1 DEF Open, OpenFails, bufVars, local
<1>2. CASE Seek(t) \/ Read(t)
  BY <1>2 DEF Seek, Read, bufVars
<1>3. ASSUME NEW r, Return(t, r)
      PROVE  /\ pc'[s] = pc[s] /\ job'[s] = job[s] /\ level'[s] = level[s]
             /\ first'[s] = first[s] /\ ind'[s] = ind[s] /\ data'[s] = data[s]
             /\ i'[s] = i[s] /\ n'[s] = n[s] /\ fpos'[s] = fpos[s]
  BY <1>3 DEF Return, LeaveDump
<1>4. CASE \/ SeekFails(t) \/ ReadFails(t) \/ DumpEnds(t) \/ SecondStops(t)
           \/ ExceedsMaxBlocks(t) \/ WriteFails(t)
  BY <1>3, <1>4 DEF SeekFails, ReadFails, DumpEnds, SecondStops, ExceedsMaxBlocks, WriteFails
<1>5. CASE DumpFirst(t) \/ DumpData(t)
  BY <1>5 DEF DumpFirst, DumpData, Call, bufVars
<1>6. CASE SecondEnds(t) \/ Write(t)
  BY <1>6 DEF SecondEnds, Write, bufVars
<1>7. QED
  BY <1>1, <1>2, <1>4, <1>5, <1>6 DEF ThreadNext

LEMMA ReturnTypes ==
  ASSUME TypeOK, JobsApart, NEW t \in Threads, Working(t),
         NEW ret \in {"ok", "bad", "failed"}, Return(t, ret)
  PROVE  TypeOK'
<1>1. job[t] \in Numbers
  BY DEF JobsApart
<1>2. <<>> \in Seq(DiskRange) /\ MaxLength \in Nat
  BY EmptySeq, LengthExists
<1>3. disk' = disk /\ DiskRange' = DiskRange
  BY DiskStays DEF Return, LeaveDump, diskVars
<1>4. /\ exists' \subseteq Numbers
      /\ content' \in [Numbers -> Seq(DiskRange)]
      /\ result' \in [Numbers -> Results]
  BY <1>1, <1>2 DEF Return, TypeOK, SharedTypeOK, Results
<1>5. torn' \subseteq Numbers
  BY <1>1 DEF Return, LeaveDump, NoteTorn, TypeOK, SharedTypeOK
<1>6. /\ pc' \in [Threads -> {"idle", "seek", "read", "first", "second", "write"}]
      /\ job' \in [Threads -> Numbers \cup {0}]
      /\ level' \in [Threads -> {"dind", "ind", "data"}]
      /\ first' \in [Threads -> DiskRange \cup {0}]
      /\ ind' \in [Threads -> DiskRange \cup {0}]
      /\ data' \in [Threads -> DiskRange \cup {0}]
      /\ i' \in [Threads -> 0 .. DIND_MAX_OFFSET]
      /\ n' \in [Threads -> 0 .. WORDS]
      /\ fpos' \in [Threads -> 0 .. MaxLength]
  BY <1>2, DumpAssumption DEF Return, LeaveDump, TypeOK, ThreadTypeOK
<1>7. QED
  BY <1>3, <1>4, <1>5, <1>6 DEF Return, LeaveDump, diskVars, scanVars, TypeOK, SharedTypeOK, ThreadTypeOK

\* The block a thread asks for is a block number.
LEMMA TargetType ==
  ASSUME TypeOK, JobsApart, PlacesOK, NEW t \in Threads, pc[t] \in {"seek", "read"}
  PROVE  Target(t) \in Nat
<1>1. level[t] \in {"dind", "ind", "data"} /\ Phase(t) = level[t] /\ PlaceOK(t)
  BY DEF TypeOK, ThreadTypeOK, Phase, PlacesOK
<1>2. \A b \in DiskRange, w \in Words : disk[b][w] \in Nat
  BY DiskShape DEF TypeOK, SharedTypeOK
<1>3. CASE level[t] = "dind"
  BY <1>3, DumpAssumption DEF Target, JobsApart, Working, Numbers
<1>4. CASE level[t] = "ind"
  <2>1. first[t] \in DiskRange /\ i[t] \in Words
    BY <1>1, <1>4, DumpAssumption DEF PlaceOK, TypeOK, ThreadTypeOK, Words
  <2>2. QED
    BY <1>2, <1>4, <2>1 DEF Target
<1>5. CASE level[t] = "data"
  <2>1. ind[t] \in DiskRange /\ n[t] \in Words
    BY <1>1, <1>5, DumpAssumption DEF PlaceOK, TypeOK, ThreadTypeOK, Words
  <2>2. QED
    BY <1>2, <1>5, <2>1 DEF Target
<1>6. QED
  BY <1>1, <1>3, <1>4, <1>5

\* Write goes one position further and leaves a sequence of blocks.
LEMMA PutDataType ==
  ASSUME TypeInv, NEW t \in Threads, Write(t)
  PROVE  /\ content' \in [Numbers -> Seq(DiskRange)]
         /\ fpos[t] \in Nat /\ fpos[t] + 1 \in 0 .. MaxLength /\ n[t] + 1 \in 0 .. WORDS
         /\ fpos[t] + 1 = i[t] * WORDS + (n[t] + 1)
         /\ data[t] \in DiskRange /\ job[t] \in Numbers
<1>1. /\ pc[t] = "write" /\ job[t] \in Numbers /\ content[job[t]] \in Seq(DiskRange)
      /\ i[t] < DIND_MAX_OFFSET /\ n[t] < WORDS /\ fpos[t] = i[t] * WORDS + n[t]
      /\ data[t] \in DiskRange /\ i[t] \in 0 .. DIND_MAX_OFFSET /\ n[t] \in 0 .. WORDS
  BY DEF Write, TypeInv, TypeOK, SharedTypeOK, ThreadTypeOK, PlacesOK, PlaceOK, Phase, JobsApart, Working
<1>2. /\ WORDS \in Nat /\ DIND_MAX_OFFSET \in Nat
      /\ i[t] \in 0 .. DIND_MAX_OFFSET - 1 /\ n[t] \in 0 .. WORDS - 1
  BY <1>1, DumpAssumption
<1>3. fpos[t] \in Nat /\ fpos[t] < MaxLength /\ MaxLength \in Nat
  <2> DEFINE p == i[t]
             q == n[t]
  <2>1. p \in 0 .. DIND_MAX_OFFSET - 1 /\ q \in 0 .. WORDS /\ q < WORDS
    BY <1>1, <1>2
  <2>2. fpos[t] = p * WORDS + q
    BY <1>1
  <2> HIDE DEF p, q
  <2>3. p * WORDS + q \in 0 .. MaxLength /\ p * WORDS + q < MaxLength
    BY <2>1, PositionBound
  <2>4. QED
    BY <2>2, <2>3, SizesOK DEF Sizes
<1>4. i[t] * WORDS \in Nat
  BY <1>2
<1> DEFINE c == content[job[t]]
<1>5. c \in Seq(DiskRange) /\ Append(c, data[t]) \in Seq(DiskRange)
  BY <1>1, AppendProperties
<1>6. ASSUME fpos[t] < Len(c)
      PROVE  [c EXCEPT ![fpos[t] + 1] = data[t]] \in Seq(DiskRange)
  <2>1. Len(c) \in Nat
    BY <1>5, LenProperties
  <2>2. fpos[t] + 1 \in 1 .. Len(c)
    BY <1>3, <1>6, <2>1
  <2>3. QED
    BY <1>1, <1>5, <2>2, ExceptSeq
<1>7. content' \in [Numbers -> Seq(DiskRange)]
  <2>1. content \in [Numbers -> Seq(DiskRange)]
    BY DEF TypeInv, TypeOK, SharedTypeOK, ThreadTypeOK
  <2>2. content' = [content EXCEPT ![job[t]] =
                      IF fpos[t] < Len(c) THEN [c EXCEPT ![fpos[t] + 1] = data[t]]
                      ELSE Append(c, data[t])]
    BY DEF Write, PutData
  <2>3. QED
    BY <1>1, <1>5, <1>6, <2>1, <2>2
<1>8. fpos[t] + 1 = i[t] * WORDS + (n[t] + 1)
  <2>1. n[t] \in Nat
    BY <1>1
  <2>2. QED
    BY <1>1, <1>4, <2>1
<1>9. fpos[t] + 1 \in 0 .. MaxLength /\ n[t] + 1 \in 0 .. WORDS
  <2>1. fpos[t] + 1 \in 0 .. MaxLength
    BY <1>3
  <2>2. n[t] + 1 \in 0 .. WORDS
    BY <1>2
  <2>3. QED
    BY <2>1, <2>2
<1>10. QED
  BY <1>1, <1>3, <1>7, <1>8, <1>9

LEMMA SharedTypeStep == TypeInv /\ [Next]_vars => SharedTypeOK'
<1> SUFFICES ASSUME TypeInv, [Next]_vars
             PROVE  SharedTypeOK'
  OBVIOUS
<1> USE DEF Sizes
<1>1. SharedTypeOK /\ TypeOK /\ JobsApart /\ ScanInv /\ PlacesOK /\ Sizes
  BY SizesOK DEF TypeInv, TypeOK
<1>2. disk' = disk => DiskRange' = DiskRange
  BY DiskStays
<1>3. DiskBlocks \in Nat /\ DiskRange = 0 .. DiskBlocks - 1 /\ DiskRange \subseteq Nat
  BY <1>1, DiskShape DEF SharedTypeOK
<1>4. CASE ScanSeek
  BY <1>1, <1>2, <1>4 DEF ScanSeek, SharedTypeOK, scanVars, fileVars
<1>5. CASE ScanRead
  <2>1. ChunkAt(offset) \in 0 .. ChunkBlocks /\ offset \in Nat
    BY <1>1, <1>3 DEF SharedTypeOK, ChunkAt
  <2>2. QED
    BY <1>1, <1>2, <1>5, <2>1 DEF ScanRead, SharedTypeOK, fileVars
<1>6. CASE ScanLook \/ ScanWoken
  <2> USE DEF MovesOn
  <2>1. MovesOn
    BY <1>1, <1>6, MovingOn
  <2>2. /\ left \in 1 .. ChunkBlocks /\ next_block <= GROUP0_DATA_END
        /\ next_block \in Numbers
    BY <1>1, <2>1 DEF ScanInv, SharedTypeOK, Numbers
  <2>3. result' \in [Numbers -> Results]
    BY <1>1, <2>1, <2>2 DEF SharedTypeOK, Results
  <2>4. QED
    BY <1>1, <1>2, <2>1, <2>2, <2>3 DEF NextBlock, SharedTypeOK, diskVars
<1>16. CASE ScanSleeps \/ SpuriousWakeup
  BY <1>1, <1>2, <1>16, Napping DEF Naps, SharedTypeOK, diskVars, fileVars
<1>7. CASE Restart
  <2>1. kills' \in 0 .. MaxKills
    BY <1>1, <1>7 DEF Restart, SharedTypeOK
  <2>2. result' \in [Numbers -> Results]
    BY <1>7 DEF Restart, Results
  <2>3. /\ offset' = 0 /\ next_block' = GROUP0_DATA_START /\ at' = 0 /\ scanPc' = "seek"
        /\ left' = 0 /\ scanTorn' = FALSE /\ UNCHANGED <<disk, exists, content, torn>>
    BY <1>7 DEF Restart
  <2>4. QED
    BY <1>1, <1>2, <2>1, <2>2, <2>3 DEF SharedTypeOK
<1>8. ASSUME NEW t \in Threads, Open(t) \/ OpenFails(t)
      PROVE  SharedTypeOK'
  BY <1>1, <1>2, <1>8, Dequeued DEF Open, OpenFails, SharedTypeOK, Results, diskVars
<1>9. ASSUME NEW t \in Threads, Seek(t)
      PROVE  SharedTypeOK'
  <2>1. Target(t) \in Nat
    BY <1>1, <1>9, TargetType DEF Seek
  <2>2. QED
    BY <1>1, <1>2, <1>9, <2>1 DEF Seek, SharedTypeOK, scanVars, fileVars
<1>10. ASSUME NEW t \in Threads, Read(t)
       PROVE  SharedTypeOK'
  <2>1. torn' \subseteq Numbers
    BY <1>1, <1>10 DEF Read, NoteTorn, SharedTypeOK, JobsApart, Working
  <2>2. offset' \in Nat
    BY <1>1, <1>10 DEF Read, SharedTypeOK
  <2>3. QED
    BY <1>1, <1>2, <1>10, <2>1, <2>2 DEF Read, SharedTypeOK, scanVars, fileVars
<1>11. ASSUME NEW t \in Threads,
              \/ SeekFails(t) \/ ReadFails(t) \/ DumpEnds(t) \/ SecondStops(t)
              \/ ExceedsMaxBlocks(t) \/ WriteFails(t)
       PROVE  SharedTypeOK'
  BY <1>1, <1>11, ReturnTypes
     DEF SeekFails, ReadFails, DumpEnds, SecondStops, ExceedsMaxBlocks, WriteFails, Working, TypeOK
<1>12. ASSUME NEW t \in Threads, DumpFirst(t) \/ DumpData(t) \/ SecondEnds(t)
       PROVE  SharedTypeOK'
  BY <1>1, <1>2, <1>12
     DEF DumpFirst, DumpData, Call, SecondEnds, SharedTypeOK, diskVars, scanVars, fileVars
<1>13. ASSUME NEW t \in Threads, Write(t)
       PROVE  SharedTypeOK'
  BY <1>1, <1>2, <1>13, PutDataType DEF Write, SharedTypeOK, diskVars, scanVars
<1>14. CASE UNCHANGED vars
  BY <1>1, <1>2, <1>14 DEF vars, SharedTypeOK, diskVars, scanVars, fileVars
<1>15. QED
  BY <1>4, <1>5, <1>6, <1>7, <1>8, <1>9, <1>10, <1>11, <1>12, <1>13, <1>14, <1>16
     DEF Next, ScanNext, ThreadNext

LEMMA ThreadTypeStep == TypeInv /\ [Next]_vars => ThreadTypeOK'
<1> SUFFICES ASSUME TypeInv, [Next]_vars
             PROVE  ThreadTypeOK'
  OBVIOUS
<1> USE DEF Sizes
<1>1. ThreadTypeOK /\ TypeOK /\ JobsApart /\ PlacesOK /\ Sizes
  BY SizesOK DEF TypeInv, TypeOK
<1>2. disk' = disk => DiskRange' = DiskRange
  BY DiskStays
<1>3. CASE ScanNext \/ SpuriousWakeup \/ UNCHANGED vars
  BY <1>1, <1>2, <1>3 DEF ScanNext, ScanSeek, ScanRead, ScanLook, ScanSleeps, ScanWoken,
                          NextBlock, SpuriousWakeup, vars, ThreadTypeOK,
                          diskVars, local, bufVars
<1>4. CASE Restart
  BY <1>1, <1>2, <1>4 DEF Restart, ThreadTypeOK, Fresh
<1>5. ASSUME NEW t \in Threads, Open(t) \/ OpenFails(t) \/ Seek(t)
      PROVE  ThreadTypeOK'
  BY <1>1, <1>2, <1>5 DEF Open, OpenFails, Seek, ThreadTypeOK, diskVars, local, bufVars
<1>6. ASSUME NEW t \in Threads, Read(t)
      PROVE  ThreadTypeOK'
  <2>1. 0 \in 0 .. DIND_MAX_OFFSET /\ 0 \in 0 .. WORDS /\ offset \in DiskRange \cup {0}
    BY <1>1, <1>6 DEF Read
  <2>2. DiskRange' = DiskRange /\ job' = job /\ level' = level /\ fpos' = fpos
    BY <1>2, <1>6 DEF Read
  <2>3. CASE level[t] = "dind"
    BY <1>1, <1>6, <2>1, <2>2, <2>3 DEF Read, ThreadTypeOK
  <2>4. CASE level[t] = "ind"
    BY <1>1, <1>6, <2>1, <2>2, <2>4 DEF Read, ThreadTypeOK
  <2>5. CASE level[t] = "data"
    BY <1>1, <1>6, <2>1, <2>2, <2>5 DEF Read, ThreadTypeOK
  <2>6. QED
    BY <1>6, <2>3, <2>4, <2>5 DEF Read
<1>7. ASSUME NEW t \in Threads,
             \/ SeekFails(t) \/ ReadFails(t) \/ DumpEnds(t) \/ SecondStops(t)
             \/ ExceedsMaxBlocks(t) \/ WriteFails(t)
      PROVE  ThreadTypeOK'
  BY <1>1, <1>7, ReturnTypes
     DEF SeekFails, ReadFails, DumpEnds, SecondStops, ExceedsMaxBlocks, WriteFails, Working, TypeOK
<1>8. ASSUME NEW t \in Threads, DumpFirst(t) \/ DumpData(t)
      PROVE  ThreadTypeOK'
  BY <1>1, <1>2, <1>8 DEF DumpFirst, DumpData, Call, ThreadTypeOK, diskVars, bufVars
<1>9. ASSUME NEW t \in Threads, SecondEnds(t)
      PROVE  ThreadTypeOK'
  <2>1. i[t] < DIND_MAX_OFFSET /\ i[t] \in 0 .. DIND_MAX_OFFSET
    BY <1>1, <1>9 DEF SecondEnds, PlacesOK, PlaceOK, Phase, ThreadTypeOK
  <2>2. i[t] + 1 \in 0 .. DIND_MAX_OFFSET
    BY <1>1, <2>1
  <2>3. QED
    BY <1>1, <1>2, <1>9, <2>2 DEF SecondEnds, ThreadTypeOK, diskVars, bufVars
<1>10. ASSUME NEW t \in Threads, Write(t)
       PROVE  ThreadTypeOK'
  BY <1>1, <1>2, <1>10, PutDataType DEF Write, ThreadTypeOK, diskVars, bufVars
<1>11. QED
  BY <1>3, <1>4, <1>5, <1>6, <1>7, <1>8, <1>9, <1>10 DEF Next, ThreadNext

LEMMA TypeStep == TypeInv /\ [Next]_vars => TypeOK'
  BY SharedTypeStep, ThreadTypeStep DEF TypeOK

\* The actions by which dump_dind_data returns.
Returns(t, ret) ==
  /\ pc[t] \in {"seek", "read", "first", "second", "write"}
  /\ ret \in {"ok", "bad", "failed"}
  /\ Return(t, ret)

LEMMA Returning ==
  ASSUME NEW t \in Threads,
         \/ SeekFails(t) \/ ReadFails(t) \/ DumpEnds(t) \/ SecondStops(t)
         \/ ExceedsMaxBlocks(t) \/ WriteFails(t)
  PROVE  \E ret : Returns(t, ret)
BY DEF SeekFails, ReadFails, DumpEnds, SecondStops, ExceedsMaxBlocks, WriteFails, Returns

\* Nobody else's candidate is touched, and main's next number is nobody's.
LEMMA JobsStep == TypeInv /\ [Next]_vars => JobsApart'
<1> SUFFICES ASSUME TypeInv, [Next]_vars
             PROVE  JobsApart'
  OBVIOUS
<1>1. /\ ThreadTypeOK /\ JobsApart /\ ScanInv /\ TypeOK
      /\ result \in [Numbers -> Results]
  BY DEF TypeInv, TypeOK, SharedTypeOK
<1>2. CASE ScanSeek \/ ScanRead \/ ScanSleeps \/ SpuriousWakeup \/ UNCHANGED vars
  BY <1>1, <1>2 DEF ScanSeek, ScanRead, ScanSleeps, SpuriousWakeup, vars, fileVars, local,
                    JobsApart, Working
<1>3. CASE ScanLook \/ ScanWoken
  <2>1. next_block \in Nat
    BY <1>1, DumpAssumption DEF TypeOK, SharedTypeOK
  <2>2. next_block \in Numbers => result[next_block] = "none"
    BY <1>1, <2>1 DEF ScanInv
  <2>3. \A b \in Numbers : result[b] = "busy" => result'[b] = "busy"
    BY <1>1, <1>3, <2>2, MovingOn DEF MovesOn
  <2>4. QED
    BY <1>1, <1>3, <2>3 DEF ScanLook, ScanWoken, NextBlock, local, JobsApart, Working
<1>4. CASE Restart
  BY <1>4 DEF Restart, Fresh, JobsApart, Working
<1>5. ASSUME NEW t \in Threads, Open(t)
      PROVE  JobsApart'
  <2>1. PICK b \in Numbers : /\ result[b] = "found"
                             /\ result' = [result EXCEPT ![b] = "busy"]
                             /\ job' = [job EXCEPT ![t] = b]
                             /\ exists' = exists \cup {b}
    BY <1>5, Dequeued DEF Open
  <2>2. \A s \in Threads : Working(s) => job[s] # b
    BY <1>1, <2>1 DEF JobsApart
  <2>3. /\ \A s \in Threads \ {t} : job'[s] = job[s] /\ (Working(s)' <=> Working(s))
        /\ job'[t] = b /\ Working(t)' /\ ~ Working(t)
    BY <1>1, <1>5, <2>1 DEF Open, Working, ThreadTypeOK
  <2>4. \A c \in Numbers : result'[c] = IF c = b THEN "busy" ELSE result[c]
    BY <1>1, <2>1
  <2>5. QED
    BY <1>1, <2>1, <2>2, <2>3, <2>4 DEF JobsApart
<1>6. ASSUME NEW t \in Threads, OpenFails(t)
      PROVE  JobsApart'
  <2>1. \A b \in Numbers : result[b] = "busy" => result'[b] = "busy"
    BY <1>1, <1>6, Dequeued DEF OpenFails
  <2>2. QED
    BY <1>1, <1>6, <2>1 DEF OpenFails, local, JobsApart, Working
<1>7. ASSUME NEW t \in Threads, NEW ret, Returns(t, ret)
      PROVE  JobsApart'
  <2>1. /\ \A s \in Threads \ {t} : job'[s] = job[s] /\ (Working(s)' <=> Working(s))
        /\ ~ Working(t)' /\ Working(t)
    BY <1>1, <1>7 DEF Returns, Return, LeaveDump, Working, ThreadTypeOK
  <2>2. \A s \in Threads \ {t} : Working(s) => job[s] # job[t]
    BY <1>1, <2>1 DEF JobsApart
  <2>3. \A b \in Numbers : b # job[t] => result'[b] = result[b] /\ (b \in exists' <=> b \in exists)
    BY <1>1, <1>7 DEF Returns, Return
  <2>4. QED
    BY <1>1, <2>1, <2>2, <2>3 DEF JobsApart
<1>8. ASSUME NEW t \in Threads,
             \/ Seek(t) \/ Read(t) \/ DumpFirst(t) \/ DumpData(t) \/ SecondEnds(t) \/ Write(t)
      PROVE  JobsApart'
  <2>1. result' = result /\ exists' = exists /\ job' = job
    BY <1>8 DEF Seek, Read, DumpFirst, DumpData, Call, SecondEnds, Write, fileVars
  <2>2. \A s \in Threads : Working(s)' <=> Working(s)
    BY <1>1, <1>8 DEF Seek, Read, DumpFirst, DumpData, Call, SecondEnds, Write, Working,
                      ThreadTypeOK
  <2>3. QED
    BY <1>1, <2>1, <2>2 DEF JobsApart
<1>9. QED
  BY <1>2, <1>3, <1>4, <1>5, <1>6, <1>7, <1>8, Returning DEF Next, ScanNext, ThreadNext

\* A dump thread gives no candidate a number that main has not reached.
LEMMA ScanStep == TypeInv /\ [Next]_vars => ScanInv'
<1> SUFFICES ASSUME TypeInv, [Next]_vars
             PROVE  ScanInv'
  OBVIOUS
<1> USE DEF Sizes
<1>1. SharedTypeOK /\ JobsApart /\ ScanInv /\ Sizes
  BY SizesOK DEF TypeInv, TypeOK
<1>2. DiskBlocks \in Nat /\ (disk' = disk => DiskBlocks' = DiskBlocks)
  BY <1>1, DiskShape, DiskStays DEF SharedTypeOK
<1>3. next_block \in Nat /\ \A b \in Numbers : b \in Nat
  BY <1>1 DEF SharedTypeOK, Numbers
<1>4. CASE ScanSeek \/ UNCHANGED vars
  BY <1>1, <1>2, <1>4 DEF ScanSeek, vars, scanVars, diskVars, fileVars, ScanInv
<1>5. CASE ScanRead
  <2>1. /\ offset \in Nat /\ ChunkAt(offset) \in Nat
        /\ ChunkAt(offset) # 0 => offset + ChunkAt(offset) <= DiskBlocks
    BY <1>1, <1>2 DEF SharedTypeOK, ChunkAt
  <2>2. /\ scanPc' \notin {"wait", "awake"}
        /\ scanPc' = "look" => left' > 0 /\ at' + left' <= DiskBlocks
    BY <1>5, <2>1 DEF ScanRead
  <2>3. scanPc' = "look" /\ ~ scanTorn' => at' = next_block
    BY <1>5 DEF ScanRead
  <2>4. QED
    BY <1>1, <1>2, <1>5, <2>2, <2>3 DEF ScanRead, fileVars, ScanInv
<1>6. CASE ScanLook \/ ScanWoken
  <2> USE DEF MovesOn
  <2>0. MovesOn
    BY <1>1, <1>6, MovingOn
  <2>1. left \in Nat /\ left > 0 /\ at \in Nat /\ at + left <= DiskBlocks
    BY <1>1, <2>0 DEF ScanInv, SharedTypeOK
  <2>2. /\ scanPc' \notin {"wait", "awake"}
        /\ scanPc' = "look" => left' > 0 /\ at' + left' <= DiskBlocks
    BY <1>2, <2>0, <2>1 DEF NextBlock
  <2>3. scanPc' = "look" /\ ~ scanTorn' => at' = next_block'
    BY <1>1, <2>0 DEF NextBlock, ScanInv
  <2>4. next_block' = next_block + 1 /\ (scanPc' = "done" <=> next_block' = GROUP0_DATA_END + 1)
    BY <1>1, <1>3, <2>0 DEF NextBlock, ScanInv, SharedTypeOK
  <2>5. \A b \in Numbers : result'[b] # "none" => result[b] # "none" \/ b = next_block
    BY <1>1, <2>0 DEF SharedTypeOK
  <2>6. \A b \in Numbers : result'[b] # "none" => b < next_block'
    BY <1>1, <1>3, <2>4, <2>5 DEF ScanInv
  <2>7. QED
    BY <1>2, <2>0, <2>2, <2>3, <2>4, <2>6 DEF NextBlock, diskVars, ScanInv
<1>13. ASSUME disk' = disk, UNCHANGED <<next_block, at, left, scanTorn>>, at \in Dinds,
              scanPc \in {"look", "wait"}, scanPc' \in {"wait", "awake"},
              \A b \in Numbers : result'[b] # "none" => result[b] # "none"
       PROVE  ScanInv'
  BY <1>1, <1>2, <1>13 DEF ScanInv
<1>14. CASE ScanSleeps \/ SpuriousWakeup
  BY <1>1, <1>13, <1>14, Napping DEF Naps, diskVars, fileVars
<1>7. CASE Restart
  <2>1. \A b \in Numbers : result'[b] = "none"
    BY <1>7 DEF Restart
  <2>2. GROUP0_DATA_START # GROUP0_DATA_END + 1
    BY DumpAssumption
  <2>3. QED
    BY <1>7, <2>1, <2>2 DEF Restart, ScanInv
<1>8. ASSUME UNCHANGED <<disk, scanVars>>,
             \A b \in Numbers : result'[b] # "none" => result[b] # "none"
      PROVE  ScanInv'
  BY <1>1, <1>2, <1>8 DEF scanVars, ScanInv
<1>9. ASSUME NEW t \in Threads, Open(t) \/ OpenFails(t)
      PROVE  ScanInv'
  <2>1. PICK b \in Numbers :
               /\ Dequeue(b) /\ disk' = disk
               /\ \E r \in {"busy", "unopened"} : result' = [result EXCEPT ![b] = r]
    BY <1>9 DEF Open, OpenFails, diskVars
  <2>2. \A c \in Numbers : result'[c] # "none" => result[c] # "none"
    BY <1>1, <1>9, <2>1, Dequeued DEF SharedTypeOK
  <2>3. CASE scanPc' = scanPc
    BY <1>8, <2>1, <2>2, <2>3, Dequeued DEF scanVars
  <2>4. CASE scanPc = "wait" /\ scanPc' = "awake"
    BY <1>1, <1>13, <2>1, <2>2, <2>4, Dequeued DEF ScanInv
  <2>5. QED
    BY <2>1, <2>3, <2>4, Dequeued
<1>10. ASSUME NEW t \in Threads, NEW ret, Returns(t, ret)
       PROVE  ScanInv'
  <2>1. job[t] \in Numbers /\ result[job[t]] = "busy"
    BY <1>1, <1>10 DEF Returns, JobsApart, Working
  <2>2. QED
    BY <1>1, <1>8, <1>10, <2>1 DEF Returns, Return, LeaveDump, SharedTypeOK, diskVars
<1>11. ASSUME NEW t \in Threads,
              \/ Seek(t) \/ Read(t) \/ DumpFirst(t) \/ DumpData(t) \/ SecondEnds(t) \/ Write(t)
       PROVE  ScanInv'
  BY <1>8, <1>11 DEF Seek, Read, DumpFirst, DumpData, Call, SecondEnds, Write,
                     diskVars, fileVars
<1>12. QED
  BY <1>4, <1>5, <1>6, <1>7, <1>9, <1>10, <1>11, <1>14, Returning
     DEF Next, ScanNext, ThreadNext

\* What thread s knows of its place.
PlaceOf(s) == <<pc[s], job[s], level[s], first[s], ind[s], data[s], i[s], n[s], fpos[s]>>

LEMMA PlaceStays ==
  ASSUME disk' = disk, NEW s, PlaceOf(s)' = PlaceOf(s)
  PROVE  PlaceOK(s)' <=> PlaceOK(s)
<1>1. /\ pc'[s] = pc[s] /\ level'[s] = level[s] /\ first'[s] = first[s]
      /\ ind'[s] = ind[s] /\ data'[s] = data[s] /\ i'[s] = i[s] /\ n'[s] = n[s]
      /\ fpos'[s] = fpos[s]
  BY DEF PlaceOf
<1>2. DiskRange' = DiskRange
  BY DiskStays
<1>3. Phase(s)' = Phase(s)
  BY <1>1 DEF Phase
<1>4. QED
  BY <1>1, <1>2, <1>3 DEF PlaceOK

LEMMA DiskNeverChanges == [Next]_vars => disk' = disk
  BY DEF Next, vars, diskVars, ScanNext, ScanSeek, ScanRead, ScanLook, ScanSleeps, ScanWoken, NextBlock,
         SpuriousWakeup, Restart, ThreadNext,
         Open, OpenFails, Dequeue, Seek, SeekFails, Read, ReadFails, DumpFirst, DumpEnds, SecondEnds,
         SecondStops, ExceedsMaxBlocks, DumpData, Write, WriteFails, Call, Return, LeaveDump

\* The loops and calls of __dump_dind_data keep a thread's place.
LEMMA OwnPlace ==
  ASSUME TypeInv, NEW t \in Threads, ThreadNext(t), disk' = disk
  PROVE  PlaceOK(t)'
<1> USE DEF Sizes
<1>1. ThreadTypeOK /\ JobsApart /\ PlaceOK(t) /\ Sizes /\ DiskRange' = DiskRange
  BY SizesOK, DiskStays DEF TypeInv, TypeOK, PlacesOK
<1>2. ASSUME NEW ret, Returns(t, ret)
      PROVE  PlaceOK(t)'
  <2>1. pc'[t] = "idle"
    BY <1>1, <1>2 DEF Returns, Return, LeaveDump, ThreadTypeOK
  <2>2. QED
    BY <2>1 DEF PlaceOK, Phase
<1>3. CASE Open(t)
  <2>1. Phase(t)' = "dind" /\ fpos'[t] = 0 /\ pc'[t] = "seek"
    BY <1>1, <1>3 DEF Open, Phase, ThreadTypeOK
  <2>2. QED
    BY <2>1 DEF PlaceOK
<1>4. CASE OpenFails(t)
  BY <1>1, <1>4, PlaceStays DEF OpenFails, local, bufVars, PlaceOf
<1>5. CASE Seek(t)
  <2>1. Phase(t)' = Phase(t) /\ pc'[t] # "write"
    BY <1>1, <1>5 DEF Seek, Phase, ThreadTypeOK
  <2>2. QED
    BY <1>1, <1>5, <2>1 DEF Seek, bufVars, PlaceOK
<1>6. CASE Read(t)
  <2>1. offset \in DiskRange /\ pc[t] = "read" /\ fpos' = fpos /\ Phase(t) = level[t]
    BY <1>6 DEF Read, Phase
  <2>2. CASE level[t] = "dind"
    <3>1. /\ pc'[t] = "first" /\ Phase(t)' = "first" /\ first'[t] = offset /\ i'[t] = 0
      BY <1>1, <1>6, <2>2 DEF Read, Phase, ThreadTypeOK
    <3>2. 0 = 0 * WORDS
      BY <1>1
    <3>3. QED
      BY <1>1, <2>1, <2>2, <3>1, <3>2 DEF PlaceOK
  <2>3. CASE level[t] = "ind"
    <3>1. /\ pc'[t] = "second" /\ Phase(t)' = "second" /\ ind'[t] = offset /\ n'[t] = 0
          /\ first' = first /\ i' = i
      BY <1>1, <1>6, <2>3 DEF Read, Phase, ThreadTypeOK
    <3>2. i[t] * WORDS = i[t] * WORDS + 0
      BY <1>1 DEF ThreadTypeOK
    <3>3. QED
      BY <1>1, <2>1, <2>3, <3>1, <3>2 DEF PlaceOK
  <2>4. CASE level[t] = "data"
    <3>1. /\ pc'[t] = "write" /\ Phase(t)' = "data" /\ data'[t] = offset
          /\ first' = first /\ ind' = ind /\ i' = i /\ n' = n
      BY <1>1, <1>6, <2>4 DEF Read, Phase, ThreadTypeOK
    <3>2. QED
      BY <1>1, <2>1, <2>4, <3>1 DEF PlaceOK
  <2>5. QED
    BY <1>6, <2>2, <2>3, <2>4 DEF Read
<1>7. CASE DumpFirst(t)
  <2>1. /\ pc[t] = "first" /\ i[t] < DIND_MAX_OFFSET /\ disk[first[t]][i[t]] # 0
        /\ UNCHANGED <<first, ind, data, i, n, fpos>>
        /\ Phase(t) = "first" /\ Phase(t)' = "ind" /\ pc'[t] = "seek"
    BY <1>1, <1>7 DEF DumpFirst, FirstEnds, Call, bufVars, Phase, ThreadTypeOK
  <2>2. QED
    BY <1>1, <2>1 DEF PlaceOK
<1>8. CASE DumpData(t)
  <2>1. /\ n[t] < WORDS /\ disk[ind[t]][n[t]] \in 1 .. MAX_BLOCKS
        /\ UNCHANGED <<first, ind, data, i, n, fpos>>
        /\ Phase(t) = "second" /\ Phase(t)' = "data" /\ pc'[t] = "seek"
    BY <1>1, <1>8 DEF DumpData, Call, bufVars, Phase, ThreadTypeOK
  <2>2. QED
    BY <1>1, <2>1 DEF PlaceOK
<1>9. CASE SecondEnds(t)
  <2>1. /\ n[t] \in 0 .. WORDS /\ n[t] >= WORDS /\ i[t] \in 0 .. DIND_MAX_OFFSET
        /\ i'[t] = i[t] + 1 /\ UNCHANGED <<first, ind, data, fpos>>
        /\ Phase(t) = "second" /\ Phase(t)' = "first" /\ pc'[t] = "first"
    BY <1>1, <1>9 DEF SecondEnds, bufVars, Phase, ThreadTypeOK
  <2>2. i[t] < DIND_MAX_OFFSET /\ fpos[t] = i[t] * WORDS + n[t] /\ first[t] \in DiskRange
    BY <1>1, <2>1 DEF PlaceOK
  <2>3. n[t] = WORDS /\ i[t] \in 0 .. DIND_MAX_OFFSET - 1 /\ WORDS \in 0 .. WORDS
    BY <1>1, <2>1, <2>2
  <2>4. fpos'[t] = i'[t] * WORDS
    BY <2>1, <2>2, <2>3, PositionBound
  <2>5. QED
    BY <1>1, <2>1, <2>2, <2>4 DEF PlaceOK
<1>10. CASE Write(t)
  <2>1. fpos[t] + 1 = i[t] * WORDS + (n[t] + 1)
    BY <1>10, PutDataType
  <2>2. /\ pc[t] = "write" /\ Phase(t) = "data" /\ Phase(t)' = "second" /\ pc'[t] = "second"
        /\ fpos'[t] = fpos[t] + 1 /\ n'[t] = n[t] + 1 /\ UNCHANGED <<first, ind, data, i>>
    BY <1>1, <1>10 DEF Write, bufVars, Phase, ThreadTypeOK
  <2>3. QED
    BY <1>1, <2>1, <2>2 DEF PlaceOK
<1>11. QED
  BY <1>2, <1>3, <1>4, <1>5, <1>6, <1>7, <1>8, <1>9, <1>10, Returning DEF ThreadNext

LEMMA PlacesStep == TypeInv /\ [Next]_vars => PlacesOK'
<1> SUFFICES ASSUME TypeInv, [Next]_vars
             PROVE  PlacesOK'
  OBVIOUS
<1>1. PlacesOK /\ TypeOK /\ disk' = disk
  BY DiskNeverChanges DEF TypeInv
<1>2. CASE ScanNext \/ SpuriousWakeup \/ UNCHANGED vars
  <2>1. UNCHANGED local
    BY <1>2 DEF ScanNext, ScanSeek, ScanRead, ScanLook, ScanSleeps, ScanWoken, NextBlock,
                SpuriousWakeup, vars
  <2>2. \A s \in Threads : PlaceOf(s)' = PlaceOf(s)
    BY <2>1 DEF local, bufVars, PlaceOf
  <2>3. QED
    BY <1>1, <2>2, PlaceStays DEF PlacesOK
<1>3. CASE Restart
  BY <1>3 DEF Restart, Fresh, PlacesOK, PlaceOK, Phase
<1>4. ASSUME NEW t \in Threads, ThreadNext(t)
      PROVE  PlacesOK'
  <2>1. \A s \in Threads : s # t => PlaceOf(s)' = PlaceOf(s)
    BY <1>1, <1>4, OthersStay DEF PlaceOf
  <2>2. \A s \in Threads : s # t => PlaceOK(s)'
    BY <1>1, <2>1, PlaceStays DEF PlacesOK
  <2>3. QED
    BY <1>1, <1>4, <2>2, OwnPlace DEF PlacesOK
<1>5. QED
  BY <1>2, <1>3, <1>4 DEF Next

LEMMA TypeInvCorrect == Spec => []TypeInv
<1>1. TypeInv /\ [Next]_vars => TypeInv'
  BY TypeStep, JobsStep, ScanStep, PlacesStep DEF TypeInv
<1>2. QED
  BY <1>1, InitTypes, PTL DEF Spec

(***************************************************************************)
(* The loop counters of __dump_dind_data never leave the buffers they      *)
(* index, a recovery file is never longer than the lists allow, and only   *)
(* blocks of the disk get into one, whatever block a read delivers because *)
(* another thread moved the offset.                                        *)
(***************************************************************************)
THEOREM TypeCorrect == Spec => []TypeOK
  BY TypeInvCorrect, PTL DEF TypeInv

-----------------------------------------------------------------------------
(* The scan                                                                *)

LEMMA FindsInit == Init => ScanFindsAll
<1> SUFFICES ASSUME Init
             PROVE  ScanFindsAll
  OBVIOUS
<1>1. {b \in Numbers : result[b] # "none"} = {}
  BY DEF Init
<1>2. {b \in Dinds \cap Numbers : b < next_block} = {}
  BY SizesOK DEF Init, Numbers, Sizes
<1>3. QED
  BY <1>1, <1>2 DEF Init, ScanFindsAll

LEMMA FindsStep == TypeInv /\ ScanFindsAll /\ [Next]_vars => ScanFindsAll'
<1> SUFFICES ASSUME TypeInv, ScanFindsAll, [Next]_vars, ~ scanTorn'
             PROVE  /\ {b \in Numbers : result'[b] # "none"}
                         = {b \in Dinds \cap Numbers : b < next_block'}
                    /\ scanPc' = "done" => GROUP0_DATA_END \in DiskRange'
  BY DEF ScanFindsAll
<1> DEFINE Goal == /\ {b \in Numbers : result'[b] # "none"}
                         = {b \in Dinds \cap Numbers : b < next_block'}
                   /\ scanPc' = "done" => GROUP0_DATA_END \in DiskRange'
<1> USE DEF Sizes
<1>1. /\ SharedTypeOK /\ JobsApart /\ ScanInv /\ Sizes
      /\ disk' = disk /\ DiskRange' = DiskRange
  BY SizesOK, DiskStays, DiskNeverChanges DEF TypeInv, TypeOK
<1>2. /\ ~ scanTorn => /\ {b \in Numbers : result[b] # "none"}
                            = {b \in Dinds \cap Numbers : b < next_block}
                       /\ scanPc = "done" => GROUP0_DATA_END \in DiskRange
      /\ next_block \in Nat /\ \A b \in Numbers : b \in Nat
  BY <1>1 DEF ScanFindsAll, SharedTypeOK, Numbers
\* A step that finds nothing and does not move the scan on.
<1>3. ASSUME next_block' = next_block, scanPc' # "done" \/ scanPc' = scanPc,
             ~ scanTorn,
             \A b \in Numbers : result'[b] # "none" <=> result[b] # "none"
      PROVE  Goal
  <2>1. {b \in Numbers : result'[b] # "none"} = {b \in Numbers : result[b] # "none"}
    BY <1>3
  <2>2. QED
    BY <1>1, <1>2, <1>3, <2>1
<1>4. CASE ScanSeek \/ ScanRead \/ ScanSleeps \/ SpuriousWakeup \/ UNCHANGED vars
  <2>1. ~ scanTorn
    BY <1>4, Zenon DEF ScanSeek, ScanRead, ScanSleeps, SpuriousWakeup, vars, scanVars
  <2>2. /\ next_block' = next_block /\ result' = result
        /\ scanPc' # "done" \/ scanPc' = scanPc
    BY <1>4 DEF ScanSeek, ScanRead, ScanSleeps, SpuriousWakeup, vars, fileVars, scanVars
  <2>3. QED
    BY <1>3, <2>1, <2>2
<1>5. CASE ScanLook \/ ScanWoken
  <2>0. MovesOn
    BY <1>1, <1>5, MovingOn
  <2>1. /\ ~ scanTorn /\ at = next_block /\ scanPc # "done" /\ next_block' = next_block + 1
        /\ left > 0 /\ at + left <= DiskBlocks /\ left \in Nat /\ at \in Nat
    BY <1>1, <2>0 DEF MovesOn, NextBlock, ScanInv, SharedTypeOK
  <2>2. next_block \in Numbers
    BY <1>1, <2>1 DEF ScanInv, SharedTypeOK, Numbers
  <2>3. \A b \in Numbers : result'[b] # "none" <=> result[b] # "none" \/ (b = at /\ at \in Dinds)
    BY <1>1, <2>0, <2>1, <2>2 DEF MovesOn, SharedTypeOK
  <2>4. \A b \in Numbers : b < next_block' <=> b < next_block \/ b = at
    BY <1>2, <2>1
  <2>5. {b \in Numbers : result'[b] # "none"} = {b \in Dinds \cap Numbers : b < next_block'}
    BY <1>2, <2>1, <2>3, <2>4
  <2>6. next_block \in DiskRange
    BY <1>1, <2>1, DiskShape DEF SharedTypeOK
  <2>7. scanPc' = "done" => GROUP0_DATA_END \in DiskRange'
    BY <1>1, <2>0, <2>6 DEF MovesOn, NextBlock
  <2>8. QED
    BY <2>5, <2>7
<1>6. CASE Restart
  <2>1. {b \in Numbers : result'[b] # "none"} = {}
    BY <1>6 DEF Restart
  <2>2. {b \in Dinds \cap Numbers : b < next_block'} = {}
    BY <1>1, <1>6 DEF Restart, Numbers
  <2>3. QED
    BY <1>6, <2>1, <2>2 DEF Restart
<1>7. ASSUME NEW t \in Threads, Open(t) \/ OpenFails(t)
      PROVE  Goal
  <2>1. \A b \in Numbers : result'[b] # "none" <=> result[b] # "none"
    BY <1>1, <1>7, Dequeued DEF Open, OpenFails, SharedTypeOK
  <2>2. QED
    BY <1>3, <1>7, <2>1, Dequeued DEF Open, OpenFails
<1>8. ASSUME NEW t \in Threads, NEW ret, Returns(t, ret)
      PROVE  Goal
  <2>1. job[t] \in Numbers /\ result[job[t]] = "busy" /\ ret # "none"
    BY <1>1, <1>8 DEF Returns, JobsApart, Working
  <2>2. \A b \in Numbers : result'[b] # "none" <=> result[b] # "none"
    BY <1>1, <1>8, <2>1 DEF Returns, Return, SharedTypeOK
  <2>3. QED
    BY <1>3, <1>8, <2>2 DEF Returns, Return, LeaveDump, scanVars
<1>9. ASSUME NEW t \in Threads,
             \/ Seek(t) \/ Read(t) \/ DumpFirst(t) \/ DumpData(t) \/ SecondEnds(t) \/ Write(t)
      PROVE  Goal
  BY <1>3, <1>9 DEF Seek, Read, DumpFirst, DumpData, Call, SecondEnds, Write,
                    scanVars, fileVars
<1>10. QED
  BY <1>4, <1>5, <1>6, <1>7, <1>8, <1>9, Returning DEF Next, ScanNext, ThreadNext

(***************************************************************************)
(* The scan of main accepts exactly the blocks below next_block that       *)
(* guess_dind_data takes, each under its own number, as long as no dump    *)
(* thread came between its lseek64 and its read; and it ends only at       *)
(* GROUP0_DATA_END.                                                        *)
(***************************************************************************)
THEOREM ScanCounts == Spec => []ScanFindsAll
  BY TypeInvCorrect, FindsInit, FindsStep, PTL DEF Spec

-----------------------------------------------------------------------------
(* What gets into a recovery file                                          *)

\* In a first level block a thread on its track is at the position of its file offset.
LEMMA SecondPlace ==
  ASSUME TypeInv, NEW t \in Threads, OnTrack(t),
         Phase(t) \in {"second", "data"}, n[t] < WORDS
  PROVE  /\ fpos[t] \in Nat /\ fpos[t] < MaxLength /\ fpos[t] % WORDS = n[t]
         /\ job[t] \in DiskRange /\ ind[t] \in DiskRange /\ ind[t] # 0
         /\ FirstOf(job[t], fpos[t]) = ind[t]
         /\ DataOf(job[t], fpos[t]) = disk[ind[t]][n[t]]
<1>1. /\ i[t] \in 0 .. DIND_MAX_OFFSET /\ n[t] \in 0 .. WORDS /\ i[t] < DIND_MAX_OFFSET
      /\ fpos[t] = i[t] * WORDS + n[t]
      /\ first[t] \in DiskRange /\ ind[t] \in DiskRange
      /\ first[t] = job[t] /\ ind[t] = disk[job[t]][i[t]] /\ ind[t] # 0
  BY DEF TypeInv, TypeOK, ThreadTypeOK, PlacesOK, PlaceOK, OnTrack
<1> DEFINE p == i[t]
           q == n[t]
           f == fpos[t]
<1>2. /\ p \in 0 .. DIND_MAX_OFFSET - 1 /\ p \in Nat /\ q \in 0 .. WORDS - 1 /\ q \in 0 .. WORDS
      /\ q < WORDS
  BY <1>1, SizesOK DEF Sizes
<1>3. f = p * WORDS + q
  BY <1>1
<1> HIDE DEF p, q, f
<1>4. f \in 0 .. MaxLength /\ f < MaxLength
  BY <1>2, <1>3, PositionBound
<1>5. f \div WORDS = p /\ f % WORDS = q
  BY <1>2, <1>3, DivMod
<1>6. FirstOf(job[t], f) = ind[t]
  BY <1>1, <1>5 DEF FirstOf, p
<1>7. DataOf(job[t], f) = disk[ind[t]][q]
  BY <1>5, <1>6 DEF DataOf
<1>8. QED
  BY <1>1, <1>4, <1>5, <1>6, <1>7, SizesOK DEF p, q, f, Sizes

\* In the double indirect block it is at the first position of a first level block.
LEMMA FirstPlace ==
  ASSUME TypeInv, NEW t \in Threads, OnTrack(t), Phase(t) \in {"first", "ind"}
  PROVE  /\ fpos[t] \in 0 .. MaxLength /\ job[t] \in DiskRange
         /\ i[t] = DIND_MAX_OFFSET => fpos[t] = MaxLength
         /\ i[t] < DIND_MAX_OFFSET => /\ fpos[t] < MaxLength /\ fpos[t] % WORDS = 0
                                      /\ FirstOf(job[t], fpos[t]) = disk[job[t]][i[t]]
<1>1. /\ i[t] \in 0 .. DIND_MAX_OFFSET /\ fpos[t] = i[t] * WORDS
      /\ first[t] \in DiskRange /\ first[t] = job[t]
  BY DEF TypeInv, TypeOK, ThreadTypeOK, PlacesOK, PlaceOK, OnTrack
<1> DEFINE p == i[t]
           f == fpos[t]
<1>2. p \in 0 .. DIND_MAX_OFFSET /\ f = p * WORDS /\ fpos[t] \in 0 .. MaxLength
  BY <1>1 DEF TypeInv, TypeOK, ThreadTypeOK
<1> HIDE DEF p, f
<1>3. p = DIND_MAX_OFFSET => f = MaxLength
  BY <1>2 DEF MaxLength
<1>4. ASSUME p < DIND_MAX_OFFSET
      PROVE  f < MaxLength /\ f % WORDS = 0 /\ FirstOf(job[t], f) = disk[job[t]][p]
  <2>1. /\ p \in 0 .. DIND_MAX_OFFSET - 1 /\ p \in Nat /\ 0 \in 0 .. WORDS - 1
        /\ 0 \in 0 .. WORDS /\ 0 < WORDS /\ p * WORDS + 0 = p * WORDS
    BY <1>2, <1>4, SizesOK DEF Sizes
  <2>2. f = p * WORDS + 0
    BY <1>2, <2>1
  <2>3. f < MaxLength
    BY <2>1, <2>2, PositionBound
  <2>4. f \div WORDS = p /\ f % WORDS = 0
    BY <2>1, <2>2, DivMod
  <2>5. QED
    BY <1>1, <2>3, <2>4 DEF FirstOf
<1>5. QED
  BY <1>1, <1>2, <1>3, <1>4 DEF p, f

\* Where a thread on its track cannot go on, its file is complete.
LEMMA EndHere ==
  ASSUME TypeInv, NEW t \in Threads, job[t] \in Numbers, ContentRight(job[t]),
         fpos[t] <= Len(content[job[t]]),
         fpos[t] < MaxLength => ~ Readable(job[t], fpos[t])
  PROVE  FileLength(job[t]) = fpos[t] /\ content[job[t]] = LostFile(job[t])
<1> DEFINE b == job[t]
           f == fpos[t]
           m == Len(content[b])
<1>1. /\ f \in 0 .. MaxLength /\ m \in Nat /\ MaxLength \in Nat /\ m <= MaxLength /\ f <= m
      /\ \A k \in 0 .. m - 1 : Readable(b, k)
      /\ f < MaxLength => ~ Readable(b, f)
  BY SizesOK, LenProperties
     DEF TypeInv, TypeOK, SharedTypeOK, ThreadTypeOK, ContentRight, Sizes
<1> HIDE DEF b, f, m
<1>2. m = f
  <2>1. f < m => f \in 0 .. m - 1 /\ f < MaxLength
    BY <1>1
  <2>2. ~ (f < m)
    BY <1>1, <2>1
  <2>3. QED
    BY <1>1, <2>2
<1>3. FileLength(b) = f
  <2>1. \A k \in 0 .. f - 1 : Readable(b, k)
    BY <1>1, <1>2
  <2>2. QED
    BY <1>1, <2>1, LengthIs
<1>4. content[b] = LostFile(b)
  <2>1. TypeOK /\ b \in Numbers /\ ContentRight(b)
    BY DEF TypeInv, b
  <2>2. QED
    BY <1>2, <1>3, <2>1, RightIsPrefix DEF m
<1>5. QED
  BY <1>3, <1>4 DEF b, f

LEMMA ContentStays ==
  ASSUME disk' = disk, NEW b, content'[b] = content[b], ContentRight(b)
  PROVE  ContentRight(b)'
BY DiskStays DEF ContentRight

LEMMA TrackStays ==
  ASSUME disk' = disk, NEW s, PlaceOf(s)' = PlaceOf(s), content'[job[s]] = content[job[s]],
         OnTrack(s)
  PROVE  OnTrack(s)'
<1>1. /\ pc'[s] = pc[s] /\ job'[s] = job[s] /\ level'[s] = level[s] /\ first'[s] = first[s]
      /\ ind'[s] = ind[s] /\ data'[s] = data[s] /\ i'[s] = i[s] /\ n'[s] = n[s]
      /\ fpos'[s] = fpos[s]
  BY DEF PlaceOf
<1>2. Phase(s)' = Phase(s)
  BY <1>1 DEF Phase
<1>3. QED
  BY <1>1, <1>2 DEF OnTrack

\* A file once touched by a misplaced read stays suspect.
LEMMA TornGrows == [Next]_vars => torn \subseteq torn'
  BY DEF Next, vars, ScanNext, ScanSeek, ScanRead, ScanLook, ScanSleeps, ScanWoken, NextBlock,
         SpuriousWakeup, Restart, ThreadNext,
         Open, OpenFails, Dequeue, Seek, SeekFails, Read, ReadFails, DumpFirst, DumpEnds, SecondEnds,
         SecondStops, ExceedsMaxBlocks, DumpData, Write, WriteFails, Call, Return,
         LeaveDump, NoteTorn

\* Only the thread that has a candidate changes what its file holds.
LEMMA ContentChanges ==
  ASSUME TypeInv, NEW t \in Threads, ThreadNext(t), NEW b \in Numbers
  PROVE  content'[b] = content[b] \/ (Working(t) /\ b = job[t])
<1>1. content \in [Numbers -> Seq(DiskRange)]
  BY DEF TypeInv, TypeOK, SharedTypeOK
<1>2. ASSUME NEW ret, Returns(t, ret)
      PROVE  content'[b] = content[b] \/ (Working(t) /\ b = job[t])
  BY <1>1, <1>2 DEF Returns, Return, Working
<1>3. CASE Write(t)
  BY <1>1, <1>3 DEF Write, PutData, Working
<1>4. CASE \/ Open(t) \/ OpenFails(t) \/ Seek(t) \/ Read(t) \/ DumpFirst(t) \/ DumpData(t)
           \/ SecondEnds(t)
  BY <1>4 DEF Open, OpenFails, Seek, Read, DumpFirst, DumpData, Call, SecondEnds, fileVars
<1>5. QED
  BY <1>2, <1>3, <1>4, Returning DEF ThreadNext

\* What a thread on its track writes is the data block of its position.
LEMMA WriteRight ==
  ASSUME TypeInv, NEW t \in Threads, Write(t), OnTrack(t), disk' = disk,
         NEW b, b = job[t], ContentRight(b)
  PROVE  ContentRight(b)' /\ fpos[t] + 1 <= Len(content'[b])
<1> DEFINE f == fpos[t]
           c == content[b]
           d == content'[b]
           x == data[t]
<1>1. /\ b \in Numbers /\ f \in Nat /\ x \in DiskRange /\ f + 1 \in 0 .. MaxLength
  BY PutDataType
<1>2. /\ pc[t] = "write" /\ Phase(t) = "data" /\ n[t] < WORDS
      /\ disk[ind[t]][n[t]] \in 1 .. MAX_BLOCKS /\ x = disk[ind[t]][n[t]] /\ f <= Len(c)
  BY DEF Write, Phase, TypeInv, PlacesOK, PlaceOK, OnTrack
<1>3. Readable(b, f) /\ x = DataOf(b, f)
  BY <1>1, <1>2, SecondPlace DEF Readable, NoFirst, NoData
<1>4. c \in Seq(DiskRange) /\ Len(c) \in Nat
  BY <1>1, LenProperties DEF TypeInv, TypeOK, SharedTypeOK
<1>5. /\ Len(c) <= MaxLength /\ MaxLength \in Nat
      /\ \A k \in 0 .. Len(c) - 1 : Readable(b, k) /\ c[k + 1] = DataOf(b, k)
  BY SizesOK DEF ContentRight, Sizes
<1>6. d = IF f < Len(c) THEN [c EXCEPT ![f + 1] = x] ELSE Append(c, x)
  BY <1>1 DEF Write, PutData, TypeInv, TypeOK, SharedTypeOK
<1> HIDE DEF f, c, d, x
<1>7. /\ Len(d) <= MaxLength /\ f + 1 <= Len(d)
      /\ \A k \in 0 .. Len(d) - 1 : Readable(b, k) /\ d[k + 1] = DataOf(b, k)
  <2>1. CASE f < Len(c)
    <3>1. f + 1 \in 1 .. Len(c)
      BY <1>1, <1>4, <2>1
    <3>2. /\ Len(d) = Len(c)
          /\ \A j \in 1 .. Len(c) : d[j] = IF j = f + 1 THEN x ELSE c[j]
      BY <1>1, <1>4, <1>6, <2>1, <3>1, ExceptSeq
    <3>3. ASSUME NEW k \in 0 .. Len(d) - 1
          PROVE  Readable(b, k) /\ d[k + 1] = DataOf(b, k)
      <4>1. k + 1 \in 1 .. Len(c) /\ k \in 0 .. Len(c) - 1 /\ (k + 1 = f + 1 <=> k = f)
        BY <1>1, <1>4, <3>2
      <4>2. QED
        BY <1>3, <1>5, <3>2, <4>1
    <3>4. QED
      BY <1>4, <1>5, <3>1, <3>2, <3>3
  <2>2. CASE ~ (f < Len(c))
    <3>1. f = Len(c) /\ Len(c) + 1 <= MaxLength
      BY <1>1, <1>2, <1>4, <2>2
    <3>2. /\ Len(d) = Len(c) + 1 /\ d[Len(c) + 1] = x
          /\ \A j \in 1 .. Len(c) : d[j] = c[j]
      BY <1>1, <1>4, <1>6, <2>2, AppendProperties
    <3>3. ASSUME NEW k \in 0 .. Len(d) - 1
          PROVE  Readable(b, k) /\ d[k + 1] = DataOf(b, k)
      <4>1. CASE k = f
        BY <1>3, <3>1, <3>2, <4>1
      <4>2. CASE k # f
        <5>1. k \in 0 .. Len(c) - 1 /\ k + 1 \in 1 .. Len(c)
          BY <1>4, <3>1, <3>2, <4>2
        <5>2. QED
          BY <1>5, <3>2, <5>1
      <4>3. QED
        BY <4>1, <4>2
    <3>4. QED
      BY <1>1, <1>4, <3>1, <3>2, <3>3
  <2>3. QED
    BY <2>1, <2>2
<1>8. QED
  BY <1>7, DiskStays DEF ContentRight, f, d

\* A file that is not suspect keeps holding the beginning of the lost file.
LEMMA ContentStep ==
  ASSUME TypeInv, Tracked, NEW t \in Threads, ThreadNext(t), disk' = disk,
         NEW b \in Numbers, b \notin torn'
  PROVE  ContentRight(b)'
<1>1. b \notin torn /\ ContentRight(b)
  BY TornGrows DEF Tracked, Next
<1>2. ASSUME NEW ret, Returns(t, ret)
      PROVE  ContentRight(b)'
  <2>1. content'[b] = content[b] \/ content'[b] = <<>>
    BY <1>2 DEF Returns, Return, TypeInv, TypeOK, SharedTypeOK
  <2>2. CASE content'[b] = <<>>
    <3>1. Len(content'[b]) = 0 /\ MaxLength \in Nat /\ MaxLength' = MaxLength
      BY <2>2, SizesOK DEF Sizes, MaxLength
    <3>2. QED
      BY <3>1 DEF ContentRight
  <2>3. QED
    BY <1>1, <2>1, <2>2, ContentStays
<1>3. CASE Write(t)
  <2>1. CASE b = job[t]
    <3>1. OnTrack(t)
      BY <1>1, <1>3, <2>1 DEF Write, Working, Tracked
    <3>2. QED
      BY <1>1, <1>3, <2>1, <3>1, WriteRight
  <2>2. CASE b # job[t]
    BY <1>1, <2>2, ContentChanges, ContentStays
  <2>3. QED
    BY <2>1, <2>2
<1>4. CASE \/ Open(t) \/ OpenFails(t) \/ Seek(t) \/ Read(t) \/ DumpFirst(t) \/ DumpData(t)
           \/ SecondEnds(t)
  <2>1. content' = content
    BY <1>4 DEF Open, OpenFails, Seek, Read, DumpFirst, DumpData, Call, SecondEnds, fileVars
  <2>2. QED
    BY <1>1, <2>1, ContentStays
<1>5. QED
  BY <1>2, <1>3, <1>4, Returning DEF ThreadNext

\* A thread stays on its track as long as its reads deliver the blocks it asked for.
LEMMA OwnTrack ==
  ASSUME TypeInv, Tracked, NEW t \in Threads, ThreadNext(t), disk' = disk,
         Working(t)', job'[t] \notin torn'
  PROVE  OnTrack(t)'
<1> USE DEF Sizes
<1>1. /\ ThreadTypeOK /\ JobsApart /\ PlaceOK(t) /\ Sizes /\ torn \subseteq torn'
      /\ content \in [Numbers -> Seq(DiskRange)]
  BY SizesOK, TornGrows DEF TypeInv, TypeOK, PlacesOK, SharedTypeOK, Next
<1>2. Working(t) /\ job'[t] = job[t] => OnTrack(t) /\ ContentRight(job[t])
  BY <1>1 DEF Tracked, JobsApart
<1>3. ASSUME NEW ret, Returns(t, ret)
      PROVE  FALSE
  BY <1>1, <1>3 DEF Returns, Return, LeaveDump, ThreadTypeOK, Working
<1>4. CASE Open(t)
  <2>1. /\ Phase(t)' = "dind" /\ pc'[t] = "seek" /\ fpos'[t] = 0 /\ content' = content
        /\ job'[t] \in Numbers
    BY <1>1, <1>4 DEF Open, Phase, ThreadTypeOK
  <2>2. Len(content'[job'[t]]) \in Nat
    BY <1>1, <2>1, LenProperties
  <2>3. QED
    BY <2>1, <2>2 DEF OnTrack
<1>5. CASE OpenFails(t)
  <2>1. PlaceOf(t)' = PlaceOf(t) /\ content' = content /\ job' = job /\ Working(t)
    BY <1>5 DEF OpenFails, local, bufVars, PlaceOf, Working
  <2>2. QED
    BY <1>2, <2>1, TrackStays
<1>6. CASE Seek(t)
  <2>1. /\ Phase(t)' = Phase(t) /\ pc'[t] # "write" /\ Working(t)
        /\ UNCHANGED <<job, first, ind, data, i, n, fpos, content>>
    BY <1>1, <1>6 DEF Seek, Phase, ThreadTypeOK, bufVars, fileVars, Working
  <2>2. QED
    BY <1>2, <2>1 DEF OnTrack
<1>7. CASE Read(t)
  <2>1. /\ offset \in DiskRange /\ pc[t] = "read" /\ Phase(t) = level[t] /\ Working(t)
        /\ UNCHANGED <<job, fpos, content>>
    BY <1>7 DEF Read, Phase, Working, fileVars
  <2>2. offset = Target(t) /\ OnTrack(t)
    BY <1>2, <1>7, <2>1 DEF Read, NoteTorn
  <2>3. CASE level[t] = "dind"
    <3>1. /\ pc'[t] = "first" /\ Phase(t)' = "first" /\ first'[t] = offset
      BY <1>1, <1>7, <2>3 DEF Read, Phase, ThreadTypeOK
    <3>2. offset = job[t]
      BY <2>2, <2>3 DEF Target
    <3>3. QED
      BY <2>1, <2>2, <3>1, <3>2 DEF OnTrack
  <2>4. CASE level[t] = "ind"
    <3>1. /\ pc'[t] = "second" /\ Phase(t)' = "second" /\ ind'[t] = offset
          /\ first' = first /\ i' = i
      BY <1>1, <1>7, <2>4 DEF Read, Phase, ThreadTypeOK
    <3>2. offset = disk[first[t]][i[t]] /\ first[t] = job[t] /\ disk[first[t]][i[t]] # 0
      BY <1>1, <2>1, <2>2, <2>4 DEF Target, OnTrack, PlaceOK
    <3>3. QED
      BY <2>1, <2>2, <3>1, <3>2 DEF OnTrack
  <2>5. CASE level[t] = "data"
    <3>1. /\ pc'[t] = "write" /\ Phase(t)' = "data" /\ data'[t] = offset
          /\ first' = first /\ ind' = ind /\ i' = i /\ n' = n
      BY <1>1, <1>7, <2>5 DEF Read, Phase, ThreadTypeOK
    <3>2. offset = disk[ind[t]][n[t]]
      BY <2>2, <2>5 DEF Target
    <3>3. QED
      BY <2>1, <2>2, <2>5, <3>1, <3>2 DEF OnTrack
  <2>6. QED
    BY <1>7, <2>3, <2>4, <2>5 DEF Read
<1>8. CASE DumpFirst(t)
  <2>1. /\ Phase(t) = "first" /\ Phase(t)' = "ind" /\ pc'[t] = "seek" /\ Working(t)
        /\ UNCHANGED <<job, first, ind, data, i, n, fpos, content>>
    BY <1>1, <1>8 DEF DumpFirst, Call, bufVars, fileVars, Phase, ThreadTypeOK, Working
  <2>2. QED
    BY <1>2, <2>1 DEF OnTrack
<1>9. CASE DumpData(t)
  <2>1. /\ Phase(t) = "second" /\ Phase(t)' = "data" /\ pc'[t] = "seek" /\ Working(t)
        /\ UNCHANGED <<job, first, ind, data, i, n, fpos, content>>
    BY <1>1, <1>9 DEF DumpData, Call, bufVars, fileVars, Phase, ThreadTypeOK, Working
  <2>2. QED
    BY <1>2, <2>1 DEF OnTrack
<1>10. CASE SecondEnds(t)
  <2>1. /\ Phase(t) = "second" /\ Phase(t)' = "first" /\ pc'[t] = "first" /\ Working(t)
        /\ UNCHANGED <<job, first, fpos, content>>
    BY <1>1, <1>10 DEF SecondEnds, bufVars, fileVars, Phase, ThreadTypeOK, Working
  <2>2. QED
    BY <1>2, <2>1 DEF OnTrack
<1>11. CASE Write(t)
  <2>1. /\ pc[t] = "write" /\ Phase(t) = "data" /\ Phase(t)' = "second" /\ pc'[t] = "second"
        /\ fpos'[t] = fpos[t] + 1 /\ UNCHANGED <<job, first, ind, i>> /\ Working(t)
    BY <1>1, <1>11 DEF Write, bufVars, Phase, ThreadTypeOK, Working
  <2>2. OnTrack(t) /\ ContentRight(job[t])
    BY <1>2, <2>1
  <2>3. fpos[t] + 1 <= Len(content'[job[t]])
    BY <1>11, <2>2, WriteRight
  <2>4. QED
    BY <2>1, <2>2, <2>3 DEF OnTrack
<1>12. QED
  BY <1>3, <1>4, <1>5, <1>6, <1>7, <1>8, <1>9, <1>10, <1>11, Returning DEF ThreadNext

\* The reads of one thread spoil only the file it is dumping.
LEMMA TrackedStep == TypeInv /\ Tracked /\ [Next]_vars => Tracked'
<1> SUFFICES ASSUME TypeInv, Tracked, [Next]_vars
             PROVE  Tracked'
  OBVIOUS
<1>1. disk' = disk /\ torn \subseteq torn'
  BY DiskNeverChanges, TornGrows
<1>2. CASE ScanNext \/ SpuriousWakeup \/ UNCHANGED vars
  <2>1. UNCHANGED local /\ content' = content
    BY <1>2 DEF ScanNext, ScanSeek, ScanRead, ScanLook, ScanSleeps, ScanWoken, NextBlock,
                SpuriousWakeup, vars, fileVars
  <2>2. \A s \in Threads : PlaceOf(s)' = PlaceOf(s) /\ job'[s] = job[s] /\ (Working(s)' <=> Working(s))
    BY <2>1 DEF local, bufVars, PlaceOf, Working
  <2>3. \A b \in Numbers \ torn' : ContentRight(b)'
    BY <1>1, <2>1, ContentStays DEF Tracked
  <2>4. \A s \in Threads : Working(s)' /\ job'[s] \notin torn' => OnTrack(s)'
    BY <1>1, <2>1, <2>2, TrackStays DEF Tracked
  <2>5. QED
    BY <2>3, <2>4 DEF Tracked
<1>3. CASE Restart
  <2>1. content' = content /\ \A s \in Threads : ~ Working(s)'
    BY <1>3 DEF Restart, Fresh, Working
  <2>2. \A b \in Numbers \ torn' : ContentRight(b)'
    BY <1>1, <2>1, ContentStays DEF Tracked
  <2>3. QED
    BY <2>1, <2>2 DEF Tracked
<1>4. ASSUME NEW t \in Threads, ThreadNext(t)
      PROVE  Tracked'
  <2>1. \A b \in Numbers \ torn' : ContentRight(b)'
    BY <1>1, <1>4, ContentStep
  <2>2. ASSUME NEW s \in Threads, s # t, Working(s)', job'[s] \notin torn'
        PROVE  OnTrack(s)'
    <3>1. PlaceOf(s)' = PlaceOf(s) /\ pc'[s] = pc[s] /\ job'[s] = job[s]
      BY <1>4, <2>2, OthersStay DEF PlaceOf, TypeInv
    <3>2. Working(s) /\ job[s] \in Numbers /\ (Working(t) => job[s] # job[t])
      BY <2>2, <3>1 DEF Working, TypeInv, JobsApart
    <3>3. content'[job[s]] = content[job[s]]
      BY <1>4, <3>2, ContentChanges
    <3>4. OnTrack(s)
      BY <1>1, <2>2, <3>1, <3>2 DEF Tracked
    <3>5. QED
      BY <1>1, <3>1, <3>3, <3>4, TrackStays
  <2>3. QED
    BY <1>1, <1>4, <2>1, <2>2, OwnTrack DEF Tracked
<1>5. QED
  BY <1>2, <1>3, <1>4 DEF Next

LEMMA InitTracked == Init => Tracked
<1> SUFFICES ASSUME Init
             PROVE  Tracked
  OBVIOUS
<1>1. \A b \in Numbers : Len(content[b]) = 0
  BY DEF Init
<1>2. \A b \in Numbers : ContentRight(b)
  BY <1>1, SizesOK DEF ContentRight, Sizes
<1>3. \A t \in Threads : ~ Working(t)
  BY DEF Init, Fresh, Working
<1>4. QED
  BY <1>2, <1>3 DEF Tracked

LEMMA TrackedCorrect == Spec => [](TypeInv /\ Tracked)
<1>1. TypeInv /\ [Next]_vars => TypeInv'
  BY TypeStep, JobsStep, ScanStep, PlacesStep DEF TypeInv
<1>2. QED
  BY <1>1, InitTypes, InitTracked, TrackedStep, PTL DEF Spec

(***************************************************************************)
(* Across kills and restarts, write errors and the other users of the      *)
(* disk, what is in a recovery file is the beginning of the lost file: the *)
(* writes of dump_block start at offset 0 of a file that is not truncated  *)
(* and overwrite only what is already right.  Excepted are the files of    *)
(* which a read went elsewhere.                                            *)
(***************************************************************************)
THEOREM OnlyRight == Spec => []OnlyRightData
<1>1. TypeInv /\ Tracked => OnlyRightData
  BY RightIsPrefix DEF TypeInv, Tracked, OnlyRightData
<1>2. QED
  BY <1>1, TrackedCorrect, PTL

-----------------------------------------------------------------------------
(* What the dumps report                                                   *)

\* A dump on its track that returns 0 has written all of the file.
LEMMA EndsOk ==
  ASSUME TypeInv, NEW t \in Threads, OnTrack(t), NEW b \in Numbers, b = job[t],
         ContentRight(b), DumpEnds(t) \/ (SecondStops(t) /\ n[t] # 0)
  PROVE  content[b] = LostFile(b) /\ EndsWell(b)
<1>1. fpos[t] <= Len(content[b])
  BY DEF OnTrack
<1>2. CASE DumpEnds(t)
  <2>1. Phase(t) = "first" /\ FirstEnds(t) /\ i[t] \in 0 .. DIND_MAX_OFFSET /\ first[t] = b
    BY <1>2 DEF DumpEnds, Phase, TypeInv, TypeOK, ThreadTypeOK, OnTrack
  <2>2. /\ fpos[t] \in 0 .. MaxLength /\ b \in DiskRange
        /\ i[t] = DIND_MAX_OFFSET => fpos[t] = MaxLength
        /\ i[t] < DIND_MAX_OFFSET => FirstOf(b, fpos[t]) = disk[b][i[t]]
    BY <2>1, FirstPlace
  <2>3. i[t] = DIND_MAX_OFFSET \/ i[t] < DIND_MAX_OFFSET
    BY <2>1, SizesOK DEF Sizes
  <2>4. fpos[t] = MaxLength \/ FirstOf(b, fpos[t]) = 0
    BY <2>1, <2>2, <2>3 DEF FirstEnds
  <2>5. fpos[t] < MaxLength => ~ Readable(b, fpos[t])
    BY <2>4, SizesOK DEF Readable, NoFirst, Sizes
  <2>6. FileLength(b) = fpos[t] /\ content[b] = LostFile(b)
    BY <1>1, <2>5, EndHere
  <2>7. QED
    BY <2>2, <2>4, <2>6 DEF EndsWell
<1>3. CASE SecondStops(t) /\ n[t] # 0
  <2>1. Phase(t) = "second" /\ n[t] < WORDS /\ disk[ind[t]][n[t]] = 0
    BY <1>3 DEF SecondStops, Phase
  <2>2. /\ fpos[t] % WORDS = n[t] /\ b \in DiskRange
        /\ FirstOf(b, fpos[t]) \in DiskRange /\ DataOf(b, fpos[t]) = 0
    BY <2>1, SecondPlace
  <2>3. ~ Readable(b, fpos[t])
    BY <2>2, SizesOK DEF Readable, NoData, Sizes
  <2>4. FileLength(b) = fpos[t] /\ content[b] = LostFile(b)
    BY <1>1, <2>3, EndHere
  <2>5. QED
    BY <1>3, <2>2, <2>4 DEF EndsWell
<1>4. QED
  BY <1>2, <1>3

\* A dump on its track that gives up because of what it finds is right to do so.
LEMMA EndsBad ==
  ASSUME TypeInv, NEW t \in Threads, OnTrack(t), NEW b \in Numbers, b = job[t],
         ContentRight(b),
         \/ pc[t] \in {"seek", "read"} /\ Target(t) \notin DiskRange
         \/ SecondStops(t) /\ n[t] = 0
         \/ ExceedsMaxBlocks(t)
  PROVE  ~ EndsWell(b)
<1> USE DEF Sizes
<1>1. /\ fpos[t] <= Len(content[b]) /\ Sizes /\ PlaceOK(t) /\ level[t] \in {"dind", "ind", "data"}
      /\ \A c \in DiskRange, w \in Words : disk[c][w] \in Nat
  BY SizesOK, DiskShape
     DEF OnTrack, TypeInv, PlacesOK, TypeOK, SharedTypeOK, ThreadTypeOK
\* It cannot go on inside a first level block.
<1>2. ASSUME Phase(t) \in {"second", "data"}, n[t] < WORDS,
             DataOf(b, fpos[t]) \notin (1 .. MAX_BLOCKS) \cap DiskRange,
             n[t] = 0 \/ DataOf(b, fpos[t]) # 0
      PROVE  ~ EndsWell(b)
  <2>1. /\ fpos[t] \in Nat /\ fpos[t] < MaxLength /\ fpos[t] % WORDS = n[t]
        /\ FirstOf(b, fpos[t]) # 0
    BY <1>2, SecondPlace
  <2>2. ~ Readable(b, fpos[t])
    BY <1>2 DEF Readable, NoData
  <2>3. FileLength(b) = fpos[t]
    BY <1>1, <2>2, EndHere
  <2>4. QED
    BY <1>1, <1>2, <2>1, <2>3 DEF EndsWell
<1>3. CASE pc[t] \in {"seek", "read"} /\ Target(t) \notin DiskRange
  <2>1. Phase(t) = level[t]
    BY <1>3 DEF Phase
  <2>2. CASE level[t] = "dind"
    <3>1. b \notin DiskRange
      BY <1>3, <2>2 DEF Target
    <3>2. QED
      BY <3>1 DEF EndsWell
  <2>3. CASE level[t] = "ind"
    <3>1. /\ i[t] < DIND_MAX_OFFSET /\ first[t] = b
          /\ disk[b][i[t]] # 0 /\ disk[b][i[t]] \notin DiskRange
      BY <1>1, <1>3, <2>1, <2>3 DEF PlaceOK, OnTrack, Target
    <3>2. /\ fpos[t] \in 0 .. MaxLength /\ fpos[t] < MaxLength /\ fpos[t] % WORDS = 0
          /\ FirstOf(b, fpos[t]) # 0 /\ FirstOf(b, fpos[t]) \notin DiskRange
      BY <2>1, <2>3, <3>1, FirstPlace
    <3>3. ~ Readable(b, fpos[t])
      BY <3>2 DEF Readable, NoFirst
    <3>4. FileLength(b) = fpos[t]
      BY <1>1, <3>3, EndHere
    <3>5. QED
      BY <1>1, <3>2, <3>4 DEF EndsWell
  <2>4. CASE level[t] = "data"
    <3>1. /\ n[t] < WORDS /\ disk[ind[t]][n[t]] \in 1 .. MAX_BLOCKS
          /\ disk[ind[t]][n[t]] \notin DiskRange
      BY <1>1, <1>3, <2>1, <2>4 DEF PlaceOK, Target
    <3>2. DataOf(b, fpos[t]) = disk[ind[t]][n[t]]
      BY <2>1, <2>4, <3>1, SecondPlace
    <3>3. QED
      BY <1>1, <1>2, <2>1, <2>4, <3>1, <3>2
  <2>5. QED
    BY <1>1, <2>2, <2>3, <2>4
<1>4. CASE SecondStops(t) /\ n[t] = 0
  <2>1. Phase(t) = "second" /\ n[t] < WORDS /\ disk[ind[t]][n[t]] = 0
    BY <1>4 DEF SecondStops, Phase
  <2>2. DataOf(b, fpos[t]) = 0
    BY <2>1, SecondPlace
  <2>3. QED
    BY <1>1, <1>2, <1>4, <2>1, <2>2
<1>5. CASE ExceedsMaxBlocks(t)
  <2>1. Phase(t) = "second" /\ n[t] < WORDS /\ disk[ind[t]][n[t]] > MAX_BLOCKS
    BY <1>5 DEF ExceedsMaxBlocks, Phase
  <2>2. DataOf(b, fpos[t]) = disk[ind[t]][n[t]] /\ ind[t] \in DiskRange
    BY <2>1, SecondPlace
  <2>3. n[t] \in Words
    BY <1>1, <2>1 DEF TypeInv, TypeOK, ThreadTypeOK, Words
  <2>4. DataOf(b, fpos[t]) \in Nat /\ DataOf(b, fpos[t]) > MAX_BLOCKS
    BY <1>1, <2>1, <2>2, <2>3
  <2>5. QED
    BY <1>1, <1>2, <2>1, <2>4
<1>6. QED
  BY <1>3, <1>4, <1>5

\* A candidate whose dump has not ended now, or that did not change, is no worse than it was.
LEMMA FileStays ==
  ASSUME disk' = disk, NEW b,
         \/ result'[b] \notin {"ok", "bad", "failed"}
         \/ /\ result'[b] = result[b] /\ content'[b] = content[b]
            /\ (b \in exists' <=> b \in exists)
            /\ FileRight(b)
  PROVE  FileRight(b)'
BY DiskStays DEF FileRight

\* The candidate of a thread that returns.
LEMMA ReturnRight ==
  ASSUME TypeInv, Tracked, NEW t \in Threads, disk' = disk,
         \/ SeekFails(t) \/ ReadFails(t) \/ DumpEnds(t) \/ SecondStops(t)
         \/ ExceedsMaxBlocks(t) \/ WriteFails(t),
         NEW b \in Numbers, b = job[t], b \notin torn'
  PROVE  FileRight(b)'
<1>1. PICK ret : Returns(t, ret)
  BY Returning
<1>2. /\ result' = [result EXCEPT ![b] = ret] /\ result'[b] = ret /\ Working(t) /\ b \in exists
      /\ ret = "ok" => exists' = exists /\ content' = content
      /\ ret # "ok" => b \notin exists'
  BY <1>1 DEF Returns, Return, TypeInv, TypeOK, SharedTypeOK, JobsApart, Working
<1>3. b \notin torn /\ OnTrack(t) /\ ContentRight(b)
  BY <1>1, <1>2 DEF Tracked, Returns, Return, LeaveDump, NoteTorn
<1>4. ASSUME ret = "ok"
      PROVE  DumpEnds(t) \/ (SecondStops(t) /\ n[t] # 0)
  BY <1>2, <1>4 DEF SeekFails, ReadFails, SecondStops, ExceedsMaxBlocks, WriteFails, Return,
                    TypeInv, TypeOK, SharedTypeOK
<1>5. ASSUME ret = "bad"
      PROVE  \/ pc[t] \in {"seek", "read"} /\ Target(t) \notin DiskRange
             \/ SecondStops(t) /\ n[t] = 0
             \/ ExceedsMaxBlocks(t)
  <2>1. result'[b] = "bad"
    BY <1>2, <1>5
  <2>2. ASSUME NEW r, Return(t, r)
        PROVE  r = "bad" /\ (pc[t] = "read" => offset = Target(t))
    BY <2>1, <2>2 DEF Return, LeaveDump, NoteTorn, TypeInv, TypeOK, SharedTypeOK
  <2>3. ~ WriteFails(t) /\ ~ DumpEnds(t) /\ (SecondStops(t) => n[t] = 0)
    BY <2>2 DEF WriteFails, DumpEnds, SecondStops
  <2>4. ReadFails(t) => pc[t] = "read" /\ Target(t) \notin DiskRange
    BY <2>2 DEF ReadFails
  <2>5. SeekFails(t) => pc[t] = "seek" /\ Target(t) \notin DiskRange
    <3>1. pc[t] = "seek" => Target(t) \in Nat
      BY TargetType DEF TypeInv
    <3>2. QED
      BY <3>1, DiskShape DEF SeekFails, TypeInv, TypeOK, SharedTypeOK
  <2>6. QED
    BY <2>3, <2>4, <2>5
<1>6. ret = "ok" => content[b] = LostFile(b) /\ EndsWell(b)
  BY <1>3, <1>4, EndsOk
<1>7. ret = "bad" => ~ EndsWell(b)
  BY <1>3, <1>5, EndsBad
<1>8. QED
  BY <1>2, <1>6, <1>7, DiskStays DEF FileRight

LEMMA RecoveredStep == TypeInv /\ Tracked /\ RecoveredRight /\ [Next]_vars => RecoveredRight'
<1> SUFFICES ASSUME TypeInv, Tracked, RecoveredRight, [Next]_vars,
                    NEW b \in Numbers, b \notin torn'
             PROVE  FileRight(b)'
  BY DEF RecoveredRight
<1>1. disk' = disk /\ b \notin torn /\ FileRight(b) /\ SharedTypeOK
  BY DiskNeverChanges, TornGrows DEF RecoveredRight, TypeInv, TypeOK
<1>2. CASE ScanSeek \/ ScanRead \/ ScanSleeps \/ SpuriousWakeup \/ UNCHANGED vars
  BY <1>1, <1>2, FileStays DEF ScanSeek, ScanRead, ScanSleeps, SpuriousWakeup, vars, fileVars
<1>3. CASE ScanLook \/ ScanWoken
  BY <1>1, <1>3, MovingOn, FileStays DEF MovesOn, NextBlock, SharedTypeOK, TypeInv
<1>4. CASE Restart
  BY <1>1, <1>4, FileStays DEF Restart
<1>5. ASSUME NEW t \in Threads, Open(t) \/ OpenFails(t)
      PROVE  FileRight(b)'
  BY <1>1, <1>5, FileStays, Dequeued DEF Open, OpenFails, SharedTypeOK
<1>6. ASSUME NEW t \in Threads,
             \/ SeekFails(t) \/ ReadFails(t) \/ DumpEnds(t) \/ SecondStops(t)
             \/ ExceedsMaxBlocks(t) \/ WriteFails(t)
      PROVE  FileRight(b)'
  <2>1. CASE b = job[t]
    BY <1>1, <1>6, <2>1, ReturnRight
  <2>2. CASE b # job[t]
    <3>1. PICK ret : Returns(t, ret)
      BY <1>6, Returning
    <3>2. /\ result'[b] = result[b] /\ content'[b] = content[b]
          /\ (b \in exists' <=> b \in exists)
      BY <1>1, <2>2, <3>1 DEF Returns, Return, SharedTypeOK
    <3>3. QED
      BY <1>1, <3>2, FileStays
  <2>3. QED
    BY <2>1, <2>2
<1>7. ASSUME NEW t \in Threads, Write(t)
      PROVE  FileRight(b)'
  <2>1. result' = result /\ exists' = exists
    BY <1>7 DEF Write
  <2>2. content'[b] = content[b] \/ (Working(t) /\ b = job[t])
    BY <1>7, ContentChanges DEF ThreadNext
  <2>3. Working(t) /\ b = job[t] => result'[b] = "busy"
    BY <2>1 DEF TypeInv, JobsApart
  <2>4. QED
    BY <1>1, <2>1, <2>2, <2>3, FileStays
<1>8. ASSUME NEW t \in Threads,
             Seek(t) \/ Read(t) \/ DumpFirst(t) \/ DumpData(t) \/ SecondEnds(t)
      PROVE  FileRight(b)'
  BY <1>1, <1>8, FileStays DEF Seek, Read, DumpFirst, DumpData, Call, SecondEnds, fileVars
<1>9. QED
  BY <1>2, <1>3, <1>4, <1>5, <1>6, <1>7, <1>8 DEF Next, ScanNext, ThreadNext

(***************************************************************************)
(* A dump that returns 0 has left the whole lost file and nothing else; it *)
(* gave up because of what it found on the disk only if the file is        *)
(* damaged; and a dump that did not return 0 leaves no file.  It holds     *)
(* for every disk and any number of threads, except for a file of which a  *)
(* read came after somebody else had moved the shared offset.              *)
(***************************************************************************)
THEOREM Recovered == Spec => []RecoveredRight
<1>1. Init => RecoveredRight
  BY DEF Init, RecoveredRight, FileRight
<1>2. QED
  BY <1>1, TrackedCorrect, RecoveredStep, PTL DEF Spec

=============================================================================
