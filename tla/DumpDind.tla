------------------------------ MODULE DumpDind ------------------------------
(***************************************************************************)
(* The users of the disk in guess_inode.c: main, whose get_block_data      *)
(* reads chunk after chunk and numbers the blocks guess_dind_data accepts, *)
(* and the dump threads, which follow an accepted block to the data blocks *)
(* of the lost file and write them, in order, to "<blkno>_file.recovery".  *)
(*                                                                         *)
(* All use the one descriptor main opened (dti[i].disk_fd = fd), so they   *)
(* share its file offset, and get_block_data and dump_block set the offset *)
(* and read in two calls.  The offset is counted in blocks.  The content   *)
(* of a data block is represented by its number, a recovery file by the    *)
(* sequence of block numbers written to it.                                *)
(*                                                                         *)
(* The ring between main and the threads is the subject of DindPipeline;   *)
(* here it is the set of the candidates that are "found" and not yet       *)
(* taken.  They are queued in ascending order, so the first is the least.  *)
(* Main sleeps when it is full, with the signal tested where line 297 does *)
(* it; one step is the whole critical section.                             *)
(***************************************************************************)
EXTENDS Integers, Sequences, FiniteSets, SequencesExt

CONSTANTS Threads,            \* the dump threads
          WORDS,              \* BLK_SIZE / sizeof(uint32_t)
          GROUP0_DATA_START, GROUP0_DATA_END,
          DIND_MAX_OFFSET,
          MAX_BLOCKS,
          MAX_QUEUED_NUM,     \* the slots of the ring
          ChunkBlocks,        \* READ_BUFSIZE / BLK_SIZE
          Disks,              \* the disk contents to consider
          Dinds,              \* the blocks guess_dind_data accepts
          Faults,             \* what the environment may do
          MaxKills            \* bound: how often the process dies

Words == 0 .. WORDS - 1
BlocksOf(d) == DOMAIN d

\* The numbers main may give a candidate.
Numbers == GROUP0_DATA_START .. GROUP0_DATA_END

ASSUME DumpAssumption ==
  /\ WORDS \in Nat \ {0}
  /\ GROUP0_DATA_START \in Nat
  /\ GROUP0_DATA_END \in Nat /\ GROUP0_DATA_START <= GROUP0_DATA_END
  /\ DIND_MAX_OFFSET \in 1 .. WORDS
  /\ MAX_BLOCKS \in Nat
  /\ MAX_QUEUED_NUM \in Nat \ {0}
  /\ ChunkBlocks \in Nat \ {0}
  /\ \A d \in Disks : /\ Cardinality(BlocksOf(d)) \in Nat
                      /\ BlocksOf(d) = 0 .. Cardinality(BlocksOf(d)) - 1
                      /\ \A b \in BlocksOf(d) : d[b] \in [Words -> Nat]
  /\ Faults \subseteq {"open", "read", "write", "spurious"}
  /\ MaxKills \in Nat

VARIABLES disk,        \* disk[b]: block b as words
          offset,      \* the offset of the shared descriptor
          next_block,  \* main: the number of the next block it looks at
          scanPc,      \* where main is
          at, left,    \* the block under p in main's buffer, and how many are left
          exists,      \* the recovery files in the directory, by block number
          content,     \* content[b]: what is in the file of b
          result,      \* result[b]: what became of candidate b in this run
          pc, job,     \* per thread: where it is, the blkno it dumps
          level,       \* which dump_block call it is in
          first, ind,  \* the blocks that addr_buf and first_ibuf were read from
          i, n,        \* the loop counters
          data,        \* the block data_buf was read from
          fpos,        \* the offset in the recovery file
          kills,       \* how often the process has died
          torn,        \* history: files some read of which went elsewhere
          scanTorn     \* history: a chunk main read was not the one it asked for

scanVars == <<next_block, scanPc, at, left, scanTorn>>
diskVars == <<disk, offset>>
fileVars == <<exists, content, result>>
bufVars == <<first, ind, data>>
local == <<pc, job, level, bufVars, i, n, fpos>>
vars == <<diskVars, scanVars, fileVars, local, kills, torn>>

DiskRange == BlocksOf(disk)
DiskBlocks == Cardinality(DiskRange)

\* The threads of a new process.
Fresh(x) == [t \in Threads |-> x]

Init ==
  /\ disk \in Disks
  /\ offset = 0
  /\ next_block = GROUP0_DATA_START
  /\ scanPc = "seek"
  /\ at = 0
  /\ left = 0
  /\ exists = {}
  /\ content = [b \in Numbers |-> <<>>]
  /\ result = [b \in Numbers |-> "none"]
  /\ pc = Fresh("idle")
  /\ job = Fresh(0)
  /\ level = Fresh("dind")
  /\ first = Fresh(0)
  /\ ind = Fresh(0)
  /\ data = Fresh(0)
  /\ i = Fresh(0)
  /\ n = Fresh(0)
  /\ fpos = Fresh(0)
  /\ kills = 0
  /\ torn = {}
  /\ scanTorn = FALSE

-----------------------------------------------------------------------------
(* main and get_block_data                                                 *)

ScanSeek ==
  /\ scanPc = "seek"
  /\ offset' = next_block
  /\ scanPc' = "read"
  /\ UNCHANGED <<disk, next_block, at, left, scanTorn, fileVars, local, kills, torn>>

\* How many blocks read returns at offset o: a buffer full, or what is left.
ChunkAt(o) ==
  IF o >= DiskBlocks THEN 0
  ELSE IF o + ChunkBlocks <= DiskBlocks THEN ChunkBlocks ELSE DiskBlocks - o

\* The read delivers what is at the shared offset; nothing behind the disk's end.
ScanRead ==
  /\ scanPc = "read"
  /\ at' = IF ChunkAt(offset) = 0 THEN 0 ELSE offset
  /\ left' = ChunkAt(offset)
  /\ offset' = offset + ChunkAt(offset)
  /\ scanTorn' = (scanTorn \/ offset # next_block)
  /\ scanPc' = IF ChunkAt(offset) = 0 THEN "seek" ELSE "look"
  /\ UNCHANGED <<disk, next_block, fileVars, local, kills, torn>>

\* The candidates in the ring, and queue_full.
Queued == {b \in Numbers : result[b] = "found"}
Full == Cardinality(Queued) = MAX_QUEUED_NUM

BugCountsFirst ==
  LET b == IF next_block + 1 \in Numbers THEN next_block + 1 ELSE next_block IN
  result' = [result EXCEPT ![b] = IF Full THEN "refused" ELSE "found"]

\* enqueue the number next_block; main ignores that a full ring refuses it.
Enqueue == result' = [result EXCEPT ![next_block] = IF Full THEN "refused" ELSE "found"]

\* On to the next block: of the buffer, of the next chunk, or none.
NextBlock ==
  /\ at' = IF left = 1 THEN 0 ELSE at + 1
  /\ left' = left - 1
  /\ next_block' = next_block + 1
  /\ scanPc' = IF next_block = GROUP0_DATA_END THEN "done"
               ELSE IF left = 1 THEN "seek" ELSE "look"
  /\ UNCHANGED <<diskVars, scanTorn, exists, content, local, kills, torn>>

\* guess_dind_data rejects the block, or accepts it and the ring takes it.
ScanLook ==
  /\ scanPc = "look"
  /\ \/ at \notin Dinds /\ UNCHANGED result
     \/ at \in Dinds /\ ~ Full /\ Enqueue
  /\ NextBlock

\* The ring is full: pthread_cond_wait.
ScanSleeps ==
  /\ scanPc = "look" /\ at \in Dinds /\ Full
  /\ scanPc' = "wait"
  /\ UNCHANGED <<diskVars, next_block, at, left, scanTorn, fileVars, local, kills, torn>>

\* pthread_cond_wait may return without a signal.
SpuriousWakeup ==
  /\ scanPc = "wait" /\ "spurious" \in Faults
  /\ scanPc' = "awake"
  /\ UNCHANGED <<diskVars, next_block, at, left, scanTorn, fileVars, local, kills, torn>>

\* Main is awake again and enqueues, without testing the ring again.
ScanWoken ==
  /\ scanPc = "awake"
  /\ Enqueue
  /\ NextBlock

-----------------------------------------------------------------------------
(* dump_block                                                              *)

\* The block number dump_block is called with.
Target(t) ==
  CASE level[t] = "dind" -> job[t]
    [] level[t] = "ind" -> disk[first[t]][i[t]]
    [] level[t] = "data" -> disk[ind[t]][n[t]]

\* Whether a read is about to deliver another block than the one asked for.
NoteTorn(t) ==
  torn' = IF pc[t] = "read" /\ offset # Target(t) THEN torn \cup {job[t]} ELSE torn

Seek(t) ==
  /\ pc[t] = "seek"
  /\ offset' = Target(t)
  /\ pc' = [pc EXCEPT ![t] = "read"]
  /\ UNCHANGED <<disk, scanVars, fileVars, job, level, bufVars, i, n, fpos, kills, torn>>

\* The read delivers whatever block the shared offset is at.
Read(t) ==
  /\ pc[t] = "read"
  /\ offset \in DiskRange
  /\ offset' = offset + 1
  /\ NoteTorn(t)
  /\ \/ /\ level[t] = "dind"
        /\ first' = [first EXCEPT ![t] = offset]
        /\ i' = [i EXCEPT ![t] = 0]
        /\ pc' = [pc EXCEPT ![t] = "first"]
        /\ UNCHANGED <<ind, data, n>>
     \/ /\ level[t] = "ind"
        /\ ind' = [ind EXCEPT ![t] = offset]
        /\ n' = [n EXCEPT ![t] = 0]
        /\ pc' = [pc EXCEPT ![t] = "second"]
        /\ UNCHANGED <<first, data, i>>
     \/ /\ level[t] = "data"
        /\ data' = [data EXCEPT ![t] = offset]
        /\ pc' = [pc EXCEPT ![t] = "write"]
        /\ UNCHANGED <<first, ind, i, n>>
  /\ UNCHANGED <<disk, scanVars, fileVars, job, level, fpos, kills>>

-----------------------------------------------------------------------------
(* dump_dind_data: open, dump, close, and remove the file on failure       *)

\* Take the first candidate out of the ring; the signal is tested after that.
Dequeue(b) ==
  /\ b \in Queued
  /\ \A c \in Queued : b <= c
  /\ scanPc' = IF scanPc = "wait" /\ Cardinality(Queued \ {b}) = MAX_QUEUED_NUM
               THEN "awake" ELSE scanPc
  /\ UNCHANGED <<next_block, at, left, scanTorn>>

\* A thread takes a candidate; O_CREAT without O_TRUNC keeps an old content.
Open(t) ==
  /\ pc[t] = "idle"
  /\ \E b \in Numbers :
        /\ Dequeue(b)
        /\ result' = [result EXCEPT ![b] = "busy"]
        /\ job' = [job EXCEPT ![t] = b]
        /\ exists' = exists \cup {b}
  /\ pc' = [pc EXCEPT ![t] = "seek"]
  /\ level' = [level EXCEPT ![t] = "dind"]
  /\ fpos' = [fpos EXCEPT ![t] = 0]
  /\ UNCHANGED <<diskVars, content, bufVars, i, n, kills, torn>>

OpenFails(t) ==
  /\ pc[t] = "idle" /\ "open" \in Faults
  /\ \E b \in Numbers :
        /\ Dequeue(b)
        /\ result' = [result EXCEPT ![b] = "unopened"]
  /\ UNCHANGED <<diskVars, exists, content, local, kills, torn>>

\* The descriptor of the file and the local variables end with the call.
LeaveDump(t) ==
  /\ pc' = [pc EXCEPT ![t] = "idle"]
  /\ job' = [job EXCEPT ![t] = 0]
  /\ level' = [level EXCEPT ![t] = "dind"]
  /\ first' = [first EXCEPT ![t] = 0]
  /\ ind' = [ind EXCEPT ![t] = 0]
  /\ data' = [data EXCEPT ![t] = 0]
  /\ i' = [i EXCEPT ![t] = 0]
  /\ n' = [n EXCEPT ![t] = 0]
  /\ fpos' = [fpos EXCEPT ![t] = 0]
  /\ NoteTorn(t)
  /\ UNCHANGED <<diskVars, scanVars, kills>>

BugNotRemoved(t, ret) ==
  /\ result' = [result EXCEPT ![job[t]] = ret]
  /\ LeaveDump(t)
  /\ UNCHANGED <<exists, content>>

Return(t, ret) ==
  /\ result' = [result EXCEPT ![job[t]] = ret]
  /\ exists' = IF ret = "ok" THEN exists ELSE exists \ {job[t]}
  /\ content' = IF ret = "ok" THEN content ELSE [content EXCEPT ![job[t]] = <<>>]
  /\ LeaveDump(t)

BugRetries(t) ==
  /\ pc[t] = "read"
  /\ offset \notin DiskRange \/ "read" \in Faults
  /\ pc' = [pc EXCEPT ![t] = "seek"]
  /\ NoteTorn(t)
  /\ UNCHANGED <<diskVars, scanVars, fileVars, job, level, bufVars, i, n, fpos, kills>>

\* A block device refuses an offset behind its end, an image file accepts it.
SeekFails(t) ==
  /\ pc[t] = "seek" /\ Target(t) > DiskBlocks
  /\ Return(t, "bad")

\* Nothing to read at the offset, or a disk error.
ReadFails(t) ==
  /\ pc[t] = "read"
  /\ \/ offset \notin DiskRange /\ Return(t, "bad")
     \/ "read" \in Faults /\ Return(t, "failed")

-----------------------------------------------------------------------------
(* __dump_dind_data                                                        *)

Call(t, l) ==
  /\ level' = [level EXCEPT ![t] = l]
  /\ pc' = [pc EXCEPT ![t] = "seek"]
  /\ UNCHANGED <<diskVars, scanVars, fileVars, job, bufVars, i, n, fpos, kills, torn>>

BugFirstEnds(t) == i[t] <= DIND_MAX_OFFSET => disk[first[t]][i[t]] = 0

\* The list of first level blocks ends with a zero or at DIND_MAX_OFFSET.
FirstEnds(t) == i[t] < DIND_MAX_OFFSET => disk[first[t]][i[t]] = 0

DumpFirst(t) ==
  /\ pc[t] = "first"
  /\ ~ FirstEnds(t)
  /\ Call(t, "ind")

DumpEnds(t) ==
  /\ pc[t] = "first"
  /\ FirstEnds(t)
  /\ Return(t, "ok")

\* The whole first level block was dumped: on to the next one.
SecondEnds(t) ==
  /\ pc[t] = "second" /\ n[t] >= WORDS
  /\ i' = [i EXCEPT ![t] = i[t] + 1]
  /\ pc' = [pc EXCEPT ![t] = "first"]
  /\ UNCHANGED <<diskVars, scanVars, fileVars, job, level, bufVars, n, fpos, kills, torn>>

\* A zero in a first level block ends the file, unless it is its first word.
SecondStops(t) ==
  /\ pc[t] = "second" /\ n[t] < WORDS
  /\ disk[ind[t]][n[t]] = 0
  /\ Return(t, IF n[t] = 0 THEN "bad" ELSE "ok")

\* Only the data block numbers are compared with MAX_BLOCKS.
ExceedsMaxBlocks(t) ==
  /\ pc[t] = "second" /\ n[t] < WORDS
  /\ disk[ind[t]][n[t]] > MAX_BLOCKS
  /\ Return(t, "bad")

DumpData(t) ==
  /\ pc[t] = "second" /\ n[t] < WORDS
  /\ disk[ind[t]][n[t]] \in 1 .. MAX_BLOCKS
  /\ Call(t, "data")

BugAppends(t) ==
  content' = [content EXCEPT ![job[t]] = Append(@, data[t])]

\* Write data_buf at the file offset.
PutData(t) ==
  content' = [content EXCEPT ![job[t]] =
                IF fpos[t] < Len(@) THEN [@ EXCEPT ![fpos[t] + 1] = data[t]]
                ELSE Append(@, data[t])]

Write(t) ==
  /\ pc[t] = "write"
  /\ PutData(t)
  /\ fpos' = [fpos EXCEPT ![t] = fpos[t] + 1]
  /\ n' = [n EXCEPT ![t] = n[t] + 1]
  /\ pc' = [pc EXCEPT ![t] = "second"]
  /\ UNCHANGED <<diskVars, scanVars, exists, result, job, level, bufVars, i, kills, torn>>

WriteFails(t) ==
  /\ pc[t] = "write" /\ "write" \in Faults
  /\ Return(t, "failed")

-----------------------------------------------------------------------------

(***************************************************************************)
(* The process dies (it is killed, or main returns because lseek64 or read *)
(* failed) and is started again; the files stay, the scan starts over.     *)
(***************************************************************************)
Restart ==
  /\ kills < MaxKills
  /\ kills' = kills + 1
  /\ offset' = 0
  /\ next_block' = GROUP0_DATA_START
  /\ scanPc' = "seek"
  /\ at' = 0
  /\ left' = 0
  /\ scanTorn' = FALSE
  /\ result' = [b \in Numbers |-> "none"]
  /\ pc' = Fresh("idle")
  /\ job' = Fresh(0)
  /\ level' = Fresh("dind")
  /\ first' = Fresh(0)
  /\ ind' = Fresh(0)
  /\ data' = Fresh(0)
  /\ i' = Fresh(0)
  /\ n' = Fresh(0)
  /\ fpos' = Fresh(0)
  /\ UNCHANGED <<disk, exists, content, torn>>

ScanNext == ScanSeek \/ ScanRead \/ ScanLook \/ ScanSleeps \/ ScanWoken

ThreadNext(t) ==
  \/ Open(t) \/ OpenFails(t) \/ Seek(t) \/ SeekFails(t) \/ Read(t) \/ ReadFails(t)
  \/ DumpFirst(t) \/ DumpEnds(t) \/ SecondEnds(t) \/ SecondStops(t)
  \/ ExceedsMaxBlocks(t) \/ DumpData(t) \/ Write(t) \/ WriteFails(t)

Next == ScanNext \/ SpuriousWakeup \/ Restart \/ \E t \in Threads : ThreadNext(t)

Spec == Init /\ [][Next]_vars

\* The operating system runs main and every dump thread; it owes main no spurious wakeup.
FairSpec == Spec /\ WF_vars(ScanNext) /\ \A t \in Threads : WF_vars(ThreadNext(t))

-----------------------------------------------------------------------------
(* What the file of a double indirect block is, read off the disk          *)

\* The first level block and the data block of position k of the file.
FirstOf(b, k) == IF b \in DiskRange THEN disk[b][k \div WORDS] ELSE 0
DataOf(b, k) == disk[FirstOf(b, k)][k % WORDS]

\* Position k cannot be read: there is no first level block, or no data block.
NoFirst(b, k) == FirstOf(b, k) = 0 \/ FirstOf(b, k) \notin DiskRange
NoData(b, k) == DataOf(b, k) \notin (1 .. MAX_BLOCKS) \cap DiskRange

MaxLength == DIND_MAX_OFFSET * WORDS

IsLength(b, len) ==
  /\ \A k \in 0 .. len - 1 : ~ NoFirst(b, k) /\ ~ NoData(b, k)
  /\ len < MaxLength => NoFirst(b, len) \/ NoData(b, len)

FileLength(b) == CHOOSE len \in 0 .. MaxLength : IsLength(b, len)

LostFile(b) == [k \in 1 .. FileLength(b) |-> DataOf(b, k - 1)]

\* There is a file, and it ends by a zero where one may be, not by a number out of range.
EndsWell(b) ==
  LET len == FileLength(b) IN
  /\ b \in DiskRange
  /\ \/ len = MaxLength
     \/ FirstOf(b, len) = 0
     \/ len % WORDS # 0 /\ FirstOf(b, len) \in DiskRange /\ DataOf(b, len) = 0

-----------------------------------------------------------------------------
(* Properties                                                              *)

Results == {"none", "found", "refused", "busy", "ok", "bad", "failed", "unopened"}

\* The disk, main and the directory.
SharedTypeOK ==
  /\ disk \in Disks
  /\ offset \in Nat
  /\ next_block \in GROUP0_DATA_START .. GROUP0_DATA_END + 1
  /\ scanPc \in {"seek", "read", "look", "wait", "awake", "done"}
  /\ at \in Nat
  /\ left \in 0 .. ChunkBlocks
  /\ exists \subseteq Numbers
  /\ content \in [Numbers -> Seq(DiskRange)]
  /\ result \in [Numbers -> Results]
  /\ kills \in 0 .. MaxKills
  /\ torn \subseteq Numbers
  /\ scanTorn \in BOOLEAN

\* The local variables of the dump threads.
ThreadTypeOK ==
  /\ pc \in [Threads -> {"idle", "seek", "read", "first", "second", "write"}]
  /\ job \in [Threads -> Numbers \cup {0}]
  /\ level \in [Threads -> {"dind", "ind", "data"}]
  /\ first \in [Threads -> DiskRange \cup {0}]
  /\ ind \in [Threads -> DiskRange \cup {0}]
  /\ data \in [Threads -> DiskRange \cup {0}]
  /\ i \in [Threads -> 0 .. DIND_MAX_OFFSET]
  /\ n \in [Threads -> 0 .. WORDS]
  /\ fpos \in [Threads -> 0 .. MaxLength]

\* The loop counters stay inside the buffers they index, the scan inside the group.
TypeOK == SharedTypeOK /\ ThreadTypeOK

FileRight(b) ==
  /\ result[b] = "ok" => b \in exists /\ content[b] = LostFile(b) /\ EndsWell(b)
  /\ result[b] = "bad" => ~ EndsWell(b)
  /\ result[b] \in {"bad", "failed"} => b \notin exists

(***************************************************************************)
(* A dump that returned 0 leaves the lost file, the whole of it and        *)
(* nothing else, even if it wrote over what a killed run had left; a dump  *)
(* that did not leaves no file, and gave up because of the disk's content  *)
(* ("bad") only if the file is damaged.  So it is in spite of other users  *)
(* of the disk, unless one of them came between a seek and a read of this  *)
(* very file.                                                              *)
(***************************************************************************)
RecoveredRight == \A b \in Numbers \ torn : FileRight(b)

(***************************************************************************)
(* What a dump that returned 0 has written is the lost file's, with no     *)
(* exception: "dump data" (line 205) and the exit code 0 of dump_block.    *)
(* It does not hold: the seek and the read are two calls on a descriptor   *)
(* all threads share, so a block of another file may be written.           *)
(***************************************************************************)
EveryFileRight ==
  \A b \in Numbers : result[b] = "ok" => IsPrefix(content[b], LostFile(b))

(***************************************************************************)
(* At every moment, across kills and restarts, a recovery file holds the   *)
(* first blocks of the lost file: whatever is interrupted, no wrong data   *)
(* is in the directory (misplaced reads of this file aside).               *)
(***************************************************************************)
OnlyRightData ==
  \A b \in Numbers \ torn : IsPrefix(content[b], LostFile(b))

(***************************************************************************)
(* The scan misses no candidate and counts right: as long as no chunk was  *)
(* displaced by a dump thread, the candidates handed to enqueue are        *)
(* exactly the accepted blocks below next_block, under their own numbers,  *)
(* and when it ends it has seen the disk up to GROUP0_DATA_END.            *)
(***************************************************************************)
ScanFindsAll ==
  ~ scanTorn =>
    /\ {b \in Numbers : result[b] # "none"} = {b \in Dinds \cap Numbers : b < next_block}
    /\ scanPc = "done" => GROUP0_DATA_END \in DiskRange

(***************************************************************************)
(* Every dump comes to an end, even when the shared offset makes it follow *)
(* blocks that have nothing to do with the file.                           *)
(***************************************************************************)
EveryDumpEnds ==
  \A b \in Numbers : result[b] = "busy" ~> result[b] # "busy"

(***************************************************************************)
(* How the scan ends, however the dump threads displace its reads (a read  *)
(* may deliver nothing because of them): it is through, or it sleeps on    *)
(* the ring for good, or it reads nothing for ever, which it does only on  *)
(* a disk that lacks the block GROUP0_DATA_END.  No behaviour keeps it     *)
(* busy otherwise.                                                         *)
(***************************************************************************)
ScanEnds ==
  \/ <>[](scanPc = "done")
  \/ <>[](scanPc = "wait")
  \/ GROUP0_DATA_END \notin DiskRange /\ <>[](scanPc \in {"seek", "read"} /\ left = 0)

-----------------------------------------------------------------------------
(* The inductive invariant behind these properties                         *)

Working(t) == pc[t] # "idle"

\* A candidate a thread works on is its alone, and its file is there.
JobsApart ==
  /\ \A t \in Threads : Working(t) =>
       job[t] \in Numbers /\ result[job[t]] = "busy" /\ job[t] \in exists
  /\ \A s, t \in Threads : Working(s) /\ Working(t) /\ job[s] = job[t] => s = t

\* Main looks at blocks of the disk; what it has not looked at has no number yet.
ScanInv ==
  /\ scanPc \in {"look", "wait", "awake"} => left > 0 /\ at + left <= DiskBlocks
  /\ scanPc \in {"look", "wait", "awake"} /\ ~ scanTorn => at = next_block
  /\ scanPc \in {"wait", "awake"} => at \in Dinds
  /\ scanPc = "done" <=> next_block = GROUP0_DATA_END + 1
  /\ \A b \in Numbers : result[b] # "none" => b < next_block

\* What a thread is about: reading a block of some level, or walking a list.
Phase(t) == CASE pc[t] \in {"seek", "read"} -> level[t]
              [] pc[t] = "write" -> "data"
              [] OTHER -> pc[t]

\* The file offset is the position that the loop counters give, which is inside the lists.
PlaceOK(t) ==
  /\ Phase(t) = "dind" => fpos[t] = 0
  /\ Phase(t) \in {"first", "ind"} => fpos[t] = i[t] * WORDS
  /\ Phase(t) \in {"second", "data"} => i[t] < DIND_MAX_OFFSET /\ fpos[t] = i[t] * WORDS + n[t]
  /\ Phase(t) = "ind" => i[t] < DIND_MAX_OFFSET /\ disk[first[t]][i[t]] # 0
  /\ Phase(t) = "data" => n[t] < WORDS /\ disk[ind[t]][n[t]] \in 1 .. MAX_BLOCKS
  /\ Phase(t) \in {"first", "ind", "second", "data"} => first[t] \in DiskRange
  /\ Phase(t) \in {"second", "data"} => ind[t] \in DiskRange
  /\ pc[t] = "write" => data[t] \in DiskRange

PlacesOK == \A t \in Threads : PlaceOK(t)

Readable(b, k) == ~ NoFirst(b, k) /\ ~ NoData(b, k)

\* What a file holds, from this run or an earlier one, are the data blocks of its positions.
ContentRight(b) ==
  /\ Len(content[b]) <= MaxLength
  /\ \A k \in 0 .. Len(content[b]) - 1 : Readable(b, k) /\ content[b][k + 1] = DataOf(b, k)

\* Unless one of its reads went elsewhere, a thread follows the blocks of its candidate.
OnTrack(t) ==
  /\ fpos[t] <= Len(content[job[t]])
  /\ Phase(t) \in {"first", "ind", "second", "data"} => first[t] = job[t]
  /\ Phase(t) \in {"second", "data"} => ind[t] = disk[job[t]][i[t]] /\ ind[t] # 0
  /\ pc[t] = "write" => data[t] = disk[ind[t]][n[t]]

Tracked ==
  /\ \A b \in Numbers \ torn : ContentRight(b)
  /\ \A t \in Threads : Working(t) /\ job[t] \notin torn => OnTrack(t)

=============================================================================
