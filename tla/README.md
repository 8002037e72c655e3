# somethingmess: models, checks and proofs

The repository is a collection of small, unrelated programs. This directory
holds TLA+ models of the ones with logic worth checking, the TLC
configurations that check them on small instances, and proofs checked by TLAPS.

## 1. Inventory

| component | state | operations | what is hard |
|---|---|---|---|
| `guess_inode`: scan and dump threads (`main`, `dump_file_thread`, `struct dumpdind_queue`) | ring (head, tail, size, block_no), mutex, condition variable, `is_finish`, `next_block`, per thread `blk_no`, `empty` | create threads, read a chunk, enqueue or wait, dequeue and signal, sleep, dump, join | five threads on one ring; a condition variable; an unlocked flag; failing `pthread_create` and reads |
| `guess_inode`: `guess_dind_data` | the buffer, loop counters | decide whether a block is a double indirect block | boundaries: a zero window, three thresholds |
| `guess_inode`: dumping (`dump_dind_data`, `__dump_dind_data`, `dump_block`, `get_block_data`) | the file offset of the shared descriptor, recovery files, loop counters | seek, read, follow two levels, write, remove | `lseek64` + `read` are not atomic; killed runs leave files that the next run overwrites |
| `kthread`: device driver (`kthread_test.c`) | `buf`, `size`, timer, `THREAD_WAKEUP`, kernel thread, module state | open, release, read, write, lseek, ioctl, timer function, thread loop, init, exit | lost wake-ups, removal order, signals, stale bytes |
| `kthread`: user test (`test_usr.c`, `test.sh`) | one file | write, ioctl, read, sleep, read | the sleep races with the timer |
| `dump_ahcireg.c` | line buffer, list of controllers, a mapping of `/dev/mem` | scan `/proc/iomem`, parse a line, dump registers | bytes and words mixed up in bounds, an endless loop on the second controller, an unterminated buffer |
| `behave-test`: runner (`mainTest.py`, `mod_utils/`) | the suites and root directory of `conf.yml`, the cases of a suite, the report files | read the configuration, run a file's command, compare with the answer, write JUnit XML | keys that an entry lacks keep the value of an earlier one; a mismatch keeps the status of the command; an exception or a command that hangs ends a run with old reports lying beside new ones |
| `behave-test`: behave steps, report helpers | none of their own | glue | - |
| `lru_test`: extend buffers | hold count, state bits, LRU lists | mark dirty, close, release | a sketch: most bodies and all helpers are missing, it does not compile |
| `list.h` (`lru_test/`, and the same functions in `guess_inode/`) | `next` and `prev` of every `list_head`, `first`, `next` and `pprev` of every hash chain | initialise, add, delete, replace, move, rotate, cut, splice, loop | each call writes up to six pointers of up to four objects, in an order that matters when some of them are the same object; entries deleted or moved under a loop |

How they interact. Only the three parts of `guess_inode` do: `main` calls
`guess_dind_data` on every block it reads and queues the blocks that pass;
dump threads take them from the ring and call `dump_dind_data`; `main` and the
dump threads read the disk through one file descriptor. The user test talks to
the driver by system calls. The other programs stand alone.

What makes each correct:

- scan and dump threads: no candidate is forgotten, none is dumped twice, the
  ring is touched only under the mutex, the program ends with everything dumped;
- `guess_dind_data`: the verdict is a function of the block that accepts lists
  of `DIND_MIN_OFFSET` to `DIND_MAX_OFFSET` block numbers;
- dumping: a recovery file is the lost file, or is removed; nothing else is
  ever in it;
- driver: no timer is lost, emptied bytes are gone, unloading ends and leaves
  nothing running;
- register dump: every controller is dumped once and nothing is read outside
  the mapping;
- test runner: what runs is what `conf.yml` names; a report tells for each file
  whether its command failed or its answer is wrong, and its counts are those of
  its cases; a run that ends has written a report for every suite;
- `list.h`: the pointers are closed rings in both directions, every call does to
  the lists what its comment says and leaves other lists alone, and a loop that
  is "safe against removal" visits every entry once although they are removed.

## 2. Plan

Modules, in order of importance. All of them are done.

1. `DindRing`, `DindPipeline`: the ring and the threads. Abstract
   specification `DindWork`, refined by `DindPipeline`.
2. `DindPipelineProofs`: types, mutual exclusion, the condition variable;
   `DindOrderProofs`: where every candidate is, and the refinement of `DindWork`.
3. `GuessDind`, `GuessDindProofs`: the loop and its declarative meaning.
4. `DumpDind`, `DumpDindProofs`: the scan and the dump threads on the shared
   file offset.
5. `Tdrv`, `TdrvProofs`: the driver.
6. `AhciScan`, `AhciRegs`, composed by `AhciDump`, and `AhciProofs`: line scan,
   list of controllers, bounds of the register dump.
7. `TestRunner`, `TestRunnerProofs`: from the configuration to the reports.
8. `LinuxList` with the abstract specification `ListSeqs` it implements, and
   `LinuxHlist`; `LinuxListProofs`: the pointers of both kinds of list, what the
   calls do to hash chains, and that `LinuxList` implements `ListSeqs`.

## 3. Modules and the code

**`DindRing`** is `struct dumpdind_queue` with `queue_full`, `queue_empty`,
`enqueue` and `dequeue`; field names are those of the code. `EXTENDS`ed by
`DindPipeline`, which models the mutex its callers hold.

**`DindPipeline`** has one action per stretch of code between two points where
another thread matters. `mainPc` and `pc[w]` say where a thread is: `check` is
the first statement after `pthread_mutex_lock`, `wait` is inside
`pthread_cond_wait`, `woken` is the `enqueue` after it. `is_finish` is written
by `main` without the mutex and read by a worker under it, after
`queue_empty`; the two tests are one step because nothing can be enqueued while
the worker holds the mutex, so the outcome is that of looking at `is_finish`
at the moment of the first test or of a later one. History variables: `found`
(blocks `guess_dind_data` accepted), `dumped`, `dropped` (blocks `enqueue`
refused). Faults are a constant: `pthread_create` fails, the read fails,
`pthread_cond_wait` returns unasked.

**`DindWork`** is the promise: candidates pass through a FIFO in scan order to
exactly one worker each, and are lost only to a full queue.

**`GuessDind`** is the loop of `guess_dind_data`, one step per turn. Its memory
reaches past the block as far as the compared window does.

**`DumpDind`** has one action per system call and per decision of `__dump_dind_data`,
and three for `main`: `ScanSeek` and `ScanRead` are the two calls of `get_block_data`,
`ScanLook` is one turn of the loop over the buffer. Both sides use the one `offset`,
so a seek of either may come between the seek and the read of the other. A data
block's content is its number, a recovery file the sequence of numbers written. The
ring is a set here, the candidates that are `found` and not yet taken; its slots and
its mutex are `DindPipeline`'s. Main sleeps on the full ring in the middle of a chunk
(`ScanSleeps`); `Dequeue` takes the least candidate, since they are queued in
ascending order, and tests for the signal after that, as line 297 does; so main is
woken only unasked (`SpuriousWakeup`), and then enqueues without a new test, which the
ring may refuse (`refused`). A seek to a place behind the end of a block device fails
(`SeekFails`). `Restart` is a killed process started again, files kept. `torn`
remembers the files a read of which went elsewhere, `scanTorn` that a chunk did.
`LostFile(b)` reads the right content off the disk without any loop.

**`Tdrv`** has one action per system call (they run under one mutex from start
to end) and takes `wait_event_interruptible`, the timer function and
`kthread_stop` apart where a wake-up could be lost. The driver has no `llseek` of
its own, so an offset may be anything up to `MaxOffset`, a bound beyond the buffer.
`old` remembers which bytes
were emptied and not rewritten.

**`AhciScan`** is `getbaseaddr` with `find_ahci_line` and `parse_line`. A read, the
search for the end of line, `lseek` and the terminating NUL are one action
(`ReadLine`), as nothing runs beside them; the two loops over the buffer take one step
a character, because they may run past what was read. `buf` keeps what earlier reads
left and goes on behind the buffer (`BEHIND`), where a loop without a NUL ends up. The
kernel fills a read or stops at a line's end (`ReadSizes`). A line is indented by its
depth in the kernel's tree of ranges (`Indent`), since what an ahci driver uses lies
below its PCI device; `parse_line` skips the blanks. What `/proc/iomem` may hold is
`KernelLine`: a line fits in the buffer, its addresses are in order and fit in an
`unsigned long long`, and "ahci" stands only in the line of a controller. `while
(link->next);` on a list that is not empty either hangs (`LinkHangs`) or, as C11 lets
a compiler assume that such a loop ends, is left out (`LinkReplaces`). `origin`
remembers for which line an entry was made.

**`AhciRegs`** is `getreginfo`, with the sizes of the code (64 words, 32 ports of
32 words). A printed word is the pair of its number and the name it is printed
under (`getinformation`, `getportinfo`); what the printers say about its bits is
left out. The kernel maps whole pages; a port read behind them may crash
(`Segfault`) or go on. **`AhciDump`** composes the two as `main` does: scan, then
`Call` for each element of the list.

**`TestRunner`** is `TranswarpTest`. `ParseEntry` is one turn of `_parse_conf`,
`RunFile` one of the loop of `_do_transwarp_sqls` with `run_case`,
`Command.run` and the comparison, `WriteReport` is `junit.py` with its counts;
`WriteReportFails` is the exception of its `makedirs`, `open` or `write`, the last of
which leaves an older report emptied (`CutReport`). `CaseName` is what
`split('.')[0]` makes of a file's name, which two files may share.
`ReportOf` adds
the cases of a suite to an empty report one after the other (`generate_reports`).
What the command of a file does is a member of `Outcomes`; those that raise an
exception nobody catches, or do not return, are `RunEnds`. The order of
`os.walk` is left open (`pending` is a set). `log` and `ran` remember which
outcomes a report was made from. An older run may have left a report
(`OldReport`).

**`LinuxList`** has one operator for each function of `list.h`, from a heap (`next`,
`prev`) to a heap with the assignments in the code's order, and one action for each
group of calls. A caller does what the comments ask: it adds what is on no list,
deletes what is on one, does not touch a head that was spliced away (`live`). `NULL`
is the poison, as in this copy. `StartLoop`, `LoopTurn` and `EndLoop` are
`list_for_each_safe` and its reverse, with a body that deletes the entry it is at or
moves it to any list, the loop's own included. `LoopTurnAgain` is the move to the end
of that list that the loop is still on its way to: it will meet the entry again, and
such a loop need not end; `MaxTurns` bounds it. `list_replace` takes a new head or
entry that is unused or on its own ring, and `list_cut_position` a target whose
entries are `Lost`. **`ListSeqs`** says the same of sequences and follows the comments
of the functions; `SeqSpec` is the refinement, from `ListOf(head)`, what
`list_for_each` visits. **`LinuxHlist`** adds the hash chains, whose `pprev` points at
a field: each object has one forward field, so the object stands for it. The two kinds
of list share no memory and each behaviour calls one kind only.

MC modules give model values and small data; they define nothing of the system.
Operators named `Bug...` (and `SignalsUntested`) are plausible mistakes, each
placed before the definition it would replace; the specifications do not use
them. They serve to confirm that each property notices a mistake.

## 4. Runs

| run | question | bounds | result |
|---|---|---|---|
| `pipeline` | is anything forgotten, dumped twice, or done without the mutex; is it a FIFO pipeline; does the program end, and what is queued get dumped? | 2 workers, ring of 2, 4 blocks, chunks of 1 to 3, all faults | holds, with the alternatives that `main` sleeps until woken unasked, or that a fault ended it |
| `pipeline_stuck` | does the scan finish? | same, no faults | violated: finding 1 |
| `guess_verdict` | what does `guess_dind_data` compute? | 7 words a block, minimum 2, window from word 4, words 0 to 3, all 65536 memories | holds |
| `guess_size` | are lists longer than `DIND_MAX_OFFSET` rejected? | same | violated: finding 2 |
| `dump` | does a dump recover the file while `main` scans, across kills, restarts and errors; does the scan count right; do dumps and scan end? | `main` and 1 dump thread, 9 disks of up to 8 blocks of 3 words, chunks of 2, 2 candidates, a ring of 1, all faults, 1 kill | holds, with the alternatives that `main` sleeps for ever or goes round on a short disk |
| `dump_wrong` | is every recovery file right? | `main` and 2 dump threads, 1 disk, no fault | violated: finding 3 |
| `tdrv` | are timers lost, does `rmmod` end, does anything outlive the module, do transfers stay in the buffer, how do emptied bytes come back? | 2 users, 2 bytes, offsets up to 3, all faults | holds |
| `runner` | does the configuration mean what it says, do reports tell which commands failed, are they complete? | 2 suites, 2 roots, 3 files of which 2 share a name, 31 configurations of up to 2 entries, all 9 outcomes, failing writes, reports of an earlier run | holds |
| `runner_answers` | does a report tell a wrong answer? | same, 4 outcomes, no failing writes | violated: finding 4 |
| `list` | are the rings closed, do the calls do what their comments say, what do loops visit? | 2 heads, 2 buckets, 3 elements, all symmetric, loops lengthened to 5 turns | holds |
| `ahci` | is every line examined whole, the right range recorded and dumped, every port up to the bound printed; does the program end? | buffer of 24 and 4 cells behind, 62 files of up to 3 lines, zero or used memory, pages of 256 bytes, 4 sets of ports, failing calls | holds |
| `ahci_bound` | is a port beyond the mapping reported? | same, no failing calls | violated: finding 5 |

Why the bounds are enough. A ring of two slots is full, empty and wraps within four
blocks, and two workers can race for one entry or for the last step. The block of
`GuessDind` keeps the proportion that matters (more than twice `DIND_MAX_OFFSET`, so
that the window leaves the block), and its theorems hold for all sizes. The disks of
`DumpDind` contain every kind of word: zero, data, first level block, readable but
above `MAX_BLOCKS`, past the end; and a third word that `DIND_MAX_OFFSET` cuts off.
One of them ends before `GROUP0_DATA_END`, where the scan goes round for ever. A ring
of one slot is full with the first candidate, and `main` gets to the second before a
thread takes it. One dump thread and `main` are enough for the offset to be displaced
in either direction; what a second thread adds is `dump_wrong`. Two bytes are enough
for a write behind emptied bytes; an offset may be at the end of the buffer or behind
it, where the count would wrap around; two users for an open that keeps the module
loaded. The buffer of `AhciScan` holds one line and part of the next, or several short
ones, so that reads end inside a line, at its end and at the end of the file; a short
last line leaves the end of a longer one behind it; `xhci` behind an address with an
`a` looks like the name until the last letter. Controllers are at depth 1 and 2, other
lines also at depth 0. The ranges make the host loop stop early (4 bytes), two ports
fit (129 bytes), a port lie outside the mapping (1 KB) and `mmap` refuse (not at a
page). Two entries of `conf.yml` are enough for a key to be kept, overridden or passed
over; one suite is in both lists, one has its files under the other root; three files
give two that share the name of their case and one that does not. Three elements make
a list with a first, a middle and a last entry while another list is empty or has one;
a call involves two lists at most. Cutting and splicing happen at either end, in the
middle, on singular and on empty lists. A loop of five turns meets two entries again,
or one of them twice.

Fairness. The operating system runs every thread: weak fairness of each. A thread that
needs the contended mutex gets it sometime (strong fairness of `MainLock`,
`MainRelock`, `WorkerLock`): workers sleep a second or dump a file between two
acquisitions. Nobody owes `main` a spurious wakeup. In `DumpDind` `main` and every
dump thread run on (weak fairness of each); nothing is assumed of `Restart`. In `Tdrv`
the kernel schedules the thread, runs timers that are due, and `tdrv_exit` goes on;
nothing is assumed of the users. `AhciDump` is one thread that runs on. `TestRunner`
and the lists state no liveness: a command may hang, and nobody has to call a list
function.

## 5. Findings

1. `guess_inode.c:297`: the dump thread tests `queue_full` after its own
   `dequeue`, so the signal is never sent; `main` sleeps for ever once the ring
   has filled. `WaitIsForEver` proves it for all sizes.
2. `guess_inode.c:116`: the zero window starts at word 640 and runs into the
   next block; lists of up to 640 entries (2.5 GB) are accepted against the
   "120M and 1.5G" of line 24.
3. `guess_inode.c:98`: seek and read on a shared descriptor race. A dump may follow
   a block that is not its file's, write what it finds there and return 0; in the
   run the recovery file that is left holds a list of block numbers.
4. `mainTest.py:255`: after a comparison that finds a difference the case is made
   anew from the exit code, so a wrong answer counts as a success and the difference
   gets into no report.
5. `dump_ahcireg.c:523`: the bound of the memory map is a number of bytes, compared
   with a number of words: ports that lie behind the mapping are read without the
   message "exceed the memory map bound" (with 4 KB, ports 30 and 31).

Seen while modelling, not runs of their own: after a spurious wakeup on a full ring
`enqueue` may refuse the block `main` has just announced, its result is ignored, and
the block is never dumped (`SpuriousWakeup`; `NoneDropped` proves that nothing else
leads there); a failing read of `/proc/iomem` is taken for its end, so the program may
say "can't find ahci controller" when a line it has not read names one (`ReadEnds`);
word 7 of a port is reserved, but `getportinfo` (449) prints it as `PxTFD` and all
registers after it one word early, against the enumeration of lines 60-76
(`PortNames`); a failed `cdev_add` leaves the kernel thread (`AddDeviceFails`); a
`SIGKILL` to the thread empties the buffer (`Kill`); the driver's emptying keeps the
bytes and the offsets of open files, so a write behind the emptied bytes makes them
readable again (`OldReadableOnlyByGap` says that nothing else does); `parse_line`
never gets past the second controller (`LinkHangs`), which may also be a line taken
for one because of what an earlier line left in the buffer; a port beyond the mapping
may crash the program (`Segfault`); CAP2 is printed a second time as if it were BOHC,
for want of a `break` (`getinformation`); in the test runner a missing answer is no
failure (`Status`, `Element`), two files whose names agree up to the first dot have
cases of one name (`CaseName`), a report that cannot be written leaves the older one
empty (`WriteReportFails`), an entry of `conf.yml` that has only `jdbc_suites` is
passed over (`Counts`), the last `rootdir` holds for the suites of all entries, and a
suite whose directory does not exist gets an empty report that looks like success
(`StartSuite`); a body of `list_for_each_safe` that moves its entry to the end still
ahead keeps the loop going (`LoopTurnAgain`).

## 6. Proofs

`DindPipelineProofs`, from `CapacityAssumption` and `PipelineAssumption` only,
for every number of threads, ring length, disk and set of faults:

- `TypeCorrect`: `Spec => []TypeOK`, one step per action; the ring's part rests
  on lemmas about `enqueue` and `dequeue`. `TypeOK` is inductive thanks to its
  conjunct `InChunk => left > 0`.
- `Mutex`: `MutualExclusion` speaks of a set and is not convenient to preserve;
  `LockInv` says the same thread by thread and is inductive with `TypeOK`.
- `WaitIsForEver`: `main` leaves `pthread_cond_wait` only unasked, as no thread ever
  signals. `SignalInv` (a worker at the signal finds the ring not
  full) is inductive with `LockInv`, because only the holder of the mutex fills
  the ring.
- `NoneDropped`: without spurious wakeups `enqueue` never refuses, since `main` gets
  to it only past its own test of `queue_full`.

`DindOrderProofs`, from the same assumptions, by `OrderInv`:

- `OnlyOnce`, `NothingForgotten` and `Drained`: that no candidate is lost or dumped
  twice is not inductive, as it does not say why the next candidate is a new one.
  `ScanOrder` does: the ring holds ascending block numbers, all of them passed by the
  scan (`Frontier`); whatever is with a worker or dumped is below everything still in
  the ring, and no two hands hold the same. `ExitInv` has the order of `is_finish` and
  of the last `enqueue`, `DumpsTaken` that only what was found is dumped.
- `ImplementsDindWork`: `Spec => WorkSpec`. The ring read from `head` on is the
  abstract queue; `enqueue` and `dequeue` are shown to append to it and to take its
  first element, all other steps leave the four mapped variables alone.

`GuessDindProofs`, from `GuessAssumption`: `TypeCorrect`, and `GuessCorrect` and
`LengthBound` by the loop invariant `LoopInv` (the words before the counter are
block numbers, `bad_cnt` counts their descents, a rejected block has no acceptable
list), with lemmas on the cardinality of the set of descents.

`DumpDindProofs`, from `DumpAssumption`, for any disk and number of threads, across
kills, restarts and every fault:

- `TypeCorrect` and `ScanCounts`, by `TypeInv`: no two threads dump the same file
  (`JobsApart`), `main` looks, also after it has slept on the
  full ring, at the block `next_block` unless a chunk was displaced, and has given no
  number to a later one (`ScanInv`), and each thread's loop
  counters stay inside the two levels, with the offset in the file they give
  (`PlacesOK`).
- `OnlyRight` and `Recovered`, by `Tracked`: of a file whose reads all arrived where
  they were asked (`torn` has the others), the blocks a thread follows are the ones
  the candidate's tree names, a file holds the right block at every position it has,
  and the thread is not behind its end. A lemma shows that `FileLength` exists, with
  the least-number principle below.

`TestRunnerProofs`, from `RunnerAssumption`, by `RunnerInv`:

- `ConfRead`: after each entry every key has the value of the last entry that
  counts and gives it (`ConfSoFar`).
- `ReportsTell`: `Results` says what a case, and so an element of the report, is
  made from; the fold of `ReportOf` is unfolded one case at a time, and the number
  of failures compared with the cardinality of the set of failed cases.
- `CompleteReported`: a report of this run has one case for each file, in some order
  (`CaseForEach`, as names may coincide), also when the run has stopped; the cases
  of the suite at hand and its pending files are together its files (`CasesInv`).
- `DoneReported`: the tasks still to do are a suffix of `AllTasks` (`TodoInv`); every
  suite of the ones before it has its report, from the last runner that had it,
  unless a write that failed has stopped the run (`ReportsInv`).

`AhciProofs`, from `ScanAssumption` and `RegsAssumption`:

- `FourfoldAtMost`, by `ReadInv` (in the loop over the host area the words before
  `p` are read; a port that passes the bound ends below `len`).
- `PortsPrinted`, by `PortsInv`: the words of the ports before `i` are printed once
  each if the port is implemented, no others; and a port that does not pass the
  code's bound lies beyond the range in bytes too. The converse is false
  (`ahci_bound`).
- `TypeCorrect`, `ReadsLineByLine`, `RecordsRight` and `EndsRight`, for every
  `/proc/iomem`, every content of the memory and every way the kernel cuts its reads,
  at whatever line reading stops and whatever becomes of `getreginfo`, by `ScanInv`
  and `ProgramInv`. Their parts are the layout of the text (line `k` is in it between
  `LineStart(k)` and `LineStart(k + 1)`, with its only newline at the end, and its
  name behind the indentation and both addresses); that the buffer begins with the
  current line (`Reading`); that `find_ahci_line` has just seen as many letters of the
  name as its state says and cannot go past a controller's name (`Finding`); that
  `parse_line` has passed over the indentation and read the two numbers digit by digit
  (`Parsing`, with lemmas that unfold `Number` and bound it below `WIDTH`); and that
  there is never more than one entry in the list (`LinkInv`), because at the second
  one `parse_line` hangs or replaces it.

Folds and recursive functions are `CHOOSE`n functions for the prover. Where a proof
needs what one of them returns, the function is shown to exist by the
least-number principle (`Least`, from `WFMin` of the library) and then unfolded,
which takes the place of induction.

`TdrvProofs`, from `TdrvAssumption`, for any number of users and any buffer:

- `TypeCorrect` and `TransfersInside`: what `write` stores fits behind the offset
  (`WriteFits`), so the size stays in the buffer and a transfer between the offsets
  before and after it, although an offset itself may be far behind the buffer.
- `ModuleLeavesNothing`: `NothingOutlivesModule` is not inductive; `ExitInv` adds
  that only a live module is open (so that nobody can arm the timer again once
  `del_timer_sync` has returned) and that after it, as before the device exists,
  no timer is pending or running.
- `EmptiedReturnsByGap`: every step but a write leaves `OldReadable` alone or makes
  it smaller, and the bytes a write adds lie before its offset (`ExposedByWrite`,
  with `TypeOK`).

`LinuxListProofs`, from `ListAssumption` and `HlistAssumption`, for any number of
heads, elements and buckets:

- `RingsRight`: `RingsClosed` is not inductive. `list_splice` of a list into a head
  on the same ring could leave a pointer to the head it drops, so the invariant
  must say that two heads are never on one ring. `RingInv` does with an owner for
  every object in use that is the same along `next`, and that is the head itself
  for each head. Each function has a lemma that names the new owners;
  `list_cut_position` needs to know which objects it takes off, those a walk meets
  on its way to the entry.
- `LoopsVisitAll`, by `LoopInv`: the entries still to visit are linked as they were
  when the loop began, and the loop has saved the next one. The body writes to links
  of the entry it is at, of its neighbours and of a head, and none of these is a link
  the loop has still to follow (`BodyKeepsLinks`), as no other head is on its ring,
  unless it moves the entry to the end of the loop's own list: then the last link
  leads to the entry and from there to the head (`EndLinks`), and the entry is one
  more to visit (`LoopTurnAgainRuns`). `VisitWalks` shows that a walk along a ring
  comes back to its head after each object once (by the pigeonhole principle).
- `ImplementsListSeqs`: `SeqSpec`, from `RingInv` and `LoopInv`. `Lost` entries are on
  no list any more (`Abandoned`, `Forgotten`). A sequence of entries and the links it
  is followed along make a way (`Way`) from the head round to it. There is only one
  (`OneWay`), and what `list_for_each` visits is it (`VisitIsWay`), so the sequences
  after a call are known as soon as a way is found for each head. For each function
  the links it writes are compared with the ways of the heads it is about and with
  those of all others (the `...Traces` lemmas); ways are cut and joined where entries
  go in or out (`LeadSplit`, `WayJoin`, `SplitAt`). The `...Lists` lemmas say what the
  sequences are then, and the `...Implements` lemmas that this is what the step of
  `ListSeqs` says.
- `BackPointersRight`: every `pprev` names the one field that points at its node. It
  is inductive only with `NoCycle` (no nodes hang on each other): `hlist_del` of
  one of two such nodes would leave the other one pointing at itself. `CycleStep`
  shows that no function closes such a cycle, by the fields it reads and writes.
- `EveryHlistCallRight`: `HCallsRight`, from the same invariant. What
  `hlist_for_each` visits is the one way from a bucket to `NULL` (`ChainIsWay`): its
  nodes differ, as their `pprev`s do, so it ends before there are more steps than
  nodes. No node is on two chains (`ChainsApart`), and what points at a node of a
  chain is on that chain (`OnChain`), so each call changes the one chain it is about
  (`InsertChain`, `RemoveChain`, `MoveChain`), or none when its node is chained to
  one `hlist_add_fake` was called on before, or to a deleted one (`OffChainKept`).

Only model-checked: the liveness properties (liveness under fairness and
`ENABLED` are beyond the prover).

## 7. Not modelled

- The slots and the mutex of the ring together with the shared offset: `DindPipeline`
  leaves open what a block is; in `DumpDind` the ring is a set from which the least
  is taken, in one step. That the slots and the mutex amount to such a queue,
  `WorkSpec` and `DumpedOnce` of `DindPipeline` show.
- In the test runner: `_data_init`, `_hyperbase_ddl`, `_inceptor_ddl`,
  `_inceptor_insert` and `run_interactive`, which are never called; times and
  the text of a difference; the walk below a suite's directory, of which `SqlFiles`
  has the result.
- In `list.h`: loop bodies that delete another entry than the one the loop is at,
  which `list_for_each_safe` does not allow; `list_empty_careful` (it is about two
  processors, and nothing here uses a list from two threads), `list_is_last`, and the
  loops over typed entries, which are the modelled loops behind `container_of`.
- In `dump_ahcireg.c`: what the printers say about the bits of a word, `malloc`
  failing in `parse_line` (its result is used unchecked), a `/proc/iomem` that
  changes during the scan, lines that do not fit into the buffer of 512.
- The wording of output, `CHECK_POINT` progress messages, `good_cnt` and `cost`.
- Time: `sleep(1)` is a step, the driver's timer expires at any moment; hence
  the race of `test_usr.c` between sleep and timer is not decided.
- The value of `jiffies + sec * HZ`, and that `ioctl` reads an `unsigned long`
  where the test passes an `int`.
- `extend.c`: most functions have no body, and what they would call is not in the
  repository; a model would have to invent it.
- The behave steps and `behave_model.py`, which pass a command line on, `testClass.py`
  (an older runner that no longer fits `junit.py`), the XML and HTML helpers, IDE files.
