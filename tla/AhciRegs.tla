------------------------------ MODULE AhciRegs ------------------------------
(***************************************************************************)
(* dump_ahcireg, second half: getreginfo maps the address range of one     *)
(* controller, prints the words of the host area and then those of every   *)
(* implemented port.  Sizes are those of the code; what is printed of a    *)
(* word is the name it is printed under.                                   *)
(***************************************************************************)
EXTENDS Integers, Sequences, SequencesExt

CONSTANTS PAGE,         \* bytes in a page of memory
          PortSets,     \* values of the register of implemented ports
          Faults        \* "open", "mmap": the calls that may fail

HOST == 64              \* words of the host area
PORT == 32              \* words of a port, and the number of ports
WORD == 4               \* bytes of a word
PI == 3                 \* the word of the host area with the ports

ASSUME RegsAssumption ==
  /\ PAGE \in Nat /\ PAGE >= HOST * WORD
  /\ PortSets \subseteq SUBSET (0..31)

VARIABLES rpc,            \* where getreginfo is
          base,           \* address the mapping starts at
          len,            \* iomem_end - iomem_start
          j, i,           \* loop counters
          port_implement, \* the ports the register says there are
          highest,        \* highest word of the mapping read so far
          exceeded,       \* "exceed the memory map bound" was printed
          out             \* what was printed: names and words

regs_vars == <<rpc, base, len, j, i, port_implement, highest, exceeded, out>>

RegsInit ==
  /\ rpc = "idle" /\ base = 0 /\ len = 0 /\ j = 0 /\ i = 0
  /\ port_implement = {} /\ highest = -1 /\ exceeded = FALSE /\ out = <<>>

\* The kernel maps whole pages.
Mapped == ((len + PAGE - 1) \div PAGE) * PAGE

OutsideMapping(word) == (word + 1) * WORD > Mapped

-----------------------------------------------------------------------------
\* What getinformation prints for the j-th word: CAP2 runs on into BOHC.
HostNames == <<"CAP", "GHC", "IS", "PI", "VS", "CCC_CTL", "CCC_PORTS", "EM_LOC",
               "EM_CTL", "CAP2", "BOHC">>

getinformation(n) ==
  IF n = 10 THEN <<"CAP2", "BOHC">>
  ELSE IF n \in 1..11 THEN <<HostNames[n]>>
  ELSE IF n \in 41..64 THEN <<"vendor">>
  ELSE <<>>

\* What getportinfo prints for word n of a port, n from 0.
PortNames == <<"PxCLB", "PxCLBU", "PxFB", "PxFBU", "PxIS", "PxIE", "PxCMD", "PxTFD",
               "PxSIG", "PxSSTS", "PxSCTL", "PxSERR", "PxSACT", "PxCI", "PxSNTF",
               "PxFBS">>

getportinfo(n) == IF n < 16 THEN PortNames[n + 1] ELSE "vendor"

-----------------------------------------------------------------------------
\* getreginfo is called for the range first..last.
Call(first, last) ==
  /\ rpc' = "open"
  /\ base' = first /\ len' = last - first
  /\ j' = 0 /\ i' = 0 /\ port_implement' = {}
  /\ highest' = -1 /\ exceeded' = FALSE /\ out' = <<>>

OpenFails ==
  /\ rpc = "open" /\ "open" \in Faults
  /\ rpc' = "failed"
  /\ UNCHANGED <<base, len, j, i, port_implement, highest, exceeded, out>>

\* mmap refuses an empty range and an address within a page.
MapFails ==
  /\ rpc = "open"
  /\ len = 0 \/ base % PAGE # 0 \/ "mmap" \in Faults
  /\ rpc' = "failed"
  /\ UNCHANGED <<base, len, j, i, port_implement, highest, exceeded, out>>

Map ==
  /\ rpc = "open" /\ len # 0 /\ base % PAGE = 0
  /\ rpc' = "host"
  /\ UNCHANGED <<base, len, j, i, port_implement, highest, exceeded, out>>

BugOneMore(n) == n > HOST + 1 \/ n > len

HostEnds(n) == n > HOST \/ n > len

\* One turn of the first loop; p is at word j.
HostTurn ==
  /\ rpc = "host" /\ ~ HostEnds(j + 1)
  /\ j' = j + 1
  /\ highest' = j
  /\ out' = out \o [k \in DOMAIN getinformation(j + 1) |->
                      [name |-> getinformation(j + 1)[k], word |-> j]]
  /\ UNCHANGED <<rpc, base, len, i, port_implement, exceeded>>

\* The loop is left and the register of ports is read once more.
ReadPorts ==
  /\ rpc = "host" /\ HostEnds(j + 1)
  /\ j' = j + 1
  /\ port_implement' \in PortSets
  /\ highest' = IF PI > highest THEN PI ELSE highest
  /\ out' = Append(out, [name |-> "PI", word |-> PI])
  /\ rpc' = "ports"
  /\ UNCHANGED <<base, len, i, exceeded>>

SkipPort ==
  /\ rpc = "ports" /\ i < 32 /\ i \notin port_implement
  /\ i' = i + 1
  /\ UNCHANGED <<rpc, base, len, j, port_implement, highest, exceeded, out>>

BugFirstWordOnly(n) == n * PORT + HOST > len

\* Words, but compared with bytes.
Exceeds(n) == (n + 1) * PORT + HOST > len

BugPointerRunsOn(n) == highest + 1

PortStart(n) == HOST + n * PORT

LastWord == PortStart(i) + PORT - 1

DumpPort ==
  /\ rpc = "ports" /\ i < 32 /\ i \in port_implement /\ ~ Exceeds(i)
  /\ out' = out \o [k \in 1..PORT |-> [name |-> getportinfo(k - 1),
                                       word |-> PortStart(i) + k - 1]]
  /\ highest' = LastWord
  /\ j' = PORT
  /\ i' = i + 1
  /\ UNCHANGED <<rpc, base, len, port_implement, exceeded>>

\* A word outside the mapping need not be accessible.
Segfault ==
  /\ rpc = "ports" /\ i < 32 /\ i \in port_implement /\ ~ Exceeds(i)
  /\ OutsideMapping(LastWord)
  /\ highest' = LastWord
  /\ rpc' = "crashed"
  /\ UNCHANGED <<base, len, j, i, port_implement, exceeded, out>>

StopAtPort ==
  /\ rpc = "ports" /\ i < 32 /\ i \in port_implement /\ Exceeds(i)
  /\ exceeded' = TRUE
  /\ rpc' = "returned"
  /\ UNCHANGED <<base, len, j, i, port_implement, highest, out>>

PortsEnd ==
  /\ rpc = "ports" /\ i = 32
  /\ rpc' = "returned"
  /\ UNCHANGED <<base, len, j, i, port_implement, highest, exceeded, out>>

RegsNext ==
  \/ OpenFails \/ MapFails \/ Map
  \/ HostTurn \/ ReadPorts
  \/ SkipPort \/ DumpPort \/ Segfault \/ StopAtPort \/ PortsEnd
=============================================================================
