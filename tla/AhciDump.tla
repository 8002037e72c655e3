------------------------------ MODULE AhciDump ------------------------------
(***************************************************************************)
(* dump_ahcireg, the program: main scans /proc/iomem (AhciScan), then      *)
(* walks the list of controllers and dumps each (AhciRegs).                *)
(***************************************************************************)
EXTENDS AhciScan, AhciRegs

VARIABLES mpc,      \* "scan", "dump", or how main ended: "none", "finished"
          at,       \* the controller main is at
          dumped    \* history: ranges whose dump returned

vars == <<scan_vars, regs_vars, mpc, at, dumped>>

Init == ScanInit /\ RegsInit /\ mpc = "scan" /\ at = 0 /\ dumped = <<>>

Scan ==
  /\ mpc = "scan" /\ ScanNext
  /\ UNCHANGED <<regs_vars, mpc, at, dumped>>

\* "can't find ahci controller"
NoController ==
  /\ mpc = "scan" /\ spc = "scanned" /\ link = <<>>
  /\ mpc' = "none"
  /\ UNCHANGED <<scan_vars, regs_vars, at, dumped>>

StartDump ==
  /\ mpc = "scan" /\ spc = "scanned" /\ link # <<>>
  /\ mpc' = "dump" /\ at' = 1
  /\ Call(link[1].start, link[1].end)
  /\ UNCHANGED <<scan_vars, dumped>>

Dump ==
  /\ mpc = "dump" /\ RegsNext
  /\ UNCHANGED <<scan_vars, mpc, at, dumped>>

NextDump ==
  /\ mpc = "dump" /\ rpc = "returned"
  /\ dumped' = Append(dumped, link[at])
  /\ IF at = Len(link)
     THEN /\ mpc' = "finished"
          /\ UNCHANGED <<at, regs_vars>>
     ELSE /\ at' = at + 1
          /\ Call(link[at + 1].start, link[at + 1].end)
          /\ UNCHANGED mpc
  /\ UNCHANGED scan_vars

Next == Scan \/ NoController \/ StartDump \/ Dump \/ NextDump

\* One thread, run by the operating system.
Spec == Init /\ [][Next]_vars /\ WF_vars(Next)

-----------------------------------------------------------------------------
AddressRange == [start : Nat, end : Nat]

\* The types of all variables.
ScanTypeOK ==
  /\ iomem \in Files /\ fpos \in Nat /\ cur \in Nat /\ cur <= fpos
  /\ buf \in [Cells -> Chars] /\ buf[LastCell] = "NUL"
  /\ spc \in {"open", "read", "find", "parse", "link", "hung", "scanned", "failed"}
  /\ idx \in Cells /\ state \in 0..3
  /\ flag \in BOOLEAN /\ tmp_start \in Nat /\ tmp_end \in Nat /\ ended \in BOOLEAN

RegsTypeOK ==
  /\ rpc \in {"idle", "open", "host", "ports", "returned", "failed", "crashed"}
  /\ base \in Nat /\ len \in Nat /\ j \in 0..(HOST + 1) /\ i \in 0..32
  /\ port_implement \in SUBSET (0..31)
  /\ highest \in -1..(HOST + 32 * PORT - 1) /\ exceeded \in BOOLEAN

TypeOK ==
  /\ ScanTypeOK /\ RegsTypeOK
  /\ link \in Seq(AddressRange)
  /\ origin \in Seq([line : Nat \ {0}, ended : BOOLEAN])
  /\ mpc \in {"scan", "dump", "none", "finished"} /\ at \in 0..Len(link)
  /\ dumped \in Seq(AddressRange)

\* The address range a line of the kernel stands for.
RangeOf(l) == [start |-> Number(l.first), end |-> Number(l.last)]

\* While a line is examined the buffer begins with one whole line, and the
\* file offset is where the next one starts: no line is skipped, split or
\* examined with a part of another (getbaseaddr, dump_ahcireg.c:220-224).
LineByLine ==
  spc \in {"find", "parse", "link"} =>
    \E k \in DOMAIN iomem :
       /\ cur = LineStart(iomem, k) /\ fpos = LineStart(iomem, k + 1)
       /\ \A c \in DOMAIN Text(iomem[k]) : buf[c - 1] = Text(iomem[k])[c]

\* What parse_line records for a line is the range of that line, whatever
\* lies behind it in the buffer; and only a line read without a terminating
\* NUL may be taken for a controller's when it is not (dump_ahcireg.c:223).
RecordedRight ==
  \A k \in DOMAIN link :
    LET l == iomem[origin[k].line]
    IN link[k] = RangeOf(l) /\ (origin[k].ended => IsAhci(l))

\* The lines of /proc/iomem that were read, whether or not the rest was.
LinesRead == {k \in DOMAIN iomem : LineStart(iomem, k + 1) <= fpos}

\* What main does is right for the lines it has read: it says "can't find ahci
\* controller" (dump_ahcireg.c:548) only if there is none among them; if no line
\* was taken for a controller's wrongly and there is one, getreginfo is called
\* for the range of that one, whatever becomes of the call, and when main ends
\* as it should it has dumped that range and no other (dump_ahcireg.c:551-561).
OutcomeRight ==
  LET ahci == {k \in LinesRead : IsAhci(iomem[k])}
  IN /\ mpc = "none" => ahci = {}
     /\ mpc = "finished" => dumped = link
     /\ mpc \in {"dump", "finished"} /\ (\A k \in DOMAIN origin : origin[k].ended) =>
          \A k \in ahci : ahci = {k} =>
            /\ base = RangeOf(iomem[k]).start
            /\ base + len = RangeOf(iomem[k]).end
            /\ mpc = "finished" => dumped = <<RangeOf(iomem[k])>>

\* The bounds of getreginfo compare words with bytes (dump_ahcireg.c:510, 523):
\* a word that is read has a number below the number of bytes, so it is within
\* four times the range; the register of ports is read in any case.
WithinFourfold == rpc # "idle" => highest < len \/ highest <= PI

Printed(word) == {k \in DOMAIN out : out[k].word = word}

\* When getreginfo returns, the words of the implemented ports below some port
\* have been printed, once each, and none of any other port; and that port is
\* the first of all that do not exist, or the message about the bound was
\* printed and it is an implemented one with registers beyond the last byte of
\* the range (dump_ahcireg.c:520-534).
PortsComplete ==
  rpc = "returned" =>
    \E stop \in IF exceeded
                THEN {n \in port_implement : (HOST + (n + 1) * PORT) * WORD > len + 1}
                ELSE {32} :
      \A n \in 0..31 : \A word \in (HOST + n * PORT)..(HOST + n * PORT + PORT - 1) :
        Cardinality(Printed(word)) = IF n \in port_implement /\ n < stop THEN 1 ELSE 0

\* "exceed the memory map bound" (dump_ahcireg.c:524) is said if a port's
\* registers are beyond the bound of the memory map.
BoundMessageRight ==
  rpc = "returned" =>
    ((\E n \in port_implement : OutsideMapping(PortStart(n) + PORT - 1)) => exceeded)

\* The program ends, one way or another, unless it hangs at a second controller.
EndsOrHangs ==
  <>(spc \in {"hung", "failed"} \/ mpc \in {"none", "finished"} \/ rpc \in {"failed", "crashed"})

-----------------------------------------------------------------------------
(* The inductive invariant behind these properties                         *)

\* The buffer begins with line k, and the file offset is behind it.
Reading(k) ==
  /\ cur = LineStart(iomem, k) /\ fpos = LineStart(iomem, k + 1)
  /\ \A c \in DOMAIN Text(iomem[k]) : buf[c - 1] = Text(iomem[k])[c]
  /\ ended => buf[Len(Text(iomem[k]))] = "NUL"

\* Where the name begins in the text of a line, counted from 0.
NamePlace(l) == 2 * l.depth + Len(l.first) + Len(l.last) + 4

(***************************************************************************)
(* find_ahci_line has just looked at the first characters of "ahci", as    *)
(* many as its state says, and does not pass over the name of a            *)
(* controller.                                                             *)
(***************************************************************************)
Finding(l) ==
  /\ state <= idx
  /\ \A n \in 1..state : buf[idx - state + n] = <<"a", "h", "c", "i">>[n]
  /\ ended => idx <= Len(Text(l))
  /\ IsAhci(l) =>
       /\ idx <= NamePlace(l) + 2
       /\ idx = NamePlace(l) - 1 => state = 0
       /\ idx >= NamePlace(l) => state = idx - NamePlace(l) + 1

\* parse_line has read the digits before idx, and not more than two numbers.
Parsing(l) ==
  LET e == 2 * l.depth
      a == e + Len(l.first)
  IN /\ idx <= a + 1 + Len(l.last)
     /\ flag <=> idx > a
     /\ idx <= e => tmp_start = 0 /\ tmp_end = 0
     /\ idx \in e .. a => tmp_start = Number(SubSeq(l.first, 1, idx - e)) /\ tmp_end = 0
     /\ idx > a => /\ tmp_start = Number(l.first)
                   /\ tmp_end = Number(SubSeq(l.last, 1, idx - a - 1))

Parsed(l) == tmp_start = Number(l.first) /\ tmp_end = Number(l.last)

\* No line before the k-th is a controller's, or one has been recorded.
NonePassed(k) == link = <<>> => \A m \in 1 .. k - 1 : ~ IsAhci(iomem[m])

Examining == spc \in {"find", "parse", "link"}

PlaceInv ==
  /\ Examining =>
       \E k \in DOMAIN iomem :
         /\ Reading(k) /\ NonePassed(k)
         /\ spc = "find" => Finding(iomem[k])
         /\ spc = "parse" => Parsing(iomem[k])
         /\ spc = "link" => Parsed(iomem[k])
         /\ spc # "find" => (ended => IsAhci(iomem[k]))
  /\ ~ Examining => \E k \in 1 .. Len(iomem) + 1 : fpos = LineStart(iomem, k) /\ NonePassed(k)

\* At most one controller is ever in the list, from a line that was read.
LinkInv ==
  \/ link = <<>> /\ origin = <<>>
  \/ \E k \in DOMAIN iomem : \E e \in BOOLEAN :
       /\ link = <<RangeOf(iomem[k])>> /\ origin = <<[line |-> k, ended |-> e]>>
       /\ e => IsAhci(iomem[k])
       /\ k \in LinesRead

MainInv ==
  /\ mpc = "scan" => rpc = "idle"
  /\ mpc # "scan" => spc = "scanned"
  /\ mpc = "none" => link = <<>>
  /\ mpc \in {"scan", "none"} => at = 0
  /\ mpc \in {"dump", "finished"} =>
       /\ link # <<>> /\ at = 1
       /\ base = link[1].start /\ len = link[1].end - link[1].start
  /\ IF mpc = "finished" THEN dumped = link ELSE dumped = <<>>

=============================================================================
