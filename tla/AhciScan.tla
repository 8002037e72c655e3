------------------------------ MODULE AhciScan ------------------------------
(***************************************************************************)
(* dump_ahcireg, first half: getbaseaddr reads /proc/iomem line by line    *)
(* into one buffer, find_ahci_line looks for "ahci" in it and parse_line   *)
(* records the address range of the line in a list of controllers.         *)
(*                                                                         *)
(* The buffer is never cleared, so characters of earlier lines stay behind *)
(* the ones read last; the loops over it run to the next NUL.              *)
(***************************************************************************)
EXTENDS Integers, Sequences, SequencesExt

CONSTANTS BUF_LEN,      \* length of the buffer
          WIDTH,        \* 2^64: an unsigned long long is below it
          BEHIND,       \* cells of memory after it that a loop may run into
          Files,        \* contents of /proc/iomem: sequences of lines
          Garbage       \* what malloc may leave in the memory

HexDigits == <<"0", "1", "2", "3", "4", "5", "6", "7",
               "8", "9", "a", "b", "c", "d", "e", "f">>
Digits == ToSet(HexDigits)
Chars == Digits \cup {"h", "i", "x", ":", "-", " ", "newline", "NUL"}

Value(c) == (CHOOSE k \in 1..16 : HexDigits[k] = c) - 1
Number(digits) == FoldLeft(LAMBDA n, d : 16 * n + Value(d), 0, digits)

\* The kernel's side: a line names an address range and what uses it, and
\* is indented by its depth in the tree of ranges; what an ahci driver uses
\* lies below the range of its PCI device.
Lines == [depth : Nat, first : Seq(Digits), last : Seq(Digits),
          name : Seq(Chars \ {"newline", "NUL"})]
Indent(l) == [c \in 1 .. 2 * l.depth |-> " "]
Entry(l) == l.first \o <<"-">> \o l.last \o <<" ", ":", " ">> \o l.name \o <<"newline">>
Text(l) == Indent(l) \o Entry(l)
IsAhci(l) == l.name = <<"a", "h", "c", "i">>
HasAhci(l) ==
  \E k \in 1 .. Len(Text(l)) - 3 : SubSeq(Text(l), k, k + 3) = <<"a", "h", "c", "i">>

TextOf(f) == FlattenSeq([k \in DOMAIN f |-> Text(f[k])])
LineStart(f, k) == Len(TextOf(SubSeq(f, 1, k - 1)))

Cells == 0..(BUF_LEN + BEHIND)
LastCell == BUF_LEN + BEHIND

\* A line fits in the buffer and its addresses in an unsigned long long; no
\* other line than a controller's has "ahci" somewhere in its text.
KernelLine(l) ==
  /\ Len(Text(l)) < BUF_LEN
  /\ Number(l.first) <= Number(l.last) /\ Number(l.last) < WIDTH
  /\ HasAhci(l) => IsAhci(l)

ASSUME ScanAssumption ==
  /\ BUF_LEN \in Nat \ {0} /\ BEHIND \in Nat /\ WIDTH \in Nat \ {0}
  /\ \A f \in Files : f \in Seq(Lines) /\ \A k \in DOMAIN f : KernelLine(f[k])
  /\ Garbage \subseteq [Cells -> Chars]
  /\ \A g \in Garbage : g[LastCell] = "NUL"

VARIABLES iomem,              \* the lines of /proc/iomem
          fpos,               \* file offset of its descriptor
          cur,                \* offset the last read started at
          buf,                \* the buffer and the memory behind it
          spc,                \* where getbaseaddr is
          idx,                \* place in buf of the loops over it
          state,              \* state of find_ahci_line
          flag,               \* parse_line has seen the '-'
          tmp_start, tmp_end, \* parse_line: the numbers so far
          link,               \* the list of controllers
          ended,              \* history: the line read was terminated
          origin              \* history: lines recorded, and if terminated

scan_vars == <<iomem, fpos, cur, buf, spc, idx, state, flag, tmp_start,
               tmp_end, link, ended, origin>>
find_vars == <<idx, state>>
parse_vars == <<flag, tmp_start, tmp_end>>

\* The line the buffer begins with.
CurrentLine == CHOOSE k \in DOMAIN iomem : LineStart(iomem, k) = cur

ScanInit ==
  /\ iomem \in Files
  /\ buf \in Garbage
  /\ fpos = 0 /\ cur = 0 /\ ended = TRUE
  /\ spc = "open" /\ idx = 0 /\ state = 0
  /\ flag = FALSE /\ tmp_start = 0 /\ tmp_end = 0
  /\ link = <<>> /\ origin = <<>>

-----------------------------------------------------------------------------
(***************************************************************************)
(* getbaseaddr.  The kernel fills the request, or stops early at the end   *)
(* of a line.                                                              *)
(***************************************************************************)
OpenIomem ==
  /\ spc = "open"
  /\ spc' = "read"
  /\ UNCHANGED <<iomem, fpos, cur, buf, find_vars, parse_vars, link, ended, origin>>

\* No memory for the buffer, or no /proc/iomem: exit(1).
OpenIomemFails ==
  /\ spc = "open"
  /\ spc' = "failed"
  /\ UNCHANGED <<iomem, fpos, cur, buf, find_vars, parse_vars, link, ended, origin>>

ReadSizes ==
  LET rest == Len(TextOf(iomem)) - fpos
      lines == {LineStart(iomem, k + 1) - fpos : k \in DOMAIN iomem}
  IN {n \in lines \cup {rest, BUF_LEN} : n \in 1..BUF_LEN /\ n <= rest}

\* idx after the loop that looks for the end of line among rsize characters.
AfterNewline(text, rsize) ==
  LET ends == {k \in 1..rsize : text[fpos + k] = "newline"}
  IN IF ends = {} THEN rsize ELSE CHOOSE k \in ends : \A e \in ends : k <= e

\* buf[idx] = 0 only where characters of the next line were read.
Terminates(k, rsize) == k < rsize

BugNoSeek(k, rsize) == fpos + rsize

BugSeekStays(k, rsize) == IF k < rsize THEN fpos ELSE fpos + rsize

\* lseek back to the start of the next line, if some of it was read.
SeekBack(k, rsize) == IF k < rsize THEN fpos + k ELSE fpos + rsize

ReadLine ==
  /\ spc = "read"
  /\ \E rsize \in ReadSizes :
       LET text == TextOf(iomem)
           k == AfterNewline(text, rsize)
       IN /\ cur' = fpos
          /\ fpos' = SeekBack(k, rsize)
          /\ buf' = [c \in Cells |-> IF Terminates(k, rsize) /\ c = k THEN "NUL"
                                     ELSE IF c < rsize THEN text[fpos + c + 1]
                                     ELSE buf[c]]
          /\ ended' = (k < rsize)
  /\ spc' = "find" /\ idx' = 0 /\ state' = 0
  /\ UNCHANGED <<iomem, parse_vars, link, origin>>

\* End of file, or a failing read.
ReadEnds ==
  /\ spc = "read"
  /\ spc' = "scanned"
  /\ UNCHANGED <<iomem, fpos, cur, buf, find_vars, parse_vars, link, ended, origin>>

-----------------------------------------------------------------------------
(***************************************************************************)
(* find_ahci_line: a turn of its loop tests line[idx], moves on and looks  *)
(* at the next character, so the first one is never looked at.  4 stands   *)
(* for "return 1".                                                         *)
(***************************************************************************)
BugStaysHalfway(s, c) ==
  IF c = <<"a", "h", "c", "i">>[s + 1] THEN s + 1 ELSE s

Match(s, c) ==
  IF c = <<"a", "h", "c", "i">>[s + 1] THEN s + 1 ELSE 0

FindTurn ==
  /\ spc = "find" /\ buf[idx] # "NUL"
  /\ Match(state, buf[idx + 1]) # 4
  /\ idx' = idx + 1
  /\ state' = Match(state, buf[idx + 1])
  /\ UNCHANGED <<iomem, fpos, cur, buf, spc, parse_vars, link, ended, origin>>

Found ==
  /\ spc = "find" /\ buf[idx] # "NUL"
  /\ Match(state, buf[idx + 1]) = 4
  /\ spc' = "parse" /\ idx' = 0 /\ state' = 0
  /\ flag' = FALSE /\ tmp_start' = 0 /\ tmp_end' = 0
  /\ UNCHANGED <<iomem, fpos, cur, buf, link, ended, origin>>

NotFound ==
  /\ spc = "find" /\ buf[idx] = "NUL"
  /\ spc' = "read"
  /\ UNCHANGED <<iomem, fpos, cur, buf, find_vars, parse_vars, link, ended, origin>>

-----------------------------------------------------------------------------
(***************************************************************************)
(* parse_line: hexadecimal digits before the '-' make the start, those     *)
(* after it the end; any other character behind the '-' stops it, and one  *)
(* before it, as the blanks of the indentation, is passed over.            *)
(***************************************************************************)
ParseDigit ==
  /\ spc = "parse" /\ buf[idx] \in Digits
  /\ IF flag
     THEN /\ tmp_end' = (16 * tmp_end + Value(buf[idx])) % WIDTH
          /\ tmp_start' = tmp_start
     ELSE /\ tmp_start' = (16 * tmp_start + Value(buf[idx])) % WIDTH
          /\ tmp_end' = tmp_end
  /\ idx' = idx + 1
  /\ UNCHANGED <<iomem, fpos, cur, buf, spc, state, flag, link, ended, origin>>

BugStopsAtBlank(c) == c = "NUL" \/ c \notin Digits \cup {"-"}

Stops(c) == c = "NUL" \/ (c \notin Digits \cup {"-"} /\ flag)

ParseOther ==
  /\ spc = "parse" /\ buf[idx] \notin Digits /\ ~ Stops(buf[idx])
  /\ flag' = (flag \/ buf[idx] = "-")
  /\ idx' = idx + 1
  /\ UNCHANGED <<iomem, fpos, cur, buf, spc, state, tmp_start, tmp_end, link,
                 ended, origin>>

ParseEnds ==
  /\ spc = "parse" /\ Stops(buf[idx])
  /\ spc' = "link"
  /\ UNCHANGED <<iomem, fpos, cur, buf, find_vars, parse_vars, link, ended, origin>>

\* The list is empty: "while (link->next)" is left at once.
LinkFirst ==
  /\ spc = "link" /\ link = <<>>
  /\ link' = <<[start |-> tmp_start, end |-> tmp_end]>>
  /\ origin' = <<[line |-> CurrentLine, ended |-> ended]>>
  /\ spc' = "read"
  /\ UNCHANGED <<iomem, fpos, cur, buf, find_vars, parse_vars, ended>>

\* The list is not empty: the loop never moves on.
LinkHangs ==
  /\ spc = "link" /\ link # <<>>
  /\ spc' = "hung"
  /\ UNCHANGED <<iomem, fpos, cur, buf, find_vars, parse_vars, link, ended, origin>>

\* C11 6.8.5p6 lets a compiler assume that such a loop ends; then the new
\* controller takes the place of the old one.
LinkReplaces ==
  /\ spc = "link" /\ link # <<>>
  /\ link' = <<[start |-> tmp_start, end |-> tmp_end]>>
  /\ origin' = <<[line |-> CurrentLine, ended |-> ended]>>
  /\ spc' = "read"
  /\ UNCHANGED <<iomem, fpos, cur, buf, find_vars, parse_vars, ended>>

ScanNext ==
  \/ OpenIomem \/ OpenIomemFails \/ ReadLine \/ ReadEnds
  \/ FindTurn \/ Found \/ NotFound
  \/ ParseDigit \/ ParseOther \/ ParseEnds
  \/ LinkFirst \/ LinkHangs \/ LinkReplaces
=============================================================================
