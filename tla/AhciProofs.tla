----------------------------- MODULE AhciProofs -----------------------------
(***************************************************************************)
(* Proofs about AhciDump, for every /proc/iomem file, every content of the *)
(* memory and of the registers, and every size of buffer and page.         *)
(***************************************************************************)
EXTENDS AhciDump, SequenceTheorems, FiniteSetTheorems, WellFoundedInduction, TLAPS

-----------------------------------------------------------------------------
(* The numbers parse_line reads                                            *)

Numbers == [start : Int, end : Int]

\* A digit has one of sixteen values.
LEMMA DigitValue ==
  ASSUME NEW c \in Digits
  PROVE  Value(c) \in 0 .. 15
<1>1. PICK k \in DOMAIN HexDigits : HexDigits[k] = c
  BY DEF Digits, ToSet
<1>2. DOMAIN HexDigits = 1..16
  BY DEF HexDigits
<1>3. \E n \in 1..16 : HexDigits[n] = c
  BY <1>1, <1>2
<1> DEFINE place == CHOOSE n \in 1..16 : HexDigits[n] = c
<1>4. place \in 1..16
  BY <1>3
<1>5. Value(c) = place - 1
  BY DEF Value
<1> HIDE DEF place
<1>6. QED
  BY <1>4, <1>5

\* What the scan and main know of numbers: those read are numbers, and main
\* is at one of the recorded controllers.
NumbersInv ==
  /\ tmp_start \in Int /\ tmp_end \in Int
  /\ link \in Seq(Numbers)
  /\ mpc = "dump" => at \in 1..Len(link)
  /\ mpc = "scan" => rpc = "idle"

\* Every action of the scan keeps the numbers numbers.
LEMMA ScanNumbers ==
  ASSUME NumbersInv, ScanNext
  PROVE  tmp_start' \in Int /\ tmp_end' \in Int /\ link' \in Seq(Numbers)
<1> USE DEF NumbersInv
<1>1. CASE ParseDigit
  <2>1. Value(buf[idx]) \in Int
    BY <1>1, DigitValue DEF ParseDigit
  <2>2. WIDTH \in Nat \ {0}
    BY ScanAssumption
  <2>3. \A n \in Int : (16 * n + Value(buf[idx])) % WIDTH \in Int
    BY <2>1, <2>2
  <2>4. QED
    BY <1>1, <2>3 DEF ParseDigit
<1>2. CASE LinkFirst
  BY <1>2 DEF LinkFirst, parse_vars, Numbers
<1>3. CASE LinkReplaces
  BY <1>3 DEF LinkReplaces, parse_vars, Numbers
<1>4. CASE Found
  BY <1>4 DEF Found
<1>5. CASE OpenIomem \/ OpenIomemFails \/ ReadLine \/ ReadEnds
  BY <1>5 DEF OpenIomem, OpenIomemFails, ReadLine, ReadEnds, parse_vars
<1>6. CASE FindTurn \/ NotFound \/ ParseOther \/ ParseEnds \/ LinkHangs
  BY <1>6 DEF FindTurn, NotFound, ParseOther, ParseEnds, LinkHangs, parse_vars
<1>7. QED
  BY <1>1, <1>2, <1>3, <1>4, <1>5, <1>6 DEF ScanNext

-----------------------------------------------------------------------------
(* getreginfo                                                              *)

\* The counters of getreginfo, and how far it has read: in the loop over the
\* host area exactly the words before p, otherwise what WithinFourfold says.
ReadInv ==
  /\ len \in Int /\ j \in Nat /\ i \in 0..32 /\ highest \in Int
  /\ rpc = "host" => highest = j - 1
  /\ rpc = "open" => highest = -1 /\ j = 0
  /\ WithinFourfold

\* A call starts with nothing read.
LEMMA CallReads ==
  ASSUME NEW r \in Numbers, Call(r.start, r.end)
  PROVE  ReadInv'
<1>1. r.start \in Int /\ r.end \in Int
  BY DEF Numbers
<1>2. QED
  BY <1>1 DEF Call, ReadInv, WithinFourfold, PI

\* Every action of getreginfo keeps ReadInv.
LEMMA RegsRead ==
  ASSUME ReadInv, RegsNext
  PROVE  ReadInv'
<1> USE DEF ReadInv, WithinFourfold
<1>1. CASE HostTurn
  BY <1>1 DEF HostTurn, HostEnds
<1>2. CASE ReadPorts
  BY <1>2 DEF ReadPorts, PI
<1>3. CASE DumpPort
  BY <1>3 DEF DumpPort, Exceeds, LastWord, PortStart, PORT, HOST
<1>4. CASE Segfault
  BY <1>4 DEF Segfault, Exceeds, LastWord, PortStart, PORT, HOST
<1>5. CASE OpenFails \/ MapFails \/ Map
  BY <1>5 DEF OpenFails, MapFails, Map, PI
<1>6. CASE SkipPort \/ StopAtPort \/ PortsEnd
  BY <1>6 DEF SkipPort, StopAtPort, PortsEnd
<1>7. QED
  BY <1>1, <1>2, <1>3, <1>4, <1>5, <1>6 DEF RegsNext

-----------------------------------------------------------------------------
(* The program                                                             *)

\* The two invariants hold initially, and every step preserves them.
LEMMA InvInit == Init => NumbersInv /\ ReadInv
BY DEF Init, ScanInit, RegsInit, NumbersInv, ReadInv, WithinFourfold, PI, Numbers

LEMMA InvStep == NumbersInv /\ ReadInv /\ [Next]_vars => NumbersInv' /\ ReadInv'
<1> SUFFICES ASSUME NumbersInv, ReadInv, [Next]_vars
             PROVE  NumbersInv' /\ ReadInv'
  OBVIOUS
<1>1. CASE Scan
  <2>1. NumbersInv'
    BY <1>1, ScanNumbers DEF Scan, NumbersInv, regs_vars
  <2>2. ReadInv'
    BY <1>1 DEF Scan, regs_vars, ReadInv, WithinFourfold
  <2>3. QED
    BY <2>1, <2>2
<1>2. CASE NoController
  BY <1>2 DEF NoController, NumbersInv, ReadInv, WithinFourfold, scan_vars, regs_vars
<1>3. CASE StartDump
  <2>1. 1 \in 1..Len(link) /\ link[1] \in Numbers
    BY <1>3 DEF StartDump, NumbersInv
  <2>2. NumbersInv'
    BY <1>3, <2>1 DEF StartDump, NumbersInv, scan_vars
  <2>3. QED
    BY <1>3, <2>1, <2>2, CallReads DEF StartDump
<1>4. CASE Dump
  <2>1. NumbersInv'
    BY <1>4 DEF Dump, NumbersInv, scan_vars
  <2>2. QED
    BY <1>4, <2>1, RegsRead DEF Dump
<1>5. CASE NextDump
  <2>1. CASE at = Len(link)
    BY <1>5, <2>1 DEF NextDump, NumbersInv, ReadInv, WithinFourfold, scan_vars, regs_vars
  <2>2. CASE at # Len(link)
    <3>1. at + 1 \in 1..Len(link) /\ link[at + 1] \in Numbers
      BY <1>5, <2>2 DEF NextDump, NumbersInv
    <3>2. NumbersInv'
      BY <1>5, <2>2, <3>1 DEF NextDump, NumbersInv, scan_vars
    <3>3. QED
      BY <1>5, <2>2, <3>1, <3>2, CallReads DEF NextDump
  <2>3. QED
    BY <2>1, <2>2
<1>6. CASE UNCHANGED vars
  BY <1>6 DEF vars, scan_vars, regs_vars, NumbersInv, ReadInv, WithinFourfold
<1>7. QED
  BY <1>1, <1>2, <1>3, <1>4, <1>5, <1>6 DEF Next

(***************************************************************************)
(* Whatever range a line names and whatever ports there are, getreginfo    *)
(* reads no word whose number reaches the number of bytes of the range,    *)
(* except for the register of ports: the mistaken units of its bounds cost *)
(* at most a factor of four.                                               *)
(***************************************************************************)
THEOREM FourfoldAtMost == Spec => []WithinFourfold
<1>1. ReadInv => WithinFourfold
  BY DEF ReadInv
<1>2. QED
  BY InvInit, InvStep, <1>1, PTL DEF Spec

-----------------------------------------------------------------------------
(* What getreginfo prints of the ports                                     *)

\* The words of a port.
PortWords(n) == PortStart(n) .. PortStart(n) + PORT - 1

(***************************************************************************)
(* Before the loop over the ports only words of the host area were         *)
(* printed; in the loop, of the ports before the i-th, the implemented     *)
(* ones, once each.                                                        *)
(***************************************************************************)
PortsInv ==
  /\ \E C : out \in Seq(C)
  /\ port_implement \in SUBSET (0 .. 31)
  /\ rpc = "open" => out = <<>>
  /\ rpc \in {"open", "host", "ports"} => ~ exceeded
  /\ rpc \in {"open", "host"} =>
       /\ i = 0
       /\ \A n \in 0 .. 31 : \A word \in PortWords(n) : Printed(word) = {}
  /\ rpc = "ports" =>
       \A n \in 0 .. 31 : \A word \in PortWords(n) :
         IF n \in port_implement /\ n < i THEN \E k : Printed(word) = {k}
         ELSE Printed(word) = {}
  /\ PortsComplete

\* What is printed of a word when more is printed.
LEMMA PrintMore ==
  ASSUME NEW C, out \in Seq(C), NEW D, NEW more \in Seq(D), out' = out \o more
  PROVE  /\ \E E : out' \in Seq(E)
         /\ \A word : Printed(word)' =
              Printed(word) \cup {k \in Len(out) + 1 .. Len(out) + Len(more) :
                                  more[k - Len(out)].word = word}
<1> DEFINE E == C \cup D
           a == Len(out)
           b == Len(more)
<1>1. out \in Seq(E) /\ more \in Seq(E)
  OBVIOUS
<1>2. a \in Nat /\ b \in Nat /\ DOMAIN out = 1 .. a
  OBVIOUS
<1> HIDE DEF E
<1>3. /\ out' \in Seq(E) /\ Len(out') = a + b
      /\ \A k \in 1 .. a + b : out'[k] = IF k <= a THEN out[k] ELSE more[k - a]
  BY <1>1, ConcatProperties
<1>4. DOMAIN out' = 1 .. a + b
  BY <1>3
<1> HIDE DEF a, b
<1>5. ASSUME NEW word
      PROVE  Printed(word)' = Printed(word) \cup {k \in a + 1 .. a + b : more[k - a].word = word}
  <2>1. \A k : k \in 1 .. a + b <=> k \in 1 .. a \/ k \in a + 1 .. a + b
    BY <1>2
  <2>2. \A k \in 1 .. a : out'[k] = out[k] /\ k \in 1 .. a + b
    BY <1>2, <1>3
  <2>3. \A k \in a + 1 .. a + b : out'[k] = more[k - a]
    BY <1>2, <1>3
  <2>4. Printed(word)' = {k \in 1 .. a + b : out'[k].word = word}
    BY <1>4 DEF Printed
  <2>5. Printed(word) = {k \in 1 .. a : out[k].word = word}
    BY <1>2 DEF Printed
  <2>6. QED
    BY <2>1, <2>2, <2>3, <2>4, <2>5
<1>6. QED
  BY <1>3, <1>5 DEF a, b

\* The words of two ports are different, and none is in the host area.
LEMMA PortsApart ==
  ASSUME NEW n \in 0 .. 31, NEW word \in PortWords(n)
  PROVE  /\ word \in Int /\ word >= HOST
         /\ \A m \in 0 .. 31 : word \in PortWords(m) => m = n
BY DEF PortWords, PortStart, HOST, PORT

\* What getinformation prints are the names of one word.
LEMMA HostPrints ==
  ASSUME NEW n \in 1 .. HOST
  PROVE  \E m \in Nat : DOMAIN getinformation(n) = 1 .. m
<1>1. CASE n = 10
  <2>1. DOMAIN getinformation(n) = 1 .. 2
    BY <1>1 DEF getinformation
  <2>2. QED
    BY <2>1
<1>2. CASE n # 10 /\ n \in 1 .. 11
  <2>1. DOMAIN getinformation(n) = 1 .. 1
    BY <1>2 DEF getinformation
  <2>2. QED
    BY <2>1
<1>3. CASE n # 10 /\ n \notin 1 .. 11 /\ n \in 41 .. 64
  <2>1. DOMAIN getinformation(n) = 1 .. 1
    BY <1>3 DEF getinformation
  <2>2. QED
    BY <2>1
<1>4. CASE n # 10 /\ n \notin 1 .. 11 /\ n \notin 41 .. 64
  <2>1. DOMAIN getinformation(n) = 1 .. 0
    BY <1>4 DEF getinformation
  <2>2. QED
    BY <2>1
<1>5. QED
  BY <1>1, <1>2, <1>3, <1>4

\* Something printed that names no word of a port.
LEMMA NoPortWord ==
  ASSUME NEW C, out \in Seq(C), NEW m \in Nat, NEW D, NEW more \in [1 .. m -> D],
         out' = out \o more, \A k \in 1 .. m : more[k].word \in 0 .. HOST - 1
  PROVE  /\ \E E : out' \in Seq(E)
         /\ \A n \in 0 .. 31 : \A word \in PortWords(n) : Printed(word)' = Printed(word)
<1>2. more \in Seq(D) /\ Len(more) = m
  BY SeqDef, LenProperties
<1>3. Len(out) \in Nat
  OBVIOUS
<1>4. /\ \E E : out' \in Seq(E)
      /\ \A word : Printed(word)' =
           Printed(word) \cup {k \in Len(out) + 1 .. Len(out) + m :
                               more[k - Len(out)].word = word}
  <2>1. /\ \E E : out' \in Seq(E)
        /\ \A word : Printed(word)' =
             Printed(word) \cup {k \in Len(out) + 1 .. Len(out) + Len(more) :
                                 more[k - Len(out)].word = word}
    BY <1>2, PrintMore
  <2>2. QED
    BY <1>2, <2>1
<1>5. ASSUME NEW n \in 0 .. 31, NEW word \in PortWords(n),
             NEW k \in Len(out) + 1 .. Len(out) + m
      PROVE  more[k - Len(out)].word # word
  <2> DEFINE q == k - Len(out)
  <2>1. q \in 1 .. m
    BY <1>3
  <2>2. word \in Int /\ word >= HOST
    BY DEF PortWords, PortStart, HOST, PORT
  <2> HIDE DEF q
  <2>3. more[q].word \in 0 .. HOST - 1
    BY <2>1
  <2>4. more[q].word # word
    <3>1. \A v \in 0 .. HOST - 1 : v # word
      BY <2>2 DEF HOST
    <3>2. QED
      BY <2>3, <3>1
  <2>5. QED
    BY <2>4 DEF q
<1>6. QED
  BY <1>4, <1>5

\* Every action of getreginfo keeps PortsInv.
LEMMA RegsPorts ==
  ASSUME ReadInv, PortsInv, RegsNext
  PROVE  PortsInv'
<1>1. PICK C : out \in Seq(C)
  BY DEF PortsInv
<1>2. j \in Nat /\ i \in 0 .. 32 /\ len \in Int /\ port_implement \in SUBSET (0 .. 31)
  BY DEF ReadInv, PortsInv
<1>3. CASE OpenFails \/ MapFails \/ Segfault
  <2>1. /\ UNCHANGED <<out, port_implement>>
        /\ rpc' \in {"failed", "crashed"}
    BY <1>3 DEF OpenFails, MapFails, Segfault
  <2>2. QED
    BY <2>1 DEF PortsInv, PortsComplete
<1>4. CASE Map
  <2>1. /\ UNCHANGED <<out, port_implement, i, exceeded>> /\ rpc = "open" /\ rpc' = "host"
    BY <1>4 DEF Map
  <2>2. \A word : Printed(word)' = Printed(word)
    BY <2>1 DEF Printed
  <2>3. QED
    BY <2>1, <2>2 DEF PortsInv, PortsComplete
<1>5. CASE HostTurn
  <2> DEFINE g == getinformation(j + 1)
             more == [k \in DOMAIN g |-> [name |-> g[k], word |-> j]]
  <2>1. /\ UNCHANGED <<rpc, port_implement, i, exceeded>> /\ rpc = "host"
        /\ out' = out \o more /\ j + 1 \in 1 .. HOST
    BY <1>2, <1>5 DEF HostTurn, HostEnds, HOST
  <2>2. PICK m \in Nat : DOMAIN g = 1 .. m
    BY <2>1, HostPrints
  <2> DEFINE D == {more[k] : k \in 1 .. m}
  <2> HIDE DEF g
  <2>3. /\ \A k \in 1 .. m : more[k].word \in 0 .. HOST - 1
        /\ more \in [1 .. m -> D]
    <3>1. j \in 0 .. HOST - 1
      BY <1>2, <2>1 DEF HOST
    <3>2. more = [k \in 1 .. m |-> [name |-> g[k], word |-> j]]
      BY <2>2
    <3>3. \A k \in 1 .. m : more[k].word = j
      BY <3>2
    <3>4. more \in [1 .. m -> D]
      BY <3>2
    <3>5. QED
      BY <3>1, <3>3, <3>4
  <2> HIDE DEF more, D
  <2>4. /\ \E E : out' \in Seq(E)
        /\ \A n \in 0 .. 31 : \A word \in PortWords(n) : Printed(word)' = Printed(word)
    BY <1>1, <2>1, <2>2, <2>3, NoPortWord
  <2>5. \A n : PortWords(n)' = PortWords(n)
    BY DEF PortWords, PortStart, PORT, HOST
  <2>6. QED
    BY <2>1, <2>4, <2>5 DEF PortsInv, PortsComplete
<1>6. CASE ReadPorts
  <2> DEFINE more == <<[name |-> "PI", word |-> PI]>>
  <2>1. /\ UNCHANGED <<i, exceeded>> /\ rpc = "host" /\ rpc' = "ports"
        /\ out' = Append(out, [name |-> "PI", word |-> PI]) /\ port_implement' \in PortSets
    BY <1>6 DEF ReadPorts
  <2>2. out' = out \o more
    <3> DEFINE x == [name |-> "PI", word |-> PI]
               D == C \cup {x}
    <3>1. out \in Seq(D) /\ x \in D
      BY <1>1
    <3> HIDE DEF D, x
    <3>2. Append(out, x) = out \o <<x>>
      BY <3>1, AppendIsConcat
    <3>3. QED
      BY <2>1, <3>2 DEF x
  <2> DEFINE D == {[name |-> "PI", word |-> PI]}
  <2>3. /\ \A k \in 1 .. 1 : more[k].word \in 0 .. HOST - 1
        /\ more \in [1 .. 1 -> D]
    BY DEF HOST, PI
  <2> HIDE DEF more, D
  <2>4. /\ \E E : out' \in Seq(E)
        /\ \A n \in 0 .. 31 : \A word \in PortWords(n) : Printed(word)' = Printed(word)
    BY <1>1, <2>2, <2>3, NoPortWord
  <2>5. \A n : PortWords(n)' = PortWords(n)
    BY DEF PortWords, PortStart, PORT, HOST
  <2>6. port_implement' \in SUBSET (0 .. 31)
    BY <2>1, RegsAssumption
  <2>7. i' = 0 /\ ~ exceeded'
    BY <2>1 DEF PortsInv
  <2>8. \A n \in 0 .. 31 : \A word \in PortWords(n) : Printed(word)' = {}
    BY <2>1, <2>4 DEF PortsInv
  <2>9. \A n \in 0 .. 31 : ~ (n < 0)
    OBVIOUS
  <2>10. QED
    BY <2>1, <2>4, <2>5, <2>6, <2>7, <2>8, <2>9 DEF PortsInv, PortsComplete
<1>7. CASE SkipPort
  <2>1. /\ UNCHANGED <<out, port_implement, exceeded, len, rpc>> /\ rpc = "ports"
        /\ i' = i + 1 /\ i \notin port_implement
    BY <1>7 DEF SkipPort
  <2>2. \A word : Printed(word)' = Printed(word)
    BY <2>1 DEF Printed
  <2>3. \A n \in port_implement : n < i' <=> n < i
    BY <1>2, <2>1
  <2>4. QED
    BY <2>1, <2>2, <2>3 DEF PortsInv, PortsComplete, PortWords, PortStart
<1>8. CASE DumpPort
  <2> DEFINE more == [k \in 1 .. PORT |-> [name |-> getportinfo(k - 1),
                                          word |-> PortStart(i) + k - 1]]
             D == {more[k] : k \in 1 .. PORT}
  <2>1. /\ UNCHANGED <<port_implement, exceeded, len, rpc>> /\ rpc = "ports"
        /\ i' = i + 1 /\ i \in port_implement /\ ~ Exceeds(i) /\ out' = out \o more
    BY <1>8 DEF DumpPort
  <2>2. more \in Seq(D) /\ Len(more) = PORT
    <3>1. more \in [1 .. PORT -> D]
      OBVIOUS
    <3> HIDE DEF more, D
    <3>2. PORT \in Nat
      BY DEF PORT
    <3>3. QED
      BY <3>1, <3>2, SeqDef, LenProperties
  <2>3. \A k \in 1 .. PORT : more[k].word = PortStart(i) + k - 1
    OBVIOUS
  <2>4. Len(out) \in Nat
    BY <1>1
  <2> HIDE DEF more, D
  <2>5. /\ \E E : out' \in Seq(E)
        /\ \A word : Printed(word)' =
             Printed(word) \cup {k \in Len(out) + 1 .. Len(out) + Len(more) :
                                 more[k - Len(out)].word = word}
    BY <1>1, <2>1, <2>2, PrintMore
  <2> DEFINE New(word) == {k \in Len(out) + 1 .. Len(out) + PORT :
                             PortStart(i) + (k - Len(out)) - 1 = word}
  <2>6. \A word : Printed(word)' = Printed(word) \cup New(word)
    <3>1. ASSUME NEW k \in Len(out) + 1 .. Len(out) + PORT
          PROVE  more[k - Len(out)].word = PortStart(i) + (k - Len(out)) - 1
      <4> DEFINE q == k - Len(out)
      <4>1. q \in 1 .. PORT
        <5> DEFINE a == Len(out)
        <5>1. a \in Int /\ k \in a + 1 .. a + PORT
          BY <2>4
        <5> HIDE DEF a
        <5>2. k - a \in 1 .. PORT
          BY <5>1 DEF PORT
        <5>3. QED
          BY <5>2 DEF a
      <4> HIDE DEF q
      <4>2. more[q].word = PortStart(i) + q - 1
        BY <2>3, <4>1
      <4>3. QED
        BY <4>2 DEF q
    <3>2. QED
      BY <2>2, <2>5, <3>1
  <2>7. ASSUME NEW word \in PortWords(i)
        PROVE  New(word) = {Len(out) + 1 + (word - PortStart(i))}
    BY <1>2, <2>4 DEF PortWords, PortStart, PORT, HOST
  <2>8. ASSUME NEW n \in 0 .. 31, n # i, NEW word \in PortWords(n)
        PROVE  New(word) = {}
    BY <1>2, <2>4, <2>8 DEF PortWords, PortStart, PORT, HOST
  <2> HIDE DEF New
  <2>9. ASSUME NEW n \in 0 .. 31, NEW word \in PortWords(n)
        PROVE  IF n \in port_implement /\ n < i' THEN \E k : Printed(word)' = {k}
               ELSE Printed(word)' = {}
    <3>1. CASE n = i
      <4>1. n \in port_implement /\ n < i' /\ ~ (n < i)
        BY <1>2, <2>1, <3>1
      <4>e. Printed(word) = {}
        BY <2>1, <4>1 DEF PortsInv
      <4>2. Printed(word)' = {Len(out) + 1 + (word - PortStart(i))}
        BY <2>6, <2>7, <3>1, <4>e
      <4>3. QED
        BY <4>1, <4>2
    <3>2. CASE n # i
      <4>1. Printed(word)' = Printed(word)
        BY <2>6, <2>8, <3>2
      <4>2. n < i' <=> n < i
        BY <1>2, <2>1, <3>2
      <4>3. QED
        BY <2>1, <4>1, <4>2 DEF PortsInv
    <3>3. QED
      BY <3>1, <3>2
  <2>11. \A n : PortWords(n)' = PortWords(n)
    BY <2>1 DEF PortWords, PortStart, PORT, HOST
  <2>12. PortsComplete'
    BY <2>1 DEF PortsComplete
  <2>13. ~ exceeded'
    BY <2>1 DEF PortsInv
  <2>14. port_implement' \in SUBSET (0 .. 31)
    BY <1>2, <2>1
  <2>15. \A n \in 0 .. 31 : \A word \in PortWords(n)' :
           IF n \in port_implement' /\ n < i' THEN \E k : Printed(word)' = {k}
           ELSE Printed(word)' = {}
    BY <2>1, <2>9, <2>11
  <2>16. QED
    BY <2>1, <2>5, <2>12, <2>13, <2>14, <2>15 DEF PortsInv
<1>9. CASE StopAtPort \/ PortsEnd
  <2>1. /\ UNCHANGED <<out, port_implement, len>> /\ rpc = "ports" /\ rpc' = "returned"
        /\ exceeded' <=> i \in port_implement /\ i < 32
        /\ i \in port_implement /\ i < 32 => Exceeds(i)
        /\ i = 32 \/ (i \in port_implement /\ i < 32)
    BY <1>9 DEF StopAtPort, PortsEnd, PortsInv
  <2>2. \A word : Printed(word)' = Printed(word)
    BY <2>1 DEF Printed
  <2>3. ASSUME NEW n \in 0 .. 31, NEW word \in (HOST + n * PORT) .. (HOST + n * PORT + PORT - 1)
        PROVE  Cardinality(Printed(word)') = IF n \in port_implement' /\ n < i THEN 1 ELSE 0
    <3>1. word \in PortWords(n)
      BY DEF PortWords, PortStart
    <3>2. IF n \in port_implement /\ n < i THEN \E k : Printed(word) = {k} ELSE Printed(word) = {}
      BY <2>1, <3>1 DEF PortsInv
    <3>3. Cardinality({}) = 0 /\ \A k : Cardinality({k}) = 1
      BY FS_EmptySet, FS_Singleton
    <3>4. QED
      BY <2>1, <2>2, <3>2, <3>3
  <2>4. i \in IF exceeded'
             THEN {n \in port_implement' : (HOST + (n + 1) * PORT) * WORD > len' + 1}
             ELSE {32}
    <3>1. CASE i \in port_implement /\ i < 32
      <4>1. exceeded' /\ Exceeds(i)
        BY <2>1, <3>1
      <4>2. (HOST + (i + 1) * PORT) * WORD > len + 1
        BY <1>2, <4>1 DEF Exceeds, HOST, PORT, WORD
      <4>3. QED
        BY <2>1, <3>1, <4>1, <4>2
    <3>2. CASE ~ (i \in port_implement /\ i < 32)
      <4>1. ~ exceeded' /\ i = 32
        BY <2>1, <3>2
      <4>2. QED
        BY <4>1
    <3>3. QED
      BY <3>1, <3>2
  <2>5. PortsComplete'
    BY <2>3, <2>4, Zenon DEF PortsComplete
  <2>6. QED
    BY <2>1, <2>5 DEF PortsInv
<1>10. QED
  BY <1>3, <1>4, <1>5, <1>6, <1>7, <1>8, <1>9 DEF RegsNext

\* A call starts with nothing printed.
LEMMA CallPrints ==
  ASSUME NEW first, NEW last, Call(first, last)
  PROVE  PortsInv'
<1>1. /\ out' = <<>> /\ rpc' = "open" /\ port_implement' = {} /\ exceeded' = FALSE /\ i' = 0
  BY DEF Call
<1>2. <<>> \in Seq(Int) /\ DOMAIN <<>> = {}
  OBVIOUS
<1>3. \A word : Printed(word)' = {}
  BY <1>1, <1>2 DEF Printed
<1>4. QED
  BY <1>1, <1>2, <1>3 DEF PortsInv, PortsComplete

LEMMA PortsInvInit == Init => PortsInv
<1> SUFFICES ASSUME Init
             PROVE  PortsInv
  OBVIOUS
<1>1. /\ out = <<>> /\ rpc = "idle" /\ port_implement = {} /\ i = 0
  BY DEF Init, RegsInit
<1>2. <<>> \in Seq(Int)
  OBVIOUS
<1>3. QED
  BY <1>1, <1>2 DEF PortsInv, PortsComplete

LEMMA PortsInvKept ==
  ASSUME PortsInv, UNCHANGED regs_vars
  PROVE  PortsInv'
<1> USE DEF regs_vars
<1>1. \A word : Printed(word)' = Printed(word)
  BY DEF Printed
<1>2. \A n : PortWords(n)' = PortWords(n)
  BY DEF PortWords, PortStart, PORT, HOST
<1>3. PortsComplete'
  <2>1. PortsComplete
    BY DEF PortsInv
  <2>2. QED
    BY <1>1, <2>1, Zenon DEF PortsComplete
<1>4. QED
  BY <1>1, <1>2, <1>3 DEF PortsInv

LEMMA PortsInvStep == NumbersInv /\ ReadInv /\ PortsInv /\ [Next]_vars => PortsInv'
<1> SUFFICES ASSUME NumbersInv, ReadInv, PortsInv, [Next]_vars
             PROVE  PortsInv'
  OBVIOUS
<1>1. CASE Scan \/ NoController \/ UNCHANGED vars
  <2>1. UNCHANGED regs_vars
    BY <1>1 DEF Scan, NoController, vars
  <2>2. QED
    BY <2>1, PortsInvKept
<1>2. CASE StartDump
  BY <1>2, CallPrints DEF StartDump
<1>3. CASE Dump
  BY <1>3, RegsPorts DEF Dump
<1>4. CASE NextDump
  BY <1>4, CallPrints, PortsInvKept DEF NextDump
<1>5. QED
  BY <1>1, <1>2, <1>3, <1>4 DEF Next

(***************************************************************************)
(* Whatever the range and the register of ports are, getreginfo prints     *)
(* implemented ports only, in order and once each, and if it leaves out    *)
(* one, the message about the bound is printed and a port does lie beyond  *)
(* the range.                                                              *)
(***************************************************************************)
THEOREM PortsPrinted == Spec => []PortsComplete
<1>1. PortsInv => PortsComplete
  BY DEF PortsInv
<1>2. QED
  BY InvInit, InvStep, PortsInvInit, PortsInvStep, <1>1, PTL DEF Spec

-----------------------------------------------------------------------------
(* The text of /proc/iomem                                                 *)

\* A set of numbers that is not empty has a least one.
LEMMA Least ==
  ASSUME NEW T \in SUBSET Nat, T # {}
  PROVE  \E x \in T : \A y \in T : x <= y
<1> DEFINE R == OpToRel(<, Nat)
<1>1. IsWellFoundedOn(R, Nat)
  BY NatLessThanWellFounded
<1>2. \A x, y \in Nat : y < x => <<y, x>> \in R
  BY DEF OpToRel
<1> HIDE DEF R
<1>3. PICK x \in T : \A y \in T : ~ (<<y, x>> \in R)
  BY <1>1, WFMin
<1>4. \A y \in T : ~ (y < x) /\ x \in Nat /\ y \in Nat
  BY <1>2, <1>3
<1>5. QED
  BY <1>3, <1>4

\* The sequences in seqs, one behind the other, up to each of the first n.
Flat(g, seqs, n) == g = [m \in 1 .. n |-> IF m = 1 THEN seqs[m] ELSE g[m - 1] \o seqs[m]]

LEMMA FlatNext ==
  ASSUME NEW seqs, NEW n \in Nat, NEW h, Flat(h, seqs, n)
  PROVE  \E g : Flat(g, seqs, n + 1)
<1> DEFINE last == IF n + 1 = 1 THEN seqs[n + 1] ELSE h[n] \o seqs[n + 1]
           g == [m \in 1 .. n + 1 |-> IF m = n + 1 THEN last ELSE h[m]]
           Rhs(f, m) == IF m = 1 THEN seqs[m] ELSE f[m - 1] \o seqs[m]
<1>1. \A m \in 1 .. n : h[m] = Rhs(h, m)
  BY Zenon DEF Flat
<1>2. /\ g[n + 1] = last
      /\ \A m \in 1 .. n : g[m] = h[m]
  <2>1. n + 1 \in 1 .. n + 1 /\ \A m \in 1 .. n : m \in 1 .. n + 1 /\ m # n + 1
    OBVIOUS
  <2> HIDE DEF last
  <2>2. QED
    BY <2>1
<1>3. ASSUME NEW m \in 1 .. n + 1
      PROVE  g[m] = Rhs(g, m)
  <2> HIDE DEF g
  <2>1. CASE m = n + 1
    <3>1. m # 1 => m - 1 = n /\ m - 1 \in 1 .. n
      BY <2>1
    <3>2. QED
      BY <1>2, <2>1, <3>1
  <2>2. CASE m # n + 1
    <3>1. m \in 1 .. n /\ (m # 1 => m - 1 \in 1 .. n)
      BY <2>2
    <3>2. QED
      BY <1>1, <1>2, <3>1
  <2>3. QED
    BY <2>1, <2>2
<1>4. g = [m \in 1 .. n + 1 |-> Rhs(g, m)]
  BY <1>3, Zenon
<1>5. Flat(g, seqs, n + 1)
  BY <1>4, Zenon DEF Flat
<1>6. QED
  BY <1>5

LEMMA FlatExists ==
  ASSUME NEW seqs, NEW n \in Nat
  PROVE  \E g : Flat(g, seqs, n)
<1> DEFINE T == {m \in Nat : ~ \E g : Flat(g, seqs, m)}
<1>1. SUFFICES ASSUME T # {}
               PROVE  FALSE
  OBVIOUS
<1>2. PICK m \in T : \A y \in T : m <= y
  <2>1. T \in SUBSET Nat
    OBVIOUS
  <2> HIDE DEF T
  <2>2. QED
    BY <1>1, <2>1, Least
<1>3. CASE m = 0
  <2> DEFINE g == [x \in 1 .. 0 |-> 0]
  <2>1. g = [x \in 1 .. 0 |-> IF x = 1 THEN seqs[x] ELSE g[x - 1] \o seqs[x]]
    OBVIOUS
  <2>2. Flat(g, seqs, 0)
    BY <2>1, Zenon DEF Flat
  <2>3. QED
    BY <1>3, <2>2
<1>4. CASE m # 0
  <2>1. m - 1 \in Nat /\ m - 1 \notin T /\ (m - 1) + 1 = m
    BY <1>2, <1>4
  <2>2. PICK g : Flat(g, seqs, m - 1)
    BY <2>1
  <2>3. QED
    BY <2>1, <2>2, FlatNext
<1>5. QED
  BY <1>3, <1>4

\* Two such functions agree as far as the sequences do.
LEMMA FlatSame ==
  ASSUME NEW s1, NEW s2, NEW n \in Nat, NEW m \in 0 .. n, NEW g, NEW h,
         Flat(g, s1, n), Flat(h, s2, m), \A k \in 1 .. m : s1[k] = s2[k]
  PROVE  \A k \in 1 .. m : g[k] = h[k]
<1> DEFINE T == {k \in 1 .. m : g[k] # h[k]}
<1>1. SUFFICES ASSUME T # {}
               PROVE  FALSE
  OBVIOUS
<1>2. PICK k \in T : \A y \in T : k <= y
  <2>1. T \in SUBSET Nat
    OBVIOUS
  <2> HIDE DEF T
  <2>2. QED
    BY <1>1, <2>1, Least
<1>3. k \in 1 .. m /\ k \in 1 .. n /\ g[k] # h[k]
  OBVIOUS
<1>4. /\ \A x \in 1 .. n : g[x] = IF x = 1 THEN s1[x] ELSE g[x - 1] \o s1[x]
      /\ \A x \in 1 .. m : h[x] = IF x = 1 THEN s2[x] ELSE h[x - 1] \o s2[x]
  BY Zenon DEF Flat
<1>5. k # 1 => g[k - 1] = h[k - 1]
  <2>1. k # 1 => k - 1 \in 1 .. m /\ k - 1 \notin T
    BY <1>2, <1>3
  <2>2. QED
    BY <2>1
<1> HIDE DEF T
<1>6. QED
  BY <1>3, <1>4, <1>5

LEMMA FlattenIs ==
  ASSUME NEW seqs, Len(seqs) \in Nat \ {0}
  PROVE  \E g : Flat(g, seqs, Len(seqs)) /\ FlattenSeq(seqs) = g[Len(seqs)]
<1> DEFINE n == Len(seqs)
           g == CHOOSE g : Flat(g, seqs, n)
<1>1. Flat(g, seqs, n)
  BY FlatExists
<1>2. FlattenSeq(seqs) = g[n]
  BY DEF FlattenSeq, Flat
<1>3. QED
  BY <1>1, <1>2

OfLength(C, x, n) == x \in Seq(C) /\ n \in Nat /\ Len(x) = n

Behind(z, x, y, m, n) == /\ \A c \in 1 .. m : z[c] = x[c]
                         /\ \A c \in 1 .. n : z[m + c] = y[c]

\* Two sequences, one behind the other.
LEMMA Joined ==
  ASSUME NEW C, NEW x, NEW y, NEW m, NEW n, OfLength(C, x, m), OfLength(C, y, n)
  PROVE  OfLength(C, x \o y, m + n) /\ Behind(x \o y, x, y, m, n)
<1>1. x \in Seq(C) /\ y \in Seq(C) /\ m \in Nat /\ n \in Nat /\ m = Len(x) /\ n = Len(y)
  BY DEF OfLength
<1>2. /\ x \o y \in Seq(C) /\ Len(x \o y) = m + n
      /\ \A c \in 1 .. m + n : (x \o y)[c] = IF c <= m THEN x[c] ELSE y[c - m]
  BY <1>1, ConcatProperties
<1>3. \A c \in 1 .. m : (x \o y)[c] = x[c]
  BY <1>1, <1>2
<1>4. ASSUME NEW c \in 1 .. n
      PROVE  (x \o y)[m + c] = y[c]
  <2>1. m + c \in 1 .. m + n /\ ~ (m + c <= m) /\ (m + c) - m = c
    BY <1>1
  <2>2. QED
    BY <1>2, <2>1
<1>5. QED
  BY <1>1, <1>2, <1>3, <1>4 DEF OfLength, Behind

LEMMA OneChar ==
  ASSUME NEW C, NEW x \in C
  PROVE  OfLength(C, <<x>>, 1)
BY DEF OfLength

LEMMA ThreeChars ==
  ASSUME NEW C, NEW x \in C, NEW y \in C, NEW z \in C
  PROVE  OfLength(C, <<x, y, z>>, 3)
BY DEF OfLength

\* A line's first address begins at place e, counted from 0, and ends before
\* place a; the other parts have b and d characters.
Lengths(l, e, a, b, d) ==
  /\ e = 2 * l.depth /\ a = e + Len(l.first)
  /\ Len(l.last) = b /\ Len(l.name) = d

LEMMA LengthsAre ==
  ASSUME NEW l \in Lines, NEW e, NEW a, NEW b, NEW d, Lengths(l, e, a, b, d)
  PROVE  /\ e \in Nat /\ a \in Nat /\ b \in Nat /\ d \in Nat
         /\ e <= a /\ Len(l.first) = a - e /\ a - e \in Nat
<1>1. l.depth \in Nat /\ Len(l.first) \in Nat /\ Len(l.last) \in Nat /\ Len(l.name) \in Nat
  BY DEF Lines
<1>2. \A x, y \in Nat : 2 * x \in Nat /\ 2 * x + y \in Nat /\ 2 * x <= 2 * x + y /\ y = (2 * x + y) - 2 * x
  OBVIOUS
<1>3. QED
  BY <1>1, <1>2 DEF Lengths

LEMMA LengthsExist ==
  ASSUME NEW l
  PROVE  \E e, a, b, d : Lengths(l, e, a, b, d)
BY DEF Lengths

Chained(C, t, f1, s1, f2, s2, f3, s3, a, b, d) ==
  /\ OfLength(C, t, a + b + d + 5)
  /\ \A c \in 1 .. a : t[c] = f1[c]
  /\ t[a + 1] = s1[1]
  /\ \A c \in 1 .. b : t[a + 1 + c] = f2[c]
  /\ t[a + b + 2] = s2[1] /\ t[a + b + 3] = s2[2] /\ t[a + b + 4] = s2[3]
  /\ \A c \in 1 .. d : t[a + b + 4 + c] = f3[c]
  /\ t[a + b + d + 5] = s3[1]

\* The parts of a line behind the indentation, one behind the other.
LEMMA Chain ==
  ASSUME NEW C, NEW f1, NEW f2, NEW f3, NEW s1, NEW s2, NEW s3,
         NEW a \in Nat, NEW b \in Nat, NEW d \in Nat,
         OfLength(C, f1, a), OfLength(C, f2, b), OfLength(C, f3, d),
         OfLength(C, s1, 1), OfLength(C, s2, 3), OfLength(C, s3, 1)
  PROVE  Chained(C, f1 \o s1 \o f2 \o s2 \o f3 \o s3, f1, s1, f2, s2, f3, s3, a, b, d)
<1> DEFINE t1 == f1 \o s1
           t2 == t1 \o f2
           t3 == t2 \o s2
           t4 == t3 \o f3
           t5 == t4 \o s3
<1>1. OfLength(C, t1, a + 1) /\ Behind(t1, f1, s1, a, 1)
  BY Joined
<1> HIDE DEF t1
<1>2. OfLength(C, t2, a + 1 + b) /\ Behind(t2, t1, f2, a + 1, b)
  BY <1>1, Joined
<1> HIDE DEF t2
<1>3. OfLength(C, t3, a + 1 + b + 3) /\ Behind(t3, t2, s2, a + 1 + b, 3)
  BY <1>2, Joined
<1> HIDE DEF t3
<1>4. OfLength(C, t4, a + 1 + b + 3 + d) /\ Behind(t4, t3, f3, a + 1 + b + 3, d)
  BY <1>3, Joined
<1> HIDE DEF t4
<1>8. OfLength(C, t5, a + 1 + b + 3 + d + 1) /\ Behind(t5, t4, s3, a + 1 + b + 3 + d, 1)
  BY <1>4, Joined
<1> HIDE DEF t5
<1>5. /\ \A c \in 1 .. a : t1[c] = f1[c]
      /\ t1[a + 1] = s1[1]
      /\ \A c \in 1 .. a + 1 : t2[c] = t1[c]
      /\ \A c \in 1 .. b : t2[a + 1 + c] = f2[c]
  BY <1>1, <1>2 DEF Behind
<1>6. /\ \A c \in 1 .. a + 1 + b : t3[c] = t2[c]
      /\ t3[a + 1 + b + 1] = s2[1] /\ t3[a + 1 + b + 2] = s2[2] /\ t3[a + 1 + b + 3] = s2[3]
  BY <1>3 DEF Behind
<1>7. /\ \A c \in 1 .. a + 1 + b + 3 : t4[c] = t3[c]
      /\ \A c \in 1 .. d : t4[a + 1 + b + 3 + c] = f3[c]
      /\ \A c \in 1 .. a + 1 + b + 3 + d : t5[c] = t4[c]
      /\ t5[a + 1 + b + 3 + d + 1] = s3[1]
  BY <1>4, <1>8 DEF Behind
<1>9. a \in Nat /\ b \in Nat /\ d \in Nat
  OBVIOUS
<1>10. OfLength(C, t5, a + b + d + 5)
  <2>1. a + 1 + b + 3 + d + 1 = a + b + d + 5
    OBVIOUS
  <2>2. QED
    BY <1>8, <2>1
<1>11. \A c \in 1 .. a + b + 4 : t5[c] = t3[c]
  BY <1>7
<1>12. \A c \in 1 .. a + b + 1 : t5[c] = t2[c]
  BY <1>6, <1>9, <1>11
<1>13. \A c \in 1 .. a + 1 : t5[c] = t1[c]
  BY <1>5, <1>9, <1>12
<1>14. \A c \in 1 .. a : t5[c] = f1[c]
  BY <1>5, <1>13
<1>15. t5[a + 1] = s1[1]
  <2>1. a + 1 \in 1 .. a + 1
    OBVIOUS
  <2>2. QED
    BY <1>5, <1>13, <2>1
<1>16. ASSUME NEW c \in 1 .. b
       PROVE  t5[a + 1 + c] = f2[c]
  <2>1. a + 1 + c \in 1 .. a + b + 1
    BY <1>9
  <2>2. QED
    BY <1>5, <1>12, <2>1
<1>17. t5[a + b + 2] = s2[1] /\ t5[a + b + 3] = s2[2] /\ t5[a + b + 4] = s2[3]
  <2>1. /\ a + b + 2 \in 1 .. a + b + 4 /\ a + 1 + b + 1 = a + b + 2
        /\ a + b + 3 \in 1 .. a + b + 4 /\ a + 1 + b + 2 = a + b + 3
        /\ a + b + 4 \in 1 .. a + b + 4 /\ a + 1 + b + 3 = a + b + 4
    BY <1>9
  <2>2. t3[a + 1 + b + 1] = s2[1] /\ t3[a + 1 + b + 2] = s2[2] /\ t3[a + 1 + b + 3] = s2[3]
    BY <1>6
  <2>3. QED
    BY <1>11, <2>1, <2>2
<1>18. ASSUME NEW c \in 1 .. d
       PROVE  t5[a + b + 4 + c] = f3[c]
  <2>1. a + b + 4 + c \in 1 .. a + 1 + b + 3 + d /\ a + 1 + b + 3 + c = a + b + 4 + c
    BY <1>9
  <2>2. t4[a + 1 + b + 3 + c] = f3[c]
    BY <1>7
  <2>3. QED
    BY <1>7, <2>1, <2>2
<1>19. t5[a + b + d + 5] = s3[1]
  <2>1. a + 1 + b + 3 + d + 1 = a + b + d + 5
    BY <1>9
  <2>2. t5[a + 1 + b + 3 + d + 1] = s3[1]
    BY <1>7
  <2>3. QED
    BY <2>1, <2>2
<1>20. QED
  BY <1>10, <1>14, <1>15, <1>16, <1>17, <1>18, <1>19 DEF Chained, t1, t2, t3, t4, t5

\* The characters of a line, whose parts have these places and lengths.
Characters(l, e, a, b, d) ==
  /\ Text(l) \in Seq(Chars) /\ Len(Text(l)) = a + b + d + 5
  /\ \A c \in 1 .. e : Text(l)[c] = " "
  /\ \A c \in e + 1 .. a : Text(l)[c] = l.first[c - e]
  /\ Text(l)[a + 1] = "-"
  /\ \A c \in 1 .. b : Text(l)[a + 1 + c] = l.last[c]
  /\ Text(l)[a + b + 2] = " "
  /\ Text(l)[a + b + 3] = ":"
  /\ Text(l)[a + b + 4] = " "
  /\ \A c \in 1 .. d : Text(l)[a + b + 4 + c] = l.name[c]
  /\ Text(l)[a + b + d + 5] = "newline"

LEMMA EntryIs ==
  ASSUME NEW l \in Lines, NEW a \in Nat, NEW b \in Nat, NEW d \in Nat,
         Len(l.first) = a, Len(l.last) = b, Len(l.name) = d
  PROVE  Chained(Chars, Entry(l), l.first, <<"-">>, l.last, <<" ", ":", " ">>, l.name,
                 <<"newline">>, a, b, d)
<1> DEFINE s1 == <<"-">>
           s2 == <<" ", ":", " ">>
           s3 == <<"newline">>
           f1 == l.first
           f2 == l.last
           f3 == l.name
           C == Chars
<1>1. OfLength(C, f1, a) /\ OfLength(C, f2, b) /\ OfLength(C, f3, d)
  <2>1. /\ l.first \in Seq(Digits) /\ l.last \in Seq(Digits)
        /\ l.name \in Seq(Chars \ {"newline", "NUL"})
    BY DEF Lines
  <2>2. Digits \subseteq Chars /\ Chars \ {"newline", "NUL"} \subseteq Chars
    BY DEF Chars
  <2>3. l.first \in Seq(Chars) /\ l.last \in Seq(Chars) /\ l.name \in Seq(Chars)
    BY <2>1, <2>2, SeqMonotonic
  <2>4. QED
    BY <2>3 DEF OfLength
<1>3. OfLength(C, s1, 1) /\ OfLength(C, s2, 3) /\ OfLength(C, s3, 1)
  <2>1. "-" \in C /\ " " \in C /\ ":" \in C /\ "newline" \in C
    BY DEF Chars
  <2> HIDE DEF C
  <2>2. QED
    BY <2>1, OneChar, ThreeChars
<1>4. Entry(l) = f1 \o s1 \o f2 \o s2 \o f3 \o s3
  BY DEF Entry
<1> HIDE DEF s1, s2, s3, f1, f2, f3, C
<1> DEFINE t == f1 \o s1 \o f2 \o s2 \o f3 \o s3
<1>5. Chained(C, t, f1, s1, f2, s2, f3, s3, a, b, d)
  BY <1>1, <1>3, Chain
<1>6. Entry(l) = t
  BY <1>4
<1> HIDE DEF t
<1>7. QED
  BY <1>5, <1>6 DEF f1, f2, f3, s1, s2, s3, C

LEMMA TextIs ==
  ASSUME NEW l \in Lines, NEW e, NEW a, NEW b, NEW d, Lengths(l, e, a, b, d)
  PROVE  Characters(l, e, a, b, d)
<1> DEFINE n == Len(l.first)
           x == Indent(l)
           y == Entry(l)
           t == Text(l)
           s1 == <<"-">>
           s2 == <<" ", ":", " ">>
           s3 == <<"newline">>
           C == Chars
<1>1. /\ e \in Nat /\ a \in Nat /\ b \in Nat /\ d \in Nat /\ n \in Nat /\ a = e + n
      /\ e = 2 * l.depth /\ Len(l.last) = b /\ Len(l.name) = d
  BY LengthsAre DEF Lengths
<1>2. Chained(C, y, l.first, s1, l.last, s2, l.name, s3, n, b, d)
  BY <1>1, EntryIs
<1>3. OfLength(C, x, e) /\ \A c \in 1 .. e : x[c] = " "
  <2>1. x = [c \in 1 .. e |-> " "] /\ " " \in C
    BY <1>1 DEF Indent, Chars
  <2> HIDE DEF x, C
  <2>2. x \in [1 .. e -> C]
    BY <2>1
  <2>e. e \in Nat
    BY <1>1
  <2>3. x \in Seq(C) /\ Len(x) = e
    BY <2>2, <2>e, SeqDef, LenProperties
  <2>4. QED
    BY <1>1, <2>1, <2>3 DEF OfLength
<1>4. t = x \o y
  BY DEF Text
<1>5. s1[1] = "-" /\ s2[1] = " " /\ s2[2] = ":" /\ s2[3] = " " /\ s3[1] = "newline"
  OBVIOUS
<1> HIDE DEF n, x, y, t, s1, s2, s3, C
<1>a. e \in Nat /\ n \in Nat /\ b \in Nat /\ d \in Nat /\ a = e + n
  BY <1>1
<1>6. /\ OfLength(C, y, n + b + d + 5)
      /\ \A c \in 1 .. n : y[c] = l.first[c]
      /\ y[n + 1] = "-"
      /\ \A c \in 1 .. b : y[n + 1 + c] = l.last[c]
      /\ y[n + b + 2] = " " /\ y[n + b + 3] = ":" /\ y[n + b + 4] = " "
      /\ \A c \in 1 .. d : y[n + b + 4 + c] = l.name[c]
      /\ y[n + b + d + 5] = "newline"
  BY <1>2, <1>5 DEF Chained
<1>7. OfLength(C, t, e + (n + b + d + 5)) /\ Behind(t, x, y, e, n + b + d + 5)
  <2> DEFINE m == n + b + d + 5
  <2>1. OfLength(C, y, m)
    BY <1>6
  <2> HIDE DEF m
  <2>2. OfLength(C, x \o y, e + m) /\ Behind(x \o y, x, y, e, m)
    BY <1>3, <2>1, Joined
  <2>3. QED
    BY <1>4, <2>2 DEF m
<1>8. /\ t \in Seq(C) /\ Len(t) = e + (n + b + d + 5)
      /\ \A c \in 1 .. e : t[c] = x[c]
      /\ \A c \in 1 .. n + b + d + 5 : t[e + c] = y[c]
  BY <1>7 DEF OfLength, Behind
<1>9. e + (n + b + d + 5) = a + b + d + 5
  BY <1>a
<1>10. ASSUME NEW c \in e + 1 .. a
       PROVE  t[c] = l.first[c - e]
  <2> DEFINE q == c - e
  <2>1. q \in 1 .. n /\ q \in 1 .. n + b + d + 5 /\ e + q = c
    BY <1>a
  <2> HIDE DEF q
  <2>2. t[c] = l.first[q]
    BY <1>6, <1>8, <2>1
  <2>3. QED
    BY <2>2 DEF q
<1>11. /\ t[a + 1] = "-" /\ t[a + b + 2] = " " /\ t[a + b + 3] = ":" /\ t[a + b + 4] = " "
       /\ t[a + b + d + 5] = "newline"
  <2>b. /\ n + 1 \in 1 .. n + b + d + 5 /\ n + b + 2 \in 1 .. n + b + d + 5
        /\ n + b + 3 \in 1 .. n + b + d + 5 /\ n + b + 4 \in 1 .. n + b + d + 5
        /\ n + b + d + 5 \in 1 .. n + b + d + 5
    BY <1>a
  <2>c. /\ e + (n + 1) = a + 1 /\ e + (n + b + 2) = a + b + 2
        /\ e + (n + b + 3) = a + b + 3 /\ e + (n + b + 4) = a + b + 4
        /\ e + (n + b + d + 5) = a + b + d + 5
    BY <1>a
  <2>1. /\ n + 1 \in 1 .. n + b + d + 5 /\ e + (n + 1) = a + 1
        /\ n + b + 2 \in 1 .. n + b + d + 5 /\ e + (n + b + 2) = a + b + 2
        /\ n + b + 3 \in 1 .. n + b + d + 5 /\ e + (n + b + 3) = a + b + 3
        /\ n + b + 4 \in 1 .. n + b + d + 5 /\ e + (n + b + 4) = a + b + 4
        /\ n + b + d + 5 \in 1 .. n + b + d + 5 /\ e + (n + b + d + 5) = a + b + d + 5
    BY <2>b, <2>c
  <2>2. /\ t[e + (n + 1)] = y[n + 1] /\ t[e + (n + b + 2)] = y[n + b + 2]
        /\ t[e + (n + b + 3)] = y[n + b + 3] /\ t[e + (n + b + 4)] = y[n + b + 4]
        /\ t[e + (n + b + d + 5)] = y[n + b + d + 5]
    BY <1>8, <2>1
  <2>3. QED
    BY <1>6, <2>1, <2>2
<1>12. ASSUME NEW c \in 1 .. b
       PROVE  t[a + 1 + c] = l.last[c]
  <2>1. n + 1 + c \in 1 .. n + b + d + 5 /\ e + (n + 1 + c) = a + 1 + c
    BY <1>a
  <2>2. t[e + (n + 1 + c)] = y[n + 1 + c]
    BY <1>8, <2>1
  <2>3. QED
    BY <1>6, <2>1, <2>2
<1>13. ASSUME NEW c \in 1 .. d
       PROVE  t[a + b + 4 + c] = l.name[c]
  <2>1. n + b + 4 + c \in 1 .. n + b + d + 5
    BY <1>a
  <2>a. e + (n + b + 4 + c) = a + b + 4 + c
    BY <1>a
  <2>2. t[e + (n + b + 4 + c)] = y[n + b + 4 + c]
    BY <1>8, <2>1
  <2>3. QED
    BY <1>6, <2>1, <2>a, <2>2
<1>14. QED
  BY <1>3, <1>8, <1>9, <1>10, <1>11, <1>12, <1>13 DEF Characters, t, C

\* A line is not empty, and fits in the buffer.
LEMMA FileLines ==
  ASSUME NEW f \in Files
  PROVE  /\ f \in Seq(Lines) /\ Len(f) \in Nat /\ DOMAIN f = 1 .. Len(f)
         /\ \A k \in 1 .. Len(f) :
              /\ f[k] \in Lines
              /\ Text(f[k]) \in Seq(Chars) /\ Len(Text(f[k])) \in Nat /\ Len(Text(f[k])) >= 5
              /\ Len(Text(f[k])) < BUF_LEN
              /\ HasAhci(f[k]) => IsAhci(f[k])
<1>1. f \in Seq(Lines)
  BY ScanAssumption
<1>e. \A k \in DOMAIN f : KernelLine(f[k])
  BY ScanAssumption
<1>2. Len(f) \in Nat /\ DOMAIN f = 1 .. Len(f) /\ \A k \in 1 .. Len(f) : f[k] \in Lines
  BY <1>1
<1>3. ASSUME NEW l \in Lines
      PROVE  Text(l) \in Seq(Chars) /\ Len(Text(l)) \in Nat /\ Len(Text(l)) >= 5
  <2>2. PICK e, a, b, d : Lengths(l, e, a, b, d)
    BY LengthsExist
  <2>1. a \in Nat /\ b \in Nat /\ d \in Nat
    BY <2>2, LengthsAre
  <2>3. Text(l) \in Seq(Chars) /\ Len(Text(l)) = a + b + d + 5
    <3>1. Characters(l, e, a, b, d)
      BY <2>2, TextIs
    <3>2. QED
      BY <3>1 DEF Characters
  <2>4. QED
    BY <2>1, <2>3
<1>4. ASSUME NEW k \in 1 .. Len(f)
      PROVE  /\ f[k] \in Lines
             /\ Text(f[k]) \in Seq(Chars) /\ Len(Text(f[k])) \in Nat /\ Len(Text(f[k])) >= 5
             /\ Len(Text(f[k])) < BUF_LEN
             /\ HasAhci(f[k]) => IsAhci(f[k])
  <2>1. f[k] \in Lines /\ k \in DOMAIN f
    BY <1>2
  <2>2. QED
    BY <1>3, <1>e, <2>1 DEF KernelLine
<1>5. QED
  BY <1>1, <1>2, <1>4

\* The text before the k-th line, for each k.
Before(p, f) ==
  /\ p[0] = <<>>
  /\ \A m \in 1 .. Len(f) : p[m] = p[m - 1] \o Text(f[m])
  /\ \A m \in 0 .. Len(f) : TextOf(SubSeq(f, 1, m)) = p[m]

LEMMA BeforeExists ==
  ASSUME NEW f \in Files
  PROVE  \E p : Before(p, f)
<1> DEFINE n == Len(f)
           seqs == [k \in DOMAIN f |-> Text(f[k])]
<1>1. f \in Seq(Lines) /\ n \in Nat /\ DOMAIN f = 1 .. n
  BY FileLines
<1>2. PICK h : Flat(h, seqs, n)
  BY <1>1, FlatExists
<1>3. \A m \in 1 .. n : h[m] = IF m = 1 THEN seqs[m] ELSE h[m - 1] \o seqs[m]
  BY <1>2, Zenon DEF Flat
<1> DEFINE p == [m \in 0 .. n |-> IF m = 0 THEN <<>> ELSE h[m]]
<1>4. p[0] = <<>> /\ \A m \in 1 .. n : p[m] = h[m]
  BY <1>1
<1>5. \A m \in 1 .. n : seqs[m] = Text(f[m])
  BY <1>1
<1>6. ASSUME NEW m \in 1 .. n
      PROVE  p[m] = p[m - 1] \o Text(f[m])
  <2> HIDE DEF p, seqs
  <2>1. CASE m = 1
    <3>1. p[1] = Text(f[1])
      BY <1>3, <1>4, <1>5, <2>1
    <3>2. Text(f[1]) \in Seq(Chars) /\ m - 1 = 0
      BY <2>1, FileLines
    <3>3. <<>> \o Text(f[1]) = Text(f[1])
      BY <3>2, ConcatEmptySeq
    <3>4. QED
      BY <1>4, <2>1, <3>1, <3>2, <3>3
  <2>2. CASE m # 1
    <3>1. m - 1 \in 1 .. n
      BY <1>1, <2>2
    <3>2. QED
      BY <1>3, <1>4, <1>5, <2>2, <3>1
  <2>3. QED
    BY <2>1, <2>2
<1>7. ASSUME NEW m \in 0 .. n
      PROVE  TextOf(SubSeq(f, 1, m)) = p[m]
  <2> DEFINE e == SubSeq(f, 1, m)
             s2 == [k \in DOMAIN e |-> Text(e[k])]
  <2>1. m \in Nat /\ e \in Seq(Lines) /\ Len(e) = m /\ \A k \in 1 .. m : e[k] = f[k]
    BY <1>1, SubSeqProperties
  <2>2. DOMAIN e = 1 .. m
    BY <2>1
  <2>3. \A k \in 1 .. m : s2[k] = Text(f[k])
    BY <2>1, <2>2
  <2>4. Len(s2) = m
    <3> DEFINE D == {Text(e[k]) : k \in 1 .. m}
    <3>1. s2 \in [1 .. m -> D]
      BY <2>2
    <3> HIDE DEF D, s2
    <3>2. QED
      BY <2>1, <3>1, SeqDef, LenProperties
  <2>5. TextOf(e) = FlattenSeq(s2)
    BY DEF TextOf
  <2>6. CASE m = 0
    <3>1. FlattenSeq(s2) = s2
      <4> HIDE DEF s2
      <4>1. QED
        BY <2>4, <2>6 DEF FlattenSeq
    <3>2. s2 = <<>>
      <4>1. s2 \in Seq(Chars)
        <5>1. s2 \in [1 .. 0 -> Chars]
          BY <2>2, <2>6
        <5>2. QED
          BY <5>1, SeqDef
      <4> HIDE DEF s2
      <4>2. QED
        BY <2>4, <2>6, <4>1, EmptySeq
    <3>3. QED
      BY <1>4, <2>5, <2>6, <3>1, <3>2
  <2>7. CASE m # 0
    <3> HIDE DEF s2, e, seqs, p
    <3>1. PICK g : Flat(g, s2, m) /\ FlattenSeq(s2) = g[m]
      <4>1. Len(s2) \in Nat \ {0}
        BY <2>1, <2>4, <2>7
      <4>2. QED
        BY <2>4, <4>1, FlattenIs
    <3>2. \A k \in 1 .. m : seqs[k] = s2[k]
      BY <1>1, <1>5, <2>3
    <3>3. \A k \in 1 .. m : h[k] = g[k]
      BY <1>1, <1>2, <3>1, <3>2, FlatSame
    <3>4. m \in 1 .. m /\ m \in 1 .. n
      BY <2>1, <2>7, <1>1
    <3>5. QED
      BY <1>4, <2>5, <3>1, <3>3, <3>4 DEF e
  <2>8. QED
    BY <2>6, <2>7
<1>8. QED
  BY <1>4, <1>6, <1>7 DEF Before

\* The text before each line consists of the lines before it.
TextUpTo(p, f, m) ==
  /\ p[m] \in Seq(Chars)
  /\ \A k \in 0 .. m : Len(p[k]) <= Len(p[m])
  /\ \A k \in 1 .. m : \A c \in 1 .. Len(Text(f[k])) :
       p[m][Len(p[k - 1]) + c] = Text(f[k])[c]

LEMMA BeforeText ==
  ASSUME NEW f \in Files, NEW p, Before(p, f), NEW m \in 0 .. Len(f)
  PROVE  TextUpTo(p, f, m)
<1> DEFINE n == Len(f)
           T == {x \in 0 .. n : ~ TextUpTo(p, f, x)}
<1>1. n \in Nat /\ \A k \in 1 .. n : Text(f[k]) \in Seq(Chars) /\ Len(Text(f[k])) \in Nat
  BY FileLines
<1>2. SUFFICES ASSUME T # {}
               PROVE  FALSE
  OBVIOUS
<1>3. PICK x \in T : \A y \in T : x <= y
  <2>1. T \in SUBSET Nat
    BY <1>1
  <2> HIDE DEF T
  <2>2. QED
    BY <1>2, <2>1, Least
<1>4. /\ x \in 0 .. n /\ ~ TextUpTo(p, f, x)
      /\ \A y \in 0 .. n : y < x => TextUpTo(p, f, y)
  <2>1. x \in 0 .. n /\ ~ TextUpTo(p, f, x)
    OBVIOUS
  <2>2. ASSUME NEW y \in 0 .. n, y < x
        PROVE  TextUpTo(p, f, y)
    <3>1. y \notin T
      <4>1. ~ (x <= y)
        BY <1>1, <2>1, <2>2
      <4> HIDE DEF T
      <4>2. QED
        BY <1>3, <4>1
    <3>2. QED
      BY <3>1
  <2>3. QED
    BY <2>1, <2>2
<1> HIDE DEF T, n
<1>5. CASE x = 0
  <2>1. p[0] = <<>>
    BY DEF Before
  <2>2. p[0] \in Seq(Chars) /\ Len(p[0]) = 0
    BY <2>1
  <2>3. TextUpTo(p, f, 0)
    BY <2>2 DEF TextUpTo
  <2>4. QED
    BY <1>4, <1>5, <2>3
<1>6. CASE x # 0
  <2> DEFINE w == x - 1
             L == Len(Text(f[x]))
             a == Len(p[w])
  <2>1. w \in 0 .. n /\ w < x /\ x \in 1 .. n /\ x = w + 1
    BY <1>1, <1>4, <1>6
  <2>2. TextUpTo(p, f, w)
    BY <1>4, <2>1
  <2>3. p[x] = p[w] \o Text(f[x])
    BY <2>1 DEF Before, n
  <2>4. OfLength(Chars, p[w], a) /\ OfLength(Chars, Text(f[x]), L) /\ a \in Nat /\ L \in Nat
    BY <1>1, <2>1, <2>2 DEF OfLength, TextUpTo
  <2>5. OfLength(Chars, p[x], a + L) /\ Behind(p[x], p[w], Text(f[x]), a, L)
    BY <2>3, <2>4, Joined
  <2>6. p[x] \in Seq(Chars) /\ Len(p[x]) = a + L
    BY <2>5 DEF OfLength
  <2>7. ASSUME NEW k \in 0 .. x
        PROVE  Len(p[k]) <= Len(p[x])
    <3>1. k \in 0 .. w \/ k = x
      BY <2>1
    <3>2. CASE k = x
      <4>1. Len(p[x]) \in Nat
        BY <2>5 DEF OfLength
      <4>2. QED
        BY <3>2, <4>1
    <3>3. CASE k \in 0 .. w
      <4>1. Len(p[k]) <= a
        BY <2>2, <3>3 DEF TextUpTo
      <4>2. p[k] \in Seq(Chars)
        <5>1. k < x /\ k \in 0 .. n
          BY <1>1, <2>1, <3>3
        <5>2. QED
          BY <1>4, <5>1 DEF TextUpTo
      <4>3. Len(p[k]) \in Nat
        BY <4>2
      <4> HIDE DEF a, L
      <4>4. QED
        BY <2>4, <2>6, <4>1, <4>3
    <3>4. QED
      BY <3>1, <3>2, <3>3
  <2>8. ASSUME NEW k \in 1 .. x, NEW c \in 1 .. Len(Text(f[k]))
        PROVE  p[x][Len(p[k - 1]) + c] = Text(f[k])[c]
    <3>1. CASE k = x
      <4>1. p[x][a + c] = Text(f[x])[c]
        BY <2>5, <3>1 DEF Behind
      <4>2. k - 1 = w
        BY <3>1
      <4> HIDE DEF a, w
      <4>3. QED
        BY <3>1, <4>1, <4>2 DEF a
    <3>2. CASE k # x
      <4> DEFINE q == k - 1
                 e == Len(p[q])
                 l == Len(Text(f[k]))
      <4>1. k \in 1 .. w /\ q \in 0 .. w /\ k \in 0 .. w /\ k \in 1 .. n /\ q \in 0 .. n /\ k = q + 1
        <5> HIDE DEF w
        <5>1. k \in 1 .. w /\ k \in 0 .. w
          BY <2>1, <3>2
        <5>2. QED
          BY <1>1, <2>1, <5>1
      <4>2. p[w][e + c] = Text(f[k])[c]
        BY <2>2, <4>1 DEF TextUpTo
      <4>3. q < x
        BY <1>1, <4>1, <2>1
      <4>4. p[q] \in Seq(Chars)
        BY <1>4, <4>1, <4>3 DEF TextUpTo
      <4>5. p[k] = p[q] \o Text(f[k])
        BY <4>1 DEF Before, n
      <4>6. OfLength(Chars, p[q], e) /\ OfLength(Chars, Text(f[k]), l) /\ e \in Nat /\ l \in Nat
        <5>1. e \in Nat
          BY <4>4
        <5>2. QED
          BY <1>1, <4>1, <4>4, <5>1 DEF OfLength
      <4>7. Len(p[k]) = e + l
        <5>1. OfLength(Chars, p[k], e + l)
          BY <4>5, <4>6, Joined
        <5>2. QED
          BY <5>1 DEF OfLength
      <4>8. e + l <= a
        BY <2>2, <4>1, <4>7 DEF TextUpTo
      <4>9. c \in 1 .. l
        OBVIOUS
      <4> HIDE DEF e, l, a, q
      <4>10. e + c \in 1 .. a
        BY <2>4, <4>6, <4>8, <4>9
      <4>11. p[x][e + c] = p[w][e + c]
        BY <2>5, <4>10 DEF Behind
      <4>12. QED
        BY <4>2, <4>11 DEF e, q
    <3>3. QED
      BY <3>1, <3>2
  <2>9. TextUpTo(p, f, x)
    BY <2>6, <2>7, <2>8 DEF TextUpTo
  <2>10. QED
    BY <1>4, <2>9
<1>7. QED
  BY <1>5, <1>6

(***************************************************************************)
(* Where the lines of a file are in its text.                              *)
(***************************************************************************)
Layout(f) ==
  /\ TextOf(f) \in Seq(Chars) /\ Len(TextOf(f)) = LineStart(f, Len(f) + 1)
  /\ LineStart(f, 1) = 0
  /\ \A k \in 1 .. Len(f) + 1 : LineStart(f, k) \in Nat
  /\ \A k \in 1 .. Len(f) : LineStart(f, k + 1) = LineStart(f, k) + Len(Text(f[k]))
  /\ \A m \in 1 .. Len(f) + 1 : \A k \in 1 .. m : LineStart(f, k) <= LineStart(f, m)
  /\ \A k \in 1 .. Len(f) : \A c \in 1 .. Len(Text(f[k])) :
       TextOf(f)[LineStart(f, k) + c] = Text(f[k])[c]

LEMMA LinesLaidOut ==
  ASSUME NEW f \in Files
  PROVE  Layout(f)
<1> DEFINE n == Len(f)
<1>1. /\ f \in Seq(Lines) /\ n \in Nat
      /\ \A k \in 1 .. n : Text(f[k]) \in Seq(Chars) /\ Len(Text(f[k])) \in Nat
  BY FileLines
<1>2. PICK p : Before(p, f)
  BY BeforeExists
<1>3. \A m \in 0 .. n : TextUpTo(p, f, m)
  BY <1>2, BeforeText
<1>4. ASSUME NEW k \in 1 .. n + 1
      PROVE  /\ LineStart(f, k) = Len(p[k - 1]) /\ k - 1 \in 0 .. n
             /\ LineStart(f, k) \in Nat
  <2>1. k - 1 \in 0 .. n
    BY <1>1
  <2>2. TextOf(SubSeq(f, 1, k - 1)) = p[k - 1]
    BY <1>2, <2>1 DEF Before
  <2>3. p[k - 1] \in Seq(Chars)
    BY <1>3, <2>1 DEF TextUpTo
  <2>4. QED
    BY <2>1, <2>2, <2>3 DEF LineStart
<1>5. TextOf(f) = p[n]
  <2>1. SubSeq(f, 1, n) = f
    BY <1>1
  <2>2. n \in 0 .. n
    BY <1>1
  <2>3. QED
    BY <1>2, <2>1, <2>2 DEF Before
<1> HIDE DEF n
<1>6. /\ TextOf(f) \in Seq(Chars) /\ Len(TextOf(f)) = LineStart(f, n + 1)
      /\ LineStart(f, 1) = 0
  <2>1. n \in 0 .. n /\ n + 1 \in 1 .. n + 1 /\ (n + 1) - 1 = n /\ 1 \in 1 .. n + 1 /\ 1 - 1 = 0
    BY <1>1
  <2>2. p[n] \in Seq(Chars)
    BY <1>3, <2>1 DEF TextUpTo
  <2>3. p[0] = <<>>
    BY <1>2 DEF Before
  <2>4. LineStart(f, n + 1) = Len(p[n]) /\ LineStart(f, 1) = Len(p[0])
    BY <1>4, <2>1
  <2>5. QED
    BY <1>5, <2>2, <2>3, <2>4
<1>7. ASSUME NEW k \in 1 .. n
      PROVE  LineStart(f, k + 1) = LineStart(f, k) + Len(Text(f[k]))
  <2> DEFINE q == k - 1
             a == Len(p[q])
             L == Len(Text(f[k]))
  <2>1. k \in 1 .. n + 1 /\ k + 1 \in 1 .. n + 1 /\ (k + 1) - 1 = k /\ k \in 0 .. n /\ q \in 0 .. n
    BY <1>1
  <2>2. LineStart(f, k) = a /\ LineStart(f, k + 1) = Len(p[k]) /\ a \in Nat
    BY <1>4, <2>1
  <2>3. p[k] = p[q] \o Text(f[k])
    BY <1>2 DEF Before, n
  <2>4. OfLength(Chars, p[q], a) /\ OfLength(Chars, Text(f[k]), L)
    <3>1. p[q] \in Seq(Chars)
      BY <1>3, <2>1 DEF TextUpTo
    <3> HIDE DEF q
    <3>2. QED
      BY <1>1, <2>2, <3>1 DEF OfLength
  <2>5. OfLength(Chars, p[k], a + L)
    BY <2>3, <2>4, Joined
  <2>6. QED
    BY <2>2, <2>5 DEF OfLength
<1>8. ASSUME NEW m \in 1 .. n + 1, NEW k \in 1 .. m
      PROVE  LineStart(f, k) <= LineStart(f, m)
  <2>1. /\ k \in 1 .. n + 1 /\ k - 1 \in 0 .. m - 1 /\ m - 1 \in 0 .. n
    BY <1>1
  <2>2. Len(p[k - 1]) <= Len(p[m - 1])
    BY <1>3, <2>1 DEF TextUpTo
  <2>3. QED
    BY <1>4, <2>1, <2>2
<1>9. ASSUME NEW k \in 1 .. n, NEW c \in 1 .. Len(Text(f[k]))
      PROVE  TextOf(f)[LineStart(f, k) + c] = Text(f[k])[c]
  <2>1. k \in 1 .. n + 1 /\ n \in 0 .. n
    BY <1>1
  <2>2. p[n][Len(p[k - 1]) + c] = Text(f[k])[c]
    BY <1>3, <2>1 DEF TextUpTo
  <2>3. QED
    BY <1>4, <1>5, <2>1, <2>2
<1>10. QED
  BY <1>4, <1>6, <1>7, <1>8, <1>9 DEF Layout, n

-----------------------------------------------------------------------------
(* The number a sequence of digits stands for                              *)

AddDigit(n, d) == 16 * n + Value(d)

\* The number of the digits at the places in a set, the last one added last.
Adds(f, digits, m) ==
  f = [s \in SUBSET (1 .. m) |->
         IF s = {} THEN 0 ELSE AddDigit(f[s \ {Max(s)}], digits[Max(s)])]

LEMMA MaxIs ==
  ASSUME NEW n \in Nat, NEW s \in SUBSET (1 .. n), n \in s
  PROVE  Max(s) = n
<1>1. \A x \in s : x \in Nat /\ x <= n
  OBVIOUS
<1>2. n \in s /\ \A y \in s : n >= y
  BY <1>1
<1>3. \A x \in s : (\A y \in s : x >= y) => x = n
  BY <1>1
<1>4. QED
  BY <1>2, <1>3 DEF Max

\* One more place: a function for the sets of places so far gives one for all.
LEMMA AddsNext ==
  ASSUME NEW digits, NEW m \in Nat, NEW g, Adds(g, digits, m)
  PROVE  \E f : Adds(f, digits, m + 1)
<1> DEFINE f == [s \in SUBSET (1 .. m + 1) |->
                   IF m + 1 \in s THEN AddDigit(g[s \ {m + 1}], digits[m + 1]) ELSE g[s]]
           Rhs(h, s) == IF s = {} THEN 0 ELSE AddDigit(h[s \ {Max(s)}], digits[Max(s)])
<1>1. \A s \in SUBSET (1 .. m + 1) :
         /\ m + 1 \in s => f[s] = AddDigit(g[s \ {m + 1}], digits[m + 1])
         /\ m + 1 \notin s => f[s] = g[s]
  OBVIOUS
<1>2. \A s \in SUBSET (1 .. m) : g[s] = Rhs(g, s)
  BY Zenon DEF Adds
<1>3. ASSUME NEW s \in SUBSET (1 .. m + 1)
      PROVE  f[s] = Rhs(f, s)
  <2> HIDE DEF f
  <2>1. CASE m + 1 \in s
    <3>1. Max(s) = m + 1
      <4>1. m + 1 \in Nat
        OBVIOUS
      <4>2. QED
        BY <2>1, <4>1, MaxIs
    <3>2. s \ {m + 1} \in SUBSET (1 .. m + 1) /\ m + 1 \notin s \ {m + 1}
      OBVIOUS
    <3>3. f[s \ {m + 1}] = g[s \ {m + 1}]
      BY <1>1, <3>2
    <3>4. QED
      BY <1>1, <2>1, <3>1, <3>3
  <2>2. CASE m + 1 \notin s
    <3>1. s \in SUBSET (1 .. m)
      <4>1. \A x \in s : x \in 1 .. m + 1 /\ x # m + 1
        BY <2>2
      <4>2. \A x \in s : x \in 1 .. m
        BY <4>1
      <4>3. QED
        BY <4>2
    <3>2. m + 1 \notin s \ {Max(s)} /\ s \ {Max(s)} \in SUBSET (1 .. m + 1)
      BY <2>2
    <3>3. f[s \ {Max(s)}] = g[s \ {Max(s)}]
      BY <1>1, <3>2
    <3>4. f[s] = g[s]
      BY <1>1, <2>2
    <3>5. QED
      BY <1>2, <3>1, <3>3, <3>4
  <2>3. QED
    BY <2>1, <2>2
<1>4. f = [s \in SUBSET (1 .. m + 1) |-> Rhs(f, s)]
  BY <1>3, Zenon
<1>5. Adds(f, digits, m + 1)
  BY <1>4, Zenon DEF Adds
<1>6. QED
  BY <1>5

LEMMA AddsExists ==
  ASSUME NEW digits, NEW n \in Nat
  PROVE  \E f : Adds(f, digits, n)
<1> DEFINE T == {m \in Nat : ~ \E f : Adds(f, digits, m)}
<1>1. SUFFICES ASSUME T # {}
               PROVE  FALSE
  OBVIOUS
<1>2. PICK m \in T : \A y \in T : m <= y
  <2>1. T \in SUBSET Nat
    OBVIOUS
  <2> HIDE DEF T
  <2>2. QED
    BY <1>1, <2>1, Least
<1>3. CASE m = 0
  <2> DEFINE f == [s \in SUBSET (1 .. 0) |-> 0]
  <2>1. \A s \in SUBSET (1 .. 0) : s = {}
    OBVIOUS
  <2>2. f = [s \in SUBSET (1 .. 0) |->
               IF s = {} THEN 0 ELSE AddDigit(f[s \ {Max(s)}], digits[Max(s)])]
    BY <2>1
  <2>3. Adds(f, digits, 0)
    BY <2>2, Zenon DEF Adds
  <2>4. QED
    BY <1>3, <2>3
<1>4. CASE m # 0
  <2>1. m - 1 \in Nat /\ m - 1 \notin T /\ (m - 1) + 1 = m
    BY <1>2, <1>4
  <2>2. PICK g : Adds(g, digits, m - 1)
    BY <2>1
  <2>3. QED
    BY <2>1, <2>2, AddsNext
<1>5. QED
  BY <1>3, <1>4

\* The number, digit by digit.
LEMMA NumberSteps ==
  ASSUME NEW C, NEW digits \in Seq(C)
  PROVE  \E v : /\ v[0] = 0
                /\ \A k \in 1 .. Len(digits) : v[k] = AddDigit(v[k - 1], digits[k])
                /\ Number(digits) = v[Len(digits)]
<1> DEFINE n == Len(digits)
           f == CHOOSE f : Adds(f, digits, n)
<1>1. n \in Nat /\ DOMAIN digits = 1 .. n
  OBVIOUS
<1>2. Adds(f, digits, n)
  BY <1>1, AddsExists
<1>3. Number(digits) = f[1 .. n]
  BY <1>1 DEF Number, FoldLeft, MapThenFoldSet, Adds, AddDigit
<1> HIDE DEF f
<1> DEFINE v == [k \in 0 .. n |-> f[1 .. k]]
<1>4. \A s \in SUBSET (1 .. n) :
         f[s] = IF s = {} THEN 0 ELSE AddDigit(f[s \ {Max(s)}], digits[Max(s)])
  BY <1>2, Zenon DEF Adds
<1>5. v[0] = 0
  <2>1. {} \in SUBSET (1 .. n) /\ 1 .. 0 = {} /\ 0 \in 0 .. n
    BY <1>1
  <2>2. f[{}] = 0
    BY <1>4, <2>1
  <2>3. QED
    BY <2>1, <2>2
<1>6. ASSUME NEW k \in 1 .. n
      PROVE  v[k] = AddDigit(v[k - 1], digits[k])
  <2>1. Max(1 .. k) = k
    <3>1. k \in Nat /\ k \in 1 .. k /\ 1 .. k \in SUBSET (1 .. k)
      BY <1>1
    <3>2. QED
      BY <3>1, MaxIs
  <2>2. (1 .. k) \ {k} = 1 .. k - 1 /\ 1 .. k # {} /\ 1 .. k \in SUBSET (1 .. n)
    <3> HIDE DEF n
    <3>1. k \in 1 .. n /\ n \in Nat
      BY <1>1
    <3>2. k \in 1 .. k /\ \A x : x \in 1 .. k - 1 <=> x \in 1 .. k /\ x # k
      BY <3>1
    <3>3. \A x \in 1 .. k : x \in 1 .. n
      BY <3>1
    <3>4. QED
      BY <3>2, <3>3, Zenon
  <2>3. f[1 .. k] = AddDigit(f[1 .. k - 1], digits[k])
    BY <1>4, <2>1, <2>2
  <2>4. k \in 0 .. n /\ k - 1 \in 0 .. n
    BY <1>1
  <2>5. QED
    BY <2>3, <2>4
<1>7. v[n] = f[1 .. n]
  BY <1>1
<1>8. QED
  BY <1>3, <1>5, <1>6, <1>7

(***************************************************************************)
(* The numbers of the first digits: each has one more digit than the one   *)
(* before, none is more than the whole.                                    *)
(***************************************************************************)
UpTo(digits, m) == Number(SubSeq(digits, 1, m))

Numbered(digits) ==
  /\ UpTo(digits, 0) = 0 /\ UpTo(digits, Len(digits)) = Number(digits)
  /\ \A m \in 1 .. Len(digits) : UpTo(digits, m) = AddDigit(UpTo(digits, m - 1), digits[m])
  /\ \A m \in 0 .. Len(digits) : UpTo(digits, m) \in Nat /\ UpTo(digits, m) <= Number(digits)

LEMMA DigitsNumbered ==
  ASSUME NEW digits \in Seq(Digits)
  PROVE  Numbered(digits)
<1> DEFINE n == Len(digits)
<1>1. n \in Nat /\ \A k \in 1 .. n : digits[k] \in Digits
  OBVIOUS
<1>2. PICK v : /\ v[0] = 0
               /\ \A k \in 1 .. n : v[k] = AddDigit(v[k - 1], digits[k])
               /\ Number(digits) = v[n]
  BY NumberSteps
<1>3. ASSUME NEW m \in 0 .. n
      PROVE  UpTo(digits, m) = v[m]
  <2> DEFINE e == SubSeq(digits, 1, m)
  <2>1. m \in Nat /\ e \in Seq(Digits) /\ Len(e) = m /\ \A k \in 1 .. m : e[k] = digits[k]
    BY <1>1, SubSeqProperties
  <2> HIDE DEF e
  <2>2. PICK u : /\ u[0] = 0
                 /\ \A k \in 1 .. Len(e) : u[k] = AddDigit(u[k - 1], e[k])
                 /\ Number(e) = u[Len(e)]
    BY <2>1, NumberSteps
  <2> DEFINE T == {k \in 0 .. m : u[k] # v[k]}
  <2>3. T = {}
    <3>1. SUFFICES ASSUME T # {}
                   PROVE  FALSE
      OBVIOUS
    <3>2. PICK k \in T : \A y \in T : k <= y
      <4>1. T \in SUBSET Nat
        BY <2>1
      <4> HIDE DEF T
      <4>2. QED
        BY <3>1, <4>1, Least
    <3>3. k \in 0 .. m /\ u[k] # v[k]
      OBVIOUS
    <3>4. k # 0
      BY <1>2, <2>2, <3>3
    <3>5. k \in 1 .. m /\ k \in 1 .. n /\ k - 1 \in 0 .. m /\ k - 1 < k
      BY <1>1, <2>1, <3>3, <3>4
    <3>6. u[k - 1] = v[k - 1]
      BY <3>2, <3>5
    <3>7. QED
      BY <1>2, <2>1, <2>2, <3>3, <3>5, <3>6
  <2>4. m \in 0 .. m
    BY <2>1
  <2>5. u[m] = v[m]
    BY <2>3, <2>4
  <2>6. QED
    BY <2>1, <2>2, <2>5 DEF UpTo, e
<1>4. \A m \in 1 .. n : m \in 0 .. n /\ m - 1 \in 0 .. n
  BY <1>1
<1>5. 0 \in 0 .. n /\ n \in 0 .. n
  BY <1>1
<1>6. \A m \in 1 .. n : UpTo(digits, m) = AddDigit(UpTo(digits, m - 1), digits[m])
  BY <1>2, <1>3, <1>4
<1>7. ASSUME NEW m \in 0 .. n, v[m] \notin Nat
      PROVE  FALSE
  <2> DEFINE T == {k \in 0 .. n : v[k] \notin Nat}
  <2>1. PICK k \in T : \A y \in T : k <= y
    <3>1. T \in SUBSET Nat /\ m \in T
      BY <1>1, <1>7
    <3> HIDE DEF T
    <3>2. QED
      BY <3>1, Least
  <2>2. k \in 0 .. n /\ v[k] \notin Nat
    OBVIOUS
  <2>3. k # 0
    BY <1>2, <2>2
  <2>4. k \in 1 .. n /\ k - 1 \in 0 .. n /\ k - 1 < k
    BY <1>1, <2>2, <2>3
  <2>5. v[k - 1] \in Nat
    BY <2>1, <2>4
  <2>6. Value(digits[k]) \in 0 .. 15
    BY <1>1, <2>4, DigitValue
  <2>7. v[k] = 16 * v[k - 1] + Value(digits[k])
    BY <1>2, <2>4 DEF AddDigit
  <2>8. \A x \in Nat : \A y \in 0 .. 15 : 16 * x + y \in Nat
    OBVIOUS
  <2>9. 16 * v[k - 1] + Value(digits[k]) \in Nat
    BY <2>5, <2>6, <2>8
  <2>10. QED
    BY <2>2, <2>7, <2>9
<1>8. \A m \in 0 .. n : v[m] \in Nat
  BY <1>7
<1>9. ASSUME NEW m \in 0 .. n, ~ (v[m] <= v[n])
      PROVE  FALSE
  <2> DEFINE T == {k \in 0 .. n : ~ (v[n - k] <= v[n])}
  <2>1. PICK k \in T : \A y \in T : k <= y
    <3>1. T \in SUBSET Nat /\ n - m \in T
      <4>1. n - m \in 0 .. n /\ n - (n - m) = m
        BY <1>1
      <4>2. QED
        BY <1>1, <1>9, <4>1
    <3> HIDE DEF T
    <3>2. QED
      BY <3>1, Least
  <2>2. k \in 0 .. n /\ ~ (v[n - k] <= v[n])
    OBVIOUS
  <2> DEFINE q == n - k
             w == q + 1
  <2>3. k # 0
    <3>1. n - 0 = n
      BY <1>1
    <3>2. v[n] \in Nat
      BY <1>5, <1>8
    <3>3. QED
      BY <2>2, <3>1, <3>2
  <2>4. w \in 1 .. n /\ q \in 0 .. n /\ k - 1 \in 0 .. n /\ k - 1 < k /\ n - (k - 1) = w /\ w - 1 = q
    BY <1>1, <2>2, <2>3
  <2>5. v[w] <= v[n]
    <3>1. ~ (k <= k - 1)
      BY <2>4
    <3>2. k - 1 \notin T
      <4> HIDE DEF T
      <4>1. QED
        BY <2>1, <3>1
    <3>3. QED
      BY <2>4, <3>2
  <2>6. Value(digits[w]) \in 0 .. 15
    BY <1>1, <2>4, DigitValue
  <2>7. v[w] = 16 * v[q] + Value(digits[w])
    BY <1>2, <2>4 DEF AddDigit
  <2>8. v[q] \in Nat /\ v[w] \in Nat /\ v[n] \in Nat
    BY <1>4, <1>5, <1>8, <2>4
  <2>9. ~ (v[q] <= v[n])
    BY <2>2
  <2> HIDE DEF q, w, T
  <2>10. \A x, z \in Nat : \A y \in 0 .. 15 : 16 * x + y <= z => x <= z
    OBVIOUS
  <2>11. 16 * v[q] + Value(digits[w]) <= v[n]
    BY <2>5, <2>7
  <2>12. QED
    BY <2>6, <2>8, <2>9, <2>10, <2>11
<1>10. \A m \in 0 .. n : UpTo(digits, m) \in Nat /\ UpTo(digits, m) <= Number(digits)
  BY <1>2, <1>3, <1>8, <1>9
<1>11. UpTo(digits, 0) = 0 /\ UpTo(digits, n) = Number(digits)
  BY <1>2, <1>3, <1>5
<1>12. QED
  BY <1>6, <1>10, <1>11 DEF Numbered

-----------------------------------------------------------------------------
(* One line in the buffer                                                  *)

NoDigits == {"h", "i", "x", ":", "-", " ", "newline", "NUL"}

LEMMA NoDigit ==
  ASSUME NEW c \in NoDigits
  PROVE  c \notin Digits
<1>1. ASSUME NEW k \in 1 .. 16
      PROVE  HexDigits[k] \notin NoDigits
  <2>1. \/ k = 1 \/ k = 2 \/ k = 3 \/ k = 4 \/ k = 5 \/ k = 6 \/ k = 7 \/ k = 8
        \/ k = 9 \/ k = 10 \/ k = 11 \/ k = 12 \/ k = 13 \/ k = 14 \/ k = 15 \/ k = 16
    OBVIOUS
  <2>2. \/ HexDigits[k] \in {"0", "1", "2", "3", "4", "5", "6", "7"}
        \/ HexDigits[k] \in {"8", "9", "a", "b", "c", "d", "e", "f"}
    BY <2>1 DEF HexDigits
  <2>3. QED
    BY <2>2 DEF NoDigits
<1>2. DOMAIN HexDigits = 1 .. 16
  BY DEF HexDigits
<1>3. QED
  BY <1>1, <1>2 DEF Digits, ToSet

\* A line ends with its only newline, and has no NUL.
LEMMA LineChars ==
  ASSUME NEW l \in Lines
  PROVE  /\ Text(l)[Len(Text(l))] = "newline"
         /\ \A c \in 1 .. Len(Text(l)) : Text(l)[c] # "NUL" /\ Text(l)[c] \in Chars
         /\ \A c \in 1 .. Len(Text(l)) - 1 : Text(l)[c] # "newline"
<1> DEFINE t == Text(l)
<1>2. PICK e, a, b, d : Lengths(l, e, a, b, d)
  BY LengthsExist
<1>1. /\ e \in Nat /\ a \in Nat /\ b \in Nat /\ d \in Nat /\ e <= a /\ Len(l.first) = a - e
      /\ Len(l.last) = b /\ Len(l.name) = d
  BY <1>2, LengthsAre DEF Lengths
<1>3. /\ \A c \in 1 .. a - e : l.first[c] \in Digits
      /\ \A c \in 1 .. b : l.last[c] \in Digits
      /\ \A c \in 1 .. d : l.name[c] \notin {"newline", "NUL"}
  BY <1>1 DEF Lines
<1>4. Characters(l, e, a, b, d)
  BY <1>2, TextIs
<1>5. ASSUME NEW c \in 1 .. a + b + d + 4
      PROVE  t[c] \notin {"newline", "NUL"}
  <2>7. CASE c \in 1 .. e
    <3>1. t[c] = " "
      BY <1>4, <2>7 DEF Characters
    <3>2. QED
      BY <3>1
  <2>1. CASE c \in e + 1 .. a
    <3> DEFINE q == c - e
    <3>1. q \in 1 .. a - e
      BY <1>1, <2>1
    <3> HIDE DEF q
    <3>2. t[c] = l.first[q]
      BY <1>4, <2>1 DEF Characters, q
    <3>3. QED
      BY <1>3, <3>1, <3>2, NoDigit DEF NoDigits
  <2>2. CASE c \in a + 2 .. a + b + 1
    <3> DEFINE q == c - (a + 1)
    <3>1. q \in 1 .. b /\ c = a + 1 + q
      BY <1>1, <2>2
    <3> HIDE DEF q
    <3>2. t[c] = l.last[q]
      BY <1>4, <3>1 DEF Characters
    <3>3. QED
      BY <1>3, <3>1, <3>2, NoDigit DEF NoDigits
  <2>3. CASE c \in a + b + 5 .. a + b + d + 4
    <3> DEFINE q == c - (a + b + 4)
    <3>1. q \in 1 .. d /\ c = a + b + 4 + q
      BY <1>1, <2>3
    <3> HIDE DEF q
    <3>2. t[c] = l.name[q]
      BY <1>4, <3>1 DEF Characters
    <3>3. QED
      BY <1>3, <3>1, <3>2
  <2>4. CASE c \in {a + 1, a + b + 2, a + b + 3, a + b + 4}
    <3>1. t[c] \in {"-", " ", ":"}
      BY <1>4, <2>4 DEF Characters
    <3>2. QED
      BY <3>1
  <2>5. \/ c \in 1 .. e \/ c \in e + 1 .. a \/ c \in a + 2 .. a + b + 1
        \/ c \in a + b + 5 .. a + b + d + 4
        \/ c \in {a + 1, a + b + 2, a + b + 3, a + b + 4}
    BY <1>1
  <2>6. QED
    BY <2>1, <2>2, <2>3, <2>4, <2>5, <2>7
<1>6. t \in Seq(Chars) /\ Len(t) = a + b + d + 5 /\ t[Len(t)] = "newline"
  BY <1>4 DEF Characters
<1> HIDE DEF t
<1>7. \A c \in 1 .. Len(t) : t[c] \in Chars
  BY <1>6
<1>8. ASSUME NEW c \in 1 .. Len(t)
      PROVE  c \in 1 .. a + b + d + 4 \/ c = Len(t)
  BY <1>1, <1>6
<1>9. ASSUME NEW c \in 1 .. Len(t) - 1
      PROVE  c \in 1 .. a + b + d + 4
  BY <1>1, <1>6
<1>10. QED
  BY <1>5, <1>6, <1>7, <1>8, <1>9 DEF t

-----------------------------------------------------------------------------
(* The scan, one line after the other                                      *)

\* At the start of a line, getbaseaddr reads that line and no more.
LEMMA ReadsOneLine ==
  ASSUME ScanTypeOK, NEW k \in 1 .. Len(iomem) + 1, fpos = LineStart(iomem, k), ReadLine
  PROVE  k \in DOMAIN iomem /\ ScanTypeOK' /\ Reading(k)'
<1> DEFINE n == Len(iomem)
           text == TextOf(iomem)
           L == Len(Text(iomem[k]))
<1>1. Layout(iomem) /\ iomem \in Files
  BY LinesLaidOut DEF ScanTypeOK
<1>2. /\ n \in Nat /\ DOMAIN iomem = 1 .. n
      /\ \A m \in 1 .. n : iomem[m] \in Lines /\ Len(Text(iomem[m])) \in Nat
                             /\ Len(Text(iomem[m])) >= 5 /\ Len(Text(iomem[m])) < BUF_LEN
  BY <1>1, FileLines
<1>3. BUF_LEN \in Nat \ {0} /\ BEHIND \in Nat
  BY ScanAssumption
<1>4. PICK rsize \in ReadSizes :
        /\ cur' = fpos
        /\ fpos' = SeekBack(AfterNewline(text, rsize), rsize)
        /\ buf' = [c \in Cells |->
                     IF Terminates(AfterNewline(text, rsize), rsize) /\ c = AfterNewline(text, rsize)
                     THEN "NUL" ELSE IF c < rsize THEN text[fpos + c + 1] ELSE buf[c]]
        /\ ended' = (AfterNewline(text, rsize) < rsize)
  BY DEF ReadLine
<1>5. /\ iomem' = iomem /\ spc' = "find" /\ idx' = 0 /\ state' = 0
      /\ UNCHANGED <<flag, tmp_start, tmp_end>>
  BY DEF ReadLine, parse_vars
<1>6. /\ rsize \in 1 .. BUF_LEN /\ rsize <= Len(text) - fpos
      /\ \/ rsize = Len(text) - fpos \/ rsize = BUF_LEN
         \/ \E m \in 1 .. n : rsize = LineStart(iomem, m + 1) - fpos
  BY <1>2 DEF ReadSizes
<1>7. /\ Len(text) = LineStart(iomem, n + 1) /\ text \in Seq(Chars)
      /\ \A m \in 1 .. n + 1 : LineStart(iomem, m) \in Nat
      /\ \A m \in 1 .. n : LineStart(iomem, m + 1) = LineStart(iomem, m) + Len(Text(iomem[m]))
      /\ \A m \in 1 .. n + 1 : \A q \in 1 .. m : LineStart(iomem, q) <= LineStart(iomem, m)
      /\ \A m \in 1 .. n : \A c \in 1 .. Len(Text(iomem[m])) :
           text[LineStart(iomem, m) + c] = Text(iomem[m])[c]
  BY <1>1 DEF Layout
<1>8. k \in 1 .. n /\ fpos \in Nat
  <2>1. fpos \in Nat
    BY DEF ScanTypeOK
  <2>2. k # n + 1
    <3>1. SUFFICES ASSUME k = n + 1
                   PROVE  FALSE
      OBVIOUS
    <3>2. Len(text) - fpos = 0
      BY <1>7, <2>1, <3>1
    <3> HIDE DEF text
    <3>3. QED
      BY <1>6, <3>2
  <2>3. QED
    BY <1>2, <2>1, <2>2
<1> HIDE DEF text, n
<1>9. /\ LineStart(iomem, k + 1) = fpos + L /\ L \in Nat /\ L >= 5 /\ L < BUF_LEN
      /\ iomem[k] \in Lines
      /\ \A c \in 1 .. L : text[fpos + c] = Text(iomem[k])[c]
  BY <1>2, <1>7, <1>8
<1> HIDE DEF L
<1>10. /\ Len(text) \in Nat /\ fpos + L <= Len(text)
  <2>1. n + 1 \in 1 .. n + 1 /\ k + 1 \in 1 .. n + 1
    BY <1>2, <1>8
  <2>2. QED
    BY <1>7, <1>9, <2>1
<1>11. rsize \in Nat /\ L <= rsize
  <2>1. CASE rsize = Len(text) - fpos
    BY <1>3, <1>6, <1>8, <1>9, <1>10, <2>1
  <2>2. CASE rsize = BUF_LEN
    BY <1>3, <1>9, <2>2
  <2>3. ASSUME NEW m \in 1 .. n, rsize = LineStart(iomem, m + 1) - fpos
        PROVE  rsize \in Nat /\ L <= rsize
    <3>m. m + 1 \in 1 .. n + 1 /\ k \in 1 .. n + 1
      BY <1>2, <1>8
    <3>1. m + 1 \in 1 .. n + 1 /\ LineStart(iomem, m + 1) \in Nat /\ k \in 1 .. n + 1
      BY <1>7, <3>m
    <3>2. ~ (LineStart(iomem, m + 1) <= fpos)
      BY <1>3, <1>6, <1>8, <2>3, <3>1
    <3>3. m + 1 \notin 1 .. k
      BY <1>7, <3>1, <3>2
    <3>4. k + 1 \in 1 .. m + 1
      BY <1>2, <1>8, <3>1, <3>3
    <3>5. fpos + L <= LineStart(iomem, m + 1)
      BY <1>7, <1>9, <3>1, <3>4
    <3> DEFINE S == LineStart(iomem, m + 1)
    <3>6. S \in Nat /\ fpos + L <= S /\ rsize = S - fpos
      BY <2>3, <3>1, <3>5
    <3> HIDE DEF S
    <3>7. QED
      BY <1>8, <1>9, <3>6
  <2>4. QED
    BY <1>6, <2>1, <2>2, <2>3
<1>12. AfterNewline(text, rsize) = L
  <2> DEFINE ends == {q \in 1 .. rsize : text[fpos + q] = "newline"}
  <2>1. /\ Text(iomem[k])[L] = "newline"
        /\ \A c \in 1 .. L - 1 : Text(iomem[k])[c] # "newline"
    BY <1>9, LineChars DEF L
  <2>2. L \in ends
    <3>1. L \in 1 .. L /\ L \in 1 .. rsize
      BY <1>9, <1>11
    <3>2. QED
      BY <1>9, <2>1, <3>1
  <2>3. ASSUME NEW e \in ends
        PROVE  L <= e /\ e \in Nat
    <3>1. e \in 1 .. rsize /\ text[fpos + e] = "newline"
      OBVIOUS
    <3>2. e \notin 1 .. L - 1
      <4>1. SUFFICES ASSUME e \in 1 .. L - 1
                     PROVE  FALSE
        OBVIOUS
      <4>2. e \in 1 .. L
        BY <1>9, <4>1
      <4>3. QED
        BY <1>9, <2>1, <3>1, <4>1, <4>2
    <3>3. QED
      BY <1>9, <1>11, <3>1, <3>2
  <2>4. AfterNewline(text, rsize) =
          IF ends = {} THEN rsize ELSE CHOOSE q \in ends : \A e \in ends : q <= e
    BY DEF AfterNewline
  <2> HIDE DEF ends
  <2>5. \A q \in ends : (\A e \in ends : q <= e) => q = L
    BY <1>9, <2>2, <2>3
  <2>6. QED
    BY <2>2, <2>3, <2>4, <2>5
<1>13. cur' = fpos /\ fpos' = fpos + L /\ ended' = (L < rsize)
  <2>1. SeekBack(L, rsize) = fpos + L
    <3>1. L < rsize \/ L = rsize
      BY <1>9, <1>11
    <3>2. QED
      BY <3>1 DEF SeekBack
  <2>2. QED
    BY <1>4, <1>12, <2>1
<1>14. \A c \in Cells : buf'[c] = IF L < rsize /\ c = L THEN "NUL"
                                  ELSE IF c < rsize THEN text[fpos + c + 1] ELSE buf[c]
  BY <1>4, <1>12 DEF Terminates
<1>15. /\ \A c \in 0 .. L : c \in Cells
       /\ LastCell \in Cells /\ ~ (LastCell < rsize)
  BY <1>3, <1>6, <1>9 DEF Cells, LastCell
<1>16. ASSUME NEW c \in 1 .. L
       PROVE  buf'[c - 1] = Text(iomem[k])[c]
  <2> DEFINE q == c - 1
  <2>1. q \in 0 .. L /\ q # L /\ q < rsize /\ fpos + q + 1 = fpos + c
    BY <1>8, <1>9, <1>11
  <2> HIDE DEF q
  <2>2. buf'[q] = text[fpos + c]
    BY <1>14, <1>15, <2>1
  <2>3. QED
    BY <1>9, <2>2 DEF q
<1>17. ended' => buf'[L] = "NUL"
  <2>1. L \in Cells
    BY <1>9, <1>15
  <2>2. QED
    BY <1>13, <1>14, <2>1
<1>18. Reading(k)'
  <2>1. DOMAIN Text(iomem[k]) = 1 .. L
    <3>1. Text(iomem[k]) \in Seq(Chars)
      BY <1>1, <1>8, FileLines DEF n
    <3>2. QED
      BY <3>1 DEF L
  <2>2. /\ cur' = LineStart(iomem, k) /\ fpos' = LineStart(iomem, k + 1)
    BY <1>9, <1>13
  <2>3. \A c \in DOMAIN Text(iomem[k]) : buf'[c - 1] = Text(iomem[k])[c]
    BY <1>16, <2>1
  <2>4. QED
    BY <1>5, <1>17, <2>2, <2>3 DEF Reading, L
<1>19. buf' \in [Cells -> Chars] /\ buf'[LastCell] = "NUL"
  <2>1. ASSUME NEW c \in Cells
        PROVE  buf'[c] \in Chars
    <3>1. "NUL" \in Chars /\ buf[c] \in Chars
      BY DEF Chars, ScanTypeOK
    <3>2. c < rsize => text[fpos + c + 1] \in Chars
      <4>1. c \in Nat
        BY <1>3 DEF Cells
      <4>2. c < rsize => fpos + c + 1 \in 1 .. Len(text)
        BY <1>6, <1>8, <1>10, <1>11, <4>1
      <4>3. QED
        BY <1>7, <4>2
    <3>3. QED
      BY <1>14, <3>1, <3>2
  <2>2. buf' = [c \in Cells |-> buf'[c]]
    BY <1>4
  <2>3. buf[LastCell] = "NUL"
    BY DEF ScanTypeOK
  <2>4. buf'[LastCell] = "NUL"
    BY <1>14, <1>15, <2>3
  <2>5. QED
    BY <2>1, <2>2, <2>4
<1>20. ScanTypeOK'
  <2>1. 0 \in Cells /\ fpos' \in Nat /\ cur' \in Nat /\ cur' <= fpos'
    BY <1>8, <1>9, <1>13, <1>15
  <2>2. ended' \in BOOLEAN
    BY <1>13
  <2>3. /\ iomem \in Files /\ flag \in BOOLEAN /\ tmp_start \in Nat /\ tmp_end \in Nat
    BY DEF ScanTypeOK
  <2>4. LastCell' = LastCell /\ Cells' = Cells
    BY DEF LastCell, Cells
  <2>5. QED
    BY <1>5, <1>19, <2>1, <2>2, <2>3, <2>4 DEF ScanTypeOK
<1>21. QED
  BY <1>2, <1>8, <1>18, <1>20

\* What is in the buffer while a line is examined.
LEMMA LineInBuffer ==
  ASSUME ScanTypeOK, NEW k \in DOMAIN iomem, Reading(k)
  PROVE  /\ iomem[k] \in Lines /\ Len(Text(iomem[k])) \in Nat /\ Len(Text(iomem[k])) < BUF_LEN
         /\ Text(iomem[k]) \in Seq(Chars)
         /\ \A c \in 0 .. Len(Text(iomem[k])) - 1 :
              c \in Cells /\ buf[c] = Text(iomem[k])[c + 1] /\ buf[c] # "NUL"
         /\ ended => buf[Len(Text(iomem[k]))] = "NUL"
<1> DEFINE l == iomem[k]
           L == Len(Text(l))
<1>1. iomem \in Files
  BY DEF ScanTypeOK
<1>2. l \in Lines /\ L \in Nat /\ L < BUF_LEN /\ Text(l) \in Seq(Chars) /\ DOMAIN Text(l) = 1 .. L
  <2>1. k \in 1 .. Len(iomem)
    BY <1>1, FileLines
  <2>2. l \in Lines /\ L \in Nat /\ L < BUF_LEN /\ Text(l) \in Seq(Chars)
    BY <1>1, <2>1, FileLines
  <2>3. QED
    BY <2>2
<1>3. \A c \in 1 .. L : Text(l)[c] # "NUL"
  BY <1>2, LineChars
<1>4. ASSUME NEW c \in 0 .. L - 1
      PROVE  c \in Cells /\ buf[c] = Text(l)[c + 1] /\ buf[c] # "NUL"
  <2> HIDE DEF L
  <2>1. c + 1 \in 1 .. L /\ (c + 1) - 1 = c
    BY <1>2
  <2>2. buf[(c + 1) - 1] = Text(l)[c + 1]
    BY <1>2, <2>1 DEF Reading
  <2>3. BUF_LEN \in Nat /\ BEHIND \in Nat
    BY ScanAssumption
  <2>4. c \in Cells
    BY <1>2, <2>3 DEF Cells
  <2>5. QED
    BY <1>3, <2>1, <2>2, <2>4
<1>5. QED
  BY <1>2, <1>4 DEF Reading

\* The name of a controller's line in the buffer.
NameInBuffer(P, L) ==
  /\ P \in Nat /\ P >= 4 /\ L = P + 5
  /\ buf[P - 1] = " " /\ buf[P] = "a" /\ buf[P + 1] = "h" /\ buf[P + 2] = "c" /\ buf[P + 3] = "i"

LEMMA ControllerInBuffer ==
  ASSUME ScanTypeOK, NEW k \in DOMAIN iomem, Reading(k), IsAhci(iomem[k])
  PROVE  NameInBuffer(NamePlace(iomem[k]), Len(Text(iomem[k])))
<1> DEFINE l == iomem[k]
           L == Len(Text(l))
           e == 2 * l.depth
           a == e + Len(l.first)
           b == Len(l.last)
           P == NamePlace(l)
<1>1. /\ l \in Lines /\ L \in Nat
      /\ \A c \in 0 .. L - 1 : buf[c] = Text(l)[c + 1]
  BY LineInBuffer
<1>2. a \in Nat /\ b \in Nat /\ P = a + b + 4
  <2>1. l.depth \in Nat /\ Len(l.first) \in Nat /\ Len(l.last) \in Nat
    BY <1>1 DEF Lines
  <2>2. \A x, y, z \in Nat : 2 * x + y \in Nat /\ 2 * x + y + z + 4 = (2 * x + y) + z + 4
    OBVIOUS
  <2> HIDE DEF l
  <2>3. QED
    BY <2>1, <2>2 DEF NamePlace
<1>3. /\ l.name = <<"a", "h", "c", "i">> /\ Len(l.name) = 4
      /\ l.name[1] = "a" /\ l.name[2] = "h" /\ l.name[3] = "c" /\ l.name[4] = "i"
  <2>1. l.name = <<"a", "h", "c", "i">>
    BY DEF IsAhci
  <2> HIDE DEF l
  <2>2. QED
    BY <2>1
<1>4. Characters(l, e, a, b, 4)
  <2>1. Lengths(l, e, a, b, 4)
    BY <1>3 DEF Lengths
  <2> HIDE DEF e, a, b, l
  <2>2. QED
    BY <1>1, <2>1, TextIs
<1> HIDE DEF e, a, b, P, L, l
<1>5. /\ L = a + b + 4 + 5
      /\ Text(l)[a + b + 4] = " "
      /\ \A c \in 1 .. 4 : Text(l)[a + b + 4 + c] = l.name[c]
  BY <1>4 DEF Characters, L
<1>6. /\ P \in Nat /\ P >= 4 /\ L = P + 5
      /\ Text(l)[P] = " " /\ \A c \in 1 .. 4 : Text(l)[P + c] = l.name[c]
  <2>1. P \in Nat /\ P >= 4
    BY <1>2
  <2>2. QED
    BY <1>2, <1>5, <2>1
<1>7. /\ P - 1 \in 0 .. L - 1 /\ P \in 0 .. L - 1 /\ P + 1 \in 0 .. L - 1
      /\ P + 2 \in 0 .. L - 1 /\ P + 3 \in 0 .. L - 1
      /\ (P - 1) + 1 = P /\ (P + 1) + 1 = P + 2 /\ (P + 2) + 1 = P + 3 /\ (P + 3) + 1 = P + 4
  <2>a. P \in Nat /\ P >= 4 /\ L = P + 5
    BY <1>6
  <2>b. (P + 5) - 1 = P + 4
    BY <2>a
  <2>1. L - 1 = P + 4 /\ P \in Nat /\ P >= 4
    BY <2>a, <2>b
  <2>2. P - 1 \in 0 .. P + 4 /\ P \in 0 .. P + 4 /\ P + 1 \in 0 .. P + 4
    BY <2>1
  <2>3. P + 2 \in 0 .. P + 4 /\ P + 3 \in 0 .. P + 4
    BY <2>1
  <2>4. (P - 1) + 1 = P /\ (P + 1) + 1 = P + 2 /\ (P + 2) + 1 = P + 3 /\ (P + 3) + 1 = P + 4
    BY <2>1
  <2>5. QED
    BY <2>1, <2>2, <2>3, <2>4
<1>8. /\ buf[P - 1] = Text(l)[P] /\ buf[P] = Text(l)[P + 1] /\ buf[P + 1] = Text(l)[P + 2]
      /\ buf[P + 2] = Text(l)[P + 3] /\ buf[P + 3] = Text(l)[P + 4]
  BY <1>1, <1>7
<1>9. 1 \in 1 .. 4 /\ 2 \in 1 .. 4 /\ 3 \in 1 .. 4 /\ 4 \in 1 .. 4
  OBVIOUS
<1>10. QED
  BY <1>3, <1>6, <1>8, <1>9 DEF NameInBuffer, P, L, l

LEMMA MatchIs ==
  ASSUME NEW s \in 0 .. 3, NEW c
  PROVE  /\ Match(s, c) \in {0, s + 1}
         /\ Match(s, c) = s + 1 => c = <<"a", "h", "c", "i">>[s + 1] /\ c # "NUL"
         /\ c = " " => Match(s, c) = 0
         /\ s = 0 /\ c = "a" => Match(s, c) = 1
         /\ s = 1 /\ c = "h" => Match(s, c) = 2
         /\ s = 2 /\ c = "c" => Match(s, c) = 3
         /\ s = 3 /\ c = "i" => Match(s, c) = 4
<1> DEFINE A == <<"a", "h", "c", "i">>
<1>1. A[1] = "a" /\ A[2] = "h" /\ A[3] = "c" /\ A[4] = "i"
  OBVIOUS
<1>2. Match(s, c) = IF c = A[s + 1] THEN s + 1 ELSE 0
  BY DEF Match
<1>3. A[s + 1] # "NUL" /\ A[s + 1] # " "
  <2>1. s + 1 = 1 \/ s + 1 = 2 \/ s + 1 = 3 \/ s + 1 = 4
    OBVIOUS
  <2> HIDE DEF A
  <2>2. A[s + 1] \in {"a", "h", "c", "i"}
    BY <1>1, <2>1
  <2>3. QED
    BY <2>2
<1>4. s + 1 # 0 /\ 0 + 1 = 1 /\ 1 + 1 = 2 /\ 2 + 1 = 3 /\ 3 + 1 = 4
  OBVIOUS
<1> HIDE DEF A
<1>5. /\ Match(s, c) \in {0, s + 1}
      /\ Match(s, c) = s + 1 => c = A[s + 1] /\ c # "NUL"
      /\ c = " " => Match(s, c) = 0
  BY <1>2, <1>3, <1>4
<1>6. /\ s = 0 /\ c = "a" => Match(s, c) = 1
      /\ s = 1 /\ c = "h" => Match(s, c) = 2
      /\ s = 2 /\ c = "c" => Match(s, c) = 3
      /\ s = 3 /\ c = "i" => Match(s, c) = 4
  BY <1>1, <1>2, <1>4
<1>7. QED
  BY <1>5, <1>6 DEF A

\* A turn of find_ahci_line has looked at one more character.
LEMMA FindTurnKeeps ==
  ASSUME ScanTypeOK, NEW k \in DOMAIN iomem, Reading(k), Finding(iomem[k]), FindTurn
  PROVE  ScanTypeOK' /\ Finding(iomem[k])'
<1> DEFINE l == iomem[k]
           L == Len(Text(l))
           P == NamePlace(l)
           A == <<"a", "h", "c", "i">>
<1>1. /\ L \in Nat
      /\ \A c \in 0 .. L - 1 : buf[c] # "NUL"
      /\ ended => buf[L] = "NUL"
  BY LineInBuffer
<1>2. /\ buf[idx] # "NUL" /\ idx' = idx + 1
      /\ state' = Match(state, buf[idx + 1]) /\ state' # 4
      /\ UNCHANGED <<iomem, fpos, cur, buf, spc, flag, tmp_start, tmp_end, ended>>
  BY DEF FindTurn, parse_vars
<1>3. /\ idx \in Cells /\ state \in 0 .. 3 /\ buf[LastCell] = "NUL"
      /\ BUF_LEN \in Nat /\ BEHIND \in Nat
  BY ScanAssumption DEF ScanTypeOK
<1>4. idx \in Nat /\ idx + 1 \in Cells /\ idx' \in Nat
  <2>1. idx # LastCell
    BY <1>2, <1>3
  <2>2. QED
    BY <1>2, <1>3, <2>1 DEF Cells, LastCell
<1>5. /\ state' \in {0, state + 1}
      /\ state' = state + 1 => buf[idx + 1] = A[state + 1]
  BY <1>2, <1>3, MatchIs
<1>6. state' \in 0 .. 3
  BY <1>2, <1>3, <1>5
<1>7. ScanTypeOK'
  <2>1. LastCell' = LastCell /\ Cells' = Cells
    BY DEF LastCell, Cells
  <2>2. QED
    BY <1>2, <1>4, <1>6, <2>1 DEF ScanTypeOK
<1>8. /\ state <= idx
      /\ \A n \in 1 .. state : buf[idx - state + n] = A[n]
      /\ ended => idx <= L
      /\ IsAhci(l) => /\ idx <= P + 2
                      /\ idx = P - 1 => state = 0
                      /\ idx >= P => state = idx - P + 1
  BY DEF Finding
<1> HIDE DEF A, L, P, l
<1>9. state' <= idx'
  BY <1>2, <1>3, <1>4, <1>5, <1>8
<1>10. ASSUME NEW n \in 1 .. state'
       PROVE  buf[idx' - state' + n] = A[n]
  <2>1. state' = state + 1 /\ idx' - state' = idx - state
    BY <1>2, <1>3, <1>4, <1>5
  <2>2. n \in 1 .. state \/ n = state + 1
    BY <1>3, <2>1
  <2>3. CASE n \in 1 .. state
    BY <1>8, <2>1, <2>3
  <2>4. CASE n = state + 1
    <3>1. idx - state + (state + 1) = idx + 1
      BY <1>3, <1>4
    <3>2. QED
      BY <1>5, <2>1, <2>4, <3>1
  <2>5. QED
    BY <2>2, <2>3, <2>4
<1>11. ended => idx' <= L
  <2>1. ended => idx # L
    BY <1>1, <1>2
  <2>2. QED
    BY <1>1, <1>2, <1>4, <1>8, <2>1
<1>12. ASSUME IsAhci(l)
       PROVE  /\ idx' <= P + 2
              /\ idx' = P - 1 => state' = 0
              /\ idx' >= P => state' = idx' - P + 1
  <2>1. NameInBuffer(P, L)
    BY <1>12, ControllerInBuffer DEF P, L, l
  <2>2. P \in Nat /\ P >= 4
    BY <2>1 DEF NameInBuffer
  <2>3. /\ buf[P - 1] = " " /\ buf[P] = "a" /\ buf[P + 1] = "h"
        /\ buf[P + 2] = "c" /\ buf[P + 3] = "i"
    BY <2>1 DEF NameInBuffer
  <2>4. idx \in Nat /\ idx' = idx + 1 /\ state \in 0 .. 3 /\ state' = Match(state, buf[idx + 1])
    BY <1>2, <1>3, <1>4
  <2>5. /\ idx <= P + 2
        /\ idx = P - 1 => state = 0
        /\ idx >= P => state = idx - P + 1
    BY <1>8, <1>12
  <2>6. CASE idx <= P - 3
    BY <2>2, <2>4, <2>6
  <2>7. CASE idx = P - 2
    <3>1. idx + 1 = P - 1
      BY <2>2, <2>7
    <3>c. buf[idx + 1] = " "
      BY <2>3, <3>1
    <3>2. state' = 0
      BY <2>4, <3>1, <3>c, MatchIs
    <3>3. QED
      BY <2>2, <2>4, <3>1, <3>2
  <2>8. CASE idx = P - 1
    <3>1. idx + 1 = P /\ state = 0
      BY <2>2, <2>5, <2>8
    <3>c. buf[idx + 1] = "a"
      BY <2>3, <3>1
    <3>2. state' = 1
      BY <2>4, <3>1, <3>c, MatchIs
    <3>3. QED
      BY <2>2, <2>4, <3>1, <3>2
  <2>9. CASE idx = P
    <3>1. state = 1
      BY <2>2, <2>5, <2>9
    <3>2. state' = 2
      BY <2>3, <2>4, <2>9, <3>1, MatchIs
    <3>3. QED
      BY <2>2, <2>4, <2>9, <3>2
  <2>10. CASE idx = P + 1
    <3>1. state = 2 /\ idx + 1 = P + 2
      BY <2>2, <2>5, <2>10
    <3>c. buf[idx + 1] = "c"
      BY <2>3, <3>1
    <3>2. state' = 3
      BY <2>4, <3>1, <3>c, MatchIs
    <3>3. QED
      BY <2>2, <2>4, <2>10, <3>1, <3>2
  <2>11. CASE idx = P + 2
    <3>1. state = 3 /\ idx + 1 = P + 3
      BY <2>2, <2>5, <2>11
    <3>c. buf[idx + 1] = "i"
      BY <2>3, <3>1
    <3>2. state' = 4
      BY <2>4, <3>1, <3>c, MatchIs
    <3>3. QED
      BY <1>2, <3>2
  <2>12. idx <= P - 3 \/ idx = P - 2 \/ idx = P - 1 \/ idx = P \/ idx = P + 1 \/ idx = P + 2
    BY <2>2, <2>4, <2>5
  <2>13. QED
    BY <2>6, <2>7, <2>8, <2>9, <2>10, <2>11, <2>12
<1>13. NamePlace(l)' = P /\ l' = l
  BY <1>2 DEF P, NamePlace, l
<1>14. QED
  BY <1>2, <1>7, <1>9, <1>10, <1>11, <1>12, <1>13 DEF Finding, A, L, P, l, NamePlace, IsAhci

\* In a line that was terminated only a controller's is found.
LEMMA FoundRight ==
  ASSUME ScanTypeOK, NEW k \in DOMAIN iomem, Reading(k), Finding(iomem[k]), Found, ended
  PROVE  IsAhci(iomem[k])
<1> DEFINE l == iomem[k]
           L == Len(Text(l))
           A == <<"a", "h", "c", "i">>
           q == idx - 1
           x == SubSeq(Text(l), q, q + 3)
<1>1. /\ L \in Nat /\ Text(l) \in Seq(Chars)
      /\ \A c \in 0 .. L - 1 : buf[c] = Text(l)[c + 1]
      /\ buf[L] = "NUL"
  BY LineInBuffer
<1>2. /\ idx \in Nat /\ state \in 0 .. 3
      /\ buf[idx] # "NUL" /\ Match(state, buf[idx + 1]) = 4
      /\ state <= idx /\ idx <= L
      /\ \A n \in 1 .. state : buf[idx - state + n] = A[n]
  <2>1. BUF_LEN \in Nat /\ BEHIND \in Nat
    BY ScanAssumption
  <2>2. idx \in Nat /\ state \in 0 .. 3
    BY <2>1 DEF ScanTypeOK, Cells
  <2>3. buf[idx] # "NUL" /\ Match(state, buf[idx + 1]) = 4
    BY DEF Found
  <2>4. state <= idx /\ idx <= L /\ \A n \in 1 .. state : buf[idx - state + n] = A[n]
    BY DEF Finding
  <2>5. QED
    BY <2>2, <2>3, <2>4
<1>3. state = 3 /\ buf[idx + 1] = A[4] /\ buf[idx + 1] # "NUL"
  <2> DEFINE c == buf[idx + 1]
  <2>1. /\ Match(state, c) \in {0, state + 1}
        /\ Match(state, c) = state + 1 => c = A[state + 1] /\ c # "NUL"
    BY <1>2, MatchIs
  <2> HIDE DEF c, A
  <2>2. Match(state, c) = 4
    BY <1>2 DEF c
  <2>3. state = 3
    BY <1>2, <2>1, <2>2
  <2>4. QED
    BY <2>1, <2>2, <2>3 DEF c
<1> HIDE DEF A, L
<1>4. idx >= 3 /\ idx + 2 <= L
  <2>1. idx # L /\ idx + 1 # L
    BY <1>1, <1>2, <1>3
  <2>2. QED
    BY <1>1, <1>2, <1>3, <2>1
<1>5. buf[idx - 2] = A[1] /\ buf[idx - 1] = A[2] /\ buf[idx] = A[3]
  <2>1. 1 \in 1 .. state /\ 2 \in 1 .. state /\ 3 \in 1 .. state
    BY <1>3
  <2>2. idx - state + 1 = idx - 2 /\ idx - state + 2 = idx - 1 /\ idx - state + 3 = idx
    BY <1>2, <1>3
  <2>3. QED
    BY <1>2, <2>1, <2>2
<1>6. /\ q \in 2 .. L - 3 /\ q \in Nat
      /\ idx - 2 \in 0 .. L - 1 /\ (idx - 2) + 1 = q
      /\ idx - 1 \in 0 .. L - 1 /\ (idx - 1) + 1 = q + 1
      /\ idx \in 0 .. L - 1 /\ idx + 1 = q + 2
      /\ idx + 1 \in 0 .. L - 1 /\ (idx + 1) + 1 = q + 3
  BY <1>1, <1>2, <1>4
<1> HIDE DEF q
<1>7. /\ Text(l)[q] = A[1] /\ Text(l)[q + 1] = A[2]
      /\ Text(l)[q + 2] = A[3] /\ Text(l)[q + 3] = A[4]
  BY <1>1, <1>3, <1>5, <1>6
<1>8. x = A
  <2>1. \A c \in q .. q + 3 : Text(l)[c] \in Chars
    <3>1. \A c \in q .. q + 3 : c \in 1 .. L
      BY <1>1, <1>6
    <3>2. \A c \in 1 .. L : Text(l)[c] \in Chars
      BY <1>1 DEF L
    <3>3. QED
      BY <3>1, <3>2
  <2>2. q \in Int /\ q + 3 \in Int /\ q <= q + 3 /\ (q + 3) - q + 1 = 4
    BY <1>6
  <2> HIDE DEF l
  <2>3. x \in Seq(Chars) /\ Len(x) = 4 /\ \A c \in 1 .. 4 : x[c] = Text(l)[q + c - 1]
    BY <2>1, <2>2, SubSeqProperties
  <2>4. q + 1 - 1 = q /\ q + 2 - 1 = q + 1 /\ q + 3 - 1 = q + 2 /\ q + 4 - 1 = q + 3
    BY <2>2
  <2> HIDE DEF x
  <2>5. x[1] = A[1] /\ x[2] = A[2] /\ x[3] = A[3] /\ x[4] = A[4]
    BY <1>7, <2>3, <2>4
  <2>6. A \in Seq(Chars) /\ Len(A) = 4
    BY DEF A, Chars, Digits, ToSet, HexDigits
  <2>7. \A c \in 1 .. 4 : x[c] = A[c]
    BY <2>5
  <2>8. QED
    BY <2>3, <2>6, <2>7, SeqEqual
<1>9. HasAhci(l)
  <2>1. q \in 1 .. Len(Text(l)) - 3
    BY <1>1, <1>6 DEF L
  <2>2. QED
    BY <1>8, <2>1 DEF HasAhci, x, A
<1>10. QED
  <2>1. iomem \in Files
    BY DEF ScanTypeOK
  <2>2. k \in 1 .. Len(iomem)
    BY <2>1, FileLines
  <2>3. QED
    BY <1>9, <2>1, <2>2, FileLines DEF l

\* The line of a controller is not passed over.
LEMMA PassesRight ==
  ASSUME ScanTypeOK, NEW k \in DOMAIN iomem, Reading(k), Finding(iomem[k]), NotFound
  PROVE  ~ IsAhci(iomem[k])
<1> DEFINE L == Len(Text(iomem[k]))
           P == NamePlace(iomem[k])
<1>1. SUFFICES ASSUME IsAhci(iomem[k])
               PROVE  FALSE
  OBVIOUS
<1>2. NameInBuffer(P, L)
  BY <1>1, ControllerInBuffer
<1>3. P \in Nat /\ L = P + 5
  BY <1>2 DEF NameInBuffer
<1>4. idx \in Nat /\ idx <= P + 2 /\ buf[idx] = "NUL"
  <2>1. BUF_LEN \in Nat /\ BEHIND \in Nat
    BY ScanAssumption
  <2>2. idx \in Nat
    BY <2>1 DEF ScanTypeOK, Cells
  <2>3. QED
    BY <1>1, <2>2 DEF Finding, NotFound
<1>5. \A c \in 0 .. L - 1 : buf[c] # "NUL"
  BY LineInBuffer
<1> HIDE DEF L, P
<1>6. idx \in 0 .. L - 1
  BY <1>3, <1>4
<1>7. QED
  BY <1>4, <1>5, <1>6

\* The addresses of a line in the buffer, and their numbers.
AddressesInBuffer(l, e, a, b) ==
  /\ \A c \in 0 .. e - 1 : buf[c] = " "
  /\ \A c \in e .. a - 1 : buf[c] = l.first[c - e + 1] /\ buf[c] \in Digits
  /\ buf[a] = "-"
  /\ \A c \in 0 .. b - 1 : buf[a + 1 + c] = l.last[c + 1] /\ buf[a + 1 + c] \in Digits
  /\ buf[a + 1 + b] = " "

LEMMA LineAddresses ==
  ASSUME ScanTypeOK, NEW k \in DOMAIN iomem, Reading(k),
         NEW e, NEW a, NEW b, NEW d, Lengths(iomem[k], e, a, b, d)
  PROVE  /\ e \in Nat /\ a \in Nat /\ b \in Nat /\ e <= a /\ Len(iomem[k].first) = a - e
         /\ a + 1 + b \in Cells /\ a + 2 + b \in Cells
         /\ AddressesInBuffer(iomem[k], e, a, b)
         /\ Numbered(iomem[k].first) /\ Numbered(iomem[k].last)
<1> DEFINE l == iomem[k]
           L == Len(Text(l))
<1>1. /\ l \in Lines /\ L \in Nat /\ L < BUF_LEN
      /\ \A c \in 0 .. L - 1 : c \in Cells /\ buf[c] = Text(l)[c + 1]
  BY LineInBuffer
<1>2. /\ e \in Nat /\ a \in Nat /\ b \in Nat /\ d \in Nat /\ e <= a /\ Len(l.first) = a - e
      /\ l.first \in Seq(Digits) /\ l.last \in Seq(Digits)
      /\ \A c \in 1 .. a - e : l.first[c] \in Digits
      /\ \A c \in 1 .. b : l.last[c] \in Digits
  <2>1. /\ e \in Nat /\ a \in Nat /\ b \in Nat /\ d \in Nat /\ e <= a /\ Len(l.first) = a - e
        /\ Len(l.last) = b
    BY <1>1, LengthsAre DEF Lengths
  <2>2. l.first \in Seq(Digits) /\ l.last \in Seq(Digits)
    BY <1>1 DEF Lines
  <2> HIDE DEF l
  <2>3. QED
    BY <2>1, <2>2
<1>3. Characters(l, e, a, b, d)
  BY <1>1, TextIs
<1>4. Numbered(l.first) /\ Numbered(l.last)
  BY <1>2, DigitsNumbered
<1> HIDE DEF L, l
<1>5. /\ L = a + b + d + 5
      /\ \A c \in 1 .. e : Text(l)[c] = " "
      /\ \A c \in e + 1 .. a : Text(l)[c] = l.first[c - e]
      /\ Text(l)[a + 1] = "-"
      /\ \A c \in 1 .. b : Text(l)[a + 1 + c] = l.last[c]
      /\ Text(l)[a + b + 2] = " "
  BY <1>3 DEF Characters, L
<1>13. ASSUME NEW c \in 0 .. e - 1
       PROVE  buf[c] = " "
  <2>1. c \in 0 .. L - 1 /\ c + 1 \in 1 .. e
    <3>1. /\ c \in 0 .. e - 1 /\ e \in Nat /\ e <= a /\ a \in Nat /\ b \in Nat /\ d \in Nat
          /\ L \in Nat /\ L = a + b + d + 5
      BY <1>1, <1>2, <1>5
    <3>2. QED
      BY <3>1
  <2>2. QED
    BY <1>1, <1>5, <2>1
<1>6. ASSUME NEW c \in e .. a - 1
      PROVE  buf[c] = l.first[c - e + 1] /\ buf[c] \in Digits
  <2>1. /\ c \in 0 .. L - 1 /\ c + 1 \in e + 1 .. a /\ (c + 1) - e = c - e + 1
        /\ c - e + 1 \in 1 .. a - e
    <3>1. /\ c \in e .. a - 1 /\ e \in Nat /\ a \in Nat /\ b \in Nat /\ d \in Nat
          /\ L \in Nat /\ L = a + b + d + 5
      BY <1>1, <1>2, <1>5
    <3>2. QED
      BY <3>1
  <2>2. buf[c] = Text(l)[c + 1] /\ Text(l)[c + 1] = l.first[(c + 1) - e]
    BY <1>1, <1>5, <2>1
  <2>3. QED
    BY <1>2, <2>1, <2>2
<1>7. ASSUME NEW c \in 0 .. b - 1
      PROVE  buf[a + 1 + c] = l.last[c + 1] /\ buf[a + 1 + c] \in Digits
  <2>1. a + 1 + c \in 0 .. L - 1 /\ c + 1 \in 1 .. b /\ (a + 1 + c) + 1 = a + 1 + (c + 1)
    <3>1. c \in 0 .. b - 1 /\ a \in Nat /\ b \in Nat /\ d \in Nat /\ L \in Nat /\ L = a + b + d + 5
      BY <1>1, <1>2, <1>5
    <3>2. QED
      BY <3>1
  <2>2. buf[a + 1 + c] = Text(l)[a + 1 + (c + 1)]
    BY <1>1, <2>1
  <2>3. QED
    BY <1>2, <1>5, <2>1, <2>2
<1>8. /\ a \in 0 .. L - 1 /\ a + 1 + b \in 0 .. L - 1 /\ a + 2 + b \in 0 .. L - 1
      /\ (a + 1 + b) + 1 = a + b + 2
  <2>1. a \in Nat /\ b \in Nat /\ d \in Nat /\ L \in Nat /\ L = a + b + d + 5
    BY <1>1, <1>2, <1>5
  <2>2. QED
    BY <2>1
<1>9. buf[a] = "-" /\ buf[a + 1 + b] = " "
  <2>1. buf[a] = Text(l)[a + 1] /\ buf[a + 1 + b] = Text(l)[a + b + 2]
    BY <1>1, <1>8
  <2>2. QED
    BY <1>5, <2>1
<1>10. AddressesInBuffer(l, e, a, b)
  BY <1>6, <1>7, <1>9, <1>13 DEF AddressesInBuffer
<1>11. a + 1 + b \in Cells /\ a + 2 + b \in Cells
  BY <1>1, <1>8
<1>12. QED
  BY <1>2, <1>4, <1>10, <1>11 DEF l

\* The numbers of a line are in order, and fit.
LEMMA LineNumbers ==
  ASSUME NEW f \in Files, NEW k \in DOMAIN f
  PROVE  /\ Number(f[k].first) \in Nat /\ Number(f[k].last) \in Nat
         /\ Number(f[k].first) <= Number(f[k].last) /\ Number(f[k].last) < WIDTH
<1>1. KernelLine(f[k])
  BY ScanAssumption
<1>2. f[k] \in Lines
  BY FileLines
<1>3. f[k].first \in Seq(Digits) /\ f[k].last \in Seq(Digits)
  BY <1>2 DEF Lines
<1>4. \A d \in Seq(Digits) : Number(d) \in Nat
  <2>1. ASSUME NEW d \in Seq(Digits)
        PROVE  Number(d) \in Nat
    <3>1. Numbered(d) /\ Len(d) \in 0 .. Len(d)
      BY DigitsNumbered
    <3>2. QED
      BY <3>1 DEF Numbered
  <2>2. QED
    BY <2>1
<1>5. QED
  BY <1>1, <1>3, <1>4 DEF KernelLine

LEMMA SmallMod ==
  ASSUME NEW w \in Nat \ {0}, NEW x \in Nat, x < w
  PROVE  x % w = x
OBVIOUS

\* A digit more of one of the numbers.
LEMMA NextDigit ==
  ASSUME NEW d, Numbered(d), Len(d) \in Nat, NEW m \in 0 .. Len(d) - 1, NEW w \in Nat \ {0},
         Number(d) < w, Number(d) \in Nat
  PROVE  (16 * UpTo(d, m) + Value(d[m + 1])) % w = UpTo(d, m + 1)
<1>1. m + 1 \in 1 .. Len(d) /\ (m + 1) - 1 = m /\ m + 1 \in 0 .. Len(d)
  OBVIOUS
<1>2. UpTo(d, m + 1) = 16 * UpTo(d, m) + Value(d[m + 1])
  BY <1>1 DEF Numbered, AddDigit
<1> DEFINE x == UpTo(d, m + 1)
<1>3. x \in Nat /\ x <= Number(d)
  BY <1>1 DEF Numbered
<1> HIDE DEF x
<1>4. x < w
  BY <1>3
<1>5. x % w = x
  BY <1>3, <1>4, SmallMod
<1>6. QED
  BY <1>2, <1>5 DEF x

\* What parse_line has at place n of a line whose first address is at the places
\* from e and before a, and whose second one has b digits.
ParsingAt(l, e, a, b, n, second, first_number, second_number) ==
  /\ n \in 0 .. a + 1 + b
  /\ second <=> n > a
  /\ n <= e => first_number = 0 /\ second_number = 0
  /\ n \in e .. a => first_number = UpTo(l.first, n - e) /\ second_number = 0
  /\ n > a => first_number = Number(l.first) /\ second_number = UpTo(l.last, n - a - 1)

LEMMA ParsingPlace ==
  ASSUME NEW l, NEW e, NEW a \in Nat, NEW b \in Nat, NEW d, Lengths(l, e, a, b, d), idx \in Nat
  PROVE  Parsing(l) <=> ParsingAt(l, e, a, b, idx, flag, tmp_start, tmp_end)
BY DEF Parsing, ParsingAt, UpTo, Lengths

\* A digit is one more of the number parse_line is at.
LEMMA ParseDigitKeeps ==
  ASSUME ScanTypeOK, NEW k \in DOMAIN iomem, Reading(k), Parsing(iomem[k]), ParseDigit
  PROVE  ScanTypeOK' /\ Parsing(iomem[k])'
<1> DEFINE l == iomem[k]
<1>1. PICK e, a, b, d : Lengths(l, e, a, b, d)
  BY LengthsExist
<1>2. /\ e \in Nat /\ a \in Nat /\ e <= a /\ b \in Nat /\ a + 1 + b \in Cells
      /\ AddressesInBuffer(l, e, a, b) /\ Numbered(l.first) /\ Numbered(l.last)
  BY <1>1, LineAddresses
<1>3. /\ iomem \in Files /\ idx \in Cells /\ WIDTH \in Nat \ {0} /\ BUF_LEN \in Nat /\ BEHIND \in Nat
      /\ tmp_start \in Nat /\ tmp_end \in Nat
  BY ScanAssumption DEF ScanTypeOK
<1>4. idx \in Nat
  BY <1>3 DEF Cells
<1>5. ParsingAt(l, e, a, b, idx, flag, tmp_start, tmp_end)
  BY <1>1, <1>2, <1>4, ParsingPlace
<1>6. /\ Number(l.first) \in Nat /\ Number(l.last) \in Nat
      /\ Number(l.first) < WIDTH /\ Number(l.last) < WIDTH
  <2>1. /\ Number(l.first) \in Nat /\ Number(l.last) \in Nat
        /\ Number(l.first) <= Number(l.last) /\ Number(l.last) < WIDTH
    BY <1>3, LineNumbers
  <2> HIDE DEF l
  <2>2. QED
    BY <1>3, <2>1
<1>7. /\ buf[idx] \in Digits /\ idx' = idx + 1
      /\ flag => tmp_end' = (16 * tmp_end + Value(buf[idx])) % WIDTH /\ tmp_start' = tmp_start
      /\ ~ flag => tmp_start' = (16 * tmp_start + Value(buf[idx])) % WIDTH /\ tmp_end' = tmp_end
      /\ UNCHANGED <<iomem, fpos, cur, buf, spc, state, flag, ended>>
  BY DEF ParseDigit
<1>8. Len(l.first) = a - e /\ Len(l.last) = b /\ 2 * l.depth = e /\ e + Len(l.first) = a
  BY <1>1, <1>2, LineAddresses DEF Lengths
<1> HIDE DEF l
<1>9. idx # a /\ idx # a + 1 + b /\ idx \notin 0 .. e - 1
  <2>1. buf[a] \notin Digits /\ buf[a + 1 + b] \notin Digits
    BY <1>2, NoDigit DEF AddressesInBuffer, NoDigits
  <2>2. \A c \in 0 .. e - 1 : buf[c] \notin Digits
    BY <1>2, NoDigit DEF AddressesInBuffer, NoDigits
  <2>3. QED
    BY <1>7, <2>1, <2>2
<1>10. ASSUME idx < a
       PROVE  /\ ParsingAt(l, e, a, b, idx', flag', tmp_start', tmp_end')
              /\ tmp_start' \in Nat /\ tmp_end' \in Nat
  <2> DEFINE n == idx - e
  <2>1. /\ idx \in e .. a - 1 /\ idx \in e .. a /\ ~ (idx > a)
        /\ n \in 0 .. (a - e) - 1 /\ n + 1 \in 0 .. a - e /\ (idx + 1) - e = n + 1
    BY <1>2, <1>4, <1>9, <1>10
  <2>2. ~ flag /\ tmp_start = UpTo(l.first, n) /\ tmp_end = 0
    BY <1>5, <2>1 DEF ParsingAt
  <2>3. buf[idx] = l.first[n + 1]
    BY <1>2, <2>1 DEF AddressesInBuffer
  <2> HIDE DEF n
  <2>4. (16 * UpTo(l.first, n) + Value(l.first[n + 1])) % WIDTH = UpTo(l.first, n + 1)
    <3>1. Len(l.first) \in Nat /\ n \in 0 .. Len(l.first) - 1
      BY <1>2, <1>8, <2>1
    <3>2. QED
      BY <1>2, <1>3, <1>6, <3>1, NextDigit
  <2>5. tmp_start' = UpTo(l.first, idx' - e) /\ tmp_end' = 0
    BY <1>7, <2>1, <2>2, <2>3, <2>4
  <2>6. idx' \in 0 .. a + 1 + b /\ ~ (idx' > a) /\ ~ (idx' <= e)
    BY <1>2, <1>7, <2>1
  <2>7. tmp_start' \in Nat /\ tmp_end' \in Nat
    <3>1. UpTo(l.first, n + 1) \in Nat
      BY <1>2, <1>8, <2>1 DEF Numbered
    <3>2. QED
      BY <1>7, <2>1, <2>5, <3>1
  <2>8. QED
    BY <1>2, <1>7, <2>2, <2>5, <2>6, <2>7 DEF ParsingAt
<1>11. ASSUME idx > a
       PROVE  /\ ParsingAt(l, e, a, b, idx', flag', tmp_start', tmp_end')
              /\ tmp_start' \in Nat /\ tmp_end' \in Nat
  <2> DEFINE r == idx - a - 1
  <2>1. r \in 0 .. b - 1 /\ idx = a + 1 + r /\ r + 1 \in 0 .. b /\ (idx + 1) - a - 1 = r + 1
    <3>1. idx \in 0 .. a + 1 + b
      BY <1>5 DEF ParsingAt
    <3>2. QED
      BY <1>2, <1>9, <1>11, <3>1
  <2>2. flag /\ tmp_start = Number(l.first) /\ tmp_end = UpTo(l.last, r)
    BY <1>5, <1>11 DEF ParsingAt
  <2> HIDE DEF r
  <2>3. buf[idx] = l.last[r + 1]
    BY <1>2, <2>1 DEF AddressesInBuffer
  <2>4. (16 * UpTo(l.last, r) + Value(l.last[r + 1])) % WIDTH = UpTo(l.last, r + 1)
    BY <1>2, <1>3, <1>6, <1>8, <2>1, NextDigit
  <2>5. tmp_end' = UpTo(l.last, idx' - a - 1) /\ tmp_start' = Number(l.first)
    BY <1>7, <2>1, <2>2, <2>3, <2>4
  <2>6. idx' \in 0 .. a + 1 + b /\ idx' > a /\ ~ (idx' <= e) /\ idx' \notin e .. a
    BY <1>2, <1>7, <2>1
  <2>7. tmp_start' \in Nat /\ tmp_end' \in Nat
    BY <1>2, <1>6, <1>7, <1>8, <2>1, <2>5 DEF Numbered
  <2>8. QED
    BY <1>2, <1>7, <2>2, <2>5, <2>6, <2>7 DEF ParsingAt
<1>12. /\ ParsingAt(l, e, a, b, idx', flag', tmp_start', tmp_end')
       /\ tmp_start' \in Nat /\ tmp_end' \in Nat
  <2>1. idx < a \/ idx > a
    BY <1>2, <1>4, <1>9
  <2>2. QED
    BY <1>10, <1>11, <2>1
<1>13. l' = l
  BY <1>7 DEF l
<1>14. Parsing(l)'
  <2>1. /\ idx' \in 0 .. a + 1 + b /\ (flag' <=> idx' > a)
        /\ idx' <= e => tmp_start' = 0 /\ tmp_end' = 0
        /\ idx' \in e .. a => tmp_start' = UpTo(l.first, idx' - e) /\ tmp_end' = 0
        /\ idx' > a => tmp_start' = Number(l.first) /\ tmp_end' = UpTo(l.last, idx' - a - 1)
    BY <1>12 DEF ParsingAt
  <2>2. idx' <= a + 1 + b
    BY <1>2, <2>1
  <2>3. QED
    BY <1>8, <1>13, <2>1, <2>2 DEF Parsing, UpTo
<1>15. ScanTypeOK'
  <2>1. Cells' = Cells /\ LastCell' = LastCell
    BY DEF Cells, LastCell
  <2>2. idx' \in Cells
    BY <1>2, <1>3, <1>12 DEF Cells, ParsingAt
  <2>3. QED
    BY <1>7, <1>12, <2>1, <2>2 DEF ScanTypeOK
<1>16. QED
  BY <1>14, <1>15 DEF l

\* The only other characters parse_line passes over are the blanks of the
\* indentation and the '-'.
LEMMA ParseOtherKeeps ==
  ASSUME ScanTypeOK, NEW k \in DOMAIN iomem, Reading(k), Parsing(iomem[k]), ParseOther
  PROVE  ScanTypeOK' /\ Parsing(iomem[k])'
<1> DEFINE l == iomem[k]
<1>1. PICK e, a, b, d : Lengths(l, e, a, b, d)
  BY LengthsExist
<1>2. /\ e \in Nat /\ a \in Nat /\ e <= a /\ b \in Nat /\ a + 1 + b \in Cells
      /\ AddressesInBuffer(l, e, a, b) /\ Numbered(l.first) /\ Numbered(l.last)
  BY <1>1, LineAddresses
<1>3. /\ idx \in Cells /\ BUF_LEN \in Nat /\ BEHIND \in Nat
      /\ tmp_start \in Nat /\ tmp_end \in Nat
  BY ScanAssumption DEF ScanTypeOK
<1>4. idx \in Nat
  BY <1>3 DEF Cells
<1>5. ParsingAt(l, e, a, b, idx, flag, tmp_start, tmp_end)
  BY <1>1, <1>2, <1>4, ParsingPlace
<1>6. /\ buf[idx] \notin Digits /\ ~ Stops(buf[idx]) /\ idx' = idx + 1
      /\ flag' = (flag \/ buf[idx] = "-")
      /\ UNCHANGED <<iomem, fpos, cur, buf, spc, state, tmp_start, tmp_end, ended>>
  BY DEF ParseOther
<1>7. Len(l.first) = a - e /\ Len(l.last) = b /\ 2 * l.depth = e /\ e + Len(l.first) = a
  BY <1>1, <1>2, LineAddresses DEF Lengths
<1> HIDE DEF l
<1>8. idx \in 0 .. e - 1 \/ idx = a
  <2>1. \/ idx \in 0 .. e - 1 \/ idx \in e .. a - 1 \/ idx = a
        \/ idx \in a + 1 .. a + b \/ idx = a + 1 + b
    BY <1>2, <1>5 DEF ParsingAt
  <2>2. idx \notin e .. a - 1
    BY <1>2, <1>6 DEF AddressesInBuffer
  <2>3. ASSUME idx \in a + 1 .. a + b
        PROVE  FALSE
    <3> DEFINE r == idx - a - 1
    <3>1. r \in 0 .. b - 1 /\ idx = a + 1 + r
      BY <1>2, <2>3
    <3> HIDE DEF r
    <3>2. QED
      BY <1>2, <1>6, <3>1 DEF AddressesInBuffer
  <2>4. ASSUME idx = a + 1 + b
        PROVE  FALSE
    <3>1. idx > a
      BY <1>2, <2>4
    <3>2. flag
      BY <1>5, <3>1 DEF ParsingAt
    <3>3. buf[idx] = " "
      BY <1>2, <2>4 DEF AddressesInBuffer
    <3>4. Stops(" ")
      BY <3>2, NoDigit DEF Stops, NoDigits
    <3>5. QED
      BY <1>6, <3>3, <3>4
  <2>5. QED
    BY <2>1, <2>2, <2>3, <2>4
<1>9. ASSUME idx = a
      PROVE  ParsingAt(l, e, a, b, idx', flag', tmp_start', tmp_end')
  <2>1. flag' = TRUE /\ idx' = a + 1
    BY <1>2, <1>6, <1>9 DEF AddressesInBuffer
  <2>2. tmp_start = Number(l.first) /\ tmp_end = 0
    <3>1. idx \in e .. a /\ idx - e = Len(l.first)
      BY <1>2, <1>7, <1>9
    <3>2. QED
      BY <1>2, <1>5, <3>1 DEF ParsingAt, Numbered
  <2>3. /\ idx' \in 0 .. a + 1 + b /\ idx' > a /\ idx' - a - 1 = 0
        /\ ~ (idx' <= e) /\ idx' \notin e .. a
    BY <1>2, <2>1
  <2>4. tmp_start' = Number(l.first) /\ tmp_end' = UpTo(l.last, idx' - a - 1)
    BY <1>2, <1>6, <2>2, <2>3 DEF Numbered
  <2>5. QED
    BY <2>1, <2>3, <2>4 DEF ParsingAt
<1>10. ASSUME idx \in 0 .. e - 1
       PROVE  ParsingAt(l, e, a, b, idx', flag', tmp_start', tmp_end')
  <2>1. /\ idx <= e /\ ~ (idx > a) /\ idx' \in 0 .. a + 1 + b /\ idx' <= e /\ ~ (idx' > a)
        /\ idx' \in e .. a => idx' - e = 0
    BY <1>2, <1>6, <1>10
  <2>2. ~ flag /\ tmp_start = 0 /\ tmp_end = 0
    BY <1>5, <2>1 DEF ParsingAt
  <2>3. buf[idx] # "-"
    BY <1>2, <1>10 DEF AddressesInBuffer
  <2>4. flag' = FALSE /\ tmp_start' = 0 /\ tmp_end' = 0
    BY <1>6, <2>2, <2>3
  <2>5. UpTo(l.first, 0) = 0
    BY <1>2 DEF Numbered
  <2>6. QED
    BY <2>1, <2>4, <2>5 DEF ParsingAt
<1>11. ParsingAt(l, e, a, b, idx', flag', tmp_start', tmp_end')
  BY <1>8, <1>9, <1>10
<1>13. l' = l
  BY <1>6 DEF l
<1>14. Parsing(l)'
  <2>1. /\ idx' \in 0 .. a + 1 + b /\ (flag' <=> idx' > a)
        /\ idx' <= e => tmp_start' = 0 /\ tmp_end' = 0
        /\ idx' \in e .. a => tmp_start' = UpTo(l.first, idx' - e) /\ tmp_end' = 0
        /\ idx' > a => tmp_start' = Number(l.first) /\ tmp_end' = UpTo(l.last, idx' - a - 1)
    BY <1>11 DEF ParsingAt
  <2>2. idx' <= a + 1 + b
    BY <1>2, <2>1
  <2>3. QED
    BY <1>7, <1>13, <2>1, <2>2 DEF Parsing, UpTo
<1>15. ScanTypeOK'
  <2>1. Cells' = Cells /\ LastCell' = LastCell
    BY DEF Cells, LastCell
  <2>2. idx' \in Cells
    BY <1>2, <1>3, <1>11 DEF Cells, ParsingAt
  <2>3. flag' \in BOOLEAN
    BY <1>6 DEF ScanTypeOK
  <2>4. QED
    BY <1>6, <2>1, <2>2, <2>3 DEF ScanTypeOK
<1>16. QED
  BY <1>14, <1>15 DEF l

\* parse_line stops behind the second number.
LEMMA ParseEndsRight ==
  ASSUME ScanTypeOK, NEW k \in DOMAIN iomem, Reading(k), Parsing(iomem[k]), ParseEnds
  PROVE  Parsed(iomem[k])
<1> DEFINE l == iomem[k]
<1>1. PICK e, a, b, d : Lengths(l, e, a, b, d)
  BY LengthsExist
<1>2. /\ e \in Nat /\ a \in Nat /\ e <= a /\ b \in Nat
      /\ AddressesInBuffer(l, e, a, b) /\ Numbered(l.first) /\ Numbered(l.last)
  BY <1>1, LineAddresses
<1>3. idx \in Nat
  <2>1. BUF_LEN \in Nat /\ BEHIND \in Nat
    BY ScanAssumption
  <2>2. QED
    BY <2>1 DEF ScanTypeOK, Cells
<1>4. ParsingAt(l, e, a, b, idx, flag, tmp_start, tmp_end)
  BY <1>1, <1>2, <1>3, ParsingPlace
<1>5. Len(l.last) = b
  BY <1>1 DEF Lengths
<1> HIDE DEF l
<1>6. Stops(buf[idx]) /\ "NUL" \notin Digits
  BY NoDigit DEF ParseEnds, NoDigits
<1>7. buf[idx] \notin Digits /\ buf[idx] # "-"
  BY <1>6 DEF Stops
<1>8. idx = a + 1 + b
  <2>1. \/ idx \in 0 .. e - 1 \/ idx \in e .. a - 1 \/ idx = a
        \/ idx \in a + 1 .. a + b \/ idx = a + 1 + b
    BY <1>2, <1>4 DEF ParsingAt
  <2>2. idx \notin e .. a - 1 /\ idx # a
    BY <1>2, <1>7 DEF AddressesInBuffer
  <2>5. ASSUME idx \in 0 .. e - 1
        PROVE  FALSE
    <3>1. buf[idx] = " "
      BY <1>2, <2>5 DEF AddressesInBuffer
    <3>2. ~ (idx > a)
      BY <1>2, <2>5
    <3>3. ~ flag
      BY <1>4, <3>2 DEF ParsingAt
    <3>4. QED
      BY <1>6, <3>1, <3>3 DEF Stops
  <2>3. ASSUME idx \in a + 1 .. a + b
        PROVE  FALSE
    <3> DEFINE r == idx - a - 1
    <3>1. r \in 0 .. b - 1 /\ idx = a + 1 + r
      BY <1>2, <2>3
    <3> HIDE DEF r
    <3>2. QED
      BY <1>2, <1>7, <3>1 DEF AddressesInBuffer
  <2>4. QED
    BY <2>1, <2>2, <2>3, <2>5
<1>9. idx > a /\ idx - a - 1 = b
  BY <1>2, <1>8
<1>10. QED
  BY <1>2, <1>4, <1>5, <1>9 DEF ParsingAt, Numbered, Parsed, l

-----------------------------------------------------------------------------
(* Every step of the scan                                                  *)

ScanInv == ScanTypeOK /\ PlaceInv /\ LinkInv

\* Two lines do not start at the same place.
LEMMA CurrentLineIs ==
  ASSUME ScanTypeOK, NEW k \in DOMAIN iomem, cur = LineStart(iomem, k)
  PROVE  CurrentLine = k
<1> DEFINE n == Len(iomem)
           S(m) == LineStart(iomem, m)
<1>1. /\ n \in Nat /\ DOMAIN iomem = 1 .. n
      /\ \A m \in 1 .. n : Len(Text(iomem[m])) \in Nat /\ Len(Text(iomem[m])) >= 5
  BY FileLines DEF ScanTypeOK
<1>2. /\ \A m \in 1 .. n + 1 : S(m) \in Nat
      /\ \A m \in 1 .. n : S(m + 1) = S(m) + Len(Text(iomem[m]))
      /\ \A m \in 1 .. n + 1 : \A q \in 1 .. m : S(q) <= S(m)
  BY LinesLaidOut DEF ScanTypeOK, Layout
<1> HIDE DEF S, n
<1>3. ASSUME NEW m \in 1 .. n, NEW q \in 1 .. n, m < q
      PROVE  S(m) < S(q)
  <2>1. m + 1 \in 1 .. q /\ q \in 1 .. n + 1 /\ m \in 1 .. n + 1
    BY <1>1, <1>3
  <2>2. S(m + 1) <= S(q) /\ S(m) \in Nat /\ S(q) \in Nat
    BY <1>2, <2>1
  <2>3. S(m + 1) = S(m) + Len(Text(iomem[m])) /\ Len(Text(iomem[m])) >= 5 /\ Len(Text(iomem[m])) \in Nat
    BY <1>1, <1>2
  <2>4. QED
    BY <2>2, <2>3
<1>4. \A m \in 1 .. n : S(m) = S(k) => m = k
  <2>1. ASSUME NEW m \in 1 .. n, S(m) = S(k), m # k
        PROVE  FALSE
    <3>1. k \in 1 .. n /\ (m < k \/ k < m)
      BY <1>1, <2>1
    <3>2. S(m) < S(k) \/ S(k) < S(m)
      BY <1>3, <3>1
    <3>3. S(k) \in Nat
      <4>1. k \in 1 .. n + 1
        BY <1>1, <3>1
      <4>2. QED
        BY <1>2, <4>1
    <3>4. QED
      BY <2>1, <3>2, <3>3
  <2>2. QED
    BY <2>1
<1>5. \A m \in DOMAIN iomem : LineStart(iomem, m) = cur <=> m = k
  BY <1>1, <1>4 DEF S
<1>6. QED
  BY <1>5 DEF CurrentLine

\* What a place, and the lines before it, depend on.
LEMMA PassedKept ==
  ASSUME NEW k, NonePassed(k), UNCHANGED <<iomem, link>>
  PROVE  NonePassed(k)'
BY DEF NonePassed, IsAhci

LEMMA ReadingKept ==
  ASSUME NEW k, Reading(k), UNCHANGED <<iomem, cur, fpos, buf, ended>>
  PROVE  Reading(k)'
BY DEF Reading

LEMMA LinkKept ==
  ASSUME LinkInv, UNCHANGED <<iomem, fpos, link, origin>>
  PROVE  LinkInv'
BY DEF LinkInv, LinesRead, RangeOf, IsAhci

\* More is read: what was recorded stays a line that was read.
LEMMA LinkReadOn ==
  ASSUME ScanTypeOK, LinkInv, UNCHANGED <<iomem, link, origin>>, fpos' \in Nat, fpos <= fpos'
  PROVE  LinkInv'
<1>1. CASE link = <<>> /\ origin = <<>>
  BY <1>1 DEF LinkInv
<1>2. CASE ~ (link = <<>> /\ origin = <<>>)
  <2>1. PICK k \in DOMAIN iomem, e \in BOOLEAN :
          /\ link = <<RangeOf(iomem[k])>> /\ origin = <<[line |-> k, ended |-> e]>>
          /\ e => IsAhci(iomem[k])
          /\ k \in LinesRead
    BY <1>2 DEF LinkInv
  <2>2. k + 1 \in 1 .. Len(iomem) + 1
    <3>1. DOMAIN iomem = 1 .. Len(iomem) /\ Len(iomem) \in Nat
      BY FileLines DEF ScanTypeOK
    <3>2. QED
      BY <3>1
  <2>3. LineStart(iomem, k + 1) \in Nat
    BY <2>2, LinesLaidOut DEF ScanTypeOK, Layout
  <2>4. LineStart(iomem, k + 1) <= fpos
    BY <2>1 DEF LinesRead
  <2>5. LineStart(iomem, k + 1) <= fpos'
    <3>1. fpos \in Nat
      BY DEF ScanTypeOK
    <3> DEFINE s == LineStart(iomem, k + 1)
    <3> HIDE DEF s
    <3>2. s \in Nat /\ s <= fpos
      BY <2>3, <2>4 DEF s
    <3>3. s <= fpos'
      BY <3>1, <3>2
    <3>4. QED
      BY <3>3 DEF s
  <2>6. k \in LinesRead'
    BY <2>5 DEF LinesRead
  <2>7. /\ k \in DOMAIN iomem' /\ link' = <<RangeOf(iomem'[k])>>
        /\ origin' = <<[line |-> k, ended |-> e]>> /\ (e => IsAhci(iomem'[k]))
    BY <2>1
  <2>8. QED
    BY <2>1, <2>6, <2>7 DEF LinkInv
<1>3. QED
  BY <1>1, <1>2

\* The steps between two lines.
LEMMA BetweenKeeps ==
  ASSUME ScanInv, OpenIomem \/ OpenIomemFails \/ ReadEnds
  PROVE  ScanInv'
<1>1. /\ spc \in {"open", "read"} /\ spc' \in {"read", "failed", "scanned"}
      /\ UNCHANGED <<iomem, fpos, cur, buf, idx, state, flag, tmp_start, tmp_end, link, ended, origin>>
  BY DEF OpenIomem, OpenIomemFails, ReadEnds, find_vars, parse_vars
<1>2. ScanTypeOK'
  BY <1>1 DEF ScanInv, ScanTypeOK, Cells, LastCell
<1>3. ~ Examining /\ ~ Examining'
  BY <1>1 DEF Examining
<1>4. PICK k \in 1 .. Len(iomem) + 1 : fpos = LineStart(iomem, k) /\ NonePassed(k)
  BY <1>3 DEF ScanInv, PlaceInv
<1>5. fpos' = LineStart(iomem', k) /\ NonePassed(k)'
  BY <1>1, <1>4, PassedKept
<1>6. PlaceInv'
  BY <1>1, <1>3, <1>5 DEF PlaceInv
<1>7. LinkInv'
  BY <1>1, LinkKept DEF ScanInv
<1>8. QED
  BY <1>2, <1>6, <1>7 DEF ScanInv

LEMMA ReadKeeps ==
  ASSUME ScanInv, ReadLine
  PROVE  ScanInv'
<1>1. /\ spc = "read" /\ spc' = "find" /\ idx' = 0 /\ state' = 0
      /\ UNCHANGED <<iomem, link, origin>>
  BY DEF ReadLine
<1>2. ~ Examining /\ Examining'
  BY <1>1 DEF Examining
<1>3. PICK k \in 1 .. Len(iomem) + 1 : fpos = LineStart(iomem, k) /\ NonePassed(k)
  BY <1>2 DEF ScanInv, PlaceInv
<1>4. k \in DOMAIN iomem /\ ScanTypeOK' /\ Reading(k)'
  BY <1>3, ReadsOneLine DEF ScanInv
<1>5. NonePassed(k)'
  BY <1>1, <1>3, PassedKept
<1>6. Finding(iomem[k])'
  <2> DEFINE l == iomem[k]
  <2>1. Len(Text(l)) \in Nat /\ l \in Lines
    <3>1. k \in 1 .. Len(iomem) /\ iomem \in Files
      BY <1>4, FileLines DEF ScanInv, ScanTypeOK
    <3>2. QED
      BY <3>1, FileLines
  <2>4. iomem'[k] = l
    BY <1>1
  <2> HIDE DEF l
  <2>2. NamePlace(l) \in Nat /\ NamePlace(l) >= 4
    <3>1. l.first \in Seq(Digits) /\ l.last \in Seq(Digits) /\ l.depth \in Nat
      BY <2>1 DEF Lines
    <3>2. Len(l.first) \in Nat /\ Len(l.last) \in Nat
      BY <3>1
    <3>3. NamePlace(l) = 2 * l.depth + Len(l.first) + Len(l.last) + 4
      BY DEF NamePlace
    <3>4. \A z, x, y \in Nat : 2 * z + x + y + 4 \in Nat /\ 2 * z + x + y + 4 >= 4
      OBVIOUS
    <3>5. QED
      BY <3>1, <3>2, <3>3, <3>4
  <2>5. /\ 0 <= Len(Text(l)) /\ 0 <= NamePlace(l) + 2 /\ ~ (0 >= NamePlace(l))
    BY <2>1, <2>2
  <2>6. \A n \in 1 .. 0 : FALSE
    OBVIOUS
  <2>7. QED
    BY <1>1, <2>4, <2>5, <2>6 DEF Finding
<1>7. PlaceInv'
  BY <1>1, <1>2, <1>4, <1>5, <1>6 DEF PlaceInv
<1>8. LinkInv'
  <2>1. fpos' \in Nat /\ fpos <= fpos'
    BY <1>4 DEF ReadLine, ScanTypeOK
  <2>2. QED
    BY <1>1, <2>1, LinkReadOn DEF ScanInv
<1>9. QED
  BY <1>4, <1>7, <1>8 DEF ScanInv

LEMMA FindKeeps ==
  ASSUME ScanInv, FindTurn \/ Found \/ NotFound
  PROVE  ScanInv'
<1>1. /\ spc = "find"
      /\ UNCHANGED <<iomem, fpos, cur, buf, link, ended, origin>>
  BY DEF FindTurn, Found, NotFound
<1>2. PICK k \in DOMAIN iomem : Reading(k) /\ NonePassed(k) /\ Finding(iomem[k])
  BY <1>1 DEF ScanInv, PlaceInv, Examining
<1>3. ScanTypeOK
  BY DEF ScanInv
<1>4. Reading(k)' /\ NonePassed(k)' /\ LinkInv'
  BY <1>1, <1>2, ReadingKept, PassedKept, LinkKept DEF ScanInv
<1>5. CASE FindTurn
  <2>1. ScanTypeOK' /\ Finding(iomem[k])' /\ spc' = "find"
    BY <1>1, <1>2, <1>3, <1>5, FindTurnKeeps DEF FindTurn
  <2>2. PlaceInv'
    BY <1>1, <1>4, <2>1 DEF PlaceInv, Examining
  <2>3. QED
    BY <1>4, <2>1, <2>2 DEF ScanInv
<1>6. CASE Found
  <2>1. /\ spc' = "parse" /\ idx' = 0 /\ state' = 0
        /\ flag' = FALSE /\ tmp_start' = 0 /\ tmp_end' = 0
    BY <1>6 DEF Found
  <2>2. ended => IsAhci(iomem[k])
    BY <1>2, <1>3, <1>6, FoundRight
  <2>3. ScanTypeOK'
    <3>1. 0 \in Cells /\ Cells' = Cells /\ LastCell' = LastCell
      BY ScanAssumption DEF Cells, LastCell
    <3>2. /\ idx' \in Cells /\ state' \in 0 .. 3 /\ flag' \in BOOLEAN
          /\ tmp_start' \in Nat /\ tmp_end' \in Nat
      <4>1. 0 \in 0 .. 3 /\ 0 \in Nat /\ FALSE \in BOOLEAN
        OBVIOUS
      <4>2. QED
        BY <2>1, <3>1, <4>1, Zenon
    <3>3. /\ spc' \in {"open", "read", "find", "parse", "link", "hung", "scanned", "failed"}
      BY <2>1
    <3>4. QED
      BY <1>1, <1>3, <3>1, <3>2, <3>3 DEF ScanTypeOK
  <2>4. Parsing(iomem[k])'
    <3>1. PICK e, a, b, d : Lengths(iomem[k], e, a, b, d)
      BY LengthsExist
    <3>2. /\ e \in Nat /\ a \in Nat /\ b \in Nat /\ Numbered(iomem[k].first)
      BY <1>2, <1>3, <3>1, LineAddresses
    <3>3. UpTo(iomem[k].first, 0) = 0
      BY <3>2 DEF Numbered
    <3>4. 2 * iomem[k].depth = e /\ e + Len(iomem[k].first) = a /\ Len(iomem[k].last) = b
      BY <3>1 DEF Lengths
    <3>5. 0 <= a + 1 + b /\ ~ (0 > a) /\ (0 \in e .. a => 0 - e = 0)
      BY <3>2
    <3>6. QED
      BY <1>1, <2>1, <3>3, <3>4, <3>5 DEF Parsing, UpTo
  <2>5. PlaceInv'
    BY <1>1, <1>4, <2>1, <2>2, <2>4 DEF PlaceInv, Examining, IsAhci
  <2>6. QED
    BY <1>4, <2>3, <2>5 DEF ScanInv
<1>7. CASE NotFound
  <2>1. spc' = "read" /\ UNCHANGED <<idx, state, flag, tmp_start, tmp_end>>
    BY <1>7 DEF NotFound, find_vars, parse_vars
  <2>2. ~ IsAhci(iomem[k])
    BY <1>2, <1>3, <1>7, PassesRight
  <2>3. ScanTypeOK'
    BY <1>1, <1>3, <2>1 DEF ScanTypeOK, Cells, LastCell
  <2>4. Len(iomem) \in Nat /\ DOMAIN iomem = 1 .. Len(iomem)
    BY <1>3, FileLines DEF ScanTypeOK
  <2>5. k + 1 \in 1 .. Len(iomem) + 1 /\ \A m \in 1 .. (k + 1) - 1 : m \in 1 .. k - 1 \/ m = k
    BY <2>4
  <2>6. NonePassed(k + 1)'
    BY <1>1, <1>2, <2>2, <2>5 DEF NonePassed, IsAhci
  <2>7. fpos' = LineStart(iomem', k + 1)
    BY <1>1, <1>2 DEF Reading
  <2>8. PlaceInv'
    BY <1>1, <2>1, <2>5, <2>6, <2>7 DEF PlaceInv, Examining
  <2>9. QED
    BY <1>4, <2>3, <2>8 DEF ScanInv
<1>8. QED
  BY <1>5, <1>6, <1>7

LEMMA ParseKeeps ==
  ASSUME ScanInv, ParseDigit \/ ParseOther \/ ParseEnds
  PROVE  ScanInv'
<1>1. /\ spc = "parse"
      /\ UNCHANGED <<iomem, fpos, cur, buf, link, ended, origin>>
  BY DEF ParseDigit, ParseOther, ParseEnds
<1>2. PICK k \in DOMAIN iomem : /\ Reading(k) /\ NonePassed(k) /\ Parsing(iomem[k])
                                /\ ended => IsAhci(iomem[k])
  BY <1>1 DEF ScanInv, PlaceInv, Examining
<1>3. ScanTypeOK
  BY DEF ScanInv
<1>4. Reading(k)' /\ NonePassed(k)' /\ LinkInv'
  BY <1>1, <1>2, ReadingKept, PassedKept, LinkKept DEF ScanInv
<1>5. ended' => IsAhci(iomem'[k])
  BY <1>1, <1>2 DEF IsAhci
<1>6. CASE ParseDigit \/ ParseOther
  <2>1. ScanTypeOK' /\ Parsing(iomem[k])' /\ spc' = "parse"
    BY <1>1, <1>2, <1>3, <1>6, ParseDigitKeeps, ParseOtherKeeps DEF ParseDigit, ParseOther
  <2>2. PlaceInv'
    BY <1>1, <1>4, <1>5, <2>1 DEF PlaceInv, Examining
  <2>3. QED
    BY <1>4, <2>1, <2>2 DEF ScanInv
<1>7. CASE ParseEnds
  <2>1. spc' = "link" /\ UNCHANGED <<idx, state, flag, tmp_start, tmp_end>>
    BY <1>7 DEF ParseEnds, find_vars, parse_vars
  <2>2. Parsed(iomem[k])
    BY <1>2, <1>3, <1>7, ParseEndsRight
  <2>3. Parsed(iomem[k])'
    BY <1>1, <2>1, <2>2 DEF Parsed
  <2>4. ScanTypeOK'
    BY <1>1, <1>3, <2>1 DEF ScanTypeOK, Cells, LastCell
  <2>5. PlaceInv'
    BY <1>1, <1>4, <1>5, <2>1, <2>3 DEF PlaceInv, Examining
  <2>6. QED
    BY <1>4, <2>4, <2>5 DEF ScanInv
<1>8. QED
  BY <1>6, <1>7

\* What is recorded is the range of the line in the buffer.
LEMMA LinkKeeps ==
  ASSUME ScanInv, LinkFirst \/ LinkHangs \/ LinkReplaces
  PROVE  ScanInv'
<1>1. /\ spc = "link" /\ spc' \in {"read", "hung"}
      /\ UNCHANGED <<iomem, fpos, cur, buf, idx, state, flag, tmp_start, tmp_end, ended>>
  BY DEF LinkFirst, LinkHangs, LinkReplaces, find_vars, parse_vars
<1>2. PICK k \in DOMAIN iomem : /\ Reading(k) /\ Parsed(iomem[k])
                                /\ ended => IsAhci(iomem[k])
  BY <1>1 DEF ScanInv, PlaceInv, Examining
<1>3. ScanTypeOK
  BY DEF ScanInv
<1>4. ScanTypeOK'
  BY <1>1, <1>3 DEF ScanTypeOK, Cells, LastCell
<1>5. LinkInv' /\ link' # <<>>
  <2>1. CASE LinkHangs
    <3>1. link # <<>> /\ link' = link /\ origin' = origin
      BY <2>1 DEF LinkHangs
    <3>2. QED
      BY <1>1, <3>1, LinkKept DEF ScanInv
  <2>2. CASE LinkFirst \/ LinkReplaces
    <3>1. /\ link' = <<[start |-> tmp_start, end |-> tmp_end]>>
          /\ origin' = <<[line |-> CurrentLine, ended |-> ended]>>
      BY <2>2 DEF LinkFirst, LinkReplaces
    <3>2. CurrentLine = k
      BY <1>2, <1>3, CurrentLineIs DEF Reading
    <3>3. link' = <<RangeOf(iomem'[k])>>
      BY <1>1, <1>2, <3>1 DEF RangeOf, Parsed
    <3>4. ended \in BOOLEAN /\ origin' = <<[line |-> k, ended |-> ended]>>
      BY <1>3, <3>1, <3>2 DEF ScanTypeOK
    <3>5. ended => IsAhci(iomem'[k])
      BY <1>1, <1>2
    <3>8. k \in LinesRead'
      <4>1. fpos' = LineStart(iomem', k + 1) /\ fpos' \in Nat
        BY <1>1, <1>2, <1>3 DEF Reading, ScanTypeOK
      <4>2. fpos' <= fpos'
        BY <4>1
      <4>3. QED
        BY <1>1, <4>1, <4>2 DEF LinesRead
    <3>6. LinkInv'
      BY <1>1, <3>3, <3>4, <3>5, <3>8 DEF LinkInv
    <3>7. QED
      BY <3>3, <3>6
  <2>3. QED
    BY <2>1, <2>2
<1>6. PlaceInv'
  <2>1. Len(iomem) \in Nat /\ DOMAIN iomem = 1 .. Len(iomem)
    BY <1>3, FileLines DEF ScanTypeOK
  <2>2. k + 1 \in 1 .. Len(iomem) + 1
    BY <2>1
  <2>3. NonePassed(k + 1)' /\ fpos' = LineStart(iomem', k + 1)
    BY <1>1, <1>2, <1>5 DEF NonePassed, Reading
  <2>4. QED
    BY <1>1, <2>2, <2>3 DEF PlaceInv, Examining
<1>7. QED
  BY <1>4, <1>5, <1>6 DEF ScanInv

LEMMA ScanInvStep ==
  ASSUME ScanInv, ScanNext
  PROVE  ScanInv'
BY BetweenKeeps, ReadKeeps, FindKeeps, ParseKeeps, LinkKeeps DEF ScanNext

-----------------------------------------------------------------------------
(* The whole program                                                       *)

\* The types of getreginfo's variables; p is within the host area at first.
RegsInv ==
  /\ RegsTypeOK
  /\ rpc \in {"open", "host"} => j <= HOST

MainTypeOK == mpc \in {"scan", "dump", "none", "finished"}

ProgramInv == ScanInv /\ MainInv /\ MainTypeOK /\ RegsInv

LEMMA RegsTypes ==
  ASSUME RegsInv, RegsNext
  PROVE  RegsInv'
<1> USE DEF RegsInv, RegsTypeOK, HOST, PORT
<1>1. CASE HostTurn
  BY <1>1 DEF HostTurn, HostEnds
<1>2. CASE ReadPorts
  <2>1. port_implement' \in SUBSET (0 .. 31)
    BY <1>2, RegsAssumption DEF ReadPorts
  <2>2. rpc' = "ports" /\ j' = j + 1 /\ j <= HOST /\ UNCHANGED <<base, len, i, exceeded>>
    BY <1>2 DEF ReadPorts
  <2>3. highest' \in {PI, highest}
    BY <1>2 DEF ReadPorts
  <2>4. QED
    BY <2>1, <2>2, <2>3 DEF PI
<1>3. CASE DumpPort
  <2>1. /\ j' = 32 /\ i' = i + 1 /\ i < 32 /\ rpc = "ports"
        /\ UNCHANGED <<rpc, base, len, port_implement, exceeded>>
    BY <1>3 DEF DumpPort
  <2>2. highest' = 64 + i * 32 + 32 - 1
    BY <1>3 DEF DumpPort, LastWord, PortStart
  <2>3. QED
    BY <2>1, <2>2
<1>4. CASE Segfault
  <2>1. /\ rpc' = "crashed" /\ i < 32
        /\ UNCHANGED <<base, len, j, i, port_implement, exceeded>>
    BY <1>4 DEF Segfault
  <2>2. highest' = 64 + i * 32 + 32 - 1
    BY <1>4 DEF Segfault, LastWord, PortStart
  <2>3. QED
    BY <2>1, <2>2
<1>5. CASE OpenFails \/ MapFails \/ Map
  BY <1>5 DEF OpenFails, MapFails, Map
<1>6. CASE SkipPort
  BY <1>6 DEF SkipPort
<1>7. CASE StopAtPort
  BY <1>7 DEF StopAtPort
<1>8. CASE PortsEnd
  BY <1>8 DEF PortsEnd
<1>9. QED
  BY <1>1, <1>2, <1>3, <1>4, <1>5, <1>6, <1>7, <1>8 DEF RegsNext

\* getreginfo stays with the range it was called for.
LEMMA CallStays == RegsNext => UNCHANGED <<base, len>>
BY DEF RegsNext, OpenFails, MapFails, Map, HostTurn, ReadPorts, SkipPort, DumpPort, Segfault,
       StopAtPort, PortsEnd

\* A call is for the range of a line, whose addresses are in order.
LEMMA CallTypes ==
  ASSUME NEW r \in AddressRange, r.start <= r.end, Call(r.start, r.end)
  PROVE  RegsInv'
<1>1. r.start \in Nat /\ r.end \in Nat /\ r.end - r.start \in Nat
  BY DEF AddressRange
<1>2. /\ rpc' = "open" /\ base' = r.start /\ len' = r.end - r.start /\ j' = 0 /\ i' = 0
      /\ port_implement' = {} /\ highest' = -1 /\ exceeded' = FALSE
  BY DEF Call
<1>3. exceeded' \in BOOLEAN /\ port_implement' \in SUBSET (0 .. 31)
  BY <1>2
<1>4. QED
  BY <1>1, <1>2, <1>3 DEF RegsInv, RegsTypeOK, HOST, PORT

\* The list is empty, or holds the range of one line.
LEMMA ListIs ==
  ASSUME ScanTypeOK, LinkInv, link # <<>>
  PROVE  \E k \in DOMAIN iomem : \E e \in BOOLEAN :
           /\ link = <<RangeOf(iomem[k])>> /\ origin = <<[line |-> k, ended |-> e]>>
           /\ (e => IsAhci(iomem[k])) /\ k \in LinesRead
           /\ RangeOf(iomem[k]) \in AddressRange
           /\ RangeOf(iomem[k]).start <= RangeOf(iomem[k]).end
<1>1. PICK k \in DOMAIN iomem, e \in BOOLEAN :
        /\ link = <<RangeOf(iomem[k])>> /\ origin = <<[line |-> k, ended |-> e]>>
        /\ (e => IsAhci(iomem[k])) /\ k \in LinesRead
  BY DEF LinkInv
<1>2. /\ Number(iomem[k].first) \in Nat /\ Number(iomem[k].last) \in Nat
      /\ Number(iomem[k].first) <= Number(iomem[k].last)
  BY LineNumbers DEF ScanTypeOK
<1>3. /\ RangeOf(iomem[k]) \in AddressRange
      /\ RangeOf(iomem[k]).start <= RangeOf(iomem[k]).end
  BY <1>2 DEF RangeOf, AddressRange
<1>4. QED
  BY <1>1, <1>3

LEMMA ScanInvKept ==
  ASSUME ScanInv, UNCHANGED scan_vars
  PROVE  ScanInv'
<1> USE DEF scan_vars
<1>1. ScanTypeOK'
  BY DEF ScanInv, ScanTypeOK, Cells, LastCell
<1>2. LinkInv'
  BY LinkKept DEF ScanInv
<1>3. PlaceInv'
  <2>1. CASE Examining
    <3>1. PICK k \in DOMAIN iomem :
            /\ Reading(k) /\ NonePassed(k)
            /\ spc = "find" => Finding(iomem[k])
            /\ spc = "parse" => Parsing(iomem[k])
            /\ spc = "link" => Parsed(iomem[k])
            /\ spc # "find" => (ended => IsAhci(iomem[k]))
      BY <2>1 DEF ScanInv, PlaceInv
    <3>2. Reading(k)' /\ NonePassed(k)'
      BY <3>1, ReadingKept, PassedKept
    <3>3. /\ Finding(iomem[k]) => Finding(iomem[k])'
          /\ Parsing(iomem[k]) => Parsing(iomem[k])'
          /\ Parsed(iomem[k]) => Parsed(iomem[k])'
      BY DEF Finding, Parsing, Parsed, NamePlace
    <3>4. IsAhci(iomem'[k]) <=> IsAhci(iomem[k])
      BY DEF IsAhci
    <3>5. QED
      BY <2>1, <3>1, <3>2, <3>3, <3>4 DEF PlaceInv, Examining
  <2>2. CASE ~ Examining
    <3>1. PICK k \in 1 .. Len(iomem) + 1 : fpos = LineStart(iomem, k) /\ NonePassed(k)
      BY <2>2 DEF ScanInv, PlaceInv
    <3>2. NonePassed(k)' /\ fpos' = LineStart(iomem', k)
      BY <3>1, PassedKept
    <3>3. QED
      BY <2>2, <3>2 DEF PlaceInv, Examining
  <2>3. QED
    BY <2>1, <2>2
<1>4. QED
  BY <1>1, <1>2, <1>3 DEF ScanInv

LEMMA ProgramInit == Init => ProgramInv
<1> SUFFICES ASSUME Init
             PROVE  ProgramInv
  OBVIOUS
<1>1. /\ iomem \in Files /\ buf \in Garbage /\ fpos = 0 /\ cur = 0 /\ ended = TRUE
      /\ spc = "open" /\ idx = 0 /\ state = 0 /\ flag = FALSE /\ tmp_start = 0 /\ tmp_end = 0
      /\ link = <<>> /\ origin = <<>>
  BY DEF Init, ScanInit
<1>2. /\ rpc = "idle" /\ base = 0 /\ len = 0 /\ j = 0 /\ i = 0
      /\ port_implement = {} /\ highest = -1 /\ exceeded = FALSE
      /\ mpc = "scan" /\ at = 0 /\ dumped = <<>>
  BY DEF Init, RegsInit
<1>3. ScanTypeOK
  <2>1. buf \in [Cells -> Chars] /\ buf[LastCell] = "NUL" /\ 0 \in Cells
    BY <1>1, ScanAssumption DEF Cells
  <2>2. ended \in BOOLEAN /\ flag \in BOOLEAN /\ state \in 0 .. 3 /\ cur <= fpos
        /\ fpos \in Nat /\ cur \in Nat
    <3>1. TRUE \in BOOLEAN /\ FALSE \in BOOLEAN /\ 0 \in 0 .. 3 /\ 0 <= 0 /\ 0 \in Nat
      OBVIOUS
    <3>2. QED
      BY <1>1, <3>1, Zenon
  <2>3. QED
    BY <1>1, <2>1, <2>2 DEF ScanTypeOK
<1>4. PlaceInv
  <2>1. Len(iomem) \in Nat /\ LineStart(iomem, 1) = 0
    BY <1>1, LinesLaidOut, FileLines DEF Layout
  <2>2. 1 \in 1 .. Len(iomem) + 1 /\ \A m \in 1 .. 1 - 1 : FALSE
    BY <2>1
  <2>3. NonePassed(1)
    BY <2>2 DEF NonePassed
  <2>4. QED
    BY <1>1, <2>1, <2>2, <2>3 DEF PlaceInv, Examining
<1>5. LinkInv
  BY <1>1 DEF LinkInv
<1>6. MainInv /\ MainTypeOK
  BY <1>2 DEF MainInv, MainTypeOK
<1>7. RegsInv
  <2>1. exceeded \in BOOLEAN /\ port_implement \in SUBSET (0 .. 31)
    BY <1>2
  <2>2. QED
    BY <1>2, <2>1 DEF RegsInv, RegsTypeOK, HOST, PORT
<1>8. QED
  BY <1>3, <1>4, <1>5, <1>6, <1>7 DEF ProgramInv, ScanInv

LEMMA ProgramStep == ProgramInv /\ [Next]_vars => ProgramInv'
<1> SUFFICES ASSUME ProgramInv, [Next]_vars
             PROVE  ProgramInv'
  OBVIOUS
<1>1. ScanInv /\ MainInv /\ MainTypeOK /\ RegsInv /\ ScanTypeOK /\ LinkInv
  BY DEF ProgramInv, ScanInv
<1>2. CASE Scan
  <2>1. ScanNext /\ mpc = "scan" /\ UNCHANGED <<regs_vars, mpc, at, dumped>>
    BY <1>2 DEF Scan
  <2>2. ScanInv'
    BY <1>1, <2>1, ScanInvStep
  <2>3. RegsInv'
    BY <1>1, <2>1 DEF RegsInv, RegsTypeOK, regs_vars
  <2>4. MainInv' /\ MainTypeOK'
    BY <1>1, <2>1 DEF MainInv, MainTypeOK, regs_vars
  <2>5. QED
    BY <2>2, <2>3, <2>4 DEF ProgramInv
<1>3. CASE NoController
  <2>1. /\ mpc = "scan" /\ mpc' = "none" /\ spc = "scanned" /\ link = <<>>
        /\ UNCHANGED <<scan_vars, regs_vars, at, dumped>>
    BY <1>3 DEF NoController
  <2>2. ScanInv'
    BY <1>1, <2>1, ScanInvKept
  <2>3. RegsInv'
    BY <1>1, <2>1 DEF RegsInv, RegsTypeOK, regs_vars
  <2>4. MainInv' /\ MainTypeOK'
    BY <1>1, <2>1 DEF MainInv, MainTypeOK, scan_vars
  <2>5. QED
    BY <2>2, <2>3, <2>4 DEF ProgramInv
<1>4. CASE StartDump
  <2>1. /\ mpc = "scan" /\ mpc' = "dump" /\ at' = 1 /\ spc = "scanned" /\ link # <<>>
        /\ Call(link[1].start, link[1].end) /\ UNCHANGED <<scan_vars, dumped>>
    BY <1>4 DEF StartDump
  <2>2. ScanInv'
    BY <1>1, <2>1, ScanInvKept
  <2>3. RegsInv'
    <3>1. PICK k \in DOMAIN iomem : /\ link = <<RangeOf(iomem[k])>>
                                    /\ RangeOf(iomem[k]) \in AddressRange
                                    /\ RangeOf(iomem[k]).start <= RangeOf(iomem[k]).end
      BY <1>1, <2>1, ListIs
    <3>2. link[1] = RangeOf(iomem[k])
      BY <3>1
    <3>3. link[1] \in AddressRange /\ link[1].start <= link[1].end
      BY <3>1, <3>2
    <3>4. QED
      BY <2>1, <3>3, CallTypes
  <2>4. MainInv' /\ MainTypeOK'
    <3>1. base' = link[1].start /\ len' = link[1].end - link[1].start /\ link' = link
      BY <2>1 DEF Call, scan_vars
    <3>2. QED
      BY <1>1, <2>1, <3>1 DEF MainInv, MainTypeOK, scan_vars
  <2>5. QED
    BY <2>2, <2>3, <2>4 DEF ProgramInv
<1>5. CASE Dump
  <2>1. RegsNext /\ mpc = "dump" /\ UNCHANGED <<scan_vars, mpc, at, dumped>>
    BY <1>5 DEF Dump
  <2>2. ScanInv' /\ RegsInv'
    BY <1>1, <2>1, ScanInvKept, RegsTypes
  <2>3. MainInv' /\ MainTypeOK'
    <3>1. UNCHANGED <<base, len>>
      BY <2>1, CallStays
    <3>2. QED
      BY <1>1, <2>1, <3>1 DEF MainInv, MainTypeOK, scan_vars
  <2>4. QED
    BY <2>2, <2>3 DEF ProgramInv
<1>6. CASE NextDump
  <2>1. mpc = "dump" /\ dumped' = Append(dumped, link[at]) /\ UNCHANGED scan_vars
    BY <1>6 DEF NextDump
  <2>2. link # <<>> /\ at = 1 /\ dumped = <<>> /\ spc = "scanned"
    BY <1>1, <2>1 DEF MainInv
  <2>3. PICK k \in DOMAIN iomem : link = <<RangeOf(iomem[k])>>
    BY <1>1, <2>2, ListIs
  <2>4. Len(link) = 1 /\ link[1] = RangeOf(iomem[k])
    BY <2>3
  <2>5. mpc' = "finished" /\ UNCHANGED <<at, regs_vars>>
    BY <1>6, <2>2, <2>4 DEF NextDump
  <2>6. dumped' = link
    BY <2>1, <2>2, <2>3, <2>4
  <2>7. ScanInv'
    BY <1>1, <2>1, ScanInvKept
  <2>8. RegsInv'
    BY <1>1, <2>5 DEF RegsInv, RegsTypeOK, regs_vars
  <2>9. MainInv' /\ MainTypeOK'
    BY <1>1, <2>1, <2>2, <2>5, <2>6 DEF MainInv, MainTypeOK, scan_vars, regs_vars
  <2>10. QED
    BY <2>7, <2>8, <2>9 DEF ProgramInv
<1>7. CASE UNCHANGED vars
  <2>1. UNCHANGED <<scan_vars, regs_vars, mpc, at, dumped>>
    BY <1>7 DEF vars
  <2>2. ScanInv'
    BY <1>1, <2>1, ScanInvKept
  <2>3. RegsInv'
    BY <1>1, <2>1 DEF RegsInv, RegsTypeOK, regs_vars
  <2>4. MainInv' /\ MainTypeOK'
    BY <1>1, <2>1 DEF MainInv, MainTypeOK, scan_vars, regs_vars
  <2>5. QED
    BY <2>2, <2>3, <2>4 DEF ProgramInv
<1>8. QED
  BY <1>2, <1>3, <1>4, <1>5, <1>6, <1>7 DEF Next

(***************************************************************************)
(* Every variable of the program has its type: no loop over the buffer     *)
(* leaves the memory, no number is negative, and at most one controller is *)
(* recorded and dumped.                                                    *)
(***************************************************************************)
THEOREM TypeCorrect == Spec => []TypeOK
<1>1. ProgramInv => TypeOK
  <2> SUFFICES ASSUME ProgramInv
               PROVE  TypeOK
    OBVIOUS
  <2>1. /\ ScanTypeOK /\ LinkInv /\ MainInv /\ MainTypeOK /\ RegsTypeOK
    BY DEF ProgramInv, ScanInv, RegsInv
  <2>2. /\ link \in Seq(AddressRange) /\ origin \in Seq([line : Nat \ {0}, ended : BOOLEAN])
        /\ link # <<>> => Len(link) = 1
    <3>1. CASE link = <<>>
      <4>1. origin = <<>>
        BY <2>1, <3>1 DEF LinkInv
      <4>2. QED
        BY <3>1, <4>1
    <3>2. CASE link # <<>>
      <4>1. PICK k \in DOMAIN iomem, e \in BOOLEAN :
              /\ link = <<RangeOf(iomem[k])>> /\ origin = <<[line |-> k, ended |-> e]>>
              /\ RangeOf(iomem[k]) \in AddressRange
        BY <2>1, <3>2, ListIs
      <4>2. k \in Nat \ {0}
        <5>1. DOMAIN iomem = 1 .. Len(iomem) /\ Len(iomem) \in Nat
          BY <2>1, FileLines DEF ScanTypeOK
        <5>2. QED
          BY <5>1
      <4> DEFINE o == [line |-> k, ended |-> e]
                 C == [line : Nat \ {0}, ended : BOOLEAN]
      <4>3. o \in C
        BY <4>2
      <4>4. origin = <<o>>
        BY <4>1
      <4> HIDE DEF o, C
      <4>5. origin \in Seq(C)
        BY <4>3, <4>4
      <4>6. QED
        BY <4>1, <4>5 DEF C
    <3>3. QED
      BY <3>1, <3>2
  <2>3. at \in 0 .. Len(link)
    <3>1. CASE link = <<>>
      <4>1. at = 0 /\ Len(link) = 0
        BY <2>1, <3>1 DEF MainInv, MainTypeOK
      <4>2. QED
        BY <4>1
    <3>2. CASE link # <<>>
      <4>1. at \in {0, 1} /\ Len(link) = 1
        BY <2>1, <2>2, <3>2 DEF MainInv, MainTypeOK
      <4>2. QED
        BY <4>1
    <3>3. QED
      BY <3>1, <3>2
  <2>4. dumped \in Seq(AddressRange)
    <3>1. dumped = link \/ dumped = <<>>
      BY <2>1 DEF MainInv
    <3>2. <<>> \in Seq(AddressRange)
      OBVIOUS
    <3>3. QED
      BY <2>2, <3>1, <3>2, Zenon
  <2>5. QED
    BY <2>1, <2>2, <2>3, <2>4 DEF TypeOK, MainTypeOK
<1>2. QED
  BY ProgramInit, ProgramStep, <1>1, PTL DEF Spec

(***************************************************************************)
(* Whatever the sizes of the lines and of the reads, getbaseaddr goes      *)
(* through the file line by line, each line whole.                         *)
(***************************************************************************)
THEOREM ReadsLineByLine == Spec => []LineByLine
<1>1. ProgramInv => LineByLine
  BY DEF ProgramInv, ScanInv, PlaceInv, Examining, LineByLine, Reading
<1>2. QED
  BY ProgramInit, ProgramStep, <1>1, PTL DEF Spec

(***************************************************************************)
(* The recorded range is that of the line it was read from, with any       *)
(* number of digits; and of a terminated line it is a controller's.        *)
(***************************************************************************)
THEOREM RecordsRight == Spec => []RecordedRight
<1>1. ProgramInv => RecordedRight
  <2> SUFFICES ASSUME ProgramInv, NEW n \in DOMAIN link
               PROVE  /\ link[n] = RangeOf(iomem[origin[n].line])
                      /\ origin[n].ended => IsAhci(iomem[origin[n].line])
    BY DEF RecordedRight
  <2>1. ScanTypeOK /\ LinkInv /\ link # <<>>
    BY DEF ProgramInv, ScanInv
  <2>2. PICK k \in DOMAIN iomem, e \in BOOLEAN :
          /\ link = <<RangeOf(iomem[k])>> /\ origin = <<[line |-> k, ended |-> e]>>
          /\ e => IsAhci(iomem[k])
    BY <2>1, ListIs
  <2>3. n = 1
    BY <2>2
  <2>4. link[1] = RangeOf(iomem[k]) /\ origin[1].line = k /\ origin[1].ended = e
    BY <2>2
  <2>5. QED
    BY <2>2, <2>3, <2>4
<1>2. QED
  BY ProgramInit, ProgramStep, <1>1, PTL DEF Spec

\* The lines read are those before the place the scan is at.
LEMMA LinesReadAre ==
  ASSUME ScanTypeOK, NEW k \in 1 .. Len(iomem) + 1, fpos = LineStart(iomem, k)
  PROVE  LinesRead = 1 .. k - 1
<1> DEFINE n == Len(iomem)
           S(m) == LineStart(iomem, m)
<1>1. /\ n \in Nat /\ DOMAIN iomem = 1 .. n
      /\ \A m \in 1 .. n : Len(Text(iomem[m])) \in Nat /\ Len(Text(iomem[m])) >= 5
  BY FileLines DEF ScanTypeOK
<1>2. /\ \A m \in 1 .. n + 1 : S(m) \in Nat
      /\ \A m \in 1 .. n : S(m + 1) = S(m) + Len(Text(iomem[m]))
      /\ \A m \in 1 .. n + 1 : \A q \in 1 .. m : S(q) <= S(m)
  BY LinesLaidOut DEF ScanTypeOK, Layout
<1>3. LinesRead = {m \in 1 .. n : S(m + 1) <= S(k)}
  BY <1>1 DEF LinesRead
<1> HIDE DEF S, n
<1>4. k \in 1 .. n + 1
  BY DEF n
<1>5. ASSUME NEW m \in 1 .. n
      PROVE  S(m + 1) <= S(k) <=> m \in 1 .. k - 1
  <2>1. CASE m \in 1 .. k - 1
    <3>1. m + 1 \in 1 .. k
      BY <1>1, <1>4, <2>1
    <3>2. QED
      BY <1>2, <1>4, <2>1, <3>1
  <2>2. CASE m \notin 1 .. k - 1
    <3>1. k \in 1 .. m /\ m \in 1 .. n + 1
      BY <1>1, <1>4, <2>2
    <3>2. S(k) <= S(m) /\ S(k) \in Nat /\ S(m) \in Nat
      BY <1>2, <1>4, <3>1
    <3>3. S(m + 1) = S(m) + Len(Text(iomem[m])) /\ Len(Text(iomem[m])) \in Nat
          /\ Len(Text(iomem[m])) >= 5
      BY <1>1, <1>2
    <3>4. ~ (S(m + 1) <= S(k))
      BY <3>2, <3>3
    <3>5. QED
      BY <2>2, <3>4
  <2>3. QED
    BY <2>1, <2>2
<1>6. \A m \in 1 .. k - 1 : m \in 1 .. n
  BY <1>1, <1>4
<1>7. QED
  BY <1>3, <1>5, <1>6

(***************************************************************************)
(* Wherever the reading of the file stops and whatever becomes of          *)
(* getreginfo, of the lines read "can't find ahci controller" is said only *)
(* if none is a controller's, and a single controller is the one dumped.   *)
(***************************************************************************)
THEOREM EndsRight == Spec => []OutcomeRight
<1>1. ProgramInv => OutcomeRight
  <2> SUFFICES ASSUME ProgramInv
               PROVE  OutcomeRight
    OBVIOUS
  <2> DEFINE ahci == {k \in LinesRead : IsAhci(iomem[k])}
  <2>1. ScanTypeOK /\ PlaceInv /\ LinkInv /\ MainInv
    BY DEF ProgramInv, ScanInv
  <2>2. ASSUME mpc = "none"
        PROVE  ahci = {}
    <3>1. link = <<>> /\ spc = "scanned"
      BY <2>1, <2>2 DEF MainInv
    <3>2. PICK k \in 1 .. Len(iomem) + 1 : fpos = LineStart(iomem, k) /\ NonePassed(k)
      BY <2>1, <3>1 DEF PlaceInv, Examining
    <3>3. LinesRead = 1 .. k - 1
      BY <2>1, <3>2, LinesReadAre
    <3>4. QED
      BY <3>1, <3>2, <3>3 DEF NonePassed
  <2>3. ASSUME mpc = "finished"
        PROVE  dumped = link
    BY <2>1, <2>3 DEF MainInv
  <2>4. ASSUME mpc \in {"dump", "finished"}, \A x \in DOMAIN origin : origin[x].ended,
               NEW m \in ahci, ahci = {m}
        PROVE  /\ base = RangeOf(iomem[m]).start
               /\ base + len = RangeOf(iomem[m]).end
               /\ mpc = "finished" => dumped = <<RangeOf(iomem[m])>>
    <3>1. /\ link # <<>> /\ spc = "scanned"
          /\ base = link[1].start /\ len = link[1].end - link[1].start
      BY <2>1, <2>4 DEF MainInv
    <3>2. PICK k \in DOMAIN iomem, e \in BOOLEAN :
            /\ link = <<RangeOf(iomem[k])>> /\ origin = <<[line |-> k, ended |-> e]>>
            /\ (e => IsAhci(iomem[k])) /\ k \in LinesRead
            /\ RangeOf(iomem[k]) \in AddressRange
      BY <2>1, <3>1, ListIs
    <3>3. 1 \in DOMAIN origin /\ origin[1].ended = e
      BY <3>2
    <3>4. e
      BY <2>4, <3>3
    <3>5. k \in ahci
      BY <3>2, <3>4
    <3>6. k = m
      BY <2>4, <3>5
    <3> DEFINE range == RangeOf(iomem[m])
    <3>7. link[1] = range /\ range.start \in Nat /\ range.end \in Nat
      BY <3>2, <3>6 DEF AddressRange
    <3> HIDE DEF range
    <3>8. base + len = range.end
      BY <3>1, <3>7
    <3>9. QED
      BY <2>3, <3>1, <3>2, <3>6, <3>7, <3>8 DEF range
  <2>5. QED
    BY <2>2, <2>3, <2>4 DEF OutcomeRight
<1>2. QED
  BY ProgramInit, ProgramStep, <1>1, PTL DEF Spec

=============================================================================
