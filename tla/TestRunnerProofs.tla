-------------------------- MODULE TestRunnerProofs --------------------------
(***************************************************************************)
(* Proofs about TestRunner, for every configuration, every set of suites   *)
(* and files, and whatever the commands do.                                *)
(***************************************************************************)
EXTENDS TestRunner, SequenceTheorems, FiniteSetTheorems, WellFoundedInduction, TLAPS

-----------------------------------------------------------------------------
(* What generate_reports makes of the results, one after the other         *)

\* A set of numbers that is not empty has a least one.
LEMMA Least ==
  ASSUME NEW T \in SUBSET Nat, T # {}
  PROVE  \E x \in T : \A y \in T : x <= y
<1> DEFINE R == OpToRel(<, Nat)
<1>1. IsWellFoundedOn(R, Nat)
  BY NatLessThanWellFounded
<1>2. \A x, y \in Nat : y < x => <<y, x>> \in R
  BY DEF OpToRel
<1> HIDE DEF R
<1>3. PICK x \in T : \A y \in T : ~ (<<y, x>> \in R)
  BY <1>1, WFMin
<1>4. \A y \in T : ~ (y < x) /\ x \in Nat /\ y \in Nat
  BY <1>2, <1>3
<1>5. QED
  BY <1>3, <1>4

\* The reports after the results of the places in a set, the last one added last.
Adds(f, base, results, m) ==
  f = [s \in SUBSET (1 .. m) |->
         IF s = {} THEN base ELSE add_caseresult(f[s \ {Max(s)}], results[Max(s)])]

LEMMA MaxIs ==
  ASSUME NEW n \in Nat, NEW s \in SUBSET (1 .. n), n \in s
  PROVE  Max(s) = n
<1>1. \A x \in s : x \in Nat /\ x <= n
  OBVIOUS
<1>2. n \in s /\ \A y \in s : n >= y
  BY <1>1
<1>3. \A x \in s : (\A y \in s : x >= y) => x = n
  BY <1>1
<1>4. QED
  BY <1>2, <1>3 DEF Max

\* One more place: a function for the sets of places so far gives one for all.
LEMMA AddsNext ==
  ASSUME NEW base, NEW results, NEW m \in Nat, NEW g, Adds(g, base, results, m)
  PROVE  \E f : Adds(f, base, results, m + 1)
<1> DEFINE f == [s \in SUBSET (1 .. m + 1) |->
                   IF m + 1 \in s THEN add_caseresult(g[s \ {m + 1}], results[m + 1]) ELSE g[s]]
           Rhs(h, s) == IF s = {} THEN base ELSE add_caseresult(h[s \ {Max(s)}], results[Max(s)])
<1>1. \A s \in SUBSET (1 .. m + 1) :
         /\ m + 1 \in s => f[s] = add_caseresult(g[s \ {m + 1}], results[m + 1])
         /\ m + 1 \notin s => f[s] = g[s]
  OBVIOUS
<1>2. \A s \in SUBSET (1 .. m) : g[s] = Rhs(g, s)
  BY Zenon DEF Adds
<1>3. ASSUME NEW s \in SUBSET (1 .. m + 1)
      PROVE  f[s] = Rhs(f, s)
  <2> HIDE DEF f
  <2>1. CASE m + 1 \in s
    <3>1. Max(s) = m + 1
      <4>1. m + 1 \in Nat
        OBVIOUS
      <4>2. QED
        BY <2>1, <4>1, MaxIs
    <3>2. s \ {m + 1} \in SUBSET (1 .. m + 1) /\ m + 1 \notin s \ {m + 1}
      OBVIOUS
    <3>3. f[s \ {m + 1}] = g[s \ {m + 1}]
      BY <1>1, <3>2
    <3>4. QED
      BY <1>1, <2>1, <3>1, <3>3
  <2>2. CASE m + 1 \notin s
    <3>1. s \in SUBSET (1 .. m)
      <4>1. \A x \in s : x \in 1 .. m + 1 /\ x # m + 1
        BY <2>2
      <4>2. \A x \in s : x \in 1 .. m
        BY <4>1
      <4>3. QED
        BY <4>2
    <3>2. m + 1 \notin s \ {Max(s)} /\ s \ {Max(s)} \in SUBSET (1 .. m + 1)
      BY <2>2
    <3>3. f[s \ {Max(s)}] = g[s \ {Max(s)}]
      BY <1>1, <3>2
    <3>4. f[s] = g[s]
      BY <1>1, <2>2
    <3>5. QED
      BY <1>2, <3>1, <3>3, <3>4
  <2>3. QED
    BY <2>1, <2>2
<1>4. f = [s \in SUBSET (1 .. m + 1) |-> Rhs(f, s)]
  BY <1>3, Zenon
<1>5. Adds(f, base, results, m + 1)
  BY <1>4, Zenon DEF Adds
<1>6. QED
  BY <1>5

LEMMA AddsExists ==
  ASSUME NEW base, NEW results, NEW n \in Nat
  PROVE  \E f : Adds(f, base, results, n)
<1> DEFINE T == {m \in Nat : ~ \E f : Adds(f, base, results, m)}
<1>1. SUFFICES ASSUME T # {}
               PROVE  FALSE
  OBVIOUS
<1>2. PICK m \in T : \A y \in T : m <= y
  <2>1. T \in SUBSET Nat
    OBVIOUS
  <2> HIDE DEF T
  <2>2. QED
    BY <1>1, <2>1, Least
<1>3. CASE m = 0
  <2> DEFINE f == [s \in SUBSET (1 .. 0) |-> base]
  <2>1. \A s \in SUBSET (1 .. 0) : s = {}
    OBVIOUS
  <2>2. f = [s \in SUBSET (1 .. 0) |->
               IF s = {} THEN base ELSE add_caseresult(f[s \ {Max(s)}], results[Max(s)])]
    BY <2>1
  <2>3. Adds(f, base, results, 0)
    BY <2>2, Zenon DEF Adds
  <2>4. QED
    BY <1>3, <2>3
<1>4. CASE m # 0
  <2>1. m - 1 \in Nat /\ m - 1 \notin T /\ (m - 1) + 1 = m
    BY <1>2, <1>4
  <2>2. PICK g : Adds(g, base, results, m - 1)
    BY <2>1
  <2>3. QED
    BY <2>1, <2>2, AddsNext
<1>5. QED
  BY <1>3, <1>4

\* The report of a sequence of results, step by step.
LEMMA ReportSteps ==
  ASSUME NEW runner, NEW C, NEW results \in Seq(C)
  PROVE  \E r : /\ r[0] = EmptyReport(runner)
                /\ \A k \in 1 .. Len(results) : r[k] = add_caseresult(r[k - 1], results[k])
                /\ ReportOf(runner, results) = r[Len(results)]
<1> DEFINE n == Len(results)
           base == EmptyReport(runner)
           f == CHOOSE f : Adds(f, base, results, n)
<1>1. n \in Nat /\ DOMAIN results = 1 .. n
  OBVIOUS
<1>2. Adds(f, base, results, n)
  BY <1>1, AddsExists
<1>3. ReportOf(runner, results) = f[1 .. n]
  BY <1>1 DEF ReportOf, FoldLeft, MapThenFoldSet, Adds
<1> HIDE DEF f, base
<1> DEFINE r == [k \in 0 .. n |-> f[1 .. k]]
<1>4. \A s \in SUBSET (1 .. n) :
         f[s] = IF s = {} THEN base ELSE add_caseresult(f[s \ {Max(s)}], results[Max(s)])
  BY <1>2, Zenon DEF Adds
<1>5. r[0] = base
  <2>1. {} \in SUBSET (1 .. n) /\ 1 .. 0 = {} /\ 0 \in 0 .. n
    BY <1>1
  <2>2. f[{}] = base
    BY <1>4, <2>1
  <2>3. QED
    BY <2>1, <2>2
<1>6. ASSUME NEW k \in 1 .. n
      PROVE  r[k] = add_caseresult(r[k - 1], results[k])
  <2>1. Max(1 .. k) = k
    <3>1. k \in Nat /\ k \in 1 .. k /\ 1 .. k \in SUBSET (1 .. k)
      BY <1>1
    <3>2. QED
      BY <3>1, MaxIs
  <2>2. (1 .. k) \ {k} = 1 .. k - 1 /\ 1 .. k # {} /\ 1 .. k \in SUBSET (1 .. n)
    BY <1>1
  <2>3. f[1 .. k] = add_caseresult(f[1 .. k - 1], results[k])
    BY <1>4, <2>1, <2>2
  <2>4. k \in 0 .. n /\ k - 1 \in 0 .. n
    BY <1>1
  <2>5. QED
    BY <2>3, <2>4
<1>7. r[n] = f[1 .. n]
  BY <1>1
<1>8. QED
  BY <1>3, <1>5, <1>6, <1>7 DEF base

-----------------------------------------------------------------------------
(* The report of a suite                                                   *)

FailedOf(results, m) == {k \in 1 .. m : results[k].status = "failed"}

\* What is in a report of the first m results.
ReportUpTo(runner, results, m) ==
  [written |-> runner, tests |-> m, errors |-> 0,
   failures |-> Cardinality(FailedOf(results, m)), skipped |-> 0,
   testcases |-> [k \in 1 .. m |-> Element(results[k])]]

LEMMA FailedFinite ==
  ASSUME NEW results, NEW m \in Nat
  PROVE  IsFiniteSet(FailedOf(results, m)) /\ Cardinality(FailedOf(results, m)) \in Nat
<1>1. IsFiniteSet(1 .. m) /\ FailedOf(results, m) \in SUBSET (1 .. m)
  BY FS_Interval DEF FailedOf
<1>2. QED
  BY <1>1, FS_Subset, FS_CardinalityType

LEMMA FailedNext ==
  ASSUME NEW results, NEW m \in Nat
  PROVE  Cardinality(FailedOf(results, m + 1)) =
           Cardinality(FailedOf(results, m)) + One(results[m + 1].status = "failed")
<1>1. IsFiniteSet(FailedOf(results, m)) /\ Cardinality(FailedOf(results, m)) \in Nat
  BY FailedFinite
<1>2. CASE results[m + 1].status = "failed"
  <2>1. FailedOf(results, m + 1) = FailedOf(results, m) \cup {m + 1}
    BY <1>2 DEF FailedOf
  <2>2. m + 1 \notin FailedOf(results, m)
    BY DEF FailedOf
  <2>3. QED
    BY <1>1, <1>2, <2>1, <2>2, FS_AddElement DEF One
<1>3. CASE results[m + 1].status # "failed"
  <2>1. FailedOf(results, m + 1) = FailedOf(results, m)
    BY <1>3 DEF FailedOf
  <2>2. QED
    BY <1>1, <1>3, <2>1 DEF One
<1>4. QED
  BY <1>2, <1>3

Fields(r, w, t, x, y, z, l) ==
  r = [written |-> w, tests |-> t, errors |-> x, failures |-> y, skipped |-> z, testcases |-> l]

\* What _add_caseresult does to the fields of a report.
LEMMA AddFields ==
  ASSUME NEW w, NEW t, NEW x, NEW y, NEW z, NEW l, NEW c, NEW r, Fields(r, w, t, x, y, z, l)
  PROVE  Fields(add_caseresult(r, c), w, t + 1, x + One(c.status = "errors"),
                y + One(c.status = "failed"), z + One(c.status \in {"skipped", "untested"}),
                Append(l, Element(c)))
<1> DEFINE f == One(c.status = "failed")
           e == One(c.status = "errors")
           k == One(c.status \in {"skipped", "untested"})
           r1 == [r EXCEPT !.tests = r.tests + 1]
           r2 == [r1 EXCEPT !.failures = r.failures + f]
           r3 == [r2 EXCEPT !.errors = r.errors + e]
           r4 == [r3 EXCEPT !.skipped = r.skipped + k]
           r5 == [r4 EXCEPT !.testcases = Append(r.testcases, Element(c))]
<1>1. add_caseresult(r, c) = r5
  BY DEF add_caseresult
<1> HIDE DEF f, e, k
<1>2. r1 = [written |-> w, tests |-> t + 1, errors |-> x, failures |-> y, skipped |-> z,
            testcases |-> l]
  BY DEF Fields
<1> HIDE DEF r1
<1>3. r2 = [written |-> w, tests |-> t + 1, errors |-> x, failures |-> y + f, skipped |-> z,
            testcases |-> l]
  BY <1>2 DEF Fields
<1> HIDE DEF r2
<1>4. r3 = [written |-> w, tests |-> t + 1, errors |-> x + e, failures |-> y + f, skipped |-> z,
            testcases |-> l]
  BY <1>3 DEF Fields
<1> HIDE DEF r3
<1>5. r4 = [written |-> w, tests |-> t + 1, errors |-> x + e, failures |-> y + f,
            skipped |-> z + k, testcases |-> l]
  BY <1>4 DEF Fields
<1> HIDE DEF r4
<1>6. r5 = [written |-> w, tests |-> t + 1, errors |-> x + e, failures |-> y + f,
            skipped |-> z + k, testcases |-> Append(l, Element(c))]
  BY <1>5 DEF Fields
<1> HIDE DEF r5
<1>7. QED
  BY <1>1, <1>6 DEF Fields, f, e, k

\* _add_caseresult counts and appends one more result.
LEMMA AddOne ==
  ASSUME NEW runner, NEW results, NEW m \in Nat, results[m + 1] \in Results
  PROVE  add_caseresult(ReportUpTo(runner, results, m), results[m + 1]) =
           ReportUpTo(runner, results, m + 1)
<1> DEFINE c == results[m + 1]
           rep == ReportUpTo(runner, results, m)
           D == {Element(results[k]) : k \in 1 .. m + 1}
           q == [k \in 1 .. m |-> Element(results[k])]
           q1 == [k \in 1 .. m + 1 |-> Element(results[k])]
<1>1. Append(q, Element(c)) = q1
  <2>1. q \in [1 .. m -> D] /\ Element(c) \in D /\ q1 \in [1 .. m + 1 -> D]
    OBVIOUS
  <2>2. \A k \in 1 .. m : q[k] = q1[k]
    OBVIOUS
  <2>3. q1[m + 1] = Element(c)
    OBVIOUS
  <2> HIDE DEF q, q1, D, c
  <2>4. q \in Seq(D) /\ Len(q) = m /\ q1 \in Seq(D) /\ Len(q1) = m + 1
    BY <2>1, SeqDef, LenProperties
  <2>5. /\ Append(q, Element(c)) \in Seq(D) /\ Len(Append(q, Element(c))) = m + 1
        /\ \A k \in 1 .. m : Append(q, Element(c))[k] = q[k]
        /\ Append(q, Element(c))[m + 1] = Element(c)
    BY <2>1, <2>4, AppendProperties
  <2>6. \A k \in 1 .. m + 1 : Append(q, Element(c))[k] = q1[k]
    BY <2>2, <2>3, <2>5
  <2>7. QED
    BY <2>4, <2>5, <2>6, SeqEqual
<1>2. c.status # "errors" /\ c.status \notin {"skipped", "untested"}
  BY DEF Results
<1> DEFINE a == Cardinality(FailedOf(results, m))
<1>3. a \in Nat /\ Cardinality(FailedOf(results, m + 1)) = a + One(c.status = "failed")
  BY FailedFinite, FailedNext
<1> HIDE DEF q, q1, a, c
<1>4. rep =
        [written |-> runner, tests |-> m, errors |-> 0, failures |-> a, skipped |-> 0,
         testcases |-> q]
  BY DEF ReportUpTo, a, q
<1>5. One(c.status = "errors") = 0 /\ One(c.status \in {"skipped", "untested"}) = 0
  BY <1>2 DEF One
<1>6. add_caseresult(ReportUpTo(runner, results, m), c) =
        [written |-> runner, tests |-> m + 1, errors |-> 0,
         failures |-> a + One(c.status = "failed"), skipped |-> 0,
         testcases |-> Append(q, Element(c))]
  <2>1. Fields(rep, runner, m, 0, a, 0, q)
    BY <1>4 DEF Fields
  <2> HIDE DEF rep
  <2>2. Fields(add_caseresult(rep, c), runner, m + 1, 0 + One(c.status = "errors"),
               a + One(c.status = "failed"), 0 + One(c.status \in {"skipped", "untested"}),
               Append(q, Element(c)))
    BY <2>1, AddFields
  <2>3. 0 + One(c.status = "errors") = 0 /\ 0 + One(c.status \in {"skipped", "untested"}) = 0
    BY <1>5
  <2>4. QED
    BY <2>2, <2>3 DEF Fields, rep
<1>7. ReportUpTo(runner, results, m + 1) =
        [written |-> runner, tests |-> m + 1, errors |-> 0,
         failures |-> a + One(c.status = "failed"), skipped |-> 0, testcases |-> q1]
  BY <1>3 DEF ReportUpTo, q1
<1>8. QED
  BY <1>1, <1>6, <1>7 DEF c

\* The report has one element per result, in order, and counts the failed ones.
LEMMA ReportIs ==
  ASSUME NEW runner, NEW results \in Seq(Results)
  PROVE  ReportOf(runner, results) = ReportUpTo(runner, results, Len(results))
<1> DEFINE n == Len(results)
<1>1. n \in Nat /\ \A k \in 1 .. n : results[k] \in Results
  OBVIOUS
<1>2. PICK r : /\ r[0] = EmptyReport(runner)
               /\ \A k \in 1 .. n : r[k] = add_caseresult(r[k - 1], results[k])
               /\ ReportOf(runner, results) = r[n]
  BY ReportSteps
<1> HIDE DEF n
<1> DEFINE T == {k \in 0 .. n : r[k] # ReportUpTo(runner, results, k)}
<1>3. SUFFICES ASSUME T # {}
               PROVE  FALSE
  BY <1>1, <1>2 DEF n
<1>4. PICK k \in T : \A y \in T : k <= y
  <2>1. T \in SUBSET Nat
    BY <1>1
  <2> HIDE DEF T
  <2>2. QED
    BY <1>3, <2>1, Least
<1>5. CASE k = 0
  <2>1. FailedOf(results, 0) = {}
    BY DEF FailedOf
  <2>e. [x \in 1 .. 0 |-> Element(results[x])] = <<>>
    <3> DEFINE D == {Element(results[x]) : x \in 1 .. 0}
               q == [x \in 1 .. 0 |-> Element(results[x])]
    <3>1. q \in [1 .. 0 -> D]
      OBVIOUS
    <3> HIDE DEF q, D
    <3>2. q \in Seq(D) /\ Len(q) = 0
      BY <3>1, SeqDef, LenProperties
    <3>3. QED
      BY <3>2, EmptySeq DEF q
  <2>2. Cardinality(FailedOf(results, 0)) = 0
    BY <2>1, FS_EmptySet
  <2>3. ReportUpTo(runner, results, 0) = EmptyReport(runner)
    BY <2>e, <2>2 DEF ReportUpTo, EmptyReport
  <2>4. QED
    BY <1>2, <1>4, <1>5, <2>3
<1>6. CASE k # 0
  <2>1. k \in 1 .. n /\ k - 1 \in 0 .. n /\ k - 1 \in Nat /\ (k - 1) + 1 = k /\ k - 1 \notin T
    BY <1>1, <1>4, <1>6
  <2>2. r[k - 1] = ReportUpTo(runner, results, k - 1)
    BY <2>1
  <2>3. r[k] = add_caseresult(ReportUpTo(runner, results, k - 1), results[k])
    BY <1>2, <2>1, <2>2
  <2>4. add_caseresult(ReportUpTo(runner, results, k - 1), results[k])
          = ReportUpTo(runner, results, k)
    <3> DEFINE m == k - 1
    <3>1. m \in Nat /\ m + 1 = k /\ results[m + 1] \in Results
      BY <1>1, <2>1
    <3> HIDE DEF m
    <3>2. add_caseresult(ReportUpTo(runner, results, m), results[m + 1])
            = ReportUpTo(runner, results, m + 1)
      BY <3>1, AddOne
    <3>3. QED
      BY <3>1, <3>2 DEF m
  <2>5. QED
    BY <1>4, <2>3, <2>4
<1>7. QED
  BY <1>5, <1>6

-----------------------------------------------------------------------------
(* What conf.yml means                                                     *)

ConfOK == /\ conf \in Confs /\ entry \in 1 .. Len(conf) + 1
          /\ transwarp_suites \in Seq(Suites) /\ jdbc_suites \in Seq(Suites)
          /\ workdir \in Roots

LEMMA ConfEntryOK ==
  ASSUME conf \in Confs
  PROVE  /\ conf \in Seq(ConfEntries) /\ Len(conf) \in Nat
         /\ \A k \in 1 .. Len(conf) : conf[k] \in ConfEntries
         /\ DOMAIN conf = 1 .. Len(conf)
<1>1. conf \in Seq(ConfEntries)
  BY RunnerAssumption
<1>2. QED
  BY <1>1

\* ValueSoFar once one more entry was read.
ReadSoFar(key, value, default) ==
  \/ value = default /\ \A k \in Having(key) : k >= entry + 1
  \/ \E k \in Having(key) : /\ k < entry + 1 /\ value = conf[k][key]
                            /\ \A j \in Having(key) : j < entry + 1 => j <= k

\* An entry that is passed over, or does not have the key, changes nothing.
LEMMA ValueStep ==
  ASSUME ConfOK, ParseEntry,
         NEW key \in {"transwarp_suites", "jdbc_suites", "rootdir"},
         NEW value, NEW new, NEW default, ValueSoFar(key, value, default),
         new = IF Counts(conf[entry]) THEN Given(conf[entry][key], value) ELSE value
  PROVE  ReadSoFar(key, new, default)
<1>1. /\ entry \in Nat /\ Len(conf) \in Nat /\ entry \in 1 .. Len(conf)
      /\ DOMAIN conf = 1 .. Len(conf)
  BY ConfEntryOK DEF ConfOK, ParseEntry
<1>2. \A k \in Having(key) : k \in Nat
  BY <1>1 DEF Having
<1>3. CASE entry \in Having(key)
  <2>1. new = conf[entry][key]
    BY <1>3 DEF Having, Counts, Given
  <2>2. QED
    BY <1>1, <1>2, <1>3, <2>1 DEF ReadSoFar
<1>4. CASE entry \notin Having(key)
  <2>1. new = value
    BY <1>1, <1>4 DEF Having, Counts, Given
  <2>2. \A k \in Having(key) : (k >= entry => k >= entry + 1) /\ (k < entry + 1 => k < entry)
    BY <1>1, <1>2, <1>4
  <2>3. CASE value = default /\ \A k \in Having(key) : k >= entry
    BY <2>1, <2>2, <2>3 DEF ReadSoFar
  <2>4. CASE \E k \in Having(key) : /\ k < entry /\ value = conf[k][key]
                                    /\ \A j \in Having(key) : j < entry => j <= k
    <3>1. PICK k \in Having(key) : /\ k < entry /\ value = conf[k][key]
                                   /\ \A j \in Having(key) : j < entry => j <= k
      BY <2>4
    <3>2. k < entry + 1
      BY <1>1, <1>2, <3>1
    <3>3. QED
      BY <2>1, <2>2, <3>1, <3>2 DEF ReadSoFar
  <2>5. QED
    BY <2>3, <2>4 DEF ValueSoFar
<1>5. QED
  BY <1>3, <1>4

\* When all entries were read the value is that of the last one that has the key.
LEMMA LastValue ==
  ASSUME ConfOK, entry = Len(conf) + 1,
         NEW key, NEW value, NEW default, ValueSoFar(key, value, default)
  PROVE  value = LastOf(key, default)
<1>1. \A k \in Having(key) : k \in Nat /\ k < entry
  BY ConfEntryOK DEF ConfOK, Having
<1>2. CASE Having(key) = {}
  BY <1>2 DEF ValueSoFar, LastOf
<1>3. CASE Having(key) # {}
  <2>1. PICK k \in Having(key) : value = conf[k][key] /\ \A j \in Having(key) : j <= k
    <3>1. entry \in Nat
      BY ConfEntryOK DEF ConfOK
    <3>2. ~ (\A k \in Having(key) : k >= entry)
      BY <1>1, <1>3, <3>1
    <3>3. QED
      BY <1>1, <3>2 DEF ValueSoFar
  <2>2. \A x \in Having(key) : (\A j \in Having(key) : j <= x) => x = k
    BY <1>1, <2>1
  <2>3. (CHOOSE x \in Having(key) : \A j \in Having(key) : j <= x) = k
    BY <2>1, <2>2
  <2>4. LastOf(key, default) = conf[CHOOSE x \in Having(key) : \A j \in Having(key) : j <= x][key]
    BY <1>3, Zenon DEF LastOf
  <2>5. QED
    BY <2>1, <2>3, <2>4, Zenon
<1>4. QED
  BY <1>2, <1>3

-----------------------------------------------------------------------------
(* The parts of the inductive invariant, one after the other               *)

TaskSet == [runner : {"transwarp", "jdbc"}, suite : Suites]

\* The tasks of transwarp come before those of jdbc.
LEMMA AllTasksOK ==
  ASSUME ConfOK
  PROVE  LET a == Len(transwarp_suites)
             b == Len(jdbc_suites)
         IN /\ a \in Nat /\ b \in Nat /\ AllTasks \in Seq(TaskSet) /\ Len(AllTasks) = a + b
            /\ \A k \in 1 .. a :
                 AllTasks[k] = [runner |-> "transwarp", suite |-> transwarp_suites[k]]
            /\ \A k \in 1 .. b :
                 AllTasks[a + k] = [runner |-> "jdbc", suite |-> jdbc_suites[k]]
<1> DEFINE a == Len(transwarp_suites)
           b == Len(jdbc_suites)
           x == Tasks("transwarp", transwarp_suites)
           y == Tasks("jdbc", jdbc_suites)
<1>1. /\ a \in Nat /\ b \in Nat /\ DOMAIN transwarp_suites = 1 .. a /\ DOMAIN jdbc_suites = 1 .. b
      /\ \A k \in 1 .. a : transwarp_suites[k] \in Suites
      /\ \A k \in 1 .. b : jdbc_suites[k] \in Suites
  BY DEF ConfOK
<1>2. /\ x \in [1 .. a -> TaskSet] /\ y \in [1 .. b -> TaskSet]
      /\ \A k \in 1 .. a : x[k] = [runner |-> "transwarp", suite |-> transwarp_suites[k]]
      /\ \A k \in 1 .. b : y[k] = [runner |-> "jdbc", suite |-> jdbc_suites[k]]
  BY <1>1 DEF Tasks, TaskSet
<1> HIDE DEF a, b, x, y
<1>3. x \in Seq(TaskSet) /\ Len(x) = a /\ y \in Seq(TaskSet) /\ Len(y) = b
  BY <1>1, <1>2, SeqDef, LenProperties
<1>4. x \o y \in Seq(TaskSet) /\ Len(x \o y) = a + b
  BY <1>3, ConcatProperties
<1>5. \A k \in 1 .. a : (x \o y)[k] = x[k]
  BY <1>1, <1>3, ConcatProperties
<1>6. \A k \in 1 .. b : (x \o y)[a + k] = y[k]
  <2>1. ASSUME NEW k \in 1 .. b
        PROVE  (x \o y)[a + k] = y[k]
    <3>1. a + k \in 1 .. a + b /\ ~ (a + k <= a) /\ (a + k) - a = k
      BY <1>1
    <3>2. QED
      BY <1>3, <3>1, ConcatProperties
  <2>2. QED
    BY <2>1
<1>7. AllTasks = x \o y
  BY DEF AllTasks, x, y
<1>8. QED
  BY <1>1, <1>2, <1>4, <1>5, <1>6, <1>7 DEF a, b

LEMMA TypeStep ==
  ASSUME TypeOK, TodoInv, CasesInv, Next
  PROVE  TypeOK'
<1> USE DEF confVars, suiteVars
<1>1. CASE ParseEntry
  <2>1. /\ entry \in 1 .. Len(conf) /\ Len(conf) \in Nat /\ conf[entry] \in ConfEntries
        /\ conf' = conf /\ entry' = entry + 1
    BY <1>1, ConfEntryOK DEF TypeOK, ParseEntry
  <2>2. /\ transwarp_suites' \in Seq(Suites) /\ jdbc_suites' \in Seq(Suites)
        /\ workdir' \in Roots
    <3> DEFINE S == Seq(Suites)
    <3>1. /\ conf[entry].transwarp_suites \in S \cup {Absent}
          /\ conf[entry].jdbc_suites \in S \cup {Absent}
          /\ conf[entry].rootdir \in Roots \cup {Absent}
      BY <2>1 DEF ConfEntries, Lists
    <3>2. transwarp_suites \in S /\ jdbc_suites \in S /\ workdir \in Roots
      BY DEF TypeOK
    <3> HIDE DEF S
    <3>3. transwarp_suites' \in S /\ jdbc_suites' \in S /\ workdir' \in Roots
      BY <1>1, <3>1, <3>2 DEF ParseEntry, Given
    <3>4. QED
      BY <3>3 DEF S
  <2>3. QED
    BY <1>1, <2>1, <2>2 DEF ParseEntry, TypeOK
<1>2. CASE StartTests
  BY <1>2 DEF StartTests, TypeOK
<1>3. CASE StartSuite
  <2>1. todo[1] \in TaskSet
    <3>1. todo \in Seq(TaskSet) /\ todo # <<>>
      BY <1>3 DEF StartSuite, TodoInv, TaskSet
    <3> HIDE DEF TaskSet
    <3>2. QED
      BY <3>1
  <2>2. SqlFiles[<<workdir, todo[1].suite>>] \subseteq Files
    <3>1. todo[1].suite \in Suites /\ workdir \in Roots
      BY <2>1 DEF TaskSet, TypeOK
    <3>2. SqlFiles[<<workdir, todo[1].suite>>] \in SUBSET Files
      BY <3>1, RunnerAssumption
    <3>3. QED
      BY <3>2
  <2>3. pending' \subseteq Files /\ cases' = <<>> /\ log' = <<>> /\ phase' = "files"
    BY <1>3, <2>2 DEF StartSuite
  <2>4. <<>> \in Seq(Runs)
    OBVIOUS
  <2>5. QED
    BY <1>3, <2>3, <2>4 DEF StartSuite, TypeOK
<1>4. CASE AllDone
  BY <1>4 DEF AllDone, TypeOK
<1>5. CASE WriteReport
  BY <1>5 DEF WriteReport, TypeOK
<1>6. ASSUME NEW f \in pending, NEW o \in Outcomes, RunFile(f, o)
      PROVE  TypeOK'
  <2>1. Len(cases') = Len(cases) + 1
    <3>1. cases \in Seq(Results)
      BY DEF CasesInv, Results
    <3>2. cases' = Append(cases, Case(f, o))
      BY <1>6 DEF RunFile
    <3> DEFINE C == Results \cup {Case(f, o)}
    <3>3. Case(f, o) \in C /\ cases \in Seq(C)
      BY <3>1
    <3> HIDE DEF C
    <3>4. QED
      BY <3>2, <3>3, AppendProperties
  <2>2. log' \in Seq(Runs) /\ Len(log') = Len(log) + 1
    <3>1. [file |-> f, outcome |-> o] \in Runs
      BY DEF Runs, TypeOK
    <3>2. log \in Seq(Runs) /\ log' = Append(log, [file |-> f, outcome |-> o])
      BY <1>6 DEF RunFile, TypeOK
    <3>3. QED
      BY <3>1, <3>2, AppendProperties
  <2>3. QED
    BY <1>6, <2>1, <2>2 DEF RunFile, TypeOK
<1>7. ASSUME NEW f \in pending, NEW o \in Outcomes, RunEnds(f, o)
      PROVE  TypeOK'
  BY <1>7 DEF RunEnds, TypeOK
<1>8. ASSUME NEW fault \in ReportFaults, WriteReportFails(fault)
      PROVE  TypeOK'
  BY <1>8 DEF WriteReportFails, TypeOK
<1>9. QED
  BY <1>1, <1>2, <1>3, <1>4, <1>5, <1>6, <1>7, <1>8 DEF Next

\* Only the reading of an entry changes what the configuration says.
LEMMA Frame ==
  ASSUME Next, ~ ParseEntry
  PROVE  UNCHANGED confVars /\ phase' # "conf"
<1>1. QED
  BY DEF Next, StartTests, StartSuite, AllDone, WriteReport, WriteReportFails, RunFile, RunEnds,
       confVars

LEMMA ConfStep ==
  ASSUME TypeOK, ConfSoFar, Next
  PROVE  ConfSoFar'
<1>1. ConfOK
  BY DEF TypeOK, ConfOK
<1>2. CASE ParseEntry
  <2>1. entry' = entry + 1 /\ conf' = conf /\ phase' = "conf"
    BY <1>2 DEF ParseEntry
  <2>2. \A key : Having(key)' = Having(key)
    BY <2>1 DEF Having
  <2>3. /\ transwarp_suites' = IF Counts(conf[entry])
                               THEN Given(conf[entry]["transwarp_suites"], transwarp_suites)
                               ELSE transwarp_suites
        /\ jdbc_suites' = IF Counts(conf[entry])
                          THEN Given(conf[entry]["jdbc_suites"], jdbc_suites)
                          ELSE jdbc_suites
        /\ workdir' = IF Counts(conf[entry]) THEN Given(conf[entry]["rootdir"], workdir)
                      ELSE workdir
    BY <1>2 DEF ParseEntry
  <2>4. ValueSoFar("transwarp_suites", transwarp_suites, <<>>)'
    <3>1. ValueSoFar("transwarp_suites", transwarp_suites, <<>>)
      BY DEF ConfSoFar
    <3>2. ReadSoFar("transwarp_suites", transwarp_suites', <<>>)
      BY <1>1, <1>2, <2>3, <3>1, ValueStep, Zenon
    <3>3. QED
      BY <2>1, <2>2, <3>2 DEF ValueSoFar, ReadSoFar
  <2>5. ValueSoFar("jdbc_suites", jdbc_suites, <<>>)'
    <3>1. ValueSoFar("jdbc_suites", jdbc_suites, <<>>)
      BY DEF ConfSoFar
    <3>2. ReadSoFar("jdbc_suites", jdbc_suites', <<>>)
      BY <1>1, <1>2, <2>3, <3>1, ValueStep, Zenon
    <3>3. QED
      BY <2>1, <2>2, <3>2 DEF ValueSoFar, ReadSoFar
  <2>6. ValueSoFar("rootdir", workdir, Cwd)'
    <3>1. ValueSoFar("rootdir", workdir, Cwd)
      BY DEF ConfSoFar
    <3>2. ReadSoFar("rootdir", workdir', Cwd)
      BY <1>1, <1>2, <2>3, <3>1, ValueStep, Zenon
    <3>3. QED
      BY <2>1, <2>2, <3>2 DEF ValueSoFar, ReadSoFar
  <2>7. QED
    BY <2>1, <2>4, <2>5, <2>6 DEF ConfSoFar
<1>3. CASE ~ ParseEntry
  <2>1. UNCHANGED <<conf, entry, transwarp_suites, jdbc_suites, workdir>>
    BY <1>3, Frame DEF confVars
  <2>2. entry = Len(conf) + 1
    <3>1. entry \in 1 .. Len(conf) + 1 /\ Len(conf) \in Nat
      BY <1>1, ConfEntryOK DEF ConfOK
    <3>2. phase = "conf" => entry > Len(conf)
      BY <1>3 DEF Next, StartTests, StartSuite, AllDone, WriteReport, WriteReportFails, RunFile,
                  RunEnds
    <3>3. QED
      BY <3>1, <3>2 DEF ConfSoFar
  <2>3. QED
    BY <2>1, <2>2 DEF ConfSoFar, ValueSoFar, Having
<1>4. QED
  BY <1>2, <1>3

LEMMA TasksKept ==
  ASSUME Next, ~ ParseEntry
  PROVE  AllTasks' = AllTasks
BY Frame DEF confVars, AllTasks, Tasks

LEMMA TodoStep ==
  ASSUME ConfOK, TodoInv, Next
  PROVE  TodoInv'
<1>1. todo \in Seq(TaskSet) /\ AllTasks \in Seq(TaskSet)
  BY AllTasksOK DEF TodoInv, TaskSet
<1>2. Len(todo) \in Nat /\ Len(AllTasks) \in Nat
  BY <1>1
<1>3. CASE ParseEntry
  BY <1>3 DEF ParseEntry, TodoInv
<1>4. CASE StartTests
  <2>1. AllTasks' = AllTasks /\ todo' = AllTasks /\ phase' = "next"
    BY <1>4 DEF StartTests, confVars, AllTasks, Tasks
  <2>2. DoneTasks' = 0
    BY <1>2, <2>1 DEF DoneTasks
  <2>3. \A k \in 1 .. Len(todo') : todo'[k] = AllTasks'[DoneTasks' + k]
    BY <1>2, <2>1, <2>2
  <2>4. QED
    BY <1>1, <1>2, <2>1, <2>3 DEF TodoInv, TaskSet
<1>5. ASSUME ~ ParseEntry, UNCHANGED todo, phase # "conf",
             phase' = "files" => phase = "files" \/ todo # <<>>,
             phase' = "done" => todo = <<>>
      PROVE  TodoInv'
  <2>1. AllTasks' = AllTasks
    BY <1>5, TasksKept
  <2>2. DoneTasks' = DoneTasks
    BY <1>5, <2>1 DEF DoneTasks
  <2>3. QED
    BY <1>5, <2>1, <2>2 DEF TodoInv
<1>6. CASE StartSuite
  <2>1. ~ ParseEntry
    BY <1>6 DEF StartSuite, ParseEntry
  <2>2. QED
    BY <1>5, <1>6, <2>1 DEF StartSuite
<1>7. CASE AllDone
  <2>1. ~ ParseEntry
    BY <1>7 DEF AllDone, ParseEntry
  <2>2. QED
    BY <1>5, <1>7, <2>1 DEF AllDone
<1>8. CASE WriteReport
  <2>1. ~ ParseEntry /\ todo' = Tail(todo) /\ phase' = "next" /\ todo # <<>> /\ phase = "files"
    BY <1>8 DEF WriteReport, ParseEntry, TodoInv
  <2>2. AllTasks' = AllTasks
    BY <2>1, TasksKept
  <2>3. todo' \in Seq(TaskSet) /\ Len(todo') = Len(todo) - 1 /\ Len(todo) \in Nat \ {0}
    BY <1>1, <2>1, HeadTailProperties, EmptySeq
  <2>4. \A k \in 1 .. Len(todo') : todo'[k] = todo[k + 1]
    BY <1>1, <2>1, <2>3, HeadTailProperties
  <2>5. DoneTasks' = DoneTasks + 1 /\ DoneTasks \in Nat /\ Len(todo') <= Len(AllTasks')
    BY <1>2, <2>1, <2>2, <2>3 DEF DoneTasks, TodoInv
  <2>6. ASSUME NEW k \in 1 .. Len(todo')
        PROVE  todo'[k] = AllTasks'[DoneTasks' + k]
    <3>1. k + 1 \in 1 .. Len(todo) /\ DoneTasks + (k + 1) = DoneTasks' + k
      BY <2>3, <2>5
    <3>2. todo[k + 1] = AllTasks[DoneTasks + (k + 1)]
      BY <2>1, <3>1 DEF TodoInv
    <3>3. QED
      BY <2>2, <2>4, <3>1, <3>2
  <2>7. QED
    BY <2>1, <2>3, <2>5, <2>6 DEF TodoInv, TaskSet
<1>9. ASSUME NEW f \in pending, NEW o \in Outcomes, RunFile(f, o) \/ RunEnds(f, o)
      PROVE  TodoInv'
  <2>1. /\ ~ ParseEntry /\ UNCHANGED todo /\ phase = "files"
        /\ phase' \in {"files", "hung", "aborted"}
    BY <1>9 DEF RunFile, RunEnds, ParseEntry
  <2>2. QED
    BY <1>5, <2>1
<1>10. ASSUME NEW fault \in ReportFaults, WriteReportFails(fault)
       PROVE  TodoInv'
  <2>1. ~ ParseEntry /\ UNCHANGED todo /\ phase = "files" /\ phase' = "aborted"
    BY <1>10 DEF WriteReportFails, ParseEntry
  <2>2. QED
    BY <1>5, <2>1
<1>11. QED
  BY <1>3, <1>4, <1>6, <1>7, <1>8, <1>9, <1>10 DEF Next

LEMMA CasesStep ==
  ASSUME TypeOK, TodoInv, CasesInv, Next
  PROVE  CasesInv'
<1>1. cases \in Seq(Results)
  BY DEF CasesInv, Results
<1>2. Len(cases) \in Nat /\ DOMAIN cases = 1 .. Len(cases) /\ Len(log) = Len(cases)
  BY <1>1 DEF TypeOK
<1>3. ASSUME UNCHANGED <<cases, log>>, phase' # "files"
      PROVE  CasesInv'
  BY <1>3 DEF CasesInv
<1>4. CASE ParseEntry \/ StartTests \/ AllDone \/ WriteReport
  BY <1>3, <1>4 DEF ParseEntry, StartTests, AllDone, WriteReport, suiteVars
<1>e. ASSUME NEW fault \in ReportFaults, WriteReportFails(fault)
      PROVE  CasesInv'
  BY <1>3, <1>e DEF WriteReportFails, suiteVars
<1>5. CASE StartSuite
  <2>1. /\ UNCHANGED <<workdir, todo>> /\ cases' = <<>> /\ log' = <<>>
        /\ pending' = SqlFiles[<<workdir, todo[1].suite>>]
    BY <1>5 DEF StartSuite, confVars
  <2>2. /\ <<>> \in Seq(Results)
        /\ Len(<<>>) = 0 /\ FilesOf(<<>>) = {}
    BY DEF FilesOf
  <2>3. FilesOf(log') = {}
    BY <2>1, <2>2
  <2>4. FilesOf(log)' = FilesOf(log')
    BY DEF FilesOf
  <2>5. QED
    BY <2>1, <2>2, <2>3, <2>4 DEF CasesInv
<1>6. ASSUME NEW f \in pending, NEW o \in Outcomes, RunFile(f, o)
      PROVE  CasesInv'
  <2> DEFINE c == Case(f, o)
             n == Len(cases)
             x == [file |-> f, outcome |-> o]
  <2>1. /\ UNCHANGED <<workdir, todo, phase>> /\ phase = "files" /\ pending' = pending \ {f}
        /\ cases' = Append(cases, c) /\ log' = Append(log, x)
    BY <1>6 DEF RunFile, confVars
  <2>2. c \in Results /\ f \in Files
    <3> DEFINE m == CASE o = "same" -> ""
                      [] o = "differs" -> "context diff"
                      [] o = "noanswer" -> "Origin filename not exist"
                      [] OTHER -> "None"
    <3>1. m \in {"", "context diff", "Origin filename not exist", "None"}
      <4>1. CASE o = "same"
        BY <4>1
      <4>2. CASE o = "differs"
        BY <4>2
      <4>3. CASE o = "noanswer"
        BY <4>3
      <4>4. CASE o \notin {"same", "differs", "noanswer"}
        <5>1. m = "None"
          BY <4>4
        <5>2. QED
          BY <5>1
      <4>5. QED
        BY <4>1, <4>2, <4>3, <4>4
    <3>2. c = [name |-> CaseName[f], status |-> Status(o), failmsg |-> m]
      BY DEF Case
    <3>3. Status(o) \in {"success", "failed"}
      BY DEF Status
    <3>4. f \in Files /\ CaseName[f] \in Names
      BY RunnerAssumption DEF TypeOK
    <3> HIDE DEF m, c
    <3>5. QED
      BY <3>1, <3>2, <3>3, <3>4 DEF Results
  <2>3. /\ cases' \in Seq(Results) /\ Len(cases') = n + 1 /\ cases'[n + 1] = c
        /\ \A k \in 1 .. n : cases'[k] = cases[k]
        /\ DOMAIN log' = 1 .. n + 1 /\ Len(log') = n + 1 /\ log'[n + 1] = x
        /\ \A k \in 1 .. n : log'[k] = log[k]
    <3>1. log \in Seq(Runs) /\ Len(log) = n /\ x \in Runs
      BY <1>2, <2>2 DEF TypeOK, Runs
    <3> HIDE DEF c, n, x
    <3>2. n = Len(cases) /\ n \in Nat
      BY <1>2 DEF n
    <3>3. /\ cases' \in Seq(Results) /\ Len(cases') = n + 1 /\ cases'[n + 1] = c
          /\ \A k \in 1 .. n : cases'[k] = cases[k]
      BY <1>1, <2>1, <2>2, <3>2, AppendProperties
    <3>4. /\ log' \in Seq(Runs) /\ Len(log') = n + 1 /\ log'[n + 1] = x
          /\ \A k \in 1 .. n : log'[k] = log[k]
      BY <2>1, <3>1, <3>2, AppendProperties
    <3>5. DOMAIN log' = 1 .. n + 1
      BY <3>4
    <3>6. QED
      BY <3>3, <3>4, <3>5
  <2>4. FilesOf(log)' = FilesOf(log) \cup {f}
    <3>1. x.file = f
      OBVIOUS
    <3>2. n \in Nat /\ DOMAIN log = 1 .. n
      BY <1>2 DEF TypeOK
    <3> HIDE DEF c, n, x
    <3>3. FilesOf(log)' = {log'[k].file : k \in 1 .. n + 1}
      BY <2>3 DEF FilesOf
    <3>4. FilesOf(log) = {log[k].file : k \in 1 .. n}
      BY <3>2 DEF FilesOf
    <3>5. \A y : y \in FilesOf(log)' <=> y \in FilesOf(log) \/ y = f
      BY <2>3, <3>1, <3>2, <3>3, <3>4
    <3>6. QED
      BY <3>5
  <2>5. f \notin FilesOf(log)
    BY <2>1 DEF CasesInv
  <2>6. \A k \in 1 .. n : log[k].file # f
    <3>1. DOMAIN log = 1 .. n
      BY <1>2 DEF TypeOK
    <3>2. QED
      BY <2>5, <3>1 DEF FilesOf
  <2>7. \A j, k \in 1 .. Len(log') : log'[j].file = log'[k].file => j = k
    <3>1. \A j, k \in 1 .. n : log[j].file = log[k].file => j = k
      BY <1>2, <2>1 DEF CasesInv
    <3>2. n \in Nat /\ x.file = f
      BY <1>2
    <3> HIDE DEF c, n, x
    <3>3. \A k \in 1 .. n + 1 : k \in 1 .. n \/ k = n + 1
      BY <3>2
    <3>4. /\ \A k \in 1 .. n : log'[k].file = log[k].file /\ log[k].file # f
          /\ log'[n + 1].file = f
      BY <2>3, <2>6, <3>2
    <3>5. ASSUME NEW j \in 1 .. n + 1, NEW k \in 1 .. n + 1, log'[j].file = log'[k].file
          PROVE  j = k
      <4>1. CASE j \in 1 .. n /\ k \in 1 .. n
        BY <3>1, <3>4, <3>5, <4>1
      <4>2. CASE j = n + 1 /\ k \in 1 .. n
        BY <3>4, <3>5, <4>2
      <4>3. CASE j \in 1 .. n /\ k = n + 1
        BY <3>4, <3>5, <4>3
      <4>4. QED
        BY <3>3, <4>1, <4>2, <4>3
    <3>6. Len(log') = n + 1
      BY <2>3
    <3>7. QED
      BY ONLY <3>5, <3>6
  <2>8. /\ SqlFiles[<<workdir', todo'[1].suite>>] = pending' \cup FilesOf(log)'
        /\ pending' \cap FilesOf(log)' = {}
    <3> HIDE DEF c, x
    <3>1. /\ SqlFiles[<<workdir, todo[1].suite>>] = pending \cup FilesOf(log)
          /\ pending \cap FilesOf(log) = {}
      BY <2>1 DEF CasesInv
    <3>2. QED
      BY ONLY <2>1, <2>4, <2>5, <3>1, f \in pending
  <2>9. ASSUME NEW k \in 1 .. n + 1
        PROVE  cases'[k] = Case(log'[k].file, log'[k].outcome)
    <3>1. CASE k = n + 1
      BY <2>3, <3>1
    <3>2. CASE k # n + 1
      <4>1. k \in 1 .. n
        BY <1>2, <3>2
      <4>2. QED
        BY <2>3, <4>1 DEF CasesInv
    <3>3. QED
      BY <3>1, <3>2
  <2>10. QED
    <3> HIDE DEF c, n, x
    <3>1. FilesOf(log)' = FilesOf(log')
      BY DEF FilesOf
    <3>2. QED
      BY <2>3, <2>7, <2>8, <2>9, <3>1 DEF CasesInv
<1>7. ASSUME NEW f \in pending, NEW o \in Outcomes, RunEnds(f, o)
      PROVE  CasesInv'
  BY <1>3, <1>7 DEF RunEnds, suiteVars
<1>8. QED
  BY <1>4, <1>e, <1>5, <1>6, <1>7 DEF Next

-----------------------------------------------------------------------------
(* The report that is written                                              *)

Tells(r, l) ==
  LET elements == {k \in DOMAIN r.testcases : r.testcases[k].failure # "no element"}
  IN /\ r.tests = Len(l) /\ r.tests = Len(r.testcases)
     /\ r.failures = Cardinality(elements)
     /\ r.errors = 0 /\ r.skipped = 0
     /\ \A k \in DOMAIN r.testcases :
          /\ r.testcases[k].name = CaseName[l[k].file]
          /\ l[k].outcome \in {"nonzero", "oserror"} => k \in elements
          /\ l[k].outcome = "same" => k \notin elements

\* A case and its element have the file's name and tell whether the command failed.
LEMMA CaseIs ==
  ASSUME NEW c, NEW f, NEW o, c = Case(f, o)
  PROVE  /\ c.status = Status(o)
         /\ Element(c).name = CaseName[f]
         /\ Element(c).failure = IF o \in {"nonzero", "oserror"} THEN "None" ELSE "no element"
<1> DEFINE m == CASE o = "same" -> ""
                  [] o = "differs" -> "context diff"
                  [] o = "noanswer" -> "Origin filename not exist"
                  [] OTHER -> "None"
<1>1. c = [name |-> CaseName[f], status |-> Status(o), failmsg |-> m]
  BY DEF Case
<1>2. CASE o \in {"nonzero", "oserror"}
  <2>1. m = "None"
    BY <1>2
  <2> HIDE DEF m
  <2>2. QED
    BY <1>1, <1>2, <2>1 DEF Status, Element
<1>3. CASE o \notin {"nonzero", "oserror"}
  <2> HIDE DEF m
  <2>1. QED
    BY <1>1, <1>3 DEF Status, Element
<1>4. QED
  BY <1>2, <1>3

\* The files that were run, in order, are those of the suite, each once.
LEMMA FilesOnce ==
  ASSUME TypeOK, CasesInv, phase = "files", pending = {}
  PROVE  [k \in DOMAIN log |-> log[k].file]
           \in Bijection(DOMAIN log, SqlFiles[<<workdir, todo[1].suite>>])
<1> DEFINE all == SqlFiles[<<workdir, todo[1].suite>>]
           order == [k \in DOMAIN log |-> log[k].file]
<1>1. all = FilesOf(log)
  BY DEF CasesInv
<1>2. DOMAIN log = 1 .. Len(log)
  BY DEF TypeOK
<1>3. \A j, k \in DOMAIN log : log[j].file = log[k].file => j = k
  BY <1>2 DEF CasesInv
<1>4. order \in [DOMAIN log -> all]
  BY <1>1 DEF FilesOf
<1>5. \A f \in all : \E k \in DOMAIN log : order[k] = f
  BY <1>1 DEF FilesOf
<1>6. IsInjective(order)
  BY <1>3 DEF IsInjective
<1> HIDE DEF all, order
<1>7. order \in Bijection(DOMAIN log, all)
  BY <1>4, <1>5, <1>6 DEF Bijection, Injection, Surjection
<1>8. QED
  BY <1>7 DEF all, order

\* The report is of the runner at hand, has all files of the suite and tells what failed.
LEMMA WrittenIs ==
  ASSUME TypeOK, TodoInv, CasesInv, WriteReport
  PROVE  \E rep :
           /\ reports' = [reports EXCEPT ![todo[1].suite] = rep]
           /\ todo[1] \in TaskSet
           /\ rep.written = todo[1].runner
           /\ CaseForEach(rep, SqlFiles[<<workdir, todo[1].suite>>])
           /\ Tells(rep, log)
<1> DEFINE n == Len(cases)
           w == todo[1].runner
           rep == ReportUpTo(w, cases, n)
           l == [k \in 1 .. n |-> Element(cases[k])]
           all == SqlFiles[<<workdir, todo[1].suite>>]
           order == [k \in DOMAIN log |-> log[k].file]
           elements == {k \in DOMAIN l : l[k].failure # "no element"}
<1>1. /\ cases \in Seq(Results) /\ n \in Nat /\ DOMAIN cases = 1 .. n /\ DOMAIN log = 1 .. n
      /\ Len(log) = n
  BY DEF CasesInv, TypeOK
<1>2. todo[1] \in TaskSet
  <2>1. todo \in Seq(TaskSet) /\ todo # <<>>
    BY DEF WriteReport, TodoInv, TaskSet
  <2> HIDE DEF TaskSet
  <2>2. QED
    BY <2>1
<1>3. reports' = [reports EXCEPT ![todo[1].suite] = rep]
  <2>1. ReportOf(w, cases) = rep
    BY <1>1, ReportIs
  <2> HIDE DEF rep
  <2>2. QED
    BY <2>1 DEF WriteReport
<1>4. /\ rep.written = w /\ rep.tests = n /\ rep.errors = 0 /\ rep.skipped = 0
      /\ rep.failures = Cardinality(FailedOf(cases, n)) /\ rep.testcases = l
  BY DEF ReportUpTo
<1>5. DOMAIN l = 1 .. n /\ Len(l) = n
  <2> DEFINE D == {Element(cases[k]) : k \in 1 .. n}
  <2>1. l \in [1 .. n -> D]
    OBVIOUS
  <2> HIDE DEF l, D, n
  <2>2. l \in Seq(D) /\ Len(l) = n
    BY <1>1, <2>1, SeqDef, LenProperties
  <2>3. QED
    BY <2>1, <2>2
<1>6. \A k \in 1 .. n : l[k] = Element(cases[k])
  OBVIOUS
<1>f. order \in Bijection(DOMAIN log, all)
  BY FilesOnce DEF WriteReport
<1> HIDE DEF rep, l, all
<1>7. ASSUME NEW k \in 1 .. n
      PROVE  /\ cases[k].status = Status(log[k].outcome)
             /\ l[k].name = CaseName[log[k].file]
             /\ l[k].failure = IF log[k].outcome \in {"nonzero", "oserror"} THEN "None"
                               ELSE "no element"
  <2>1. cases[k] = Case(log[k].file, log[k].outcome)
    BY DEF CasesInv
  <2>2. l[k] = Element(cases[k])
    BY <1>6
  <2> DEFINE f == log[k].file
             o == log[k].outcome
  <2>3. /\ Case(f, o).status = Status(o)
        /\ Element(Case(f, o)).name = CaseName[f]
        /\ Element(Case(f, o)).failure =
             IF o \in {"nonzero", "oserror"} THEN "None" ELSE "no element"
    <3> HIDE DEF f, o
    <3>1. QED
      BY ONLY CaseIs
  <2>4. QED
    BY ONLY <2>1, <2>2, <2>3
<1>8. FailedOf(cases, n) = elements
  <2>1. \A k \in 1 .. n : cases[k].status = "failed" <=> l[k].failure # "no element"
    BY <1>7 DEF Status
  <2>2. QED
    BY <1>1, <1>5, <2>1 DEF FailedOf
<1>9. CaseForEach(rep, all)
  <2>1. \A k \in 1 .. n : l[k].name = CaseName[order[k]]
    BY <1>1, <1>7
  <2>2. order \in Bijection(1 .. n, all)
    BY <1>1, <1>f
  <2> HIDE DEF order, n
  <2>3. QED
    BY <1>4, <1>5, <2>1, <2>2 DEF CaseForEach
<1>10. Tells(rep, log)
  <2>1. ASSUME NEW k \in DOMAIN l
        PROVE  /\ l[k].name = CaseName[log[k].file]
               /\ log[k].outcome \in {"nonzero", "oserror"} => k \in elements
               /\ log[k].outcome = "same" => k \notin elements
    BY <1>5, <1>7
  <2> HIDE DEF elements, n
  <2>2. QED
    BY <1>1, <1>4, <1>5, <1>8, <2>1 DEF Tells, elements
<1>11. QED
  BY <1>2, <1>3, <1>4, <1>9, <1>10 DEF all

\* A failed write leaves every report as it was, but for the one it has cut.
LEMMA FailsIs ==
  ASSUME TypeOK, TodoInv, NEW fault \in ReportFaults, WriteReportFails(fault)
  PROVE  /\ ran' = ran /\ todo' = todo /\ phase = "files" /\ phase' = "aborted"
         /\ \A s \in Suites : reports'[s] = reports[s] \/ reports'[s] = CutReport
BY DEF WriteReportFails, TypeOK

\* A report that was cut is not one of this run.
LEMMA CutNotFresh ==
  ASSUME NEW rep, rep.written \in {"transwarp", "jdbc"}
  PROVE  rep # CutReport
<1>1. CutReport.written = "in part"
  BY DEF CutReport
<1>2. QED
  BY <1>1

\* A step that writes no report.
LEMMA NoReportStep ==
  ASSUME Next, ~ WriteReport, ~ \E fault \in ReportFaults : WriteReportFails(fault)
  PROVE  UNCHANGED <<reports, ran>>
BY DEF Next, ParseEntry, StartTests, StartSuite, AllDone, RunFile, RunEnds

LEMMA TellStep ==
  ASSUME TypeOK, TodoInv, CasesInv, FailedCommandsReported, Next
  PROVE  FailedCommandsReported'
<1>1. \A s \in Suites : Fresh(s) => Tells(reports[s], ran[s])
  BY DEF FailedCommandsReported, Tells
<1>2. SUFFICES ASSUME NEW s \in Suites, Fresh(s)'
               PROVE  Tells(reports'[s], ran'[s])
  BY DEF FailedCommandsReported, Tells
<1>3. CASE WriteReport
  <2>1. PICK rep : /\ reports' = [reports EXCEPT ![todo[1].suite] = rep]
                   /\ Tells(rep, log)
    BY <1>3, WrittenIs
  <2>2. ran' = [ran EXCEPT ![todo[1].suite] = log] /\ DOMAIN reports = Suites /\ DOMAIN ran = Suites
    BY <1>3 DEF WriteReport, TypeOK
  <2>3. CASE s = todo[1].suite
    <3>1. reports'[s] = rep /\ ran'[s] = log
      BY <2>1, <2>2, <2>3
    <3>2. QED
      BY <2>1, <3>1
  <2>4. CASE s # todo[1].suite
    <3>1. reports'[s] = reports[s] /\ ran'[s] = ran[s]
      BY <2>1, <2>2, <2>4
    <3>2. QED
      BY <1>1, <1>2, <3>1 DEF Fresh
  <2>5. QED
    BY <2>3, <2>4
<1>4. ASSUME NEW fault \in ReportFaults, WriteReportFails(fault)
      PROVE  Tells(reports'[s], ran'[s])
  <2>1. ran' = ran /\ (reports'[s] = reports[s] \/ reports'[s] = CutReport)
    BY <1>4, FailsIs
  <2>2. reports'[s] # CutReport
    BY <1>2, CutNotFresh DEF Fresh
  <2>3. QED
    BY <1>1, <1>2, <2>1, <2>2 DEF Fresh
<1>5. CASE ~ WriteReport /\ ~ \E fault \in ReportFaults : WriteReportFails(fault)
  BY <1>1, <1>2, <1>5, NoReportStep DEF Fresh
<1>6. QED
  BY <1>3, <1>4, <1>5

-----------------------------------------------------------------------------
(* Which suites have a report of this run                                  *)

\* The tasks that have their report, before and after the report of the current one.
LEMMA ReportedNext ==
  ASSUME ConfOK, TodoInv, WriteReport
  PROVE  /\ DoneTasks \in Nat /\ DoneTasks + 1 \in 1 .. Len(AllTasks)
         /\ AllTasks[DoneTasks + 1] = todo[1]
         /\ \A runner, s : Reported(runner, s)' <=>
              Reported(runner, s) \/ todo[1] = [runner |-> runner, suite |-> s]
<1>1. todo \in Seq(TaskSet) /\ todo # <<>> /\ todo' = Tail(todo) /\ phase = "files"
  BY DEF WriteReport, TodoInv, TaskSet
<1>2. /\ Len(todo) \in Nat \ {0} /\ Len(todo') = Len(todo) - 1
      /\ Len(AllTasks) \in Nat /\ Len(todo) <= Len(AllTasks)
  <2>1. Len(AllTasks) \in Nat
    BY AllTasksOK
  <2> HIDE DEF TaskSet
  <2>2. QED
    BY <1>1, <2>1, HeadTailProperties, EmptySeq DEF TodoInv
<1>3. AllTasks' = AllTasks
  <2>1. Next /\ ~ ParseEntry
    BY <1>1 DEF Next, ParseEntry
  <2>2. QED
    BY <2>1, TasksKept
<1>4. DoneTasks' = DoneTasks + 1 /\ DoneTasks \in Nat /\ DoneTasks + 1 \in 1 .. Len(AllTasks)
  BY <1>2, <1>3 DEF DoneTasks
<1>5. AllTasks[DoneTasks + 1] = todo[1]
  BY <1>1, <1>2 DEF TodoInv
<1>6. ASSUME NEW runner, NEW s
      PROVE  Reported(runner, s)' <=>
               Reported(runner, s) \/ todo[1] = [runner |-> runner, suite |-> s]
  <2>1. \A k : k \in 1 .. DoneTasks + 1 <=> k \in 1 .. DoneTasks \/ k = DoneTasks + 1
    BY <1>4
  <2>2. QED
    BY <1>3, <1>4, <1>5, <2>1 DEF Reported
<1>7. QED
  BY <1>4, <1>5, <1>6

LEMMA ReportsStep ==
  ASSUME TypeOK, TodoInv, CasesInv, ReportsInv, Next
  PROVE  ReportsInv'
<1>1. ConfOK
  BY DEF TypeOK, ConfOK
<1>2. CASE ParseEntry
  <2>1. phase = "conf" /\ phase' = "conf" /\ reports' = reports
    BY <1>2 DEF ParseEntry
  <2>2. \A s \in Suites : ~ Fresh(s)
    BY <2>1 DEF ReportsInv
  <2>3. \A s \in Suites : ~ Fresh(s)'
    BY <2>1, <2>2 DEF Fresh
  <2>4. \A s \in Suites : reports'[s] # CutReport
    BY <2>1 DEF ReportsInv
  <2>5. QED
    BY <2>1, <2>3, <2>4 DEF ReportsInv
<1>3. CASE StartTests
  <2>1. phase = "conf" /\ phase' = "next" /\ reports' = reports /\ todo' = AllTasks
    BY <1>3 DEF StartTests
  <2>2. \A s \in Suites : ~ Fresh(s)
    BY <2>1 DEF ReportsInv
  <2>3. \A s \in Suites : ~ Fresh(s)'
    BY <2>1, <2>2 DEF Fresh
  <2>4. AllTasks' = AllTasks
    BY <1>3 DEF StartTests, confVars, AllTasks, Tasks
  <2>5. Len(AllTasks) \in Nat
    BY <1>1, AllTasksOK
  <2>6. DoneTasks' = 0
    BY <2>1, <2>4, <2>5 DEF DoneTasks
  <2>7. \A runner, s : ~ Reported(runner, s)'
    BY <2>6 DEF Reported
  <2>8. \A s \in Suites : reports'[s] # CutReport
    BY <2>1 DEF ReportsInv
  <2>9. QED
    BY <2>1, <2>3, <2>7, <2>8 DEF ReportsInv
<1>4. CASE WriteReport
  <2> DEFINE t == todo[1]
  <2>1. PICK rep : /\ reports' = [reports EXCEPT ![t.suite] = rep]
                   /\ t \in TaskSet /\ rep.written = t.runner
                   /\ CaseForEach(rep, SqlFiles[<<workdir, t.suite>>])
    BY <1>4, WrittenIs
  <2>2. /\ phase = "files" /\ pending = {} /\ phase' = "next" /\ workdir' = workdir
        /\ DOMAIN reports = Suites
    BY <1>4 DEF WriteReport, confVars, TypeOK, TodoInv
  <2>3. rep # CutReport
    <3>1. rep.written \in {"transwarp", "jdbc"}
      BY <2>1 DEF TaskSet
    <3>2. QED
      BY <3>1, CutNotFresh
  <2>4. reports'[t.suite] = rep /\ \A s \in Suites : s # t.suite => reports'[s] = reports[s]
    BY <2>1, <2>2 DEF TaskSet
  <2>5. ASSUME NEW s \in Suites, Fresh(s)'
        PROVE  CaseForEach(reports'[s], SqlFiles[<<workdir, s>>])
    <3>1. CASE s = t.suite
      BY <2>1, <2>4, <3>1
    <3>2. CASE s # t.suite
      <4>1. Fresh(s) /\ reports'[s] = reports[s]
        BY <2>4, <2>5, <3>2 DEF Fresh
      <4>2. QED
        BY <4>1 DEF ReportsInv
    <3>3. QED
      BY <3>1, <3>2
  <2>6. ASSUME NEW s \in Suites
        PROVE  /\ Reported("jdbc", s)' => reports'[s].written = "jdbc"
               /\ Reported("transwarp", s)' /\ ~ Reported("jdbc", s)'
                    => reports'[s].written = "transwarp"
    <3>1. \A runner : Reported(runner, s)' <=>
             Reported(runner, s) \/ t = [runner |-> runner, suite |-> s]
      BY <1>1, <1>4, ReportedNext
    <3>2. CASE s # t.suite
      <4>1. \A runner : t # [runner |-> runner, suite |-> s]
        BY <3>2
      <4>2. reports[s] # CutReport /\ phase # "conf" /\ reports'[s] = reports[s]
        BY <2>2, <2>4, <3>2 DEF ReportsInv
      <4>3. QED
        BY <3>1, <4>1, <4>2 DEF ReportsInv
    <3>3. CASE s = t.suite
      <4>1. t = [runner |-> t.runner, suite |-> s] /\ t.runner \in {"transwarp", "jdbc"}
        BY <2>1, <3>3 DEF TaskSet
      <4>2. reports'[s].written = t.runner
        BY <2>1, <2>4, <3>3
      <4>3. CASE t.runner = "jdbc"
        BY <3>1, <4>1, <4>2, <4>3
      <4>4. CASE t.runner = "transwarp"
        <5>1. ~ Reported("jdbc", s)
          <6> DEFINE a == Len(transwarp_suites)
                     b == Len(jdbc_suites)
          <6>1. /\ a \in Nat /\ b \in Nat /\ Len(AllTasks) = a + b
                /\ \A k \in 1 .. a : AllTasks[k].runner = "transwarp"
                /\ \A k \in 1 .. b : AllTasks[a + k].runner = "jdbc"
            <7>1. /\ a \in Nat /\ b \in Nat /\ Len(AllTasks) = a + b
                  /\ \A k \in 1 .. a :
                       AllTasks[k] = [runner |-> "transwarp", suite |-> transwarp_suites[k]]
                  /\ \A k \in 1 .. b :
                       AllTasks[a + k] = [runner |-> "jdbc", suite |-> jdbc_suites[k]]
              BY <1>1, AllTasksOK
            <7> HIDE DEF a, b
            <7>2. ASSUME NEW k \in 1 .. a
                  PROVE  AllTasks[k].runner = "transwarp"
              <8>1. AllTasks[k] = [runner |-> "transwarp", suite |-> transwarp_suites[k]]
                BY <7>1
              <8>2. QED
                BY <8>1
            <7>3. ASSUME NEW k \in 1 .. b
                  PROVE  AllTasks[a + k].runner = "jdbc"
              <8>1. AllTasks[a + k] = [runner |-> "jdbc", suite |-> jdbc_suites[k]]
                BY <7>1
              <8>2. QED
                BY <8>1
            <7>4. QED
              BY <7>1, <7>2, <7>3
          <6>2. DoneTasks \in Nat /\ DoneTasks + 1 \in 1 .. a + b /\ AllTasks[DoneTasks + 1] = t
            BY <1>1, <1>4, <6>1, ReportedNext
          <6> HIDE DEF a, b
          <6>3. DoneTasks \in Int /\ DoneTasks < a
            <7>1. DoneTasks \in Int
              BY <6>2
            <7>2. SUFFICES ASSUME DoneTasks >= a
                           PROVE  FALSE
              BY <6>1, <7>1
            <7>3. DoneTasks + 1 - a \in 1 .. b /\ a + (DoneTasks + 1 - a) = DoneTasks + 1
              BY <6>1, <6>2, <7>1, <7>2
            <7>4. AllTasks[DoneTasks + 1].runner = "jdbc"
              BY <6>1, <7>3
            <7>5. QED
              BY <4>4, <6>2, <7>4
          <6>4. \A k \in 1 .. DoneTasks : AllTasks[k].runner = "transwarp"
            BY <6>1, <6>3
          <6>5. QED
            BY <6>4 DEF Reported
        <5>2. t # [runner |-> "jdbc", suite |-> s]
          BY <4>4
        <5>3. QED
          BY <3>1, <4>2, <4>4, <5>1, <5>2
      <4>5. QED
        BY <4>1, <4>3, <4>4
    <3>4. QED
      BY <3>2, <3>3
  <2>7. \A s \in Suites : reports'[s] # CutReport
    BY <2>2, <2>3, <2>4 DEF ReportsInv
  <2>8. (\A s \in Suites : Fresh(s) =>
           CaseForEach(reports[s], SqlFiles[<<workdir, s>>]))'
    BY <2>2, <2>5 DEF CaseForEach
  <2>9. QED
    BY <2>2, <2>6, <2>7, <2>8 DEF ReportsInv
<1>f. ASSUME NEW fault \in ReportFaults, WriteReportFails(fault)
      PROVE  ReportsInv'
  <2>1. /\ todo' = todo /\ phase # "conf" /\ phase' = "aborted" /\ workdir' = workdir
        /\ \A s \in Suites : reports'[s] = reports[s] \/ reports'[s] = CutReport
    BY <1>f, FailsIs DEF WriteReportFails, confVars
  <2>2. AllTasks' = AllTasks /\ DoneTasks' = DoneTasks
    <3>1. ~ ParseEntry
      BY <1>f DEF WriteReportFails, ParseEntry
    <3>2. AllTasks' = AllTasks
      BY <3>1, TasksKept
    <3>3. QED
      BY <2>1, <3>2 DEF DoneTasks
  <2>3. \A runner, s : Reported(runner, s)' <=> Reported(runner, s)
    BY <2>2 DEF Reported
  <2>4. ASSUME NEW s \in Suites, reports'[s] # CutReport
        PROVE  reports'[s] = reports[s]
    BY <2>1, <2>4
  <2>5. ASSUME NEW s \in Suites, Fresh(s)'
        PROVE  reports'[s] # CutReport
    BY <2>5, CutNotFresh DEF Fresh
  <2>6. (\A s \in Suites : Fresh(s) =>
           CaseForEach(reports[s], SqlFiles[<<workdir, s>>]))'
    <3>1. ASSUME NEW s \in Suites, Fresh(s)'
          PROVE  CaseForEach(reports'[s], SqlFiles[<<workdir', s>>])
      <4>1. reports'[s] = reports[s] /\ Fresh(s)
        BY <2>4, <2>5, <3>1 DEF Fresh
      <4>2. QED
        BY <2>1, <4>1 DEF ReportsInv
    <3>2. QED
      BY <3>1 DEF CaseForEach
  <2>7. ASSUME NEW s \in Suites, reports'[s] # CutReport
        PROVE  /\ Reported("jdbc", s)' => reports'[s].written = "jdbc"
               /\ Reported("transwarp", s)' /\ ~ Reported("jdbc", s)'
                    => reports'[s].written = "transwarp"
    <3>1. reports'[s] = reports[s] /\ reports[s] # CutReport
      BY <2>4, <2>7
    <3>2. QED
      BY <2>1, <2>3, <3>1 DEF ReportsInv
  <2>8. QED
    BY <2>1, <2>6, <2>7 DEF ReportsInv
<1>5. CASE /\ ~ ParseEntry /\ ~ StartTests /\ ~ WriteReport
           /\ ~ \E fault \in ReportFaults : WriteReportFails(fault)
  <2>1. /\ UNCHANGED <<reports, todo, workdir>> /\ phase # "conf" /\ phase' # "conf"
        /\ phase # "aborted"
    BY <1>5 DEF Next, StartSuite, AllDone, RunFile, RunEnds, confVars
  <2>2. AllTasks' = AllTasks
    BY <1>5, TasksKept
  <2>3. DoneTasks' = DoneTasks
    BY <2>1, <2>2 DEF DoneTasks
  <2>4. \A runner, s : Reported(runner, s)' <=> Reported(runner, s)
    BY <2>2, <2>3 DEF Reported
  <2>5. (\A s \in Suites : Fresh(s) =>
           CaseForEach(reports[s], SqlFiles[<<workdir, s>>]))'
    BY <2>1 DEF ReportsInv, Fresh, CaseForEach
  <2>6. QED
    BY <2>1, <2>4, <2>5 DEF ReportsInv
<1>6. QED
  BY <1>2, <1>3, <1>4, <1>f, <1>5

-----------------------------------------------------------------------------
(* The theorems                                                            *)

RunnerInv ==
  /\ TypeOK /\ ConfSoFar /\ TodoInv /\ CasesInv /\ ReportsInv
  /\ FailedCommandsReported

LEMMA Initially ==
  ASSUME Init
  PROVE  RunnerInv
<1>1. conf \in Confs /\ Len(conf) \in Nat /\ DOMAIN conf = 1 .. Len(conf)
  BY ConfEntryOK DEF Init
<1>2. entry = 1 /\ entry \in 1 .. Len(conf) + 1
  BY <1>1 DEF Init
<1>3. ASSUME NEW s \in Suites
      PROVE  ~ Fresh(s)
  <2>1. reports[s] \in {NoReport, OldReport}
    BY DEF Init
  <2>2. NoReport.written = "no" /\ OldReport.written = "by an earlier run"
    BY DEF NoReport, OldReport
  <2>3. QED
    BY <2>1, <2>2 DEF Fresh
<1>4. <<>> \in Seq(Suites) /\ <<>> \in Seq(Runs) /\ <<>> \in Seq(Results) /\ Len(<<>>) = 0
  OBVIOUS
<1>5. TypeOK
  BY <1>1, <1>2, <1>4, RunnerAssumption DEF Init, TypeOK
<1>6. ConfSoFar
  <2>1. \A key : \A k \in Having(key) : k >= entry
    BY <1>1, <1>2 DEF Having
  <2>2. QED
    BY <2>1 DEF Init, ConfSoFar, ValueSoFar
<1>7. TodoInv
  <2>1. <<>> \in Seq([runner : {"transwarp", "jdbc"}, suite : Suites])
    OBVIOUS
  <2>2. QED
    BY <2>1 DEF Init, TodoInv
<1>8. CasesInv
  BY <1>4 DEF Init, CasesInv
<1>9. ReportsInv
  <2>1. ASSUME NEW s \in Suites
        PROVE  reports[s] # CutReport
    <3>1. reports[s] \in {NoReport, OldReport}
      BY DEF Init
    <3>2. /\ NoReport.written = "no" /\ OldReport.written = "by an earlier run"
          /\ CutReport.written = "in part"
      BY DEF NoReport, OldReport, CutReport
    <3>3. QED
      BY <3>1, <3>2
  <2>2. QED
    BY <1>3, <2>1 DEF Init, ReportsInv
<1>10. FailedCommandsReported
  BY <1>3 DEF FailedCommandsReported
<1>11. QED
  BY <1>5, <1>6, <1>7, <1>8, <1>9, <1>10 DEF RunnerInv

LEMMA Stuttering ==
  ASSUME RunnerInv, UNCHANGED vars
  PROVE  RunnerInv'
<1> USE DEF vars, confVars, suiteVars
<1>1. TypeOK'
  BY DEF RunnerInv, TypeOK
<1>2. ConfSoFar'
  BY DEF RunnerInv, ConfSoFar, ValueSoFar, Having
<1>3. AllTasks' = AllTasks
  BY DEF AllTasks, Tasks
<1>4. DoneTasks' = DoneTasks
  BY <1>3 DEF DoneTasks
<1>5. TodoInv'
  BY <1>3, <1>4 DEF RunnerInv, TodoInv
<1>6. CasesInv'
  BY DEF RunnerInv, CasesInv, FilesOf
<1>7. ReportsInv'
  BY <1>3, <1>4 DEF RunnerInv, ReportsInv, Reported, Fresh, CaseForEach
<1>8. FailedCommandsReported'
  BY DEF RunnerInv, FailedCommandsReported, Fresh
<1>9. QED
  BY <1>1, <1>2, <1>5, <1>6, <1>7, <1>8 DEF RunnerInv

LEMMA Always == Spec => []RunnerInv
<1>1. ASSUME RunnerInv, Next
      PROVE  RunnerInv'
  <2>1. ConfOK
    BY <1>1 DEF RunnerInv, TypeOK, ConfOK
  <2>2. QED
    BY <1>1, <2>1, TypeStep, ConfStep, TodoStep, CasesStep, ReportsStep, TellStep DEF RunnerInv
<1>2. QED
  BY <1>1, Initially, Stuttering, PTL DEF Spec

\* Every variable has the values the program gives it, whatever conf.yml holds.
THEOREM TypeCorrect == Spec => []TypeOK
BY Always, PTL DEF RunnerInv

(***************************************************************************)
(* When the tests start, each key of conf.yml has its value from the last  *)
(* entry that has transwarp_suites and the key (_parse_conf).              *)
(***************************************************************************)
THEOREM ConfRead == Spec => []ConfMeaning
<1>1. ASSUME RunnerInv
      PROVE  ConfMeaning
  <2>1. SUFFICES ASSUME phase # "conf"
                 PROVE  ConfMeaning
    BY DEF ConfMeaning
  <2>2. ConfOK /\ entry = Len(conf) + 1
    BY <1>1, <2>1 DEF RunnerInv, TypeOK, ConfOK, ConfSoFar
  <2>3. QED
    BY <1>1, <2>2, LastValue DEF RunnerInv, ConfSoFar, ConfMeaning
<1>2. QED
  BY <1>1, Always, PTL

(***************************************************************************)
(* In every report of this run (_add_caseresult) each command that failed  *)
(* has its element under the name of its file, no right answer has one,    *)
(* and the counts are those of the elements.                               *)
(***************************************************************************)
THEOREM ReportsTell == Spec => []FailedCommandsReported
BY Always, PTL DEF RunnerInv

(***************************************************************************)
(* Every report of this run has one case for each file of its suite, in    *)
(* the order they were run, also after an exception, a command that hangs  *)
(* or a report that could not be written.                                  *)
(***************************************************************************)
THEOREM CompleteReported == Spec => []ReportsComplete
<1>1. ASSUME RunnerInv
      PROVE  ReportsComplete
  <2>1. SUFFICES ASSUME NEW s \in Suites, Fresh(s)
                 PROVE  CaseForEach(reports[s], SqlFiles[<<LastOf("rootdir", Cwd), s>>])
    BY DEF ReportsComplete
  <2>2. phase # "conf"
    BY <1>1, <2>1 DEF RunnerInv, ReportsInv
  <2>3. ConfOK /\ entry = Len(conf) + 1
    BY <1>1, <2>2 DEF RunnerInv, TypeOK, ConfOK, ConfSoFar
  <2>4. workdir = LastOf("rootdir", Cwd)
    BY <1>1, <2>3, LastValue DEF RunnerInv, ConfSoFar
  <2>5. CaseForEach(reports[s], SqlFiles[<<workdir, s>>])
    BY <1>1, <2>1 DEF RunnerInv, ReportsInv
  <2>6. QED
    BY <2>4, <2>5
<1>2. QED
  BY <1>1, Always, PTL

(***************************************************************************)
(* When do_all_tests has ended, the report of every configured suite is of *)
(* this run and of the last runner that had the suite.                     *)
(***************************************************************************)
THEOREM DoneReported == Spec => []DoneMeansReported
<1>1. ASSUME RunnerInv
      PROVE  DoneMeansReported
  <2>1. SUFFICES ASSUME phase = "done", NEW s \in Suites, Wanted(s)
                 PROVE  reports[s].written =
                          IF s \in Range(LastOf("jdbc_suites", <<>>)) THEN "jdbc"
                          ELSE "transwarp"
    BY DEF DoneMeansReported
  <2>2. ConfOK /\ entry = Len(conf) + 1
    BY <1>1, <2>1 DEF RunnerInv, TypeOK, ConfOK, ConfSoFar
  <2>3. /\ transwarp_suites = LastOf("transwarp_suites", <<>>)
        /\ jdbc_suites = LastOf("jdbc_suites", <<>>)
        /\ workdir = LastOf("rootdir", Cwd)
    BY <1>1, <2>2, LastValue DEF RunnerInv, ConfSoFar
  <2> DEFINE a == Len(transwarp_suites)
             b == Len(jdbc_suites)
  <2>4. /\ a \in Nat /\ b \in Nat /\ Len(AllTasks) = a + b
        /\ \A k \in 1 .. a :
             AllTasks[k] = [runner |-> "transwarp", suite |-> transwarp_suites[k]]
        /\ \A k \in 1 .. b :
             AllTasks[a + k] = [runner |-> "jdbc", suite |-> jdbc_suites[k]]
    BY <2>2, AllTasksOK
  <2>5. DoneTasks = a + b
    BY <1>1, <2>1, <2>4 DEF RunnerInv, TodoInv, DoneTasks
  <2>6. /\ \A x \in Range(transwarp_suites) : \E k \in 1 .. a : x = transwarp_suites[k]
        /\ \A x : x \in Range(jdbc_suites) <=> \E k \in 1 .. b : x = jdbc_suites[k]
    BY <2>2 DEF ConfOK, Range
  <2> HIDE DEF a, b
  <2>7. s \in Range(transwarp_suites) => Reported("transwarp", s)
    <3>1. ASSUME NEW k \in 1 .. a, s = transwarp_suites[k]
          PROVE  Reported("transwarp", s)
      <4>1. k \in 1 .. DoneTasks
        BY <2>4, <2>5
      <4>2. QED
        BY <2>4, <3>1, <4>1 DEF Reported
    <3>2. QED
      BY <2>6, <3>1
  <2>8. s \in Range(jdbc_suites) => Reported("jdbc", s)
    <3>1. ASSUME NEW k \in 1 .. b, s = jdbc_suites[k]
          PROVE  Reported("jdbc", s)
      <4>1. a + k \in 1 .. DoneTasks
        BY <2>4, <2>5
      <4>2. QED
        BY <2>4, <3>1, <4>1 DEF Reported
    <3>2. QED
      BY <2>6, <3>1
  <2>9. ASSUME Reported("jdbc", s)
        PROVE  s \in Range(jdbc_suites)
    <3>1. PICK k \in 1 .. DoneTasks : AllTasks[k] = [runner |-> "jdbc", suite |-> s]
      BY <2>9 DEF Reported
    <3>2. ~ (k \in 1 .. a)
      <4>1. ASSUME k \in 1 .. a
            PROVE  AllTasks[k].runner = "transwarp"
        <5>1. AllTasks[k] = [runner |-> "transwarp", suite |-> transwarp_suites[k]]
          BY <2>4, <4>1
        <5>2. QED
          BY <5>1
      <4>2. AllTasks[k].runner = "jdbc"
        BY <3>1
      <4>3. QED
        BY <4>1, <4>2
    <3>3. k - a \in 1 .. b /\ a + (k - a) = k
      BY <2>4, <2>5, <3>2
    <3>4. AllTasks[k] = [runner |-> "jdbc", suite |-> jdbc_suites[k - a]]
      BY <2>4, <3>3
    <3>5. s = jdbc_suites[k - a]
      BY <3>1, <3>4
    <3>6. QED
      BY <2>6, <3>3, <3>5
  <2>10. s \in Range(transwarp_suites) \/ s \in Range(jdbc_suites)
    BY <2>1, <2>3 DEF Wanted
  <2>11. reports[s] # CutReport
    BY <1>1, <2>1 DEF RunnerInv, ReportsInv
  <2>12. reports[s].written = IF s \in Range(jdbc_suites) THEN "jdbc" ELSE "transwarp"
    BY <1>1, <2>1, <2>7, <2>8, <2>9, <2>10, <2>11 DEF RunnerInv, ReportsInv
  <2>13. QED
    BY <2>3, <2>12
<1>2. QED
  BY <1>1, Always, PTL

=============================================================================
