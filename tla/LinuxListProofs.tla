-------------------------- MODULE LinuxListProofs ---------------------------
(***************************************************************************)
(* The rings of list_head and the back pointers of hash chains are right   *)
(* for any number of heads, buckets and elements, whatever calls come in   *)
(* whatever order; a safe loop visits what it should; and what the rings   *)
(* stand for are the sequences of ListSeqs.                                *)
(***************************************************************************)
EXTENDS LinuxHlist, FiniteSetTheorems, WellFoundedInduction, TLAPS

-----------------------------------------------------------------------------
(* What each step of the functions does to the rings                       *)

\* What is taken out of a ring leaves the ring closed behind it.
LEMMA Deleted ==
  ASSUME NEW h, NEW used, NEW owner, Rings(h, used, owner), NEW e \in used
  PROVE  Rings(list_del_entry(h, e), used \ {e}, owner)
<1> DEFINE p == h.prev[e]
           n == h.next[e]
           d == list_del_entry(h, e)
<1>1. /\ p \in used /\ n \in used /\ used \subseteq Nodes /\ e \in Nodes
      /\ p \in Nodes /\ n \in Nodes
      /\ h.next \in [Nodes -> Nodes \cup {NULL}] /\ h.prev \in [Nodes -> Nodes \cup {NULL}]
  BY DEF Rings, Heaps
<1>2. d = [next |-> [h.next EXCEPT ![p] = n], prev |-> [h.prev EXCEPT ![n] = p]]
  BY DEF list_del_entry, del_between
<1>3. d \in Heaps
  BY <1>1, <1>2 DEF Heaps
<1>4. ASSUME NEW x \in used \ {e}
      PROVE  /\ d.next[x] \in used \ {e} /\ d.prev[d.next[x]] = x
             /\ d.prev[x] \in used \ {e} /\ d.next[d.prev[x]] = x
             /\ owner[d.next[x]] = owner[x]
  BY <1>1, <1>2 DEF Rings
<1>5. QED
  BY <1>1, <1>3, <1>4 DEF Rings

\* An object alone on its ring may be forgotten.
LEMMA Isolated ==
  ASSUME NEW h, NEW used, NEW owner, Rings(h, used, owner), NEW x \in used, h.next[x] = x
  PROVE  Rings(h, used \ {x}, owner)
  BY DEF Rings

\* The fields of an object that is not in use may be overwritten.
LEMMA Cleared ==
  ASSUME NEW h, NEW used, NEW owner, Rings(h, used, owner), NEW e \in Nodes \ used
  PROVE  Rings([next |-> [h.next EXCEPT ![e] = NULL], prev |-> [h.prev EXCEPT ![e] = NULL]],
               used, owner)
<1> DEFINE d == [next |-> [h.next EXCEPT ![e] = NULL], prev |-> [h.prev EXCEPT ![e] = NULL]]
<1>1. d \in Heaps
  BY DEF Rings, Heaps
<1>2. \A x \in used : d.next[x] = h.next[x] /\ d.prev[x] = h.prev[x]
  BY DEF Rings, Heaps
<1>3. QED
  BY <1>1, <1>2 DEF Rings

\* INIT_LIST_HEAD makes a ring of its own.
LEMMA Initialised ==
  ASSUME NEW h, NEW used, NEW owner, Rings(h, used, owner), NEW x \in Nodes \ used,
         NEW o \in Nodes \cup {NULL}
  PROVE  Rings(INIT_LIST_HEAD(h, x), used \cup {x}, [owner EXCEPT ![x] = o])
<1> DEFINE d == INIT_LIST_HEAD(h, x)
           w == [owner EXCEPT ![x] = o]
<1>1. d.next = [h.next EXCEPT ![x] = x] /\ d.prev = [h.prev EXCEPT ![x] = x]
  BY DEF INIT_LIST_HEAD
<1>2. d \in Heaps /\ w \in [Nodes -> Nodes \cup {NULL}]
  BY DEF Rings, Heaps, INIT_LIST_HEAD
<1>3. \A y \in used : d.next[y] = h.next[y] /\ d.prev[y] = h.prev[y] /\ w[y] = owner[y]
  BY <1>1 DEF Rings, Heaps
<1>4. d.next[x] = x /\ d.prev[x] = x
  BY <1>1 DEF Rings, Heaps
<1>5. QED
  BY <1>2, <1>3, <1>4 DEF Rings

\* __list_add puts a new object behind p on p's ring.
LEMMA Added ==
  ASSUME NEW h, NEW used, NEW owner, Rings(h, used, owner), NEW p \in used,
         NEW new \in Nodes \ used
  PROVE  Rings(add_between(h, new, p, h.next[p]), used \cup {new},
               [owner EXCEPT ![new] = owner[p]])
<1> DEFINE n == h.next[p]
           d == add_between(h, new, p, n)
           w == [owner EXCEPT ![new] = owner[p]]
<1>1. /\ n \in used /\ used \subseteq Nodes /\ p \in Nodes /\ n \in Nodes
      /\ h.next \in [Nodes -> Nodes \cup {NULL}] /\ h.prev \in [Nodes -> Nodes \cup {NULL}]
      /\ owner \in [Nodes -> Nodes \cup {NULL}]
  BY DEF Rings, Heaps
<1>2. /\ d.next = [h.next EXCEPT ![new] = n, ![p] = new]
      /\ d.prev = [h.prev EXCEPT ![n] = new, ![new] = p]
  BY DEF add_between
<1>3. d \in Heaps
  BY <1>1 DEF Heaps, add_between
<1>4. w \in [Nodes -> Nodes \cup {NULL}] /\ used \cup {new} \subseteq Nodes
  BY <1>1
<1>5. \A x \in Nodes : w[x] = IF x = new THEN owner[p] ELSE owner[x]
  BY <1>1
<1>6. ASSUME NEW x \in used \cup {new}
      PROVE  /\ d.next[x] \in used \cup {new} /\ d.prev[d.next[x]] = x
             /\ d.prev[x] \in used \cup {new} /\ d.next[d.prev[x]] = x
  BY <1>1, <1>2 DEF Rings
<1>7. ASSUME NEW x \in used \cup {new}
      PROVE  w[d.next[x]] = w[x]
  BY <1>1, <1>2, <1>5 DEF Rings
<1>8. QED
  BY <1>3, <1>4, <1>6, <1>7 DEF Rings

\* The new object takes the old one's place, also if that was alone on its ring.
LEMMA Replaced ==
  ASSUME NEW h, NEW used, NEW owner, Rings(h, used, owner), NEW old \in used,
         NEW new \in Nodes \ used
  PROVE  Rings(list_replace(h, old, new), (used \ {old}) \cup {new},
               [owner EXCEPT ![new] = owner[old]])
<1> DEFINE d == list_replace(h, old, new)
           w == [owner EXCEPT ![new] = owner[old]]
           p == h.prev[old]
           n == h.next[old]
<1>1. /\ n \in used /\ p \in used /\ used \subseteq Nodes /\ p \in Nodes /\ n \in Nodes
      /\ h.next \in [Nodes -> Nodes \cup {NULL}] /\ h.prev \in [Nodes -> Nodes \cup {NULL}]
      /\ owner \in [Nodes -> Nodes \cup {NULL}] /\ old \in Nodes /\ h.prev[n] = old
  BY DEF Rings, Heaps
<1>2. /\ d.next = IF n = old THEN [h.next EXCEPT ![new] = new]
                  ELSE [h.next EXCEPT ![new] = n, ![p] = new]
      /\ d.prev = IF n = old THEN [h.prev EXCEPT ![old] = new, ![new] = new]
                  ELSE [h.prev EXCEPT ![n] = new, ![new] = p]
  BY <1>1 DEF list_replace
<1>3. d \in Heaps
  <2>1. d = [next |-> d.next, prev |-> d.prev]
    BY DEF list_replace
  <2>2. d.next \in [Nodes -> Nodes \cup {NULL}] /\ d.prev \in [Nodes -> Nodes \cup {NULL}]
    BY <1>1, <1>2
  <2>3. QED
    BY <2>1, <2>2 DEF Heaps
<1>4. w \in [Nodes -> Nodes \cup {NULL}] /\ (used \ {old}) \cup {new} \subseteq Nodes
  BY <1>1
<1>5. \A x \in Nodes : w[x] = IF x = new THEN owner[old] ELSE owner[x]
  BY <1>1
<1>6. ASSUME NEW x \in (used \ {old}) \cup {new}
      PROVE  /\ d.next[x] \in (used \ {old}) \cup {new} /\ d.prev[d.next[x]] = x
             /\ d.prev[x] \in (used \ {old}) \cup {new} /\ d.next[d.prev[x]] = x
  BY <1>1, <1>2 DEF Rings
<1>7. ASSUME NEW x \in (used \ {old}) \cup {new}
      PROVE  w[d.next[x]] = w[x]
  BY <1>1, <1>2, <1>5 DEF Rings
<1>8. QED
  BY <1>3, <1>4, <1>6, <1>7 DEF Rings

\* The rings of a and b get one owner.
Joined(owner, a, b) == [x \in Nodes |-> IF owner[x] = a THEN b ELSE owner[x]]

LEMMA Renamed ==
  ASSUME NEW h, NEW used, NEW owner, Rings(h, used, owner), NEW a, NEW b \in Nodes \cup {NULL}
  PROVE  Rings(h, used, Joined(owner, a, b))
<1>1. used \subseteq Nodes /\ owner \in [Nodes -> Nodes \cup {NULL}]
      /\ \A x \in used : h.next[x] \in used /\ owner[h.next[x]] = owner[x]
  BY DEF Rings
<1>2. Joined(owner, a, b) \in [Nodes -> Nodes \cup {NULL}]
  BY <1>1 DEF Joined
<1>3. \A x \in used : Joined(owner, a, b)[h.next[x]] = Joined(owner, a, b)[x]
  BY <1>1 DEF Joined
<1>4. QED
  BY <1>2, <1>3 DEF Rings

\* Without "list" its ring and that of p are one.
LEMMA Spliced ==
  ASSUME NEW h, NEW used, NEW owner, Rings(h, used, owner),
         NEW list \in used, NEW p \in used, owner[list] # owner[p], h.next[list] # list
  PROVE  Rings(splice_between(h, list, p, h.next[p]), used \ {list},
               Joined(owner, owner[list], owner[p]))
<1> DEFINE n == h.next[p]
           first == h.next[list]
           last == h.prev[list]
           d == splice_between(h, list, p, n)
           w == Joined(owner, owner[list], owner[p])
<1>1. /\ {n, first, last} \subseteq used /\ used \subseteq Nodes /\ {p, n, first, last, list} \subseteq Nodes
      /\ h.next \in [Nodes -> Nodes \cup {NULL}] /\ h.prev \in [Nodes -> Nodes \cup {NULL}]
      /\ owner \in [Nodes -> Nodes \cup {NULL}]
  BY DEF Rings, Heaps
<1>2. /\ owner[n] = owner[p] /\ owner[first] = owner[list] /\ owner[last] = owner[list]
      /\ h.prev[n] = p /\ h.prev[first] = list /\ h.next[last] = list
  BY DEF Rings
<1>3. /\ n # first /\ n # last /\ p # first /\ p # last /\ p # list /\ n # list
      /\ first # list /\ last # list
  BY <1>1, <1>2
<1>4. /\ d.next = [h.next EXCEPT ![p] = first, ![last] = n]
      /\ d.prev = [h.prev EXCEPT ![first] = p, ![n] = last]
  BY DEF splice_between
<1>5. d \in Heaps
  BY <1>1 DEF Heaps, splice_between
<1>6. w \in [Nodes -> Nodes \cup {NULL}] /\ used \ {list} \subseteq Nodes
  BY <1>1 DEF Joined
<1>7. \A x \in Nodes : w[x] = IF owner[x] = owner[list] THEN owner[p] ELSE owner[x]
  BY DEF Joined
<1>8. ASSUME NEW x \in used \ {list}
      PROVE  /\ d.next[x] \in used \ {list} /\ d.prev[d.next[x]] = x
             /\ d.prev[x] \in used \ {list} /\ d.next[d.prev[x]] = x
  <2>1. /\ h.next[x] \in used /\ h.prev[h.next[x]] = x
        /\ h.prev[x] \in used /\ h.next[h.prev[x]] = x
    BY DEF Rings
  <2>2. /\ d.next[x] = IF x = last THEN n ELSE IF x = p THEN first ELSE h.next[x]
        /\ d.prev[x] = IF x = n THEN last ELSE IF x = first THEN p ELSE h.prev[x]
        /\ d.prev[n] = last /\ d.prev[first] = p /\ d.next[p] = first /\ d.next[last] = n
    BY <1>1, <1>3, <1>4
  <2>3. d.next[x] \in used \ {list} /\ d.prev[d.next[x]] = x
    BY <1>1, <1>2, <1>3, <1>4, <2>1, <2>2
  <2>4. d.prev[x] \in used \ {list} /\ d.next[d.prev[x]] = x
    BY <1>1, <1>2, <1>3, <1>4, <2>1, <2>2
  <2>5. QED
    BY <2>3, <2>4
<1>9. ASSUME NEW x \in used \ {list}
      PROVE  w[d.next[x]] = w[x]
  <2>1. h.next[x] \in used /\ owner[h.next[x]] = owner[x]
    BY DEF Rings
  <2>2. d.next[x] = IF x = last THEN n ELSE IF x = p THEN first ELSE h.next[x]
    BY <1>1, <1>3, <1>4
  <2>3. QED
    BY <1>1, <1>2, <1>7, <2>1, <2>2
<1>10. QED
  BY <1>5, <1>6, <1>8, <1>9 DEF Rings

-----------------------------------------------------------------------------
(* What a walk along a ring visits                                         *)

\* at is the way along link from head round to it.
Walk(link, head, used, at, n) ==
  /\ n \in Nat /\ at \in [0 .. n -> used] /\ at[0] = head
  /\ \A j, k \in 0 .. n : at[j] = at[k] => j = k
  /\ \A k \in 0 .. n - 1 : at[k + 1] = link[at[k]]
  /\ link[at[n]] = head

\* The first part of a cut ring and the rest of it, which keeps its owner.
CutParts(h, used, owner, head, entry, T) ==
  /\ T \subseteq used /\ head \notin T /\ entry \in T /\ h.next[head] \in T
  /\ owner[entry] = owner[head]
  /\ \A x \in T \ {entry} : h.next[x] \in T
  /\ \A x \in used \ (T \cup {head}) : h.next[x] \notin T
  /\ h.next[entry] \notin T

\* The part T behind the head and "list" make a ring, the rest and the head another.
LEMMA Cut ==
  ASSUME NEW h, NEW used, NEW owner, Rings(h, used, owner), NEW head \in used,
         NEW entry \in used, NEW T, CutParts(h, used, owner, head, entry, T),
         NEW list \in Nodes \ used, NEW o \in Nodes \cup {NULL}
  PROVE  Rings(cut_between(h, list, head, entry), used \cup {list},
               [x \in Nodes |-> IF x \in T \cup {list} THEN o ELSE owner[x]])
<1> DEFINE first == h.next[head]
           rest == h.next[entry]
           d == cut_between(h, list, head, entry)
           w == [x \in Nodes |-> IF x \in T \cup {list} THEN o ELSE owner[x]]
<1>1. /\ {rest, first} \subseteq used /\ used \subseteq Nodes
      /\ {rest, first, head, entry, list} \subseteq Nodes
      /\ h.next \in [Nodes -> Nodes \cup {NULL}] /\ h.prev \in [Nodes -> Nodes \cup {NULL}]
      /\ owner \in [Nodes -> Nodes \cup {NULL}]
  BY DEF Rings, Heaps
<1>2. /\ h.prev[rest] = entry /\ h.prev[first] = head /\ T \subseteq used
      /\ head \notin T /\ entry \in T /\ first \in T /\ rest \notin T /\ list \notin T
  BY DEF Rings, CutParts
<1>3. /\ d.next = [h.next EXCEPT ![list] = first, ![entry] = list, ![head] = rest]
      /\ d.prev = [h.prev EXCEPT ![first] = list, ![list] = entry, ![rest] = head]
  BY DEF cut_between
<1>4. d \in Heaps
  BY <1>1 DEF Heaps, cut_between
<1>5. w \in [Nodes -> Nodes \cup {NULL}] /\ used \cup {list} \subseteq Nodes
  BY <1>1
<1>6. /\ list # head /\ list # entry /\ head # entry /\ first # rest /\ list # first /\ list # rest
  BY <1>1, <1>2
<1>7. ASSUME NEW x \in used \cup {list}
      PROVE  /\ d.next[x] \in used \cup {list} /\ d.prev[d.next[x]] = x
             /\ d.prev[x] \in used \cup {list} /\ d.next[d.prev[x]] = x
  <2>1. x \in used => /\ h.next[x] \in used /\ h.prev[h.next[x]] = x
                      /\ h.prev[x] \in used /\ h.next[h.prev[x]] = x
    BY DEF Rings
  <2>2. /\ d.next[x] = IF x = head THEN rest ELSE IF x = entry THEN list
                       ELSE IF x = list THEN first ELSE h.next[x]
        /\ d.prev[x] = IF x = rest THEN head ELSE IF x = list THEN entry
                       ELSE IF x = first THEN list ELSE h.prev[x]
        /\ d.prev[rest] = head /\ d.prev[list] = entry /\ d.prev[first] = list
        /\ d.next[head] = rest /\ d.next[entry] = list /\ d.next[list] = first
    BY <1>1, <1>3, <1>6
  <2>3. d.next[x] \in used \cup {list} /\ d.prev[d.next[x]] = x
    BY <1>1, <1>2, <1>3, <1>6, <2>1, <2>2
  <2>4. d.prev[x] \in used \cup {list} /\ d.next[d.prev[x]] = x
    BY <1>1, <1>2, <1>3, <1>6, <2>1, <2>2
  <2>5. QED
    BY <2>3, <2>4
<1>8. ASSUME NEW x \in used \cup {list}
      PROVE  w[d.next[x]] = w[x]
  <2>1. /\ x \in used => h.next[x] \in used /\ owner[h.next[x]] = owner[x]
        /\ owner[rest] = owner[head]
    BY DEF Rings, CutParts
  <2>2. /\ x \in T \ {entry} => h.next[x] \in T
        /\ x \in used \ (T \cup {head}) => h.next[x] \notin T
    BY DEF CutParts
  <2>3. d.next[x] = IF x = head THEN rest ELSE IF x = entry THEN list
                    ELSE IF x = list THEN first ELSE h.next[x]
    BY <1>1, <1>3, <1>6
  <2>4. \A y \in Nodes : w[y] = IF y \in T \cup {list} THEN o ELSE owner[y]
    OBVIOUS
  <2>5. CASE x = head
    BY <1>1, <1>2, <1>6, <2>1, <2>3, <2>4, <2>5
  <2>6. CASE x \in T \cup {list}
    BY <1>1, <1>2, <1>6, <2>1, <2>2, <2>3, <2>4, <2>6
  <2>7. CASE x \in used \ (T \cup {head})
    BY <1>1, <1>2, <1>6, <2>1, <2>2, <2>3, <2>4, <2>7
  <2>8. QED
    BY <2>5, <2>6, <2>7
<1>9. QED
  BY <1>4, <1>5, <1>7, <1>8 DEF Rings

LEMMA Least ==
  ASSUME NEW T \in SUBSET Nat, T # {}
  PROVE  \E x \in T : \A y \in T : x <= y
<1> DEFINE R == OpToRel(<, Nat)
<1>1. IsWellFoundedOn(R, Nat)
  BY NatLessThanWellFounded
<1>2. \A x, y \in Nat : y < x => <<y, x>> \in R
  BY DEF OpToRel
<1> HIDE DEF R
<1>3. PICK x \in T : \A y \in T : ~ (<<y, x>> \in R)
  BY <1>1, WFMin
<1>4. \A y \in T : ~ (y < x) /\ x \in Nat /\ y \in Nat
  BY <1>2, <1>3
<1>5. QED
  BY <1>3, <1>4

\* The first n steps along link.
Steps(link, head, f, n) == f = [k \in 0 .. n |-> IF k = 0 THEN head ELSE link[f[k - 1]]]

LEMMA OneStepMore ==
  ASSUME NEW link, NEW head, NEW n \in Nat, NEW f, Steps(link, head, f, n)
  PROVE  \E g : Steps(link, head, g, n + 1)
<1> DEFINE g == [k \in 0 .. n + 1 |-> IF k = n + 1 THEN link[f[n]] ELSE f[k]]
           step(e, k) == IF k = 0 THEN head ELSE link[e[k - 1]]
<1>1. \A k \in 0 .. n : f[k] = step(f, k)
  BY DEF Steps
<1>2. \A k \in 0 .. n : g[k] = f[k]
  OBVIOUS
<1>3. ASSUME NEW k \in 0 .. n + 1
      PROVE  g[k] = step(g, k)
  <2>1. CASE k = n + 1
    <3>1. k # 0 /\ k - 1 = n /\ n \in 0 .. n
      BY <2>1
    <3>2. QED
      BY <1>2, <2>1, <3>1
  <2>2. CASE k \in 1 .. n
    <3>1. k - 1 \in 0 .. n /\ k \in 0 .. n /\ k # 0
      BY <2>2
    <3>2. QED
      BY <1>1, <1>2, <3>1
  <2>3. CASE k = 0
    <3>1. 0 \in 0 .. n
      OBVIOUS
    <3>2. QED
      BY <1>1, <1>2, <2>3, <3>1
  <2>4. QED
    BY <2>1, <2>2, <2>3
<1>4. g = [k \in 0 .. n + 1 |-> step(g, k)]
  BY <1>3
<1>5. QED
  BY <1>4 DEF Steps

LEMMA StepsExist ==
  ASSUME NEW link, NEW head, NEW n \in Nat
  PROVE  \E f : Steps(link, head, f, n)
<1> DEFINE T == {m \in Nat : ~ \E f : Steps(link, head, f, m)}
<1>1. SUFFICES ASSUME T # {} PROVE FALSE
  OBVIOUS
<1>2. PICK m \in T : \A y \in T : m <= y
  BY <1>1, Least
<1>3. m # 0
  <2>1. Steps(link, head, [k \in 0 .. 0 |-> head], 0)
    BY DEF Steps
  <2>2. QED
    BY <2>1
<1>4. m - 1 \in Nat /\ m - 1 + 1 = m /\ ~ (m <= m - 1)
  BY <1>3
<1>5. PICK f : Steps(link, head, f, m - 1)
  BY <1>2, <1>4
<1>6. QED
  BY <1>4, <1>5, OneStepMore

\* The last entry of the list: the first one whose link is the head.
IsLast(link, head, at, k) ==
  link[at[k]] = head /\ \A j \in 0 .. k - 1 : link[at[j]] # head

LEMMA VisitSteps ==
  ASSUME NEW link, NEW head, Cardinality(Nodes) \in Nat
  PROVE  \E at : /\ Steps(link, head, at, Cardinality(Nodes))
                 /\ Visit(link, head) =
                      [k \in 1 .. CHOOSE n \in 0 .. Cardinality(Nodes) - 1 :
                                    IsLast(link, head, at, n) |-> at[k]]
<1> DEFINE at == CHOOSE f : f = [k \in 0 .. Cardinality(Nodes) |->
                                  IF k = 0 THEN head ELSE link[f[k - 1]]]
<1>1. Steps(link, head, at, Cardinality(Nodes))
  BY StepsExist DEF Steps
<1>2. Visit(link, head) =
        [k \in 1 .. CHOOSE n \in 0 .. Cardinality(Nodes) - 1 :
                      IsLast(link, head, at, n) |-> at[k]]
  BY DEF Visit, IsLast
<1>3. QED
  BY <1>1, <1>2

\* link is one-to-one on the objects in use, and stays among them.
OneToOne(link, used) ==
  /\ \A x \in used : link[x] \in used
  /\ \A x, y \in used : link[x] = link[y] => x = y

\* Such steps stay among the objects in use, and come back to the head first.
LEMMA StepsInUse ==
  ASSUME NEW link, NEW used, OneToOne(link, used), NEW head \in used,
         NEW n \in Nat, NEW at, Steps(link, head, at, n)
  PROVE  /\ at \in [0 .. n -> used] /\ at[0] = head
         /\ \A k \in 0 .. n - 1 : at[k + 1] = link[at[k]]
         /\ \A i, j \in 0 .. n : i < j /\ at[i] = at[j] => at[j - i] = head
<1>1. /\ at[0] = head
      /\ \A k \in 1 .. n : at[k] = link[at[k - 1]]
      /\ DOMAIN at = 0 .. n
  BY DEF Steps
<1>2. \A k \in 0 .. n : at[k] \in used
  <2> DEFINE T == {k \in 0 .. n : at[k] \notin used}
  <2>1. SUFFICES ASSUME T # {} PROVE FALSE
    OBVIOUS
  <2>2. T \in SUBSET Nat
    OBVIOUS
  <2>3. PICK k \in T : \A y \in T : k <= y
    BY <2>1, <2>2, Least
  <2>4. k # 0
    BY <1>1, <2>3
  <2>5. k \in 1 .. n /\ k - 1 \in 0 .. n /\ ~ (k <= k - 1)
    BY <2>4
  <2>6. at[k - 1] \in used
    BY <2>3, <2>5
  <2>7. QED
    BY <1>1, <2>3, <2>5, <2>6 DEF OneToOne
<1>3. \A k \in 0 .. n - 1 : at[k + 1] = link[at[k]]
  <2>1. \A k \in 0 .. n - 1 : k + 1 \in 1 .. n /\ (k + 1) - 1 = k
    OBVIOUS
  <2>2. QED
    BY <1>1, <2>1
<1>4. \A i, j \in 0 .. n : i < j /\ at[i] = at[j] => at[j - i] = head
  <2> DEFINE bad(i, j) == i < j /\ at[i] = at[j] /\ at[j - i] # head
             T == {i \in 0 .. n : \E j \in 0 .. n : bad(i, j)}
  <2>1. SUFFICES ASSUME T # {} PROVE FALSE
    OBVIOUS
  <2>2. T \in SUBSET Nat
    OBVIOUS
  <2>3. PICK i \in T : \A y \in T : i <= y
    BY <2>1, <2>2, Least
  <2>4. PICK j \in 0 .. n : bad(i, j)
    BY <2>3
  <2>5. i # 0
    <3>1. j - 0 = j
      OBVIOUS
    <3>2. QED
      BY <1>1, <2>4, <3>1
  <2>6. /\ i \in 1 .. n /\ j \in 1 .. n /\ i - 1 \in 0 .. n /\ j - 1 \in 0 .. n
        /\ i - 1 < j - 1 /\ ~ (i <= i - 1) /\ (j - 1) - (i - 1) = j - i
    BY <2>4, <2>5
  <2>7. at[i - 1] = at[j - 1]
    <3>1. at[i] = link[at[i - 1]] /\ at[j] = link[at[j - 1]]
      BY <1>1, <2>6
    <3>2. at[i - 1] \in used /\ at[j - 1] \in used
      BY <1>2, <2>6
    <3>3. at[i] = at[j]
      BY <2>4
    <3>4. QED
      BY <3>1, <3>2, <3>3 DEF OneToOne
  <2>8. bad(i - 1, j - 1)
    BY <2>4, <2>6, <2>7
  <2>9. i - 1 \in T
    BY <2>6, <2>8
  <2>10. QED
    BY <2>3, <2>6, <2>9
<1>5. QED
  BY <1>1, <1>2, <1>3, <1>4 DEF Steps

\* Walking along a ring comes back to the head, after each object once.
LEMMA VisitWalks ==
  ASSUME NEW link, NEW used \in SUBSET Nodes, OneToOne(link, used), NEW head \in used
  PROVE  \E at, n : Walk(link, head, used, at, n) /\ Visit(link, head) = [k \in 1 .. n |-> at[k]]
<1> DEFINE N == Cardinality(Nodes)
<1>1. IsFiniteSet(Nodes) /\ N \in Nat
  BY ListAssumption, FS_CardinalityType
<1> HIDE DEF N
<1>2. PICK at : /\ Steps(link, head, at, N)
                /\ Visit(link, head) =
                     [k \in 1 .. CHOOSE n \in 0 .. N - 1 : IsLast(link, head, at, n) |-> at[k]]
  BY <1>1, VisitSteps DEF N
<1>3. /\ at \in [0 .. N -> used] /\ at[0] = head
      /\ \A k \in 0 .. N - 1 : at[k + 1] = link[at[k]]
      /\ \A i, j \in 0 .. N : i < j /\ at[i] = at[j] => at[j - i] = head
  BY <1>1, <1>2, StepsInUse
<1>4. \E k \in 0 .. N - 1 : link[at[k]] = head
  <2>1. IsFiniteSet(0 .. N) /\ Cardinality(0 .. N) = N + 1
    <3>1. 0 \in Int /\ N \in Int /\ ~ (0 > N) /\ N - 0 + 1 = N + 1
      BY <1>1
    <3>2. QED
      BY <3>1, FS_Interval
  <2>2. IsFiniteSet(used) /\ Cardinality(used) \in Nat /\ Cardinality(used) <= N
    BY <1>1, FS_Subset, FS_CardinalityType DEF N
  <2>3. Cardinality(used) < Cardinality(0 .. N)
    BY <1>1, <2>1, <2>2
  <2>4. PICK i, j \in 0 .. N : i # j /\ at[i] = at[j]
    <3> DEFINE S == 0 .. N
    <3>1. IsFiniteSet(S) /\ Cardinality(used) < Cardinality(S) /\ at \in [S -> used]
      BY <1>3, <2>1, <2>3
    <3> HIDE DEF S
    <3>2. \E i, j \in S : i # j /\ at[i] = at[j]
      BY <2>2, <3>1, FS_PigeonHole
    <3>3. QED
      BY <3>2 DEF S
  <2>5. PICK d \in 1 .. N : at[d] = head
    <3>1. CASE i < j
      <4>1. j - i \in 1 .. N
        BY <1>1, <3>1
      <4>2. QED
        BY <1>3, <2>4, <3>1, <4>1
    <3>2. CASE j < i
      <4>1. i - j \in 1 .. N
        BY <1>1, <3>2
      <4>2. QED
        BY <1>3, <2>4, <3>2, <4>1
    <3>3. QED
      BY <1>1, <2>4, <3>1, <3>2
  <2>6. d - 1 \in 0 .. N - 1 /\ (d - 1) + 1 = d
    BY <1>1
  <2>7. link[at[d - 1]] = head
    BY <1>3, <2>5, <2>6
  <2>8. QED
    BY <2>6, <2>7
<1>5. \E k \in 0 .. N - 1 : IsLast(link, head, at, k)
  <2> DEFINE T == {k \in 0 .. N - 1 : link[at[k]] = head}
  <2>1. T \in SUBSET Nat /\ T # {}
    BY <1>4
  <2>2. PICK k \in T : \A y \in T : k <= y
    BY <2>1, Least
  <2>3. \A j \in 0 .. k - 1 : j \in 0 .. N - 1 /\ ~ (k <= j)
    BY <1>1, <2>2
  <2>4. IsLast(link, head, at, k)
    BY <2>2, <2>3 DEF IsLast
  <2>5. QED
    BY <2>4
<1> DEFINE n == CHOOSE m \in 0 .. N - 1 : IsLast(link, head, at, m)
<1>6. n \in 0 .. N - 1 /\ IsLast(link, head, at, n)
  BY <1>5
<1>7. Visit(link, head) = [k \in 1 .. n |-> at[k]]
  BY <1>2
<1> HIDE DEF n
<1>8. n \in Nat /\ 0 .. n \subseteq 0 .. N /\ 0 .. n - 1 \subseteq 0 .. N - 1
  BY <1>1, <1>6
<1>9. \A i, j \in 0 .. n : i < j => at[i] # at[j]
  <2>1. SUFFICES ASSUME NEW i \in 0 .. n, NEW j \in 0 .. n, i < j, at[i] = at[j]
                 PROVE  FALSE
    OBVIOUS
  <2>2. /\ i \in 0 .. N /\ j \in 0 .. N /\ j - i - 1 \in 0 .. n - 1
        /\ j - i - 1 \in 0 .. N - 1 /\ (j - i - 1) + 1 = j - i
    BY <1>1, <1>6, <2>1
  <2>3. at[j - i] = head
    BY <1>3, <2>1, <2>2
  <2>4. link[at[j - i - 1]] = head
    BY <1>3, <2>2, <2>3
  <2>5. QED
    BY <1>6, <2>2, <2>4 DEF IsLast
<1> DEFINE way == [k \in 0 .. n |-> at[k]]
<1>10. Walk(link, head, used, way, n)
  <2>1. way \in [0 .. n -> used]
    BY <1>3, <1>8
  <2>2. 0 \in 0 .. n /\ n \in 0 .. n /\ \A k \in 0 .. n - 1 : k \in 0 .. n /\ k + 1 \in 0 .. n
    BY <1>8
  <2>3. way[0] = head /\ link[way[n]] = head
    BY <1>3, <1>6, <2>2 DEF IsLast
  <2>4. \A k \in 0 .. n - 1 : way[k + 1] = link[way[k]]
    BY <1>3, <1>8, <2>2
  <2>5. \A j, k \in 0 .. n : way[j] = way[k] => j = k
    <3>1. \A j, k \in 0 .. n : j < k \/ k < j \/ j = k
      BY <1>8
    <3>2. QED
      BY <1>9, <3>1
  <2>6. QED
    BY <1>8, <2>1, <2>3, <2>4, <2>5 DEF Walk
<1>11. \A k \in 1 .. n : way[k] = at[k]
  BY <1>8
<1> HIDE DEF way
<1>12. Visit(link, head) = [k \in 1 .. n |-> way[k]]
  BY <1>7, <1>11
<1>13. QED
  BY <1>10, <1>12

\* All that a walk meets belongs to the owner of its head.
LEMMA WalkOwned ==
  ASSUME NEW link, NEW used, NEW owner, \A x \in used : owner[link[x]] = owner[x],
         NEW head, NEW at, NEW n, Walk(link, head, used, at, n)
  PROVE  \A k \in 0 .. n : owner[at[k]] = owner[head]
<1> DEFINE T == {k \in 0 .. n : owner[at[k]] # owner[head]}
<1>1. SUFFICES ASSUME T # {} PROVE FALSE
  OBVIOUS
<1>2. /\ n \in Nat /\ at \in [0 .. n -> used] /\ at[0] = head
      /\ \A k \in 0 .. n - 1 : at[k + 1] = link[at[k]]
  BY DEF Walk
<1>3. T \in SUBSET Nat
  BY <1>2
<1>4. PICK k \in T : \A y \in T : k <= y
  BY <1>1, <1>3, Least
<1>5. k # 0
  BY <1>2, <1>4
<1>6. k \in 0 .. n /\ k - 1 \in 0 .. n /\ k - 1 \in 0 .. n - 1 /\ k - 1 + 1 = k /\ ~ (k <= k - 1)
  BY <1>2, <1>4, <1>5
<1>7. owner[at[k - 1]] = owner[head] /\ at[k - 1] \in used /\ at[k] = link[at[k - 1]]
  BY <1>2, <1>4, <1>6
<1>8. QED
  BY <1>4, <1>7

LEMMA RingIsOneToOne ==
  ASSUME NEW h, NEW used, NEW owner, Rings(h, used, owner)
  PROVE  /\ used \subseteq Nodes
         /\ OneToOne(h.next, used) /\ \A x \in used : owner[h.next[x]] = owner[x]
         /\ OneToOne(h.prev, used) /\ \A x \in used : owner[h.prev[x]] = owner[x]
<1>1. /\ used \subseteq Nodes
      /\ \A x \in used :
           /\ h.next[x] \in used /\ h.prev[h.next[x]] = x
           /\ h.prev[x] \in used /\ h.next[h.prev[x]] = x
           /\ owner[h.next[x]] = owner[x]
  BY DEF Rings
<1>2. OneToOne(h.next, used)
  BY <1>1 DEF OneToOne
<1>3. OneToOne(h.prev, used)
  BY <1>1 DEF OneToOne
<1>4. \A x \in used : owner[h.prev[x]] = owner[x]
  BY <1>1
<1>5. QED
  BY <1>1, <1>2, <1>3, <1>4

\* What a call to list_cut_position cuts off holds no head.
LEMMA CutOff ==
  ASSUME NEW h, NEW used, NEW owner, Rings(h, used, owner), HeadsApart(used, owner),
         NEW head \in Heads \cap used, NEW entry, entry \in Range(Visit(h.next, head))
  PROVE  entry \in used /\ \E T : CutParts(h, used, owner, head, entry, T) /\ T \cap Heads = {}
<1> DEFINE link == h.next
<1>1. /\ used \subseteq Nodes /\ OneToOne(link, used)
      /\ \A x \in used : owner[link[x]] = owner[x]
  BY RingIsOneToOne
<1> HIDE DEF link
<1>2. PICK at, n : Walk(link, head, used, at, n) /\ Visit(link, head) = [k \in 1 .. n |-> at[k]]
  <2>1. used \in SUBSET Nodes /\ head \in used
    BY <1>1
  <2>2. QED
    BY <1>1, <2>1, VisitWalks
<1>3. /\ n \in Nat /\ at \in [0 .. n -> used] /\ at[0] = head
      /\ \A j, k \in 0 .. n : at[j] = at[k] => j = k
      /\ \A k \in 0 .. n - 1 : at[k + 1] = link[at[k]]
      /\ link[at[n]] = head
  BY <1>2 DEF Walk
<1>4. PICK m \in 1 .. n : entry = at[m]
  BY <1>2, <1>3 DEF Range, link
<1> DEFINE T == {at[k] : k \in 1 .. m}
<1>5. 1 .. m \subseteq 1 .. n /\ 1 .. n \subseteq 0 .. n /\ 0 \in 0 .. n /\ m \in 1 .. m /\ 1 \in 1 .. m
      /\ ~ (0 \in 1 .. n) /\ 0 \in 0 .. n - 1 /\ 0 + 1 = 1 /\ m \in 0 .. n
  BY <1>3, <1>4
<1>6. T \subseteq used /\ head \notin T /\ entry \in T
  BY <1>3, <1>4, <1>5
<1>7. link[head] = at[1] /\ link[head] \in T
  <2>1. at[0 + 1] = link[at[0]]
    BY <1>3, <1>5
  <2>2. at[1] \in T
    BY <1>5
  <2>3. QED
    BY <1>3, <1>5, <2>1, <2>2
<1>8. \A k \in 0 .. n : owner[at[k]] = owner[head]
  BY <1>1, <1>2, WalkOwned
<1>9. ASSUME NEW x \in T \ {entry}
      PROVE  link[x] \in T
  <2>1. PICK k \in 1 .. m : x = at[k]
    BY <1>9
  <2>2. k # m
    BY <1>4, <1>9, <2>1
  <2>3. k \in 0 .. n - 1 /\ k + 1 \in 1 .. m
    BY <1>3, <1>4, <2>2
  <2>4. QED
    BY <1>3, <2>1, <2>3
<1>10. ASSUME NEW x \in used, link[x] \in T
       PROVE  \E k \in 0 .. m - 1 : x = at[k]
  <2>1. PICK k \in 1 .. m : link[x] = at[k]
    BY <1>10
  <2>2. k - 1 \in 0 .. m - 1 /\ k - 1 \in 0 .. n - 1 /\ k - 1 + 1 = k /\ k - 1 \in 0 .. n
    BY <1>3, <1>4, <2>1
  <2>3. at[k] = link[at[k - 1]] /\ at[k - 1] \in used
    BY <1>3, <2>2
  <2>4. x = at[k - 1]
    BY <1>1, <1>10, <2>1, <2>3 DEF OneToOne
  <2>5. QED
    BY <2>2, <2>4
<1>11. ASSUME NEW x \in used \ (T \cup {head})
       PROVE  link[x] \notin T
  <2>1. \A k \in 0 .. m - 1 : k = 0 \/ k \in 1 .. m
    BY <1>4
  <2>2. SUFFICES ASSUME link[x] \in T PROVE FALSE
    OBVIOUS
  <2>3. PICK k \in 0 .. m - 1 : x = at[k]
    BY <1>10, <1>11, <2>2
  <2>4. x \notin T /\ x # head
    BY <1>11
  <2>5. QED
    BY <1>3, <2>1, <2>3, <2>4
<1>12. link[entry] \notin T
  <2>1. SUFFICES ASSUME link[entry] \in T PROVE FALSE
    OBVIOUS
  <2>2. PICK k \in 0 .. m - 1 : entry = at[k]
    BY <1>6, <1>10, <2>1
  <2>3. k \in 0 .. n /\ k # m
    BY <1>3, <1>4, <2>2
  <2>4. QED
    BY <1>3, <1>4, <1>5, <2>2, <2>3
<1>13. owner[entry] = owner[head]
  BY <1>4, <1>5, <1>8
<1>14. CutParts(h, used, owner, head, entry, T)
  BY <1>6, <1>7, <1>9, <1>11, <1>12, <1>13 DEF CutParts, link
<1>15. T \cap Heads = {}
  <2>1. SUFFICES ASSUME NEW g \in T, g \in Heads PROVE FALSE
    OBVIOUS
  <2>2. owner[g] = owner[head]
    BY <1>5, <1>8, <2>1
  <2>3. g = head
    BY <1>6, <2>1, <2>2 DEF HeadsApart
  <2>4. QED
    BY <1>6, <2>1, <2>3
<1>16. QED
  BY <1>6, <1>14, <1>15

-----------------------------------------------------------------------------
(* What each function does to the rings                                    *)

LEMMA HeadsAreNoEntries == Heads \cap Entries = {} /\ Heads \subseteq Nodes /\ Entries \subseteq Nodes
                           /\ NULL \notin Nodes
  BY ListAssumption DEF Nodes

\* An object that is in use by nobody else counts as not in use.
LEMMA FreshObject ==
  ASSUME NEW h, NEW used, NEW owner, Rings(h, used, owner), HeadsApart(used, owner),
         NEW x, x \notin used \/ h.next[x] = x
  PROVE  Rings(h, used \ {x}, owner) /\ HeadsApart(used \ {x}, owner)
<1>1. HeadsApart(used \ {x}, owner)
  BY DEF HeadsApart
<1>2. CASE x \notin used
  <2>1. used \ {x} = used
    BY <1>2
  <2>2. QED
    BY <1>1, <2>1
<1>3. CASE x \in used
  BY <1>1, <1>3, Isolated
<1>4. QED
  BY <1>2, <1>3

\* The rings are in order with some owner.
LEMMA OwnerFound ==
  ASSUME NEW h, NEW used, NEW owner, Rings(h, used, owner), HeadsApart(used, owner)
  PROVE  RingsOK(h, used)
<1>1. owner \in [Nodes -> Nodes \cup {NULL}]
  BY DEF Rings
<1>2. QED
  BY <1>1 DEF RingsOK

\* Rings stay in order when an object nobody needs is forgotten.
LEMMA StillOK ==
  ASSUME NEW h, NEW used, RingsOK(h, used), NEW x, x \notin used \/ h.next[x] = x
  PROVE  RingsOK(h, used \ {x})
<1>1. PICK owner : Rings(h, used, owner) /\ HeadsApart(used, owner)
  BY DEF RingsOK
<1>2. Rings(h, used \ {x}, owner) /\ HeadsApart(used \ {x}, owner)
  BY <1>1, FreshObject
<1>3. QED
  BY <1>2, OwnerFound

LEMMA InitOK ==
  ASSUME NEW h, NEW used, RingsOK(h, used), NEW x \in Nodes, x \notin used \/ h.next[x] = x
  PROVE  RingsOK(INIT_LIST_HEAD(h, x), used \cup {x})
<1>1. PICK owner : Rings(h, used, owner) /\ HeadsApart(used, owner)
  BY DEF RingsOK
<1>2. Rings(h, used \ {x}, owner) /\ HeadsApart(used \ {x}, owner)
  BY <1>1, FreshObject
<1> DEFINE w == [owner EXCEPT ![x] = x]
<1>3. x \in Nodes \ (used \ {x}) /\ x \in Nodes \cup {NULL}
  OBVIOUS
<1>4. Rings(INIT_LIST_HEAD(h, x), (used \ {x}) \cup {x}, w)
  BY <1>2, <1>3, Initialised
<1>5. (used \ {x}) \cup {x} = used \cup {x}
  OBVIOUS
<1>6. HeadsApart(used \cup {x}, w)
  BY <1>1, HeadsAreNoEntries DEF HeadsApart, Rings
<1>7. QED
  BY <1>4, <1>5, <1>6, OwnerFound

\* An entry that is off its ring.
LEMMA OffRing ==
  ASSUME NEW h, NEW used, RingsOK(h, used), NEW e \in used
  PROVE  RingsOK(list_del_entry(h, e), used \ {e})
<1>1. PICK owner : Rings(h, used, owner) /\ HeadsApart(used, owner)
  BY DEF RingsOK
<1>2. Rings(list_del_entry(h, e), used \ {e}, owner)
  BY <1>1, Deleted
<1>3. HeadsApart(used \ {e}, owner)
  BY <1>1 DEF HeadsApart
<1>4. QED
  BY <1>2, <1>3, OwnerFound

LEMMA DelOK ==
  ASSUME NEW h, NEW used, RingsOK(h, used), NEW e \in used
  PROVE  RingsOK(list_del(h, e), used \ {e})
<1>1. PICK owner : Rings(list_del_entry(h, e), used \ {e}, owner) /\ HeadsApart(used \ {e}, owner)
  BY OffRing DEF RingsOK
<1>2. e \in Nodes \ (used \ {e})
  BY DEF RingsOK, Rings
<1>3. Rings(list_del(h, e), used \ {e}, owner)
  BY <1>1, <1>2, Cleared DEF list_del
<1>4. QED
  BY <1>1, <1>3, OwnerFound

LEMMA DelInitOK ==
  ASSUME NEW h, NEW used, RingsOK(h, used), NEW e \in used
  PROVE  RingsOK(list_del_init(h, e), used)
<1>1. RingsOK(list_del_entry(h, e), used \ {e})
  BY OffRing
<1>2. e \in Nodes /\ e \notin used \ {e} /\ (used \ {e}) \cup {e} = used
  BY DEF RingsOK, Rings
<1>3. QED
  BY <1>1, <1>2, InitOK DEF list_del_init

LEMMA AddOK ==
  ASSUME NEW h, NEW used, RingsOK(h, used), NEW head \in Heads \cap used,
         NEW new \in Entries, new \notin used \/ h.next[new] = new
  PROVE  /\ RingsOK(list_add(h, new, head), used \cup {new})
         /\ RingsOK(list_add_tail(h, new, head), used \cup {new})
<1>1. PICK owner : Rings(h, used, owner) /\ HeadsApart(used, owner)
  BY DEF RingsOK
<1> DEFINE rest == used \ {new}
<1>2. Rings(h, rest, owner) /\ HeadsApart(rest, owner)
  BY <1>1, FreshObject
<1>3. rest \cup {new} = used \cup {new} /\ new \in Nodes \ rest /\ head \in rest
  BY HeadsAreNoEntries
<1>4. \A p \in rest : HeadsApart(used \cup {new}, [owner EXCEPT ![new] = owner[p]])
  BY <1>1, HeadsAreNoEntries DEF HeadsApart, Rings
<1> HIDE DEF rest
<1>5. \A p \in rest : Rings(add_between(h, new, p, h.next[p]), rest \cup {new},
                            [owner EXCEPT ![new] = owner[p]])
  BY <1>2, <1>3, Added
<1>6. \A p \in rest : RingsOK(add_between(h, new, p, h.next[p]), used \cup {new})
  BY <1>3, <1>4, <1>5, OwnerFound
<1>7. h.prev[head] \in rest /\ h.next[h.prev[head]] = head
  BY <1>2, <1>3 DEF Rings
<1>8. QED
  BY <1>3, <1>6, <1>7 DEF list_add, list_add_tail

LEMMA MoveOK ==
  ASSUME NEW h, NEW used, RingsOK(h, used), NEW head \in Heads \cap used,
         NEW e \in Entries \cap used
  PROVE  RingsOK(list_move(h, e, head), used) /\ RingsOK(list_move_tail(h, e, head), used)
<1> DEFINE d == list_del_entry(h, e)
           rest == used \ {e}
<1>1. RingsOK(d, rest)
  BY OffRing
<1>2. e \notin rest /\ head \in Heads \cap rest /\ rest \cup {e} = used /\ e \in Entries
  BY HeadsAreNoEntries
<1>3. list_move(h, e, head) = list_add(d, e, head) /\ list_move_tail(h, e, head) = list_add_tail(d, e, head)
  BY DEF list_move, list_move_tail
<1> HIDE DEF d, rest
<1>4. RingsOK(list_add(d, e, head), rest \cup {e}) /\ RingsOK(list_add_tail(d, e, head), rest \cup {e})
  BY <1>1, <1>2, AddOK
<1>5. QED
  BY <1>2, <1>3, <1>4

LEMMA RotateOK ==
  ASSUME NEW h, NEW used, RingsOK(h, used), NEW head \in Heads \cap used
  PROVE  RingsOK(list_rotate_left(h, head), used)
<1>1. PICK owner : Rings(h, used, owner) /\ HeadsApart(used, owner)
  BY DEF RingsOK
<1>2. CASE list_empty(h, head)
  BY <1>2 DEF list_rotate_left
<1>3. CASE ~ list_empty(h, head)
  <2>1. h.next[head] \in used /\ owner[h.next[head]] = owner[head] /\ h.next[head] # head
    BY <1>1, <1>3 DEF Rings, list_empty
  <2>2. h.next[head] \notin Heads
    BY <1>1, <2>1 DEF HeadsApart
  <2>3. h.next[head] \in Entries \cap used
    BY <1>1, <2>1, <2>2 DEF Rings, Nodes
  <2>4. QED
    BY <1>3, <2>3, MoveOK DEF list_rotate_left
<1>4. QED
  BY <1>2, <1>3

LEMMA ReplaceEntryOK ==
  ASSUME NEW h, NEW used, RingsOK(h, used), NEW old \in Entries \cap used,
         NEW new \in Entries \ used
  PROVE  /\ RingsOK(list_replace(h, old, new), (used \ {old}) \cup {new})
         /\ RingsOK(list_replace_init(h, old, new), used \cup {new})
<1> DEFINE rest == (used \ {old}) \cup {new}
<1>1. PICK owner : Rings(h, used, owner) /\ HeadsApart(used, owner)
  BY DEF RingsOK
<1>2. new \in Nodes \ used
  BY HeadsAreNoEntries
<1>3. Rings(list_replace(h, old, new), rest, [owner EXCEPT ![new] = owner[old]])
  BY <1>1, <1>2, Replaced
<1>4. HeadsApart(rest, [owner EXCEPT ![new] = owner[old]])
  BY <1>1, HeadsAreNoEntries DEF HeadsApart, Rings
<1>5. RingsOK(list_replace(h, old, new), rest)
  BY <1>3, <1>4, OwnerFound
<1>6. old \notin rest /\ rest \cup {old} = used \cup {new} /\ old \in Nodes
  BY HeadsAreNoEntries
<1> HIDE DEF rest
<1>7. RingsOK(INIT_LIST_HEAD(list_replace(h, old, new), old), rest \cup {old})
  BY <1>5, <1>6, InitOK
<1>8. QED
  BY <1>5, <1>6, <1>7 DEF list_replace_init, rest

LEMMA ReplaceHeadOK ==
  ASSUME NEW h, NEW used, RingsOK(h, used), NEW old \in Heads \cap used,
         NEW new \in Heads \ used
  PROVE  /\ RingsOK(list_replace(h, old, new), (used \ {old}) \cup {new})
         /\ RingsOK(list_replace_init(h, old, new), used \cup {new})
<1> DEFINE rest == (used \ {old}) \cup {new}
<1>1. PICK owner : Rings(h, used, owner) /\ HeadsApart(used, owner)
  BY DEF RingsOK
<1>2. new \in Nodes \ used /\ new \in Nodes \cup {NULL}
  BY HeadsAreNoEntries
<1> DEFINE w == [owner EXCEPT ![new] = owner[old]]
           v == Joined(w, old, new)
<1>3. Rings(list_replace(h, old, new), rest, w)
  BY <1>1, <1>2, Replaced
<1>4. HeadsApart(rest, v)
  <2>1. owner \in [Nodes -> Nodes \cup {NULL}] /\ used \subseteq Nodes
    BY <1>1 DEF Rings
  <2>2. \A x \in Nodes : v[x] = IF w[x] = old THEN new ELSE w[x]
    BY DEF Joined
  <2>3. \A x \in Nodes : w[x] = IF x = new THEN owner[old] ELSE owner[x]
    BY <2>1
  <2>4. \A g \in Heads \cap used : owner[g] = g
    BY <1>1 DEF HeadsApart
  <2> HIDE DEF v, w
  <2>5. \A g \in Heads \cap rest : v[g] = g
    BY <1>2, <2>1, <2>2, <2>3, <2>4, HeadsAreNoEntries
  <2>6. QED
    BY <2>5 DEF HeadsApart
<1> HIDE DEF w
<1>5. Rings(list_replace(h, old, new), rest, v)
  BY <1>2, <1>3, Renamed
<1>6. RingsOK(list_replace(h, old, new), rest)
  BY <1>4, <1>5, OwnerFound
<1>7. old \notin rest /\ rest \cup {old} = used \cup {new} /\ old \in Nodes
  BY HeadsAreNoEntries
<1> HIDE DEF rest
<1>8. RingsOK(INIT_LIST_HEAD(list_replace(h, old, new), old), rest \cup {old})
  BY <1>6, <1>7, InitOK
<1>9. QED
  BY <1>6, <1>7, <1>8 DEF list_replace_init, rest

\* The entries of "list" go between two neighbours on the ring of "head".
LEMMA SpliceBetweenOK ==
  ASSUME NEW h, NEW used, NEW owner, Rings(h, used, owner), HeadsApart(used, owner),
         NEW list \in Heads \cap used, NEW head \in Heads \cap used, list # head,
         ~ list_empty(h, list), NEW p \in used, owner[p] = head
  PROVE  RingsOK(splice_between(h, list, p, h.next[p]), used \ {list})
<1>1. owner[list] = list /\ owner[head] = head
  BY DEF HeadsApart
<1>2. Rings(splice_between(h, list, p, h.next[p]), used \ {list}, Joined(owner, owner[list], owner[p]))
  <2>1. owner[list] # owner[p] /\ h.next[list] # list
    BY <1>1 DEF list_empty
  <2>2. QED
    BY <2>1, Spliced
<1>3. HeadsApart(used \ {list}, Joined(owner, owner[list], owner[p]))
  <2>1. \A x \in Nodes : Joined(owner, owner[list], owner[p])[x] =
                           IF owner[x] = list THEN head ELSE owner[x]
    BY <1>1 DEF Joined
  <2>2. \A g \in Heads \cap used : owner[g] = g /\ g \in Nodes
    BY HeadsAreNoEntries DEF HeadsApart
  <2>3. QED
    BY <2>1, <2>2 DEF HeadsApart
<1>4. QED
  BY <1>2, <1>3, OwnerFound

LEMMA SpliceOK ==
  ASSUME NEW h, NEW used, RingsOK(h, used), NEW list \in Heads \cap used,
         NEW head \in Heads \cap used, list # head
  PROVE  LET rest == IF list_empty(h, list) THEN used ELSE used \ {list}
         IN /\ RingsOK(list_splice(h, list, head), rest)
            /\ RingsOK(list_splice_tail(h, list, head), rest)
            /\ RingsOK(list_splice_init(h, list, head), used)
            /\ RingsOK(list_splice_tail_init(h, list, head), used)
<1>1. CASE list_empty(h, list)
  BY <1>1 DEF list_splice, list_splice_tail, list_splice_init, list_splice_tail_init
<1>2. CASE ~ list_empty(h, list)
  <2>1. PICK owner : Rings(h, used, owner) /\ HeadsApart(used, owner)
    BY DEF RingsOK
  <2>2. /\ owner[head] = head /\ h.prev[head] \in used
        /\ h.next[h.prev[head]] = head /\ owner[h.prev[head]] = head
    BY <2>1 DEF HeadsApart, Rings
  <2> DEFINE rest == used \ {list}
             first == splice_between(h, list, head, h.next[head])
             last == splice_between(h, list, h.prev[head], head)
  <2>3. RingsOK(first, rest)
    BY <1>2, <2>1, <2>2, SpliceBetweenOK
  <2>4. RingsOK(last, rest)
    BY <1>2, <2>1, <2>2, SpliceBetweenOK
  <2>5. list \in Nodes /\ list \notin rest /\ rest \cup {list} = used
    BY HeadsAreNoEntries
  <2> HIDE DEF rest, first, last
  <2>6. RingsOK(INIT_LIST_HEAD(first, list), used) /\ RingsOK(INIT_LIST_HEAD(last, list), used)
    BY <2>3, <2>4, <2>5, InitOK
  <2>7. /\ list_splice(h, list, head) = first
        /\ list_splice_tail(h, list, head) = last
        /\ list_splice_init(h, list, head) = INIT_LIST_HEAD(first, list)
        /\ list_splice_tail_init(h, list, head) = INIT_LIST_HEAD(last, list)
    BY <1>2 DEF list_splice, list_splice_tail, list_splice_init, list_splice_tail_init, first, last
  <2>8. QED
    BY <1>2, <2>3, <2>4, <2>6, <2>7 DEF rest
<1>3. QED
  BY <1>1, <1>2

LEMMA CutOK ==
  ASSUME NEW h, NEW used, RingsOK(h, used), NEW head \in Heads \cap used,
         NEW list \in Heads, list # head, list \notin used \/ h.next[list] = list,
         NEW entry, entry = head \/ entry \in Range(Visit(h.next, head))
  PROVE  RingsOK(list_cut_position(h, list, head, entry),
                 IF NothingToCut(h, head, entry) THEN used ELSE used \cup {list})
<1>1. CASE NothingToCut(h, head, entry)
  BY <1>1 DEF list_cut_position
<1>2. CASE ~ NothingToCut(h, head, entry) /\ entry = head
  <2>1. list \in Nodes
    BY HeadsAreNoEntries
  <2>2. RingsOK(INIT_LIST_HEAD(h, list), used \cup {list})
    BY <2>1, InitOK
  <2>3. QED
    BY <1>2, <2>2 DEF list_cut_position
<1>3. CASE ~ NothingToCut(h, head, entry) /\ entry # head
  <2>1. PICK owner : Rings(h, used, owner) /\ HeadsApart(used, owner)
    BY DEF RingsOK
  <2> DEFINE rest == used \ {list}
  <2>2. Rings(h, rest, owner) /\ HeadsApart(rest, owner)
    BY <2>1, FreshObject
  <2>3. head \in Heads \cap rest /\ list \in Nodes \ rest /\ rest \cup {list} = used \cup {list}
        /\ list \in Nodes \cup {NULL}
    BY HeadsAreNoEntries
  <2> HIDE DEF rest
  <2>4. entry \in rest
    BY <1>3, <2>2, <2>3, CutOff
  <2>5. PICK T : CutParts(h, rest, owner, head, entry, T) /\ T \cap Heads = {}
    BY <1>3, <2>2, <2>3, CutOff
  <2> DEFINE w == [x \in Nodes |-> IF x \in T \cup {list} THEN list ELSE owner[x]]
  <2>6. Rings(cut_between(h, list, head, entry), rest \cup {list}, w)
    BY <2>2, <2>3, <2>4, <2>5, Cut
  <2>7. HeadsApart(rest \cup {list}, w)
    BY <2>2, <2>5, HeadsAreNoEntries DEF HeadsApart
  <2> HIDE DEF w
  <2>8. RingsOK(cut_between(h, list, head, entry), used \cup {list})
    BY <2>3, <2>6, <2>7, OwnerFound
  <2>9. QED
    BY <1>3, <2>8 DEF list_cut_position
<1>4. QED
  BY <1>1, <1>2, <1>3

\* The entries of a list nobody cares about losing.
LostFrom(h, used, list) == IF list \in used THEN Range(Visit(h.next, list)) ELSE {}

\* What is in use besides the list.
Spared(h, used, list) == used \ (LostFrom(h, used, list) \cup {list})

LEMMA LostIs == \A list : Lost(list) = LostFrom(heap, live, list)
  BY DEF Lost, LostFrom, ListOf

\* A head may be forgotten with all its entries: no other ring goes through them.
LEMMA Abandoned ==
  ASSUME NEW h, NEW used, RingsOK(h, used), NEW list \in Heads
  PROVE  /\ RingsOK(h, Spared(h, used, list))
         /\ Heads \cap Spared(h, used, list) = (Heads \cap used) \ {list}
<1> DEFINE gone == LostFrom(h, used, list) \cup {list}
           fewer == used \ gone
           link == h.next
<1>s. Spared(h, used, list) = fewer
  BY DEF Spared
<1>1. PICK owner : Rings(h, used, owner) /\ HeadsApart(used, owner)
  BY DEF RingsOK
<1>2. CASE list \notin used
  <2>1. fewer = used \ {list}
    BY <1>2 DEF LostFrom
  <2>2. QED
    BY <1>2, <1>s, <2>1, StillOK
<1>3. CASE list \in used
  <2>1. used \in SUBSET Nodes /\ OneToOne(link, used) /\ \A x \in used : owner[link[x]] = owner[x]
    BY <1>1, RingIsOneToOne
  <2> HIDE DEF link
  <2>2. PICK at, n : Walk(link, list, used, at, n) /\ Visit(link, list) = [k \in 1 .. n |-> at[k]]
    BY <1>3, <2>1, VisitWalks
  <2>3. /\ n \in Nat /\ at \in [0 .. n -> used] /\ at[0] = list
        /\ \A k \in 0 .. n - 1 : at[k + 1] = link[at[k]]
        /\ link[at[n]] = list
    BY <2>2 DEF Walk
  <2>4. \A k \in 0 .. n : owner[at[k]] = owner[list]
    <3>1. SUFFICES ASSUME NEW k \in 0 .. n PROVE owner[at[k]] = owner[list]
      OBVIOUS
    <3>2. (\A x \in used : owner[link[x]] = owner[x]) /\ Walk(link, list, used, at, n)
      BY <2>1, <2>2
    <3>3. QED
      BY <3>2, WalkOwned
  <2>5. gone = {at[k] : k \in 0 .. n}
    <3>1. LostFrom(h, used, list) = Range([k \in 1 .. n |-> at[k]])
      BY <1>3, <2>2 DEF LostFrom, link
    <3>2. LostFrom(h, used, list) = {at[k] : k \in 1 .. n}
      BY <3>1 DEF Range
    <3>3. \A k \in 0 .. n : k = 0 \/ k \in 1 .. n
      BY <2>3
    <3>4. 0 \in 0 .. n /\ \A k \in 1 .. n : k \in 0 .. n
      BY <2>3
    <3>5. QED
      BY <2>3, <3>2, <3>3, <3>4
  <2> HIDE DEF gone
  \* What leads into the ring is on it.
  <2>6. ASSUME NEW x \in used, link[x] \in gone
        PROVE  x \in gone
    <3>1. PICK k \in 0 .. n : link[x] = at[k]
      BY <2>5, <2>6
    <3>2. PICK j \in 0 .. n : link[at[j]] = at[k]
      <4>1. CASE k = 0
        <5>1. n \in 0 .. n
          BY <2>3
        <5>2. QED
          BY <2>3, <4>1, <5>1
      <4>2. CASE k # 0
        <5>1. k - 1 \in 0 .. n /\ k - 1 \in 0 .. n - 1 /\ k - 1 + 1 = k
          BY <2>3, <4>2
        <5>2. QED
          BY <2>3, <5>1
      <4>3. QED
        BY <4>1, <4>2
    <3>3. at[j] \in used /\ at[j] \in gone
      BY <2>3, <2>5
    <3>4. x = at[j]
      BY <2>1, <3>1, <3>2, <3>3 DEF OneToOne
    <3>5. QED
      BY <3>3, <3>4
  \* What it leads to is on it.
  <2>7. ASSUME NEW x \in gone
        PROVE  link[x] \in gone
    <3>1. PICK k \in 0 .. n : x = at[k]
      BY <2>5
    <3>2. CASE k = n
      <4>1. 0 \in 0 .. n
        BY <2>3
      <4>2. QED
        BY <2>3, <2>5, <3>1, <3>2, <4>1
    <3>3. CASE k # n
      <4>1. k \in 0 .. n - 1 /\ k + 1 \in 0 .. n
        BY <2>3, <3>3
      <4>2. QED
        BY <2>3, <2>5, <3>1, <4>1
    <3>4. QED
      BY <3>2, <3>3
  <2>8. Rings(h, fewer, owner)
    <3>1. /\ h \in Heaps /\ used \subseteq Nodes /\ owner \in [Nodes -> Nodes \cup {NULL}]
          /\ \A x \in used :
               /\ h.next[x] \in used /\ h.prev[h.next[x]] = x
               /\ h.prev[x] \in used /\ h.next[h.prev[x]] = x
               /\ owner[h.next[x]] = owner[x]
      BY <1>1 DEF Rings
    <3>2. ASSUME NEW x \in fewer
          PROVE  h.next[x] \in fewer /\ h.prev[x] \in fewer
      <4>1. x \in used /\ h.next[x] \in used /\ h.prev[x] \in used /\ h.next[h.prev[x]] = x
        BY <3>1
      <4>2. h.next[x] \notin gone
        BY <2>6, <4>1 DEF link
      <4>3. h.prev[x] \notin gone
        BY <2>7, <4>1 DEF link
      <4>4. QED
        BY <4>1, <4>2, <4>3
    <3>3. QED
      BY <3>1, <3>2 DEF Rings
  <2>9. HeadsApart(fewer, owner)
    BY <1>1 DEF HeadsApart
  <2>10. \A g \in Heads \cap used : g \in gone => g = list
    <3>1. SUFFICES ASSUME NEW g \in Heads \cap used, g \in gone PROVE g = list
      OBVIOUS
    <3>2. PICK k \in 0 .. n : g = at[k]
      BY <2>5, <3>1
    <3>3. owner[g] = g /\ owner[list] = list
      BY <1>1, <1>3 DEF HeadsApart
    <3>4. QED
      BY <2>4, <3>2, <3>3
  <2>11. list \in gone
    BY DEF gone
  <2>12. Heads \cap fewer = (Heads \cap used) \ {list}
    BY <2>10, <2>11
  <2>13. RingsOK(h, fewer)
    BY <2>8, <2>9, OwnerFound
  <2>14. QED
    BY <1>s, <2>12, <2>13 DEF gone
<1>4. QED
  BY <1>2, <1>3

-----------------------------------------------------------------------------
(* The calls, and the loop                                                 *)

Calls ==
  \/ \E x \in Nodes : Initialise(x)
  \/ \E e \in Entries : Delete(e)
  \/ \E e \in Entries, head \in Heads : Add(e, head) \/ Move(e, head)
  \/ \E old, new \in Entries : Replace(old, new)
  \/ \E old, new \in Heads : Replace(old, new) \/ Splice(old, new)
  \/ \E head \in Heads : RotateLeft(head)
  \/ \E list, head \in Heads : \E entry \in Entries \cup {head} : CutPosition(list, head, entry)

\* Every call leaves the rings in order.
LEMMA CallsKeepRings ==
  ASSUME RingInv, Calls
  PROVE  RingInv' /\ ~ iter.on /\ iter' = iter
<1> USE DEF RingInv, Call
<1>1. ASSUME NEW x \in Nodes, Initialise(x)
      PROVE  RingInv' /\ ~ iter.on /\ iter' = iter
  <2>1. x \notin live \/ heap.next[x] = x
    BY <1>1 DEF Initialise, Unused, list_empty
  <2>2. QED
    BY <1>1, <2>1, InitOK DEF Initialise
<1>2. ASSUME NEW e \in Entries, Delete(e)
      PROVE  RingInv' /\ ~ iter.on /\ iter' = iter
  BY <1>2, DelOK, DelInitOK DEF Delete
<1>3. ASSUME NEW e \in Entries, NEW head \in Heads, Add(e, head)
      PROVE  RingInv' /\ ~ iter.on /\ iter' = iter
  <2>1. e \notin live \/ heap.next[e] = e
    BY <1>3 DEF Add, Unused, list_empty
  <2>2. head \in Heads \cap live
    BY <1>3 DEF Add, LiveHeads
  <2>3. QED
    BY <1>3, <2>1, <2>2, AddOK DEF Add
<1>4. ASSUME NEW e \in Entries, NEW head \in Heads, Move(e, head)
      PROVE  RingInv' /\ ~ iter.on /\ iter' = iter
  <2>1. head \in Heads \cap live /\ e \in Entries \cap live
    BY <1>4 DEF Move, LiveHeads
  <2>2. QED
    BY <1>4, <2>1, MoveOK DEF Move
<1>5. ASSUME NEW old \in Entries, NEW new \in Entries, Replace(old, new)
      PROVE  RingInv' /\ ~ iter.on /\ iter' = iter
  <2> DEFINE fresh == live \ {new}
  <2>1. /\ old \in Entries \cap fresh /\ new \in Entries \ fresh
        /\ new \notin live \/ heap.next[new] = new
    BY <1>5 DEF Replace, Unused, list_empty
  <2>2. RingsOK(heap, fresh)
    BY <2>1, StillOK
  <2>3. (fresh \ {old}) \cup {new} = (live \ {old}) \cup {new} /\ fresh \cup {new} = live \cup {new}
    BY <2>1
  <2> HIDE DEF fresh
  <2>4. /\ RingsOK(list_replace(heap, old, new), (fresh \ {old}) \cup {new})
        /\ RingsOK(list_replace_init(heap, old, new), fresh \cup {new})
    BY <2>1, <2>2, ReplaceEntryOK
  <2>5. QED
    BY <1>5, <2>3, <2>4 DEF Replace
<1>6. ASSUME NEW old \in Heads, NEW new \in Heads, Replace(old, new)
      PROVE  RingInv' /\ ~ iter.on /\ iter' = iter
  <2> DEFINE fresh == live \ {new}
  <2>1. /\ old \in Heads \cap fresh /\ new \in Heads \ fresh
        /\ new \notin live \/ heap.next[new] = new
    BY <1>6 DEF Replace, Unused, list_empty
  <2>2. RingsOK(heap, fresh)
    BY <2>1, StillOK
  <2>3. (fresh \ {old}) \cup {new} = (live \ {old}) \cup {new} /\ fresh \cup {new} = live \cup {new}
    BY <2>1
  <2> HIDE DEF fresh
  <2>4. /\ RingsOK(list_replace(heap, old, new), (fresh \ {old}) \cup {new})
        /\ RingsOK(list_replace_init(heap, old, new), fresh \cup {new})
    BY <2>1, <2>2, ReplaceHeadOK
  <2>5. QED
    BY <1>6, <2>3, <2>4 DEF Replace
<1>7. ASSUME NEW list \in Heads, NEW head \in Heads, Splice(list, head)
      PROVE  RingInv' /\ ~ iter.on /\ iter' = iter
  <2>1. list \in Heads \cap live /\ head \in Heads \cap live /\ list # head
    BY <1>7 DEF Splice, LiveHeads
  <2> DEFINE rest == IF list_empty(heap, list) THEN live ELSE live \ {list}
  <2>2. /\ RingsOK(list_splice(heap, list, head), rest)
        /\ RingsOK(list_splice_tail(heap, list, head), rest)
        /\ RingsOK(list_splice_init(heap, list, head), live)
        /\ RingsOK(list_splice_tail_init(heap, list, head), live)
    BY <2>1, SpliceOK
  <2>3. QED
    BY <1>7, <2>2 DEF Splice
<1>8. ASSUME NEW head \in Heads, RotateLeft(head)
      PROVE  RingInv' /\ ~ iter.on /\ iter' = iter
  <2>1. head \in Heads \cap live
    BY <1>8 DEF RotateLeft, LiveHeads
  <2>2. QED
    BY <1>8, <2>1, RotateOK DEF RotateLeft
<1>9. ASSUME NEW list \in Heads, NEW head \in Heads, NEW entry \in Entries \cup {head},
             CutPosition(list, head, entry)
      PROVE  RingInv' /\ ~ iter.on /\ iter' = iter
  <2> DEFINE fewer == Spared(heap, live, list)
  <2>1. /\ head \in Heads \cap live /\ list # head
        /\ entry = head \/ entry \in Range(Visit(heap.next, head))
    BY <1>9 DEF CutPosition, LiveHeads, ListOf
  <2>2. RingsOK(heap, fewer) /\ Heads \cap fewer = (Heads \cap live) \ {list}
    BY Abandoned
  <2>3. /\ fewer \cup {list} = (live \ Lost(list)) \cup {list}
        /\ list \notin fewer /\ head \in Heads \cap fewer
    BY <2>1, <2>2, LostIs DEF Spared
  <2> HIDE DEF fewer
  <2>4. RingsOK(list_cut_position(heap, list, head, entry),
                IF NothingToCut(heap, head, entry) THEN fewer ELSE fewer \cup {list})
    BY <2>1, <2>2, <2>3, CutOK
  <2>5. NothingToCut(heap, head, entry) => list_cut_position(heap, list, head, entry) = heap
    BY DEF list_cut_position
  <2>6. QED
    BY <1>9, <2>3, <2>4, <2>5 DEF CutPosition
<1>10. QED
  BY <1>1, <1>2, <1>3, <1>4, <1>5, <1>6, <1>7, <1>8, <1>9 DEF Calls

\* What the body of a loop does to the links of entries it is not at.
LEMMA BodyKeepsLinks ==
  ASSUME NEW h, NEW used, RingsOK(h, used), NEW e \in Entries \cap used,
         NEW dir \in {"next", "prev"}, NEW x \in used, x # e, h[dir][x] # e
  PROVE  /\ list_del(h, e)[dir][x] = h[dir][x]
         /\ list_del_init(h, e)[dir][x] = h[dir][x]
         /\ \A g \in Heads \cap used :
              /\ g # x /\ (h[dir][x] # g \/ dir = "next") =>
                   list_move(h, e, g)[dir][x] = h[dir][x]
              /\ g # x /\ (h[dir][x] # g \/ dir = "prev") =>
                   list_move_tail(h, e, g)[dir][x] = h[dir][x]
<1> DEFINE p == h.prev[e]
           n == h.next[e]
           d == list_del_entry(h, e)
<1>1. PICK owner : Rings(h, used, owner)
  BY DEF RingsOK
<1>2. /\ used \subseteq Nodes /\ p \in used /\ n \in used
      /\ h.next \in [Nodes -> Nodes \cup {NULL}] /\ h.prev \in [Nodes -> Nodes \cup {NULL}]
      /\ h.next[p] = e /\ h.prev[n] = e
  BY <1>1 DEF Rings, Heaps
<1>3. d.next = [h.next EXCEPT ![p] = n] /\ d.prev = [h.prev EXCEPT ![n] = p]
  BY DEF list_del_entry, del_between
<1>4. /\ dir = "next" => d.next[x] = h.next[x]
      /\ dir = "prev" => d.prev[x] = h.prev[x]
  BY <1>2, <1>3
<1>5. /\ d.next \in [Nodes -> Nodes \cup {NULL}] /\ d.prev \in [Nodes -> Nodes \cup {NULL}]
      /\ e \in Nodes /\ x \in Nodes
  BY <1>2, <1>3
<1>6. Rings(d, used \ {e}, owner)
  BY <1>1, Deleted
<1> HIDE DEF d
<1>7. list_del(h, e)[dir][x] = h[dir][x]
  BY <1>4, <1>5 DEF list_del, d
<1>8. list_del_init(h, e)[dir][x] = h[dir][x]
  BY <1>4, <1>5 DEF list_del_init, INIT_LIST_HEAD, d
<1>9. ASSUME NEW g \in Heads \cap used, g # x, h[dir][x] # g \/ dir = "next"
      PROVE  list_move(h, e, g)[dir][x] = h[dir][x]
  <2> DEFINE f == d.next[g]
             m == list_move(h, e, g)
  <2>1. g # e /\ g \in used \ {e}
    BY HeadsAreNoEntries
  <2>2. f \in Nodes /\ d.prev[f] = g /\ g \in Nodes
    BY <1>2, <1>6, <2>1 DEF Rings
  <2>3. /\ m.next = [d.next EXCEPT ![e] = f, ![g] = e]
        /\ m.prev = [d.prev EXCEPT ![f] = e, ![e] = g]
    BY DEF list_move, list_add, add_between, d
  <2>4. CASE dir = "next"
    BY <1>4, <1>5, <1>9, <2>1, <2>3, <2>4
  <2>5. CASE dir = "prev"
    <3>1. x # f
      BY <1>4, <1>9, <2>2, <2>5
    <3>2. QED
      BY <1>4, <1>5, <2>2, <2>3, <2>5, <3>1
  <2>6. QED
    BY <2>4, <2>5
<1>10. ASSUME NEW g \in Heads \cap used, g # x, h[dir][x] # g \/ dir = "prev"
       PROVE  list_move_tail(h, e, g)[dir][x] = h[dir][x]
  <2> DEFINE f == d.prev[g]
             m == list_move_tail(h, e, g)
  <2>1. g # e /\ g \in used \ {e}
    BY HeadsAreNoEntries
  <2>2. f \in Nodes /\ d.next[f] = g /\ g \in Nodes
    BY <1>2, <1>6, <2>1 DEF Rings
  <2>3. /\ m.next = [d.next EXCEPT ![e] = g, ![f] = e]
        /\ m.prev = [d.prev EXCEPT ![g] = e, ![e] = f]
    BY DEF list_move_tail, list_add_tail, add_between, d
  <2>4. CASE dir = "prev"
    BY <1>4, <1>5, <1>10, <2>1, <2>3, <2>4
  <2>5. CASE dir = "next"
    <3>1. x # f
      BY <1>4, <1>10, <2>2, <2>5
    <3>2. QED
      BY <1>4, <1>5, <2>2, <2>3, <2>5, <3>1
  <2>6. QED
    BY <2>4, <2>5
<1>11. QED
  BY <1>7, <1>8, <1>9, <1>10

\* What is moved to the end of a list is what leads to the head afterwards, and
\* the last entry before leads to it.
LEMMA EndLinks ==
  ASSUME NEW h, NEW used, RingsOK(h, used), NEW e \in Entries \cap used,
         NEW g \in Heads \cap used, NEW x \in Entries \cap used, x # e
  PROVE  /\ h.next[x] = g => /\ list_move_tail(h, e, g).next[x] = e
                             /\ list_move_tail(h, e, g).next[e] = g
         /\ h.prev[x] = g => /\ list_move(h, e, g).prev[x] = e
                             /\ list_move(h, e, g).prev[e] = g
<1> DEFINE p == h.prev[e]
           n == h.next[e]
           d == list_del_entry(h, e)
<1>1. PICK owner : Rings(h, used, owner)
  BY DEF RingsOK
<1>2. /\ used \subseteq Nodes /\ p \in used /\ n \in used
      /\ h.next \in [Nodes -> Nodes \cup {NULL}] /\ h.prev \in [Nodes -> Nodes \cup {NULL}]
      /\ h.next[p] = e /\ h.prev[n] = e
  BY <1>1 DEF Rings, Heaps
<1>3. d.next = [h.next EXCEPT ![p] = n] /\ d.prev = [h.prev EXCEPT ![n] = p]
  BY DEF list_del_entry, del_between
<1>4. /\ d.next \in [Nodes -> Nodes \cup {NULL}] /\ d.prev \in [Nodes -> Nodes \cup {NULL}]
      /\ e \in Nodes /\ x \in Nodes /\ g \in Nodes /\ g # e /\ g # x
  BY <1>2, <1>3, HeadsAreNoEntries
<1>5. Rings(d, used \ {e}, owner)
  BY <1>1, Deleted
<1>6. ASSUME h.next[x] = g
      PROVE  list_move_tail(h, e, g).next[x] = e /\ list_move_tail(h, e, g).next[e] = g
  <2>1. d.next[x] = g
    BY <1>2, <1>3, <1>4, <1>6
  <2> HIDE DEF d
  <2>2. d.prev[g] = x
    BY <1>4, <1>5, <2>1 DEF Rings
  <2>3. list_move_tail(h, e, g).next = [d.next EXCEPT ![e] = g, ![x] = e]
    BY <2>2 DEF list_move_tail, list_add_tail, add_between, d
  <2>4. QED
    BY <1>4, <2>3
<1>7. ASSUME h.prev[x] = g
      PROVE  list_move(h, e, g).prev[x] = e /\ list_move(h, e, g).prev[e] = g
  <2>1. d.prev[x] = g
    BY <1>2, <1>3, <1>4, <1>7
  <2> HIDE DEF d
  <2>2. d.next[g] = x
    BY <1>4, <1>5, <2>1 DEF Rings
  <2>3. list_move(h, e, g).prev = [d.prev EXCEPT ![x] = e, ![e] = g]
    BY <2>2 DEF list_move, list_add, add_between, d
  <2>4. QED
    BY <1>4, <2>3
<1>8. QED
  BY <1>6, <1>7

\* What the loop expects to visit is what a walk from its head meets.
LEMMA StartLoopRuns ==
  ASSUME RingInv, NEW head \in Heads, NEW dir \in {"next", "prev"}, StartLoop(head, dir)
  PROVE  Running'
<1> DEFINE link == heap[dir]
           E == Visit(link, head)
<1>1. PICK owner : Rings(heap, live, owner) /\ HeadsApart(live, owner)
  BY DEF RingInv, RingsOK
<1>2. /\ head \in Heads \cap live /\ heap' = heap /\ live' = live
      /\ iter' = [on |-> TRUE, head |-> head, dir |-> dir, pos |-> link[head],
                  n |-> link[link[head]], expected |-> E, visited |-> <<>>]
  BY DEF StartLoop, LiveHeads
<1>3. live \in SUBSET Nodes /\ OneToOne(link, live) /\ \A x \in live : owner[link[x]] = owner[x]
  <2>1. CASE dir = "next"
    BY <1>1, <2>1, RingIsOneToOne
  <2>2. CASE dir = "prev"
    BY <1>1, <2>2, RingIsOneToOne
  <2>3. QED
    BY <2>1, <2>2
<1> HIDE DEF link
<1>4. PICK at, n : Walk(link, head, live, at, n) /\ E = [k \in 1 .. n |-> at[k]]
  BY <1>2, <1>3, VisitWalks
<1> HIDE DEF E
<1>5. /\ n \in Nat /\ at \in [0 .. n -> live] /\ at[0] = head
      /\ \A j, k \in 0 .. n : at[j] = at[k] => j = k
      /\ \A k \in 0 .. n - 1 : at[k + 1] = link[at[k]]
      /\ link[at[n]] = head
  BY <1>4 DEF Walk
<1>6. \A k \in 1 .. n : k \in 0 .. n /\ 0 \in 0 .. n /\ k # 0
  BY <1>5
<1>7. \A k \in 1 .. n : at[k] \in Entries
  <2>1. SUFFICES ASSUME NEW k \in 1 .. n, at[k] \notin Entries PROVE FALSE
    OBVIOUS
  <2>2. owner[at[k]] = owner[head]
    BY <1>3, <1>4, <1>6, WalkOwned
  <2>3. at[k] \in Heads \cap live
    BY <1>3, <1>5, <1>6, <2>1 DEF Nodes
  <2>4. at[k] = head
    BY <1>1, <1>2, <2>2, <2>3 DEF HeadsApart
  <2>5. QED
    BY <1>5, <1>6, <2>4
<1>8. E \in Seq(Entries) /\ Len(E) = n /\ DOMAIN E = 1 .. n
  <2>1. E \in [1 .. n -> Entries]
    BY <1>4, <1>7
  <2>2. QED
    BY <1>5, <2>1
<1>9. IsInjective(E)
  BY <1>4, <1>5, <1>6, <1>8 DEF IsInjective
<1> DEFINE stop(k) == IF k \in 1 .. n THEN E[k] ELSE head
<1>10. \A k \in 0 .. n : link[at[k]] = stop(k + 1)
  <2>1. ASSUME NEW k \in 0 .. n - 1
        PROVE  link[at[k]] = stop(k + 1)
    BY <1>4, <1>5, <2>1
  <2>2. link[at[n]] = stop(n + 1)
    BY <1>5
  <2>3. \A k \in 0 .. n : k = n \/ k \in 0 .. n - 1
    BY <1>5
  <2>4. QED
    BY <2>1, <2>2, <2>3
<1>12. \A k \in 1 .. n : E[k] = at[k] /\ E[k] \in live
  BY <1>4, <1>5, <1>6
<1>13. link[head] = stop(1) /\ (link[head] # head => link[link[head]] = stop(2))
  <2>1. link[head] = stop(1)
    <3>1. 0 \in 0 .. n /\ 0 + 1 = 1
      BY <1>5
    <3>2. QED
      BY <1>5, <1>10, <3>1
  <2>2. ASSUME link[head] # head
        PROVE  link[link[head]] = stop(2)
    <3>1. 1 \in 1 .. n
      BY <2>1, <2>2
    <3>2. link[head] = at[1] /\ 1 \in 0 .. n /\ 1 + 1 = 2
      BY <1>6, <1>12, <2>1, <3>1
    <3>3. QED
      BY <1>10, <3>2
  <2>3. QED
    BY <2>1, <2>2
<1>14. link[head] \in Nodes /\ link[link[head]] \in Nodes /\ head \in live
  BY <1>2, <1>3 DEF OneToOne
<1> DEFINE r == [on |-> TRUE, head |-> head, dir |-> dir, pos |-> link[head],
                 n |-> link[link[head]], expected |-> E, visited |-> <<>>]
<1>15. r \in [on : {TRUE}, head : LiveHeads', dir : {"next", "prev"}, pos : Nodes,
              n : Nodes \cup {NULL}, expected : Seq(Entries), visited : Seq(Entries)]
  <2>1. head \in LiveHeads' /\ <<>> \in Seq(Entries) /\ TRUE \in {TRUE}
    BY <1>2 DEF LiveHeads
  <2>2. QED
    BY <1>8, <1>14, <2>1
<1>16. /\ SubSeq(E, 1, 0) = <<>> /\ Len(<<>>) = 0 /\ 0 <= Len(E)
       /\ 0 + 1 = 1 /\ 0 + 2 = 2
  BY <1>8, <1>5
<1> HIDE DEF stop
<1>17. /\ iter' = r /\ r.expected = E /\ r.visited = <<>> /\ r.pos = link[head]
       /\ r.head = head /\ r.n = link[link[head]] /\ r.dir = dir
  BY <1>2
<1>18. /\ Len(iter'.visited) = 0 /\ iter'.expected = E /\ iter'.head = head
       /\ iter'.pos = link[head] /\ iter'.n = link[link[head]] /\ heap'[iter'.dir] = link
  BY <1>2, <1>16, <1>17 DEF link
<1>19. ASSUME NEW k \in 0 + 1 .. n
       PROVE  E[k] \in live' /\ link[E[k]] = IF k + 1 \in DOMAIN E THEN E[k + 1] ELSE head
  <2>1. k \in 1 .. n /\ k \in 0 .. n
    OBVIOUS
  <2>2. QED
    BY <1>2, <1>8, <1>10, <1>12, <2>1 DEF stop
<1> HIDE DEF r
<1>20. iter' \in [on : {TRUE}, head : LiveHeads', dir : {"next", "prev"}, pos : Nodes,
                  n : Nodes \cup {NULL}, expected : Seq(Entries), visited : Seq(Entries)]
  BY <1>15, <1>17
<1>21. /\ iter'.visited = SubSeq(iter'.expected, 1, Len(iter'.visited))
       /\ Len(iter'.visited) <= Len(iter'.expected)
       /\ \A j, k \in Len(iter'.visited) + 1 .. Len(iter'.expected) :
            iter'.expected[j] = iter'.expected[k] => j = k
  <2>1. iter'.visited = <<>>
    BY <1>17
  <2>2. \A j, k \in 0 + 1 .. n : E[j] = E[k] => j = k
    BY <1>5, <1>8, <1>9 DEF IsInjective
  <2>3. QED
    BY <1>8, <1>16, <1>18, <2>1, <2>2
<1>22. (iter.pos = StopAt(Len(iter.visited) + 1)
        /\ (iter.pos # iter.head => iter.n = StopAt(Len(iter.visited) + 2)))'
  BY <1>8, <1>13, <1>16, <1>18 DEF StopAt, stop
<1>23. (\A k \in Len(iter.visited) + 1 .. Len(iter.expected) :
          iter.expected[k] \in live /\ heap[iter.dir][iter.expected[k]] = StopAt(k + 1))'
  BY <1>8, <1>18, <1>19 DEF StopAt
<1>24. QED
  BY <1>20, <1>21, <1>22, <1>23 DEF Running

\* The entry the loop is at, and those it has still to visit.
LEMMA LoopPlace ==
  ASSUME RingInv, Running, iter.pos # iter.head
  PROVE  /\ Len(iter.visited) \in Nat /\ Len(iter.expected) \in Nat
         /\ Len(iter.visited) + 1 \in 1 .. Len(iter.expected)
         /\ iter.pos = iter.expected[Len(iter.visited) + 1]
         /\ iter.pos \in Entries \cap live
<1> DEFINE m == Len(iter.visited)
           N == Len(iter.expected)
<1>1. /\ iter.expected \in Seq(Entries) /\ iter.visited \in Seq(Entries) /\ m <= N
      /\ iter.pos = StopAt(m + 1)
      /\ \A k \in m + 1 .. N : iter.expected[k] \in live
  BY DEF Running
<1>2. m \in Nat /\ N \in Nat /\ DOMAIN iter.expected = 1 .. N
  BY <1>1
<1>3. m + 1 \in 1 .. N /\ iter.pos = iter.expected[m + 1]
  BY <1>1, <1>2 DEF StopAt
<1>4. m + 1 \in m + 1 .. N
  BY <1>2, <1>3
<1>5. iter.expected[m + 1] \in Entries /\ iter.expected[m + 1] \in live
  BY <1>1, <1>2, <1>3, <1>4
<1>6. QED
  BY <1>2, <1>3, <1>5

\* After the body, links of entries still to be visited are what they were.
LEMMA BodyRight ==
  ASSUME RingInv, Running, iter.pos # iter.head, LoopTurn
  PROVE  /\ RingInv' /\ LiveHeads' = LiveHeads
         /\ \A k \in Len(iter.visited) + 2 .. Len(iter.expected) :
              /\ iter.expected[k] \in live'
              /\ heap'[iter.dir][iter.expected[k]] = StopAt(k + 1)
<1> DEFINE m == Len(iter.visited)
           N == Len(iter.expected)
           E == iter.expected
           e == iter.pos
           dir == iter.dir
           kept(h) == \A k \in m + 2 .. N : h[dir][E[k]] = heap[dir][E[k]]
<1>1. /\ m \in Nat /\ N \in Nat /\ m + 1 \in 1 .. N /\ e = E[m + 1] /\ e \in Entries \cap live
  BY LoopPlace
<1>2. /\ E \in Seq(Entries) /\ iter.head \in LiveHeads /\ dir \in {"next", "prev"}
      /\ \A j, k \in m + 1 .. N : E[j] = E[k] => j = k
      /\ iter.n = StopAt(m + 2)
      /\ \A k \in m + 1 .. N : E[k] \in live /\ heap[dir][E[k]] = StopAt(k + 1)
  BY DEF Running
<1>3. RingsOK(heap, live) /\ DOMAIN E = 1 .. N /\ \A k \in m + 2 .. N : k \in 1 .. N /\ k \in m + 1 .. N
  BY <1>1, <1>2 DEF RingInv
<1>4. ASSUME NEW k \in m + 2 .. N
      PROVE  /\ E[k] \in live /\ E[k] \in Entries /\ E[k] # e /\ heap[dir][E[k]] # e
             /\ heap[dir][E[k]] \in Entries \cup {iter.head}
  <2>1. /\ E[k] \in live /\ E[k] \in Entries /\ k # m + 1 /\ k + 1 # m + 1
        /\ k \in m + 1 .. N /\ m + 1 \in m + 1 .. N
    BY <1>1, <1>2, <1>3, <1>4
  <2>2. E[k] # e
    BY <1>1, <1>2, <1>3, <2>1
  <2>3. heap[dir][E[k]] = IF k + 1 \in 1 .. N THEN E[k + 1] ELSE iter.head
    BY <1>2, <1>3 DEF StopAt
  <2>4. CASE k + 1 \in 1 .. N
    <3>1. E[k + 1] # e /\ E[k + 1] \in Entries
      <4>1. k + 1 \in m + 1 .. N
        BY <1>1, <1>2, <1>3, <2>1, <2>4
      <4>2. QED
        BY <1>1, <1>2, <1>3, <2>1, <2>4, <4>1
    <3>2. QED
      BY <2>1, <2>2, <2>3, <2>4, <3>1
  <2>5. CASE ~ (k + 1 \in 1 .. N)
    <3>1. iter.head # e
      OBVIOUS
    <3>2. QED
      BY <2>1, <2>2, <2>3, <2>5, <3>1
  <2>6. QED
    BY <2>4, <2>5
<1>a. ASSUME NEW x \in live, x # e, heap[dir][x] # e
      PROVE  /\ list_del(heap, e)[dir][x] = heap[dir][x]
             /\ list_del_init(heap, e)[dir][x] = heap[dir][x]
             /\ \A g \in Heads \cap live :
                  /\ g # x /\ (heap[dir][x] # g \/ dir = "next") =>
                       list_move(heap, e, g)[dir][x] = heap[dir][x]
                  /\ g # x /\ (heap[dir][x] # g \/ dir = "prev") =>
                       list_move_tail(heap, e, g)[dir][x] = heap[dir][x]
  <2> DEFINE b == dir
             c == e
  <2>1. b \in {"next", "prev"} /\ c \in Entries \cap live /\ x # c /\ heap[b][x] # c
    BY <1>1, <1>2, <1>a
  <2> HIDE DEF b, c
  <2>2. /\ list_del(heap, c)[b][x] = heap[b][x]
        /\ list_del_init(heap, c)[b][x] = heap[b][x]
        /\ \A g \in Heads \cap live :
                  /\ g # x /\ (heap[b][x] # g \/ b = "next") =>
                       list_move(heap, c, g)[b][x] = heap[b][x]
                  /\ g # x /\ (heap[b][x] # g \/ b = "prev") =>
                       list_move_tail(heap, c, g)[b][x] = heap[b][x]
    BY <1>3, <2>1, BodyKeepsLinks
  <2>3. QED
    BY <2>2 DEF b, c
<1>5. kept(list_del(heap, e)) /\ kept(list_del_init(heap, e))
  BY <1>4, <1>a
<1> DEFINE moved(call, g) == IF call = "list_move" THEN list_move(heap, e, g)
                             ELSE list_move_tail(heap, e, g)
<1>6. \A call \in {"list_move", "list_move_tail"}, g \in LiveHeads :
        ~ Again(call, g) => kept(moved(call, g))
  <2>1. SUFFICES ASSUME NEW call \in {"list_move", "list_move_tail"}, NEW g \in LiveHeads,
                        ~ Again(call, g), NEW k \in m + 2 .. N
                 PROVE  moved(call, g)[dir][E[k]] = heap[dir][E[k]]
    OBVIOUS
  <2>2. g \in Heads \cap live /\ g # E[k]
    BY <1>4, <2>1, HeadsAreNoEntries DEF LiveHeads
  <2>3. E[k] \in live /\ E[k] # e /\ heap[dir][E[k]] # e
    BY <1>4
  <2>4. iter.n # iter.head
    <3>1. m + 2 \in 1 .. N
      BY <1>1
    <3>2. iter.n \in Entries
      BY <1>2, <1>3, <3>1 DEF StopAt
    <3>3. QED
      BY <1>2, <3>2, HeadsAreNoEntries DEF LiveHeads
  <2>5. \/ heap[dir][E[k]] # g
        \/ dir = "next" /\ call = "list_move"
        \/ dir = "prev" /\ call = "list_move_tail"
    <3>1. CASE g = iter.head
      BY <1>2, <2>1, <2>4, <3>1 DEF Again
    <3>2. CASE g # iter.head
      BY <1>4, <2>2, <3>2, HeadsAreNoEntries
    <3>3. QED
      BY <3>1, <3>2
  <2>6. /\ heap[dir][E[k]] # g \/ dir = "next" => list_move(heap, e, g)[dir][E[k]] = heap[dir][E[k]]
        /\ heap[dir][E[k]] # g \/ dir = "prev" => list_move_tail(heap, e, g)[dir][E[k]] = heap[dir][E[k]]
    BY <1>a, <2>2, <2>3
  <2>7. QED
    BY <2>5, <2>6
<1> HIDE DEF kept, moved
<1>7. \/ heap' = heap /\ live' = live
      \/ heap' = list_del(heap, e) /\ live' = live \ {e}
      \/ heap' = list_del_init(heap, e) /\ live' = live
      \/ \E call \in {"list_move", "list_move_tail"}, g \in LiveHeads :
           ~ Again(call, g) /\ heap' = moved(call, g) /\ live' = live
  BY DEF LoopTurn, MoveEntry, moved
<1>8. RingsOK(list_del(heap, e), live \ {e}) /\ RingsOK(list_del_init(heap, e), live)
  BY <1>1, <1>3, DelOK, DelInitOK
<1>9. \A call, g : g \in LiveHeads => RingsOK(moved(call, g), live)
  BY <1>1, <1>3, MoveOK DEF LiveHeads, moved
<1>10. RingInv'
  <2>1. RingsOK(heap', live')
    BY <1>3, <1>7, <1>8, <1>9
  <2>2. QED
    BY <2>1 DEF RingInv
<1>11. live' \in {live, live \ {e}}
  BY <1>7
<1>12. LiveHeads' = LiveHeads
  BY <1>1, <1>11, HeadsAreNoEntries DEF LiveHeads
<1>13. kept(heap')
  <2>1. kept(heap)
    BY DEF kept
  <2>2. QED
    BY <1>5, <1>6, <1>7, <2>1
<1>14. ASSUME NEW k \in m + 2 .. N
       PROVE  E[k] \in live' /\ heap'[dir][E[k]] = StopAt(k + 1)
  <2>1. E[k] \in live'
    BY <1>4, <1>11
  <2>2. heap'[dir][E[k]] = heap[dir][E[k]]
    BY <1>13 DEF kept
  <2>3. QED
    BY <1>2, <1>3, <2>1, <2>2
<1>15. QED
  BY <1>10, <1>12, <1>14

\* The loop goes on if what it has still to visit is linked in its order.
LEMMA AdvanceRuns ==
  ASSUME Running, iter.pos # iter.head, NEW F, F \in Seq(Entries), Advance(F),
         heap' \in Heaps, LiveHeads' = LiveHeads, iter.pos \in Entries,
         Len(iter.visited) + 1 <= Len(F),
         SubSeq(F, 1, Len(iter.visited) + 1) = Append(iter.visited, iter.pos),
         \A j, k \in Len(iter.visited) + 2 .. Len(F) : F[j] = F[k] => j = k,
         iter.n = IF Len(iter.visited) + 2 \in 1 .. Len(F) THEN F[Len(iter.visited) + 2]
                  ELSE iter.head,
         \A k \in Len(iter.visited) + 2 .. Len(F) :
           /\ F[k] \in live'
           /\ heap'[iter.dir][F[k]] = IF k + 1 \in 1 .. Len(F) THEN F[k + 1] ELSE iter.head
  PROVE  Running'
<1> DEFINE m == Len(iter.visited)
           N == Len(F)
           dir == iter.dir
           next == heap'[dir][iter.n]
<1>1. /\ iter \in [on : {TRUE}, head : LiveHeads, dir : {"next", "prev"}, pos : Nodes,
                  n : Nodes \cup {NULL}, expected : Seq(Entries), visited : Seq(Entries)]
      /\ iter.visited \in Seq(Entries) /\ iter.head \in LiveHeads /\ dir \in {"next", "prev"}
  BY DEF Running
<1>2. m \in Nat /\ N \in Nat /\ DOMAIN F = 1 .. N /\ m + 1 \in 1 .. N
  BY <1>1
<1>3. /\ iter'.on = TRUE /\ iter'.head = iter.head /\ iter'.dir = dir /\ iter'.expected = F
      /\ iter'.visited = Append(iter.visited, iter.pos) /\ iter'.pos = iter.n /\ iter'.n = next
  BY <1>1 DEF Advance
<1>4. iter.n \in Nodes /\ (iter.n # iter.head => m + 2 \in 1 .. N /\ iter.n = F[m + 2])
  <2>1. \A k \in 1 .. N : F[k] \in Nodes
    BY <1>2, HeadsAreNoEntries
  <2>2. iter.head \in Nodes
    BY <1>1, HeadsAreNoEntries DEF LiveHeads
  <2>3. QED
    BY <2>1, <2>2
<1>5. next \in Nodes \cup {NULL}
  BY <1>1, <1>4 DEF Heaps
<1>6. Append(iter.visited, iter.pos) \in Seq(Entries) /\ Len(Append(iter.visited, iter.pos)) = m + 1
  BY <1>1
<1>7. iter' \in [on : {TRUE}, head : LiveHeads', dir : {"next", "prev"}, pos : Nodes,
                 n : Nodes \cup {NULL}, expected : Seq(Entries), visited : Seq(Entries)]
  <2>1. iter' = [iter EXCEPT !.visited = Append(iter.visited, iter.pos), !.expected = F,
                             !.pos = iter.n, !.n = next]
    BY DEF Advance
  <2> HIDE DEF next
  <2>2. QED
    BY <1>1, <1>4, <1>5, <1>6, <2>1
<1>8. Len(iter'.visited) = m + 1 /\ m + 1 + 1 = m + 2 /\ m + 1 + 2 = m + 3
  BY <1>2, <1>3, <1>6
<1>9. /\ iter'.visited = SubSeq(iter'.expected, 1, Len(iter'.visited))
      /\ Len(iter'.visited) <= Len(iter'.expected)
      /\ \A j, k \in Len(iter'.visited) + 1 .. Len(iter'.expected) :
           iter'.expected[j] = iter'.expected[k] => j = k
  BY <1>2, <1>3, <1>8
<1>10. (iter.pos = StopAt(Len(iter.visited) + 1))'
  BY <1>2, <1>3, <1>8 DEF StopAt
<1>11. (iter.pos # iter.head => iter.n = StopAt(Len(iter.visited) + 2))'
  <2>1. ASSUME iter.n # iter.head
        PROVE  next = IF m + 3 \in 1 .. N THEN F[m + 3] ELSE iter.head
    <3>1. m + 2 \in m + 2 .. N /\ m + 2 + 1 = m + 3 /\ iter.n = F[m + 2]
      BY <1>2, <1>4, <2>1
    <3>2. QED
      BY <3>1
  <2> HIDE DEF next
  <2>2. QED
    BY <1>2, <1>3, <1>8, <2>1 DEF StopAt
<1>12. (\A k \in Len(iter.visited) + 1 .. Len(iter.expected) :
          iter.expected[k] \in live /\ heap[iter.dir][iter.expected[k]] = StopAt(k + 1))'
  BY <1>2, <1>3, <1>8 DEF StopAt
<1>13. QED
  BY <1>7, <1>9, <1>10, <1>11, <1>12 DEF Running

\* What was visited, with the entry the loop is at, is the beginning of the rest.
LEMMA OneMore ==
  ASSUME NEW E \in Seq(Entries), NEW m \in Nat, m + 1 <= Len(E)
  PROVE  Append(SubSeq(E, 1, m), E[m + 1]) = SubSeq(E, 1, m + 1)
  OBVIOUS

LEMMA LoopTurnRuns ==
  ASSUME RingInv, Running, LoopTurn
  PROVE  RingInv' /\ Running'
<1> DEFINE m == Len(iter.visited)
           E == iter.expected
           N == Len(E)
<1>1. iter.pos # iter.head /\ Advance(E)
  BY DEF LoopTurn
<1>2. /\ m \in Nat /\ N \in Nat /\ m + 1 \in 1 .. N /\ iter.pos = E[m + 1]
      /\ iter.pos \in Entries \cap live
  BY <1>1, LoopPlace
<1>3. /\ RingInv' /\ LiveHeads' = LiveHeads
      /\ \A k \in m + 2 .. N : E[k] \in live' /\ heap'[iter.dir][E[k]] = StopAt(k + 1)
  BY <1>1, BodyRight
<1>4. /\ E \in Seq(Entries) /\ iter.visited = SubSeq(E, 1, m) /\ iter.n = StopAt(m + 2)
      /\ \A j, k \in m + 1 .. N : E[j] = E[k] => j = k
  BY <1>1 DEF Running
<1>5. \A k : StopAt(k) = IF k \in 1 .. N THEN E[k] ELSE iter.head
  BY <1>4 DEF StopAt
<1>6. heap' \in Heaps
  BY <1>3 DEF RingInv, RingsOK, Rings
<1>7. SubSeq(E, 1, m + 1) = Append(iter.visited, iter.pos) /\ m + 1 <= N
  <2>1. m + 1 <= N
    BY <1>2
  <2>2. Append(SubSeq(E, 1, m), E[m + 1]) = SubSeq(E, 1, m + 1)
    BY <1>2, <1>4, <2>1, OneMore
  <2>3. QED
    BY <1>2, <1>4, <2>1, <2>2
<1>8. \A j, k \in m + 2 .. N : E[j] = E[k] => j = k
  BY <1>2, <1>4
<1>9. iter.n = IF m + 2 \in 1 .. N THEN E[m + 2] ELSE iter.head
  BY <1>4, <1>5
<1>10. \A k \in m + 2 .. N :
         E[k] \in live' /\ heap'[iter.dir][E[k]] = IF k + 1 \in 1 .. N THEN E[k + 1] ELSE iter.head
  BY <1>3, <1>5
<1> HIDE DEF E
<1>11. Running'
  BY <1>1, <1>2, <1>3, <1>4, <1>6, <1>7, <1>8, <1>9, <1>10, AdvanceRuns
<1>12. QED
  BY <1>3, <1>11

\* The same with the entry at the end of what the loop has still to visit.
LEMMA LoopTurnAgainRuns ==
  ASSUME RingInv, Running, LoopTurnAgain
  PROVE  RingInv' /\ Running'
<1> DEFINE m == Len(iter.visited)
           E == iter.expected
           N == Len(E)
           e == iter.pos
           g == iter.head
           dir == iter.dir
           F == Append(E, e)
<1>1. e # g /\ Advance(F) /\ live' = live
  BY DEF LoopTurnAgain, MoveEntry
<1>2. m \in Nat /\ N \in Nat /\ m + 1 \in 1 .. N /\ e = E[m + 1] /\ e \in Entries \cap live
  BY <1>1, LoopPlace
<1>3. /\ E \in Seq(Entries) /\ iter.visited = SubSeq(E, 1, m) /\ iter.n = StopAt(m + 2)
      /\ g \in Heads \cap live /\ dir \in {"next", "prev"}
      /\ \A j, k \in m + 1 .. N : E[j] = E[k] => j = k
      /\ \A k \in m + 1 .. N : E[k] \in live /\ heap[dir][E[k]] = StopAt(k + 1)
  BY <1>1 DEF Running, LiveHeads
<1>4. \A k : StopAt(k) = IF k \in 1 .. N THEN E[k] ELSE g
  BY <1>3 DEF StopAt
<1>5. /\ iter.n # g
      /\ \/ dir = "next" /\ heap' = list_move_tail(heap, e, g)
         \/ dir = "prev" /\ heap' = list_move(heap, e, g)
  BY <1>3 DEF LoopTurnAgain, Again, MoveEntry
<1>6. m + 2 \in 1 .. N /\ iter.n = E[m + 2]
  BY <1>3, <1>4, <1>5
<1>7. RingsOK(heap, live)
  BY DEF RingInv
<1>8. RingInv' /\ LiveHeads' = LiveHeads /\ heap' \in Heaps
  <2>1. RingsOK(heap', live')
    BY <1>1, <1>2, <1>3, <1>5, <1>7, MoveOK
  <2>2. QED
    BY <1>1, <2>1 DEF RingInv, LiveHeads, RingsOK, Rings
\* The entries between it and the end lead where they led, the last one to it.
<1>9. ASSUME NEW k \in m + 2 .. N
      PROVE  /\ E[k] \in Entries \cap live /\ E[k] # e
             /\ heap'[dir][E[k]] = IF k = N THEN e ELSE E[k + 1]
  <2>1. k \in m + 1 .. N /\ k \in 1 .. N /\ m + 1 \in m + 1 .. N /\ k # m + 1
    BY <1>2
  <2>2. E[k] \in Entries \cap live /\ E[k] # e
    BY <1>2, <1>3, <2>1
  <2>3. CASE k = N
    <3>1. heap[dir][E[k]] = g
      BY <1>2, <1>3, <1>4, <2>1, <2>3
    <3> DEFINE x == E[k]
    <3>2. x \in Entries \cap live /\ x # e
      BY <2>2
    <3> HIDE DEF x, e, g, dir
    <3>3. /\ heap.next[x] = g => list_move_tail(heap, e, g).next[x] = e
          /\ heap.prev[x] = g => list_move(heap, e, g).prev[x] = e
      BY <1>2, <1>3, <1>7, <3>2, EndLinks
    <3>4. heap'[dir][x] = e
      BY <1>5, <3>1, <3>3 DEF x
    <3>5. QED
      BY <2>2, <2>3, <3>4 DEF x, e, g, dir
  <2>4. CASE k # N
    <3>1. k + 1 \in m + 1 .. N /\ k + 1 \in 1 .. N /\ k + 1 # m + 1
      BY <1>2, <2>1, <2>4
    <3>2. heap[dir][E[k]] = E[k + 1]
      BY <1>3, <1>4, <2>1, <3>1
    <3>3. E[k + 1] # e /\ E[k + 1] # g
      BY <1>2, <1>3, <2>1, <3>1, HeadsAreNoEntries
    <3> DEFINE x == E[k]
    <3>4. x \in live /\ x # e /\ g # x /\ heap[dir][x] # e /\ heap[dir][x] # g
      BY <1>3, <2>2, <3>2, <3>3, HeadsAreNoEntries
    <3> HIDE DEF x, e, g, dir
    <3>5. /\ list_move(heap, e, g)[dir][x] = heap[dir][x]
          /\ list_move_tail(heap, e, g)[dir][x] = heap[dir][x]
      BY <1>2, <1>3, <1>7, <3>4, BodyKeepsLinks
    <3>6. heap'[dir][x] = heap[dir][x]
      BY <1>5, <3>5
    <3>7. QED
      BY <2>2, <2>4, <3>2, <3>6 DEF x, e, g, dir
  <2>5. QED
    BY <2>3, <2>4
<1>10. heap'[dir][e] = g
  <2> DEFINE x == E[N]
  <2>1. N \in m + 1 .. N /\ N \in m + 2 .. N /\ ~ (N + 1 \in 1 .. N)
    BY <1>2, <1>6
  <2>2. x \in Entries \cap live /\ x # e /\ heap[dir][x] = g
    BY <1>3, <1>4, <1>9, <2>1
  <2> HIDE DEF x, e, g, dir
  <2>3. /\ heap.next[x] = g => list_move_tail(heap, e, g).next[e] = g
        /\ heap.prev[x] = g => list_move(heap, e, g).prev[e] = g
    BY <1>2, <1>3, <1>7, <2>2, EndLinks
  <2>4. QED
    BY <1>5, <2>2, <2>3
<1> HIDE DEF e, g, dir
<1>11. /\ F \in Seq(Entries) /\ Len(F) = N + 1 /\ F[N + 1] = e
       /\ \A k \in 1 .. N : F[k] = E[k]
  BY <1>2, <1>3
<1> HIDE DEF F
<1>12. SubSeq(F, 1, m + 1) = Append(iter.visited, e) /\ m + 1 <= Len(F)
  <2>1. m + 1 <= Len(F) /\ F[m + 1] = e
    <3>1. m + 1 \in 1 .. N /\ e = E[m + 1] /\ m + 1 <= N + 1
      BY <1>2
    <3>2. QED
      BY <1>11, <3>1
  <2>2. Append(SubSeq(F, 1, m), F[m + 1]) = SubSeq(F, 1, m + 1)
    BY <1>2, <1>11, <2>1, OneMore
  <2>3. SubSeq(F, 1, m) = SubSeq(E, 1, m)
    BY <1>2, <1>3, <1>11
  <2>4. QED
    BY <1>3, <2>1, <2>2, <2>3
<1>13. \A k \in m + 2 .. N + 1 : k = N + 1 \/ (k \in m + 2 .. N /\ k \in 1 .. N /\ k \in m + 1 .. N)
  <2>1. m \in Nat /\ N \in Nat
    BY <1>2
  <2> HIDE DEF m, N
  <2>2. QED
    BY <2>1
<1>14. \A j, k \in m + 2 .. Len(F) : F[j] = F[k] => j = k
  <2>1. SUFFICES ASSUME NEW j \in m + 2 .. N + 1, NEW k \in m + 2 .. N + 1, F[j] = F[k]
                 PROVE  j = k
    BY <1>11
  <2>2. /\ j # N + 1 => F[j] = E[j] /\ E[j] # e
        /\ k # N + 1 => F[k] = E[k] /\ E[k] # e
    BY <1>9, <1>11, <1>13
  <2>3. j # N + 1 /\ k # N + 1 => j \in m + 1 .. N /\ k \in m + 1 .. N
    BY <1>13
  <2>4. QED
    BY <1>3, <1>11, <2>1, <2>2, <2>3
<1>15. iter.n = IF m + 2 \in 1 .. Len(F) THEN F[m + 2] ELSE g
  BY <1>2, <1>6, <1>11
<1>16. ASSUME NEW k \in m + 2 .. Len(F)
       PROVE  /\ F[k] \in live'
              /\ heap'[dir][F[k]] = IF k + 1 \in 1 .. Len(F) THEN F[k + 1] ELSE g
  <2>1. CASE k = N + 1
    <3>1. ~ (k + 1 \in 1 .. Len(F)) /\ F[k] = e
      BY <1>2, <1>11, <2>1
    <3>2. QED
      BY <1>1, <1>2, <1>10, <3>1
  <2>2. CASE k # N + 1
    <3>1. k \in m + 2 .. N /\ k \in 1 .. N /\ k + 1 \in 1 .. Len(F)
      BY <1>2, <1>11, <1>13, <2>2
    <3>2. F[k] \in live' /\ heap'[dir][F[k]] = IF k = N THEN e ELSE E[k + 1]
      BY <1>1, <1>9, <1>11, <3>1
    <3>3. F[k + 1] = IF k = N THEN e ELSE E[k + 1]
      <4>1. k # N => k + 1 \in 1 .. N
        BY <1>2, <3>1
      <4>2. QED
        BY <1>11, <4>1
    <3>4. QED
      BY <3>1, <3>2, <3>3
  <2>3. QED
    BY <2>1, <2>2
<1>17. Running'
  BY <1>1, <1>2, <1>8, <1>11, <1>12, <1>14, <1>15, <1>16, AdvanceRuns DEF e, g, dir
<1>18. QED
  BY <1>8, <1>17

LEMMA RingsStart == Init => RingInv /\ LoopInv
<1> SUFFICES ASSUME Init PROVE RingInv /\ LoopInv
  OBVIOUS
<1>1. /\ heap = [next |-> [x \in Nodes |-> NULL], prev |-> [x \in Nodes |-> NULL]]
      /\ live = {} /\ iter = [on |-> FALSE]
  BY DEF Init, NoLoop
<1>2. LoopInv
  BY <1>1 DEF LoopInv
<1>3. heap \in Heaps
  BY <1>1 DEF Heaps
<1>4. Rings(heap, live, [x \in Nodes |-> NULL]) /\ HeadsApart(live, [x \in Nodes |-> NULL])
  BY <1>1, <1>3 DEF Rings, HeadsApart
<1>5. QED
  BY <1>2, <1>4, OwnerFound DEF RingInv

LEMMA RingsStep == RingInv /\ LoopInv /\ [Next]_vars => RingInv' /\ LoopInv'
<1> SUFFICES ASSUME RingInv, LoopInv, [Next]_vars
             PROVE  RingInv' /\ LoopInv'
  OBVIOUS
<1>1. CASE Calls
  <2>1. RingInv' /\ ~ iter.on /\ iter' = iter
    BY <1>1, CallsKeepRings
  <2>2. QED
    BY <2>1 DEF LoopInv
<1>2. ASSUME NEW head \in Heads, NEW dir \in {"next", "prev"}, StartLoop(head, dir)
      PROVE  RingInv' /\ LoopInv'
  <2>1. heap' = heap /\ live' = live
    BY <1>2 DEF StartLoop
  <2>2. RingInv'
    BY <2>1 DEF RingInv
  <2>3. Running'
    BY <1>2, StartLoopRuns
  <2>4. QED
    BY <2>2, <2>3 DEF LoopInv
<1>3. CASE LoopTurn
  <2>1. Running
    BY <1>3 DEF LoopInv, LoopTurn
  <2>2. QED
    BY <1>3, <2>1, LoopTurnRuns DEF LoopInv
<1>4. CASE LoopTurnAgain
  <2>1. Running
    BY <1>4 DEF LoopInv, LoopTurnAgain
  <2>2. QED
    BY <1>4, <2>1, LoopTurnAgainRuns DEF LoopInv
<1>5. CASE EndLoop
  <2>1. heap' = heap /\ live' = live /\ iter' = [on |-> FALSE]
    BY <1>5 DEF EndLoop, NoLoop
  <2>2. QED
    BY <2>1 DEF RingInv, LoopInv
<1>6. CASE UNCHANGED vars
  <2>1. heap' = heap /\ live' = live /\ iter' = iter
    BY <1>6 DEF vars
  <2>2. QED
    BY <2>1 DEF RingInv, LoopInv, Running, StopAt, LiveHeads
<1>7. QED
  BY <1>1, <1>2, <1>3, <1>4, <1>5, <1>6 DEF Next, Calls

LEMMA RingsStayClosed == RingInv => RingsClosed
  BY DEF RingInv, RingsOK, Rings, RingsClosed

LEMMA LoopSees == LoopInv => SafeLoopVisitsAll
<1> SUFFICES ASSUME iter.on, Running
             PROVE  IF iter.pos = iter.head THEN iter.visited = iter.expected
                    ELSE IsPrefix(Append(iter.visited, iter.pos), iter.expected)
  BY DEF LoopInv, SafeLoopVisitsAll
<1> DEFINE m == Len(iter.visited)
           N == Len(iter.expected)
           E == iter.expected
<1>1. /\ E \in Seq(Entries) /\ iter.visited \in Seq(Entries) /\ m <= N
      /\ iter.visited = SubSeq(E, 1, m) /\ iter.pos = StopAt(m + 1) /\ iter.head \in Heads
  BY DEF Running, LiveHeads
<1>2. m \in Nat /\ N \in Nat /\ DOMAIN E = 1 .. N
  BY <1>1
<1>3. CASE iter.pos = iter.head
  <2>1. ~ (m + 1 \in 1 .. N)
    <3>1. SUFFICES ASSUME m + 1 \in 1 .. N PROVE FALSE
      OBVIOUS
    <3>2. iter.pos = E[m + 1] /\ E[m + 1] \in Entries
      BY <1>1, <1>2, <3>1 DEF StopAt
    <3>3. QED
      BY <1>1, <1>3, <3>2, HeadsAreNoEntries
  <2>2. m = N
    BY <1>1, <1>2, <2>1
  <2>3. SubSeq(E, 1, N) = E
    BY <1>1, <1>2
  <2>4. QED
    BY <1>1, <1>3, <2>2, <2>3
<1>4. CASE iter.pos # iter.head
  <2>1. m + 1 \in 1 .. N /\ iter.pos = E[m + 1]
    BY <1>1, <1>2, <1>4 DEF StopAt
  <2>2. Append(iter.visited, iter.pos) = SubSeq(E, 1, m + 1)
    BY <1>1, <1>2, <2>1
  <2>3. Len(SubSeq(E, 1, m + 1)) = m + 1 /\ m + 1 <= N
    BY <1>1, <1>2, <2>1
  <2>4. QED
    BY <1>4, <2>2, <2>3 DEF IsPrefix
<1>5. QED
  BY <1>3, <1>4

\* next and prev are inverse to each other on everything in use, whatever
\* functions are called, in the way their comments allow.
THEOREM RingsRight == Spec => []RingsClosed
  BY RingsStart, RingsStep, RingsStayClosed, PTL DEF Spec

\* A loop whose body deletes the entry it is at, or moves it to another list or
\* behind the loop, visits each entry that was on the list when it began, once
\* and in order; then those that its body put at the end still ahead, as often
\* as it did so, and no others.
THEOREM LoopsVisitAll == Spec => []SafeLoopVisitsAll
  BY RingsStart, RingsStep, LoopSees, PTL DEF Spec

-----------------------------------------------------------------------------
(* Sequences of entries, and the way along a link                          *)

\* The first of s, and the last, or what is beyond it.
FirstOf(s, b) == IF s = <<>> THEN b ELSE s[1]
LastOf(a, s) == IF s = <<>> THEN a ELSE s[Len(s)]

\* link leads from each entry of s to the next one, and from the last one to b.
Lead(link, s, b) ==
  \A k \in 1 .. Len(s) : link[s[k]] = IF k = Len(s) THEN b ELSE s[k + 1]

\* link leads from a through s to b.
Way(link, a, s, b) == link[a] = FirstOf(s, b) /\ Lead(link, s, b)

\* The type facts about a sequence of entries.
LEMMA Lengths ==
  ASSUME NEW s \in Seq(Entries)
  PROVE  Len(s) \in Nat /\ DOMAIN s = 1 .. Len(s) /\ (s = <<>> <=> Len(s) = 0)
         /\ \A k \in 1 .. Len(s) : s[k] \in Entries
  OBVIOUS

\* A sequence followed along the links, and then another.
LEMMA LeadJoin ==
  ASSUME NEW link, NEW u \in Seq(Entries), NEW v \in Seq(Entries), NEW b,
         Lead(link, u, FirstOf(v, b)), Lead(link, v, b)
  PROVE  Lead(link, u \o v, b) /\ FirstOf(u \o v, b) = FirstOf(u, FirstOf(v, b))
<1> DEFINE m == Len(u)
           n == Len(v)
<1>1. /\ m \in Nat /\ n \in Nat /\ u \o v \in Seq(Entries) /\ Len(u \o v) = m + n
      /\ \A k \in 1 .. m + n : (u \o v)[k] = IF k <= m THEN u[k] ELSE v[k - m]
  OBVIOUS
<1>2. u = <<>> <=> m = 0
  OBVIOUS
<1>3. v = <<>> <=> n = 0
  OBVIOUS
<1>4. u \o v = <<>> <=> m + n = 0
  BY <1>1
<1>5. FirstOf(u \o v, b) = FirstOf(u, FirstOf(v, b))
  <2>1. CASE m = 0 /\ n = 0
    BY <1>2, <1>3, <1>4, <2>1 DEF FirstOf
  <2>2. CASE m = 0 /\ n # 0
    <3>1. (u \o v)[1] = v[1]
      BY <1>1, <2>2
    <3>2. u = <<>> /\ v # <<>> /\ u \o v # <<>>
      BY <1>1, <1>2, <1>3, <1>4, <2>2
    <3>3. QED
      BY <3>1, <3>2 DEF FirstOf
  <2>3. CASE m # 0
    <3>1. (u \o v)[1] = u[1]
      BY <1>1, <2>3
    <3>2. u # <<>> /\ u \o v # <<>>
      BY <1>1, <1>2, <1>4, <2>3
    <3>3. QED
      BY <3>1, <3>2 DEF FirstOf
  <2>4. QED
    BY <2>1, <2>2, <2>3
<1>6. ASSUME NEW k \in 1 .. m + n
      PROVE  link[(u \o v)[k]] = IF k = m + n THEN b ELSE (u \o v)[k + 1]
  <2>1. CASE k < m
    <3>1. k \in 1 .. m /\ k # m /\ k # m + n /\ k + 1 <= m /\ k <= m /\ k + 1 \in 1 .. m + n
      BY <1>1, <2>1
    <3>2. link[u[k]] = u[k + 1]
      BY <3>1 DEF Lead
    <3>3. QED
      BY <1>1, <3>1, <3>2
  <2>2. CASE k = m
    <3>1. k \in 1 .. m /\ k <= m /\ ~ (k + 1 <= m) /\ (k + 1) - m = 1
          /\ (n = 0 <=> k = m + n) /\ (n # 0 => k + 1 \in 1 .. m + n)
      BY <1>1, <2>2
    <3>2. link[u[k]] = FirstOf(v, b)
      BY <2>2, <3>1 DEF Lead
    <3>3. FirstOf(v, b) = IF n = 0 THEN b ELSE v[1]
      BY <1>3 DEF FirstOf
    <3>4. (u \o v)[k] = u[k] /\ (n # 0 => (u \o v)[k + 1] = v[1])
      BY <1>1, <3>1
    <3>5. QED
      BY <3>1, <3>2, <3>3, <3>4
  <2>3. CASE k > m
    <3>1. /\ k - m \in 1 .. n /\ ~ (k <= m) /\ ~ (k + 1 <= m) /\ (k + 1) - m = (k - m) + 1
          /\ (k - m = n <=> k = m + n) /\ (k # m + n => k + 1 \in 1 .. m + n)
      BY <1>1, <2>3
    <3>2. link[v[k - m]] = IF k - m = n THEN b ELSE v[(k - m) + 1]
      BY <3>1 DEF Lead
    <3>3. (u \o v)[k] = v[k - m] /\ (k # m + n => (u \o v)[k + 1] = v[(k - m) + 1])
      BY <1>1, <3>1
    <3>4. QED
      BY <3>1, <3>2, <3>3
  <2>4. k < m \/ k = m \/ k > m
    BY <1>1
  <2>5. QED
    BY <2>1, <2>2, <2>3, <2>4
<1>7. QED
  BY <1>1, <1>5, <1>6 DEF Lead

\* The two parts of a sequence are followed along the links, too.
LEMMA LeadSplit ==
  ASSUME NEW link, NEW u \in Seq(Entries), NEW v \in Seq(Entries), NEW b,
         Lead(link, u \o v, b)
  PROVE  Lead(link, u, FirstOf(v, b)) /\ Lead(link, v, b)
<1> DEFINE m == Len(u)
           n == Len(v)
<1>1. /\ m \in Nat /\ n \in Nat /\ Len(u \o v) = m + n
      /\ \A k \in 1 .. m + n : (u \o v)[k] = IF k <= m THEN u[k] ELSE v[k - m]
  OBVIOUS
<1>2. v = <<>> <=> n = 0
  OBVIOUS
<1>3. \A k \in 1 .. m + n : link[(u \o v)[k]] = IF k = m + n THEN b ELSE (u \o v)[k + 1]
  BY <1>1 DEF Lead
<1>4. ASSUME NEW k \in 1 .. m
      PROVE  link[u[k]] = IF k = m THEN FirstOf(v, b) ELSE u[k + 1]
  <2>1. k \in 1 .. m + n /\ k <= m
    BY <1>1
  <2>2. link[u[k]] = IF k = m + n THEN b ELSE (u \o v)[k + 1]
    BY <1>1, <1>3, <2>1
  <2>3. CASE k < m
    <3>1. k # m /\ k # m + n /\ k + 1 <= m /\ k + 1 \in 1 .. m + n
      BY <1>1, <2>3
    <3>2. QED
      BY <1>1, <2>2, <3>1
  <2>4. CASE k = m
    <3>1. ~ (k + 1 <= m) /\ (k + 1) - m = 1 /\ (n = 0 <=> k = m + n)
          /\ (n # 0 => k + 1 \in 1 .. m + n)
      BY <1>1, <2>4
    <3>2. n # 0 => (u \o v)[k + 1] = v[1]
      BY <1>1, <3>1
    <3>3. FirstOf(v, b) = IF n = 0 THEN b ELSE v[1]
      BY <1>2 DEF FirstOf
    <3>4. QED
      BY <2>2, <2>4, <3>1, <3>2, <3>3
  <2>5. QED
    BY <1>1, <2>3, <2>4
<1>5. ASSUME NEW k \in 1 .. n
      PROVE  link[v[k]] = IF k = n THEN b ELSE v[k + 1]
  <2>1. k + m \in 1 .. m + n /\ ~ (k + m <= m) /\ (k + m) - m = k
        /\ (k + m = m + n <=> k = n)
        /\ (k # n => k + m + 1 \in 1 .. m + n /\ ~ (k + m + 1 <= m) /\ (k + m + 1) - m = k + 1)
    BY <1>1
  <2>2. (u \o v)[k + m] = v[k] /\ (k # n => (u \o v)[k + m + 1] = v[k + 1])
    BY <1>1, <2>1
  <2>3. QED
    BY <1>3, <2>1, <2>2
<1>6. QED
  BY <1>4, <1>5 DEF Lead

\* Where the way ends, link leads to its end.
LEMMA WayEnd ==
  ASSUME NEW link, NEW a, NEW s \in Seq(Entries), NEW b, Way(link, a, s, b)
  PROVE  link[LastOf(a, s)] = b
<1>1. CASE s = <<>>
  BY <1>1 DEF Way, FirstOf, LastOf
<1>2. CASE s # <<>>
  <2>1. Len(s) \in 1 .. Len(s)
    BY <1>2
  <2>2. QED
    BY <1>2, <2>1 DEF Way, Lead, LastOf
<1>3. QED
  BY <1>1, <1>2

\* A way that is followed by another.
LEMMA WayJoin ==
  ASSUME NEW link, NEW a, NEW u \in Seq(Entries), NEW v \in Seq(Entries), NEW b,
         Way(link, a, u, FirstOf(v, b)), Lead(link, v, b)
  PROVE  Way(link, a, u \o v, b)
  BY LeadJoin DEF Way

\* A way through the entry e.
LEMMA WayThrough ==
  ASSUME NEW link, NEW a, NEW u \in Seq(Entries), NEW e \in Entries, NEW v \in Seq(Entries), NEW b
  PROVE  Way(link, a, u \o <<e>> \o v, b) <=> Way(link, a, u, e) /\ Way(link, e, v, b)
<1> DEFINE w == <<e>> \o v
<1>1. w \in Seq(Entries) /\ u \o <<e>> \o v = u \o w /\ <<e>> \in Seq(Entries)
      /\ <<e>> # <<>> /\ <<e>>[1] = e /\ Len(<<e>>) = 1
  OBVIOUS
<1>2. \A c : FirstOf(<<e>>, c) = e
  BY <1>1 DEF FirstOf
<1>3. Lead(link, <<e>>, FirstOf(v, b)) <=> link[e] = FirstOf(v, b)
  BY <1>1 DEF Lead
<1>4. FirstOf(w, b) = e
  <2>1. w[1] = e /\ w # <<>>
    BY <1>1
  <2>2. QED
    BY <2>1 DEF FirstOf
<1>5. Lead(link, w, b) <=> Way(link, e, v, b)
  <2>1. Lead(link, w, b) => Lead(link, <<e>>, FirstOf(v, b)) /\ Lead(link, v, b)
    BY <1>1, LeadSplit
  <2>2. Lead(link, <<e>>, FirstOf(v, b)) /\ Lead(link, v, b) => Lead(link, w, b)
    BY <1>1, LeadJoin
  <2>3. QED
    BY <1>3, <2>1, <2>2 DEF Way
<1> HIDE DEF w
<1>6. Lead(link, u \o w, b) <=> Lead(link, u, e) /\ Lead(link, w, b)
  BY <1>1, <1>4, LeadJoin, LeadSplit
<1>7. FirstOf(u \o w, b) = FirstOf(u, e)
  <2>1. CASE u = <<>>
    <3>1. u \o w = w
      BY <1>1, <2>1
    <3>2. QED
      BY <1>4, <2>1, <3>1 DEF FirstOf
  <2>2. CASE u # <<>>
    <3>1. u \o w # <<>> /\ (u \o w)[1] = u[1]
      BY <1>1, <2>2
    <3>2. QED
      BY <2>2, <3>1 DEF FirstOf
  <2>3. QED
    BY <2>1, <2>2
<1>8. QED
  BY <1>1, <1>5, <1>6, <1>7 DEF Way

\* A way whose last link is changed.
LEMMA Redirected ==
  ASSUME NEW link, NEW new, NEW a, NEW s \in Seq(Entries), IsInjective(s), a \notin Range(s),
         NEW b, NEW c, Way(link, a, s, b), new[LastOf(a, s)] = c,
         \A x \in Range(s) \cup {a} : x # LastOf(a, s) => new[x] = link[x]
  PROVE  Way(new, a, s, c)
<1>1. Len(s) \in Nat /\ DOMAIN s = 1 .. Len(s) /\ (s = <<>> <=> Len(s) = 0)
  BY Lengths
<1>2. CASE s = <<>>
  BY <1>1, <1>2 DEF Way, Lead, FirstOf, LastOf
<1>3. CASE s # <<>>
  <2> DEFINE n == Len(s)
  <2>1. n \in 1 .. n /\ LastOf(a, s) = s[n] /\ 1 \in 1 .. n
    BY <1>1, <1>3 DEF LastOf
  <2>2. \A k \in 1 .. n : s[k] \in Range(s) /\ s[k] # a /\ (k # n => s[k] # s[n])
    BY <1>1, <2>1 DEF Range, IsInjective
  <2>3. new[a] = link[a]
    BY <2>1, <2>2
  <2>4. \A k \in 1 .. n : k # n => new[s[k]] = link[s[k]]
    BY <2>1, <2>2
  <2>5. new[s[n]] = c
    BY <2>1
  <2>6. QED
    BY <1>3, <2>3, <2>4, <2>5 DEF Way, Lead, FirstOf
<1>4. QED
  BY <1>2, <1>3

\* A way whose links are as they were.
LEMMA Untouched ==
  ASSUME NEW link, NEW new, NEW s \in Seq(Entries), NEW b, Lead(link, s, b),
         \A x \in Range(s) : new[x] = link[x]
  PROVE  Lead(new, s, b)
<1>1. \A k \in 1 .. Len(s) : s[k] \in Range(s)
  BY Lengths DEF Range
<1>2. QED
  BY <1>1 DEF Lead

\* Both are the same entries in the same order.
LEMMA SameSeq ==
  ASSUME NEW S, NEW s \in Seq(S), NEW t \in Seq(S), Len(s) = Len(t),
         \A k \in 1 .. Len(s) : s[k] = t[k]
  PROVE  s = t
  OBVIOUS

\* A function on 1 .. n is a sequence.
LEMMA FunSeq ==
  ASSUME NEW S, NEW n \in Nat, NEW f \in [1 .. n -> S]
  PROVE  f \in Seq(S) /\ Len(f) = n
  OBVIOUS

\* What stands where in p \o q.
LEMMA Concat ==
  ASSUME NEW S, NEW p \in Seq(S), NEW q \in Seq(S)
  PROVE  /\ p \o q \in Seq(S) /\ Len(p \o q) = Len(p) + Len(q)
         /\ \A k \in 1 .. Len(p) + Len(q) :
              (p \o q)[k] = IF k <= Len(p) THEN p[k] ELSE q[k - Len(p)]
  OBVIOUS

\* What stands before e, and after.
Split(s, e, u, v) ==
  /\ s = u \o <<e>> \o v
  /\ Seqs!Without(s, e) = u \o v
  /\ Seqs!UpTo(s, e) = u \o <<e>> /\ Seqs!After(s, e) = v
  /\ \A x : ReplaceAll(s, e, x) = u \o <<x>> \o v
  /\ IsInjective(u) /\ IsInjective(v) /\ Range(s) = Range(u) \cup {e} \cup Range(v)
  /\ e \notin Range(u) /\ e \notin Range(v) /\ Range(u) \cap Range(v) = {}

\* Without and Position, where the entries differ.
LEMMA AtPosition ==
  ASSUME NEW s \in Seq(Entries), IsInjective(s), NEW i \in 1 .. Len(s)
  PROVE  /\ Seqs!Without(s, s[i]) = SubSeq(s, 1, i - 1) \o SubSeq(s, i + 1, Len(s))
         /\ Seqs!Position(s, s[i]) = i
<1>1. Len(s) \in Nat /\ DOMAIN s = 1 .. Len(s)
  BY Lengths
<1>2. {k \in 1 .. Len(s) : s[k] = s[i]} = {i}
  BY <1>1 DEF IsInjective
<1>3. SelectInSeq(s, LAMBDA x : x = s[i]) = i
  BY <1>2 DEF SelectInSeq, Min
<1>a. Seqs!Position(s, s[i]) = i
  BY <1>2 DEF Seqs!Position, Seqs!SelectInSeq, Seqs!Min
<1>b. Seqs!RemoveFirst(s, s[i]) = RemoveFirst(s, s[i])
  BY DEF RemoveFirst, Seqs!RemoveFirst, RemoveAt, Seqs!RemoveAt, SelectInSeq, Seqs!SelectInSeq, Min, Seqs!Min
<1>4. QED
  BY <1>3, <1>a, <1>b DEF Seqs!Without, RemoveFirst, RemoveAt

\* A sequence of distinct entries is split by each of them.
LEMMA SplitAt ==
  ASSUME NEW s \in Seq(Entries), IsInjective(s), NEW e \in Range(s)
  PROVE  \E u, v \in Seq(Entries) : Split(s, e, u, v)
<1>1. Len(s) \in Nat /\ DOMAIN s = 1 .. Len(s) /\ \A k \in 1 .. Len(s) : s[k] \in Entries
  BY Lengths
<1>2. PICK i \in 1 .. Len(s) : e = s[i]
  BY <1>1 DEF Range
<1> DEFINE u == SubSeq(s, 1, i - 1)
           v == SubSeq(s, i + 1, Len(s))
<1>3. /\ u \in Seq(Entries) /\ Len(u) = i - 1 /\ \A k \in 1 .. i - 1 : u[k] = s[k]
  BY <1>1, <1>2
<1>4. /\ v \in Seq(Entries) /\ Len(v) = Len(s) - i
      /\ \A k \in 1 .. Len(s) - i : v[k] = s[k + i]
  <2>1. /\ i + 1 \in 1 .. Len(s) + 1 /\ i + 1 \in Nat /\ Len(s) - (i + 1) + 1 = Len(s) - i
        /\ \A k \in 1 .. Len(s) - i : k + (i + 1) - 1 = k + i /\ k + i \in 1 .. Len(s)
        /\ Len(s) - i \in Nat
    BY <1>1
  <2>2. v = [k \in 1 .. Len(s) - i |-> s[k + (i + 1) - 1]]
    BY <1>1, <2>1
  <2>3. \A k \in 1 .. Len(s) - i : v[k] = s[k + i] /\ v[k] \in Entries
    BY <1>1, <2>1, <2>2
  <2>4. v \in [1 .. Len(s) - i -> Entries]
    BY <2>2, <2>3
  <2> HIDE DEF v
  <2>5. v \in Seq(Entries) /\ Len(v) = Len(s) - i
    BY <2>1, <2>4, FunSeq
  <2>6. QED
    BY <2>3, <2>5
<1>5. /\ Seqs!Without(s, e) = u \o v /\ Seqs!Position(s, e) = i
  BY <1>2, AtPosition
<1>6. Seqs!After(s, e) = v /\ Seqs!UpTo(s, e) = SubSeq(s, 1, i)
  BY <1>5 DEF Seqs!After, Seqs!UpTo
<1> HIDE DEF u, v
<1>7. \A x : /\ Len(u \o <<x>> \o v) = Len(s)
             /\ \A k \in 1 .. Len(s) :
                  (u \o <<x>> \o v)[k] = IF k < i THEN u[k] ELSE IF k = i THEN x ELSE v[k - i]
  <2>1. SUFFICES ASSUME NEW x
                 PROVE  /\ Len(u \o <<x>> \o v) = Len(s)
                        /\ \A k \in 1 .. Len(s) :
                             (u \o <<x>> \o v)[k] =
                               IF k < i THEN u[k] ELSE IF k = i THEN x ELSE v[k - i]
    OBVIOUS
  <2> DEFINE S == Entries \cup {x}
  <2>2. u \in Seq(S) /\ v \in Seq(S) /\ <<x>> \in Seq(S)
    BY <1>3, <1>4
  <2>3. /\ u \o <<x>> \in Seq(S) /\ Len(u \o <<x>>) = i
        /\ \A k \in 1 .. i : (u \o <<x>>)[k] = IF k < i THEN u[k] ELSE x
    BY <1>1, <1>3, <2>2
  <2> HIDE DEF S
  <2>4. /\ Len(u \o <<x>> \o v) = i + (Len(s) - i)
        /\ \A k \in 1 .. i + (Len(s) - i) :
             (u \o <<x>> \o v)[k] = IF k <= i THEN (u \o <<x>>)[k] ELSE v[k - i]
    <3>1. Len(v) = Len(s) - i
      BY <1>4
    <3> DEFINE w == u \o <<x>>
    <3>2. w \in Seq(S) /\ Len(w) = i /\ v \in Seq(S)
      BY <2>2, <2>3
    <3> HIDE DEF w
    <3>3. /\ Len(w \o v) = Len(w) + Len(v)
          /\ \A k \in 1 .. Len(w) + Len(v) :
               (w \o v)[k] = IF k <= Len(w) THEN w[k] ELSE v[k - Len(w)]
      BY <3>2, Concat
    <3>4. QED
      BY <3>1, <3>2, <3>3 DEF w
  <2>5. i + (Len(s) - i) = Len(s)
    BY <1>1
  <2>6. \A k \in 1 .. Len(s) : k <= i => k \in 1 .. i
    BY <1>1
  <2>7. ASSUME NEW k \in 1 .. Len(s)
        PROVE  (u \o <<x>> \o v)[k] = IF k < i THEN u[k] ELSE IF k = i THEN x ELSE v[k - i]
    <3>1. (u \o <<x>> \o v)[k] = IF k <= i THEN (u \o <<x>>)[k] ELSE v[k - i]
      BY <2>4, <2>5
    <3>2. k <= i => (u \o <<x>>)[k] = IF k < i THEN u[k] ELSE x
      BY <2>3, <2>6
    <3>3. \/ k < i /\ k <= i
          \/ k = i /\ k <= i /\ ~ (k < i)
          \/ k # i /\ ~ (k <= i) /\ ~ (k < i)
      BY <1>1
    <3>4. QED
      BY <3>1, <3>2, <3>3
  <2>8. QED
    BY <2>4, <2>5, <2>7
<1>8. s = u \o <<e>> \o v
  <2>1. u \o <<e>> \o v \in Seq(Entries)
    BY <1>1, <1>2, <1>3, <1>4
  <2>2. \A k \in 1 .. Len(s) : (u \o <<e>> \o v)[k] = s[k]
    <3>1. \A k \in 1 .. Len(s) : k < i => k \in 1 .. i - 1
      BY <1>1
    <3>2. \A k \in 1 .. Len(s) : ~ (k < i) /\ k # i => k - i \in 1 .. Len(s) - i /\ (k - i) + i = k
      BY <1>1
    <3>3. QED
      BY <1>2, <1>3, <1>4, <1>7, <3>1, <3>2
  <2>3. QED
    BY <1>7, <2>1, <2>2, SameSeq
<1>9. SubSeq(s, 1, i) = u \o <<e>>
  <2>1. u \o <<e>> \in Seq(Entries) /\ Len(u \o <<e>>) = i
    BY <1>1, <1>2, <1>3
  <2>2. SubSeq(s, 1, i) \in Seq(Entries) /\ Len(SubSeq(s, 1, i)) = i
        /\ \A k \in 1 .. i : SubSeq(s, 1, i)[k] = s[k]
    BY <1>1
  <2>3. \A k \in 1 .. i : (u \o <<e>>)[k] = s[k]
    BY <1>1, <1>2, <1>3
  <2>4. QED
    BY <2>1, <2>2, <2>3, SameSeq
<1>10. ASSUME NEW x
       PROVE  ReplaceAll(s, e, x) = u \o <<x>> \o v
  <2> DEFINE S == Entries \cup {x}
             r == ReplaceAll(s, e, x)
  <2>1. r = [k \in 1 .. Len(s) |-> IF k = i THEN x ELSE s[k]]
    BY <1>1, <1>2 DEF ReplaceAll, IsInjective
  <2>2. r \in Seq(S) /\ Len(r) = Len(s) /\ \A k \in 1 .. Len(s) : r[k] = IF k = i THEN x ELSE s[k]
    BY <1>1, <2>1
  <2>3. u \o <<x>> \o v \in Seq(S)
    <3>1. u \in Seq(S) /\ v \in Seq(S) /\ <<x>> \in Seq(S)
      BY <1>3, <1>4
    <3>2. QED
      BY <3>1
  <2>4. \A k \in 1 .. Len(s) : (u \o <<x>> \o v)[k] = IF k = i THEN x ELSE s[k]
    <3>1. \A k \in 1 .. Len(s) : k < i => k \in 1 .. i - 1
      BY <1>1
    <3>2. \A k \in 1 .. Len(s) : ~ (k < i) /\ k # i => k - i \in 1 .. Len(s) - i /\ (k - i) + i = k
      BY <1>1
    <3>3. QED
      BY <1>3, <1>4, <1>7, <3>1, <3>2
  <2> HIDE DEF r, S
  <2> DEFINE t == u \o <<x>> \o v
  <2>a. Len(r) = Len(t) /\ t \in Seq(S) /\ \A k \in 1 .. Len(r) : r[k] = t[k]
    BY <1>7, <2>2, <2>3, <2>4
  <2> HIDE DEF t
  <2>b. r = t
    BY <2>2, <2>a, SameSeq
  <2>5. r = u \o <<x>> \o v
    BY <2>b DEF t
  <2>6. QED
    BY <2>5 DEF r
<1>11. /\ DOMAIN u = 1 .. i - 1 /\ DOMAIN v = 1 .. Len(s) - i
       /\ \A k \in 1 .. i - 1 : k \in 1 .. Len(s) /\ k # i
       /\ \A k \in 1 .. Len(s) - i : k + i \in 1 .. Len(s) /\ k + i # i
       /\ \A k \in 1 .. Len(s) : k \in 1 .. i - 1 \/ k = i \/ (k - i \in 1 .. Len(s) - i /\ (k - i) + i = k)
       /\ \A k \in 1 .. i - 1, j \in 1 .. Len(s) - i : k # j + i
       /\ \A k, j \in 1 .. Len(s) - i : k + i = j + i => k = j
  BY <1>1, <1>3, <1>4
<1>12. \A k, j \in 1 .. Len(s) : s[k] = s[j] => k = j
  BY <1>1 DEF IsInjective
<1>13. IsInjective(u) /\ IsInjective(v)
  <2>1. \A k, j \in 1 .. i - 1 : u[k] = u[j] => k = j
    BY <1>3, <1>11, <1>12
  <2>2. \A k, j \in 1 .. Len(s) - i : v[k] = v[j] => k = j
    BY <1>4, <1>11, <1>12
  <2>3. DOMAIN u = 1 .. i - 1 /\ DOMAIN v = 1 .. Len(s) - i
    BY <1>11
  <2>4. QED
    BY <2>1, <2>2, <2>3 DEF IsInjective
<1>b. /\ Range(u) = {u[k] : k \in 1 .. i - 1} /\ Range(v) = {v[k] : k \in 1 .. Len(s) - i}
      /\ Range(s) = {s[k] : k \in 1 .. Len(s)}
  BY <1>1, <1>11 DEF Range
<1>14. Range(s) = Range(u) \cup {e} \cup Range(v)
  <2>1. ASSUME NEW k \in 1 .. Len(s)
        PROVE  s[k] \in Range(u) \cup {e} \cup Range(v)
    <3>1. CASE k \in 1 .. i - 1
      BY <1>3, <1>b, <3>1
    <3>2. CASE k = i
      BY <1>2, <3>2
    <3>3. CASE k - i \in 1 .. Len(s) - i /\ (k - i) + i = k
      BY <1>4, <1>b, <3>3
    <3>4. k \in 1 .. i - 1 \/ k = i \/ (k - i \in 1 .. Len(s) - i /\ (k - i) + i = k)
      BY <1>11
    <3>5. QED
      BY <3>1, <3>2, <3>3, <3>4
  <2>2. Range(u) \subseteq Range(s) /\ Range(v) \subseteq Range(s)
    <3>1. \A k \in 1 .. i - 1 : u[k] \in Range(s)
      BY <1>3, <1>11, <1>b
    <3>2. \A k \in 1 .. Len(s) - i : v[k] \in Range(s)
      BY <1>4, <1>11, <1>b
    <3>3. QED
      BY <1>b, <3>1, <3>2
  <2>3. QED
    BY <1>2, <1>b, <2>1, <2>2
<1>15. e \notin Range(u) /\ e \notin Range(v) /\ Range(u) \cap Range(v) = {}
  <2>1. \A k \in 1 .. i - 1 : u[k] # e
    BY <1>2, <1>3, <1>11, <1>12
  <2>2. \A k \in 1 .. Len(s) - i : v[k] # e
    BY <1>2, <1>4, <1>11, <1>12
  <2>3. \A k \in 1 .. i - 1, j \in 1 .. Len(s) - i : u[k] # v[j]
    BY <1>3, <1>4, <1>11, <1>12
  <2>4. QED
    BY <1>b, <2>1, <2>2, <2>3
<1>16. Split(s, e, u, v)
  BY <1>5, <1>6, <1>8, <1>9, <1>10, <1>13, <1>14, <1>15 DEF Split
<1>17. QED
  BY <1>3, <1>4, <1>16

-----------------------------------------------------------------------------
(* The sequences a heap stands for                                         *)

\* What list_for_each visits is the way from a head round to it.
LEMMA VisitIsWay ==
  ASSUME NEW h, NEW used, NEW owner, Rings(h, used, owner), HeadsApart(used, owner),
         NEW g \in Heads \cap used
  PROVE  LET s == Visit(h.next, g)
         IN /\ s \in Seq(Entries) /\ IsInjective(s) /\ Way(h.next, g, s, g)
            /\ Range(s) \subseteq used /\ \A x \in Range(s) : owner[x] = g
<1> DEFINE link == h.next
           s == Visit(link, g)
<1>1. used \in SUBSET Nodes /\ OneToOne(link, used) /\ \A x \in used : owner[link[x]] = owner[x]
  BY RingIsOneToOne
<1> HIDE DEF link
<1>2. PICK at, n : Walk(link, g, used, at, n) /\ s = [k \in 1 .. n |-> at[k]]
  BY <1>1, VisitWalks
<1> HIDE DEF s
<1>3. /\ n \in Nat /\ at \in [0 .. n -> used] /\ at[0] = g
      /\ \A j, k \in 0 .. n : at[j] = at[k] => j = k
      /\ \A k \in 0 .. n - 1 : at[k + 1] = link[at[k]]
      /\ link[at[n]] = g
  BY <1>2 DEF Walk
<1>4. /\ \A k \in 1 .. n : k \in 0 .. n /\ k # 0 /\ (k # n => k \in 0 .. n - 1 /\ k + 1 \in 1 .. n)
      /\ 0 \in 0 .. n
  BY <1>3
<1>5. owner[g] = g
  BY DEF HeadsApart
<1>6. \A k \in 0 .. n : owner[at[k]] = owner[g]
  BY <1>1, <1>2, WalkOwned
<1>7. \A k \in 1 .. n : at[k] \in Entries /\ at[k] \in used /\ owner[at[k]] = g
  <2>1. SUFFICES ASSUME NEW k \in 1 .. n, at[k] \notin Entries PROVE FALSE
    BY <1>3, <1>4, <1>5, <1>6
  <2>2. owner[at[k]] = g
    BY <1>4, <1>5, <1>6
  <2>3. at[k] \in Heads \cap used
    BY <1>1, <1>3, <1>4, <2>1 DEF Nodes
  <2>4. at[k] = g
    BY <2>2, <2>3 DEF HeadsApart
  <2>5. QED
    BY <1>3, <1>4, <2>4
<1>8. s \in Seq(Entries) /\ Len(s) = n /\ DOMAIN s = 1 .. n /\ \A k \in 1 .. n : s[k] = at[k]
  <2>1. s \in [1 .. n -> Entries]
    BY <1>2, <1>7
  <2>2. QED
    BY <1>2, <1>3, <2>1, FunSeq
<1>9. IsInjective(s)
  BY <1>3, <1>4, <1>8 DEF IsInjective
<1>10. Range(s) \subseteq used /\ \A x \in Range(s) : owner[x] = g
  BY <1>7, <1>8 DEF Range
<1>11. Lead(link, s, g)
  BY <1>3, <1>4, <1>8 DEF Lead
<1>12. link[g] = FirstOf(s, g)
  <2>1. s = <<>> <=> n = 0
    BY <1>8, Lengths
  <2>2. CASE n = 0
    BY <1>3, <2>1, <2>2 DEF FirstOf
  <2>3. CASE n # 0
    <3>1. 1 \in 1 .. n /\ 0 \in 0 .. n - 1 /\ 0 + 1 = 1
      BY <1>3, <2>3
    <3>2. QED
      BY <1>3, <1>8, <2>1, <2>3, <3>1 DEF FirstOf
  <2>4. QED
    BY <2>2, <2>3
<1>13. QED
  BY <1>8, <1>9, <1>10, <1>11, <1>12 DEF Way, s, link

\* There is one way only from one object to another, through entries.
LEMMA OneWay ==
  ASSUME NEW link, NEW a, NEW b, b \notin Entries,
         NEW s \in Seq(Entries), Way(link, a, s, b), NEW t \in Seq(Entries), Way(link, a, t, b)
  PROVE  s = t
<1> DEFINE m == Len(s)
           n == Len(t)
<1>1. /\ m \in Nat /\ n \in Nat /\ (s = <<>> <=> m = 0) /\ (t = <<>> <=> n = 0)
      /\ \A k \in 1 .. m : s[k] \in Entries
      /\ \A k \in 1 .. n : t[k] \in Entries
  BY Lengths
<1>2. /\ \A k \in 1 .. m : link[s[k]] = IF k = m THEN b ELSE s[k + 1]
      /\ \A k \in 1 .. n : link[t[k]] = IF k = n THEN b ELSE t[k + 1]
  BY DEF Way, Lead
<1>3. /\ link[a] = IF m = 0 THEN b ELSE s[1]
      /\ link[a] = IF n = 0 THEN b ELSE t[1]
  BY <1>1 DEF Way, FirstOf
<1> HIDE DEF m, n
<1>4. m = 0 <=> n = 0
  <2>1. (m # 0 => 1 \in 1 .. m) /\ (n # 0 => 1 \in 1 .. n)
    BY <1>1
  <2>2. QED
    BY <1>1, <1>3, <2>1
<1>5. \A k \in 1 .. m : k \in 1 .. n /\ t[k] = s[k]
  <2> DEFINE T == {k \in 1 .. m : ~ (k \in 1 .. n /\ t[k] = s[k])}
  <2>1. SUFFICES ASSUME T # {} PROVE FALSE
    OBVIOUS
  <2>2. T \in SUBSET Nat
    OBVIOUS
  <2>3. PICK k \in T : \A y \in T : k <= y
    BY <2>1, <2>2, Least
  <2>4. CASE k = 1
    <3>1. m # 0 /\ n # 0 /\ 1 \in 1 .. n
      BY <1>1, <1>4, <2>3, <2>4
    <3>2. QED
      BY <1>3, <2>3, <2>4, <3>1
  <2>5. CASE k # 1
    <3>1. /\ k \in 1 .. m /\ k - 1 \in 1 .. m /\ k - 1 # m /\ (k - 1) + 1 = k /\ ~ (k <= k - 1)
      BY <1>1, <2>3, <2>5
    <3>2. k - 1 \in 1 .. n /\ t[k - 1] = s[k - 1]
      BY <2>3, <3>1
    <3>3. link[s[k - 1]] = s[k] /\ s[k] \in Entries
      BY <1>1, <1>2, <3>1
    <3>4. k - 1 # n /\ t[k] = s[k]
      BY <1>2, <3>1, <3>2, <3>3
    <3>5. k \in 1 .. n
      BY <1>1, <3>1, <3>2, <3>4
    <3>6. QED
      BY <2>3, <3>4, <3>5
  <2>6. QED
    BY <2>4, <2>5
<1>6. m = n
  <2>1. CASE m = 0
    BY <1>4, <2>1
  <2>2. CASE m # 0
    <3>1. m \in 1 .. m
      BY <1>1, <2>2
    <3>2. link[t[m]] = b /\ m \in 1 .. n
      BY <1>2, <1>5, <3>1
    <3>3. m = n
      <4>1. m # n => m + 1 \in 1 .. n
        BY <1>1, <3>2
      <4>2. QED
        BY <1>1, <1>2, <3>2, <4>1
    <3>4. QED
      BY <3>3
  <2>3. QED
    BY <2>1, <2>2
<1>7. QED
  BY <1>5, <1>6, SameSeq DEF m, n

\* What list_for_each visits from every head in use.
ListsOf(h, used) == [g \in Heads \cap used |-> Visit(h.next, g)]

\* The heap has, for every head in use, a way through the entries of its sequence.
Traces(h, used, lists) ==
  /\ lists \in [Heads \cap used -> Seq(Entries)]
  /\ \A g \in Heads \cap used : Way(h.next, g, lists[g], g)

\* Besides, no entry is met twice.
Shows(h, used, lists) ==
  /\ Traces(h, used, lists)
  /\ \A g \in Heads \cap used : IsInjective(lists[g]) /\ Range(lists[g]) \subseteq used
  /\ \A f, g \in Heads \cap used : f # g => Range(lists[f]) \cap Range(lists[g]) = {}

\* The lists of a heap whose rings are in order have no entry in common.
LEMMA ListsShown ==
  ASSUME NEW h, NEW used, RingsOK(h, used)
  PROVE  Shows(h, used, ListsOf(h, used))
<1>1. PICK owner : Rings(h, used, owner) /\ HeadsApart(used, owner)
  BY DEF RingsOK
<1> DEFINE lists == ListsOf(h, used)
<1>2. \A g \in Heads \cap used :
        /\ lists[g] \in Seq(Entries) /\ IsInjective(lists[g]) /\ Way(h.next, g, lists[g], g)
        /\ Range(lists[g]) \subseteq used /\ \A x \in Range(lists[g]) : owner[x] = g
  BY <1>1, VisitIsWay DEF ListsOf
<1>3. lists = [g \in Heads \cap used |-> lists[g]]
  BY DEF ListsOf
<1> HIDE DEF lists
<1>4. QED
  BY <1>2, <1>3 DEF Shows, Traces, lists

\* What the heap traces are its lists.
LEMMA ShownOnce ==
  ASSUME NEW h, NEW used, RingsOK(h, used), NEW lists, Traces(h, used, lists)
  PROVE  lists = ListsOf(h, used) /\ Shows(h, used, lists)
<1> DEFINE l == ListsOf(h, used)
<1>1. Shows(h, used, l)
  BY ListsShown
<1>2. l = [g \in Heads \cap used |-> l[g]] /\ lists = [g \in Heads \cap used |-> lists[g]]
  BY DEF ListsOf, Traces
<1> HIDE DEF l
<1>3. ASSUME NEW g \in Heads \cap used
      PROVE  lists[g] = l[g]
  <2>1. g \notin Entries
    BY HeadsAreNoEntries
  <2>2. /\ lists[g] \in Seq(Entries) /\ Way(h.next, g, lists[g], g)
        /\ l[g] \in Seq(Entries) /\ Way(h.next, g, l[g], g)
    BY <1>1 DEF Shows, Traces
  <2>3. QED
    BY <2>1, <2>2, OneWay
<1>4. lists = l
  BY <1>2, <1>3
<1>5. QED
  BY <1>1, <1>4 DEF l

-----------------------------------------------------------------------------
(* What a changed link does to a way                                       *)

\* The way through nothing is a single link.
LEMMA EmptyWay ==
  ASSUME NEW link, NEW a, NEW b
  PROVE  /\ <<>> \in Seq(Entries) /\ Range(<<>>) = {}
         /\ Way(link, a, <<>>, b) <=> link[a] = b
         /\ LastOf(a, <<>>) = a /\ FirstOf(<<>>, b) = b
  BY DEF Way, Lead, FirstOf, LastOf, Range

\* From what is on a way, link leads along it.
LEMMA Inside ==
  ASSUME NEW link, NEW a, NEW s \in Seq(Entries), NEW b, Way(link, a, s, b),
         NEW x \in Range(s) \cup {a}
  PROVE  link[x] \in Range(s) \cup {b}
<1>1. /\ Len(s) \in Nat /\ DOMAIN s = 1 .. Len(s) /\ (s = <<>> <=> Len(s) = 0)
  BY Lengths
<1>2. \A k \in 1 .. Len(s) : s[k] \in Range(s)
  BY <1>1 DEF Range
<1>3. CASE x = a
  <2>1. s # <<>> => 1 \in 1 .. Len(s)
    BY <1>1
  <2>2. QED
    BY <1>2, <1>3, <2>1 DEF Way, FirstOf
<1>4. CASE x \in Range(s)
  <2> DEFINE n == Len(s)
  <2>a. n \in Nat
    BY <1>1
  <2>1. \A k \in 1 .. n : k # n => k + 1 \in 1 .. n
    <3> HIDE DEF n
    <3> QED BY <2>a
  <2>2. PICK k \in 1 .. n : x = s[k]
    BY <1>1, <1>4 DEF Range
  <2>3. link[s[k]] = IF k = n THEN b ELSE s[k + 1]
    BY DEF Way, Lead
  <2>4. QED
    BY <1>2, <2>1, <2>2, <2>3
<1>5. QED
  BY <1>3, <1>4

\* Another way to say that nothing on the way has changed.
LEMMA Kept ==
  ASSUME NEW link, NEW new, NEW a, NEW s \in Seq(Entries), NEW b, Way(link, a, s, b),
         \A x \in Range(s) \cup {a} : new[x] = link[x]
  PROVE  Way(new, a, s, b)
<1>1. Lead(new, s, b)
  BY Untouched DEF Way
<1>2. QED
  BY <1>1 DEF Way

\* The last one of a sequence, or what is before it.
LEMMA LastInside ==
  ASSUME NEW a, NEW s \in Seq(Entries)
  PROVE  LastOf(a, s) \in Range(s) \cup {a} /\ (s # <<>> => LastOf(a, s) \in Range(s))
<1>1. /\ Len(s) \in Nat /\ DOMAIN s = 1 .. Len(s) /\ (s = <<>> <=> Len(s) = 0)
  BY Lengths
<1>2. s # <<>> => Len(s) \in DOMAIN s
  BY <1>1
<1>3. QED
  BY <1>2 DEF LastOf, Range

\* The first one of a sequence, or what is after it.
LEMMA FirstInside ==
  ASSUME NEW s \in Seq(Entries), NEW b
  PROVE  FirstOf(s, b) \in Range(s) \cup {b} /\ (s # <<>> => FirstOf(s, b) \in Range(s))
<1>1. /\ Len(s) \in Nat /\ DOMAIN s = 1 .. Len(s) /\ (s = <<>> <=> Len(s) = 0)
  BY Lengths
<1>2. s # <<>> => 1 \in DOMAIN s
  BY <1>1
<1>3. QED
  BY <1>2 DEF FirstOf, Range

\* Entries whose last one leads elsewhere now.
LEMMA LeadRedirected ==
  ASSUME NEW link, NEW new, NEW s \in Seq(Entries), IsInjective(s), NEW b, NEW c, NEW a,
         Lead(link, s, b), s # <<>> => new[LastOf(a, s)] = c,
         \A x \in Range(s) : x # LastOf(a, s) => new[x] = link[x]
  PROVE  Lead(new, s, c)
<1>1. Len(s) \in Nat /\ DOMAIN s = 1 .. Len(s) /\ (s = <<>> <=> Len(s) = 0)
  BY Lengths
<1>2. CASE s = <<>>
  BY <1>1, <1>2 DEF Lead
<1>3. CASE s # <<>>
  <2> DEFINE n == Len(s)
  <2>1. n \in 1 .. n /\ LastOf(a, s) = s[n]
    BY <1>1, <1>3 DEF LastOf
  <2>2. \A k \in 1 .. n : s[k] \in Range(s) /\ (k # n => s[k] # s[n])
    BY <1>1, <2>1 DEF Range, IsInjective
  <2>3. \A k \in 1 .. n : k # n => new[s[k]] = link[s[k]]
    BY <2>1, <2>2
  <2>4. new[s[n]] = c
    BY <1>3, <2>1
  <2>5. QED
    BY <2>3, <2>4 DEF Lead
<1>4. QED
  BY <1>2, <1>3

-----------------------------------------------------------------------------
(* What each function does to the sequences                                *)

\* Sequences after one was changed, or an entry was taken out of all or replaced.
ChangedAt(lists, S, head, s) == [g \in S |-> IF g = head THEN s ELSE lists[g]]
OffEach(lists, S, e) == [g \in S |-> Seqs!Without(lists[g], e)]
ReplacedIn(lists, S, old, new) == [g \in S |-> ReplaceAll(lists[g], old, new)]

\* The object before x on its ring.
LEMMA Before ==
  ASSUME NEW h, NEW used, RingsOK(h, used)
  PROVE  /\ h.next \in [Nodes -> Nodes \cup {NULL}] /\ used \subseteq Nodes
         /\ \A x \in used : /\ h.prev[x] \in used /\ h.next[h.prev[x]] = x
                            /\ h.next[x] \in used /\ h.prev[h.next[x]] = x
  BY DEF RingsOK, Rings, Heaps

\* It is on a list only if x is, or is its head.
LEMMA BeforeOutside ==
  ASSUME NEW h, NEW used, RingsOK(h, used), NEW lists, Shows(h, used, lists),
         NEW g \in Heads \cap used, NEW x \in used, x \notin Range(lists[g]) \cup {g}
  PROVE  h.prev[x] \notin Range(lists[g]) \cup {g}
<1>1. h.next[h.prev[x]] = x
  BY Before
<1>2. lists[g] \in Seq(Entries) /\ Way(h.next, g, lists[g], g)
  BY DEF Shows, Traces
<1> DEFINE link == h.next
           p == h.prev[x]
<1> HIDE DEF link, p
<1>3. p \in Range(lists[g]) \cup {g} => link[p] \in Range(lists[g]) \cup {g}
  <2>1. Way(link, g, lists[g], g)
    BY <1>2 DEF link
  <2>2. QED
    BY <1>2, <2>1, Inside
<1>4. QED
  BY <1>1, <1>3 DEF link, p

\* The object before the end of a way is the last one on it.
LEMMA BeforeSplit ==
  ASSUME NEW h, NEW used, RingsOK(h, used), NEW g \in used, NEW u \in Seq(Entries),
         Range(u) \subseteq used, NEW x, Way(h.next, g, u, x)
  PROVE  /\ LastOf(g, u) \in used /\ h.prev[x] = LastOf(g, u) /\ h.next[LastOf(g, u)] = x
<1> DEFINE link == h.next
<1>1. Way(link, g, u, x)
  OBVIOUS
<1> HIDE DEF link
<1>2. link[LastOf(g, u)] = x
  BY <1>1, WayEnd
<1>3. LastOf(g, u) \in used
  BY LastInside
<1>4. QED
  BY <1>2, <1>3, Before DEF link

\* To take out or to replace what is not there changes nothing.
LEMMA WithoutNone ==
  ASSUME NEW s \in Seq(Entries), NEW e, e \notin Range(s)
  PROVE  Seqs!Without(s, e) = s /\ \A x : ReplaceAll(s, e, x) = s
<1>1. Len(s) \in Nat /\ DOMAIN s = 1 .. Len(s)
  BY Lengths
<1>2. \A k \in 1 .. Len(s) : s[k] # e
  BY <1>1 DEF Range
<1>3. Seqs!Without(s, e) = s
  BY <1>2 DEF Seqs!Without, Seqs!RemoveFirst
<1>4. s = [k \in 1 .. Len(s) |-> s[k]]
  BY <1>1
<1>5. \A x : ReplaceAll(s, e, x) = s
  BY <1>2, <1>4 DEF ReplaceAll
<1>6. QED
  BY <1>3, <1>5

\* e is off the list it was on.
LEMMA DelTraces ==
  ASSUME NEW h, NEW used, RingsOK(h, used), NEW lists, Shows(h, used, lists),
         NEW e \in Entries \cap used
  PROVE  /\ Heads \cap (used \ {e}) = Heads \cap used
         /\ Traces(list_del_entry(h, e), used \ {e}, OffEach(lists, Heads \cap used, e))
<1> DEFINE link == h.next
           p == h.prev[e]
           n == link[e]
           d == list_del_entry(h, e)
           to == d.next
<1>1. /\ link \in [Nodes -> Nodes \cup {NULL}] /\ used \subseteq Nodes
      /\ p \in used /\ link[p] = e /\ n \in used
  BY Before
<1>2. to = [link EXCEPT ![p] = n]
  BY DEF list_del_entry, del_between
<1>3. to[p] = n /\ \A x \in used : x # p => to[x] = link[x]
  BY <1>1, <1>2
<1>4. Heads \cap (used \ {e}) = Heads \cap used
  BY HeadsAreNoEntries
<1>5. ASSUME NEW g \in Heads \cap used
      PROVE  Seqs!Without(lists[g], e) \in Seq(Entries) /\ Way(to, g, Seqs!Without(lists[g], e), g)
  <2> DEFINE s == lists[g]
  <2>1. /\ s \in Seq(Entries) /\ IsInjective(s) /\ Range(s) \subseteq used /\ Way(h.next, g, s, g)
        /\ g \in used /\ g # e
    BY HeadsAreNoEntries DEF Shows, Traces
  <2>2. CASE e \notin Range(s)
    <3>1. p \notin Range(s) \cup {g}
      BY <2>1, <2>2, BeforeOutside
    <3>2. Seqs!Without(s, e) = s
      BY <2>1, <2>2, WithoutNone
    <3> HIDE DEF p, to, link
    <3>3. Way(to, g, s, g)
      <4>1. \A x \in Range(s) \cup {g} : to[x] = link[x]
        BY <1>3, <2>1, <3>1
      <4>2. Way(link, g, s, g)
        BY <2>1 DEF link
      <4>3. QED
        BY <2>1, <4>1, <4>2, Kept
    <3>4. QED
      BY <2>1, <3>2, <3>3
  <2>3. CASE e \in Range(s)
    <3>1. PICK u, v \in Seq(Entries) : Split(s, e, u, v)
      BY <2>1, <2>3, SplitAt
    <3>2. /\ s = u \o <<e>> \o v /\ Seqs!Without(s, e) = u \o v /\ u \o v \in Seq(Entries)
          /\ IsInjective(u) /\ IsInjective(v) /\ Range(s) = Range(u) \cup {e} \cup Range(v)
          /\ e \notin Range(u) /\ e \notin Range(v) /\ Range(u) \cap Range(v) = {}
      BY <3>1, Concat DEF Split
    <3>3. Way(h.next, g, u, e) /\ Way(h.next, e, v, g)
      BY <2>1, <3>2, WayThrough
    <3>4. LastOf(g, u) = p
      <4>1. Range(u) \subseteq used /\ Way(h.next, g, u, e)
        BY <2>1, <3>2, <3>3
      <4>2. QED
        BY <2>1, <4>1, BeforeSplit
    <3>5. p \in Range(u) \cup {g} /\ g \notin Range(u) /\ g \notin Range(v)
      BY <3>4, LastInside, HeadsAreNoEntries DEF Range
    <3>a. g \notin Range(s)
      <4>1. Range(s) \subseteq Entries
        BY <2>1, Lengths DEF Range
      <4>2. QED
        BY <4>1, HeadsAreNoEntries
    <3> HIDE DEF p, to, link, s, n
    <3>6. Way(link, g, u, e) /\ Way(link, e, v, g)
      BY <3>3 DEF link
    <3>7. n = FirstOf(v, g)
      BY <3>6 DEF Way, n
    <3>8. Way(to, g, u, FirstOf(v, g))
      <4>1. to[LastOf(g, u)] = FirstOf(v, g)
        BY <1>3, <3>4, <3>7
      <4>2. \A x \in Range(u) \cup {g} : x # LastOf(g, u) => to[x] = link[x]
        BY <1>3, <2>1, <3>2, <3>4
      <4>3. QED
        BY <3>2, <3>5, <3>6, <4>1, <4>2, Redirected
    <3>9. Lead(to, v, g)
      <4>1. \A x \in Range(v) : to[x] = link[x]
        BY <1>3, <2>1, <3>2, <3>5, <3>a
      <4>2. Lead(link, v, g)
        BY <3>6 DEF Way
      <4>3. QED
        BY <4>1, <4>2, Untouched
    <3>10. Way(to, g, u \o v, g)
      BY <3>8, <3>9, WayJoin
    <3>11. QED
      BY <3>2, <3>10 DEF s
  <2>4. QED
    BY <2>2, <2>3
<1> HIDE DEF to, d
<1>6. QED
  BY <1>4, <1>5 DEF Traces, to, d, OffEach

\* A head and the entries on its list.
LEMMA ListFacts ==
  ASSUME NEW h, NEW used, NEW lists, Shows(h, used, lists), NEW g \in Heads \cap used
  PROVE  /\ lists[g] \in Seq(Entries) /\ IsInjective(lists[g]) /\ Range(lists[g]) \subseteq used
         /\ Way(h.next, g, lists[g], g) /\ Range(lists[g]) \subseteq Entries
         /\ \A f \in Heads : f \notin Range(lists[g])
         /\ \A f \in Heads \cap used : f # g => Range(lists[f]) \cap Range(lists[g]) = {}
<1>1. /\ lists[g] \in Seq(Entries) /\ IsInjective(lists[g]) /\ Range(lists[g]) \subseteq used
      /\ Way(h.next, g, lists[g], g)
      /\ \A f \in Heads \cap used : f # g => Range(lists[f]) \cap Range(lists[g]) = {}
  BY DEF Shows, Traces
<1>2. Range(lists[g]) \subseteq Entries
  BY <1>1, Lengths DEF Range
<1>3. QED
  BY <1>1, <1>2, HeadsAreNoEntries

\* Nothing else has changed: a list that has none of the changed links on it.
LEMMA ListKept ==
  ASSUME NEW h, NEW used, NEW lists, Shows(h, used, lists), NEW g \in Heads \cap used,
         NEW to, \A x \in Range(lists[g]) \cup {g} : to[x] = h.next[x]
  PROVE  Way(to, g, lists[g], g)
<1> DEFINE link == h.next
<1>1. lists[g] \in Seq(Entries) /\ Way(link, g, lists[g], g)
  BY ListFacts
<1>2. \A x \in Range(lists[g]) \cup {g} : to[x] = link[x]
  OBVIOUS
<1> HIDE DEF link
<1>3. QED
  BY <1>1, <1>2, Kept

\* INIT_LIST_HEAD on an unused object: an empty list, if it is a head.
LEMMA InitTraces ==
  ASSUME NEW h, NEW used, RingsOK(h, used), NEW lists, Shows(h, used, lists),
         NEW x \in Nodes, x \notin used \/ h.next[x] = x
  PROVE  Traces(INIT_LIST_HEAD(h, x), used \cup {x},
                ChangedAt(lists, Heads \cap (used \cup {x}), x, <<>>))
<1> DEFINE d == INIT_LIST_HEAD(h, x)
           to == d.next
           new == ChangedAt(lists, Heads \cap (used \cup {x}), x, <<>>)
<1>1. to = [h.next EXCEPT ![x] = x]
  BY DEF INIT_LIST_HEAD
<1>2. /\ h.next \in [Nodes -> Nodes \cup {NULL}] /\ used \subseteq Nodes
  BY Before
<1>3. to[x] = x /\ \A y \in used : to[y] = h.next[y]
  BY <1>1, <1>2
<1> HIDE DEF to, d
<1>4. ASSUME NEW g \in Heads \cap (used \cup {x})
      PROVE  new[g] \in Seq(Entries) /\ Way(to, g, new[g], g)
  <2>1. CASE g = x
    <3>1. new[g] = <<>>
      <4> DEFINE none == <<>>
      <4> HIDE DEF none
      <4>1. ChangedAt(lists, Heads \cap (used \cup {x}), x, none)[g] = none
        BY <2>1 DEF ChangedAt
      <4>2. QED
        BY <4>1 DEF none
    <3>2. Way(to, g, <<>>, g) /\ <<>> \in Seq(Entries)
      BY <1>3, <2>1, EmptyWay
    <3> HIDE DEF new
    <3>3. QED
      BY <3>1, <3>2
  <2>2. CASE g # x
    <3>1. g \in Heads \cap used /\ new[g] = lists[g]
      BY <2>2 DEF ChangedAt
    <3>2. Way(to, g, lists[g], g) /\ lists[g] \in Seq(Entries)
      <4>1. \A y \in Range(lists[g]) \cup {g} : to[y] = h.next[y]
        BY <1>3, <3>1, ListFacts
      <4>2. QED
        BY <3>1, <4>1, ListKept, ListFacts
    <3>3. QED
      BY <3>1, <3>2
  <2>3. QED
    BY <2>1, <2>2
<1> HIDE DEF new
<1>5. new \in [Heads \cap (used \cup {x}) -> Seq(Entries)]
  <2>1. new = [g \in Heads \cap (used \cup {x}) |-> new[g]]
    BY DEF new, ChangedAt
  <2>2. QED
    BY <1>4, <2>1
<1>6. QED
  BY <1>4, <1>5 DEF Traces, to, d, new

\* An entry goes between two parts of a list.
LEMMA InsertTraces ==
  ASSUME NEW h, NEW used, RingsOK(h, used), NEW lists, Shows(h, used, lists),
         NEW head \in Heads \cap used, NEW new \in Entries \ used,
         NEW u \in Seq(Entries), NEW v \in Seq(Entries), lists[head] = u \o v,
         IsInjective(u), Range(u) \cup Range(v) \subseteq Range(lists[head]),
         Range(u) \cap Range(v) = {}, NEW p, p = LastOf(head, u)
  PROVE  Traces(add_between(h, new, p, h.next[p]), used \cup {new},
                ChangedAt(lists, Heads \cap (used \cup {new}), head, u \o <<new>> \o v))
<1> DEFINE link == h.next
           n == link[p]
           d == add_between(h, new, p, n)
           to == d.next
           after == ChangedAt(lists, Heads \cap (used \cup {new}), head, u \o <<new>> \o v)
<1>1. to = [link EXCEPT ![new] = n, ![p] = new]
  BY DEF add_between
<1>2. /\ link \in [Nodes -> Nodes \cup {NULL}] /\ used \subseteq Nodes /\ new \in Nodes
  BY Before, HeadsAreNoEntries
<1>3. p \in Range(u) \cup {head} /\ p \in used
  BY ListFacts, LastInside
<1>4. to[new] = n /\ to[p] = new /\ \A x \in used : x # p => to[x] = link[x]
  BY <1>1, <1>2, <1>3
<1>5. Way(link, head, u, FirstOf(v, head)) /\ Lead(link, v, head)
  <2> HIDE DEF link
  <2>1. Way(link, head, u \o v, head)
    <3>1. Way(h.next, head, lists[head], head)
      BY ListFacts
    <3>2. lists[head] = u \o v
      OBVIOUS
    <3>3. QED
      BY <3>1, <3>2 DEF link
  <2>2. Lead(link, u, FirstOf(v, head)) /\ Lead(link, v, head)
    BY <2>1, LeadSplit DEF Way
  <2>3. FirstOf(u \o v, head) = FirstOf(u, FirstOf(v, head))
    BY <2>2, LeadJoin
  <2>4. QED
    BY <2>1, <2>2, <2>3 DEF Way
<1> HIDE DEF to, d, link
<1>6. n = FirstOf(v, head)
  BY <1>5, WayEnd
<1> HIDE DEF n
<1>7. Way(to, head, u, new)
  <2>1. \A x \in Range(u) \cup {head} : x # LastOf(head, u) => to[x] = link[x]
    BY <1>4, ListFacts
  <2>2. head \notin Range(u)
    BY ListFacts
  <2>3. QED
    BY <1>4, <1>5, <2>1, <2>2, Redirected
<1>8. Way(to, new, v, head)
  <2>1. \A x \in Range(v) : to[x] = link[x]
    <3>1. Range(lists[head]) \subseteq used /\ head \notin Range(lists[head])
      BY ListFacts
    <3>2. Range(v) \subseteq used /\ p \notin Range(v)
      BY <1>3, <3>1
    <3>3. QED
      BY <1>4, <3>2
  <2>2. Lead(to, v, head)
    BY <1>5, <2>1, Untouched
  <2>3. QED
    BY <1>4, <1>6, <2>2 DEF Way
<1>9. Way(to, head, u \o <<new>> \o v, head)
  BY <1>7, <1>8, WayThrough
<1>10. u \o <<new>> \o v \in Seq(Entries)
  OBVIOUS
<1>11. ASSUME NEW g \in Heads \cap (used \cup {new})
       PROVE  after[g] \in Seq(Entries) /\ Way(to, g, after[g], g)
  <2>1. g \in Heads \cap used
    BY HeadsAreNoEntries
  <2>2. CASE g = head
    BY <1>9, <1>10, <2>2 DEF ChangedAt
  <2>3. CASE g # head
    <3>1. after[g] = lists[g] /\ lists[g] \in Seq(Entries)
      BY <2>1, <2>3, ListFacts DEF ChangedAt
    <3>2. p \notin Range(lists[g]) \cup {g}
      <4>1. Range(lists[head]) \cap Range(lists[g]) = {} /\ head \notin Range(lists[g])
        BY <2>1, <2>3, ListFacts
      <4>2. g \notin Range(lists[head])
        BY ListFacts
      <4>3. QED
        BY <1>3, <2>3, <4>1, <4>2
    <3>3. \A x \in Range(lists[g]) \cup {g} : to[x] = link[x]
      BY <1>4, <2>1, <3>2, ListFacts
    <3>4. Way(to, g, lists[g], g)
      BY <2>1, <3>3, ListKept DEF link
    <3>5. QED
      BY <3>1, <3>4
  <2>4. QED
    BY <2>2, <2>3
<1> HIDE DEF after
<1>12. after \in [Heads \cap (used \cup {new}) -> Seq(Entries)]
  <2>1. after = [g \in Heads \cap (used \cup {new}) |-> after[g]]
    BY DEF after, ChangedAt
  <2>2. QED
    BY <1>11, <2>1
<1>13. QED
  BY <1>11, <1>12 DEF Traces, to, d, n, link, after

\* The links list_replace changes.
LEMMA ReplaceLinks ==
  ASSUME NEW h, NEW used, RingsOK(h, used), NEW old \in used, NEW new \in Nodes \ used
  PROVE  LET to == list_replace(h, old, new).next
             n == h.next[old]
             p == h.prev[old]
         IN /\ to[new] = IF n = old THEN new ELSE n
            /\ n # old => to[p] = new
            /\ p \in used /\ h.next[p] = old /\ (p = old <=> n = old)
            /\ \A x \in used : x # p \/ n = old => to[x] = h.next[x]
<1> DEFINE d == list_replace(h, old, new)
           p == h.prev[old]
           n == h.next[old]
<1>1. /\ n \in used /\ p \in used /\ used \subseteq Nodes
      /\ h.next \in [Nodes -> Nodes \cup {NULL}] /\ h.prev \in [Nodes -> Nodes \cup {NULL}]
      /\ old \in Nodes /\ h.prev[n] = old /\ h.next[p] = old
  BY DEF RingsOK, Rings, Heaps
<1>2. d.next = IF n = old THEN [h.next EXCEPT ![new] = new]
               ELSE [h.next EXCEPT ![new] = n, ![p] = new]
  BY <1>1 DEF list_replace
<1>3. d.next[new] = IF n = old THEN new ELSE n
  BY <1>1, <1>2
<1>4. n # old => d.next[p] = new
  BY <1>1, <1>2
<1>5. p = old <=> n = old
  BY <1>1
<1>6. \A x \in used : x # p \/ n = old => d.next[x] = h.next[x]
  BY <1>1, <1>2
<1>7. QED
  BY <1>1, <1>3, <1>4, <1>5, <1>6

\* The new entry stands where the old one stood.
LEMMA ReplaceTraces ==
  ASSUME NEW h, NEW used, RingsOK(h, used), NEW lists, Shows(h, used, lists),
         NEW old \in Entries \cap used, NEW new \in Entries \ used
  PROVE  /\ Heads \cap ((used \ {old}) \cup {new}) = Heads \cap used
         /\ Traces(list_replace(h, old, new), (used \ {old}) \cup {new},
                   ReplacedIn(lists, Heads \cap used, old, new))
<1> DEFINE link == h.next
           p == h.prev[old]
           n == link[old]
           d == list_replace(h, old, new)
           to == d.next
<1>1. /\ to[new] = IF n = old THEN new ELSE n
      /\ n # old => to[p] = new
      /\ p \in used /\ link[p] = old /\ (p = old <=> n = old)
      /\ \A x \in used : x # p \/ n = old => to[x] = link[x]
  BY ReplaceLinks, HeadsAreNoEntries
<1>2. Heads \cap ((used \ {old}) \cup {new}) = Heads \cap used
  BY HeadsAreNoEntries
<1>3. ASSUME NEW g \in Heads \cap used
      PROVE  LET r == ReplaceAll(lists[g], old, new) IN r \in Seq(Entries) /\ Way(to, g, r, g)
  <2> DEFINE s == lists[g]
  <2>1. /\ s \in Seq(Entries) /\ IsInjective(s) /\ Range(s) \subseteq used /\ Way(h.next, g, s, g)
        /\ g \in used /\ g # old /\ g \notin Range(s)
    BY HeadsAreNoEntries, ListFacts
  <2>2. CASE old \notin Range(s)
    <3>1. p \notin Range(s) \cup {g}
      BY <2>1, <2>2, BeforeOutside
    <3>2. ReplaceAll(s, old, new) = s
      BY <2>1, <2>2, WithoutNone
    <3> HIDE DEF p, to, link, n
    <3>3. \A x \in Range(s) \cup {g} : to[x] = link[x]
      BY <1>1, <2>1, <3>1
    <3>4. Way(to, g, s, g)
      BY <3>3, ListKept DEF link
    <3>5. QED
      BY <2>1, <3>2, <3>4
  <2>3. CASE old \in Range(s)
    <3>1. PICK u, v \in Seq(Entries) : Split(s, old, u, v)
      BY <2>1, <2>3, SplitAt
    <3>2. /\ s = u \o <<old>> \o v /\ ReplaceAll(s, old, new) = u \o <<new>> \o v
          /\ IsInjective(u) /\ IsInjective(v) /\ Range(s) = Range(u) \cup {old} \cup Range(v)
          /\ old \notin Range(u) /\ old \notin Range(v) /\ Range(u) \cap Range(v) = {}
      BY <3>1 DEF Split
    <3>3. Way(h.next, g, u, old) /\ Way(h.next, old, v, g)
      <4>1. Way(link, g, u \o <<old>> \o v, g)
        BY <2>1, <3>2
      <4> HIDE DEF link
      <4>2. Way(link, g, u, old) /\ Way(link, old, v, g)
        BY <4>1, WayThrough
      <4>3. QED
        BY <4>2 DEF link
    <3>4. LastOf(g, u) = p
      <4>1. Range(u) \subseteq used /\ Way(h.next, g, u, old)
        BY <2>1, <3>2, <3>3
      <4>2. QED
        BY <2>1, <4>1, BeforeSplit
    <3>5. p \in Range(u) \cup {g} /\ g \notin Range(u) /\ g \notin Range(v) /\ p \notin Range(v)
      <4>1. LastOf(g, u) \in Range(u) \cup {g}
        BY LastInside
      <4>2. QED
        BY <2>1, <3>2, <3>4, <4>1
    <3> HIDE DEF p, to, link, s, n
    <3>6. Way(link, g, u, old) /\ Way(link, old, v, g)
      BY <3>3 DEF link
    <3>7. n = FirstOf(v, g) /\ n # old
      BY <1>1, <2>1, <3>2, <3>5, <3>6 DEF Way, n
    <3>8. Way(to, g, u, new)
      <4>1. \A x \in Range(u) \cup {g} : x # LastOf(g, u) => to[x] = link[x]
        BY <1>1, <2>1, <3>2, <3>4
      <4>2. to[LastOf(g, u)] = new
        BY <1>1, <3>4, <3>7
      <4>3. QED
        BY <3>2, <3>5, <3>6, <4>1, <4>2, Redirected
    <3>9. Way(to, new, v, g)
      <4>1. \A x \in Range(v) : to[x] = link[x]
        BY <1>1, <2>1, <3>2, <3>5
      <4>2. Lead(link, v, g)
        BY <3>6 DEF Way
      <4>3. Lead(to, v, g)
        BY <4>1, <4>2, Untouched
      <4>4. QED
        BY <1>1, <3>7, <4>3 DEF Way
    <3>10. Way(to, g, u \o <<new>> \o v, g)
      BY <3>8, <3>9, WayThrough
    <3>11. u \o <<new>> \o v \in Seq(Entries)
      OBVIOUS
    <3>12. QED
      BY <3>2, <3>10, <3>11 DEF s
  <2>4. QED
    BY <2>2, <2>3
<1> HIDE DEF to, d
<1>4. QED
  BY <1>2, <1>3 DEF Traces, to, d, ReplacedIn

\* The new head has the list of the old one.
LEMMA ReplaceHeadTraces ==
  ASSUME NEW h, NEW used, RingsOK(h, used), NEW lists, Shows(h, used, lists),
         NEW old \in Heads \cap used, NEW new \in Heads \ used
  PROVE  Traces(list_replace(h, old, new), (used \ {old}) \cup {new},
                ChangedAt(lists, Heads \cap ((used \ {old}) \cup {new}), new, lists[old]))
<1> DEFINE link == h.next
           p == h.prev[old]
           n == link[old]
           d == list_replace(h, old, new)
           to == d.next
           rest == (used \ {old}) \cup {new}
           after == ChangedAt(lists, Heads \cap rest, new, lists[old])
           s == lists[old]
<1>1. /\ to[new] = IF n = old THEN new ELSE n
      /\ n # old => to[p] = new
      /\ p \in used /\ link[p] = old /\ (p = old <=> n = old)
      /\ \A x \in used : x # p \/ n = old => to[x] = link[x]
  BY ReplaceLinks, HeadsAreNoEntries
<1>2. /\ s \in Seq(Entries) /\ IsInjective(s) /\ Range(s) \subseteq used /\ Way(link, old, s, old)
      /\ old \notin Range(s)
  BY ListFacts
<1>3. LastOf(old, s) = p
  BY <1>2, BeforeSplit
<1>4. p \in Range(s) \cup {old}
  BY <1>2, <1>3, LastInside
<1> HIDE DEF p, to, d, link, s, n
<1>5. n = FirstOf(s, old)
  BY <1>2 DEF Way, n
<1>6. Way(to, new, s, new)
  <2>1. CASE s = <<>>
    <3>1. n = old
      BY <1>5, <2>1, EmptyWay
    <3>2. QED
      BY <1>1, <2>1, <3>1, EmptyWay
  <2>2. CASE s # <<>>
    <3>1. n \in Range(s) /\ FirstOf(s, new) = n
      BY <1>2, <1>5, <2>2, FirstInside DEF FirstOf
    <3>2. n # old
      BY <1>2, <3>1
    <3>3. Lead(to, s, new)
      <4>1. to[LastOf(old, s)] = new /\ \A x \in Range(s) : x # LastOf(old, s) => to[x] = link[x]
        BY <1>1, <1>2, <1>3, <3>2
      <4>2. Lead(link, s, old)
        BY <1>2 DEF Way
      <4>3. QED
        BY <1>2, <4>1, <4>2, LeadRedirected
    <3>4. QED
      BY <1>1, <3>1, <3>2, <3>3 DEF Way
  <2>3. QED
    BY <2>1, <2>2
<1>7. ASSUME NEW g \in Heads \cap rest
      PROVE  after[g] \in Seq(Entries) /\ Way(to, g, after[g], g)
  <2>1. CASE g = new
    BY <1>2, <1>6, <2>1 DEF s, ChangedAt
  <2>2. CASE g # new
    <3>1. g \in Heads \cap used /\ g # old /\ after[g] = lists[g]
      BY <2>2 DEF ChangedAt
    <3>2. lists[g] \in Seq(Entries) /\ Range(lists[g]) \subseteq used
      BY <3>1, ListFacts
    <3>3. p \notin Range(lists[g]) \cup {g}
      <4>1. Range(s) \cap Range(lists[g]) = {} /\ old \notin Range(lists[g])
        BY <3>1, ListFacts DEF s
      <4>2. g \notin Range(s)
        BY ListFacts DEF s
      <4>3. QED
        BY <1>4, <3>1, <4>1, <4>2
    <3>4. \A x \in Range(lists[g]) \cup {g} : to[x] = h.next[x]
      BY <1>1, <3>1, <3>2, <3>3 DEF link
    <3>5. Way(to, g, lists[g], g)
      BY <3>1, <3>4, ListKept
    <3>6. QED
      BY <3>1, <3>2, <3>5
  <2>3. QED
    BY <2>1, <2>2
<1> HIDE DEF after
<1>8. after \in [Heads \cap rest -> Seq(Entries)]
  <2>1. after = [g \in Heads \cap rest |-> after[g]]
    BY DEF after, ChangedAt
  <2> HIDE DEF rest
  <2>2. QED
    BY <1>7, <2>1
<1>9. QED
  BY <1>7, <1>8 DEF Traces, to, d, after

\* A way ends at each object on it, and goes on from there.
LEMMA WaySplit ==
  ASSUME NEW link, NEW a, NEW u \in Seq(Entries), NEW v \in Seq(Entries), NEW b,
         Way(link, a, u \o v, b)
  PROVE  Way(link, a, u, FirstOf(v, b)) /\ Lead(link, v, b)
<1>1. Lead(link, u, FirstOf(v, b)) /\ Lead(link, v, b)
  BY LeadSplit DEF Way
<1>2. FirstOf(u \o v, b) = FirstOf(u, FirstOf(v, b))
  BY <1>1, LeadJoin
<1>3. QED
  BY <1>1, <1>2 DEF Way

\* Entries on a head's own list, which a second head's list goes between.
LEMMA SpliceTraces ==
  ASSUME NEW h, NEW used, RingsOK(h, used), NEW lists, Shows(h, used, lists),
         NEW list \in Heads \cap used, NEW head \in Heads \cap used, list # head,
         lists[list] # <<>>,
         NEW u \in Seq(Entries), NEW v \in Seq(Entries), lists[head] = u \o v,
         IsInjective(u), Range(u) \cup Range(v) \subseteq Range(lists[head]),
         Range(u) \cap Range(v) = {}, NEW p, p = LastOf(head, u)
  PROVE  Traces(splice_between(h, list, p, h.next[p]), used \ {list},
                ChangedAt(lists, Heads \cap (used \ {list}), head, u \o lists[list] \o v))
<1> DEFINE link == h.next
           n == link[p]
           first == link[list]
           last == h.prev[list]
           d == splice_between(h, list, p, n)
           to == d.next
           s == lists[list]
           rest == used \ {list}
           after == ChangedAt(lists, Heads \cap rest, head, u \o s \o v)
<1>1. to = [link EXCEPT ![p] = first, ![last] = n]
  BY DEF splice_between
<1>2. link \in [Nodes -> Nodes \cup {NULL}] /\ used \subseteq Nodes /\ last \in used
  BY Before
<1>3. /\ s \in Seq(Entries) /\ IsInjective(s) /\ Range(s) \subseteq used /\ Way(h.next, list, s, list)
      /\ list \notin Range(s) /\ head \notin Range(s)
      /\ Range(s) \cap Range(lists[head]) = {}
  BY ListFacts
<1>4. /\ Range(lists[head]) \subseteq used /\ list \notin Range(lists[head])
      /\ head \notin Range(lists[head]) /\ Way(h.next, head, lists[head], head)
  BY ListFacts
<1>5. p \in Range(u) \cup {head} /\ p \in used
  <2>1. p \in Range(u) \cup {head}
    BY LastInside
  <2>2. QED
    BY <1>4, <2>1
<1>6. LastOf(list, s) = last
  BY <1>3, BeforeSplit
<1>7. last \in Range(s)
  <2>1. LastOf(list, s) \in Range(s)
    BY <1>3, LastInside
  <2>2. QED
    BY <1>6, <2>1
<1>8. Way(link, head, u, FirstOf(v, head)) /\ Lead(link, v, head)
  <2> HIDE DEF link
  <2>1. Way(link, head, u \o v, head)
    BY <1>4 DEF link
  <2>2. QED
    BY <2>1, WaySplit
<1>9. Way(link, list, s, list)
  BY <1>3
<1> HIDE DEF to, d, last, s
<1>10. p # last /\ p # list /\ p \notin Range(s) /\ last \notin Range(lists[head]) /\ last # head
  BY <1>3, <1>4, <1>5, <1>7
<1>11. to[p] = first /\ to[last] = n /\ \A x \in used : x # p /\ x # last => to[x] = link[x]
  BY <1>1, <1>2, <1>5, <1>10
<1> HIDE DEF link, first, n
<1>12. n = FirstOf(v, head)
  BY <1>8, WayEnd DEF n
<1>13. first = FirstOf(s, n)
  <2>1. s # <<>> /\ link[list] = FirstOf(s, list)
    BY <1>9 DEF s, Way
  <2>2. QED
    BY <2>1 DEF FirstOf, first
<1>14. Way(to, head, u, FirstOf(s, n))
  <2>1. \A x \in Range(u) \cup {head} : x # LastOf(head, u) => to[x] = link[x]
    BY <1>4, <1>10, <1>11
  <2>2. to[LastOf(head, u)] = FirstOf(s, n)
    BY <1>11, <1>13
  <2>3. head \notin Range(u)
    BY <1>4
  <2>4. QED
    BY <1>8, <2>1, <2>2, <2>3, Redirected
<1>15. Lead(to, s, n)
  <2>1. \A x \in Range(s) \cup {list} : x # LastOf(list, s) => to[x] = link[x]
    BY <1>3, <1>6, <1>10, <1>11
  <2>2. to[LastOf(list, s)] = n
    BY <1>6, <1>11
  <2>3. s \in Seq(Entries) /\ IsInjective(s) /\ list \notin Range(s)
    BY <1>3
  <2>4. Way(to, list, s, n)
    BY <1>9, <2>1, <2>2, <2>3, Redirected
  <2>5. QED
    BY <2>4 DEF Way
<1>16. Lead(to, v, head)
  <2>1. p \notin Range(v)
    BY <1>4, <1>5
  <2>2. \A x \in Range(v) : to[x] = link[x]
    BY <1>4, <1>10, <1>11, <2>1
  <2>3. QED
    BY <1>8, <2>2, Untouched
<1>17. Way(to, head, u \o s \o v, head) /\ u \o s \o v \in Seq(Entries)
  <2>1. Way(to, head, u \o s, n) /\ u \o s \in Seq(Entries)
    BY <1>3, <1>14, <1>15, WayJoin, Concat
  <2> DEFINE w == u \o s
  <2> HIDE DEF w
  <2>2. w \in Seq(Entries) /\ Way(to, head, w, FirstOf(v, head))
    BY <1>12, <2>1 DEF w
  <2>3. Way(to, head, w \o v, head) /\ w \o v \in Seq(Entries)
    BY <1>16, <2>2, WayJoin, Concat
  <2>4. QED
    BY <2>3 DEF w
<1>18. ASSUME NEW g \in Heads \cap rest
       PROVE  after[g] \in Seq(Entries) /\ Way(to, g, after[g], g)
  <2>1. g \in Heads \cap used /\ g # list
    OBVIOUS
  <2>2. CASE g = head
    BY <1>17, <2>2 DEF ChangedAt
  <2>3. CASE g # head
    <3>1. after[g] = lists[g] /\ lists[g] \in Seq(Entries) /\ Range(lists[g]) \subseteq used
      BY <2>1, <2>3, ListFacts DEF ChangedAt
    <3>2. p \notin Range(lists[g]) \cup {g} /\ last \notin Range(lists[g]) \cup {g}
      <4>1. Range(lists[head]) \cap Range(lists[g]) = {} /\ head \notin Range(lists[g])
        BY <2>1, <2>3, ListFacts
      <4>2. g \notin Range(lists[head])
        BY ListFacts
      <4>3. Range(s) \cap Range(lists[g]) = {}
        BY <2>1, ListFacts DEF s
      <4>4. g \notin Range(s)
        BY ListFacts DEF s
      <4>5. QED
        BY <1>5, <1>7, <2>3, <4>1, <4>2, <4>3, <4>4
    <3>3. \A x \in Range(lists[g]) \cup {g} : to[x] = h.next[x]
      BY <1>11, <2>1, <3>1, <3>2 DEF link
    <3>4. Way(to, g, lists[g], g)
      BY <2>1, <3>3, ListKept
    <3>5. QED
      BY <3>1, <3>4
  <2>4. QED
    BY <2>2, <2>3
<1> HIDE DEF after
<1>19. after \in [Heads \cap rest -> Seq(Entries)]
  <2>1. after = [g \in Heads \cap rest |-> after[g]]
    BY DEF after, ChangedAt
  <2> HIDE DEF rest
  <2>2. QED
    BY <1>18, <2>1
<1>20. QED
  BY <1>18, <1>19 DEF Traces, to, d, n, link, after, s

\* What stands up to "entry" is on the list of "list" now.
LEMMA CutTraces ==
  ASSUME NEW h, NEW used, RingsOK(h, used), NEW lists, Shows(h, used, lists),
         NEW head \in Heads \cap used, NEW list \in Heads \ used, NEW entry \in Entries,
         NEW u \in Seq(Entries), NEW v \in Seq(Entries), Split(lists[head], entry, u, v)
  PROVE  Traces(cut_between(h, list, head, entry), used \cup {list},
                ChangedAt(ChangedAt(lists, Heads \cap used, head, v),
                          Heads \cap (used \cup {list}), list, u \o <<entry>>))
<1> DEFINE link == h.next
           first == link[head]
           new_first == link[entry]
           d == cut_between(h, list, head, entry)
           to == d.next
           w == u \o <<entry>>
           rest == used \cup {list}
           after == ChangedAt(ChangedAt(lists, Heads \cap used, head, v), Heads \cap rest, list, w)
<1>1. to = [link EXCEPT ![list] = first, ![entry] = list, ![head] = new_first]
  BY DEF cut_between
<1>2. link \in [Nodes -> Nodes \cup {NULL}] /\ used \subseteq Nodes /\ list \in Nodes
  BY Before, HeadsAreNoEntries
<1>3. /\ Range(lists[head]) \subseteq used /\ list \notin Range(lists[head])
      /\ head \notin Range(lists[head]) /\ Way(h.next, head, lists[head], head)
  BY ListFacts
<1>4. /\ lists[head] = u \o <<entry>> \o v
      /\ IsInjective(u) /\ Range(lists[head]) = Range(u) \cup {entry} \cup Range(v)
      /\ entry \notin Range(u) /\ entry \notin Range(v) /\ Range(u) \cap Range(v) = {}
  BY DEF Split
<1>5. Way(link, head, u, entry) /\ Way(link, entry, v, head)
  <2> HIDE DEF link
  <2>1. Way(link, head, u \o <<entry>> \o v, head)
    BY <1>3, <1>4 DEF link
  <2>2. QED
    BY <2>1, WayThrough
<1> HIDE DEF to, d
<1>6. entry # head /\ entry # list /\ list # head /\ entry \in used
  BY <1>3, <1>4
<1>7. /\ to[list] = first /\ to[entry] = list /\ to[head] = new_first
      /\ \A x \in used : x # entry /\ x # head => to[x] = link[x]
  BY <1>1, <1>2, <1>6
<1> HIDE DEF link, first, new_first
<1>8. Way(to, list, u, entry)
  <2>1. \A x \in Range(u) : to[x] = link[x]
    BY <1>3, <1>4, <1>7
  <2>2. Lead(to, u, entry)
    BY <1>5, <2>1, Untouched DEF Way
  <2>3. QED
    BY <1>5, <1>7, <2>2 DEF Way, first
<1>9. Way(to, list, w, list) /\ w \in Seq(Entries)
  <2>1. Way(to, entry, <<>>, list) /\ <<>> \in Seq(Entries)
    BY <1>7, EmptyWay
  <2>2. Way(to, list, u \o <<entry>> \o <<>>, list)
    BY <1>8, <2>1, WayThrough
  <2>3. w \in Seq(Entries) /\ u \o <<entry>> \o <<>> = w
    OBVIOUS
  <2>4. QED
    BY <2>2, <2>3
<1>10. Way(to, head, v, head)
  <2>1. \A x \in Range(v) : to[x] = link[x]
    BY <1>3, <1>4, <1>7
  <2>2. Lead(to, v, head)
    BY <1>5, <2>1, Untouched DEF Way
  <2>3. QED
    BY <1>5, <1>7, <2>2 DEF Way, new_first
<1> HIDE DEF w
<1>11. ASSUME NEW g \in Heads \cap rest
       PROVE  after[g] \in Seq(Entries) /\ Way(to, g, after[g], g)
  <2>1. CASE g = list
    BY <1>9, <2>1 DEF ChangedAt
  <2>2. CASE g = head
    BY <1>6, <1>10, <2>2 DEF ChangedAt
  <2>3. CASE g # head /\ g # list
    <3>1. g \in Heads \cap used
      BY <2>3
    <3>2. after[g] = lists[g] /\ lists[g] \in Seq(Entries) /\ Range(lists[g]) \subseteq used
      BY <2>3, <3>1, ListFacts DEF ChangedAt
    <3>3. entry \notin Range(lists[g]) \cup {g} /\ head \notin Range(lists[g]) \cup {g}
      <4>1. Range(lists[head]) \cap Range(lists[g]) = {} /\ head \notin Range(lists[g])
        BY <2>3, <3>1, ListFacts
      <4>2. entry # g
        BY HeadsAreNoEntries
      <4>3. QED
        BY <1>4, <2>3, <4>1, <4>2
    <3>4. \A x \in Range(lists[g]) \cup {g} : to[x] = h.next[x]
      BY <1>7, <3>1, <3>2, <3>3 DEF link
    <3>5. Way(to, g, lists[g], g)
      BY <3>1, <3>4, ListKept
    <3>6. QED
      BY <3>2, <3>5
  <2>4. QED
    BY <2>1, <2>2, <2>3
<1> HIDE DEF after
<1>12. after \in [Heads \cap rest -> Seq(Entries)]
  <2>1. after = [g \in Heads \cap rest |-> after[g]]
    BY DEF after, ChangedAt
  <2> HIDE DEF rest
  <2>2. QED
    BY <1>11, <2>1
<1>13. QED
  BY <1>11, <1>12 DEF Traces, to, d, after, w

\* An object nobody needs is on no list, and may be forgotten.
LEMMA Forgotten ==
  ASSUME NEW h, NEW used, RingsOK(h, used), NEW x, x \notin used \/ h.next[x] = x
  PROVE  /\ RingsOK(h, used \ {x})
         /\ \A g \in Heads \cap (used \ {x}) : x \notin Range(ListsOf(h, used)[g])
         /\ \A g \in Heads \cap (used \ {x}) : ListsOf(h, used \ {x})[g] = ListsOf(h, used)[g]
<1>3. RingsOK(h, used \ {x})
  BY StillOK
<1>4. Shows(h, used \ {x}, ListsOf(h, used \ {x}))
  BY <1>3, ListsShown
<1>5. \A g \in Heads \cap (used \ {x}) : Range(ListsOf(h, used \ {x})[g]) \subseteq used \ {x}
  BY <1>4 DEF Shows
<1>6. \A g \in Heads \cap (used \ {x}) : ListsOf(h, used \ {x})[g] = ListsOf(h, used)[g]
  BY DEF ListsOf
<1>7. QED
  BY <1>3, <1>5, <1>6

\* The lists after INIT_LIST_HEAD.
LEMMA InitLists ==
  ASSUME NEW h, NEW used, RingsOK(h, used), NEW x \in Nodes, x \notin used \/ h.next[x] = x
  PROVE  ListsOf(INIT_LIST_HEAD(h, x), used \cup {x}) =
           ChangedAt(ListsOf(h, used), Heads \cap (used \cup {x}), x, <<>>)
<1>1. Shows(h, used, ListsOf(h, used))
  BY ListsShown
<1>2. RingsOK(INIT_LIST_HEAD(h, x), used \cup {x})
  BY InitOK
<1>3. Traces(INIT_LIST_HEAD(h, x), used \cup {x},
             ChangedAt(ListsOf(h, used), Heads \cap (used \cup {x}), x, <<>>))
  BY <1>1, InitTraces
<1>4. QED
  BY <1>2, <1>3, ShownOnce

\* The lists without the entry e.
OffAll(h, used, e) == OffEach(ListsOf(h, used), Heads \cap used, e)
AddedFirst(lists, head, e) == [lists EXCEPT ![head] = <<e>> \o @]
AddedLast(lists, head, e) == [lists EXCEPT ![head] = @ \o <<e>>]

\* The lists after __list_del_entry.
LEMMA OffLists ==
  ASSUME NEW h, NEW used, RingsOK(h, used), NEW e \in Entries \cap used
  PROVE  /\ RingsOK(list_del_entry(h, e), used \ {e})
         /\ Heads \cap (used \ {e}) = Heads \cap used
         /\ ListsOf(list_del_entry(h, e), used \ {e}) = OffAll(h, used, e)
<1>1. Shows(h, used, ListsOf(h, used))
  BY ListsShown
<1>2. RingsOK(list_del_entry(h, e), used \ {e})
  BY OffRing
<1>3. /\ Heads \cap (used \ {e}) = Heads \cap used
      /\ Traces(list_del_entry(h, e), used \ {e}, OffAll(h, used, e))
  BY <1>1, DelTraces DEF OffAll
<1>4. QED
  BY <1>2, <1>3, ShownOnce

\* The lists after list_del and list_del_init.
LEMMA DelLists ==
  ASSUME NEW h, NEW used, RingsOK(h, used), NEW e \in Entries \cap used
  PROVE  /\ ListsOf(list_del(h, e), used \ {e}) = OffAll(h, used, e)
         /\ ListsOf(list_del_init(h, e), used) = OffAll(h, used, e)
<1> DEFINE d == list_del_entry(h, e)
           rest == used \ {e}
           off == OffAll(h, used, e)
<1>1. RingsOK(d, rest) /\ Heads \cap rest = Heads \cap used /\ ListsOf(d, rest) = off
  BY OffLists
<1>2. off = [g \in Heads \cap used |-> off[g]]
  BY DEF OffAll, OffEach
<1>3. e \in Nodes /\ e \notin rest /\ rest \cup {e} = used /\ e \notin Heads
  BY HeadsAreNoEntries
<1>4. list_del_init(h, e) = INIT_LIST_HEAD(d, e)
  BY DEF list_del_init
<1>5. list_del(h, e).next = [d.next EXCEPT ![e] = NULL]
  BY DEF list_del
<1> HIDE DEF d, off
<1>6. ListsOf(list_del_init(h, e), used) = off
  <2> HIDE DEF rest
  <2>1. ListsOf(INIT_LIST_HEAD(d, e), rest \cup {e}) =
          ChangedAt(ListsOf(d, rest), Heads \cap (rest \cup {e}), e, <<>>)
    BY <1>1, <1>3, InitLists
  <2>2. ListsOf(INIT_LIST_HEAD(d, e), used) =
          [g \in Heads \cap used |-> IF g = e THEN <<>> ELSE off[g]]
    BY <1>1, <1>3, <2>1 DEF ChangedAt
  <2>3. QED
    BY <1>2, <1>3, <1>4, <2>2
<1>7. ListsOf(list_del(h, e), rest) = off
  <2>1. Shows(d, rest, off)
    BY <1>1, ListsShown
  <2>2. d.next \in [Nodes -> Nodes \cup {NULL}] /\ rest \subseteq Nodes
    BY <1>1, Before
  <2> DEFINE to == list_del(h, e).next
  <2>3. \A x \in rest : to[x] = d.next[x]
    BY <1>3, <1>5, <2>2
  <2> HIDE DEF to, rest
  <2>4. \A g \in Heads \cap rest : Way(to, g, off[g], g)
    <3>1. SUFFICES ASSUME NEW g \in Heads \cap rest PROVE Way(to, g, off[g], g)
      OBVIOUS
    <3>2. \A x \in Range(off[g]) \cup {g} : to[x] = d.next[x]
      BY <2>1, <2>3, ListFacts
    <3>3. QED
      BY <2>1, <3>2, ListKept
  <2>5. Traces(list_del(h, e), rest, off)
    BY <2>1, <2>4 DEF Shows, Traces, to
  <2>6. RingsOK(list_del(h, e), rest)
    BY DelOK DEF rest
  <2>7. QED
    BY <2>5, <2>6, ShownOnce
<1>8. QED
  BY <1>6, <1>7 DEF off

\* The lists after list_add and list_add_tail.
LEMMA AddLists ==
  ASSUME NEW h, NEW used, RingsOK(h, used), NEW head \in Heads \cap used,
         NEW new \in Entries, new \notin used \/ h.next[new] = new
  PROVE  /\ ListsOf(list_add(h, new, head), used \cup {new}) =
              AddedFirst(ListsOf(h, used), head, new)
         /\ ListsOf(list_add_tail(h, new, head), used \cup {new}) =
              AddedLast(ListsOf(h, used), head, new)
<1> DEFINE rest == used \ {new}
           L == ListsOf(h, used)
           s == L[head]
<1>1. /\ rest \cup {new} = used \cup {new} /\ new \in Entries \ rest
      /\ Heads \cap rest = Heads \cap used /\ Heads \cap (rest \cup {new}) = Heads \cap used
  BY HeadsAreNoEntries
<1>2. RingsOK(h, rest) /\ \A g \in Heads \cap rest : ListsOf(h, rest)[g] = L[g]
  BY Forgotten
<1>3. ListsOf(h, rest) = L
  BY <1>1 DEF ListsOf
<1>4. Shows(h, rest, L)
  BY <1>2, <1>3, ListsShown
<1>5. L = [g \in Heads \cap used |-> L[g]]
  BY DEF ListsOf
<1>6. RingsOK(list_add(h, new, head), used \cup {new}) /\ RingsOK(list_add_tail(h, new, head), used \cup {new})
  BY AddOK
<1> HIDE DEF rest, L
<1>7. /\ s \in Seq(Entries) /\ IsInjective(s) /\ Range(s) \subseteq rest /\ Way(h.next, head, s, head)
  BY <1>1, <1>4, ListFacts
<1>8. /\ <<>> \in Seq(Entries) /\ Range(<<>>) = {} /\ IsInjective(<<>>)
      /\ LastOf(head, <<>>) = head /\ <<>> \o s = s /\ s \o <<>> = s
      /\ <<>> \o <<new>> \o s = <<new>> \o s /\ s \o <<new>> \o <<>> = s \o <<new>>
  <2>1. IsInjective(<<>>)
    BY DEF IsInjective
  <2>2. <<new>> \in Seq(Entries) /\ s \o <<new>> \in Seq(Entries)
    BY <1>7
  <2>3. QED
    BY <1>7, <2>1, <2>2, EmptyWay
<1> HIDE DEF s
<1>9. ListsOf(list_add(h, new, head), used \cup {new}) = AddedFirst(L, head, new)
  <2> DEFINE u == <<>>
             p == head
             after == ChangedAt(L, Heads \cap (rest \cup {new}), head, u \o <<new>> \o s)
  <2>a. /\ L[head] = u \o s /\ u \in Seq(Entries) /\ IsInjective(u)
        /\ Range(u) \cup Range(s) \subseteq Range(L[head]) /\ Range(u) \cap Range(s) = {}
        /\ p = LastOf(head, u)
    BY <1>8 DEF s
  <2> HIDE DEF u, p
  <2>1. Traces(add_between(h, new, p, h.next[p]), rest \cup {new}, after)
    BY <1>1, <1>2, <1>4, <1>7, <2>a, InsertTraces
  <2> USE DEF u, p
  <2>2. after = [g \in Heads \cap used |-> IF g = head THEN <<new>> \o s ELSE L[g]]
    BY <1>1, <1>8 DEF ChangedAt
  <2>3. after = AddedFirst(L, head, new)
    BY <1>5, <2>2 DEF s, AddedFirst, AddedLast
  <2>4. Traces(list_add(h, new, head), used \cup {new}, AddedFirst(L, head, new))
    BY <1>1, <2>1, <2>3 DEF list_add
  <2>5. QED
    BY <1>6, <2>4, ShownOnce
<1>10. ListsOf(list_add_tail(h, new, head), used \cup {new}) = AddedLast(L, head, new)
  <2> DEFINE v == <<>>
             p == LastOf(head, s)
             after == ChangedAt(L, Heads \cap (rest \cup {new}), head, s \o <<new>> \o v)
  <2>a. /\ L[head] = s \o v /\ v \in Seq(Entries)
        /\ Range(s) \cup Range(v) \subseteq Range(L[head]) /\ Range(s) \cap Range(v) = {}
    BY <1>8 DEF s
  <2>b. h.prev[head] = p /\ h.next[p] = head
    BY <1>1, <1>2, <1>7, BeforeSplit
  <2> HIDE DEF v
  <2>1. Traces(add_between(h, new, p, h.next[p]), rest \cup {new}, after)
    BY <1>1, <1>2, <1>4, <1>7, <2>a, InsertTraces
  <2> USE DEF v
  <2>2. after = [g \in Heads \cap used |-> IF g = head THEN s \o <<new>> ELSE L[g]]
    BY <1>1, <1>8 DEF ChangedAt
  <2>3. after = AddedLast(L, head, new)
    BY <1>5, <2>2 DEF s, AddedFirst, AddedLast
  <2>4. Traces(list_add_tail(h, new, head), used \cup {new}, AddedLast(L, head, new))
    BY <1>1, <2>1, <2>3, <2>b DEF list_add_tail
  <2>5. QED
    BY <1>6, <2>4, ShownOnce
<1>11. QED
  BY <1>9, <1>10 DEF L

\* The lists after list_move and list_move_tail.
LEMMA MoveLists ==
  ASSUME NEW h, NEW used, RingsOK(h, used), NEW head \in Heads \cap used,
         NEW e \in Entries \cap used
  PROVE  /\ ListsOf(list_move(h, e, head), used) =
              AddedFirst(OffAll(h, used, e), head, e)
         /\ ListsOf(list_move_tail(h, e, head), used) =
              AddedLast(OffAll(h, used, e), head, e)
<1> DEFINE d == list_del_entry(h, e)
           rest == used \ {e}
<1>1. RingsOK(d, rest) /\ Heads \cap rest = Heads \cap used /\ ListsOf(d, rest) = OffAll(h, used, e)
  BY OffLists
<1>2. e \notin rest /\ rest \cup {e} = used /\ head \in Heads \cap rest /\ e \in Entries
  BY HeadsAreNoEntries
<1>3. list_move(h, e, head) = list_add(d, e, head) /\ list_move_tail(h, e, head) = list_add_tail(d, e, head)
  BY DEF list_move, list_move_tail
<1> HIDE DEF d, rest
<1>4. /\ ListsOf(list_add(d, e, head), rest \cup {e}) = AddedFirst(ListsOf(d, rest), head, e)
      /\ ListsOf(list_add_tail(d, e, head), rest \cup {e}) = AddedLast(ListsOf(d, rest), head, e)
  BY <1>1, <1>2, AddLists
<1>5. QED
  BY <1>1, <1>2, <1>3, <1>4

\* The lists after list_replace and list_replace_init on entries.
LEMMA ReplaceLists ==
  ASSUME NEW h, NEW used, RingsOK(h, used), NEW old \in Entries \cap used,
         NEW new \in Entries \ used
  PROVE  LET after == ReplacedIn(ListsOf(h, used), Heads \cap used, old, new)
         IN /\ ListsOf(list_replace(h, old, new), (used \ {old}) \cup {new}) = after
            /\ ListsOf(list_replace_init(h, old, new), used \cup {new}) = after
<1> DEFINE L == ListsOf(h, used)
           d == list_replace(h, old, new)
           rest == (used \ {old}) \cup {new}
           after == ReplacedIn(L, Heads \cap used, old, new)
<1>1. Shows(h, used, L)
  BY ListsShown
<1>2. RingsOK(d, rest)
  BY ReplaceEntryOK
<1>3. Heads \cap rest = Heads \cap used /\ Traces(d, rest, after)
  BY <1>1, ReplaceTraces
<1>4. after = [g \in Heads \cap used |-> after[g]]
  BY DEF ReplacedIn
<1>5. old \in Nodes /\ old \notin rest /\ rest \cup {old} = used \cup {new} /\ old \notin Heads
      /\ new \notin Heads
  BY HeadsAreNoEntries
<1> HIDE DEF d, rest, after, L
<1>6. ListsOf(d, rest) = after
  BY <1>2, <1>3, ShownOnce
<1>7. ListsOf(INIT_LIST_HEAD(d, old), rest \cup {old}) =
        ChangedAt(ListsOf(d, rest), Heads \cap (rest \cup {old}), old, <<>>)
  BY <1>2, <1>5, InitLists
<1>8. Heads \cap (rest \cup {old}) = Heads \cap used
  BY <1>3, <1>5
<1> DEFINE none == <<>>
<1> HIDE DEF none
<1>9. ChangedAt(after, Heads \cap used, old, none) = after
  BY <1>4, <1>5 DEF ChangedAt
<1>10. ListsOf(INIT_LIST_HEAD(d, old), used \cup {new}) = after
  BY <1>5, <1>6, <1>7, <1>8, <1>9 DEF none
<1>11. QED
  BY <1>6, <1>10 DEF list_replace_init, d, rest, after, L

\* The lists after "new" took the place of the head "old".
HeadReplaced(h, used, old, new) ==
  ChangedAt(ListsOf(h, used), Heads \cap ((used \ {old}) \cup {new}), new, ListsOf(h, used)[old])

\* The lists after list_replace and list_replace_init on heads.
LEMMA ReplaceHeadLists ==
  ASSUME NEW h, NEW used, RingsOK(h, used), NEW old \in Heads \cap used,
         NEW new \in Heads \ used
  PROVE  /\ ListsOf(list_replace(h, old, new), (used \ {old}) \cup {new}) =
              HeadReplaced(h, used, old, new)
         /\ ListsOf(list_replace_init(h, old, new), used \cup {new}) =
              ChangedAt(HeadReplaced(h, used, old, new), Heads \cap (used \cup {new}), old, <<>>)
<1> DEFINE L == ListsOf(h, used)
           d == list_replace(h, old, new)
           rest == (used \ {old}) \cup {new}
           after == ChangedAt(L, Heads \cap rest, new, L[old])
<1>1. Shows(h, used, L)
  BY ListsShown
<1>2. RingsOK(d, rest)
  BY ReplaceHeadOK
<1>3. Traces(d, rest, after)
  BY <1>1, ReplaceHeadTraces
<1>5. old \in Nodes /\ old \notin rest /\ rest \cup {old} = used \cup {new}
  BY HeadsAreNoEntries
<1> HIDE DEF d, rest, after, L
<1>6. ListsOf(d, rest) = after
  BY <1>2, <1>3, ShownOnce
<1>7. ListsOf(INIT_LIST_HEAD(d, old), rest \cup {old}) =
        ChangedAt(ListsOf(d, rest), Heads \cap (rest \cup {old}), old, <<>>)
  BY <1>2, <1>5, InitLists
<1>8. ListsOf(INIT_LIST_HEAD(d, old), used \cup {new}) = ChangedAt(after, Heads \cap (used \cup {new}), old, <<>>)
  BY <1>5, <1>6, <1>7
<1>9. QED
  BY <1>6, <1>8 DEF list_replace_init, d, rest, after, L, HeadReplaced

\* The functions see from the pointers of a head whether its list is empty.
LEMMA EmptySeen ==
  ASSUME NEW h, NEW used, RingsOK(h, used), NEW g \in Heads \cap used
  PROVE  /\ ListsOf(h, used)[g] \in Seq(Entries)
         /\ list_empty(h, g) <=> ListsOf(h, used)[g] = <<>>
<1> DEFINE s == ListsOf(h, used)[g]
<1>1. s \in Seq(Entries) /\ Way(h.next, g, s, g) /\ g \notin Range(s)
  BY ListsShown, ListFacts
<1>2. h.next[g] = FirstOf(s, g)
  BY <1>1 DEF Way
<1>3. s # <<>> => FirstOf(s, g) \in Range(s)
  BY <1>1, FirstInside
<1>4. s = <<>> => FirstOf(s, g) = g
  BY DEF FirstOf
<1>5. QED
  BY <1>1, <1>2, <1>3, <1>4 DEF list_empty

\* Nothing before or behind a sequence.
LEMMA Units ==
  ASSUME NEW s \in Seq(Entries), NEW t \in Seq(Entries)
  PROVE  /\ <<>> \o s = s /\ s \o <<>> = s
         /\ <<>> \o t \o s = t \o s /\ s \o t \o <<>> = s \o t
<1>1. <<>> \o s = s /\ s \o <<>> = s /\ <<>> \o t = t
  OBVIOUS
<1>2. s \o t \in Seq(Entries)
  OBVIOUS
<1> DEFINE w == s \o t
<1> HIDE DEF w
<1>3. w \o <<>> = w
  BY <1>2 DEF w
<1>4. QED
  BY <1>1, <1>3 DEF w

\* The lists after all of one list has gone to the front, or the end, of another.
SplicedFirst(lists, S, list, head) == ChangedAt(lists, S, head, lists[list] \o lists[head])
SplicedLast(lists, S, list, head) == ChangedAt(lists, S, head, lists[head] \o lists[list])

\* The lists after list_splice and list_splice_tail.
LEMMA SpliceLists ==
  ASSUME NEW h, NEW used, RingsOK(h, used), NEW list \in Heads \cap used,
         NEW head \in Heads \cap used, list # head, ~ list_empty(h, list)
  PROVE  /\ ListsOf(list_splice(h, list, head), used \ {list}) =
              SplicedFirst(ListsOf(h, used), Heads \cap (used \ {list}), list, head)
         /\ ListsOf(list_splice_tail(h, list, head), used \ {list}) =
              SplicedLast(ListsOf(h, used), Heads \cap (used \ {list}), list, head)
<1> DEFINE L == ListsOf(h, used)
           rest == used \ {list}
           first == SplicedFirst(L, Heads \cap rest, list, head)
           last == SplicedLast(L, Heads \cap rest, list, head)
           s == L[head]
           t == L[list]
           d == list_splice(h, list, head)
           e == list_splice_tail(h, list, head)
<1>1. Shows(h, used, L)
  BY ListsShown
<1>2. t \in Seq(Entries) /\ t # <<>>
  BY EmptySeen
<1>3. /\ s \in Seq(Entries) /\ IsInjective(s) /\ Range(s) \subseteq used /\ Way(h.next, head, s, head)
  BY <1>1, ListFacts
<1>4. RingsOK(d, rest) /\ RingsOK(e, rest)
  BY SpliceOK
<1>5. list \in Nodes /\ list \notin rest /\ rest \cup {list} = used
  BY HeadsAreNoEntries
<1>6. /\ <<>> \in Seq(Entries) /\ Range(<<>>) = {} /\ IsInjective(<<>>)
      /\ LastOf(head, <<>>) = head /\ <<>> \o s = s /\ s \o <<>> = s
      /\ <<>> \o t \o s = t \o s /\ s \o t \o <<>> = s \o t
  <2>1. IsInjective(<<>>)
    BY DEF IsInjective
  <2>2. /\ <<>> \o s = s /\ s \o <<>> = s
        /\ <<>> \o t \o s = t \o s /\ s \o t \o <<>> = s \o t
    BY <1>2, <1>3, Units
  <2>3. QED
    BY <2>1, <2>2, EmptyWay
<1>7. d = splice_between(h, list, head, h.next[head])
  BY DEF list_splice
<1>8. e = splice_between(h, list, h.prev[head], head)
  BY DEF list_splice_tail
<1> HIDE DEF L, rest, s, t, d, e
<1>9. ListsOf(d, rest) = first
  <2> DEFINE u == <<>>
             p == head
  <2>1. /\ L[head] = u \o s /\ u \in Seq(Entries) /\ IsInjective(u)
        /\ Range(u) \cup Range(s) \subseteq Range(L[head]) /\ Range(u) \cap Range(s) = {}
        /\ p = LastOf(head, u)
    BY <1>6 DEF s
  <2>2. L[list] # <<>>
    BY <1>2 DEF t
  <2>3. u \o L[list] \o s = t \o s
    BY <1>6 DEF t
  <2> HIDE DEF u, p
  <2>4. Traces(splice_between(h, list, p, h.next[p]), used \ {list},
               ChangedAt(L, Heads \cap (used \ {list}), head, u \o L[list] \o s))
    BY <1>1, <1>3, <2>1, <2>2, SpliceTraces
  <2>5. Traces(d, rest, ChangedAt(L, Heads \cap rest, head, t \o s))
    BY <1>7, <2>3, <2>4 DEF p, rest
  <2>6. Traces(d, rest, first)
    BY <2>5 DEF SplicedFirst, s, t
  <2>7. QED
    BY <1>4, <2>6, ShownOnce
<1>10. ListsOf(e, rest) = last
  <2> DEFINE v == <<>>
             p == LastOf(head, s)
  <2>1. /\ L[head] = s \o v /\ v \in Seq(Entries)
        /\ Range(s) \cup Range(v) \subseteq Range(L[head]) /\ Range(s) \cap Range(v) = {}
    BY <1>6 DEF s
  <2>2. L[list] # <<>>
    BY <1>2 DEF t
  <2>3. s \o L[list] \o v = s \o t
    BY <1>6 DEF t
  <2>4. h.prev[head] = p /\ h.next[p] = head
    BY <1>3, BeforeSplit
  <2> HIDE DEF v
  <2>5. Traces(splice_between(h, list, p, h.next[p]), used \ {list},
               ChangedAt(L, Heads \cap (used \ {list}), head, s \o L[list] \o v))
    BY <1>1, <1>3, <2>1, <2>2, SpliceTraces
  <2>6. Traces(e, rest, ChangedAt(L, Heads \cap rest, head, s \o t))
    BY <1>8, <2>3, <2>4, <2>5 DEF rest
  <2>7. Traces(e, rest, last)
    BY <2>6 DEF SplicedLast, s, t
  <2>8. QED
    BY <1>4, <2>7, ShownOnce
<1>11. QED
  BY <1>9, <1>10 DEF first, last, L, rest, d, e

\* After the variants that initialise the list they emptied.
LEMMA SpliceInitLists ==
  ASSUME NEW h, NEW used, RingsOK(h, used), NEW list \in Heads \cap used,
         NEW head \in Heads \cap used, list # head, ~ list_empty(h, list)
  PROVE  /\ ListsOf(list_splice_init(h, list, head), used) =
              ChangedAt(ListsOf(list_splice(h, list, head), used \ {list}), Heads \cap used,
                        list, <<>>)
         /\ ListsOf(list_splice_tail_init(h, list, head), used) =
              ChangedAt(ListsOf(list_splice_tail(h, list, head), used \ {list}), Heads \cap used,
                        list, <<>>)
<1> DEFINE rest == used \ {list}
           d == list_splice(h, list, head)
           e == list_splice_tail(h, list, head)
<1>1. RingsOK(d, rest) /\ RingsOK(e, rest)
  BY SpliceOK
<1>2. list \in Nodes /\ list \notin rest /\ rest \cup {list} = used
  BY HeadsAreNoEntries
<1>3. /\ list_splice_init(h, list, head) = INIT_LIST_HEAD(d, list)
      /\ list_splice_tail_init(h, list, head) = INIT_LIST_HEAD(e, list)
  BY DEF list_splice_init, list_splice_tail_init
<1> HIDE DEF rest, d, e
<1>4. /\ ListsOf(INIT_LIST_HEAD(d, list), rest \cup {list}) =
            ChangedAt(ListsOf(d, rest), Heads \cap (rest \cup {list}), list, <<>>)
      /\ ListsOf(INIT_LIST_HEAD(e, list), rest \cup {list}) =
            ChangedAt(ListsOf(e, rest), Heads \cap (rest \cup {list}), list, <<>>)
  BY <1>1, <1>2, InitLists
<1>5. QED
  BY <1>2, <1>3, <1>4 DEF rest, d, e

\* Where an entry of the list is given, there is something to cut.
LEMMA SomethingToCut ==
  ASSUME NEW h, NEW used, RingsOK(h, used), NEW head \in Heads \cap used,
         NEW entry \in Entries, entry \in Range(ListsOf(h, used)[head])
  PROVE  ~ NothingToCut(h, head, entry)
<1> DEFINE L == ListsOf(h, used)
           s == L[head]
<1>1. ~ list_empty(h, head) /\ entry \in Range(Visit(h.next, head)) /\ entry # head
  <2>1. entry \in Range(Visit(h.next, head))
    BY DEF ListsOf
  <2>2. L[head] # <<>>
    <3>1. Range(<<>>) = {}
      BY EmptyWay
    <3>2. QED
      BY <3>1
  <2>3. ~ list_empty(h, head)
    BY <2>2, EmptySeen
  <2>4. entry # head
    BY HeadsAreNoEntries
  <2>5. QED
    BY <2>1, <2>3, <2>4
<1>2. list_is_singular(h, head) => h.next[head] = entry
  <2>1. PICK u, v \in Seq(Entries) : Split(s, entry, u, v)
    <3>1. s \in Seq(Entries) /\ IsInjective(s)
      BY ListsShown, ListFacts
    <3>2. QED
      BY <3>1, SplitAt
  <2>2. Way(h.next, head, u, entry) /\ Way(h.next, entry, v, head)
    <3> DEFINE link == h.next
    <3> HIDE DEF link
    <3>1. Way(link, head, u \o <<entry>> \o v, head)
      <4>1. Way(h.next, head, s, head)
        BY ListsShown, ListFacts
      <4>2. QED
        BY <2>1, <4>1 DEF Split, link
    <3>2. Way(link, head, u, entry) /\ Way(link, entry, v, head)
      BY <3>1, WayThrough
    <3>3. QED
      BY <3>2 DEF link
  <2>3. Range(u) \subseteq used /\ entry \in used
    <3>1. Range(s) \subseteq used
      BY ListsShown, ListFacts
    <3>2. QED
      BY <2>1, <3>1 DEF Split
  <2>4. SUFFICES ASSUME h.next[head] = h.prev[head] PROVE h.next[head] = entry
    BY DEF list_is_singular
  <2> DEFINE x == h.next[head]
  <2>5. h.next[x] = head
    BY <2>4, Before
  <2>6. x \in Range(u) \cup {entry}
    <3>1. h.next[head] = FirstOf(u, entry)
      BY <2>2 DEF Way
    <3>2. QED
      BY <3>1, FirstInside
  <2>7. x \notin Range(u)
    <3>1. SUFFICES ASSUME x \in Range(u) PROVE FALSE
      OBVIOUS
    <3> DEFINE link == h.next
    <3>2. Way(link, head, u, entry)
      BY <2>2
    <3> HIDE DEF link, x
    <3>3. link[x] \in Range(u) \cup {entry}
      BY <3>1, <3>2, Inside
    <3>4. head \notin Range(s)
      BY ListsShown, ListFacts
    <3>5. QED
      BY <2>1, <2>5, <3>3, <3>4, HeadsAreNoEntries DEF Split, link
  <2>8. QED
    BY <2>6, <2>7
<1>3. QED
  BY <1>1, <1>2 DEF NothingToCut

\* The lists after the first part of the one of "head" was cut off.
LeftBehind(h, used, list, head, entry) ==
  ChangedAt(ListsOf(h, used), Heads \cap (used \ {list}), head,
            Seqs!After(ListsOf(h, used)[head], entry))

\* The lists after __list_cut_position.
LEMMA CutLists ==
  ASSUME NEW h, NEW used, RingsOK(h, used), NEW head \in Heads \cap used,
         NEW list \in Heads, list # head, list \notin used \/ h.next[list] = list,
         NEW entry \in Entries, entry \in Range(ListsOf(h, used)[head])
  PROVE  ListsOf(cut_between(h, list, head, entry), used \cup {list}) =
           ChangedAt(LeftBehind(h, used, list, head, entry), Heads \cap (used \cup {list}), list,
                     Seqs!UpTo(ListsOf(h, used)[head], entry))
<1> DEFINE L == ListsOf(h, used)
           rest == used \ {list}
           M == ListsOf(h, rest)
           d == cut_between(h, list, head, entry)
           s == L[head]
<1>1. RingsOK(h, rest) /\ \A g \in Heads \cap rest : M[g] = L[g]
  BY Forgotten
<1>2. rest \cup {list} = used \cup {list} /\ list \in Heads \ rest /\ head \in Heads \cap rest
  OBVIOUS
<1>3. Shows(h, rest, M)
  BY <1>1, ListsShown
<1>4. M[head] = s
  BY <1>1, <1>2
<1>5. RingsOK(d, used \cup {list})
  <2>1. ~ NothingToCut(h, head, entry) /\ entry # head
    BY SomethingToCut, HeadsAreNoEntries
  <2>2. entry \in Range(Visit(h.next, head))
    BY DEF ListsOf
  <2>3. RingsOK(list_cut_position(h, list, head, entry),
                IF NothingToCut(h, head, entry) THEN used ELSE used \cup {list})
    BY <2>2, CutOK
  <2>4. QED
    BY <2>1, <2>3 DEF list_cut_position
<1>6. s \in Seq(Entries) /\ IsInjective(s)
  BY <1>3, <1>4, <1>2, ListFacts
<1>7. PICK u, v \in Seq(Entries) : Split(s, entry, u, v)
  BY <1>6, SplitAt
<1>8. Seqs!UpTo(s, entry) = u \o <<entry>> /\ Seqs!After(s, entry) = v
  BY <1>7 DEF Split
<1> HIDE DEF L, M, rest, d, s
<1>9. Traces(cut_between(h, list, head, entry), rest \cup {list},
             ChangedAt(ChangedAt(M, Heads \cap rest, head, v), Heads \cap (rest \cup {list}), list,
                       u \o <<entry>>))
  BY <1>1, <1>2, <1>3, <1>4, <1>7, CutTraces
<1>10. ChangedAt(M, Heads \cap rest, head, v) = ChangedAt(L, Heads \cap rest, head, v)
  BY <1>1 DEF ChangedAt
<1>11. Traces(d, used \cup {list},
              ChangedAt(ChangedAt(L, Heads \cap rest, head, v), Heads \cap (used \cup {list}), list,
                        u \o <<entry>>))
  BY <1>2, <1>9, <1>10 DEF d
<1>12. ListsOf(d, used \cup {list}) =
         ChangedAt(ChangedAt(L, Heads \cap rest, head, v), Heads \cap (used \cup {list}), list,
                   u \o <<entry>>)
  BY <1>5, <1>11, ShownOnce
<1>13. QED
  BY <1>8, <1>12 DEF L, rest, d, s, LeftBehind

-----------------------------------------------------------------------------
(* The calls, and the loop, as steps of ListSeqs                           *)

\* What the refinement mapping gives for "lists".
Shown == [h \in LiveHeads |-> ListOf(h)]

\* They are the lists of the heap, before a step and after.
LEMMA ShownIs == Shown = ListsOf(heap, live) /\ Shown' = ListsOf(heap', live')
  BY DEF Shown, LiveHeads, ListOf, ListsOf

\* Every head in use has a sequence of entries.
LEMMA ShownDomain ==
  ASSUME RingsOK(heap, live)
  PROVE  /\ DOMAIN Shown = Heads \cap live
         /\ Shown = [g \in Heads \cap live |-> Shown[g]]
         /\ \A g \in Heads \cap live : Shown[g] \in Seq(Entries)
<1>1. Shown = [g \in Heads \cap live |-> Visit(heap.next, g)]
  BY DEF Shown, LiveHeads, ListOf
<1>2. Shows(heap, live, Shown)
  BY ListsShown, ShownIs
<1>3. QED
  BY <1>1, <1>2, ListFacts

\* An entry nobody needs is on no list.
LEMMA NotShown ==
  ASSUME RingsOK(heap, live), NEW e \in Entries, e \notin live \/ heap.next[e] = e
  PROVE  Shown = OffEach(Shown, Heads \cap live, e)
<1>1. \A g \in Heads \cap (live \ {e}) : e \notin Range(Shown[g])
  BY Forgotten, ShownIs
<1>2. Heads \cap (live \ {e}) = Heads \cap live
  BY HeadsAreNoEntries
<1>3. \A g \in Heads \cap live : Seqs!Without(Shown[g], e) = Shown[g]
  BY <1>1, <1>2, ShownDomain, WithoutNone
<1>4. QED
  BY <1>3, ShownDomain DEF OffEach

\* Off, of ListSeqs.
LEMMA SeqsOff ==
  ASSUME RingsOK(heap, live), NEW e
  PROVE  Seqs!Off(e) = OffEach(Shown, Heads \cap live, e)
<1>1. DOMAIN Shown = Heads \cap live
  BY ShownDomain
<1>2. Seqs!Off(e) = [h \in DOMAIN Shown |-> Seqs!Without(Shown[h], e)]
  BY DEF Seqs!Off, Seqs!Used, Shown
<1>3. QED
  BY <1>1, <1>2 DEF OffEach

\* Whatever takes e off all lists is a step of ListSeqs,
LEMMA TakesOff ==
  ASSUME RingsOK(heap, live), NEW e \in Entries, Shown' = OffEach(Shown, Heads \cap live, e),
         op' \in {<<"list_del", e>>, <<"list_del_init", e>>}
  PROVE  Seqs!Next
<1>1. Seqs!TakeOff(e)
  BY SeqsOff DEF Seqs!TakeOff, Shown
<1>2. QED
  BY <1>1 DEF Seqs!Next

\* so is what puts it first on a list afterwards,
LEMMA AddsFirst ==
  ASSUME RingsOK(heap, live), NEW e \in Entries, NEW h \in Heads \cap live,
         Shown' = AddedFirst(OffEach(Shown, Heads \cap live, e), h, e),
         \/ op' = <<"list_move", e, h>>
         \/ Shown = OffEach(Shown, Heads \cap live, e) /\ op' = <<"list_add", e, h>>
  PROVE  Seqs!Next
<1>1. Seqs!AddFirst(e, h)
  BY SeqsOff, ShownDomain DEF Seqs!AddFirst, Seqs!Used, Shown, AddedFirst
<1>2. QED
  BY <1>1 DEF Seqs!Next

\* and what puts it last.
LEMMA AddsLast ==
  ASSUME RingsOK(heap, live), NEW e \in Entries, NEW h \in Heads \cap live,
         Shown' = AddedLast(OffEach(Shown, Heads \cap live, e), h, e),
         \/ op' = <<"list_move_tail", e, h>>
         \/ Shown = OffEach(Shown, Heads \cap live, e) /\ op' = <<"list_add_tail", e, h>>
  PROVE  Seqs!Next
<1>1. Seqs!AddLast(e, h)
  BY SeqsOff, ShownDomain DEF Seqs!AddLast, Seqs!Used, Shown, AddedLast
<1>2. QED
  BY <1>1 DEF Seqs!Next

\* Each call, from rings in order, is a step of ListSeqs: INIT_LIST_HEAD,
LEMMA InitialiseImplements ==
  ASSUME RingInv, NEW x \in Nodes, Initialise(x)
  PROVE  Seqs!Next
<1>1. /\ RingsOK(heap, live)
      /\ x \notin live \/ heap.next[x] = x
      /\ heap' = INIT_LIST_HEAD(heap, x) /\ live' = live \cup {x}
      /\ op' = <<"INIT_LIST_HEAD", x>>
  BY DEF RingInv, Initialise, Unused, list_empty, Call
<1>2. Shown' = ChangedAt(Shown, Heads \cap (live \cup {x}), x, <<>>)
  BY <1>1, InitLists, ShownIs
<1>3. CASE x \in Entries
  <2>1. Heads \cap (live \cup {x}) = Heads \cap live /\ x \notin Heads
    BY <1>3, HeadsAreNoEntries
  <2> DEFINE none == <<>>
  <2> HIDE DEF none
  <2>2. ChangedAt(Shown, Heads \cap live, x, none) = Shown
    BY <1>1, <2>1, ShownDomain DEF ChangedAt
  <2>3. Shown' = Shown
    BY <1>2, <2>1, <2>2 DEF none
  <2>4. Shown = Seqs!Off(x)
    BY <1>1, <1>3, NotShown, SeqsOff
  <2>5. Seqs!InitEntry(x)
    BY <1>1, <2>3, <2>4 DEF Seqs!InitEntry, Shown
  <2>6. QED
    BY <1>3, <2>5 DEF Seqs!Next
<1>4. CASE x \in Heads
  <2>1. DOMAIN Shown = Heads \cap live /\ (Heads \cap live) \cup {x} = Heads \cap (live \cup {x})
    BY <1>1, <1>4, ShownDomain
  <2>2. x \notin DOMAIN Shown \/ Shown[x] = <<>>
    <3>1. SUFFICES ASSUME x \in live PROVE Shown[x] = <<>>
      BY <2>1
    <3>2. list_empty(heap, x)
      BY <1>1, <3>1 DEF list_empty
    <3>3. QED
      BY <1>1, <1>4, <3>1, <3>2, EmptySeen, ShownIs
  <2> DEFINE none == <<>>
  <2> HIDE DEF none
  <2>3. Shown' = [y \in DOMAIN Shown \cup {x} |-> IF y = x THEN none ELSE Shown[y]]
    BY <1>2, <2>1 DEF ChangedAt, none
  <2>4. Seqs!With(x, none) = [y \in DOMAIN Shown \cup {x} |-> IF y = x THEN none ELSE Shown[y]]
    BY DEF Seqs!With, Seqs!Used, Shown
  <2>5. Shown' = Seqs!With(x, <<>>)
    BY <2>3, <2>4 DEF none
  <2>6. Seqs!InitHead(x)
    BY <1>1, <2>2, <2>5 DEF Seqs!InitHead, Seqs!Used, Shown
  <2>7. QED
    BY <1>4, <2>6 DEF Seqs!Next
<1>5. QED
  BY <1>3, <1>4 DEF Nodes

\* list_add and list_add_tail,
LEMMA AddImplements ==
  ASSUME RingInv, NEW e \in Entries, NEW head \in Heads, Add(e, head)
  PROVE  Seqs!Next
<1>1. /\ RingsOK(heap, live)
      /\ e \notin live \/ heap.next[e] = e
      /\ head \in Heads \cap live /\ live' = live \cup {e}
      /\ \/ heap' = list_add(heap, e, head) /\ op' = <<"list_add", e, head>>
         \/ heap' = list_add_tail(heap, e, head) /\ op' = <<"list_add_tail", e, head>>
  BY DEF RingInv, Add, Unused, list_empty, LiveHeads, Call
<1>2. /\ ListsOf(list_add(heap, e, head), live \cup {e}) = AddedFirst(Shown, head, e)
      /\ ListsOf(list_add_tail(heap, e, head), live \cup {e}) = AddedLast(Shown, head, e)
  BY <1>1, AddLists, ShownIs
<1>3. Shown = OffEach(Shown, Heads \cap live, e)
  BY <1>1, NotShown
<1>4. CASE heap' = list_add(heap, e, head) /\ op' = <<"list_add", e, head>>
  <2>1. Shown' = AddedFirst(OffEach(Shown, Heads \cap live, e), head, e)
    BY <1>1, <1>2, <1>3, <1>4, ShownIs
  <2>2. QED
    BY <1>1, <1>3, <1>4, <2>1, AddsFirst
<1>5. CASE heap' = list_add_tail(heap, e, head) /\ op' = <<"list_add_tail", e, head>>
  <2>1. Shown' = AddedLast(OffEach(Shown, Heads \cap live, e), head, e)
    BY <1>1, <1>2, <1>3, <1>5, ShownIs
  <2>2. QED
    BY <1>1, <1>3, <1>5, <2>1, AddsLast
<1>6. QED
  BY <1>1, <1>4, <1>5

\* list_del and list_del_init,
LEMMA DeleteImplements ==
  ASSUME RingInv, NEW e \in Entries, Delete(e)
  PROVE  Seqs!Next
<1>1. /\ RingsOK(heap, live) /\ e \in Entries \cap live
      /\ \/ heap' = list_del(heap, e) /\ live' = live \ {e} /\ op' = <<"list_del", e>>
         \/ heap' = list_del_init(heap, e) /\ live' = live /\ op' = <<"list_del_init", e>>
  BY DEF RingInv, Delete, Call
<1>2. /\ ListsOf(list_del(heap, e), live \ {e}) = OffEach(Shown, Heads \cap live, e)
      /\ ListsOf(list_del_init(heap, e), live) = OffEach(Shown, Heads \cap live, e)
  BY <1>1, DelLists, ShownIs DEF OffAll
<1>3. Shown' = OffEach(Shown, Heads \cap live, e)
  BY <1>1, <1>2, ShownIs
<1>4. op' \in {<<"list_del", e>>, <<"list_del_init", e>>}
  BY <1>1
<1>5. QED
  BY <1>1, <1>3, <1>4, TakesOff

\* list_move and list_move_tail,
LEMMA MoveImplements ==
  ASSUME RingInv, NEW e \in Entries, NEW head \in Heads, Move(e, head)
  PROVE  Seqs!Next
<1>1. /\ RingsOK(heap, live) /\ e \in Entries \cap live
      /\ head \in Heads \cap live /\ live' = live
      /\ \/ heap' = list_move(heap, e, head) /\ op' = <<"list_move", e, head>>
         \/ heap' = list_move_tail(heap, e, head) /\ op' = <<"list_move_tail", e, head>>
  BY DEF RingInv, Move, LiveHeads, Call
<1>2. /\ ListsOf(list_move(heap, e, head), live) = AddedFirst(OffEach(Shown, Heads \cap live, e), head, e)
      /\ ListsOf(list_move_tail(heap, e, head), live) = AddedLast(OffEach(Shown, Heads \cap live, e), head, e)
  BY <1>1, MoveLists, ShownIs DEF OffAll
<1>3. QED
  BY <1>1, <1>2, AddsFirst, AddsLast, ShownIs

\* list_replace and list_replace_init on entries,
LEMMA ReplaceImplements ==
  ASSUME RingInv, NEW old \in Entries, NEW new \in Entries, Replace(old, new)
  PROVE  Seqs!Next
<1> DEFINE fresh == live \ {new}
<1>1. /\ RingsOK(heap, live) /\ old \in Entries \cap live /\ new # old
      /\ new \notin live \/ heap.next[new] = new
      /\ \/ /\ heap' = list_replace(heap, old, new) /\ live' = (live \ {old}) \cup {new}
            /\ op' = <<"list_replace", old, new>>
         \/ /\ heap' = list_replace_init(heap, old, new) /\ live' = live \cup {new}
            /\ op' = <<"list_replace_init", old, new>>
  BY DEF RingInv, Replace, Call, Unused, list_empty
<1>2. /\ ListsOf(list_replace(heap, old, new), (live \ {old}) \cup {new}) =
           ReplacedIn(Shown, Heads \cap live, old, new)
      /\ ListsOf(list_replace_init(heap, old, new), live \cup {new}) =
           ReplacedIn(Shown, Heads \cap live, old, new)
  <2>1. RingsOK(heap, fresh) /\ old \in Entries \cap fresh /\ new \in Entries \ fresh
    BY <1>1, StillOK
  <2>2. /\ (fresh \ {old}) \cup {new} = (live \ {old}) \cup {new}
        /\ fresh \cup {new} = live \cup {new} /\ Heads \cap fresh = Heads \cap live
    BY <1>1, HeadsAreNoEntries
  <2>3. ListsOf(heap, fresh) = ListsOf(heap, live)
    BY <2>2 DEF ListsOf
  <2> HIDE DEF fresh
  <2>4. /\ ListsOf(list_replace(heap, old, new), (fresh \ {old}) \cup {new}) =
             ReplacedIn(ListsOf(heap, fresh), Heads \cap fresh, old, new)
        /\ ListsOf(list_replace_init(heap, old, new), fresh \cup {new}) =
             ReplacedIn(ListsOf(heap, fresh), Heads \cap fresh, old, new)
    BY <2>1, ReplaceLists
  <2>5. QED
    BY <2>2, <2>3, <2>4, ShownIs
<1>3. Shown' = ReplacedIn(Shown, Heads \cap live, old, new)
  BY <1>1, <1>2, ShownIs
<1>4. Shown = Seqs!Off(new)
  BY <1>1, NotShown, SeqsOff
<1>5. op' \in {<<"list_replace", old, new>>, <<"list_replace_init", old, new>>}
  BY <1>1
<1>6. Shown' = [h \in DOMAIN Shown |-> ReplaceAll(Shown[h], old, new)]
  BY <1>1, <1>3, ShownDomain DEF ReplacedIn
<1>7. \A s : Seqs!ReplaceAll(s, old, new) = ReplaceAll(s, old, new)
  BY DEF Seqs!ReplaceAll, ReplaceAll
<1>8. Seqs!Replace(old, new)
  BY <1>4, <1>5, <1>6, <1>7 DEF Seqs!Replace, Seqs!Used, Shown
<1>9. QED
  BY <1>8 DEF Seqs!Next

\* and on heads,
LEMMA ReplaceHeadImplements ==
  ASSUME RingInv, NEW old \in Heads, NEW new \in Heads, Replace(old, new)
  PROVE  Seqs!Next
<1> DEFINE none == <<>>
           rest == (live \ {old}) \cup {new}
           fresh == live \ {new}
           after == ChangedAt(Shown, Heads \cap rest, new, Shown[old])
<1> SUFFICES Seqs!ReplaceHead(old, new)
  BY DEF Seqs!Next
<1>1. /\ RingsOK(heap, live) /\ old \in Heads \cap live /\ new # old
      /\ new \notin live \/ heap.next[new] = new
      /\ \/ /\ heap' = list_replace(heap, old, new) /\ live' = rest
            /\ op' = <<"list_replace", old, new>>
         \/ /\ heap' = list_replace_init(heap, old, new) /\ live' = live \cup {new}
            /\ op' = <<"list_replace_init", old, new>>
  BY DEF RingInv, Replace, Call, Unused, list_empty
<1>2. /\ ListsOf(list_replace(heap, old, new), rest) = after
      /\ ListsOf(list_replace_init(heap, old, new), live \cup {new}) =
           ChangedAt(after, Heads \cap (live \cup {new}), old, none)
  <2>1. RingsOK(heap, fresh) /\ old \in Heads \cap fresh /\ new \in Heads \ fresh
    BY <1>1, StillOK
  <2>2. (fresh \ {old}) \cup {new} = rest /\ fresh \cup {new} = live \cup {new}
    BY <1>1
  <2>3. \A g \in Heads \cap fresh : ListsOf(heap, fresh)[g] = ListsOf(heap, live)[g]
    BY DEF ListsOf
  <2>4. \A g \in Heads \cap rest : g # new => g \in Heads \cap fresh
    OBVIOUS
  <2> HIDE DEF fresh, rest
  <2>5. /\ ListsOf(list_replace(heap, old, new), (fresh \ {old}) \cup {new}) =
             HeadReplaced(heap, fresh, old, new)
        /\ ListsOf(list_replace_init(heap, old, new), fresh \cup {new}) =
             ChangedAt(HeadReplaced(heap, fresh, old, new), Heads \cap (fresh \cup {new}), old, none)
    BY ONLY <2>1, ReplaceHeadLists
  <2>6. HeadReplaced(heap, fresh, old, new) = after
    BY <2>1, <2>2, <2>3, <2>4, ShownIs DEF HeadReplaced, ChangedAt
  <2>7. QED
    BY <2>2, <2>5, <2>6
<1>3. DOMAIN Shown = Heads \cap live
  BY <1>1, ShownDomain
<1>a. new \in DOMAIN Shown => Shown[new] = <<>>
  <2>1. SUFFICES ASSUME new \in Heads \cap live PROVE Shown[new] = <<>>
    BY <1>3
  <2>2. list_empty(heap, new)
    BY <1>1, <2>1 DEF list_empty
  <2>3. QED
    BY <1>1, <2>1, <2>2, EmptySeen, ShownIs
<1>4. Seqs!With(new, Shown[old]) = [x \in DOMAIN Shown \cup {new} |-> IF x = new THEN Shown[old] ELSE Shown[x]]
  BY DEF Seqs!With, Seqs!Used, Shown
<1> HIDE DEF none
<1>5. CASE heap' = list_replace(heap, old, new) /\ live' = rest /\ op' = <<"list_replace", old, new>>
  <2>1. Shown' = after
    BY <1>2, <1>5, ShownIs
  <2>2. Seqs!Drop(Seqs!With(new, Shown[old]), old) = after
    BY <1>1, <1>3, <1>4 DEF Seqs!Drop, ChangedAt
  <2>3. QED
    BY <1>1, <1>3, <1>5, <1>a, <2>1, <2>2 DEF Seqs!ReplaceHead, Seqs!Used, Shown
<1>6. CASE /\ heap' = list_replace_init(heap, old, new) /\ live' = live \cup {new}
           /\ op' = <<"list_replace_init", old, new>>
  <2>1. Shown' = ChangedAt(after, Heads \cap (live \cup {new}), old, none)
    BY <1>2, <1>6, ShownIs
  <2>2. [Seqs!With(new, Shown[old]) EXCEPT ![old] = none] = Shown'
    BY <1>1, <1>3, <1>4, <2>1 DEF ChangedAt
  <2>3. QED
    BY <1>1, <1>3, <1>6, <1>a, <2>2 DEF Seqs!ReplaceHead, Seqs!Used, Shown, none
<1>7. QED
  BY <1>1, <1>5, <1>6

\* the four list_splices,
LEMMA SpliceImplements ==
  ASSUME RingInv, NEW list \in Heads, NEW head \in Heads, Splice(list, head)
  PROVE  Seqs!Next
<1> DEFINE none == <<>>
           rest == live \ {list}
           after1 == SplicedFirst(Shown, Heads \cap rest, list, head)
           after2 == SplicedLast(Shown, Heads \cap rest, list, head)
           first == [Shown EXCEPT ![head] = Shown[list] \o @, ![list] = none]
           last == [Shown EXCEPT ![head] = @ \o Shown[list], ![list] = none]
           how(name) == op' = <<name, list, head>>
<1>1. /\ RingsOK(heap, live) /\ list \in Heads \cap live /\ head \in Heads \cap live /\ list # head
      /\ LET left == IF list_empty(heap, list) THEN live ELSE rest
         IN \/ /\ how("list_splice") /\ heap' = list_splice(heap, list, head)
               /\ live' = left
            \/ /\ how("list_splice_tail") /\ heap' = list_splice_tail(heap, list, head)
               /\ live' = left
            \/ /\ how("list_splice_init") /\ heap' = list_splice_init(heap, list, head)
               /\ live' = live
            \/ /\ how("list_splice_tail_init") /\ heap' = list_splice_tail_init(heap, list, head)
               /\ live' = live
  BY DEF RingInv, Splice, LiveHeads, Call
<1>2. /\ DOMAIN Shown = Heads \cap live /\ Shown[list] \in Seq(Entries) /\ Shown[head] \in Seq(Entries)
      /\ list_empty(heap, list) <=> Shown[list] = none
  BY <1>1, ShownDomain, EmptySeen, ShownIs
<1>3. SUFFICES \/ /\ how("list_splice")
                  /\ Shown' = IF Shown[list] = none THEN first ELSE Seqs!Drop(first, list)
               \/ /\ how("list_splice_tail")
                  /\ Shown' = IF Shown[list] = none THEN last ELSE Seqs!Drop(last, list)
               \/ how("list_splice_init") /\ Shown' = first
               \/ how("list_splice_tail_init") /\ Shown' = last
  <2>1. Seqs!Splice(list, head)
    BY <1>1, <1>2, <1>3 DEF Seqs!Splice, Seqs!Used, Shown
  <2>2. QED
    BY <2>1 DEF Seqs!Next
<1>4. CASE list_empty(heap, list)
  <2>1. heap' = heap /\ live' = live
    BY <1>1, <1>4 DEF list_splice, list_splice_tail, list_splice_init, list_splice_tail_init
  <2>2. Shown' = Shown
    BY <2>1, ShownIs
  <2>3. Shown[list] \o Shown[head] = Shown[head] /\ Shown[head] \o Shown[list] = Shown[head]
    BY <1>2, <1>4, Units
  <2>4. Shown[list] = none
    BY <1>2, <1>4
  <2> HIDE DEF none
  <2>5. first = Shown /\ last = Shown
    BY <1>1, <1>2, <2>3, <2>4, ShownDomain
  <2> HIDE DEF first, last
  <2>6. QED
    BY <1>1, <2>2, <2>4, <2>5
<1>5. CASE ~ list_empty(heap, list)
  <2>1. /\ ListsOf(list_splice(heap, list, head), rest) = after1
        /\ ListsOf(list_splice_tail(heap, list, head), rest) = after2
        /\ ListsOf(list_splice_init(heap, list, head), live) =
             ChangedAt(after1, Heads \cap live, list, none)
        /\ ListsOf(list_splice_tail_init(heap, list, head), live) =
             ChangedAt(after2, Heads \cap live, list, none)
    <3>1. /\ RingsOK(heap, live) /\ list \in Heads \cap live /\ head \in Heads \cap live
          /\ list # head /\ ~ list_empty(heap, list)
      BY <1>1, <1>5
    <3>2. /\ ListsOf(list_splice(heap, list, head), rest) =
               SplicedFirst(ListsOf(heap, live), Heads \cap rest, list, head)
          /\ ListsOf(list_splice_tail(heap, list, head), rest) =
               SplicedLast(ListsOf(heap, live), Heads \cap rest, list, head)
      BY ONLY <3>1, SpliceLists
    <3>4. /\ ListsOf(list_splice_init(heap, list, head), live) =
               ChangedAt(ListsOf(list_splice(heap, list, head), rest), Heads \cap live, list, none)
          /\ ListsOf(list_splice_tail_init(heap, list, head), live) =
               ChangedAt(ListsOf(list_splice_tail(heap, list, head), rest), Heads \cap live, list, none)
      BY ONLY <3>1, SpliceInitLists
    <3>5. QED
      BY <3>2, <3>4, ShownIs
  <2> HIDE DEF none
  <2>2. /\ Seqs!Drop(first, list) = after1
        /\ first = ChangedAt(after1, Heads \cap live, list, none)
    BY <1>1, <1>2 DEF ChangedAt, Seqs!Drop, SplicedFirst
  <2>3. /\ Seqs!Drop(last, list) = after2
        /\ last = ChangedAt(after2, Heads \cap live, list, none)
    BY <1>1, <1>2 DEF ChangedAt, Seqs!Drop, SplicedLast
  <2> HIDE DEF first, last, after1, after2
  <2>4. Shown[list] # none
    BY <1>2, <1>5
  <2>5. QED
    BY <1>1, <1>5, <2>1, <2>2, <2>3, <2>4, ShownIs
<1>6. QED
  BY <1>4, <1>5

\* The first entry, taken off, leaves the tail.
LEMMA FirstOff ==
  ASSUME NEW s \in Seq(Entries), IsInjective(s), s # <<>>
  PROVE  Seqs!Without(s, s[1]) = Tail(s) /\ s[1] \in Entries /\ s[1] \in Range(s) /\ Head(s) = s[1]
<1>1. Len(s) \in Nat /\ Len(s) # 0
  BY Lengths
<1>2. 1 \in 1 .. Len(s)
  BY <1>1
<1>3. s[1] \in Entries /\ s[1] \in Range(s) /\ Head(s) = s[1]
  BY <1>2 DEF Range
<1>4. Seqs!Without(s, s[1]) = SubSeq(s, 1, 1 - 1) \o SubSeq(s, 1 + 1, Len(s))
  BY <1>2, AtPosition
<1>5. SubSeq(s, 1, 1 - 1) = <<>> /\ SubSeq(s, 1 + 1, Len(s)) = Tail(s) /\ Tail(s) \in Seq(Entries)
  BY <1>1
<1>6. <<>> \o Tail(s) = Tail(s)
  BY <1>5, Units
<1>7. QED
  BY <1>3, <1>4, <1>5, <1>6

\* list_rotate_left,
LEMMA RotateImplements ==
  ASSUME RingInv, NEW head \in Heads, RotateLeft(head)
  PROVE  Seqs!Next
<1> DEFINE none == <<>>
           s == Shown[head]
<1>1. /\ RingsOK(heap, live) /\ head \in Heads \cap live /\ live' = live
      /\ heap' = list_rotate_left(heap, head) /\ op' = <<"list_rotate_left", head>>
  BY DEF RingInv, RotateLeft, LiveHeads, Call
<1>2. /\ DOMAIN Shown = Heads \cap live
      /\ list_empty(heap, head) <=> s = none
  BY <1>1, ShownDomain, EmptySeen, ShownIs
<1>3. SUFFICES Shown' = IF s = none THEN Shown
                        ELSE [Shown EXCEPT ![head] = Tail(@) \o <<Head(@)>>]
  <2>1. Seqs!Rotate(head)
    BY <1>1, <1>2, <1>3 DEF Seqs!Rotate, Seqs!Used, Shown
  <2>2. QED
    BY <2>1 DEF Seqs!Next
<1>4. CASE s = none
  <2>1. heap' = heap /\ live' = live
    BY <1>1, <1>2, <1>4 DEF list_rotate_left
  <2>2. QED
    BY <1>4, <2>1, ShownIs
<1>5. CASE s # none
  <2> DEFINE e == heap.next[head]
  <2>1. Shows(heap, live, Shown)
    BY <1>1, ListsShown, ShownIs
  <2>2. /\ s \in Seq(Entries) /\ IsInjective(s) /\ Range(s) \subseteq live /\ e = FirstOf(s, head)
        /\ \A g \in Heads \cap live : g # head => Range(s) \cap Range(Shown[g]) = {}
    BY <1>1, <2>1 DEF Shows, Traces, Way
  <2>3. e = s[1] /\ s # <<>>
    BY <1>5, <2>2 DEF FirstOf
  <2>4. /\ e \in Entries \cap live /\ e \in Range(s) /\ Head(s) = e
        /\ Seqs!Without(s, e) = Tail(s)
    BY <2>2, <2>3, FirstOff
  <2>5. \A g \in Heads \cap live : g # head => Seqs!Without(Shown[g], e) = Shown[g]
    BY <1>1, <2>2, <2>4, ShownDomain, WithoutNone
  <2>6. heap' = list_move_tail(heap, e, head)
    BY <1>1, <1>2, <1>5 DEF list_rotate_left
  <2> HIDE DEF e
  <2>7. ListsOf(list_move_tail(heap, e, head), live) =
          AddedLast(OffEach(Shown, Heads \cap live, e), head, e)
    BY <1>1, <2>4, MoveLists, ShownIs DEF OffAll
  <2>8. Shown' = AddedLast(OffEach(Shown, Heads \cap live, e), head, e)
    BY <1>1, <2>6, <2>7, ShownIs
  <2>9. OffEach(Shown, Heads \cap live, e) = [Shown EXCEPT ![head] = Tail(s)]
    BY <1>1, <1>2, <2>4, <2>5, ShownDomain DEF OffEach
  <2>10. Shown' = [Shown EXCEPT ![head] = Tail(s) \o <<e>>]
    BY <1>1, <1>2, <2>8, <2>9, ShownDomain DEF AddedLast
  <2>11. QED
    BY <1>5, <2>4, <2>10
<1>6. QED
  BY <1>4, <1>5

\* list_cut_position.
LEMMA CutImplements ==
  ASSUME RingInv, NEW list \in Heads, NEW head \in Heads, NEW entry \in Entries \cup {head},
         CutPosition(list, head, entry)
  PROVE  Seqs!Next
<1> DEFINE none == <<>>
           s == Shown[head]
           fewer == Spared(heap, live, list)
           more == fewer \cup {list}
           to == Seqs!UpTo(s, entry)
           from == Seqs!After(s, entry)
<1>1. /\ RingsOK(heap, live) /\ head \in Heads \cap live /\ list # head
      /\ entry = head \/ entry \in Range(ListOf(head))
      /\ heap' = list_cut_position(heap, list, head, entry)
      /\ live' = IF NothingToCut(heap, head, entry) THEN live ELSE more
      /\ op' = <<"list_cut_position", list, head, entry>>
  <2>1. (live \ Lost(list)) \cup {list} = more
    BY LostIs DEF Spared
  <2>2. QED
    BY <2>1 DEF RingInv, CutPosition, LiveHeads, Call
<1>2. /\ DOMAIN Shown = Heads \cap live /\ s = ListOf(head) /\ s \in Seq(Entries)
      /\ list_empty(heap, head) <=> s = none
  BY <1>1, ShownDomain, EmptySeen, ShownIs DEF Shown, LiveHeads
<1>3. /\ RingsOK(heap, fewer) /\ Heads \cap fewer = (Heads \cap live) \ {list}
      /\ head \in Heads \cap fewer /\ list \notin fewer
  <2>1. RingsOK(heap, fewer) /\ Heads \cap fewer = (Heads \cap live) \ {list}
    BY <1>1, Abandoned
  <2>2. list \notin fewer
    BY DEF Spared
  <2>3. QED
    BY <1>1, <2>1, <2>2
<1> HIDE DEF fewer
<1>a. /\ ListsOf(heap, fewer) = [g \in Heads \cap fewer |-> Shown[g]]
      /\ Heads \cap more = (Heads \cap live) \cup {list}
  <2>1. \A g \in Heads \cap fewer : ListsOf(heap, live)[g] = Visit(heap.next, g)
    BY <1>3 DEF ListsOf
  <2>2. QED
    BY <1>3, <2>1, ShownIs DEF ListsOf
<1>4. SUFFICES \/ s = none /\ entry = head /\ Shown' = Shown
               \/ s # none /\ entry = head /\ Shown' = Seqs!With(list, none)
               \/ /\ Seqs!Contains(s, entry)
                  /\ Shown' = [Seqs!With(list, to) EXCEPT ![head] = Seqs!After(@, entry)]
  <2>1. Seqs!Cut(list, head, entry)
    BY <1>1, <1>2, <1>4 DEF Seqs!Cut, Seqs!Used, Shown
  <2>2. QED
    BY <2>1 DEF Seqs!Next
<1>5. CASE entry = head
  <2>1. NothingToCut(heap, head, entry) <=> s = none
    BY <1>2, <1>5 DEF NothingToCut
  <2>2. CASE s = none
    <3>1. heap' = heap /\ live' = live
      BY <1>1, <2>1, <2>2 DEF list_cut_position
    <3>2. QED
      BY <1>5, <2>2, <3>1, ShownIs
  <2>3. CASE s # none
    <3>1. heap' = INIT_LIST_HEAD(heap, list) /\ live' = more
      BY <1>1, <1>5, <2>1, <2>3 DEF list_cut_position
    <3>2. list \in Nodes
      BY DEF Nodes
    <3>3. ListsOf(INIT_LIST_HEAD(heap, list), more) =
            ChangedAt(ListsOf(heap, fewer), Heads \cap more, list, none)
      BY <1>3, <3>2, InitLists
    <3>4. Shown' = ChangedAt(ListsOf(heap, fewer), Heads \cap more, list, none)
      BY <3>1, <3>3, ShownIs
    <3> HIDE DEF none
    <3>5. Seqs!With(list, none) = [x \in DOMAIN Shown \cup {list} |->
                                     IF x = list THEN none ELSE Shown[x]]
      BY DEF Seqs!With, Seqs!Used, Shown
    <3>6. Shown' = Seqs!With(list, none)
      BY <1>2, <1>3, <1>a, <3>4, <3>5 DEF ChangedAt
    <3>7. QED
      BY <1>5, <2>3, <3>6
  <2>4. QED
    BY <2>2, <2>3
<1>6. CASE entry # head
  <2>1. entry \in Entries /\ entry \in Range(s)
    BY <1>1, <1>2, <1>6
  <2>2. entry \in Range(ListsOf(heap, live)[head])
    BY <2>1, ShownIs
  <2>3. ~ NothingToCut(heap, head, entry)
    BY <1>1, <2>1, <2>2, SomethingToCut
  <2>4. heap' = cut_between(heap, list, head, entry) /\ live' = more
    BY <1>1, <1>6, <2>3 DEF list_cut_position
  <2>5. entry \in Range(ListsOf(heap, fewer)[head]) /\ ListsOf(heap, fewer)[head] = s
    BY <1>3, <1>a, <2>1
  <2>6. ListsOf(cut_between(heap, list, head, entry), more) =
          ChangedAt(LeftBehind(heap, fewer, list, head, entry), Heads \cap more, list,
                    Seqs!UpTo(ListsOf(heap, fewer)[head], entry))
    BY <1>1, <1>3, <2>1, <2>5, CutLists
  <2>7. Shown' = [x \in Heads \cap more |->
                    IF x = list THEN to ELSE IF x = head THEN from ELSE Shown[x]]
    <3>1. Shown' = ChangedAt(LeftBehind(heap, fewer, list, head, entry), Heads \cap more, list, to)
      BY <2>4, <2>5, <2>6, ShownIs
    <3>2. LeftBehind(heap, fewer, list, head, entry) =
            ChangedAt(ListsOf(heap, fewer), Heads \cap (fewer \ {list}), head, from)
      BY <2>5 DEF LeftBehind
    <3> HIDE DEF to, from
    <3>3. \A x \in Heads \cap more : x # list => x \in Heads \cap (fewer \ {list}) /\ x \in Heads \cap fewer
      OBVIOUS
    <3>4. \A x \in Heads \cap (fewer \ {list}) :
            LeftBehind(heap, fewer, list, head, entry)[x] = IF x = head THEN from ELSE Shown[x]
      BY <1>a, <3>2 DEF ChangedAt
    <3> HIDE DEF more
    <3>5. QED
      BY <3>1, <3>3, <3>4 DEF ChangedAt
  <2>8. Seqs!With(list, to) = [x \in DOMAIN Shown \cup {list} |->
                                 IF x = list THEN to ELSE Shown[x]]
    BY DEF Seqs!With, Seqs!Used, Shown
  <2>9. Seqs!With(list, to)[head] = s
    BY <1>1, <1>2, <2>8
  <2>10. Shown' = [Seqs!With(list, to) EXCEPT ![head] = from]
    <3> HIDE DEF to, from
    <3>1. (Heads \cap live) \cup {list} = Heads \cap more
      BY <1>a
    <3>2. [Seqs!With(list, to) EXCEPT ![head] = from] =
            [x \in Heads \cap more |-> IF x = head THEN from ELSE IF x = list THEN to ELSE Shown[x]]
      BY <1>1, <1>2, <2>8, <3>1
    <3>3. QED
      BY <1>1, <2>7, <3>2
  <2>11. Seqs!Contains(s, entry)
    BY <1>2, <2>1, Lengths DEF Range, Seqs!Contains
  <2>12. QED
    BY <2>9, <2>10, <2>11
<1>7. QED
  BY <1>5, <1>6

\* No call does anything else.
LEMMA CallsImplement ==
  ASSUME RingInv, Calls
  PROVE  Seqs!Next
<1>1. ASSUME NEW x \in Nodes, Initialise(x)
      PROVE  Seqs!Next
  BY <1>1, InitialiseImplements
<1>2. ASSUME NEW e \in Entries, Delete(e)
      PROVE  Seqs!Next
  BY <1>2, DeleteImplements
<1>3. ASSUME NEW e \in Entries, NEW head \in Heads, Add(e, head)
      PROVE  Seqs!Next
  BY <1>3, AddImplements
<1>4. ASSUME NEW e \in Entries, NEW head \in Heads, Move(e, head)
      PROVE  Seqs!Next
  BY <1>4, MoveImplements
<1>5. ASSUME NEW old \in Entries, NEW new \in Entries, Replace(old, new)
      PROVE  Seqs!Next
  BY <1>5, ReplaceImplements
<1>6. ASSUME NEW old \in Heads, NEW new \in Heads, Replace(old, new)
      PROVE  Seqs!Next
  BY <1>6, ReplaceHeadImplements
<1>7. ASSUME NEW old \in Heads, NEW new \in Heads, Splice(old, new)
      PROVE  Seqs!Next
  BY <1>7, SpliceImplements
<1>8. ASSUME NEW head \in Heads, RotateLeft(head)
      PROVE  Seqs!Next
  BY <1>8, RotateImplements
<1>9. ASSUME NEW list \in Heads, NEW head \in Heads, NEW entry \in Entries \cup {head},
             CutPosition(list, head, entry)
      PROVE  Seqs!Next
  BY <1>9, CutImplements
<1>10. QED
  BY <1>1, <1>2, <1>3, <1>4, <1>5, <1>6, <1>7, <1>8, <1>9 DEF Calls

\* The loop's body moves the entry it is at: a call like any other.
LEMMA MoveEntryImplements ==
  ASSUME RingInv, NEW call \in {"list_move", "list_move_tail"}, NEW head \in Heads \cap live,
         iter.pos \in Entries \cap live, MoveEntry(call, head)
  PROVE  Seqs!Next
<1> DEFINE e == iter.pos
           heads == Heads \cap live
<1>1. RingsOK(heap, live) /\ e \in Entries \cap live /\ head \in heads /\ live' = live
      /\ \/ heap' = list_move(heap, e, head) /\ op' = <<"list_move", e, head>>
         \/ heap' = list_move_tail(heap, e, head) /\ op' = <<"list_move_tail", e, head>>
  BY DEF RingInv, MoveEntry
<1> HIDE DEF e
<1>2. /\ ListsOf(list_move(heap, e, head), live) = AddedFirst(OffEach(Shown, heads, e), head, e)
      /\ ListsOf(list_move_tail(heap, e, head), live) = AddedLast(OffEach(Shown, heads, e), head, e)
  BY <1>1, MoveLists, ShownIs DEF OffAll
<1>3. CASE heap' = list_move(heap, e, head) /\ op' = <<"list_move", e, head>>
  <2>1. Shown' = AddedFirst(OffEach(Shown, heads, e), head, e)
    BY <1>1, <1>2, <1>3, ShownIs
  <2>2. QED
    BY <1>1, <1>3, <2>1, AddsFirst
<1>4. CASE heap' = list_move_tail(heap, e, head) /\ op' = <<"list_move_tail", e, head>>
  <2>1. Shown' = AddedLast(OffEach(Shown, heads, e), head, e)
    BY <1>1, <1>2, <1>4, ShownIs
  <2>2. QED
    BY <1>1, <1>4, <2>1, AddsLast
<1>5. QED
  BY <1>1, <1>3, <1>4

\* What it does to it otherwise is one too, or nothing.
LEMMA LoopTurnImplements ==
  ASSUME RingInv, Running, LoopTurn
  PROVE  Seqs!Next \/ (Shown' = Shown /\ op' = op)
<1> DEFINE e == iter.pos
           heads == Heads \cap live
<1>1. RingsOK(heap, live) /\ e \in Entries \cap live
  BY LoopPlace DEF RingInv, LoopTurn
<1>2. \/ heap' = heap /\ live' = live /\ op' = op
      \/ heap' = list_del(heap, e) /\ live' = live \ {e} /\ op' = <<"list_del", e>>
      \/ heap' = list_del_init(heap, e) /\ live' = live /\ op' = <<"list_del_init", e>>
      \/ \E call \in {"list_move", "list_move_tail"}, head \in heads : MoveEntry(call, head)
  BY DEF LoopTurn, LiveHeads
<1> HIDE DEF e
<1>3. /\ ListsOf(list_del(heap, e), live \ {e}) = OffEach(Shown, heads, e)
      /\ ListsOf(list_del_init(heap, e), live) = OffEach(Shown, heads, e)
  BY <1>1, DelLists, ShownIs DEF OffAll
<1>4. CASE heap' = heap /\ live' = live /\ op' = op
  BY <1>4, ShownIs
<1>5. CASE \/ heap' = list_del(heap, e) /\ live' = live \ {e} /\ op' = <<"list_del", e>>
           \/ heap' = list_del_init(heap, e) /\ live' = live /\ op' = <<"list_del_init", e>>
  <2>1. Shown' = OffEach(Shown, heads, e)
    BY <1>3, <1>5, ShownIs
  <2>2. op' \in {<<"list_del", e>>, <<"list_del_init", e>>}
    BY <1>5
  <2>3. QED
    BY <1>1, <2>1, <2>2, TakesOff
<1>6. ASSUME NEW call \in {"list_move", "list_move_tail"}, NEW head \in heads, MoveEntry(call, head)
      PROVE  Seqs!Next
  BY <1>1, <1>6, MoveEntryImplements DEF e
<1>7. QED
  BY <1>2, <1>4, <1>5, <1>6

LEMMA LoopTurnAgainImplements ==
  ASSUME RingInv, Running, LoopTurnAgain
  PROVE  Seqs!Next
<1>1. iter.head \in Heads \cap live /\ iter.pos \in Entries \cap live
  <2>1. iter.pos # iter.head
    BY DEF LoopTurnAgain
  <2>2. QED
    BY <2>1, LoopPlace DEF Running, LiveHeads
<1>2. PICK call \in {"list_move", "list_move_tail"} : MoveEntry(call, iter.head)
  BY DEF LoopTurnAgain
<1>3. QED
  BY <1>1, <1>2, MoveEntryImplements

\* No head is initialised at first.
LEMMA SeqsStart == Init => Seqs!Init
<1> SUFFICES ASSUME Init PROVE Seqs!Init
  OBVIOUS
<1>1. Shown = <<>>
  <2>1. Shown = [h \in {} |-> ListOf(h)]
    BY DEF Init, Shown, LiveHeads
  <2>2. QED
    BY <2>1
<1>2. QED
  BY <1>1 DEF Init, Seqs!Init, Shown

\* Every step is a step of ListSeqs or leaves the sequences alone.
LEMMA SeqsStep ==
  RingInv /\ LoopInv /\ [Next]_vars => [Seqs!Next]_<<Shown, op>>
<1> SUFFICES ASSUME RingInv, LoopInv, [Next]_vars
             PROVE  Seqs!Next \/ (Shown' = Shown /\ op' = op)
  OBVIOUS
<1>1. CASE Calls
  BY <1>1, CallsImplement
<1>2. CASE LoopTurn
  <2>1. Running
    BY <1>2 DEF LoopInv, LoopTurn
  <2>2. QED
    BY <1>2, <2>1, LoopTurnImplements
<1>3. CASE LoopTurnAgain
  <2>1. Running
    BY <1>3 DEF LoopInv, LoopTurnAgain
  <2>2. QED
    BY <1>3, <2>1, LoopTurnAgainImplements
<1>4. CASE heap' = heap /\ live' = live /\ op' = op
  BY <1>4, ShownIs
<1>5. QED
  BY <1>1, <1>2, <1>3, <1>4 DEF Next, Calls, StartLoop, EndLoop, vars

(***************************************************************************)
(* Whatever calls come in whatever order, from any number of heads and     *)
(* entries, inside a safe loop or outside: each does to the sequences what *)
(* its comment in list.h says, to the list it is about and to no other.    *)
(***************************************************************************)
THEOREM ImplementsListSeqs == Spec => SeqSpec
<1>1. [Seqs!Next]_<<Shown, op>> => [Seqs!Next]_<<[h \in LiveHeads |-> ListOf(h)], op>>
  BY DEF Shown
<1>2. QED
  BY RingsStart, RingsStep, SeqsStart, SeqsStep, <1>1, PTL DEF Spec, SeqSpec, Seqs!Spec

-----------------------------------------------------------------------------
(* The hash chains                                                         *)

Pointers ==
  [first : [Owners -> Entries \cup {NULL}], pprev : [Entries -> Owners \cup {NULL}]]

\* No nodes hang on each other: in every set of them one hangs on something else.
NoCycle ==
  \A S \in SUBSET {n \in Entries : Hashed(n)} :
    S # {} => \E n \in S : hheap.pprev[n] \notin S

(***************************************************************************)
(* PprevRight is inductive with the types, as what a function reads        *)
(* through pprev is a field, and with NoCycle: of two nodes that point at  *)
(* each other hlist_del would leave one that points at itself.             *)
(***************************************************************************)
HlistInv == hheap \in Pointers /\ PprevRight /\ NoCycle

LEMMA NoObjectIsNull == NULL \notin Owners /\ NULL \notin Entries /\ Entries \subseteq Owners
  BY ListAssumption, HlistAssumption DEF Owners, Nodes

LEMMA HlistInit == HInit => HlistInv
  BY NoObjectIsNull DEF HInit, HlistInv, Pointers, PprevRight, NoCycle, Hashed, Fake, hlist_unhashed

LEMMA DeletedKeepsInv ==
  ASSUME HlistInv, NEW n \in Entries, HDelete(n)
  PROVE  hheap' \in Pointers /\ PprevRight'
<1> USE NoObjectIsNull DEF HlistInv, Pointers, PprevRight, Hashed, Fake, hlist_unhashed
<1>1. CASE hheap' = INIT_HLIST_NODE(unlink(hheap, n), n) /\ ~ hlist_unhashed(hheap, n)
  <2> DEFINE p == hheap.pprev[n]
             s == hheap.first[n]
  <2>1. p \in Owners /\ s \in Entries \cup {NULL}
    BY <1>1
  <2>2. hheap'.first = [hheap.first EXCEPT ![p] = s, ![n] = NULL]
    BY <1>1 DEF INIT_HLIST_NODE, unlink
  <2>r. hheap' = [first |-> hheap'.first, pprev |-> hheap'.pprev]
    BY <1>1 DEF INIT_HLIST_NODE
  <2>3. CASE Fake(n)
    <3>1. p = n /\ s = NULL
      BY <2>3
    <3>2. hheap'.pprev = [hheap.pprev EXCEPT ![n] = NULL]
      BY <1>1, <3>1 DEF INIT_HLIST_NODE, unlink, Back
    <3>3. hheap' \in Pointers
      <4>1. hheap'.first \in [Owners -> Entries \cup {NULL}]
        BY <2>1, <2>2
      <4>2. hheap'.pprev \in [Entries -> Owners \cup {NULL}]
        BY <3>2
      <4>3. QED
        BY <2>r, <4>1, <4>2
    <3>4. QED
      BY <2>2, <3>1, <3>2, <3>3
  <2>4. CASE ~ Fake(n)
    <3>1. p # n /\ hheap.first[p] = n /\ s # n
      BY <1>1, <2>4
    <3>2. hheap'.pprev = IF s = NULL THEN [hheap.pprev EXCEPT ![n] = NULL]
                         ELSE [hheap.pprev EXCEPT ![s] = p, ![n] = NULL]
      BY <1>1 DEF INIT_HLIST_NODE, unlink, Back
    <3>3. hheap' \in Pointers
      <4>1. hheap'.first \in [Owners -> Entries \cup {NULL}]
        BY <2>1, <2>2
      <4>2. hheap'.pprev \in [Entries -> Owners \cup {NULL}]
        BY <2>1, <3>2
      <4>3. QED
        BY <2>r, <4>1, <4>2
    <3>4. s # NULL => hheap.pprev[s] = n /\ p # s
      <4>1. SUFFICES ASSUME s # NULL
                     PROVE  hheap.pprev[s] = n /\ p # s
        OBVIOUS
      <4>2. s \in Entries /\ hheap.pprev[s] = n
        BY <2>1, <4>1
      <4>3. {n, s} \in SUBSET {m \in Entries : Hashed(m)}
        BY <1>1, <2>4, <3>1, <4>2
      <4>4. PICK m \in {n, s} : hheap.pprev[m] \notin {n, s}
        BY <4>3 DEF NoCycle
      <4>5. QED
        BY <4>2, <4>4
    <3>5. CASE s = NULL
      BY <2>1, <2>2, <3>1, <3>2, <3>3, <3>5
    <3>6. CASE s # NULL
      <4>1. ASSUME NEW x \in Owners, NEW m \in Entries, hheap'.first[x] = m
            PROVE  hheap'.pprev[m] = x
        BY <2>1, <2>2, <3>1, <3>2, <3>4, <3>6, <4>1
      <4>2. ASSUME NEW m \in Entries, Hashed(m)'
            PROVE  hheap'.first[hheap'.pprev[m]] = m
        BY <2>1, <2>2, <3>1, <3>2, <3>4, <3>6, <4>2
      <4>3. ASSUME NEW m \in Entries, ~ Hashed(m)'
            PROVE  hheap'.first[m] = NULL
        BY <2>1, <2>2, <3>1, <3>2, <3>4, <3>6, <4>3
      <4>4. QED
        BY <3>3, <4>1, <4>2, <4>3
    <3>7. QED
      BY <3>5, <3>6
  <2>5. QED
    BY <2>3, <2>4
<1>2. CASE hheap' = hheap
  BY <1>2
<1>3. QED
  BY <1>1, <1>2 DEF HDelete, HCall, hlist_del, hlist_del_init

LEMMA PointersStep == HlistInv /\ [HNext]_hvars => hheap' \in Pointers /\ PprevRight'
<1> SUFFICES ASSUME HlistInv, [HNext]_hvars
             PROVE  hheap' \in Pointers /\ PprevRight'
  OBVIOUS
<1> USE NoObjectIsNull DEF HlistInv, Pointers, PprevRight, Hashed, Fake, hlist_unhashed
<1>1. ASSUME NEW n \in Entries, HDelete(n)
      PROVE  hheap' \in Pointers /\ PprevRight'
  BY <1>1, DeletedKeepsInv
<1>2. ASSUME NEW n \in Entries, HAddFake(n)
      PROVE  hheap' \in Pointers /\ PprevRight'
  BY <1>2 DEF HAddFake, HCall, hlist_add_fake
<1>3. ASSUME NEW n \in Entries, NEW b \in Buckets, HAddHead(n, b)
      PROVE  hheap' \in Pointers /\ PprevRight'
  <2>1. b # n /\ b \in Owners /\ b \notin Entries
    BY HlistAssumption DEF Owners
  <2>2. QED
    BY <1>3, <2>1 DEF HAddHead, HCall, hlist_add_head, Back
<1>4. ASSUME NEW n \in Entries, NEW next \in Entries, HAddBefore(n, next)
      PROVE  hheap' \in Pointers /\ PprevRight'
  <2> DEFINE q == hheap.pprev[next]
  <2>1. /\ hheap' = [first |-> [hheap.first EXCEPT ![n] = next, ![q] = n],
                     pprev |-> [hheap.pprev EXCEPT ![n] = q, ![next] = n]]
        /\ hheap.pprev[n] = NULL /\ q # NULL /\ q # next /\ hheap.first[q] = next
    BY <1>4 DEF HAddBefore, HCall, hlist_add_before
  <2>2. /\ n # next /\ q # n /\ {q, n, next} \subseteq Owners /\ hheap.first[n] = NULL
    BY <2>1
  <2>3. hheap' \in Pointers
    BY <2>1, <2>2
  <2>4. /\ \A x \in Owners : hheap'.first[x] = IF x = q THEN n ELSE IF x = n THEN next
                                               ELSE hheap.first[x]
        /\ \A m \in Entries : hheap'.pprev[m] = IF m = next THEN n ELSE IF m = n THEN q
                                                ELSE hheap.pprev[m]
    BY <2>1, <2>2
  <2>5. PprevRight'
    BY <2>1, <2>2, <2>4
  <2>6. QED
    BY <2>3, <2>5
<1>5. ASSUME NEW n \in Entries, NEW next \in Entries, HAddAfter(n, next)
      PROVE  hheap' \in Pointers /\ PprevRight'
  BY <1>5 DEF HAddAfter, HCall, hlist_add_after, Back
<1>6. ASSUME NEW old \in Buckets, NEW new \in Buckets, HMoveList(old, new)
      PROVE  hheap' \in Pointers /\ PprevRight'
  <2>1. {old, new} \subseteq Owners /\ {old, new} \cap Entries = {}
    BY HlistAssumption DEF Owners
  <2>2. QED
    BY <1>6, <2>1 DEF HMoveList, HCall, hlist_move_list, hlist_empty, Back
<1>7. CASE UNCHANGED hvars
  BY <1>7 DEF hvars
<1>8. QED
  BY <1>1, <1>2, <1>3, <1>4, <1>5, <1>6, <1>7 DEF HNext

-----------------------------------------------------------------------------
(* NoCycle                                                                 *)

LEMMA CycleStep == HlistInv /\ [HNext]_hvars => NoCycle'
<1> SUFFICES ASSUME HlistInv, [HNext]_hvars,
                    NEW S \in SUBSET {n \in Entries : Hashed(n)'}, S # {}
             PROVE  \E n \in S : hheap'.pprev[n] \notin S
  BY DEF NoCycle
<1> USE NoObjectIsNull DEF HlistInv, Pointers, PprevRight, Hashed, Fake, hlist_unhashed
\* What hung on nothing in S before still does, unless its pprev changed.
<1>a. ASSUME NEW T \in SUBSET {n \in Entries : Hashed(n)}, T # {}
      PROVE  \E n \in T : hheap.pprev[n] \notin T
  BY <1>a DEF NoCycle
<1>1. ASSUME NEW n \in Entries, HDelete(n)
      PROVE  \E m \in S : hheap'.pprev[m] \notin S
  <2>1. CASE hheap' = hheap
    BY <1>a, <2>1
  <2>2. CASE hheap' = INIT_HLIST_NODE(unlink(hheap, n), n) /\ ~ hlist_unhashed(hheap, n)
    <3> DEFINE p == hheap.pprev[n]
               s == hheap.first[n]
    <3>1. hheap'.pprev = IF s = NULL THEN [hheap.pprev EXCEPT ![n] = NULL]
                         ELSE [hheap.pprev EXCEPT ![s] = p, ![n] = NULL]
      BY <2>2 DEF INIT_HLIST_NODE, unlink, Back
    <3>2. n \notin S
      BY <3>1
    <3>3. CASE s = NULL \/ s \notin S
      <4>1. \A m \in S : hheap'.pprev[m] = hheap.pprev[m]
        BY <3>1, <3>2, <3>3
      <4>2. S \in SUBSET {m \in Entries : Hashed(m)}
        BY <4>1
      <4>3. QED
        BY <1>a, <4>1, <4>2
    <3>4. CASE s # NULL /\ s \in S
      <4>1. hheap.pprev[s] = n /\ hheap'.pprev[s] = p /\ s # n
        BY <3>1, <3>2, <3>4
      <4>2. \A m \in S \ {s} : hheap'.pprev[m] = hheap.pprev[m]
        BY <3>1, <3>2, <3>4
      <4>3. Hashed(n)
        BY <2>2, <3>4
      <4>4. S \cup {n} \in SUBSET {m \in Entries : Hashed(m)}
        BY <4>1, <4>2, <4>3
      <4>5. PICK m \in S \cup {n} : hheap.pprev[m] \notin S \cup {n}
        BY <1>a, <4>4
      <4>6. CASE m = n
        BY <3>4, <4>1, <4>5, <4>6
      <4>7. CASE m # n
        BY <4>1, <4>2, <4>5, <4>7
      <4>8. QED
        BY <4>6, <4>7
    <3>5. QED
      BY <3>3, <3>4
  <2>3. QED
    BY <1>1, <2>1, <2>2 DEF HDelete, HCall, hlist_del, hlist_del_init
<1>2. ASSUME NEW n \in Entries, HAddFake(n)
      PROVE  \E m \in S : hheap'.pprev[m] \notin S
  <2>1. hheap'.pprev = [hheap.pprev EXCEPT ![n] = n]
    BY <1>2 DEF HAddFake, HCall, hlist_add_fake
  <2>2. n \notin S /\ \A m \in S : hheap'.pprev[m] = hheap.pprev[m]
    BY <2>1
  <2>3. QED
    BY <1>a, <2>2
<1>3. ASSUME NEW n \in Entries, NEW b \in Buckets, HAddHead(n, b)
      PROVE  \E m \in S : hheap'.pprev[m] \notin S
  <2> DEFINE f == hheap.first[b]
  <2>1. b \in Owners /\ b \notin Entries
    BY HlistAssumption DEF Owners
  <2>2. hheap'.pprev = IF f = NULL THEN [hheap.pprev EXCEPT ![n] = b]
                       ELSE [hheap.pprev EXCEPT ![f] = n, ![n] = b]
    BY <1>3 DEF HAddHead, HCall, hlist_add_head, Back
  <2>3. CASE n \in S
    BY <2>1, <2>2, <2>3
  <2>4. CASE n \notin S /\ f \in S
    BY <2>2, <2>4
  <2>5. CASE n \notin S /\ f \notin S
    <3>1. \A m \in S : hheap'.pprev[m] = hheap.pprev[m]
      BY <2>2, <2>5
    <3>2. QED
      BY <1>a, <3>1
  <2>6. QED
    BY <2>3, <2>4, <2>5
<1>4. ASSUME NEW n \in Entries, NEW next \in Entries, HAddBefore(n, next)
      PROVE  \E m \in S : hheap'.pprev[m] \notin S
  <2> DEFINE p == hheap.pprev[next]
             T == S \ {n}
  <2>1. hheap'.pprev = [hheap.pprev EXCEPT ![n] = p, ![next] = n]
    BY <1>4 DEF HAddBefore, HCall, hlist_add_before
  <2>2. n # next /\ p # n /\ hheap.first[n] = NULL /\ Hashed(next)
    BY <1>4 DEF HAddBefore
  <2>3. \A m \in T \ {next} : hheap'.pprev[m] = hheap.pprev[m]
    BY <2>1
  <2>4. T \in SUBSET {m \in Entries : Hashed(m)}
    BY <2>2, <2>3
  <2>5. \A m \in T : hheap.pprev[m] # n
    BY <2>2, <2>4
  <2>6. CASE T = {}
    BY <2>1, <2>2, <2>6
  <2>7. CASE T # {}
    <3>1. PICK m \in T : hheap.pprev[m] \notin T
      BY <1>a, <2>4, <2>7
    <3>2. hheap.pprev[m] \notin S
      BY <2>5, <3>1
    <3>3. CASE m # next
      BY <2>3, <3>1, <3>2, <3>3
    <3>4. CASE m = next /\ n \in S
      BY <2>1, <2>2, <3>2, <3>4
    <3>5. CASE m = next /\ n \notin S
      BY <2>1, <3>1, <3>5
    <3>6. QED
      BY <3>3, <3>4, <3>5
  <2>8. QED
    BY <2>6, <2>7
<1>5. ASSUME NEW n \in Entries, NEW next \in Entries, HAddAfter(n, next)
      PROVE  \E m \in S : hheap'.pprev[m] \notin S
  <2> DEFINE f == hheap.first[n]
             T == S \ {next}
  <2>1. n # next /\ f # next /\ hheap.first[next] = NULL /\ Hashed(n)
    BY <1>5 DEF HAddAfter
  <2>2. hheap'.pprev = IF f = NULL THEN [hheap.pprev EXCEPT ![next] = n]
                       ELSE [hheap.pprev EXCEPT ![next] = n, ![f] = next]
    BY <1>5 DEF HAddAfter, HCall, hlist_add_after, Back
  <2>3. hheap'.pprev[next] = n
    BY <2>1, <2>2
  <2>4. \A m \in T \ {f} : hheap'.pprev[m] = hheap.pprev[m]
    BY <2>2
  <2>5. f \in Entries => hheap.pprev[f] = n /\ hheap'.pprev[f] = next
    BY <2>1, <2>2
  <2>6. T \in SUBSET {m \in Entries : Hashed(m)}
    <3>1. f \in Entries => Hashed(f)
      BY <2>1, <2>5
    <3>2. QED
      BY <2>4, <3>1
  <2>7. CASE next \in S /\ n \notin S
    BY <2>3, <2>7
  <2>8. CASE next \notin S /\ f \in S
    BY <2>5, <2>8
  <2>9. CASE next \notin S /\ f \notin S
    BY <1>a, <2>4, <2>6, <2>9
  <2>10. CASE next \in S /\ n \in S
    <3>1. PICK m \in T : hheap.pprev[m] \notin T
      BY <1>a, <2>1, <2>6, <2>10
    <3>2. hheap.pprev[m] # next /\ m # f
      BY <2>1, <2>5, <2>6, <2>10, <3>1
    <3>3. QED
      BY <2>4, <3>1, <3>2
  <2>11. QED
    BY <2>7, <2>8, <2>9, <2>10
<1>6. ASSUME NEW old \in Buckets, NEW new \in Buckets, HMoveList(old, new)
      PROVE  \E m \in S : hheap'.pprev[m] \notin S
  <2> DEFINE f == hheap.first[old]
  <2>1. new \notin S /\ old \in Owners
    BY HlistAssumption DEF Owners
  <2>2. hheap'.pprev = IF f = NULL THEN hheap.pprev ELSE [hheap.pprev EXCEPT ![f] = new]
    BY <1>6 DEF HMoveList, HCall, hlist_move_list, Back
  <2>3. CASE f \in S
    BY <2>1, <2>2, <2>3
  <2>4. CASE f \notin S
    <3>1. \A m \in S : hheap'.pprev[m] = hheap.pprev[m]
      BY <2>2, <2>4
    <3>2. QED
      BY <1>a, <3>1
  <2>5. QED
    BY <2>3, <2>4
<1>7. CASE UNCHANGED hvars
  <2>1. hheap' = hheap
    BY <1>7 DEF hvars
  <2>2. QED
    BY <1>a, <2>1
<1>8. QED
  BY <1>1, <1>2, <1>3, <1>4, <1>5, <1>6, <1>7 DEF HNext

\* Every pprev names the one field that points at its node.
THEOREM BackPointersRight == ListsSpec => []PprevRight
<1>1. [OneKind]_<<vars, hvars>> => [HNext]_hvars
  BY DEF OneKind
<1>2. HlistInv => PprevRight
  BY DEF HlistInv
<1>3. HlistInv /\ [HNext]_hvars => HlistInv'
  BY PointersStep, CycleStep DEF HlistInv
<1>4. QED
  BY <1>1, <1>2, <1>3, HlistInit, PTL DEF ListsInit, ListsSpec

-----------------------------------------------------------------------------
(* The chain of a bucket                                                   *)

\* HlistOf, in the heap h.
ChainOf(h, b) ==
  LET at[k \in 0 .. Cardinality(Entries) + 1] ==
        IF k = 0 THEN b ELSE IF at[k - 1] = NULL THEN NULL ELSE h.first[at[k - 1]]
      last == CHOOSE k \in 0 .. Cardinality(Entries) :
                at[k + 1] = NULL /\ \A j \in 1 .. k : at[j] # NULL
  IN [k \in 1 .. last |-> at[k]]

Chains(h) == [b \in Buckets |-> ChainOf(h, b)]

\* Whatever points at a node is what its pprev names.
Pointed(h) ==
  /\ h \in Pointers
  /\ \A n \in Entries, x \in Owners : h.first[x] = n => h.pprev[n] = x

\* The steps from b, which end at NULL.
ChainSteps(h, b, at, n) ==
  at = [k \in 0 .. n |-> IF k = 0 THEN b ELSE IF at[k - 1] = NULL THEN NULL ELSE h.first[at[k - 1]]]

\* There are such steps, however many.
LEMMA ChainStepsExist ==
  ASSUME NEW h, Pointed(h), NEW b \in Buckets, NEW n \in Nat
  PROVE  \E at : ChainSteps(h, b, at, n)
<1> DEFINE link == [x \in Owners \cup {NULL} |-> IF x = NULL THEN NULL ELSE h.first[x]]
<1>1. \A x \in Owners \cup {NULL} : link[x] \in Owners \cup {NULL}
  BY NoObjectIsNull DEF Pointed, Pointers
<1>2. \A x \in Owners \cup {NULL} : link[x] = IF x = NULL THEN NULL ELSE h.first[x]
  OBVIOUS
<1> HIDE DEF link
<1>3. PICK at : Steps(link, b, at, n)
  BY StepsExist
<1>4. /\ DOMAIN at = 0 .. n
      /\ \A k \in 0 .. n : at[k] = IF k = 0 THEN b ELSE link[at[k - 1]]
  BY <1>3 DEF Steps
<1>5. \A k \in 0 .. n : at[k] \in Owners \cup {NULL}
  <2> DEFINE T == {k \in 0 .. n : at[k] \notin Owners \cup {NULL}}
  <2>1. SUFFICES ASSUME T # {} PROVE FALSE
    OBVIOUS
  <2>2. T \in SUBSET Nat
    OBVIOUS
  <2>3. PICK k \in T : \A y \in T : k <= y
    BY <2>1, <2>2, Least
  <2>4. k # 0
    BY <1>4, <2>3 DEF Owners
  <2>5. k \in 0 .. n /\ k - 1 \in 0 .. n /\ ~ (k <= k - 1)
    BY <2>3, <2>4
  <2>6. at[k - 1] \in Owners \cup {NULL}
    BY <2>3, <2>5
  <2>7. QED
    BY <1>1, <1>4, <2>3, <2>4, <2>5, <2>6
<1>6. \A k \in 0 .. n : at[k] = IF k = 0 THEN b ELSE IF at[k - 1] = NULL THEN NULL
                                                    ELSE h.first[at[k - 1]]
  <2>1. \A k \in 0 .. n : k # 0 => k - 1 \in 0 .. n
    OBVIOUS
  <2>2. QED
    BY <1>2, <1>4, <1>5, <2>1
<1>7. at = [k \in 0 .. n |-> at[k]]
  BY <1>3 DEF Steps
<1>8. ChainSteps(h, b, at, n)
  BY <1>6, <1>7 DEF ChainSteps
<1>9. QED
  BY <1>8

\* What such steps meet: nodes, and no node twice.
LEMMA ChainStepsMeet ==
  ASSUME NEW h, Pointed(h), NEW b \in Buckets, NEW n \in Nat, NEW at, ChainSteps(h, b, at, n)
  PROVE  /\ at[0] = b
         /\ \A k \in 1 .. n : at[k] = IF at[k - 1] = NULL THEN NULL ELSE h.first[at[k - 1]]
         /\ \A k \in 1 .. n : at[k] \in Entries \cup {NULL}
         /\ \A k \in 1 .. n : at[k] # NULL => at[k - 1] # NULL /\ h.pprev[at[k]] = at[k - 1]
         /\ \A i, j \in 0 .. n : i < j /\ at[j] # NULL => at[i] # at[j]
<1>1. /\ at[0] = b
      /\ \A k \in 1 .. n : at[k] = IF at[k - 1] = NULL THEN NULL ELSE h.first[at[k - 1]]
  <2>1. \A k \in 0 .. n : at[k] = IF k = 0 THEN b ELSE IF at[k - 1] = NULL THEN NULL
                                                      ELSE h.first[at[k - 1]]
    BY DEF ChainSteps
  <2>2. 0 \in 0 .. n /\ \A k \in 1 .. n : k \in 0 .. n /\ k # 0
    OBVIOUS
  <2>3. QED
    BY <2>1, <2>2
<1>2. \A k \in 1 .. n : at[k - 1] \in Owners => at[k] \in Entries \cup {NULL}
  BY <1>1, NoObjectIsNull DEF Pointed, Pointers
<1>3. \A k \in 1 .. n : at[k] \in Entries \cup {NULL}
  <2> DEFINE T == {k \in 1 .. n : at[k] \notin Entries \cup {NULL}}
  <2>1. SUFFICES ASSUME T # {} PROVE FALSE
    OBVIOUS
  <2>2. T \in SUBSET Nat
    OBVIOUS
  <2>3. PICK k \in T : \A y \in T : k <= y
    BY <2>1, <2>2, Least
  <2>4. k = 1 \/ (k - 1 \in 1 .. n /\ ~ (k <= k - 1))
    OBVIOUS
  <2>5. at[k - 1] \in Owners \cup {NULL}
    <3>1. CASE k = 1
      BY <1>1, <3>1 DEF Owners
    <3>2. CASE k - 1 \in 1 .. n /\ ~ (k <= k - 1)
      BY <2>3, <3>2, NoObjectIsNull
    <3>3. QED
      BY <2>4, <3>1, <3>2
  <2>6. QED
    BY <1>1, <1>2, <2>3, <2>5
<1>4. \A k \in 0 .. n : at[k] \in Owners \cup {NULL}
  <2>1. \A k \in 0 .. n : k = 0 \/ k \in 1 .. n
    OBVIOUS
  <2>2. QED
    BY <1>1, <1>3, <2>1, NoObjectIsNull DEF Owners
<1>5. \A k \in 1 .. n : at[k] # NULL => at[k - 1] # NULL /\ h.pprev[at[k]] = at[k - 1]
  <2>1. \A k \in 1 .. n : k - 1 \in 0 .. n
    OBVIOUS
  <2>2. QED
    BY <1>1, <1>3, <1>4, <2>1 DEF Pointed
<1>6. \A i, j \in 0 .. n : i < j /\ at[j] # NULL => at[i] # at[j]
  <2> DEFINE bad(i, j) == i < j /\ at[j] # NULL /\ at[i] = at[j]
             T == {i \in 0 .. n : \E j \in 0 .. n : bad(i, j)}
  <2>1. SUFFICES ASSUME T # {} PROVE FALSE
    OBVIOUS
  <2>2. T \in SUBSET Nat
    OBVIOUS
  <2>3. PICK i \in T : \A y \in T : i <= y
    BY <2>1, <2>2, Least
  <2>4. PICK j \in 0 .. n : bad(i, j)
    BY <2>3
  <2>5. j \in 1 .. n /\ at[j] \in Entries
    BY <1>3, <2>4
  <2>6. i # 0
    BY <1>1, <2>4, <2>5, HlistAssumption
  <2>7. /\ i \in 1 .. n /\ i - 1 \in 0 .. n /\ j - 1 \in 0 .. n /\ i - 1 < j - 1
        /\ ~ (i <= i - 1)
    BY <2>4, <2>5, <2>6
  <2>8. bad(i - 1, j - 1)
    BY <1>5, <2>4, <2>5, <2>7
  <2>9. QED
    BY <2>3, <2>7, <2>8
<1>7. QED
  BY <1>1, <1>3, <1>5, <1>6

\* The end of the chain in such steps.
ChainEnd(at, k) == at[k + 1] = NULL /\ \A j \in 1 .. k : at[j] # NULL

\* hlist_for_each finds an end: there are not so many nodes.
LEMMA ChainEnds ==
  ASSUME NEW h, Pointed(h), NEW b \in Buckets
  PROVE  \E at, m : /\ ChainSteps(h, b, at, Cardinality(Entries) + 1)
                    /\ m \in 0 .. Cardinality(Entries) /\ ChainEnd(at, m)
                    /\ ChainOf(h, b) = [k \in 1 .. m |-> at[k]]
<1> DEFINE N == Cardinality(Entries)
           at == CHOOSE f : f = [k \in 0 .. Cardinality(Entries) + 1 |->
                                   IF k = 0 THEN b ELSE IF f[k - 1] = NULL THEN NULL
                                                        ELSE h.first[f[k - 1]]]
           m == CHOOSE k \in 0 .. Cardinality(Entries) :
                  at[k + 1] = NULL /\ \A j \in 1 .. k : at[j] # NULL
<1>1. IsFiniteSet(Entries) /\ N \in Nat
  <2>1. Entries \subseteq Nodes
    BY DEF Nodes
  <2>2. QED
    BY <2>1, ListAssumption, FS_Subset, FS_CardinalityType
<1>2. ChainSteps(h, b, at, N + 1)
  <2>1. \E f : ChainSteps(h, b, f, Cardinality(Entries) + 1)
    <3>1. Cardinality(Entries) + 1 \in Nat
      BY <1>1
    <3>2. QED
      BY <3>1, ChainStepsExist
  <2>2. ChainSteps(h, b, at, Cardinality(Entries) + 1)
    BY <2>1 DEF ChainSteps
  <2>3. QED
    BY <2>2
<1>3. ChainOf(h, b) = [k \in 1 .. m |-> at[k]]
  BY DEF ChainOf
<1>4. m = CHOOSE k \in 0 .. N : ChainEnd(at, k)
  BY DEF ChainEnd
<1> HIDE DEF at, m, N
<1>5. /\ \A k \in 1 .. N + 1 : at[k] \in Entries \cup {NULL}
      /\ \A k \in 1 .. N + 1 : at[k] # NULL => at[k - 1] # NULL
      /\ \A i, j \in 0 .. N + 1 : i < j /\ at[j] # NULL => at[i] # at[j]
  BY <1>1, <1>2, ChainStepsMeet
<1>6. \E k \in 1 .. N + 1 : at[k] = NULL
  <2>1. SUFFICES ASSUME \A k \in 1 .. N + 1 : at[k] \in Entries PROVE FALSE
    BY <1>5
  <2> DEFINE S == 1 .. N + 1
             f == [k \in S |-> at[k]]
  <2>2. IsFiniteSet(S) /\ Cardinality(S) = N + 1
    <3>1. 1 \in Int /\ N + 1 \in Int /\ ~ (1 > N + 1) /\ N + 1 - 1 + 1 = N + 1
      BY <1>1
    <3>2. QED
      BY <3>1, FS_Interval
  <2>3. Cardinality(Entries) < Cardinality(S) /\ f \in [S -> Entries]
    BY <1>1, <2>1, <2>2 DEF N
  <2>4. \A i, j \in S : i # j => f[i] # f[j]
    <3>1. \A i, j \in S : i \in 0 .. N + 1 /\ j \in 0 .. N + 1 /\ (i # j => i < j \/ j < i)
      BY <1>1
    <3>2. \A i \in S : at[i] # NULL /\ f[i] = at[i]
      BY <2>1, NoObjectIsNull
    <3>3. QED
      BY <1>5, <3>1, <3>2
  <2> HIDE DEF S, f
  <2>5. QED
    BY <1>1, <2>2, <2>3, <2>4, FS_PigeonHole
<1>7. \E k \in 0 .. N : ChainEnd(at, k)
  <2> DEFINE T == {k \in 1 .. N + 1 : at[k] = NULL}
  <2>1. T \in SUBSET Nat /\ T # {}
    BY <1>6
  <2>2. PICK k \in T : \A y \in T : k <= y
    BY <2>1, Least
  <2>3. k - 1 \in 0 .. N /\ (k - 1) + 1 = k /\ \A j \in 1 .. k - 1 : j \in 1 .. N + 1 /\ ~ (k <= j)
    BY <1>1
  <2>4. ChainEnd(at, k - 1)
    BY <2>2, <2>3 DEF ChainEnd
  <2>5. QED
    BY <2>3, <2>4
<1>8. m \in 0 .. N /\ ChainEnd(at, m)
  BY <1>4, <1>7
<1>9. QED
  BY <1>2, <1>3, <1>8 DEF N

\* What hlist_for_each visits is the way from the bucket to NULL.
LEMMA ChainIsWay ==
  ASSUME NEW h, Pointed(h), NEW b \in Buckets
  PROVE  /\ ChainOf(h, b) \in Seq(Entries) /\ IsInjective(ChainOf(h, b))
         /\ Way(h.first, b, ChainOf(h, b), NULL)
<1> DEFINE N == Cardinality(Entries)
           s == ChainOf(h, b)
<1>1. N \in Nat
  <2>1. Entries \subseteq Nodes
    BY DEF Nodes
  <2>2. QED
    BY <2>1, ListAssumption, FS_Subset, FS_CardinalityType
<1>2. PICK at, m : /\ ChainSteps(h, b, at, N + 1) /\ m \in 0 .. N /\ ChainEnd(at, m)
                   /\ s = [k \in 1 .. m |-> at[k]]
  BY ChainEnds
<1> HIDE DEF N, s
<1>3. /\ at[0] = b
      /\ \A k \in 1 .. N + 1 : at[k] = IF at[k - 1] = NULL THEN NULL ELSE h.first[at[k - 1]]
      /\ \A k \in 1 .. N + 1 : at[k] \in Entries \cup {NULL}
      /\ \A i, j \in 0 .. N + 1 : i < j /\ at[j] # NULL => at[i] # at[j]
  BY <1>1, <1>2, ChainStepsMeet
<1>4. /\ \A k \in 1 .. m : at[k] # NULL
      /\ at[m + 1] = NULL
  BY <1>2 DEF ChainEnd
<1>5. /\ m \in Nat /\ m + 1 \in 1 .. N + 1 /\ (m + 1) - 1 = m
      /\ \A k \in 1 .. m : k \in 1 .. N + 1 /\ k \in 0 .. N + 1
      /\ \A k \in 1 .. m : k # m => k + 1 \in 1 .. m /\ k + 1 \in 1 .. N + 1 /\ (k + 1) - 1 = k
      /\ \A i, j \in 1 .. m : i < j \/ j < i \/ i = j
  BY <1>1, <1>2
<1>6. s \in Seq(Entries) /\ Len(s) = m /\ DOMAIN s = 1 .. m /\ \A k \in 1 .. m : s[k] = at[k]
  <2>1. \A k \in 1 .. m : at[k] \in Entries
    BY <1>3, <1>4, <1>5
  <2>2. s \in [1 .. m -> Entries]
    BY <1>2, <2>1
  <2>3. QED
    BY <1>2, <1>5, <2>2, FunSeq
<1>7. IsInjective(s)
  BY <1>3, <1>4, <1>5, <1>6 DEF IsInjective
<1>8. \A k \in 1 .. m : h.first[s[k]] = IF k = m THEN NULL ELSE s[k + 1]
  BY <1>3, <1>4, <1>5, <1>6
<1>9. Lead(h.first, s, NULL)
  BY <1>6, <1>8 DEF Lead
<1>10. h.first[b] = FirstOf(s, NULL)
  <2>1. s = <<>> <=> m = 0
    BY <1>6, Lengths
  <2>2. 1 \in 1 .. N + 1 /\ 1 - 1 = 0 /\ b # NULL
    BY <1>1, HlistAssumption
  <2>3. at[1] = h.first[b]
    BY <1>3, <2>2
  <2>4. CASE m = 0
    BY <1>4, <2>1, <2>3, <2>4 DEF FirstOf
  <2>5. CASE m # 0
    <3>1. 1 \in 1 .. m
      BY <1>5, <2>5
    <3>2. QED
      BY <1>6, <2>1, <2>3, <2>5, <3>1 DEF FirstOf
  <2>6. QED
    BY <2>4, <2>5
<1>11. QED
  BY <1>6, <1>7, <1>9, <1>10 DEF Way, s

\* The nodes the chain of b meets are those whose chain of pprevs leads to b.
LEMMA ChainBack ==
  ASSUME NEW h, Pointed(h), NEW b \in Buckets, NEW s \in Seq(Entries), Way(h.first, b, s, NULL)
  PROVE  \A k \in 1 .. Len(s) : h.pprev[s[k]] = IF k = 1 THEN b ELSE s[k - 1]
<1>1. Len(s) \in Nat /\ (s = <<>> <=> Len(s) = 0) /\ \A k \in 1 .. Len(s) : s[k] \in Entries
  BY Lengths
<1>2. SUFFICES ASSUME NEW k \in 1 .. Len(s)
               PROVE  h.pprev[s[k]] = IF k = 1 THEN b ELSE s[k - 1]
  OBVIOUS
<1>3. CASE k = 1
  <2>1. h.first[b] = s[1]
    BY <1>1, <1>2, <1>3 DEF Way, FirstOf
  <2>2. QED
    BY <1>1, <1>3, <2>1 DEF Pointed, Owners
<1>4. CASE k # 1
  <2>1. k - 1 \in 1 .. Len(s) /\ k - 1 # Len(s) /\ (k - 1) + 1 = k
    BY <1>1, <1>4
  <2>2. h.first[s[k - 1]] = s[k]
    BY <2>1 DEF Way, Lead
  <2>3. QED
    BY <1>1, <1>4, <2>1, <2>2 DEF Pointed, Owners
<1>5. QED
  BY <1>3, <1>4

\* No node is on the chains of two buckets.
LEMMA ChainsApart ==
  ASSUME NEW h, Pointed(h), NEW a \in Buckets, NEW b \in Buckets, a # b,
         NEW s \in Seq(Entries), Way(h.first, a, s, NULL),
         NEW t \in Seq(Entries), Way(h.first, b, t, NULL)
  PROVE  Range(s) \cap Range(t) = {}
<1>1. /\ Len(s) \in Nat /\ DOMAIN s = 1 .. Len(s) /\ \A k \in 1 .. Len(s) : s[k] \in Entries
      /\ Len(t) \in Nat /\ DOMAIN t = 1 .. Len(t) /\ \A k \in 1 .. Len(t) : t[k] \in Entries
  BY Lengths
<1>2. /\ \A k \in 1 .. Len(s) : h.pprev[s[k]] = IF k = 1 THEN a ELSE s[k - 1]
      /\ \A k \in 1 .. Len(t) : h.pprev[t[k]] = IF k = 1 THEN b ELSE t[k - 1]
  BY ChainBack
<1>3. a \notin Entries /\ b \notin Entries
  BY HlistAssumption
<1> DEFINE T == {i \in 1 .. Len(s) : \E j \in 1 .. Len(t) : s[i] = t[j]}
<1>4. SUFFICES ASSUME T # {} PROVE FALSE
  <2>1. \A i \in 1 .. Len(s), j \in 1 .. Len(t) : s[i] # t[j]
    BY <1>4
  <2>2. QED
    BY <1>1, <2>1 DEF Range
<1>5. T \in SUBSET Nat
  OBVIOUS
<1>6. PICK i \in T : \A y \in T : i <= y
  BY <1>4, <1>5, Least
<1>7. PICK j \in 1 .. Len(t) : s[i] = t[j]
  BY <1>6
<1>8. /\ i # 1 => i - 1 \in 1 .. Len(s) /\ ~ (i <= i - 1)
      /\ j # 1 => j - 1 \in 1 .. Len(t)
  BY <1>1, <1>6
<1>9. i # 1 /\ j # 1
  BY <1>1, <1>2, <1>3, <1>6, <1>7, <1>8
<1>10. s[i - 1] = t[j - 1]
  BY <1>2, <1>6, <1>7, <1>9
<1>11. QED
  BY <1>6, <1>8, <1>9, <1>10

\* The chains of hheap, and a heap whose chains are "lists".
LEMMA HlistsAre == Hlists = Chains(hheap) /\ Hlists' = Chains(hheap')
  BY DEF Hlists, HlistOf, Chains, ChainOf

Threaded(first, lists) ==
  /\ lists \in [Buckets -> Seq(Entries)]
  /\ \A b \in Buckets : Way(first, b, lists[b], NULL)

\* The chains of a heap are ways to NULL, without a node in common.
LEMMA ChainsThreaded ==
  ASSUME NEW h, Pointed(h)
  PROVE  /\ Threaded(h.first, Chains(h))
         /\ \A b \in Buckets : IsInjective(Chains(h)[b])
         /\ \A a, b \in Buckets : a # b => Range(Chains(h)[a]) \cap Range(Chains(h)[b]) = {}
<1>1. \A b \in Buckets : /\ Chains(h)[b] \in Seq(Entries) /\ IsInjective(Chains(h)[b])
                         /\ Way(h.first, b, Chains(h)[b], NULL)
  BY ChainIsWay DEF Chains
<1>2. Chains(h) \in [Buckets -> Seq(Entries)]
  <2>1. Chains(h) = [b \in Buckets |-> Chains(h)[b]]
    BY DEF Chains
  <2>2. QED
    BY <1>1, <2>1
<1>3. QED
  BY <1>1, <1>2, ChainsApart DEF Threaded

\* What leads from every bucket to NULL is its chain.
LEMMA ChainsKnown ==
  ASSUME NEW h, Pointed(h), NEW lists, Threaded(h.first, lists)
  PROVE  Chains(h) = lists
<1>1. \A b \in Buckets : Chains(h)[b] = lists[b]
  <2>1. SUFFICES ASSUME NEW b \in Buckets PROVE Chains(h)[b] = lists[b]
    OBVIOUS
  <2>2. /\ Chains(h)[b] \in Seq(Entries) /\ Way(h.first, b, Chains(h)[b], NULL)
        /\ lists[b] \in Seq(Entries) /\ Way(h.first, b, lists[b], NULL)
    BY ChainsThreaded DEF Threaded
  <2>3. QED
    BY <2>2, OneWay, NoObjectIsNull
<1>2. Chains(h) = [b \in Buckets |-> Chains(h)[b]] /\ lists = [b \in Buckets |-> lists[b]]
  BY DEF Chains, Threaded
<1>3. QED
  BY <1>1, <1>2

\* What the lemmas about the functions need of the chains before the call.
LEMMA HlistFacts ==
  ASSUME HlistInv
  PROVE  /\ Pointed(hheap) /\ hheap.first \in [Owners -> Entries \cup {NULL}]
         /\ Hlists \in [Buckets -> Seq(Entries)]
         /\ \A b \in Buckets : /\ Hlists[b] \in Seq(Entries) /\ IsInjective(Hlists[b])
                               /\ Way(hheap.first, b, Hlists[b], NULL)
                               /\ Range(Hlists[b]) \subseteq Entries
                               /\ \A a \in Buckets : a \notin Range(Hlists[b])
         /\ \A a, b \in Buckets : a # b => Range(Hlists[a]) \cap Range(Hlists[b]) = {}
<1>1. Pointed(hheap)
  BY DEF HlistInv, PprevRight, Pointed
<1>2. /\ Hlists \in [Buckets -> Seq(Entries)]
      /\ \A b \in Buckets : /\ Hlists[b] \in Seq(Entries) /\ IsInjective(Hlists[b])
                            /\ Way(hheap.first, b, Hlists[b], NULL)
      /\ \A a, b \in Buckets : a # b => Range(Hlists[a]) \cap Range(Hlists[b]) = {}
  BY <1>1, ChainsThreaded, HlistsAre DEF Threaded
<1>3. \A b \in Buckets : Range(Hlists[b]) \subseteq Entries
  BY <1>2, Lengths DEF Range
<1>4. hheap.first \in [Owners -> Entries \cup {NULL}]
  BY <1>1 DEF Pointed, Pointers
<1>5. QED
  BY <1>1, <1>2, <1>3, <1>4, HlistAssumption

\* Whatever points at a node of a chain is on the chain.
LEMMA OnChain ==
  ASSUME HlistInv, NEW b \in Buckets, NEW x \in Owners, NEW n \in Entries, hheap.first[x] = n
  PROVE  n \in Range(Hlists[b]) <=> x \in Range(Hlists[b]) \cup {b}
<1> DEFINE s == Hlists[b]
<1>1. Pointed(hheap) /\ s \in Seq(Entries) /\ Way(hheap.first, b, s, NULL)
  BY HlistFacts
<1> HIDE DEF s
<1>2. ASSUME x \in Range(s) \cup {b}
      PROVE  n \in Range(s)
  <2>1. hheap.first[x] \in Range(s) \cup {NULL}
    BY <1>1, <1>2, Inside
  <2>2. QED
    BY <2>1, NoObjectIsNull
<1>3. ASSUME n \in Range(s)
      PROVE  x \in Range(s) \cup {b}
  <2>1. Len(s) \in Nat /\ DOMAIN s = 1 .. Len(s)
    BY <1>1, Lengths
  <2>2. PICK k \in 1 .. Len(s) : n = s[k]
    BY <1>3, <2>1 DEF Range
  <2>3. hheap.pprev[n] = x
    BY <1>1 DEF Pointed
  <2>4. hheap.pprev[s[k]] = IF k = 1 THEN b ELSE s[k - 1]
    BY <1>1, <2>2, ChainBack
  <2>5. k # 1 => k - 1 \in 1 .. Len(s)
    BY <2>1
  <2>6. QED
    BY <2>1, <2>2, <2>3, <2>4, <2>5 DEF Range
<1>4. QED
  BY <1>2, <1>3 DEF s

\* A node without pprev, or made to look hashed, is on no chain.
LEMMA OffChains ==
  ASSUME HlistInv, NEW n \in Entries, ~ Hashed(n), NEW b \in Buckets
  PROVE  n \notin Range(Hlists[b])
<1> DEFINE s == Hlists[b]
<1>1. Pointed(hheap) /\ s \in Seq(Entries) /\ IsInjective(s) /\ Way(hheap.first, b, s, NULL)
  BY HlistFacts
<1> HIDE DEF s
<1>2. SUFFICES ASSUME n \in Range(s) PROVE FALSE
  BY DEF s
<1>3. Len(s) \in Nat /\ DOMAIN s = 1 .. Len(s) /\ \A k \in 1 .. Len(s) : s[k] \in Entries
  BY <1>1, Lengths
<1>4. PICK k \in 1 .. Len(s) : n = s[k]
  BY <1>2, <1>3 DEF Range
<1>5. hheap.pprev[n] = IF k = 1 THEN b ELSE s[k - 1]
  BY <1>1, <1>4, ChainBack
<1>6. k # 1 => k - 1 \in 1 .. Len(s) /\ k - 1 # k
  BY <1>3
<1>7. hheap.pprev[n] = NULL \/ hheap.pprev[n] = n
  BY DEF Hashed, Fake, hlist_unhashed
<1>8. CASE k = 1
  BY <1>4, <1>5, <1>7, <1>8, HlistAssumption
<1>9. CASE k # 1
  <2>1. s[k - 1] \in Entries /\ s[k - 1] # s[k]
    BY <1>1, <1>3, <1>6, <1>9 DEF IsInjective
  <2>2. QED
    BY <1>4, <1>5, <1>7, <1>9, <2>1, NoObjectIsNull
<1>10. QED
  BY <1>8, <1>9

\* What stands before the i-th place of s, and from there on.
Parts(s, i, b, u, v) ==
  /\ u = SubSeq(s, 1, i - 1) /\ v = SubSeq(s, i, Len(s))
  /\ s = u \o v
  /\ IsInjective(u) /\ Range(u) \cup Range(v) \subseteq Range(s) /\ Range(u) \cap Range(v) = {}
  /\ LastOf(b, u) = IF i = 1 THEN b ELSE s[i - 1]

\* Every sequence has such parts, at each place and behind its end.
LEMMA PartsAt ==
  ASSUME NEW s \in Seq(Entries), IsInjective(s), NEW i \in 1 .. Len(s) + 1, NEW b
  PROVE  \E u, v \in Seq(Entries) : Parts(s, i, b, u, v)
<1> DEFINE u == SubSeq(s, 1, i - 1)
           v == SubSeq(s, i, Len(s))
           m == Len(s)
<1>1. m \in Nat /\ DOMAIN s = 1 .. m /\ \A k \in 1 .. m : s[k] \in Entries
  BY Lengths
<1>2. /\ u \in Seq(Entries) /\ Len(u) = i - 1 /\ \A k \in 1 .. i - 1 : u[k] = s[k]
  BY <1>1
<1>3. /\ v \in Seq(Entries) /\ Len(v) = m - (i - 1)
      /\ \A k \in 1 .. m - (i - 1) : v[k] = s[k + (i - 1)]
  <2>1. /\ m - i + 1 = m - (i - 1) /\ m - (i - 1) \in Nat
        /\ \A k \in 1 .. m - (i - 1) : k + i - 1 = k + (i - 1) /\ k + (i - 1) \in 1 .. m
    BY <1>1
  <2>2. v = [k \in 1 .. m - i + 1 |-> s[k + i - 1]]
    BY <1>1
  <2>3. v = [k \in 1 .. m - (i - 1) |-> s[k + (i - 1)]]
    BY <2>1, <2>2
  <2>4. v \in [1 .. m - (i - 1) -> Entries]
    BY <1>1, <2>1, <2>3
  <2> HIDE DEF v
  <2>5. v \in Seq(Entries) /\ Len(v) = m - (i - 1)
    BY <2>1, <2>4, FunSeq
  <2>6. QED
    BY <2>3, <2>5
<1> HIDE DEF u, v
<1>4. s = u \o v
  <2>1. /\ Len(u \o v) = Len(u) + Len(v) /\ u \o v \in Seq(Entries)
        /\ \A k \in 1 .. Len(u) + Len(v) :
             (u \o v)[k] = IF k <= Len(u) THEN u[k] ELSE v[k - Len(u)]
    <3>1. u \in Seq(Entries) /\ v \in Seq(Entries)
      BY <1>2, <1>3
    <3>2. QED
      BY ONLY <3>1, Concat
  <2>2. Len(u) + Len(v) = m
    BY <1>1, <1>2, <1>3
  <2>3. \A k \in 1 .. m : IF k <= i - 1 THEN k \in 1 .. i - 1
                          ELSE k - (i - 1) \in 1 .. m - (i - 1) /\ (k - (i - 1)) + (i - 1) = k
    BY <1>1
  <2>4. \A k \in 1 .. m : (u \o v)[k] = s[k]
    BY <1>2, <1>3, <2>1, <2>2, <2>3
  <2>5. Len(s) = Len(u \o v) /\ \A k \in 1 .. Len(s) : s[k] = (u \o v)[k]
    BY <2>1, <2>2, <2>4
  <2> DEFINE w == u \o v
  <2>6. w \in Seq(Entries) /\ Len(s) = Len(w) /\ \A k \in 1 .. Len(s) : s[k] = w[k]
    BY <2>1, <2>5
  <2> HIDE DEF w
  <2>7. s = w
    BY <2>6, SameSeq
  <2>8. QED
    BY <2>7 DEF w
<1>5. /\ DOMAIN u = 1 .. i - 1 /\ DOMAIN v = 1 .. m - (i - 1)
      /\ \A k \in 1 .. i - 1 : k \in 1 .. m
      /\ \A k \in 1 .. m - (i - 1) : k + (i - 1) \in 1 .. m
      /\ \A k \in 1 .. i - 1, j \in 1 .. m - (i - 1) : k # j + (i - 1)
  BY <1>1, <1>2, <1>3
<1>6. \A k, j \in 1 .. m : s[k] = s[j] => k = j
  BY <1>1 DEF IsInjective
<1>7. IsInjective(u)
  BY <1>2, <1>5, <1>6 DEF IsInjective
<1>8. Range(u) \cup Range(v) \subseteq Range(s)
  <2>1. \A k \in 1 .. i - 1 : u[k] \in Range(s)
    BY <1>1, <1>2, <1>5 DEF Range
  <2>2. \A k \in 1 .. m - (i - 1) : v[k] \in Range(s)
    BY <1>1, <1>3, <1>5 DEF Range
  <2>3. QED
    BY <1>5, <2>1, <2>2 DEF Range
<1>9. Range(u) \cap Range(v) = {}
  <2>1. \A k \in 1 .. i - 1, j \in 1 .. m - (i - 1) : u[k] # v[j]
    BY <1>2, <1>3, <1>5, <1>6
  <2>2. QED
    BY <1>5, <2>1 DEF Range
<1>10. LastOf(b, u) = IF i = 1 THEN b ELSE s[i - 1]
  <2>1. u = <<>> <=> i = 1
    <3>1. i - 1 = 0 <=> i = 1
      OBVIOUS
    <3>2. QED
      BY <1>2, <3>1, Lengths
  <2>2. i # 1 => i - 1 \in 1 .. i - 1
    OBVIOUS
  <2>3. QED
    BY <1>2, <2>1, <2>2 DEF LastOf
<1>11. QED
  BY <1>2, <1>3, <1>4, <1>7, <1>8, <1>9, <1>10 DEF Parts, u, v

\* The chains after n was put at the i-th place on the one of b.
InsertedAt(b, i, n) == [Hlists EXCEPT ![b] = InsertAt(@, i, n)]

\* What points at the i-th node of the chain of b, and n made to follow p.
OwnerAt(b, i) == IF i = 1 THEN b ELSE Hlists[b][i - 1]
LinkedTo(h, n, p) == h.first = [hheap.first EXCEPT ![n] = hheap.first[p], ![p] = n]

\* It is there once the field before that place leads to it.
LEMMA InsertChain ==
  ASSUME HlistInv, NEW h, Pointed(h), NEW n \in Entries,
         \A g \in Buckets : n \notin Range(Hlists[g]),
         NEW b \in Buckets, NEW i \in 1 .. Len(Hlists[b]) + 1,
         LinkedTo(h, n, OwnerAt(b, i))
  PROVE  Chains(h) = InsertedAt(b, i, n)
<1> DEFINE s == Hlists[b]
           p == OwnerAt(b, i)
           first == hheap.first
           new == h.first
<1>1. /\ first \in [Owners -> Entries \cup {NULL}]
      /\ s \in Seq(Entries) /\ IsInjective(s) /\ Way(first, b, s, NULL)
      /\ Range(s) \subseteq Entries /\ b \notin Range(s)
      /\ Entries \subseteq Owners /\ b \in Owners /\ b # n
  BY HlistFacts, HlistAssumption DEF Owners
<1>2. PICK u, v \in Seq(Entries) : Parts(s, i, b, u, v)
  BY <1>1, PartsAt
<1>3. /\ s = u \o v /\ IsInjective(u) /\ Range(u) \cup Range(v) \subseteq Range(s)
      /\ Range(u) \cap Range(v) = {} /\ p = LastOf(b, u)
      /\ InsertAt(s, i, n) = u \o <<n>> \o v
  BY <1>2 DEF Parts, InsertAt, OwnerAt
<1>4. p \in Range(u) \cup {b}
  BY <1>3, LastInside
<1>5. new = [first EXCEPT ![n] = first[p], ![p] = n] /\ n \notin Range(s)
  BY DEF LinkedTo
<1> HIDE DEF s, first, new, p
<1>6. p # n /\ p \in Owners
  BY <1>1, <1>3, <1>4, <1>5
<1>7. \A x \in Owners : new[x] = IF x = p THEN n ELSE IF x = n THEN first[p] ELSE first[x]
  BY <1>1, <1>5, <1>6
<1>8. Way(first, b, u, FirstOf(v, NULL)) /\ Lead(first, v, NULL)
  BY <1>1, <1>3, WaySplit
<1>9. first[p] = FirstOf(v, NULL)
  BY <1>3, <1>8, WayEnd
<1>10. Way(new, b, u, n)
  <2>1. b \notin Range(u) /\ new[LastOf(b, u)] = n
    BY <1>1, <1>3, <1>6, <1>7
  <2>2. \A x \in Range(u) \cup {b} : x # LastOf(b, u) => new[x] = first[x]
    BY <1>1, <1>3, <1>5, <1>7
  <2> DEFINE to == FirstOf(v, NULL)
  <2>3. Way(first, b, u, to)
    BY <1>8
  <2> HIDE DEF to
  <2>4. QED
    BY <1>3, <2>1, <2>2, <2>3, Redirected
<1>11. Way(new, n, v, NULL)
  <2>1. new[n] = FirstOf(v, NULL)
    BY <1>1, <1>6, <1>7, <1>9
  <2>2. \A x \in Range(v) : new[x] = first[x]
    BY <1>1, <1>3, <1>4, <1>5, <1>7
  <2>3. Lead(new, v, NULL)
    BY <1>8, <2>2, Untouched
  <2>4. QED
    BY <2>1, <2>3 DEF Way
<1> DEFINE w == u \o <<n>> \o v
           lists == InsertedAt(b, i, n)
<1>12. Way(new, b, w, NULL)
  BY <1>10, <1>11, WayThrough
<1>13. w \in Seq(Entries)
  OBVIOUS
<1>14. /\ DOMAIN Hlists = Buckets /\ InsertAt(Hlists[b], i, n) = w
  BY <1>3 DEF s, Hlists
<1>15. /\ lists = [g \in Buckets |-> IF g = b THEN w ELSE Hlists[g]]
  <2> HIDE DEF w
  <2>1. Hlists = [g \in Buckets |-> Hlists[g]]
    BY DEF Hlists
  <2>2. QED
    BY <1>14, <2>1 DEF InsertedAt
<1>16. ASSUME NEW g \in Buckets, g # b
       PROVE  Hlists[g] \in Seq(Entries) /\ Way(new, g, Hlists[g], NULL)
  <2> DEFINE t == Hlists[g]
  <2>1. /\ t \in Seq(Entries) /\ Way(first, g, t, NULL) /\ Range(t) \cap Range(s) = {}
        /\ b \notin Range(t) /\ Range(t) \subseteq Entries /\ n \notin Range(t) /\ g \in Owners
        /\ g \notin Range(s) /\ g # n
    BY <1>16, HlistFacts, HlistAssumption DEF first, s, Owners
  <2> HIDE DEF t
  <2>2. \A x \in Range(t) \cup {g} : new[x] = first[x]
    BY <1>1, <1>3, <1>4, <1>7, <1>16, <2>1
  <2>3. Way(new, g, t, NULL)
    BY <2>1, <2>2, Kept
  <2>4. QED
    BY <2>1, <2>3 DEF t
<1>17. Threaded(new, lists)
  <2> HIDE DEF w, lists
  <2>1. lists \in [Buckets -> Seq(Entries)]
    BY <1>13, <1>15, <1>16 DEF w
  <2>2. ASSUME NEW g \in Buckets
        PROVE  Way(new, g, lists[g], NULL)
    BY <1>12, <1>15, <1>16
  <2>3. QED
    BY <2>1, <2>2 DEF Threaded
<1>18. QED
  BY <1>17, ChainsKnown DEF new

\* The chains are what the forward fields say.
LEMMA SameFirst ==
  ASSUME NEW h, h.first = hheap.first
  PROVE  Chains(h) = Hlists
<1>1. \A b \in Buckets : ChainOf(h, b) = ChainOf(hheap, b)
  BY DEF ChainOf
<1>2. Chains(h) = Chains(hheap)
  BY <1>1 DEF Chains
<1>3. QED
  BY <1>2, HlistsAre

\* A field that is changed where no chain comes by.
LEMMA OffChainKept ==
  ASSUME HlistInv, NEW h, Pointed(h), NEW n \in Entries, NEW p \in Owners, NEW x,
         \A g \in Buckets : n \notin Range(Hlists[g]),
         \A g \in Buckets : p \notin Range(Hlists[g]) \cup {g},
         h.first = [hheap.first EXCEPT ![n] = x, ![p] = n]
  PROVE  Chains(h) = Hlists
<1> DEFINE new == h.first
           first == hheap.first
<1>1. /\ first \in [Owners -> Entries \cup {NULL}] /\ Entries \subseteq Owners
      /\ Buckets \subseteq Owners
  BY HlistFacts DEF Owners
<1>2. \A y \in Owners : y # n /\ y # p => new[y] = first[y]
  BY <1>1
<1> HIDE DEF new, first
<1>3. ASSUME NEW g \in Buckets
      PROVE  Way(new, g, Hlists[g], NULL)
  <2> DEFINE t == Hlists[g]
  <2>1. t \in Seq(Entries) /\ Way(first, g, t, NULL) /\ Range(t) \subseteq Entries /\ g # n
    BY HlistFacts, HlistAssumption DEF first
  <2>2. n \notin Range(t) /\ p \notin Range(t) \cup {g}
    OBVIOUS
  <2> HIDE DEF t
  <2>3. \A y \in Range(t) \cup {g} : new[y] = first[y]
    BY <1>1, <1>2, <2>1, <2>2
  <2>4. Way(new, g, t, NULL)
    BY <2>1, <2>3, Kept
  <2>5. QED
    BY <2>4 DEF t
<1>4. Threaded(new, Hlists)
  BY <1>3, HlistFacts DEF Threaded
<1>5. QED
  BY <1>4, ChainsKnown DEF new

\* The chains without n.
HlistsOff(n) == [g \in Buckets |-> RemoveFirst(Hlists[g], n)]

\* RemoveFirst of ListSeqs and of this module are the same operator.
LEMMA FirstRemoved ==
  ASSUME NEW s \in Seq(Entries), NEW n
  PROVE  RemoveFirst(s, n) = Seqs!Without(s, n)
  BY DEF Seqs!Without, RemoveFirst, Seqs!RemoveFirst, RemoveAt, Seqs!RemoveAt,
         SelectInSeq, Seqs!SelectInSeq, Min, Seqs!Min

\* A node on no chain is taken off none.
LEMMA NothingOff ==
  ASSUME HlistInv, NEW n \in Entries, \A g \in Buckets : n \notin Range(Hlists[g])
  PROVE  HlistsOff(n) = Hlists
<1>1. ASSUME NEW g \in Buckets
      PROVE  RemoveFirst(Hlists[g], n) = Hlists[g]
  <2>1. Hlists[g] \in Seq(Entries) /\ n \notin Range(Hlists[g])
    BY HlistFacts
  <2>2. QED
    BY <2>1, FirstRemoved, WithoutNone
<1>2. Hlists = [g \in Buckets |-> Hlists[g]]
  BY DEF Hlists
<1>3. QED
  BY <1>1, <1>2 DEF HlistsOff

\* What pointed at n points at the node after it.
LEMMA RemoveChain ==
  ASSUME HlistInv, NEW h, Pointed(h), NEW n \in Entries,
         NEW p \in Owners, p # n, hheap.first[p] = n,
         h.first = [hheap.first EXCEPT ![p] = hheap.first[n], ![n] = NULL]
  PROVE  Chains(h) = HlistsOff(n)
<1> DEFINE new == h.first
           first == hheap.first
<1>1. /\ first \in [Owners -> Entries \cup {NULL}] /\ Entries \subseteq Owners
      /\ Buckets \subseteq Owners /\ Pointed(hheap)
  BY HlistFacts DEF Owners
<1>2. new[p] = first[n] /\ \A y \in Owners : y # n /\ y # p => new[y] = first[y]
  BY <1>1
<1>3. first[p] = n
  OBVIOUS
<1> HIDE DEF new, first
<1>4. ASSUME NEW g \in Buckets
      PROVE  RemoveFirst(Hlists[g], n) \in Seq(Entries) /\ Way(new, g, RemoveFirst(Hlists[g], n), NULL)
  <2> DEFINE t == Hlists[g]
  <2>1. /\ t \in Seq(Entries) /\ IsInjective(t) /\ Way(first, g, t, NULL)
        /\ Range(t) \subseteq Entries /\ g # n /\ g \notin Range(t)
    BY HlistFacts, HlistAssumption DEF first
  <2>2. n \in Range(t) <=> p \in Range(t) \cup {g}
    BY <1>3, OnChain DEF first
  <2> HIDE DEF t
  <2>a. RemoveFirst(t, n) = Seqs!Without(t, n)
    BY <2>1, FirstRemoved
  <2>3. CASE n \notin Range(t)
    <3>1. \A y \in Range(t) \cup {g} : new[y] = first[y]
      BY <1>1, <1>2, <2>1, <2>2, <2>3
    <3>2. Way(new, g, t, NULL)
      BY <2>1, <3>1, Kept
    <3>3. QED
      BY <2>1, <2>3, <2>a, <3>2, WithoutNone DEF t
  <2>4. CASE n \in Range(t)
    <3>1. PICK u, v \in Seq(Entries) : Split(t, n, u, v)
      BY <2>1, <2>4, SplitAt
    <3>2. /\ t = u \o <<n>> \o v /\ Seqs!Without(t, n) = u \o v
          /\ IsInjective(u) /\ Range(t) = Range(u) \cup {n} \cup Range(v)
          /\ n \notin Range(u) /\ n \notin Range(v) /\ Range(u) \cap Range(v) = {}
      BY <3>1 DEF Split
    <3>3. u \o v \in Seq(Entries)
      BY ONLY u \in Seq(Entries), v \in Seq(Entries), Concat
    <3>4. Way(first, g, u, n) /\ Way(first, n, v, NULL)
      BY <2>1, <3>2, WayThrough
    <3>5. LastOf(g, u) = p
      <4>1. first[LastOf(g, u)] = n /\ LastOf(g, u) \in Range(u) \cup {g}
        BY <3>4, WayEnd, LastInside
      <4>2. LastOf(g, u) \in Owners
        BY <1>1, <2>1, <3>2, <4>1
      <4>3. \A y \in Owners : first[y] = n => hheap.pprev[n] = y
        BY <1>1 DEF Pointed, first
      <4>4. QED
        BY <1>3, <4>1, <4>2, <4>3
    <3>6. p \in Range(u) \cup {g} /\ g \notin Range(u) /\ g \notin Range(v)
      BY <2>1, <3>2, <3>5, LastInside
    <3>7. first[n] = FirstOf(v, NULL)
      BY <3>4 DEF Way
    <3>8. Way(new, g, u, FirstOf(v, NULL))
      <4>1. new[LastOf(g, u)] = FirstOf(v, NULL)
        BY <1>2, <3>5, <3>7
      <4>2. \A x \in Range(u) \cup {g} : x # LastOf(g, u) => new[x] = first[x]
        BY <1>1, <1>2, <2>1, <3>2, <3>5
      <4>3. QED
        BY <3>2, <3>4, <3>6, <4>1, <4>2, Redirected
    <3>9. Lead(new, v, NULL)
      <4>1. \A x \in Range(v) : new[x] = first[x]
        BY <1>1, <1>2, <2>1, <3>2, <3>6
      <4>2. Lead(first, v, NULL)
        BY <3>4 DEF Way
      <4>3. QED
        BY <4>1, <4>2, Untouched
    <3>10. Way(new, g, u \o v, NULL)
      BY <3>8, <3>9, WayJoin
    <3>11. QED
      BY <2>a, <3>2, <3>3, <3>10 DEF t
  <2>5. QED
    BY <2>3, <2>4
<1>5. Threaded(new, HlistsOff(n))
  <2> DEFINE lists == HlistsOff(n)
  <2>1. lists \in [Buckets -> Seq(Entries)] /\ \A g \in Buckets : Way(new, g, lists[g], NULL)
    BY <1>4 DEF HlistsOff
  <2>2. QED
    BY <2>1 DEF Threaded
<1>6. QED
  BY <1>5, ChainsKnown DEF new

\* new gets the chain of old.
HlistsMoved(old, new) == [Hlists EXCEPT ![new] = Hlists[old], ![old] = <<>>]

\* Its forward field and the fields of its nodes say so.
LEMMA MoveChain ==
  ASSUME HlistInv, NEW h, Pointed(h), NEW old \in Buckets, NEW to \in Buckets, old # to,
         h.first = [hheap.first EXCEPT ![to] = hheap.first[old], ![old] = NULL]
  PROVE  Chains(h) = HlistsMoved(old, to)
<1> DEFINE new == h.first
           first == hheap.first
           lists == HlistsMoved(old, to)
<1>1. /\ first \in [Owners -> Entries \cup {NULL}] /\ Entries \subseteq Owners
      /\ Buckets \subseteq Owners /\ Buckets \cap Entries = {}
      /\ Hlists \in [Buckets -> Seq(Entries)]
  BY HlistFacts, HlistAssumption DEF Owners
<1>2. /\ new[to] = first[old] /\ new[old] = NULL
      /\ \A y \in Owners : y # old /\ y # to => new[y] = first[y]
  BY <1>1
<1>3. \A g \in Buckets : lists[g] = IF g = old THEN <<>> ELSE IF g = to THEN Hlists[old]
                                    ELSE Hlists[g]
  BY <1>1 DEF HlistsMoved
<1>4. lists \in [Buckets -> Seq(Entries)]
  <2>1. <<>> \in Seq(Entries)
    OBVIOUS
  <2> DEFINE none == <<>>
  <2>2. none \in Seq(Entries) /\ lists = [Hlists EXCEPT ![to] = Hlists[old], ![old] = none]
    BY <2>1 DEF HlistsMoved
  <2> HIDE DEF none, lists
  <2>3. QED
    BY <1>1, <2>2
<1> HIDE DEF new, first, lists
<1>5. ASSUME NEW g \in Buckets
      PROVE  Way(new, g, lists[g], NULL)
  <2>1. CASE g = old
    <3>1. Way(new, g, <<>>, NULL)
      BY <1>2, <2>1, EmptyWay
    <3>2. QED
      BY <1>3, <2>1, <3>1
  <2> DEFINE s == Hlists[old]
             t == Hlists[g]
  <2>2. /\ s \in Seq(Entries) /\ Way(first, old, s, NULL) /\ Range(s) \subseteq Entries
        /\ t \in Seq(Entries) /\ Way(first, g, t, NULL) /\ Range(t) \subseteq Entries
    BY HlistFacts DEF first
  <2> HIDE DEF s, t
  <2>3. CASE g = to
    <3>1. \A x \in Range(s) : new[x] = first[x]
      BY <1>1, <1>2, <2>2
    <3>2. Lead(first, s, NULL) /\ first[old] = FirstOf(s, NULL)
      BY <2>2 DEF Way
    <3>3. Lead(new, s, NULL)
      BY <2>2, <3>1, <3>2, Untouched
    <3>4. Way(new, g, s, NULL)
      BY <1>2, <2>3, <3>2, <3>3 DEF Way
    <3>5. QED
      BY <1>3, <2>3, <3>4 DEF s
  <2>4. CASE g # old /\ g # to
    <3>1. \A x \in Range(t) \cup {g} : new[x] = first[x]
      BY <1>1, <1>2, <2>2, <2>4
    <3>2. Way(new, g, t, NULL)
      BY <2>2, <3>1, Kept
    <3>3. QED
      BY <1>3, <2>4, <3>2 DEF t
  <2>5. QED
    BY <2>1, <2>3, <2>4
<1>6. Threaded(new, lists)
  BY <1>4, <1>5 DEF Threaded
<1>7. QED
  BY <1>6, ChainsKnown DEF new, lists

\* HEffect's Place and Inserted.
PlaceIn(s, x) == SelectInSeq(s, LAMBDA y : y = x)
Placed(n, x, d) ==
  [b \in Buckets |-> IF PlaceIn(Hlists[b], x) = 0 THEN Hlists[b]
                     ELSE InsertAt(Hlists[b], PlaceIn(Hlists[b], x) + d, n)]

\* An element stands at its one place, or at 0.
LEMMA Places ==
  ASSUME NEW s \in Seq(Entries), IsInjective(s), NEW x
  PROVE  /\ \A i \in 1 .. Len(s) : s[i] = x => PlaceIn(s, x) = i
         /\ x \notin Range(s) => PlaceIn(s, x) = 0
<1>1. Len(s) \in Nat /\ DOMAIN s = 1 .. Len(s)
  BY Lengths
<1>2. ASSUME NEW i \in 1 .. Len(s), s[i] = x
      PROVE  PlaceIn(s, x) = i
  <2>1. {k \in 1 .. Len(s) : s[k] = x} = {i}
    BY <1>1, <1>2 DEF IsInjective
  <2>2. QED
    BY <2>1 DEF PlaceIn, SelectInSeq, Min
<1>3. ASSUME x \notin Range(s)
      PROVE  PlaceIn(s, x) = 0
  <2>1. {k \in 1 .. Len(s) : s[k] = x} = {}
    BY <1>1, <1>3 DEF Range
  <2>2. QED
    BY <2>1 DEF PlaceIn, SelectInSeq
<1>4. QED
  BY <1>2, <1>3

\* Next to a node on no chain nothing is put.
LEMMA PlacedNowhere ==
  ASSUME HlistInv, NEW x \in Entries, \A g \in Buckets : x \notin Range(Hlists[g]), NEW n, NEW d
  PROVE  Placed(n, x, d) = Hlists
<1>1. \A g \in Buckets : PlaceIn(Hlists[g], x) = 0
  BY HlistFacts, Places
<1>2. Hlists = [g \in Buckets |-> Hlists[g]]
  BY DEF Hlists
<1>3. QED
  BY <1>1, <1>2 DEF Placed

\* Next to a node on a chain, n is put there only.
LEMMA PlacedOnce ==
  ASSUME HlistInv, NEW b \in Buckets, NEW i \in 1 .. Len(Hlists[b]), NEW n, NEW d
  PROVE  Placed(n, Hlists[b][i], d) = InsertedAt(b, i + d, n)
<1> DEFINE x == Hlists[b][i]
<1>1. x \in Range(Hlists[b])
  <2>1. DOMAIN Hlists[b] = 1 .. Len(Hlists[b])
    BY HlistFacts, Lengths
  <2>2. QED
    BY <2>1 DEF Range
<1>2. PlaceIn(Hlists[b], x) = i /\ i # 0
  <2>1. Hlists[b] \in Seq(Entries) /\ IsInjective(Hlists[b])
    BY HlistFacts
  <2>2. QED
    BY <2>1, Places
<1>3. \A g \in Buckets : g # b => PlaceIn(Hlists[g], x) = 0
  <2>1. \A g \in Buckets : g # b => x \notin Range(Hlists[g])
    BY <1>1, HlistFacts
  <2>2. \A g \in Buckets : Hlists[g] \in Seq(Entries) /\ IsInjective(Hlists[g])
    BY HlistFacts
  <2>3. QED
    BY <2>1, <2>2, Places
<1> HIDE DEF x
<1>4. Hlists = [g \in Buckets |-> Hlists[g]]
  BY DEF Hlists
<1>5. Placed(n, x, d) = [g \in Buckets |-> IF g = b THEN InsertAt(Hlists[b], i + d, n) ELSE Hlists[g]]
  BY <1>2, <1>3 DEF Placed
<1>6. InsertedAt(b, i + d, n) = [g \in Buckets |-> IF g = b THEN InsertAt(Hlists[b], i + d, n)
                                                   ELSE Hlists[g]]
  BY <1>4 DEF InsertedAt
<1>7. QED
  BY <1>5, <1>6 DEF x

\* Where a node stands that is on a chain.
LEMMA Standing ==
  ASSUME HlistInv, NEW x \in Entries, NEW b \in Buckets, x \in Range(Hlists[b])
  PROVE  \E i \in 1 .. Len(Hlists[b]) :
           /\ x = Hlists[b][i]
           /\ hheap.pprev[x] = IF i = 1 THEN b ELSE Hlists[b][i - 1]
<1>1. /\ Pointed(hheap) /\ Hlists[b] \in Seq(Entries)
      /\ Way(hheap.first, b, Hlists[b], NULL)
  BY HlistFacts
<1>2. PICK i \in 1 .. Len(Hlists[b]) : x = Hlists[b][i]
  BY <1>1, Lengths DEF Range
<1>3. hheap.pprev[Hlists[b][i]] = IF i = 1 THEN b ELSE Hlists[b][i - 1]
  BY <1>1, ChainBack
<1>4. QED
  BY <1>2, <1>3

\* n goes before x, or after it when d is 1.
LEMMA PlaceChain ==
  ASSUME HlistInv, NEW h, Pointed(h), NEW n \in Entries, ~ Hashed(n),
         NEW x \in Entries, Hashed(x), NEW d \in {0, 1}, NEW p \in Owners,
         p = IF d = 0 THEN hheap.pprev[x] ELSE x, LinkedTo(h, n, p)
  PROVE  Chains(h) = Placed(n, x, d)
<1>1. \A g \in Buckets : n \notin Range(Hlists[g])
  BY OffChains
<1>2. CASE \E b \in Buckets : x \in Range(Hlists[b])
  <2>1. PICK b \in Buckets : x \in Range(Hlists[b])
    BY <1>2
  <2>2. PICK i \in 1 .. Len(Hlists[b]) :
          /\ x = Hlists[b][i]
          /\ hheap.pprev[x] = IF i = 1 THEN b ELSE Hlists[b][i - 1]
    BY <2>1, Standing
  <2> DEFINE m == Len(Hlists[b])
             j == i + d
  <2>3. m \in Nat
    BY HlistFacts, Lengths
  <2>4. j \in 1 .. m + 1 /\ (j = 1 <=> i = 1 /\ d = 0) /\ (d = 0 => j = i) /\ (d = 1 => j - 1 = i)
    <3>1. i \in 1 .. m
      OBVIOUS
    <3> HIDE DEF m
    <3>2. QED
      BY <2>3, <3>1
  <2>5. p = OwnerAt(b, j)
    BY <2>2, <2>4 DEF OwnerAt
  <2> HIDE DEF j
  <2>6. j \in 1 .. Len(Hlists[b]) + 1
    BY <2>4
  <2>7. Chains(h) = InsertedAt(b, j, n)
    <3>1. /\ HlistInv /\ Pointed(h) /\ n \in Entries /\ b \in Buckets
          /\ \A g \in Buckets : n \notin Range(Hlists[g])
          /\ j \in 1 .. Len(Hlists[b]) + 1
          /\ LinkedTo(h, n, OwnerAt(b, j))
      BY <1>1, <2>5, <2>6
    <3>2. QED
      BY ONLY <3>1, InsertChain
  <2>8. Placed(n, Hlists[b][i], d) = InsertedAt(b, i + d, n)
    BY PlacedOnce
  <2>9. QED
    BY <2>2, <2>7, <2>8 DEF j
<1>3. CASE \A b \in Buckets : x \notin Range(Hlists[b])
  <2>1. \A g \in Buckets : p \notin Range(Hlists[g]) \cup {g}
    <3>1. CASE d = 0
      <4>1. hheap.first[p] = x
        BY <3>1 DEF HlistInv, PprevRight
      <4>2. QED
        BY <1>3, <4>1, OnChain
    <3>2. CASE d = 1
      BY <1>3, <3>2, HlistAssumption
    <3>3. QED
      BY <3>1, <3>2
  <2> DEFINE y == hheap.first[p]
  <2>2. h.first = [hheap.first EXCEPT ![n] = y, ![p] = n]
    BY DEF LinkedTo
  <2> HIDE DEF y
  <2>3. Chains(h) = Hlists
    BY <1>1, <2>1, <2>2, OffChainKept
  <2>4. QED
    BY <1>3, <2>3, PlacedNowhere
<1>4. QED
  BY <1>2, <1>3

\* A deleted node is off the chain it was on, if any.
LEMMA DeleteRight ==
  ASSUME HlistInv, Pointed(hheap'), NEW n \in Entries, HDelete(n)
  PROVE  Hlists' = HlistsOff(n)
<1> DEFINE p == hheap.pprev[n]
           x == hheap.first[n]
<1>1. hheap' = IF hlist_unhashed(hheap, n) THEN hheap ELSE INIT_HLIST_NODE(unlink(hheap, n), n)
  BY DEF HDelete, HCall, hlist_del, hlist_del_init
<1>2. ~ hlist_unhashed(hheap, n) => hheap'.first = [hheap.first EXCEPT ![p] = x, ![n] = NULL]
  BY <1>1 DEF INIT_HLIST_NODE, unlink
<1>3. /\ hheap.first \in [Owners -> Entries \cup {NULL}] /\ n \in Owners
      /\ hheap.pprev \in [Entries -> Owners \cup {NULL}]
  BY HlistFacts DEF Pointed, Pointers, Owners
<1>4. CASE ~ Hashed(n)
  <2>1. hheap'.first = hheap.first
    <3>1. CASE hlist_unhashed(hheap, n)
      BY <1>1, <3>1
    <3>2. CASE ~ hlist_unhashed(hheap, n)
      <4>1. p = n /\ hheap.first[n] = NULL
        BY <1>4, <3>2 DEF Hashed, Fake, HlistInv, PprevRight
      <4>2. QED
        BY <1>2, <1>3, <3>2, <4>1
    <3>3. QED
      BY <3>1, <3>2
  <2>2. Chains(hheap') = Hlists
    BY <2>1, SameFirst
  <2>3. HlistsOff(n) = Hlists
    BY <1>4, OffChains, NothingOff
  <2>4. QED
    BY <2>2, <2>3, HlistsAre
<1>5. CASE Hashed(n)
  <2>1. /\ ~ hlist_unhashed(hheap, n) /\ p # n /\ p \in Owners /\ hheap.first[p] = n
    BY <1>3, <1>5 DEF Hashed, Fake, hlist_unhashed, HlistInv, PprevRight
  <2>2. hheap'.first = [hheap.first EXCEPT ![p] = hheap.first[n], ![n] = NULL]
    BY <1>2, <2>1
  <2> HIDE DEF p
  <2>3. Chains(hheap') = HlistsOff(n)
    BY <2>1, <2>2, RemoveChain
  <2>4. QED
    BY <2>3, HlistsAre
<1>6. QED
  BY <1>4, <1>5

\* A new node is the first one on the chain of b.
LEMMA AddHeadRight ==
  ASSUME HlistInv, Pointed(hheap'), NEW n \in Entries, NEW b \in Buckets, HAddHead(n, b)
  PROVE  Hlists' = [Hlists EXCEPT ![b] = <<n>> \o @]
<1>1. hheap'.first = [hheap.first EXCEPT ![n] = hheap.first[b], ![b] = n]
  BY DEF HAddHead, HCall, hlist_add_head
<1>2. LinkedTo(hheap', n, OwnerAt(b, 1))
  BY <1>1 DEF LinkedTo, OwnerAt
<1>3. \A g \in Buckets : n \notin Range(Hlists[g])
  <2>1. ~ Hashed(n)
    BY DEF HAddHead, Hashed
  <2>2. QED
    BY <2>1, OffChains
<1>4. /\ Hlists[b] \in Seq(Entries) /\ Len(Hlists[b]) \in Nat
      /\ DOMAIN Hlists = Buckets
  BY HlistFacts, Lengths
<1>5. 1 \in 1 .. Len(Hlists[b]) + 1
  BY <1>4
<1>6. Chains(hheap') = InsertedAt(b, 1, n)
  BY <1>2, <1>3, <1>5, InsertChain
<1>7. InsertAt(Hlists[b], 1, n) = <<n>> \o Hlists[b]
  <2> DEFINE s == Hlists[b]
  <2>1. s \in Seq(Entries)
    BY <1>4
  <2> HIDE DEF s
  <2>2. SubSeq(s, 1, 1 - 1) = <<>> /\ SubSeq(s, 1, Len(s)) = s
    BY <2>1
  <2>3. <<>> \o <<n>> = <<n>>
    OBVIOUS
  <2>4. InsertAt(s, 1, n) = <<n>> \o s
    BY <2>2, <2>3 DEF InsertAt
  <2>5. QED
    BY <2>4 DEF s
<1>8. QED
  BY <1>6, <1>7, HlistsAre DEF InsertedAt

\* A new node is before next, where next is on a chain.
LEMMA AddBeforeRight ==
  ASSUME HlistInv, Pointed(hheap'), NEW n \in Entries, NEW next \in Entries, HAddBefore(n, next)
  PROVE  Hlists' = Placed(n, next, 0)
<1> DEFINE p == hheap.pprev[next]
<1>1. /\ ~ Hashed(n) /\ Hashed(next)
      /\ hheap'.first = [hheap.first EXCEPT ![n] = next, ![p] = n]
  BY DEF HAddBefore, HCall, hlist_add_before, Hashed
<1>2. p \in Owners /\ hheap.first[p] = next
  BY <1>1 DEF HlistInv, Pointers, PprevRight, Hashed, hlist_unhashed
<1>3. LinkedTo(hheap', n, p)
  BY <1>1, <1>2 DEF LinkedTo
<1>4. p = IF 0 = 0 THEN hheap.pprev[next] ELSE next
  OBVIOUS
<1> HIDE DEF p
<1>5. Chains(hheap') = Placed(n, next, 0)
  BY <1>1, <1>2, <1>3, <1>4, PlaceChain
<1>6. QED
  BY <1>5, HlistsAre

\* next is after n, where n is on a chain.
LEMMA AddAfterRight ==
  ASSUME HlistInv, Pointed(hheap'), NEW n \in Entries, NEW next \in Entries, HAddAfter(n, next)
  PROVE  Hlists' = Placed(next, n, 1)
<1>1. /\ ~ Hashed(next) /\ Hashed(n) /\ n \in Owners
      /\ LinkedTo(hheap', next, n)
  BY DEF HAddAfter, HCall, hlist_add_after, Hashed, LinkedTo, Owners
<1>2. n = IF 1 = 0 THEN hheap.pprev[n] ELSE n
  OBVIOUS
<1>3. Chains(hheap') = Placed(next, n, 1)
  BY <1>1, <1>2, PlaceChain
<1>4. QED
  BY <1>3, HlistsAre

\* new has the chain of old, and old has none.
LEMMA MoveListRight ==
  ASSUME HlistInv, Pointed(hheap'), NEW old \in Buckets, NEW new \in Buckets, HMoveList(old, new)
  PROVE  Hlists' = HlistsMoved(old, new)
<1>1. /\ old # new
      /\ hheap'.first = [hheap.first EXCEPT ![new] = hheap.first[old], ![old] = NULL]
  BY DEF HMoveList, HCall, hlist_move_list
<1>2. Chains(hheap') = HlistsMoved(old, new)
  BY <1>1, MoveChain
<1>3. QED
  BY <1>2, HlistsAre

\* What HEffect asks of each call.
LEMMA EffectOf ==
  ASSUME NEW a, NEW b
  PROVE  /\ hop' = <<"hlist_del", a>> /\ Hlists' = HlistsOff(a) => HEffect
         /\ hop' = <<"hlist_del_init", a>> /\ Hlists' = HlistsOff(a) => HEffect
         /\ hop' = <<"hlist_add_head", a, b>> /\ Hlists' = [Hlists EXCEPT ![b] = <<a>> \o @] => HEffect
         /\ hop' = <<"hlist_add_before", a, b>> /\ Hlists' = Placed(a, b, 0) => HEffect
         /\ hop' = <<"hlist_add_after", a, b>> /\ Hlists' = Placed(b, a, 1) => HEffect
         /\ hop' = <<"hlist_add_fake", a>> /\ Hlists' = Hlists => HEffect
         /\ hop' = <<"hlist_move_list", a, b>> /\ Hlists' = HlistsMoved(a, b) => HEffect
<1>1. ASSUME hop' = <<"hlist_del", a>>, Hlists' = HlistsOff(a) PROVE HEffect
  <2>1. hop'[1] = "hlist_del" /\ hop'[2] = a
    BY <1>1
  <2>2. QED
    BY <1>1, <2>1 DEF HEffect, HlistsOff
<1>2. ASSUME hop' = <<"hlist_del_init", a>>, Hlists' = HlistsOff(a) PROVE HEffect
  <2>1. hop'[1] = "hlist_del_init" /\ hop'[2] = a
    BY <1>2
  <2>2. QED
    BY <1>2, <2>1 DEF HEffect, HlistsOff
<1>3. ASSUME hop' = <<"hlist_add_head", a, b>>, Hlists' = [Hlists EXCEPT ![b] = <<a>> \o @]
      PROVE  HEffect
  <2>1. hop'[1] = "hlist_add_head" /\ hop'[2] = a /\ hop'[3] = b
    BY <1>3
  <2>2. QED
    BY <1>3, <2>1 DEF HEffect
<1>4. ASSUME hop' = <<"hlist_add_before", a, b>>, Hlists' = Placed(a, b, 0) PROVE HEffect
  <2>1. hop'[1] = "hlist_add_before" /\ hop'[2] = a /\ hop'[3] = b
    BY <1>4
  <2>2. QED
    BY <1>4, <2>1 DEF HEffect, Placed, PlaceIn, SelectInSeq
<1>5. ASSUME hop' = <<"hlist_add_after", a, b>>, Hlists' = Placed(b, a, 1) PROVE HEffect
  <2>1. hop'[1] = "hlist_add_after" /\ hop'[2] = a /\ hop'[3] = b
    BY <1>5
  <2>2. QED
    BY <1>5, <2>1 DEF HEffect, Placed, PlaceIn, SelectInSeq
<1>6. ASSUME hop' = <<"hlist_add_fake", a>>, Hlists' = Hlists PROVE HEffect
  <2>1. hop'[1] = "hlist_add_fake"
    BY <1>6
  <2>2. QED
    BY <1>6, <2>1 DEF HEffect
<1>7. ASSUME hop' = <<"hlist_move_list", a, b>>, Hlists' = HlistsMoved(a, b) PROVE HEffect
  <2>1. hop'[1] = "hlist_move_list" /\ hop'[2] = a /\ hop'[3] = b
    BY <1>7
  <2>2. QED
    BY <1>7, <2>1 DEF HEffect, HlistsMoved
<1>8. QED
  BY <1>1, <1>2, <1>3, <1>4, <1>5, <1>6, <1>7

\* No call does anything else to the chains.
LEMMA EffectStep == HlistInv /\ [HNext]_hvars => [HEffect]_hvars
<1> SUFFICES ASSUME HlistInv, HNext
             PROVE  HEffect
  OBVIOUS
<1>0. Pointed(hheap')
  BY PointersStep DEF PprevRight, Pointed
<1>1. ASSUME NEW n \in Entries, HDelete(n)
      PROVE  HEffect
  <2>1. Hlists' = HlistsOff(n)
    BY <1>0, <1>1, DeleteRight
  <2>2. hop' = <<"hlist_del", n>> \/ hop' = <<"hlist_del_init", n>>
    BY <1>1 DEF HDelete, HCall
  <2>3. QED
    BY <2>1, <2>2, EffectOf
<1>2. ASSUME NEW n \in Entries, HAddFake(n)
      PROVE  HEffect
  <2>1. hheap'.first = hheap.first /\ hop' = <<"hlist_add_fake", n>>
    BY <1>2 DEF HAddFake, HCall, hlist_add_fake, HlistInv, Pointers
  <2>2. Hlists' = Hlists
    BY <2>1, SameFirst, HlistsAre
  <2>3. QED
    BY <2>1, <2>2, EffectOf
<1>3. ASSUME NEW n \in Entries, NEW b \in Buckets, HAddHead(n, b)
      PROVE  HEffect
  <2>1. Hlists' = [Hlists EXCEPT ![b] = <<n>> \o @]
    BY <1>0, <1>3, AddHeadRight
  <2>2. hop' = <<"hlist_add_head", n, b>>
    BY <1>3 DEF HAddHead, HCall
  <2>3. QED
    BY <2>1, <2>2, EffectOf
<1>4. ASSUME NEW n \in Entries, NEW next \in Entries, HAddBefore(n, next)
      PROVE  HEffect
  <2>1. Hlists' = Placed(n, next, 0)
    BY <1>0, <1>4, AddBeforeRight
  <2>2. hop' = <<"hlist_add_before", n, next>>
    BY <1>4 DEF HAddBefore, HCall
  <2>3. QED
    BY <2>1, <2>2, EffectOf
<1>5. ASSUME NEW n \in Entries, NEW next \in Entries, HAddAfter(n, next)
      PROVE  HEffect
  <2>1. Hlists' = Placed(next, n, 1)
    BY <1>0, <1>5, AddAfterRight
  <2>2. hop' = <<"hlist_add_after", n, next>>
    BY <1>5 DEF HAddAfter, HCall
  <2>3. QED
    BY <2>1, <2>2, EffectOf
<1>6. ASSUME NEW old \in Buckets, NEW new \in Buckets, HMoveList(old, new)
      PROVE  HEffect
  <2>1. Hlists' = HlistsMoved(old, new)
    BY <1>0, <1>6, MoveListRight
  <2>2. hop' = <<"hlist_move_list", old, new>>
    BY <1>6 DEF HMoveList, HCall
  <2>3. QED
    BY <2>1, <2>2, EffectOf
<1>7. QED
  BY <1>1, <1>2, <1>3, <1>4, <1>5, <1>6 DEF HNext

(***************************************************************************)
(* Every hlist function does to the chains what its name says, to the      *)
(* chain it is about and to no other.                                      *)
(***************************************************************************)
THEOREM EveryHlistCallRight == ListsSpec => HCallsRight
<1>1. [OneKind]_<<vars, hvars>> => [HNext]_hvars
  BY DEF OneKind
<1>2. HlistInv /\ [HNext]_hvars => HlistInv'
  BY PointersStep, CycleStep DEF HlistInv
<1>3. QED
  BY <1>1, <1>2, EffectStep, HlistInit, PTL DEF ListsInit, ListsSpec, HCallsRight

=============================================================================
