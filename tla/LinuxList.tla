----------------------------- MODULE LinuxList ------------------------------
(***************************************************************************)
(* struct list_head of src/lru_test/list.h: the pointers, every function   *)
(* that changes them, called the way its comment allows, and the loop      *)
(* list_for_each_safe (forwards and backwards), whose body may delete the  *)
(* entry it is at, or move it onto any list, the loop's own included.  The *)
(* file is the same as guess_inode/list.h but for container_of and the     *)
(* poison, which is NULL in both.                                          *)
(***************************************************************************)
EXTENDS Integers, Sequences, FiniteSets, SequencesExt

CONSTANTS Heads,     \* list_heads that stand for a list
          Entries,   \* list_heads inside the elements
          NULL,
          MaxTurns   \* bound: the turns of a loop whose body lengthens its list

Nodes == Heads \cup Entries

ASSUME ListAssumption ==
  /\ Heads \cap Entries = {}
  /\ NULL \notin Nodes
  /\ IsFiniteSet(Nodes)
  /\ MaxTurns \in Nat

VARIABLES heap,   \* the fields: heap.next[x], heap.prev[x]
          live,   \* history: the list_heads that are initialised or on a list
          op,     \* history: the last call
          iter    \* the loop that runs, if one does

vars == <<heap, live, op, iter>>

NoLoop == [on |-> FALSE]

\* Memory that was never written is as good as NULL: no function reads it.
Init ==
  /\ heap = [next |-> [x \in Nodes |-> NULL], prev |-> [x \in Nodes |-> NULL]]
  /\ live = {}
  /\ op = <<"none">>
  /\ iter = NoLoop

-----------------------------------------------------------------------------
(* The functions: the heap each leaves                                     *)

INIT_LIST_HEAD(h, x) ==
  [next |-> [h.next EXCEPT ![x] = x], prev |-> [h.prev EXCEPT ![x] = x]]

\* __list_add
add_between(h, new, p, n) ==
  [next |-> [h.next EXCEPT ![new] = n, ![p] = new],
   prev |-> [h.prev EXCEPT ![n] = new, ![new] = p]]

list_add(h, new, head) == add_between(h, new, head, h.next[head])

list_add_tail(h, new, head) == add_between(h, new, h.prev[head], head)

BugOneWay(h, p, n) == [next |-> [h.next EXCEPT ![p] = n], prev |-> h.prev]

\* __list_del
del_between(h, p, n) ==
  [next |-> [h.next EXCEPT ![p] = n], prev |-> [h.prev EXCEPT ![n] = p]]

\* __list_del_entry
list_del_entry(h, e) == del_between(h, h.prev[e], h.next[e])

list_del(h, e) ==
  LET d == list_del_entry(h, e)
  IN [next |-> [d.next EXCEPT ![e] = NULL], prev |-> [d.prev EXCEPT ![e] = NULL]]

\* The four assignments in their order: what the second writes the third may read.
list_replace(h, old, new) ==
  LET n1 == [h.next EXCEPT ![new] = h.next[old]]
      p1 == [h.prev EXCEPT ![n1[new]] = new]
      p2 == [p1 EXCEPT ![new] = p1[old]]
  IN [next |-> [n1 EXCEPT ![p2[new]] = new], prev |-> p2]

list_replace_init(h, old, new) == INIT_LIST_HEAD(list_replace(h, old, new), old)

list_del_init(h, e) == INIT_LIST_HEAD(list_del_entry(h, e), e)

list_move(h, e, head) == list_add(list_del_entry(h, e), e, head)

list_move_tail(h, e, head) == list_add_tail(list_del_entry(h, e), e, head)

list_empty(h, head) == h.next[head] = head

BugOtherEnd(h, head) ==
  IF list_empty(h, head) THEN h ELSE list_move(h, h.next[head], head)

list_rotate_left(h, head) ==
  IF list_empty(h, head) THEN h ELSE list_move_tail(h, h.next[head], head)

list_is_singular(h, head) == ~ list_empty(h, head) /\ h.next[head] = h.prev[head]

\* __list_cut_position
cut_between(h, list, head, entry) ==
  LET new_first == h.next[entry]
      first == h.next[head]
  IN [next |-> [h.next EXCEPT ![list] = first, ![entry] = list, ![head] = new_first],
      prev |-> [h.prev EXCEPT ![first] = list, ![list] = entry, ![new_first] = head]]

NothingToCut(h, head, entry) ==
  \/ list_empty(h, head)
  \/ list_is_singular(h, head) /\ h.next[head] # entry /\ head # entry

list_cut_position(h, list, head, entry) ==
  IF NothingToCut(h, head, entry) THEN h
  ELSE IF entry = head THEN INIT_LIST_HEAD(h, list)
  ELSE cut_between(h, list, head, entry)

\* __list_splice
splice_between(h, list, p, n) ==
  LET first == h.next[list]
      last == h.prev[list]
  IN [next |-> [h.next EXCEPT ![p] = first, ![last] = n],
      prev |-> [h.prev EXCEPT ![first] = p, ![n] = last]]

list_splice(h, list, head) ==
  IF list_empty(h, list) THEN h ELSE splice_between(h, list, head, h.next[head])

list_splice_tail(h, list, head) ==
  IF list_empty(h, list) THEN h ELSE splice_between(h, list, h.prev[head], head)

list_splice_init(h, list, head) ==
  IF list_empty(h, list) THEN h ELSE INIT_LIST_HEAD(list_splice(h, list, head), list)

list_splice_tail_init(h, list, head) ==
  IF list_empty(h, list) THEN h ELSE INIT_LIST_HEAD(list_splice_tail(h, list, head), list)

-----------------------------------------------------------------------------
(* The list of a head, as list_for_each and list_for_each_prev visit it    *)

Visit(link, head) ==
  LET at[k \in 0 .. Cardinality(Nodes)] == IF k = 0 THEN head ELSE link[at[k - 1]]
      last == CHOOSE k \in 0 .. Cardinality(Nodes) - 1 :
                /\ link[at[k]] = head
                /\ \A j \in 0 .. k - 1 : link[at[j]] # head
  IN [k \in 1 .. last |-> at[k]]

ListOf(head) == Visit(heap.next, head)

LiveHeads == Heads \cap live

\* A list_head whose content nobody needs.
Unused(x) == x \notin live \/ list_empty(heap, x)

-----------------------------------------------------------------------------
(* The calls                                                               *)

Call(o, h, l) ==
  /\ ~ iter.on
  /\ heap' = h
  /\ live' = l
  /\ op' = o
  /\ UNCHANGED iter

Initialise(x) ==
  /\ Unused(x)
  /\ Call(<<"INIT_LIST_HEAD", x>>, INIT_LIST_HEAD(heap, x), live \cup {x})

Add(new, head) ==
  /\ head \in LiveHeads /\ Unused(new)
  /\ \/ Call(<<"list_add", new, head>>, list_add(heap, new, head), live \cup {new})
     \/ Call(<<"list_add_tail", new, head>>, list_add_tail(heap, new, head), live \cup {new})

\* An entry may be deleted from its list, or from its own ring after list_del_init.
Delete(e) ==
  /\ e \in live
  /\ \/ Call(<<"list_del", e>>, list_del(heap, e), live \ {e})
     \/ Call(<<"list_del_init", e>>, list_del_init(heap, e), live)

Replace(old, new) ==
  /\ old \in live /\ new # old /\ Unused(new)
  /\ \/ Call(<<"list_replace", old, new>>, list_replace(heap, old, new),
             (live \ {old}) \cup {new})
     \/ Call(<<"list_replace_init", old, new>>, list_replace_init(heap, old, new),
             live \cup {new})

Move(e, head) ==
  /\ e \in live /\ head \in LiveHeads
  /\ \/ Call(<<"list_move", e, head>>, list_move(heap, e, head), live)
     \/ Call(<<"list_move_tail", e, head>>, list_move_tail(heap, e, head), live)

RotateLeft(head) ==
  /\ head \in LiveHeads
  /\ Call(<<"list_rotate_left", head>>, list_rotate_left(heap, head), live)

\* "list should be an empty list or a list you do not care about losing its data."
Lost(list) == IF list \in live THEN Range(ListOf(list)) ELSE {}

\* "entry" is on the list of "head", or the head itself.
CutPosition(list, head, entry) ==
  /\ head \in LiveHeads /\ list # head
  /\ entry = head \/ entry \in Range(ListOf(head))
  /\ Call(<<"list_cut_position", list, head, entry>>,
          list_cut_position(heap, list, head, entry),
          IF NothingToCut(heap, head, entry) THEN live
          ELSE (live \ Lost(list)) \cup {list})

\* list_splice leaves "list" pointing at entries that are now on the other list.
Splice(list, head) ==
  /\ list \in LiveHeads /\ head \in LiveHeads /\ list # head
  /\ LET rest == IF list_empty(heap, list) THEN live ELSE live \ {list}
     IN \/ Call(<<"list_splice", list, head>>, list_splice(heap, list, head), rest)
        \/ Call(<<"list_splice_tail", list, head>>, list_splice_tail(heap, list, head), rest)
        \/ Call(<<"list_splice_init", list, head>>, list_splice_init(heap, list, head), live)
        \/ Call(<<"list_splice_tail_init", list, head>>,
                list_splice_tail_init(heap, list, head), live)

-----------------------------------------------------------------------------
(* list_for_each_safe and list_for_each_prev_safe                          *)

\* History: "visited", and "expected", the entries the loop has to visit: those on
\* the list when it begins, and each that its body puts at the end still ahead.
StartLoop(head, dir) ==
  /\ ~ iter.on /\ head \in LiveHeads
  /\ LET pos == heap[dir][head]
     IN iter' = [on |-> TRUE, head |-> head, dir |-> dir, pos |-> pos, n |-> heap[dir][pos],
                 expected |-> Visit(heap[dir], head), visited |-> <<>>]
  /\ UNCHANGED <<heap, live, op>>

BugUnsafe(expected) == iter' = [iter EXCEPT !.visited = Append(@, iter.pos),
                                            !.expected = expected,
                                            !.pos = heap'[iter.dir][iter.pos],
                                            !.n = heap'[iter.dir][iter.pos]]

\* pos = n, n = pos->next: after the body, so in the memory it left.
Advance(expected) == iter' = [iter EXCEPT !.visited = Append(@, iter.pos),
                                          !.expected = expected,
                                          !.pos = iter.n,
                                          !.n = heap'[iter.dir][iter.n]]

\* The body moves the entry it is at.
MoveEntry(call, head) ==
  /\ heap' = (IF call = "list_move" THEN list_move(heap, iter.pos, head)
              ELSE list_move_tail(heap, iter.pos, head))
  /\ op' = <<call, iter.pos, head>>
  /\ UNCHANGED live

\* It moves it to the end of the loop's own list, while the loop has others to
\* visit before that end: the loop will meet the entry again.
Again(call, head) ==
  /\ head = iter.head /\ iter.n # head
  /\ call = IF iter.dir = "next" THEN "list_move_tail" ELSE "list_move"

LoopTurn ==
  /\ iter.on /\ iter.pos # iter.head
  /\ LET e == iter.pos
     IN \/ UNCHANGED <<heap, live, op>>
        \/ /\ heap' = list_del(heap, e) /\ live' = live \ {e}
           /\ op' = <<"list_del", e>>
        \/ /\ heap' = list_del_init(heap, e) /\ live' = live
           /\ op' = <<"list_del_init", e>>
        \/ \E call \in {"list_move", "list_move_tail"}, head \in LiveHeads :
             ~ Again(call, head) /\ MoveEntry(call, head)
  /\ Advance(iter.expected)

\* With such a body the loop need not end.
LoopTurnAgain ==
  /\ iter.on /\ iter.pos # iter.head
  /\ Len(iter.expected) < MaxTurns
  /\ \E call \in {"list_move", "list_move_tail"} :
       Again(call, iter.head) /\ MoveEntry(call, iter.head)
  /\ Advance(Append(iter.expected, iter.pos))

EndLoop ==
  /\ iter.on /\ iter.pos = iter.head
  /\ iter' = NoLoop
  /\ UNCHANGED <<heap, live, op>>

Next ==
  \/ \E x \in Nodes : Initialise(x)
  \/ \E e \in Entries : Delete(e)
  \/ \E e \in Entries, head \in Heads : Add(e, head) \/ Move(e, head)
  \/ \E old, new \in Entries : Replace(old, new)
  \/ \E old, new \in Heads : Replace(old, new) \/ Splice(old, new)
  \/ \E head \in Heads : RotateLeft(head)
  \/ \E list, head \in Heads : \E entry \in Entries \cup {head} : CutPosition(list, head, entry)
  \/ \E head \in Heads, dir \in {"next", "prev"} : StartLoop(head, dir)
  \/ LoopTurn \/ LoopTurnAgain \/ EndLoop

Spec == Init /\ [][Next]_vars

-----------------------------------------------------------------------------
(* Properties                                                              *)

(***************************************************************************)
(* next and prev are mutual inverses on everything that is in use, and     *)
(* lead nowhere else: no call leaves a pointer to a deleted entry, to a    *)
(* head that was spliced away or to what was replaced, on whatever list.   *)
(***************************************************************************)
RingsClosed ==
  \A x \in live :
    /\ heap.next[x] \in live /\ heap.prev[heap.next[x]] = x
    /\ heap.prev[x] \in live /\ heap.next[heap.prev[x]] = x

(***************************************************************************)
(* Every call does to the sequences what its comment says, for the list it *)
(* is about and for no other: the pointers implement ListSeqs.             *)
(***************************************************************************)
Seqs == INSTANCE ListSeqs WITH lists <- [h \in LiveHeads |-> ListOf(h)]

SeqSpec == Seqs!Spec

(***************************************************************************)
(* "iterate over a list safe against removal of list entry" (line 401):    *)
(* though its body deletes the entry it is at, or moves it to another      *)
(* list or behind the loop on its own, the loop visits exactly the entries *)
(* that were on the list when it began, each once, in order; after these   *)
(* it meets again, in the order of the moves, what its body moved to the   *)
(* end of its own list that was still ahead, and nothing else.             *)
(***************************************************************************)
SafeLoopVisitsAll ==
  iter.on => IF iter.pos = iter.head THEN iter.visited = iter.expected
             ELSE IsPrefix(Append(iter.visited, iter.pos), iter.expected)

-----------------------------------------------------------------------------
(* The inductive invariant behind these properties                         *)

Heaps == [next : [Nodes -> Nodes \cup {NULL}], prev : [Nodes -> Nodes \cup {NULL}]]

\* The objects in use are on rings, each of which has an owner.
Rings(h, used, owner) ==
  /\ h \in Heaps /\ used \subseteq Nodes
  /\ owner \in [Nodes -> Nodes \cup {NULL}]
  /\ \A x \in used :
       /\ h.next[x] \in used /\ h.prev[h.next[x]] = x
       /\ h.prev[x] \in used /\ h.next[h.prev[x]] = x
       /\ owner[h.next[x]] = owner[x]

\* No ring has two heads: each head owns the one it is on.
HeadsApart(used, owner) == \A g \in Heads \cap used : owner[g] = g

RingsOK(h, used) ==
  \E owner \in [Nodes -> Nodes \cup {NULL}] : Rings(h, used, owner) /\ HeadsApart(used, owner)

RingInv == RingsOK(heap, live)

\* What the loop has still to visit is linked as it was when the loop began.
StopAt(k) == IF k \in DOMAIN iter.expected THEN iter.expected[k] ELSE iter.head

Running ==
  /\ iter \in [on : {TRUE}, head : LiveHeads, dir : {"next", "prev"}, pos : Nodes,
              n : Nodes \cup {NULL}, expected : Seq(Entries), visited : Seq(Entries)]
  /\ \A j, k \in Len(iter.visited) + 1 .. Len(iter.expected) :
       iter.expected[j] = iter.expected[k] => j = k
  /\ iter.visited = SubSeq(iter.expected, 1, Len(iter.visited))
  /\ Len(iter.visited) <= Len(iter.expected)
  /\ iter.pos = StopAt(Len(iter.visited) + 1)
  /\ iter.pos # iter.head => iter.n = StopAt(Len(iter.visited) + 2)
  /\ \A k \in Len(iter.visited) + 1 .. Len(iter.expected) :
       iter.expected[k] \in live /\ heap[iter.dir][iter.expected[k]] = StopAt(k + 1)

LoopInv == iter.on => Running


=============================================================================
