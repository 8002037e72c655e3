----------------------------- MODULE LinuxHlist -----------------------------
(***************************************************************************)
(* struct hlist_head and hlist_node of src/lru_test/list.h.  An hlist_node *)
(* is inside the same elements as a list_head (struct test of test.c), so  *)
(* the entries of LinuxList stand for both.  pprev points at a field; as   *)
(* an object has one forward field, hlist_head.first or hlist_node.next,   *)
(* the field is represented by the object it is in.                        *)
(*                                                                         *)
(* The two kinds of list share no memory: a behaviour calls the functions  *)
(* of one kind only.                                                       *)
(***************************************************************************)
EXTENDS LinuxList

CONSTANT Buckets   \* the hlist_heads

Owners == Buckets \cup Entries

ASSUME HlistAssumption ==
  /\ Buckets \cap Entries = {}
  /\ NULL \notin Buckets

VARIABLES hheap,   \* the fields: hheap.first[x] (or next), hheap.pprev[n]
          hop      \* history: the last call

hvars == <<hheap, hop>>

\* INIT_HLIST_HEAD and INIT_HLIST_NODE were called on everything.
HInit ==
  /\ hheap = [first |-> [x \in Owners |-> NULL], pprev |-> [n \in Entries |-> NULL]]
  /\ hop = <<"none">>

-----------------------------------------------------------------------------
(* The functions                                                           *)

\* if (n) n->pprev = x
Back(pprev, n, x) == IF n = NULL THEN pprev ELSE [pprev EXCEPT ![n] = x]

hlist_unhashed(h, n) == h.pprev[n] = NULL

hlist_empty(h, b) == h.first[b] = NULL

\* __hlist_del
unlink(h, n) ==
  [first |-> [h.first EXCEPT ![h.pprev[n]] = h.first[n]],
   pprev |-> Back(h.pprev, h.first[n], h.pprev[n])]

INIT_HLIST_NODE(h, n) ==
  [first |-> [h.first EXCEPT ![n] = NULL], pprev |-> [h.pprev EXCEPT ![n] = NULL]]

\* The poison of this file is NULL: a deleted node looks unhashed.
hlist_del(h, n) == INIT_HLIST_NODE(unlink(h, n), n)

hlist_del_init(h, n) ==
  IF hlist_unhashed(h, n) THEN h ELSE INIT_HLIST_NODE(unlink(h, n), n)

hlist_add_head(h, n, b) ==
  [first |-> [h.first EXCEPT ![n] = h.first[b], ![b] = n],
   pprev |-> [Back(h.pprev, h.first[b], n) EXCEPT ![n] = b]]

hlist_add_before(h, n, next) ==
  [first |-> [h.first EXCEPT ![n] = next, ![h.pprev[next]] = n],
   pprev |-> [h.pprev EXCEPT ![n] = h.pprev[next], ![next] = n]]

BugForgetsBack(h, n, next) ==
  [first |-> [h.first EXCEPT ![next] = h.first[n], ![n] = next],
   pprev |-> [h.pprev EXCEPT ![next] = n]]

\* Adds its second argument behind its first.
hlist_add_after(h, n, next) ==
  [first |-> [h.first EXCEPT ![next] = h.first[n], ![n] = next],
   pprev |-> Back([h.pprev EXCEPT ![next] = n], h.first[n], next)]

hlist_add_fake(h, n) == [h EXCEPT !.pprev[n] = n]

BugOldKept(h, old, new) ==
  [first |-> [h.first EXCEPT ![new] = h.first[old]],
   pprev |-> Back(h.pprev, h.first[old], new)]

hlist_move_list(h, old, new) ==
  [first |-> [h.first EXCEPT ![new] = h.first[old], ![old] = NULL],
   pprev |-> Back(h.pprev, h.first[old], new)]

-----------------------------------------------------------------------------
(* The list of a bucket, as hlist_for_each visits it                       *)

HlistOf(b) ==
  LET at[k \in 0 .. Cardinality(Entries) + 1] ==
        IF k = 0 THEN b ELSE IF at[k - 1] = NULL THEN NULL ELSE hheap.first[at[k - 1]]
      last == CHOOSE k \in 0 .. Cardinality(Entries) :
                at[k + 1] = NULL /\ \A j \in 1 .. k : at[j] # NULL
  IN [k \in 1 .. last |-> at[k]]

Hlists == [b \in Buckets |-> HlistOf(b)]

Fake(n) == hheap.pprev[n] = n

\* The node is on the list of a bucket.
Hashed(n) == ~ hlist_unhashed(hheap, n) /\ ~ Fake(n)

-----------------------------------------------------------------------------
(* The calls                                                               *)

HCall(o, h) ==
  /\ hheap' = h
  /\ hop' = o

HDelete(n) ==
  \/ /\ ~ hlist_unhashed(hheap, n)
     /\ HCall(<<"hlist_del", n>>, hlist_del(hheap, n))
  \/ HCall(<<"hlist_del_init", n>>, hlist_del_init(hheap, n))

HAddHead(n, b) ==
  /\ hlist_unhashed(hheap, n)
  /\ HCall(<<"hlist_add_head", n, b>>, hlist_add_head(hheap, n, b))

HAddBefore(n, next) ==
  /\ hlist_unhashed(hheap, n) /\ Hashed(next)
  /\ HCall(<<"hlist_add_before", n, next>>, hlist_add_before(hheap, n, next))

HAddAfter(n, next) ==
  /\ Hashed(n) /\ hlist_unhashed(hheap, next)
  /\ HCall(<<"hlist_add_after", n, next>>, hlist_add_after(hheap, n, next))

HAddFake(n) ==
  /\ hlist_unhashed(hheap, n)
  /\ HCall(<<"hlist_add_fake", n>>, hlist_add_fake(hheap, n))

HMoveList(old, new) ==
  /\ old # new /\ hlist_empty(hheap, new)
  /\ HCall(<<"hlist_move_list", old, new>>, hlist_move_list(hheap, old, new))

HNext ==
  \/ \E n \in Entries : HDelete(n) \/ HAddFake(n)
  \/ \E n \in Entries, b \in Buckets : HAddHead(n, b)
  \/ \E n, next \in Entries : HAddBefore(n, next) \/ HAddAfter(n, next)
  \/ \E old, new \in Buckets : HMoveList(old, new)

\* The functions of one kind, or those of the other.
OneKind ==
  \/ Next /\ UNCHANGED hvars /\ hop = <<"none">>
  \/ HNext /\ UNCHANGED vars /\ live = {}

ListsInit == Init /\ HInit

ListsSpec == ListsInit /\ [][OneKind]_<<vars, hvars>>

-----------------------------------------------------------------------------
(* Properties                                                              *)

(***************************************************************************)
(* The pprev of a node names the one field that points at the node; a node *)
(* without pprev is pointed at by none, and one made to look hashed by     *)
(* hlist_add_fake only by itself.                                          *)
(***************************************************************************)
PprevRight ==
  \A n \in Entries :
    /\ \A x \in Owners : hheap.first[x] = n => hheap.pprev[n] = x
    /\ Hashed(n) => hheap.first[hheap.pprev[n]] = n
    /\ ~ Hashed(n) => hheap.first[n] = NULL

(***************************************************************************)
(* Every call does to the chains what its name says, to the chain it is    *)
(* about and to no other; hlist_del_init of an unhashed node and           *)
(* hlist_add_fake change none.                                             *)
(***************************************************************************)
HEffect ==
  LET Off(n) == [b \in Buckets |-> RemoveFirst(Hlists[b], n)]   \* it is there at most once
      Place(n, x) == [b \in Buckets |-> SelectInSeq(Hlists[b], LAMBDA y : y = x)]
      Inserted(n, x, d) ==
        [b \in Buckets |-> IF Place(n, x)[b] = 0 THEN Hlists[b]
                           ELSE InsertAt(Hlists[b], Place(n, x)[b] + d, n)]
  IN Hlists' = CASE hop'[1] \in {"hlist_del", "hlist_del_init"} -> Off(hop'[2])
                 [] hop'[1] = "hlist_add_head" ->
                      [Hlists EXCEPT ![hop'[3]] = <<hop'[2]>> \o @]
                 [] hop'[1] = "hlist_add_before" -> Inserted(hop'[2], hop'[3], 0)
                 [] hop'[1] = "hlist_add_after" -> Inserted(hop'[3], hop'[2], 1)
                 [] hop'[1] = "hlist_move_list" ->
                      [Hlists EXCEPT ![hop'[3]] = Hlists[hop'[2]], ![hop'[2]] = <<>>]
                 [] OTHER -> Hlists

HCallsRight == [][HEffect]_hvars

=============================================================================
