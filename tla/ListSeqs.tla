------------------------------ MODULE ListSeqs ------------------------------
(***************************************************************************)
(* What list.h promises, by the comments of its functions: every           *)
(* initialised head stands for a sequence of entries, an entry is on one   *)
(* list at most, and each call changes the sequences as its comment says.  *)
(* A head drops out of "lists" when it may not be used any more.  "op" is  *)
(* the last call with its arguments.                                       *)
(***************************************************************************)
EXTENDS Integers, Sequences, SequencesExt

CONSTANTS Heads, Entries

VARIABLES lists,   \* the sequence of every initialised head
          op       \* the last call

Used == DOMAIN lists

\* An entry is on a list at most once.
Without(seq, e) == RemoveFirst(seq, e)

\* The lists after e was taken off the one it is on, if any.
Off(e) == [h \in Used |-> Without(lists[h], e)]

\* What stands before e on its list, and after.
Position(seq, e) == SelectInSeq(seq, LAMBDA x : x = e)
UpTo(seq, e) == SubSeq(seq, 1, Position(seq, e))
After(seq, e) == SubSeq(seq, Position(seq, e) + 1, Len(seq))

\* The function with one more, or one less, head.
With(h, seq) == [x \in Used \cup {h} |-> IF x = h THEN seq ELSE lists[x]]
Drop(f, h) == [x \in DOMAIN f \ {h} |-> f[x]]

Init ==
  /\ lists = <<>>
  /\ op = <<"none">>

InitHead(h) ==
  /\ h \notin Used \/ lists[h] = <<>>
  /\ lists' = With(h, <<>>)
  /\ op' = <<"INIT_LIST_HEAD", h>>

\* An entry that is initialised, or deleted, is on no list.
TakeOff(e) ==
  /\ lists' = Off(e)
  /\ op' \in {<<"list_del", e>>, <<"list_del_init", e>>}

InitEntry(e) ==
  /\ lists = Off(e) /\ UNCHANGED lists
  /\ op' = <<"INIT_LIST_HEAD", e>>

AddFirst(e, h) ==
  /\ h \in Used
  /\ lists' = [Off(e) EXCEPT ![h] = <<e>> \o @]
  /\ \/ op' = <<"list_move", e, h>>
     \/ lists = Off(e) /\ op' = <<"list_add", e, h>>

AddLast(e, h) ==
  /\ h \in Used
  /\ lists' = [Off(e) EXCEPT ![h] = @ \o <<e>>]
  /\ \/ op' = <<"list_move_tail", e, h>>
     \/ lists = Off(e) /\ op' = <<"list_add_tail", e, h>>

Replace(old, new) ==
  /\ lists = Off(new)
  /\ lists' = [h \in Used |-> ReplaceAll(lists[h], old, new)]
  /\ op' \in {<<"list_replace", old, new>>, <<"list_replace_init", old, new>>}

ReplaceHead(old, new) ==
  /\ old \in Used /\ new # old
  /\ new \in Used => lists[new] = <<>>
  /\ \/ /\ op' = <<"list_replace", old, new>>
        /\ lists' = Drop(With(new, lists[old]), old)
     \/ /\ op' = <<"list_replace_init", old, new>>
        /\ lists' = [With(new, lists[old]) EXCEPT ![old] = <<>>]

Rotate(h) ==
  /\ h \in Used
  /\ lists' = IF lists[h] = <<>> THEN lists
              ELSE [lists EXCEPT ![h] = Tail(@) \o <<Head(@)>>]
  /\ op' = <<"list_rotate_left", h>>

\* The part of the list of h up to e goes to l, which loses what it held;
\* nothing happens if the list of h is empty.
Cut(l, h, e) ==
  /\ h \in Used /\ l # h
  /\ \/ lists[h] = <<>> /\ e = h /\ UNCHANGED lists
     \/ lists[h] # <<>> /\ e = h /\ lists' = With(l, <<>>)
     \/ /\ Contains(lists[h], e)
        /\ lists' = [With(l, UpTo(lists[h], e)) EXCEPT ![h] = After(@, e)]
  /\ op' = <<"list_cut_position", l, h, e>>

\* list_splice leaves l in a state in which it may only be initialised.
Splice(l, h) ==
  /\ l \in Used /\ h \in Used /\ l # h
  /\ LET first == [lists EXCEPT ![h] = lists[l] \o @, ![l] = <<>>]
         last == [lists EXCEPT ![h] = @ \o lists[l], ![l] = <<>>]
         stale(f) == IF lists[l] = <<>> THEN f ELSE Drop(f, l)
     IN \/ op' = <<"list_splice", l, h>> /\ lists' = stale(first)
        \/ op' = <<"list_splice_tail", l, h>> /\ lists' = stale(last)
        \/ op' = <<"list_splice_init", l, h>> /\ lists' = first
        \/ op' = <<"list_splice_tail_init", l, h>> /\ lists' = last

Next ==
  \/ \E h \in Heads : InitHead(h) \/ Rotate(h)
  \/ \E e \in Entries : InitEntry(e) \/ TakeOff(e)
  \/ \E e \in Entries, h \in Heads : AddFirst(e, h) \/ AddLast(e, h)
  \/ \E old, new \in Entries : Replace(old, new)
  \/ \E old, new \in Heads : ReplaceHead(old, new) \/ Splice(old, new)
  \/ \E l, h \in Heads, e \in Heads \cup Entries : Cut(l, h, e)

Spec == Init /\ [][Next]_<<lists, op>>

=============================================================================
