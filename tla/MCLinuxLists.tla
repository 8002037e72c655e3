---------------------------- MODULE MCLinuxLists ----------------------------
(***************************************************************************)
(* Three elements on up to two lists, or on up to two hash chains.         *)
(* Entries, heads and buckets are interchangeable.                         *)
(***************************************************************************)
EXTENDS LinuxHlist

CONSTANTS h1, h2, b1, b2, e1, e2, e3

Alike == Permutations(Heads) \cup Permutations(Entries) \cup Permutations(Buckets)

=============================================================================
