----------------------------- MODULE MCDumpDind -----------------------------
(***************************************************************************)
(* Small disks for DumpDind: eight blocks of three words, of which two are *)
(* followed in a double indirect block.  Blocks 1 and 2 are double         *)
(* indirect, 3, 4 and 7 are first level blocks, 5 and 6 are data.  Block 7 *)
(* exists but exceeds MAX_BLOCKS (6); block 9 does not exist.  ShortDisk   *)
(* ends before GROUP0_DATA_END.                                            *)
(***************************************************************************)
EXTENDS DumpDind

CONSTANTS t1, t2

WordsOf(x, y, z) == [w \in 0 .. 2 |-> <<x, y, z>>[w + 1]]

DiskOf(second, x, y) ==
  [b \in 0 .. 7 |->
     CASE b = 1 -> WordsOf(3, second, 4)
       [] b = 2 -> WordsOf(4, 0, 0)
       [] b = 3 -> WordsOf(x, y, 6)
       [] b = 4 -> WordsOf(6, 5, 5)
       [] b = 7 -> WordsOf(5, 0, 0)
       [] OTHER -> WordsOf(0, 0, 0)]

ShortDisk == [b \in 0 .. 1 |-> DiskOf(1, 1, 0)[b]]

ManyDisks ==
  {DiskOf(4, 5, 6), DiskOf(7, 5, 6), DiskOf(9, 6, 5), DiskOf(0, 5, 6),
   DiskOf(4, 0, 5), DiskOf(4, 5, 9), DiskOf(7, 7, 5), DiskOf(9, 5, 0), ShortDisk}
OneDisk == {DiskOf(4, 5, 6)}

=============================================================================
