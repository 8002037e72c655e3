---------------------------- MODULE MCGuessDind ----------------------------
(* GuessDind with the proportions of the code (the block is more than     *)
(* twice DIND_MAX_OFFSET long) and every word a small number.              *)
EXTENDS GuessDind

SmallValues == 0 .. 3

=============================================================================
