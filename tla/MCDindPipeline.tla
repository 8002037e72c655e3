--------------------------- MODULE MCDindPipeline ---------------------------
(* Two dump threads for DindPipeline.                                      *)
EXTENDS DindPipeline

CONSTANTS w1, w2

WorkersMC == {w1, w2}

=============================================================================
