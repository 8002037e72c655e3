------------------------------- MODULE MCTdrv -------------------------------
(* Two users of the device.                                                *)
EXTENDS Tdrv

CONSTANTS u1, u2

=============================================================================
