------------------------- MODULE MC_Reconfiguration -------------------------
(* Small instances of reconfiguration for TLC. *)
EXTENDS Reconfiguration, TLC

CONSTANTS d1, c1, c2
=============================================================================
