--------------------------- MODULE MC_Subsystems ---------------------------
(* The readiness gate on small instances. *)
EXTENDS SubsystemManager, TLC
=============================================================================
