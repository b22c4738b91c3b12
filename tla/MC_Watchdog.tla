---------------------------- MODULE MC_Watchdog ----------------------------
(* The communication watchdog on small instances. *)
EXTENDS CommFailWatchdog, TLC
=============================================================================
