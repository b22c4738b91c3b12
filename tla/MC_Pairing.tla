----------------------------- MODULE MC_Pairing -----------------------------
(* Small instances of pairing for TLC. *)
EXTENDS Pairing, TLC

CONSTANTS d1, sensor, lock, any, model

OneClass == [d \in Devices |-> sensor]
UsedFilters == sensor :> {any, model} @@ lock :> {any}
OneMatches == any :> Devices @@ model :> (Devices \ {d1})
=============================================================================
