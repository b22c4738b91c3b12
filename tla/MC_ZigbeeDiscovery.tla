------------------------- MODULE MC_ZigbeeDiscovery -------------------------
(* Small instances of Zigbee discovery for TLC. *)
EXTENDS ZigbeeDiscovery, TLC

CONSTANTS light, lock, d1

\* One driver claims the only device of interest, the other one none.
LightClaims == [r \in Drivers |-> IF r = light THEN {d1} ELSE {}]
=============================================================================
