-------------------------- MODULE DiscoverySession --------------------------
(***************************************************************************)
(* What device discovery promises to the rest of the device service        *)
(* (core/src/deviceService.c, the table activeDiscoveries): for a device   *)
(* class there is at most one session at a time, it is a discovery or a    *)
(* recovery for as long as it lasts, and it carries the filters it was     *)
(* started with.  Discovery.tla implements this; Pairing.tla uses it.      *)
(***************************************************************************)
CONSTANTS
    Classes,    \* device classes
    Filters     \* what a client may ask of the devices of a session

Modes == {"discovery", "recovery"}
NoSession == [mode |-> "none"]
Sessions == [mode : Modes, filter : Filters]

VARIABLE session   \* per class, the session in activeDiscoveries

Init == session = [c \in Classes |-> NoSession]

\* A session starts only where there is none.
Begin(c, s) ==
    /\ session[c] = NoSession
    /\ session' = [session EXCEPT ![c] = s]

End(c) ==
    /\ session[c] # NoSession
    /\ session' = [session EXCEPT ![c] = NoSession]

\* The service shuts down: the table goes away with every session in it.
Close == session' = [c \in Classes |-> NoSession]

Next ==
    \/ \E c \in Classes : End(c) \/ \E s \in Sessions : Begin(c, s)
    \/ Close

Spec == Init /\ [][Next]_session
=============================================================================
