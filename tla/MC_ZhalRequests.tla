-------------------------- MODULE MC_ZhalRequests --------------------------
(* Small instances of the request queues for TLC. *)
EXTENDS ZhalRequests, TLC

CONSTANTS r1, r2, e1

OneDevice == [r \in Requests |-> e1]
=============================================================================
