------------------------ MODULE MC_DescriptorHandler ------------------------
(* Small instances of a descriptor list for TLC. *)
EXTENDS DescriptorHandler, TLC

CONSTANTS u1, u2
=============================================================================
