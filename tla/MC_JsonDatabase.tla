--------------------------- MODULE MC_JsonDatabase ---------------------------
(* Instances of the database for TLC. *)
EXTENDS JsonDatabase

AllSaves == {"AddDevice", "AddResource", "Save", "Remove", "SetSystemProperty", "Cleanup",
             "Restore"}
TwoValues == {1, 2}
=============================================================================
