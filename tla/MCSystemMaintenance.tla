------------------------- MODULE MCSystemMaintenance -------------------------
(* Instances of SystemMaintenance for TLC. *)
EXTENDS SystemMaintenance

=============================================================================
