------------------------ MODULE MCBoundedMaintenance ------------------------
(* Two attempts, with edits between them and faults at any point. *)
EXTENDS BoundedMaintenance
=============================================================================
