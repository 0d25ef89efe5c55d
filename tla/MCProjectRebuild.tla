-------------------------- MODULE MCProjectRebuild --------------------------
(* Two projects, two generations; edits of the configuration and faults at any point. *)
EXTENDS ProjectRebuild
=============================================================================
