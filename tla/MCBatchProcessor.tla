-------------------------- MODULE MCBatchProcessor --------------------------
(* Two files, so that a batch can be cut between them and background work   *)
(* can wait behind live edits.                                              *)
EXTENDS BatchProcessor, TLC

PathSymmetry == Permutations(Paths)
=============================================================================
