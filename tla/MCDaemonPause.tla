---------------------------- MODULE MCDaemonPause ----------------------------
(* Two reads that paused service admits, one place in the queue and one at  *)
(* the gate, and an exclusive call that opens and closes a read window.     *)
EXTENDS DaemonPause, OperationCoordinatorInv
=============================================================================
