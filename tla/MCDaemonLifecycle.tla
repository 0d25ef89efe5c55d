-------------------------- MODULE MCDaemonLifecycle --------------------------
(* Three processes: a daemon that stops, its successor, and a third that     *)
(* starts while one waits for the other.                                     *)
EXTENDS DaemonLifecycleInv
=============================================================================
