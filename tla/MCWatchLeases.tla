--------------------------- MODULE MCWatchLeases ---------------------------
(* A session that may lapse, one that renews for ever and the command line, *)
(* two operations at the project lock, two exclusive operations.            *)
EXTENDS WatchLeases
=============================================================================
