----------------------- MODULE MCWatcherSubscription -----------------------
(* Two watches of one root, few enough errors, refusals and policy changes *)
(* that the streams suffice, and enough that the retries run out.          *)
EXTENDS WatcherSubscription
=============================================================================
