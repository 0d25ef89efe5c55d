----------------------------- MODULE StoreLock ------------------------------
(***************************************************************************)
(* What the store lease promises (src/lib/store/store-lease.ts): the       *)
(* readers-writer lock its callers rely on, with no files, no retries and  *)
(* no processes.  mode[n] is what the lease n allows at this moment.       *)
(***************************************************************************)
CONSTANT Tokens
VARIABLE mode

Init == mode = [n \in Tokens |-> "none"]

GrantShared(n) ==
  /\ mode[n] = "none"
  /\ \A m \in Tokens : mode[m] # "exclusive"
  /\ mode' = [mode EXCEPT ![n] = "shared"]

\* own: the shared lease the exclusive one is requested from, if any.
GrantExclusive(n, own) ==
  /\ mode[n] = "none"
  /\ \A m \in Tokens \ {n} : mode[m] = "none" \/ (m = own /\ mode[m] = "shared")
  /\ mode' = [mode EXCEPT ![n] = "exclusive"]

\* Replaced in one step: no moment at which neither lease is held.
Downgrade(n, old) ==
  /\ mode[n] = "none" /\ mode[old] = "exclusive"
  /\ mode' = [mode EXCEPT ![n] = "shared", ![old] = "none"]

\* A release, an upgrade's release of its shared lease, or a crash, which
\* takes all leases of a process at once.
Drop(S) ==
  /\ \E n \in S : mode[n] # "none"
  /\ mode' = [n \in Tokens |-> IF n \in S THEN "none" ELSE mode[n]]

Next ==
  \/ \E n \in Tokens :
       \/ GrantShared(n)
       \/ \E own \in Tokens : GrantExclusive(n, own)
       \/ \E old \in Tokens : Downgrade(n, old)
  \/ \E S \in SUBSET Tokens : Drop(S)

Spec == Init /\ [][Next]_mode
=============================================================================
