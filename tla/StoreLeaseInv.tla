--------------------------- MODULE StoreLeaseInv ----------------------------
(***************************************************************************)
(* The inductive invariant behind MutualExclusion of StoreLease: which     *)
(* files stand for what each token's call may still rely on.               *)
(***************************************************************************)
EXTENDS StoreLease

\* Calls that found the intent to be theirs and have not given it back.
OwnPcs == {"xList", "xSweep", "xVerify", "xSwap", "exclusive", "using", "unpinning", "unsure"}

LockPcs == {"sUnlink", "sRmdir", "xUnlink", "xRmdir", "xCreate", "rUnlink", "rRmdir", "dUnlink", "dRmdir"}

\* Calls whose marker is on disk.
MarkedPcs == {"sRecheck", "sWithdraw", "shared", "dMarked", "dWait", "dUnlink", "dRmdir", "dFail"}

HelperActive(n) == helper[n] \in {"waiting", "running"}

\* Calls that have had no intent yet, and those that never have one.
NoIntentPcs ==
  {"idle", "shared", "xProbe", "xUnlink", "xRmdir", "xCreate"} \union SharedPcs \union DowngradePcs

\* Downgrades whose marker was on disk while the intent was still theirs.
CommittedPcs == {"dWait", "dUnlink", "dRmdir"}

\* Calls that have seen every reader go.
ClearPcs == {"xVerify", "xSwap", "exclusive", "using", "unpinning", "unsure"}

\* A shared lease, or a downgrade to one that nothing will stop.
Reading(m) == Live(m) /\ pc[m] \in CommittedPcs \union {"shared"}

LinkPcs == WaitPcs \union DowngradePcs \union {"xAbandon"}

\* The lock is held by the live call that stands in a locked section.
LockInv == \A n \in Tokens : Live(n) /\ pc[n] \in LockPcs => lock = n

\* A live call's intent is on disk, unless its own downgrade is removing it or
\* it was evicted.
OwnInv ==
  \A n \in Tokens :
    Live(n) /\ pc[n] \in OwnPcs /\ n \notin evicted =>
      \/ intentOwner = n
      \/ intentOwner = Torn /\ \E m \in Tokens : pc[m] = "dRmdir" /\ base[m] = n

\* An evicted owner gets its intent back only by its own late unpin.
EvictedInv ==
  /\ \A n \in evicted : pc[n] \notin NoIntentPcs /\ (helper[n] # "gone" => intentOwner # n)
  /\ intentOwner \in Tokens => pc[intentOwner] \notin NoIntentPcs
  /\ victim \in Tokens => pc[victim] \notin NoIntentPcs
  /\ \A n \in Tokens : pc[n] = "unpinning" => helper[n] = "gone" /\ (intentOwner = n \/ n \in evicted \/ ~Live(n))
  /\ \A n \in Tokens : helper[n] # "none" => pc[n] \notin NoIntentPcs \union WaitPcs \union {"xAbandon"}

\* Removal: what is removed belongs to no live holder, or to one whose helper
\* has exited, and to no helper.  The directory stays empty unless an evicted
\* owner comes back to it.
RemovalInv ==
  \A n \in Tokens : Live(n) =>
    /\ pc[n] \in {"sUnlink", "xUnlink"} =>
         victim \in Tokens /\ (~Live(victim) \/ helper[victim] = "gone") /\ ~HelperActive(victim)
    /\ pc[n] = "rUnlink" => victim = n
    /\ pc[n] = "dUnlink" => victim = base[n]
    /\ pc[n] \in {"sRmdir", "xRmdir", "rRmdir"} /\ victim # None => intentOwner = Torn \/ intentOwner \in evicted
    /\ pc[n] = "dRmdir" =>
         IF victim = None THEN base[n] \in evicted
         ELSE victim = base[n] /\ (intentOwner = Torn \/ base[n] \in evicted)

\* A helper keeps its parent's intent on disk and pinned.
HelperInv ==
  \A n \in Tokens : HelperActive(n) =>
    /\ pc[n] \in {"using", "unsure"}
    /\ n \notin evicted => intentOwner = n /\ pinned /\ \A m \in Tokens : ~Reading(m)

\* The lease an upgrade or a downgrade replaces stays as it is meanwhile.
LinkInv ==
  /\ \A n \in Tokens : pc[n] \in LinkPcs \ DowngradePcs /\ base[n] # None =>
       pc[base[n]] = "shared" /\ ProcOf[base[n]] = ProcOf[n]
  /\ \A n \in Tokens : pc[n] \in DowngradePcs =>
       base[n] # None /\ pc[base[n]] = "exclusive" /\ ProcOf[base[n]] = ProcOf[n]
  /\ \A n, m \in Tokens :
       base[n] = m => pc[m] \notin (NoIntentPcs \ {"shared"}) \union WaitPcs
  /\ \A n, m \in Tokens :
       n # m /\ pc[n] \in LinkPcs /\ pc[m] \in LinkPcs /\ base[n] # None => base[n] # base[m]

\* Markers of live readers are on disk; the exclusive request has seen them.
ReaderInv ==
  /\ \A m \in Tokens : Live(m) /\ pc[m] \in MarkedPcs => m \in readers
  /\ \A n, m \in Tokens :
       At(n, "xSweep") /\ n \notin evicted /\ Reading(m) =>
         m \in scan[n] \union {base[n]}
  /\ \A n, m \in Tokens :
       Live(n) /\ pc[n] \in ClearPcs /\ n \notin evicted /\ Reading(m) =>
         m = base[n] \/ (pc[m] \in CommittedPcs /\ n = base[m])
  /\ \A n, m \in Tokens :
       Live(n) /\ pc[n] \in {"using", "unpinning", "unsure"} /\ n \notin evicted => ~Reading(m)

LeaseInv ==
  /\ LeaseTypeOK /\ LockInv /\ OwnInv /\ EvictedInv /\ RemovalInv /\ HelperInv /\ LinkInv /\ ReaderInv
=============================================================================
