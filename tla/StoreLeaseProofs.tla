-------------------------- MODULE StoreLeaseProofs --------------------------
(***************************************************************************)
(* The store lease, for any set of tokens and processes, any crashes and   *)
(* any interleaving: mutual exclusion of all holders that were not evicted *)
(* after their helper exited, from the inductive invariant LeaseInv stated *)
(* in StoreLeaseInv, and from it, step by step, that the file protocol     *)
(* implements the reader-writer lock StoreLock, and that a live holder     *)
(* loses what it owns in no other way.                                     *)
(***************************************************************************)
EXTENDS StoreLeaseInv, TLAPS

\* acquireShared keeps the invariant: a marker is only relied on after the
\* intent was seen absent with the marker on disk.
LEMMA SharedSteps ==
  ASSUME LeaseInv, NEW n \in Tokens,
         StartShared(n) \/ SharedStep(n) \/ GiveUp(n) \/ ReleaseShared(n)
  PROVE  LeaseInv'
<1>. USE LeaseAssumption DEF LeaseInv, LockInv, OwnInv, EvictedInv, RemovalInv, HelperInv, LinkInv, ReaderInv,
       LeaseTypeOK, At, Live, Goto, TakeLock, LockFree, Busy, HelperActive,
       OwnPcs, LockPcs, MarkedPcs, LinkPcs, NoIntentPcs, CommittedPcs, ClearPcs, Reading, PCs, SharedPcs, WaitPcs, DowngradePcs, RemovePcs, HeldPcs
<1>1. CASE StartShared(n)
  BY <1>1 DEF StartShared
<1>2. CASE SharedProbe(n)
  BY <1>2 DEF SharedProbe, OwnerStale
<1>3. CASE SharedCheck(n)
  BY <1>3 DEF SharedCheck
<1>4. CASE SharedOpen(n)
  BY <1>4 DEF SharedOpen
<1>5. CASE SharedMark(n)
  BY <1>5 DEF SharedMark
<1>6. CASE SharedRecheck(n)
  BY <1>6 DEF SharedRecheck
<1>7. CASE SharedWithdraw(n)
  BY <1>7 DEF SharedWithdraw
<1>8. CASE GiveUp(n)
  BY <1>8 DEF GiveUp
<1>9. CASE ReleaseShared(n)
  BY <1>9 DEF ReleaseShared
<1>. QED
  BY <1>1, <1>2, <1>3, <1>4, <1>5, <1>6, <1>7, <1>8, <1>9 DEF SharedStep

\* acquireExclusive keeps the invariant: after its intent was created no new
\* reader gets in, and the sweep accounts for every reader that was in.
LEMMA ExclusiveSteps ==
  ASSUME LeaseInv, NEW n \in Tokens,
         ExclusiveStep(n)
  PROVE  LeaseInv'
<1>. USE LeaseAssumption DEF LeaseInv, LockInv, OwnInv, EvictedInv, RemovalInv, HelperInv, LinkInv, ReaderInv,
       LeaseTypeOK, At, Live, Goto, TakeLock, LockFree, Busy, HelperActive,
       OwnPcs, LockPcs, MarkedPcs, LinkPcs, NoIntentPcs, CommittedPcs, ClearPcs, Reading, PCs, SharedPcs, WaitPcs, DowngradePcs, RemovePcs, HeldPcs
<1>1. CASE ExclusiveProbe(n)
  <2>1. LeaseTypeOK'
    <3>1. pc' \in [Tokens -> PCs]
      BY <1>1 DEF ExclusiveProbe, OwnerStale
    <3>2. intentOwner' \in Tokens \union {None, Torn}
      BY <1>1 DEF ExclusiveProbe, OwnerStale
    <3>3. pinned' \in BOOLEAN
      BY <1>1 DEF ExclusiveProbe, OwnerStale
    <3>4. victim' \in Tokens \union {None} /\ lock' \in Tokens \union {None} /\ (victim' # None => lock' # None)
      BY <1>1 DEF ExclusiveProbe, OwnerStale
    <3>. QED BY <1>1, <3>1, <3>2, <3>3, <3>4 DEF ExclusiveProbe, OwnerStale
  <2>2. LockInv' /\ OwnInv'
    BY <1>1 DEF ExclusiveProbe, OwnerStale
  <2>3. EvictedInv' /\ RemovalInv' /\ HelperInv'
    BY <1>1 DEF ExclusiveProbe, OwnerStale
  <2>4. LinkInv' /\ ReaderInv'
    BY <1>1 DEF ExclusiveProbe, OwnerStale
  <2>. QED BY <2>1, <2>2, <2>3, <2>4
<1>2. CASE ExclusiveCreate(n)
  <2>1. LeaseTypeOK'
    <3>1. pc' \in [Tokens -> PCs]
      BY <1>2 DEF ExclusiveCreate
    <3>2. intentOwner' \in Tokens \union {None, Torn}
      BY <1>2 DEF ExclusiveCreate
    <3>3. pinned' \in BOOLEAN
      BY <1>2 DEF ExclusiveCreate
    <3>4. victim' \in Tokens \union {None} /\ lock' \in Tokens \union {None} /\ (victim' # None => lock' # None)
      BY <1>2 DEF ExclusiveCreate
    <3>. QED BY <1>2, <3>1, <3>2, <3>3, <3>4 DEF ExclusiveCreate
  <2>2. LockInv' /\ OwnInv'
    BY <1>2 DEF ExclusiveCreate
  <2>3. EvictedInv' /\ RemovalInv' /\ HelperInv'
    BY <1>2 DEF ExclusiveCreate
  <2>4. LinkInv' /\ ReaderInv'
    BY <1>2 DEF ExclusiveCreate
  <2>. QED BY <2>1, <2>2, <2>3, <2>4
<1>3. CASE ExclusiveList(n)
  BY <1>3 DEF ExclusiveList, TempFile
<1>4. CASE ExclusiveSweep(n)
  BY <1>4 DEF ExclusiveSweep
<1>5. CASE ExclusiveVerify(n)
  BY <1>5 DEF ExclusiveVerify
<1>6. CASE UpgradeSwap(n)
  <2>1. LeaseTypeOK'
    BY <1>6 DEF UpgradeSwap
  <2>2. LockInv' /\ OwnInv'
    BY <1>6 DEF UpgradeSwap
  <2>3. EvictedInv' /\ RemovalInv' /\ HelperInv'
    BY <1>6 DEF UpgradeSwap
  <2>4. LinkInv' /\ ReaderInv'
    BY <1>6 DEF UpgradeSwap
  <2>. QED BY <2>1, <2>2, <2>3, <2>4
<1>7. CASE Abandon(n)
  BY <1>7 DEF Abandon
<1>. QED
  BY <1>1, <1>2, <1>3, <1>4, <1>5, <1>6, <1>7 DEF ExclusiveStep

\* Removing an intent: the lock holder's victim is dead with its helper, or
\* is its own call's lease.
LEMMA RemovalSteps ==
  ASSUME LeaseInv, NEW n \in Tokens,
         RemoveStep(n) \/ ReleaseExclusive(n)
  PROVE  LeaseInv'
<1>. USE LeaseAssumption DEF LeaseInv, LockInv, OwnInv, EvictedInv, RemovalInv, HelperInv, LinkInv, ReaderInv,
       LeaseTypeOK, At, Live, Goto, TakeLock, LockFree, Busy, HelperActive,
       OwnPcs, LockPcs, MarkedPcs, LinkPcs, NoIntentPcs, CommittedPcs, ClearPcs, Reading, PCs, SharedPcs, WaitPcs, DowngradePcs, RemovePcs, HeldPcs
<1>1. CASE Unlink(n)
  <2>1. LeaseTypeOK'
    <3>1. pc' \in [Tokens -> PCs]
      BY <1>1 DEF Unlink
    <3>2. intentOwner' \in Tokens \union {None, Torn}
      BY <1>1 DEF Unlink
    <3>3. pinned' \in BOOLEAN
      BY <1>1 DEF Unlink
    <3>4. victim' \in Tokens \union {None} /\ lock' \in Tokens \union {None} /\ (victim' # None => lock' # None)
      BY <1>1 DEF Unlink
    <3>. QED BY <1>1, <3>1, <3>2, <3>3, <3>4 DEF Unlink
  <2>2. LockInv' /\ OwnInv'
    BY <1>1 DEF Unlink
  <2>3. EvictedInv' /\ RemovalInv' /\ HelperInv'
    BY <1>1 DEF Unlink
  <2>4. LinkInv' /\ ReaderInv'
    BY <1>1 DEF Unlink
  <2>. QED BY <2>1, <2>2, <2>3, <2>4
<1>2. CASE Rmdir(n)
  <2>1. LeaseTypeOK'
    BY <1>2 DEF Rmdir
  <2>2. LockInv' /\ OwnInv'
    BY <1>2 DEF Rmdir
  <2>3. CASE pc[n] = "dRmdir"
    <3>1. EvictedInv' /\ RemovalInv'
      BY <1>2, <2>3 DEF Rmdir
    <3>2. HelperInv'
      BY <1>2, <2>3 DEF Rmdir
    <3>3. LinkInv'
      BY <1>2, <2>3 DEF Rmdir
    <3>4. ReaderInv'
      BY <1>2, <2>3 DEF Rmdir
    <3>. QED BY <2>1, <2>2, <3>1, <3>2, <3>3, <3>4
  <2>4. CASE pc[n] # "dRmdir"
    <3>1. EvictedInv' /\ RemovalInv' /\ HelperInv'
      BY <1>2, <2>4 DEF Rmdir
    <3>2. LinkInv' /\ ReaderInv'
      BY <1>2, <2>4 DEF Rmdir
    <3>. QED BY <2>1, <2>2, <3>1, <3>2
  <2>. QED BY <2>3, <2>4
<1>3. CASE ReleaseExclusive(n)
  BY <1>3 DEF ReleaseExclusive
<1>4. CASE RmdirThrows(n)
  <2>1. LeaseTypeOK'
    BY <1>4 DEF RmdirThrows
  <2>2. LockInv' /\ OwnInv'
    BY <1>4 DEF RmdirThrows
  <2>3. EvictedInv' /\ RemovalInv' /\ HelperInv'
    BY <1>4 DEF RmdirThrows
  <2>4. LinkInv' /\ ReaderInv'
    BY <1>4 DEF RmdirThrows
  <2>. QED BY <2>1, <2>2, <2>3, <2>4
<1>. QED
  BY <1>1, <1>2, <1>3, <1>4 DEF RemoveStep

\* A downgrade marks before it removes, and shares only once both are done.
LEMMA DowngradeSteps ==
  ASSUME LeaseInv, NEW n \in Tokens,
         DowngradeStep(n)
  PROVE  LeaseInv'
<1>. USE LeaseAssumption DEF LeaseInv, LockInv, OwnInv, EvictedInv, RemovalInv, HelperInv, LinkInv, ReaderInv,
       LeaseTypeOK, At, Live, Goto, TakeLock, LockFree, Busy, HelperActive,
       OwnPcs, LockPcs, MarkedPcs, LinkPcs, NoIntentPcs, CommittedPcs, ClearPcs, Reading, PCs, SharedPcs, WaitPcs, DowngradePcs, RemovePcs, HeldPcs
<1>1. CASE DowngradeMark(n)
  BY <1>1 DEF DowngradeMark
<1>2. CASE DowngradeCheck(n)
  BY <1>2 DEF DowngradeCheck
<1>3. CASE DowngradeRelease(n)
  BY <1>3 DEF DowngradeRelease
<1>4. CASE DowngradeFail(n)
  BY <1>4 DEF DowngradeFail
<1>. QED
  BY <1>1, <1>2, <1>3, <1>4 DEF DowngradeStep

\* withExclusiveUse: the helper's pin keeps its parent's intent on disk.
LEMMA UseSteps ==
  ASSUME LeaseInv, NEW n \in Tokens,
         UseStep(n) \/ HelperExit(n)
  PROVE  LeaseInv'
<1>. USE LeaseAssumption DEF LeaseInv, LockInv, OwnInv, EvictedInv, RemovalInv, HelperInv, LinkInv, ReaderInv,
       LeaseTypeOK, At, Live, Goto, TakeLock, LockFree, Busy, HelperActive,
       OwnPcs, LockPcs, MarkedPcs, LinkPcs, NoIntentPcs, CommittedPcs, ClearPcs, Reading, PCs, SharedPcs, WaitPcs, DowngradePcs, RemovePcs, HeldPcs
<1>1. CASE UseBegin(n)
  BY <1>1 DEF UseBegin
<1>2. CASE PinHelper(n)
  <2>1. LeaseTypeOK' /\ LockInv' /\ OwnInv'
    BY <1>2 DEF PinHelper
  <2>2. HelperInv'
    <3>1. intentOwner' = n /\ pinned' /\ evicted' = evicted
      BY <1>2 DEF PinHelper
    <3>2. ASSUME NEW m \in Tokens, HelperActive(m)' PROVE m = n \/ m \in evicted
      BY <1>2, <3>2 DEF PinHelper
    <3>3. \A m \in Tokens : HelperActive(m)' => pc'[m] \in {"using", "unsure"}
      BY <1>2 DEF PinHelper
    <3>4. n \notin evicted => \A m \in Tokens : ~Reading(m)'
      BY <1>2 DEF PinHelper
    <3>. QED BY <3>1, <3>2, <3>3, <3>4
  <2>3. EvictedInv' /\ RemovalInv'
    BY <1>2 DEF PinHelper
  <2>4. LinkInv' /\ ReaderInv'
    BY <1>2 DEF PinHelper
  <2>. QED BY <2>1, <2>2, <2>3, <2>4
<1>3. CASE ApproveHelper(n)
  BY <1>3 DEF ApproveHelper
<1>4. CASE HelperExit(n)
  BY <1>4 DEF HelperExit
<1>5. CASE UnpinRead(n)
  BY <1>5 DEF UnpinRead
<1>7. CASE UnpinWrite(n)
  <2>1. LeaseTypeOK'
    <3>1. evicted' \subseteq Tokens
      BY <1>7 DEF UnpinWrite
    <3>2. pinned' \in BOOLEAN
      BY <1>7 DEF UnpinWrite
    <3>. QED BY <1>7, <3>1, <3>2 DEF UnpinWrite
  <2>2. LockInv' /\ OwnInv'
    BY <1>7 DEF UnpinWrite
  <2>3. EvictedInv' /\ RemovalInv' /\ HelperInv'
    BY <1>7 DEF UnpinWrite
  <2>4. LinkInv' /\ ReaderInv'
    BY <1>7 DEF UnpinWrite
  <2>. QED BY <2>1, <2>2, <2>3, <2>4
<1>6. CASE UseEnd(n)
  BY <1>6 DEF UseEnd
<1>. QED
  BY <1>1, <1>2, <1>3, <1>4, <1>5, <1>6, <1>7 DEF UseStep

\* An exclusive request links to a lease no other call is replacing.
LEMMA StartExclusiveStep ==
  ASSUME LeaseInv, NEW n \in Tokens, NEW b \in Tokens \union {None}, StartExclusive(n, b)
  PROVE  LeaseInv'
<1>. USE LeaseAssumption DEF LeaseInv, LockInv, OwnInv, EvictedInv, RemovalInv, HelperInv, LinkInv, ReaderInv,
       LeaseTypeOK, At, Live, Goto, TakeLock, LockFree, Busy, HelperActive,
       OwnPcs, LockPcs, MarkedPcs, LinkPcs, NoIntentPcs, CommittedPcs, ClearPcs, Reading, PCs, SharedPcs, WaitPcs, DowngradePcs, RemovePcs, HeldPcs
<1>1. LeaseTypeOK'
  BY DEF StartExclusive
<1>2. LockInv' /\ OwnInv'
  BY DEF StartExclusive
<1>3. EvictedInv' /\ RemovalInv' /\ HelperInv'
  BY DEF StartExclusive
<1>4. LinkInv' /\ ReaderInv'
  BY DEF StartExclusive
<1>. QED BY <1>1, <1>2, <1>3, <1>4

\* So does a downgrade.
LEMMA StartDowngradeStep ==
  ASSUME LeaseInv, NEW n \in Tokens, NEW b \in Tokens, StartDowngrade(n, b)
  PROVE  LeaseInv'
<1>. USE LeaseAssumption DEF LeaseInv, LockInv, OwnInv, EvictedInv, RemovalInv, HelperInv, LinkInv, ReaderInv,
       LeaseTypeOK, At, Live, Goto, TakeLock, LockFree, Busy, HelperActive,
       OwnPcs, LockPcs, MarkedPcs, LinkPcs, NoIntentPcs, CommittedPcs, ClearPcs, Reading, PCs, SharedPcs, WaitPcs, DowngradePcs, RemovePcs, HeldPcs
<1>1. LeaseTypeOK'
  BY DEF StartDowngrade
<1>2. LockInv' /\ OwnInv'
  BY DEF StartDowngrade
<1>3. EvictedInv' /\ RemovalInv' /\ HelperInv'
  BY DEF StartDowngrade
<1>4. LinkInv' /\ ReaderInv'
  BY DEF StartDowngrade
<1>. QED BY <1>1, <1>2, <1>3, <1>4

\* A crash changes no file: what it leaves behind only loses its owner.
LEMMA CrashStep ==
  ASSUME LeaseInv, NEW p \in Procs, Crash(p)
  PROVE  LeaseInv'
<1>. USE LeaseAssumption DEF LeaseInv, LockInv, OwnInv, EvictedInv, RemovalInv, HelperInv, LinkInv, ReaderInv,
       LeaseTypeOK, At, Live, Goto, TakeLock, LockFree, Busy, HelperActive,
       OwnPcs, LockPcs, MarkedPcs, LinkPcs, NoIntentPcs, CommittedPcs, ClearPcs, Reading, PCs, SharedPcs, WaitPcs, DowngradePcs, RemovePcs, HeldPcs
<1>. QED BY DEF Crash

\* The invariant, for every value of the constants.
THEOREM LeaseInvariant ==
  Spec => []LeaseInv
<1>1. Init => LeaseInv
  BY LeaseAssumption
  DEF Init, LeaseInv, LockInv, OwnInv, EvictedInv, RemovalInv, HelperInv, LinkInv, ReaderInv, LeaseTypeOK, At, HelperActive,
      OwnPcs, LockPcs, MarkedPcs, LinkPcs, NoIntentPcs, CommittedPcs, ClearPcs, Reading, PCs, SharedPcs, WaitPcs, DowngradePcs, RemovePcs, HeldPcs
<1>2. LeaseInv /\ [Next]_vars => LeaseInv'
  <2>. SUFFICES ASSUME LeaseInv, [Next]_vars PROVE LeaseInv'
    OBVIOUS
  <2>1. CASE UNCHANGED vars
    BY <2>1 DEF vars, LeaseInv, LockInv, OwnInv, EvictedInv, RemovalInv, HelperInv, LinkInv, ReaderInv, LeaseTypeOK,
         At, Live, HelperActive, Reading
  <2>2. ASSUME NEW n \in Tokens, Request(n) PROVE LeaseInv'
    BY <2>2, SharedSteps, StartExclusiveStep DEF Request
  <2>3. ASSUME NEW n \in Tokens, SharedStep(n) \/ GiveUp(n) \/ Release(n) PROVE LeaseInv'
    BY <2>3, SharedSteps, RemovalSteps DEF Release
  <2>4. ASSUME NEW n \in Tokens, ExclusiveStep(n) \/ RemoveStep(n) PROVE LeaseInv'
    BY <2>4, ExclusiveSteps, RemovalSteps
  <2>5. ASSUME NEW n \in Tokens, DowngradeStep(n) PROVE LeaseInv'
    BY <2>5, DowngradeSteps
  <2>6. ASSUME NEW n \in Tokens, UseStep(n) \/ HelperExit(n) PROVE LeaseInv'
    BY <2>6, UseSteps
  <2>7. ASSUME NEW n \in Tokens, NEW b \in Tokens, StartDowngrade(n, b) PROVE LeaseInv'
    BY <2>7, StartDowngradeStep
  <2>8. ASSUME NEW p \in Procs, Crash(p) PROVE LeaseInv'
    BY <2>8, CrashStep
  <2>. QED BY <2>1, <2>2, <2>3, <2>4, <2>5, <2>6, <2>7, <2>8 DEF Next
<1>. QED BY <1>1, <1>2, PTL DEF Spec

\* The invariant excludes holders beside an exclusive one or its helper.
LEMMA LeaseExcludes ==
  ASSUME LeaseInv
  PROVE  MutualExclusion
<1>. SUFFICES ASSUME NEW n \in Tokens, NEW m \in Tokens, n # m, Mode(n) = "exclusive", Mode(m) # "none"
     PROVE  Mode(m) = "shared" /\ m = base[n]
  BY DEF MutualExclusion
<1>. USE DEF LeaseInv
<1>0. n \notin evicted /\ m \notin evicted
  BY DEF Mode
<1>1. HelperActive(n) \/ (Live(n) /\ pc[n] \in {"xSwap", "exclusive", "using", "unpinning", "unsure"})
  BY DEF Mode, HelperActive
<1>2. CASE Mode(m) = "exclusive"
  <2>1. HelperActive(m) \/ (Live(m) /\ pc[m] \in {"xSwap", "exclusive", "using", "unpinning", "unsure"})
    BY <1>2 DEF Mode, HelperActive
  <2>. QED
    BY <1>0, <1>1, <2>1, LeaseAssumption
    DEF LeaseTypeOK, OwnInv, HelperInv, LockInv, LinkInv, Live, OwnPcs, LockPcs, LinkPcs, DowngradePcs
<1>3. CASE Mode(m) = "shared"
  <2>1. At(m, "shared")
    BY <1>3 DEF Mode
  <2>2. Reading(m) /\ pc[m] \notin CommittedPcs
    BY <2>1 DEF Reading, At, CommittedPcs
  <2>. QED BY <1>0, <1>1, <1>3, <2>1, <2>2 DEF HelperInv, ReaderInv, ClearPcs
<1>. QED BY <1>2, <1>3 DEF Mode

\* No holder works on the store beside an exclusive one or its helper.
THEOREM LeaseMutualExclusion ==
  Spec => []MutualExclusion
<1>1. LeaseInv => MutualExclusion
  BY LeaseExcludes
<1>. QED BY <1>1, LeaseInvariant, PTL

-----------------------------------------------------------------------------
(* The steps of the lock, in terms of the modes before and after *)

\* Nobody's mode changes.
LEMMA ModesStay ==
  ASSUME \A m \in Tokens : Mode(m)' = Mode(m)
  PROVE  UNCHANGED modes
  BY DEF modes

\* One token is granted the shared mode.
LEMMA SharedGranted ==
  ASSUME NEW n \in Tokens, Mode(n) = "none", Mode(n)' = "shared",
         \A m \in Tokens : Mode(m) # "exclusive",
         \A m \in Tokens \ {n} : Mode(m)' = Mode(m)
  PROVE  Lock!Next
<1>1. Lock!GrantShared(n)
  BY DEF modes, Lock!GrantShared
<1>. QED BY <1>1 DEF Lock!Next

\* One token is granted the exclusive mode.
LEMMA ExclusiveGranted ==
  ASSUME NEW n \in Tokens, NEW own \in Tokens, Mode(n) = "none", Mode(n)' = "exclusive",
         \A m \in Tokens \ {n} : Mode(m) = "none" \/ (m = own /\ Mode(m) = "shared"),
         \A m \in Tokens \ {n} : Mode(m)' = Mode(m)
  PROVE  Lock!Next
<1>1. Lock!GrantExclusive(n, own)
  BY DEF modes, Lock!GrantExclusive
<1>. QED BY <1>1 DEF Lock!Next

\* A shared mode takes the place of an exclusive one.
LEMMA Downgraded ==
  ASSUME NEW n \in Tokens, NEW old \in Tokens, n # old,
         Mode(n) = "none", Mode(n)' = "shared", Mode(old) = "exclusive", Mode(old)' = "none",
         \A m \in Tokens \ {n, old} : Mode(m)' = Mode(m)
  PROVE  Lock!Next
<1>1. Lock!Downgrade(n, old)
  BY DEF modes, Lock!Downgrade
<1>. QED BY <1>1 DEF Lock!Next

\* Some tokens lose their modes.
LEMMA Dropped ==
  ASSUME NEW S \in SUBSET Tokens, \A m \in S : Mode(m)' = "none",
         \A m \in Tokens \ S : Mode(m)' = Mode(m)
  PROVE  Lock!Next \/ UNCHANGED modes
<1>1. CASE \E m \in S : Mode(m) # "none"
  <2>1. Lock!Drop(S)
    BY <1>1 DEF modes, Lock!Drop
  <2>. QED BY <2>1 DEF Lock!Next
<1>2. CASE ~ \E m \in S : Mode(m) # "none"
  BY <1>2 DEF modes
<1>. QED BY <1>1, <1>2

\* One token loses its mode.
LEMMA DroppedOne ==
  ASSUME NEW n \in Tokens, Mode(n)' = "none",
         \A m \in Tokens \ {n} : Mode(m)' = Mode(m)
  PROVE  Lock!Next \/ UNCHANGED modes
<1>1. {n} \in SUBSET Tokens
  OBVIOUS
<1>2. \A m \in {n} : Mode(m)' = "none"
  OBVIOUS
<1>. QED BY <1>1, <1>2, Dropped

-----------------------------------------------------------------------------
(* The steps of the file protocol *)

\* Steps on the way to a lease, or after it, change no mode.
LEMMA QuietSteps ==
  ASSUME LeaseInv, NEW n \in Tokens, NEW b \in Tokens \union {None},
         \/ StartShared(n) \/ SharedProbe(n) \/ SharedCheck(n) \/ SharedOpen(n) \/ SharedMark(n) \/ SharedWithdraw(n)
         \/ GiveUp(n) \/ StartExclusive(n, b)
         \/ ExclusiveProbe(n) \/ ExclusiveCreate(n) \/ ExclusiveList(n) \/ ExclusiveSweep(n) \/ Abandon(n)
         \/ StartDowngrade(n, b)
         \/ DowngradeMark(n) \/ DowngradeCheck(n) \/ DowngradeRelease(n) \/ DowngradeFail(n)
  PROVE  UNCHANGED modes
<1>. USE DEF LeaseInv, LeaseTypeOK, At, Live, Goto, Mode
<1>1. CASE StartShared(n) \/ SharedProbe(n) \/ SharedCheck(n) \/ SharedOpen(n) \/ SharedMark(n) \/ SharedWithdraw(n)
  <2>1. \A m \in Tokens : Mode(m)' = Mode(m)
    BY <1>1 DEF StartShared, SharedProbe, SharedCheck, SharedOpen, SharedMark, SharedWithdraw
  <2>. QED BY <2>1, ModesStay
<1>2. CASE GiveUp(n) \/ StartExclusive(n, b) \/ ExclusiveProbe(n) \/ ExclusiveCreate(n) \/ ExclusiveList(n)
           \/ ExclusiveSweep(n) \/ Abandon(n)
  <2>1. \A m \in Tokens : Mode(m)' = Mode(m)
    BY <1>2 DEF GiveUp, StartExclusive, ExclusiveProbe, ExclusiveCreate, ExclusiveList, ExclusiveSweep, Abandon
  <2>. QED BY <2>1, ModesStay
<1>3. CASE StartDowngrade(n, b) \/ DowngradeMark(n) \/ DowngradeCheck(n) \/ DowngradeRelease(n)
           \/ DowngradeFail(n)
  <2>1. \A m \in Tokens : Mode(m)' = Mode(m)
    BY <1>3 DEF StartDowngrade, DowngradeMark, DowngradeCheck, DowngradeRelease, DowngradeFail
  <2>. QED BY <2>1, ModesStay
<1>. QED BY <1>1, <1>2, <1>3

\* A reader that finds no intent after writing its marker holds the shared lease.
LEMMA RecheckMaps ==
  ASSUME LeaseInv, NEW n \in Tokens, SharedRecheck(n)
  PROVE  Lock!Next \/ UNCHANGED modes
<1>. USE LeaseAssumption DEF LeaseInv, LeaseTypeOK, At, Live, Goto, SharedRecheck
<1>0. \A m \in Tokens \ {n} : Mode(m)' = Mode(m)
  BY DEF Mode
<1>1. CASE intentOwner = None
  <2>1. \A m \in Tokens : Mode(m) # "exclusive"
    BY <1>1 DEF Mode, OwnInv, OwnPcs, HelperInv, HelperActive
  <2>2. Mode(n) = "none" /\ Mode(n)' = "shared"
    BY <1>1, <2>1 DEF Mode, HelperInv, HelperActive, EvictedInv, NoIntentPcs, SharedPcs
  <2>. QED BY <1>0, <2>1, <2>2, SharedGranted
<1>2. CASE intentOwner # None
  <2>1. Mode(n)' = Mode(n)
    BY <1>2 DEF Mode
  <2>. QED BY <1>0, <2>1, ModesStay
<1>. QED BY <1>1, <1>2

\* An exclusive request that still owns the intent holds the exclusive lease.
LEMMA VerifyMaps ==
  ASSUME LeaseInv, MutualExclusion', NEW n \in Tokens, ExclusiveVerify(n)
  PROVE  Lock!Next \/ UNCHANGED modes
<1>. USE LeaseAssumption DEF LeaseInv, LeaseTypeOK, At, Live, Goto, ExclusiveVerify
<1>0. \A m \in Tokens \ {n} : Mode(m)' = Mode(m)
  BY DEF Mode
<1>1. CASE intentOwner = n
  <2>1. Mode(n) = "none" /\ Mode(n)' = "exclusive"
    BY <1>1 DEF Mode, HelperInv, HelperActive, EvictedInv, WaitPcs
  <2>2. \A m \in Tokens \ {n} : Mode(m) = "none" \/ (Mode(m) = "shared" /\ m = base[n])
    <3>1. base' = base
      OBVIOUS
    <3>. QED BY <1>0, <2>1, <3>1 DEF MutualExclusion
  <2>3. CASE base[n] \in Tokens
    BY <1>0, <2>1, <2>2, <2>3, ExclusiveGranted
  <2>4. CASE base[n] = None
    BY <1>0, <2>1, <2>2, <2>4, ExclusiveGranted
  <2>. QED BY <2>3, <2>4
<1>2. CASE intentOwner # n
  <2>1. Mode(n)' = Mode(n)
    BY <1>2 DEF Mode
  <2>. QED BY <1>0, <2>1, ModesStay
<1>. QED BY <1>1, <1>2

\* The shared lease of an upgrade goes; a downgrade swaps two leases at once;
\* other removals change no mode.
LEMMA SwapMaps ==
  ASSUME LeaseInv, NEW n \in Tokens, UpgradeSwap(n) \/ Rmdir(n)
  PROVE  Lock!Next \/ UNCHANGED modes
<1>. USE LeaseAssumption DEF LeaseInv, LeaseTypeOK, At, Live, Goto
<1>1. CASE UpgradeSwap(n)
  <2>1. ASSUME NEW b \in Tokens, b = base[n] PROVE Lock!Next \/ UNCHANGED modes
    <3>1. pc[b] = "shared" /\ b # n
      BY <1>1, <2>1 DEF UpgradeSwap, LinkInv, LinkPcs, WaitPcs, DowngradePcs
    <3>2. Mode(b)' = "none"
      BY <1>1, <2>1, <3>1 DEF UpgradeSwap, Mode, HelperInv, HelperActive
    <3>3. \A m \in Tokens \ {b} : Mode(m)' = Mode(m)
      BY <1>1, <2>1, <3>1 DEF UpgradeSwap, Mode
    <3>. HIDE DEF LeaseInv, LeaseTypeOK, At, Live, Goto
    <3>. QED BY <3>2, <3>3, DroppedOne
  <2>2. CASE base[n] = None
    <3>1. \A m \in Tokens : Mode(m)' = Mode(m)
      BY <1>1, <2>2 DEF UpgradeSwap, Mode
    <3>. QED BY <3>1, ModesStay
  <2>. QED BY <2>1, <2>2
<1>2. CASE Rmdir(n) /\ pc[n] = "dRmdir"
  <2>0. PICK b \in Tokens : b = base[n]
    BY <1>2 DEF LinkInv, LinkPcs, WaitPcs, DowngradePcs
  <2>1. b # n /\ pc[b] = "exclusive" /\ ProcOf[b] = ProcOf[n]
    BY <1>2, <2>0 DEF LinkInv, LinkPcs, WaitPcs, DowngradePcs
  <2>2. Mode(n) = "none" /\ Mode(n)' = "shared"
    BY <1>2, <2>0, <2>1 DEF Rmdir, Mode, HelperInv, HelperActive, EvictedInv, NoIntentPcs, DowngradePcs
  <2>3. Mode(b) = (IF b \in evicted THEN "none" ELSE "exclusive") /\ Mode(b)' = "none"
    BY <1>2, <2>0, <2>1 DEF Rmdir, Mode, HelperInv, HelperActive
  <2>4. \A m \in Tokens \ {n, b} : Mode(m)' = Mode(m)
    BY <1>2, <2>0, <2>1 DEF Rmdir, Mode
  <2>5. CASE b \in evicted
    <3>1. \A m \in Tokens \ {n} : Mode(m)' = Mode(m)
      BY <2>3, <2>4, <2>5
    <3>2. ASSUME NEW k \in Tokens, Mode(k) = "exclusive" PROVE FALSE
      <4>1. k \notin evicted /\ k # b /\ k # n /\ Reading(n)
        BY <1>2, <2>2, <2>5, <3>2 DEF Mode, Reading, CommittedPcs, Rmdir
      <4>2. HelperActive(k) \/ (Live(k) /\ pc[k] \in ClearPcs)
        BY <3>2 DEF Mode, HelperActive, ClearPcs
      <4>3. n # base[k]
        BY <1>2, <4>1 DEF LinkInv, NoIntentPcs, DowngradePcs
      <4>. QED BY <2>0, <4>1, <4>2, <4>3 DEF HelperInv, ReaderInv
    <3>. HIDE DEF LeaseInv, LeaseTypeOK, At, Live, Goto
    <3>. QED BY <2>2, <3>1, <3>2, SharedGranted
  <2>6. CASE b \notin evicted
    <3>. HIDE DEF LeaseInv, LeaseTypeOK, At, Live, Goto
    <3>. QED BY <2>1, <2>2, <2>3, <2>4, <2>6, Downgraded
  <2>. QED BY <2>5, <2>6
<1>3. CASE Rmdir(n) /\ pc[n] # "dRmdir"
  <2>1. \A m \in Tokens : Mode(m)' = Mode(m)
    BY <1>3 DEF Rmdir, Mode
  <2>. QED BY <2>1, ModesStay
<1>. QED BY <1>1, <1>2, <1>3

\* Taking an intent away drops at most the lease of the owner it names.
LEMMA UnlinkMaps ==
  ASSUME LeaseInv, NEW n \in Tokens, Unlink(n) \/ UnpinWrite(n) \/ RmdirThrows(n)
  PROVE  Lock!Next \/ UNCHANGED modes
<1>. USE LeaseAssumption DEF LeaseInv, LeaseTypeOK, At, Live, Goto
<1>1. ASSUME NEW v \in Tokens, evicted' = evicted \union {v}, \A m \in Tokens \ {v} : Mode(m)' = Mode(m)
      PROVE  Lock!Next \/ UNCHANGED modes
  <2>1. Mode(v)' = "none"
    BY <1>1 DEF Mode
  <2>. HIDE DEF LeaseInv, LeaseTypeOK, At, Live, Goto
  <2>. QED BY <1>1, <2>1, DroppedOne
<1>2. ASSUME \A m \in Tokens : Mode(m)' = Mode(m)
      PROVE  Lock!Next \/ UNCHANGED modes
  BY <1>2, ModesStay
<1>3. CASE Unlink(n)
  <2>1. CASE evicted' = evicted
    <3>1. \A m \in Tokens : Mode(m)' = Mode(m)
      BY <1>3, <2>1 DEF Unlink, Mode
    <3>. QED BY <1>2, <3>1
  <2>2. CASE evicted' = evicted \union {victim} /\ victim \in Tokens
    <3>1. \A m \in Tokens \ {victim} : Mode(m)' = Mode(m)
      BY <1>3, <2>2 DEF Unlink, Mode
    <3>. QED BY <1>1, <2>2, <3>1
  <2>. DEFINE Takes(v) == pc[n] \in {"sUnlink", "xUnlink"} /\ v \in Tokens /\ Live(v) /\ helper[v] = "gone"
  <2>3. pc[n] \in {"sUnlink", "xUnlink"} => victim \in Tokens
    BY <1>3 DEF Unlink, RemovalInv
  <2>4. evicted' = evicted \/ evicted' = evicted \union {v \in {victim} : pc[n] \in {"sUnlink", "xUnlink"} /\ Live(v) /\ helper[v] = "gone"}
    BY <1>3 DEF Unlink
  <2>5. CASE Takes(victim)
    <3>1. {v \in {victim} : pc[n] \in {"sUnlink", "xUnlink"} /\ Live(v) /\ helper[v] = "gone"} = {victim}
      BY <2>5
    <3>2. evicted' = evicted \/ evicted' = evicted \union {victim}
      BY <2>4, <3>1
    <3>. QED BY <2>1, <2>2, <2>5, <3>2
  <2>6. CASE ~Takes(victim)
    <3>1. {v \in {victim} : pc[n] \in {"sUnlink", "xUnlink"} /\ Live(v) /\ helper[v] = "gone"} = {}
      BY <2>3, <2>6
    <3>2. evicted' = evicted
      BY <2>4, <3>1
    <3>. QED BY <2>1, <3>2
  <2>. QED BY <2>5, <2>6
<1>4. CASE UnpinWrite(n)
  <2>2. CASE evicted' = evicted
    <3>1. \A m \in Tokens : Mode(m)' = Mode(m)
      BY <1>4, <2>2 DEF UnpinWrite, Mode
    <3>. QED BY <1>2, <3>1
  <2>3. ASSUME NEW v \in Tokens, evicted' = evicted \union {v} PROVE Lock!Next \/ UNCHANGED modes
    <3>1. \A m \in Tokens \ {v} : Mode(m)' = Mode(m)
      BY <1>4, <2>3 DEF UnpinWrite, Mode
    <3>. QED BY <1>1, <2>3, <3>1
  <2>4. evicted' = evicted \/ \E v \in Tokens : evicted' = evicted \union {v}
    BY <1>4 DEF UnpinWrite
  <2>. QED BY <2>2, <2>3, <2>4
<1>5. CASE RmdirThrows(n)
  <2>1. \A m \in Tokens : Mode(m)' = Mode(m)
    BY <1>5 DEF RmdirThrows, Mode
  <2>. QED BY <1>2, <2>1
<1>. QED BY <1>3, <1>4, <1>5

\* A release drops one lease; using it changes nothing; a helper that outlived
\* its parent drops the lease when it exits.
LEMMA HolderMaps ==
  ASSUME LeaseInv, NEW n \in Tokens, Release(n) \/ UseStep(n) \/ HelperExit(n)
  PROVE  Lock!Next \/ UNCHANGED modes
<1>. USE LeaseAssumption DEF LeaseInv, LeaseTypeOK, At, Live, Goto
<1>1. CASE Release(n)
  <2>1. Mode(n)' = "none"
    BY <1>1 DEF Release, ReleaseShared, ReleaseExclusive, Mode, HelperInv, HelperActive
  <2>2. \A m \in Tokens \ {n} : Mode(m)' = Mode(m)
    BY <1>1 DEF Release, ReleaseShared, ReleaseExclusive, Mode
  <2>. QED BY <2>1, <2>2, DroppedOne
<1>2. CASE UseStep(n)
  <2>1. CASE UnpinWrite(n)
    <3>. HIDE DEF LeaseInv, LeaseTypeOK, At, Live, Goto
    <3>. QED BY <2>1, UnlinkMaps
  <2>2. CASE ~UnpinWrite(n)
    <3>1. \A m \in Tokens : Mode(m)' = Mode(m)
      BY <1>2, <2>2 DEF UseStep, UseBegin, PinHelper, ApproveHelper, UnpinRead, UseEnd, Mode
    <3>. QED BY <3>1, ModesStay
  <2>. QED BY <2>1, <2>2
<1>3. CASE HelperExit(n)
  <2>1. \A m \in Tokens \ {n} : Mode(m)' = Mode(m)
    BY <1>3 DEF HelperExit, Mode
  <2>2. Mode(n)' = Mode(n) \/ Mode(n)' = "none"
    BY <1>3 DEF HelperExit, Mode, HelperInv, HelperActive
  <2>3. CASE Mode(n)' = Mode(n)
    BY <2>1, <2>3, ModesStay
  <2>4. CASE Mode(n)' = "none"
    BY <2>1, <2>4, DroppedOne
  <2>. QED BY <2>2, <2>3, <2>4
<1>. QED BY <1>1, <1>2, <1>3

\* A crash drops the leases of its process whose helper does not run on.
LEMMA CrashMaps ==
  ASSUME LeaseInv, NEW p \in Procs, Crash(p)
  PROVE  Lock!Next \/ UNCHANGED modes
<1>. DEFINE S == {m \in Tokens : ProcOf[m] = p /\ helper[m] # "running"}
<1>1. \A m \in S : Mode(m)' = "none"
  BY DEF Crash, Mode, At, Live
<1>2. \A m \in Tokens \ S : Mode(m)' = Mode(m)
  BY DEF Crash, Mode, At, Live
<1>. HIDE DEF S
<1>3. S \in SUBSET Tokens
  BY DEF S
<1>. QED BY <1>1, <1>2, <1>3, Dropped

\* The file protocol implements the reader-writer lock.
THEOREM LeaseImplementsLock ==
  Spec => ImplementsLock
<1>1. Init => Lock!Init
  BY DEF Init, modes, Lock!Init, Mode, At
<1>2. LeaseInv /\ MutualExclusion' /\ [Next]_vars => [Lock!Next]_modes
  <2>. SUFFICES ASSUME LeaseInv, MutualExclusion', [Next]_vars
       PROVE  Lock!Next \/ UNCHANGED modes
    OBVIOUS
  <2>1. CASE UNCHANGED vars
    BY <2>1 DEF vars, modes, Mode, At, Live
  <2>2. ASSUME NEW n \in Tokens, NEW b \in Tokens \union {None},
               StartShared(n) \/ StartExclusive(n, b) \/ SharedStep(n) \/ GiveUp(n) \/ StartDowngrade(n, b)
        PROVE  Lock!Next \/ UNCHANGED modes
    BY <2>2, QuietSteps, RecheckMaps DEF SharedStep
  <2>3. ASSUME NEW n \in Tokens, ExclusiveStep(n) \/ RemoveStep(n) \/ DowngradeStep(n)
        PROVE  Lock!Next \/ UNCHANGED modes
    BY <2>3, QuietSteps, VerifyMaps, SwapMaps, UnlinkMaps DEF ExclusiveStep, RemoveStep, DowngradeStep
  <2>4. ASSUME NEW n \in Tokens, Release(n) \/ UseStep(n) \/ HelperExit(n)
        PROVE  Lock!Next \/ UNCHANGED modes
    BY <2>4, HolderMaps
  <2>5. ASSUME NEW p \in Procs, Crash(p)
        PROVE  Lock!Next \/ UNCHANGED modes
    BY <2>5, CrashMaps
  <2>. QED BY <2>1, <2>2, <2>3, <2>4, <2>5 DEF Next, Request
<1>. QED BY <1>1, <1>2, LeaseInvariant, LeaseMutualExclusion, PTL DEF Spec, ImplementsLock, Lock!Spec

-----------------------------------------------------------------------------
\* A live holder keeps its marker, and its intent until its helper has exited.
THEOREM LeaseNeverReclaimedLive ==
  Spec => NeverReclaimedLive
<1>. DEFINE Kept(n) ==
       /\ At(n, "shared") /\ n \in readers /\ n \notin readers' => pc'[n] = "done"
       /\ Live(n) /\ intentOwner = n /\ intentOwner' # n =>
            \/ \E m \in Tokens : lock = m /\ n \in {m, base[m]}
            \/ helper[n] = "gone"
            \/ intentOwner' \in evicted /\ pc[intentOwner'] = "unpinning"
<1>1. ASSUME LeaseInv, Next, NEW n \in Tokens PROVE Kept(n)
  <2>. USE <1>1, LeaseAssumption DEF LeaseInv, LeaseTypeOK, At, Live, Goto, TakeLock
  <2>1. ASSUME NEW q \in Tokens, NEW b \in Tokens \union {None},
               Request(q) \/ SharedStep(q) \/ GiveUp(q) \/ Release(q) \/ StartDowngrade(q, b)
        PROVE  Kept(n)
    BY <2>1 DEF Request, StartShared, StartExclusive, SharedStep, SharedProbe, SharedCheck, SharedOpen, SharedMark,
         SharedRecheck, SharedWithdraw, GiveUp, Release, ReleaseShared, ReleaseExclusive, StartDowngrade
  <2>2. ASSUME NEW q \in Tokens, ExclusiveStep(q)
        PROVE  Kept(n)
    BY <2>2 DEF ExclusiveStep, ExclusiveProbe, ExclusiveCreate, ExclusiveList, ExclusiveSweep, ExclusiveVerify,
         UpgradeSwap, Abandon
  <2>3. ASSUME NEW q \in Tokens, RemoveStep(q)
        PROVE  Kept(n)
    <3>1. CASE Unlink(q)
      BY <3>1 DEF Unlink, RemovalInv
    <3>2. CASE Rmdir(q)
      BY <3>2 DEF Rmdir, RemovalInv
    <3>3. CASE RmdirThrows(q)
      BY <3>3 DEF RmdirThrows
    <3>. QED BY <2>3, <3>1, <3>2, <3>3 DEF RemoveStep
  <2>4. ASSUME NEW q \in Tokens, DowngradeStep(q) \/ UseStep(q) \/ HelperExit(q)
        PROVE  Kept(n)
    <3>1. CASE UnpinWrite(q)
      <4>1. pc[q] = "unpinning" /\ Live(q) /\ readers' = readers
        BY <3>1 DEF UnpinWrite
      <4>2. intentOwner' = intentOwner \/ intentOwner' = q
        BY <3>1 DEF UnpinWrite
      <4>3. q \in evicted \/ intentOwner = q
        BY <4>1 DEF EvictedInv
      <4>. QED BY <4>1, <4>2, <4>3
    <3>2. CASE ~UnpinWrite(q)
      BY <2>4, <3>2 DEF DowngradeStep, DowngradeMark, DowngradeCheck, DowngradeRelease, DowngradeFail, UseStep, UseBegin,
           PinHelper, ApproveHelper, UnpinRead, UseEnd, HelperExit
    <3>. QED BY <3>1, <3>2
  <2>5. ASSUME NEW p \in Procs, Crash(p)
        PROVE  Kept(n)
    BY <2>5 DEF Crash
  <2>. QED BY <2>1, <2>2, <2>3, <2>4, <2>5 DEF Next
<1>2. LeaseInv /\ [Next]_vars => [\A n \in Tokens : Kept(n)]_vars
  BY <1>1
<1>. QED BY <1>2, LeaseInvariant, PTL DEF Spec, NeverReclaimedLive
=============================================================================
