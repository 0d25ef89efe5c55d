--------------------------- MODULE DaemonPauseProofs ---------------------------
(***************************************************************************)
(* The operation coordinator and the daemon paused on top of it, for any   *)
(* number of calls of each kind and any queue limit.  OpsInv is inductive  *)
(* for the coordinator, and the properties the runs check follow from it.  *)
(* Every step of the paused daemon is a step of the coordinator, so they   *)
(* hold there too; beyond them nothing touches the store while it is being *)
(* closed, and one read at a time uses the bounded one.                    *)
(***************************************************************************)
EXTENDS DaemonPause, OperationCoordinatorInv, FiniteSetTheorems, TLAPS

-----------------------------------------------------------------------------
(* The coordinator *)

\* Every step of runShared keeps the invariant.
LEMMA SharedSteps ==
  ASSUME OpsInv, NEW s \in Shared, SharedStep(s)
  PROVE  OpsInv'
<1>. USE OpsAssumption DEF OpsInv, OpsTypeOK, SeparateRoles, StateFollowsHolder, OptionsFollowHolder,
       DrainCovers, CloseCovers, ExclusiveRunsAlone, SealedMeansQuiet, Pending, Inside, Holder,
       Waiters, Running, Active, Held, Closing, Kinds, HoldPcs, PcKinds, Shared, Queueing, Exclusive, Calls
<1>1. CASE AdmitShared(s)
  <2>1. queueShared' \in BOOLEAN /\ readWindow' \in BOOLEAN
    BY <1>1 DEF AdmitShared, Admit, Admissible, InWindow
  <2>2. OpsTypeOK'
    BY <1>1, <2>1 DEF AdmitShared, Admit, Admissible, InWindow
  <2>3. SeparateRoles'
    BY <1>1 DEF AdmitShared, Admit, Admissible, InWindow
  <2>4. StateFollowsHolder'
    BY <1>1 DEF AdmitShared, Admit, Admissible, InWindow
  <2>5. OptionsFollowHolder'
    BY <1>1 DEF AdmitShared, Admit, Admissible, InWindow
  <2>6. DrainCovers' /\ CloseCovers'
    BY <1>1 DEF AdmitShared, Admit, Admissible, InWindow
  <2>7. ExclusiveRunsAlone' /\ SealedMeansQuiet'
    BY <1>1 DEF AdmitShared, Admit, Admissible, InWindow
  <2>. QED BY <2>2, <2>3, <2>4, <2>5, <2>6, <2>7
<1>2. CASE QueueCall(s)
  <2>1. queueShared' \in BOOLEAN /\ readWindow' \in BOOLEAN
    BY <1>2 DEF QueueCall, MustQueue
  <2>2. OpsTypeOK'
    BY <1>2, <2>1 DEF QueueCall, MustQueue
  <2>3. SeparateRoles'
    BY <1>2 DEF QueueCall, MustQueue
  <2>4. StateFollowsHolder'
    BY <1>2 DEF QueueCall, MustQueue
  <2>5. OptionsFollowHolder'
    BY <1>2 DEF QueueCall, MustQueue
  <2>6. DrainCovers' /\ CloseCovers'
    BY <1>2 DEF QueueCall, MustQueue
  <2>7. ExclusiveRunsAlone' /\ SealedMeansQuiet'
    BY <1>2 DEF QueueCall, MustQueue
  <2>. QED BY <2>2, <2>3, <2>4, <2>5, <2>6, <2>7
<1>3. CASE RefuseShared(s)
  <2>1. queueShared' \in BOOLEAN /\ readWindow' \in BOOLEAN
    BY <1>3 DEF RefuseShared, MustQueue, Admissible
  <2>2. OpsTypeOK'
    BY <1>3, <2>1 DEF RefuseShared, MustQueue, Admissible
  <2>3. SeparateRoles'
    BY <1>3 DEF RefuseShared, MustQueue, Admissible
  <2>4. StateFollowsHolder'
    BY <1>3 DEF RefuseShared, MustQueue, Admissible
  <2>5. OptionsFollowHolder'
    BY <1>3 DEF RefuseShared, MustQueue, Admissible
  <2>6. DrainCovers' /\ CloseCovers'
    BY <1>3 DEF RefuseShared, MustQueue, Admissible
  <2>7. ExclusiveRunsAlone' /\ SealedMeansQuiet'
    BY <1>3 DEF RefuseShared, MustQueue, Admissible
  <2>. QED BY <2>2, <2>3, <2>4, <2>5, <2>6, <2>7
<1>4. CASE AbortWaiter(s)
  <2>1. queueShared' \in BOOLEAN /\ readWindow' \in BOOLEAN
    BY <1>4 DEF AbortWaiter
  <2>2. OpsTypeOK'
    BY <1>4, <2>1 DEF AbortWaiter
  <2>3. SeparateRoles'
    BY <1>4 DEF AbortWaiter
  <2>4. StateFollowsHolder'
    BY <1>4 DEF AbortWaiter
  <2>5. OptionsFollowHolder'
    BY <1>4 DEF AbortWaiter
  <2>6. DrainCovers' /\ CloseCovers'
    BY <1>4 DEF AbortWaiter
  <2>7. ExclusiveRunsAlone' /\ SealedMeansQuiet'
    BY <1>4 DEF AbortWaiter
  <2>. QED BY <2>2, <2>3, <2>4, <2>5, <2>6, <2>7
<1>5. CASE SettleShared(s)
  <2>1. queueShared' \in BOOLEAN /\ readWindow' \in BOOLEAN
    BY <1>5 DEF SettleShared
  <2>2. OpsTypeOK'
    BY <1>5, <2>1 DEF SettleShared
  <2>3. SeparateRoles'
    BY <1>5 DEF SettleShared
  <2>4. StateFollowsHolder'
    BY <1>5 DEF SettleShared
  <2>5. OptionsFollowHolder'
    BY <1>5 DEF SettleShared
  <2>6. DrainCovers' /\ CloseCovers'
    BY <1>5 DEF SettleShared
  <2>7. ExclusiveRunsAlone' /\ SealedMeansQuiet'
    BY <1>5 DEF SettleShared
  <2>. QED BY <2>2, <2>3, <2>4, <2>5, <2>6, <2>7
<1>. QED BY <1>1, <1>2, <1>3, <1>4, <1>5 DEF SharedStep

\* The flags an exclusive call sets are Booleans.
LEMMA WindowFlags ==
  ASSUME queueShared \in BOOLEAN, readWindow \in BOOLEAN, NEW x \in Exclusive, StartExclusive(x)
  PROVE  queueShared' \in BOOLEAN /\ readWindow' \in BOOLEAN
<1>1. CASE state = "open"
  <2>1. queueShared' = (x \in Queueing) /\ readWindow' = (x \in Queueing)
    BY <1>1, Zenon DEF StartExclusive
  <2>2. CASE x \in Queueing
    BY <2>1, <2>2
  <2>3. CASE x \notin Queueing
    BY <2>1, <2>3
  <2>. QED BY <2>2, <2>3
<1>2. CASE state # "open"
  BY <1>2, Zenon DEF StartExclusive
<1>. QED BY <1>1, <1>2

\* Every step of runExclusive and of its read windows keeps the invariant.
LEMMA ExclusiveSteps ==
  ASSUME OpsInv, NEW x \in Exclusive, ExclusiveStep(x)
  PROVE  OpsInv'
<1>. USE OpsAssumption DEF OpsInv, OpsTypeOK, SeparateRoles, StateFollowsHolder, OptionsFollowHolder,
       DrainCovers, CloseCovers, ExclusiveRunsAlone, SealedMeansQuiet, Pending, Inside, Holder,
       Waiters, Running, Active, Held, Closing, Kinds, HoldPcs, PcKinds, Shared, Queueing, Exclusive, Calls
<1>1. CASE StartExclusive(x)
  <2>1. queueShared' \in BOOLEAN /\ readWindow' \in BOOLEAN
    BY <1>1, WindowFlags
  <2>2. OpsTypeOK'
    BY <1>1, <2>1 DEF StartExclusive
  <2>3. SeparateRoles'
    BY <1>1 DEF StartExclusive
  <2>4. StateFollowsHolder'
    BY <1>1 DEF StartExclusive
  <2>5. OptionsFollowHolder'
    BY <1>1 DEF StartExclusive
  <2>6. DrainCovers' /\ CloseCovers'
    BY <1>1 DEF StartExclusive
  <2>7. ExclusiveRunsAlone' /\ SealedMeansQuiet'
    BY <1>1 DEF StartExclusive
  <2>. QED BY <2>2, <2>3, <2>4, <2>5, <2>6, <2>7
<1>2. CASE Quiesced(x)
  <2>1. queueShared' \in BOOLEAN /\ readWindow' \in BOOLEAN
    BY <1>2 DEF Quiesced
  <2>2. OpsTypeOK'
    BY <1>2, <2>1 DEF Quiesced
  <2>3. SeparateRoles'
    BY <1>2 DEF Quiesced
  <2>4. StateFollowsHolder'
    BY <1>2 DEF Quiesced
  <2>5. OptionsFollowHolder'
    BY <1>2 DEF Quiesced
  <2>6. DrainCovers' /\ CloseCovers'
    BY <1>2 DEF Quiesced
  <2>7. ExclusiveRunsAlone' /\ SealedMeansQuiet'
    BY <1>2 DEF Quiesced
  <2>. QED BY <2>2, <2>3, <2>4, <2>5, <2>6, <2>7
<1>3. CASE QuiesceFails(x)
  <2>1. queueShared' \in BOOLEAN /\ readWindow' \in BOOLEAN
    BY <1>3 DEF QuiesceFails, Finish
  <2>2. OpsTypeOK'
    BY <1>3, <2>1 DEF QuiesceFails, Finish
  <2>3. SeparateRoles'
    BY <1>3 DEF QuiesceFails, Finish
  <2>4. StateFollowsHolder'
    BY <1>3 DEF QuiesceFails, Finish
  <2>5. OptionsFollowHolder'
    BY <1>3 DEF QuiesceFails, Finish
  <2>6. DrainCovers' /\ CloseCovers'
    BY <1>3 DEF QuiesceFails, Finish
  <2>7. ExclusiveRunsAlone' /\ SealedMeansQuiet'
    BY <1>3 DEF QuiesceFails, Finish
  <2>. QED BY <2>2, <2>3, <2>4, <2>5, <2>6, <2>7
<1>4. CASE DrainDone(x)
  <2>1. queueShared' \in BOOLEAN /\ readWindow' \in BOOLEAN
    BY <1>4 DEF DrainDone, Finish, Drained
  <2>2. OpsTypeOK'
    BY <1>4, <2>1 DEF DrainDone, Finish, Drained
  <2>3. SeparateRoles'
    BY <1>4 DEF DrainDone, Finish, Drained
  <2>4. StateFollowsHolder'
    BY <1>4 DEF DrainDone, Finish, Drained
  <2>5. OptionsFollowHolder'
    BY <1>4 DEF DrainDone, Finish, Drained
  <2>6. DrainCovers' /\ CloseCovers'
    BY <1>4 DEF DrainDone, Finish, Drained
  <2>7. ExclusiveRunsAlone' /\ SealedMeansQuiet'
    BY <1>4 DEF DrainDone, Finish, Drained
  <2>. QED BY <2>2, <2>3, <2>4, <2>5, <2>6, <2>7
<1>5. CASE DrainTimeout(x)
  <2>1. queueShared' \in BOOLEAN /\ readWindow' \in BOOLEAN
    BY <1>5 DEF DrainTimeout, Finish, Drained
  <2>2. OpsTypeOK'
    BY <1>5, <2>1 DEF DrainTimeout, Finish, Drained
  <2>3. SeparateRoles'
    BY <1>5 DEF DrainTimeout, Finish, Drained
  <2>4. StateFollowsHolder'
    BY <1>5 DEF DrainTimeout, Finish, Drained
  <2>5. OptionsFollowHolder'
    BY <1>5 DEF DrainTimeout, Finish, Drained
  <2>6. DrainCovers' /\ CloseCovers'
    BY <1>5 DEF DrainTimeout, Finish, Drained
  <2>7. ExclusiveRunsAlone' /\ SealedMeansQuiet'
    BY <1>5 DEF DrainTimeout, Finish, Drained
  <2>. QED BY <2>2, <2>3, <2>4, <2>5, <2>6, <2>7
<1>6. CASE OpenWindow(x)
  <2>1. queueShared' \in BOOLEAN /\ readWindow' \in BOOLEAN
    BY <1>6 DEF OpenWindow, Admit
  <2>2. OpsTypeOK'
    BY <1>6, <2>1 DEF OpenWindow, Admit
  <2>3. SeparateRoles'
    BY <1>6 DEF OpenWindow, Admit
  <2>4. StateFollowsHolder'
    BY <1>6 DEF OpenWindow, Admit
  <2>5. OptionsFollowHolder'
    BY <1>6 DEF OpenWindow, Admit
  <2>6. DrainCovers' /\ CloseCovers'
    BY <1>6 DEF OpenWindow, Admit
  <2>7. ExclusiveRunsAlone' /\ SealedMeansQuiet'
    BY <1>6 DEF OpenWindow, Admit
  <2>. QED BY <2>2, <2>3, <2>4, <2>5, <2>6, <2>7
<1>7. CASE SealWindow(x)
  <2>1. queueShared' \in BOOLEAN /\ readWindow' \in BOOLEAN
    BY <1>7 DEF SealWindow
  <2>2. OpsTypeOK'
    BY <1>7, <2>1 DEF SealWindow
  <2>3. SeparateRoles'
    BY <1>7 DEF SealWindow
  <2>4. StateFollowsHolder'
    BY <1>7 DEF SealWindow
  <2>5. OptionsFollowHolder'
    BY <1>7 DEF SealWindow
  <2>6. DrainCovers' /\ CloseCovers'
    BY <1>7 DEF SealWindow
  <2>7. ExclusiveRunsAlone' /\ SealedMeansQuiet'
    BY <1>7 DEF SealWindow
  <2>. QED BY <2>2, <2>3, <2>4, <2>5, <2>6, <2>7
<1>8. CASE Sealed(x)
  <2>1. queueShared' \in BOOLEAN /\ readWindow' \in BOOLEAN
    BY <1>8 DEF Sealed, Drained
  <2>2. OpsTypeOK'
    BY <1>8, <2>1 DEF Sealed, Drained
  <2>3. SeparateRoles'
    BY <1>8 DEF Sealed, Drained
  <2>4. StateFollowsHolder'
    BY <1>8 DEF Sealed, Drained
  <2>5. OptionsFollowHolder'
    BY <1>8 DEF Sealed, Drained
  <2>6. DrainCovers' /\ CloseCovers'
    BY <1>8 DEF Sealed, Drained
  <2>7. ExclusiveRunsAlone' /\ SealedMeansQuiet'
    BY <1>8 DEF Sealed, Drained
  <2>. QED BY <2>2, <2>3, <2>4, <2>5, <2>6, <2>7
<1>9. CASE SealTimeout(x)
  <2>1. queueShared' \in BOOLEAN /\ readWindow' \in BOOLEAN
    BY <1>9 DEF SealTimeout, Finish, Drained
  <2>2. OpsTypeOK'
    BY <1>9, <2>1 DEF SealTimeout, Finish, Drained
  <2>3. SeparateRoles'
    BY <1>9 DEF SealTimeout, Finish, Drained
  <2>4. StateFollowsHolder'
    BY <1>9 DEF SealTimeout, Finish, Drained
  <2>5. OptionsFollowHolder'
    BY <1>9 DEF SealTimeout, Finish, Drained
  <2>6. DrainCovers' /\ CloseCovers'
    BY <1>9 DEF SealTimeout, Finish, Drained
  <2>7. ExclusiveRunsAlone' /\ SealedMeansQuiet'
    BY <1>9 DEF SealTimeout, Finish, Drained
  <2>. QED BY <2>2, <2>3, <2>4, <2>5, <2>6, <2>7
<1>10. CASE SettleExclusive(x)
  <2>1. queueShared' \in BOOLEAN /\ readWindow' \in BOOLEAN
    BY <1>10 DEF SettleExclusive, Finish
  <2>2. OpsTypeOK'
    BY <1>10, <2>1 DEF SettleExclusive, Finish
  <2>3. SeparateRoles'
    BY <1>10 DEF SettleExclusive, Finish
  <2>4. StateFollowsHolder'
    BY <1>10 DEF SettleExclusive, Finish
  <2>5. OptionsFollowHolder'
    BY <1>10 DEF SettleExclusive, Finish
  <2>6. DrainCovers' /\ CloseCovers'
    BY <1>10 DEF SettleExclusive, Finish
  <2>7. ExclusiveRunsAlone' /\ SealedMeansQuiet'
    BY <1>10 DEF SettleExclusive, Finish
  <2>. QED BY <2>2, <2>3, <2>4, <2>5, <2>6, <2>7
<1>11. CASE Deadline(x)
  <2>1. queueShared' \in BOOLEAN /\ readWindow' \in BOOLEAN
    BY <1>11 DEF Deadline
  <2>2. OpsTypeOK'
    BY <1>11, <2>1 DEF Deadline
  <2>3. SeparateRoles'
    BY <1>11 DEF Deadline
  <2>4. StateFollowsHolder'
    BY <1>11 DEF Deadline
  <2>5. OptionsFollowHolder'
    BY <1>11 DEF Deadline
  <2>6. DrainCovers' /\ CloseCovers'
    BY <1>11 DEF Deadline
  <2>7. ExclusiveRunsAlone' /\ SealedMeansQuiet'
    BY <1>11 DEF Deadline
  <2>. QED BY <2>2, <2>3, <2>4, <2>5, <2>6, <2>7
<1>. QED BY <1>1, <1>2, <1>3, <1>4, <1>5, <1>6, <1>7, <1>8, <1>9, <1>10, <1>11 DEF ExclusiveStep

\* abortAndDrain and close keep the invariant.
LEMMA CloseSteps ==
  ASSUME OpsInv, AbortAll \/ Close \/ Closed
  PROVE  OpsInv'
<1>. USE OpsAssumption DEF OpsInv, OpsTypeOK, SeparateRoles, StateFollowsHolder, OptionsFollowHolder,
       DrainCovers, CloseCovers, ExclusiveRunsAlone, SealedMeansQuiet, Pending, Inside, Holder,
       Waiters, Running, Active, Held, Closing, Kinds, HoldPcs, PcKinds, Shared, Queueing, Exclusive, Calls
<1>1. CASE AbortAll
  <2>1. queueShared' \in BOOLEAN /\ readWindow' \in BOOLEAN
    BY <1>1 DEF AbortAll
  <2>2. OpsTypeOK'
    BY <1>1, <2>1 DEF AbortAll
  <2>3. SeparateRoles'
    BY <1>1 DEF AbortAll
  <2>4. StateFollowsHolder'
    BY <1>1 DEF AbortAll
  <2>5. OptionsFollowHolder'
    BY <1>1 DEF AbortAll
  <2>6. DrainCovers' /\ CloseCovers'
    BY <1>1 DEF AbortAll
  <2>7. ExclusiveRunsAlone' /\ SealedMeansQuiet'
    BY <1>1 DEF AbortAll
  <2>. QED BY <2>2, <2>3, <2>4, <2>5, <2>6, <2>7
<1>2. CASE Close
  <2>1. queueShared' \in BOOLEAN /\ readWindow' \in BOOLEAN
    BY <1>2 DEF Close
  <2>2. OpsTypeOK'
    BY <1>2, <2>1 DEF Close
  <2>3. SeparateRoles'
    BY <1>2 DEF Close
  <2>4. StateFollowsHolder'
    BY <1>2 DEF Close
  <2>5. OptionsFollowHolder'
    BY <1>2 DEF Close
  <2>6. DrainCovers' /\ CloseCovers'
    BY <1>2 DEF Close
  <2>7. ExclusiveRunsAlone' /\ SealedMeansQuiet'
    BY <1>2 DEF Close
  <2>. QED BY <2>2, <2>3, <2>4, <2>5, <2>6, <2>7
<1>3. CASE Closed
  <2>1. queueShared' \in BOOLEAN /\ readWindow' \in BOOLEAN
    BY <1>3 DEF Closed
  <2>2. OpsTypeOK'
    BY <1>3, <2>1 DEF Closed
  <2>3. SeparateRoles'
    BY <1>3 DEF Closed
  <2>4. StateFollowsHolder'
    BY <1>3 DEF Closed
  <2>5. OptionsFollowHolder'
    BY <1>3 DEF Closed
  <2>6. DrainCovers' /\ CloseCovers'
    BY <1>3 DEF Closed
  <2>7. ExclusiveRunsAlone' /\ SealedMeansQuiet'
    BY <1>3 DEF Closed
  <2>. QED BY <2>2, <2>3, <2>4, <2>5, <2>6, <2>7
<1>. QED BY <1>1, <1>2, <1>3

\* OpsInv holds of every reachable state of the coordinator.
THEOREM OpsInvariant == OpsSpec => []OpsInv
<1>1. OpsInit => OpsInv
  BY OpsAssumption DEF OpsInit, OpsInv, OpsTypeOK, SeparateRoles, StateFollowsHolder, OptionsFollowHolder,
       DrainCovers, CloseCovers, ExclusiveRunsAlone, SealedMeansQuiet, Pending, Inside, Holder,
       Waiters, Running, Active, Held, Closing, Kinds, HoldPcs, PcKinds, Shared, Queueing, Exclusive, Calls
<1>2. OpsInv /\ [OpsNext]_opsVars => OpsInv'
  <2>. SUFFICES ASSUME OpsInv, [OpsNext]_opsVars PROVE OpsInv'
    OBVIOUS
  <2>1. CASE OpsNext
    BY <2>1, SharedSteps, ExclusiveSteps, CloseSteps DEF OpsNext
  <2>2. CASE UNCHANGED opsVars
    BY <2>2 DEF opsVars, OpsInv, OpsTypeOK, SeparateRoles, StateFollowsHolder, OptionsFollowHolder,
       DrainCovers, CloseCovers, ExclusiveRunsAlone, SealedMeansQuiet, Pending, Inside, Holder,
       Waiters, Running, Active, Held, Closing
  <2>. QED BY <2>1, <2>2
<1>. QED BY <1>1, <1>2, PTL DEF OpsSpec

\* The callback of an exclusive call overlaps no shared call except reads its
\* own window admitted.
THEOREM OpsExclusion == OpsSpec => []ExclusiveRunsAlone
<1>1. OpsInv => ExclusiveRunsAlone
  BY DEF OpsInv
<1>. QED BY <1>1, OpsInvariant, PTL

\* With no window open, no read overlaps the callback either.
THEOREM OpsSealed == OpsSpec => []SealedMeansQuiet
<1>1. OpsInv => SealedMeansQuiet
  BY DEF OpsInv
<1>. QED BY <1>1, OpsInvariant, PTL

\* Every queued call has an exclusive call in progress that will resume it.
THEOREM OpsNoOrphan == OpsSpec => []NoOrphanedWaiter
<1>1. OpsInv => NoOrphanedWaiter
  BY OpsAssumption DEF OpsInv, OptionsFollowHolder, NoOrphanedWaiter, Holder
<1>. QED BY <1>1, OpsInvariant, PTL

\* After close resolved nothing runs and nothing waits.
THEOREM OpsClosedIsQuiet == OpsSpec => []ClosedIsQuiet
<1>1. OpsInv => ClosedIsQuiet
  BY DEF OpsInv, CloseCovers, OptionsFollowHolder, ClosedIsQuiet, Held
<1>. QED BY <1>1, OpsInvariant, PTL

\* No exclusive call starts its callback after its abort or after close began.
THEOREM OpsAbortedNeverStarts == OpsSpec => AbortedNeverStarts
<1>. DEFINE Starts(x) == pc[x] # "exclusive" /\ pc[x] # "sealing" /\ pc'[x] = "exclusive"
<1>1. ASSUME OpsTypeOK, OpsNext, NEW y \in Exclusive, Starts(y)
      PROVE  y \notin aborted /\ ~Closing
  <2>. USE <1>1, OpsAssumption DEF OpsTypeOK, Calls, Exclusive, HoldPcs, PcKinds
  <2>1. ASSUME NEW s \in Shared, SharedStep(s) PROVE FALSE
    BY <2>1 DEF SharedStep, AdmitShared, Admit, QueueCall, RefuseShared, AbortWaiter, SettleShared
  <2>2. ASSUME NEW x \in Exclusive, ExclusiveStep(x) PROVE y \notin aborted /\ ~Closing
    <3>1. CASE DrainDone(x)
      BY <3>1 DEF DrainDone, Finish
    <3>2. CASE Sealed(x)
      BY <3>2 DEF Sealed
    <3>3. CASE OpenWindow(x) \/ SealWindow(x) \/ Deadline(x) \/ Quiesced(x) \/ StartExclusive(x)
      BY <3>3 DEF OpenWindow, Admit, SealWindow, Deadline, Quiesced, StartExclusive
    <3>4. CASE QuiesceFails(x) \/ DrainTimeout(x) \/ SealTimeout(x) \/ SettleExclusive(x)
      BY <3>4 DEF QuiesceFails, DrainTimeout, SealTimeout, SettleExclusive, Finish
    <3>. QED BY <2>2, <3>1, <3>2, <3>3, <3>4 DEF ExclusiveStep
  <2>3. ASSUME AbortAll \/ Close \/ Closed PROVE FALSE
    BY <2>3 DEF AbortAll, Close, Closed
  <2>. QED BY <2>1, <2>2, <2>3 DEF OpsNext
<1>2. OpsInv /\ [OpsNext]_opsVars
        => [\A x \in Exclusive : Starts(x) => x \notin aborted /\ ~Closing]_opsVars
  BY <1>1 DEF OpsInv
<1>. QED BY <1>2, OpsInvariant, PTL DEF OpsSpec, AbortedNeverStarts

-----------------------------------------------------------------------------
(* The pause *)

\* The gate is held by a call that runs, and calls queue at it while they run.
GateShape ==
  /\ phase \in {"none", "draining", "closing", "ready", "failed"}
  /\ paused = (phase # "none")
  /\ gate \in Calls \union {NoCall}
  /\ step \in [Calls -> {"none", "exec", "refused", "queued", "await"}]
  /\ gate # NoCall => pc[gate] = "running" /\ step[gate] # "queued"
  /\ \A c \in Calls : step[c] = "await" => gate = c
  /\ \A c \in Calls : step[c] = "queued" => pc[c] = "running"

\* Who may have its hands on the store, in each phase of the pause: the calls the
\* drain waits for, then nobody, then the holder of the gate.
StoreUse ==
  /\ phase = "draining" => Executing \subseteq pauseWait
  /\ phase = "closing" => Executing = {}
  /\ phase = "ready" => Executing \subseteq {gate}

\* The inductive invariant, relative to that of the coordinator.
PauseInv == GateShape /\ StoreUse

\* Apart from settling, closing and the gate, a step of the daemon is a step of
\* the coordinator that ends no shared call; what it admits enters.
LEMMA CoordinateEffect ==
  ASSUME OpsTypeOK, Coordinate
  PROVE  /\ OpsNext
         /\ \A c \in Calls : pc[c] = "running" => pc'[c] = "running"
         /\ \A c \in Calls : c \in Active' => c \in Active \/ c \in Entering
<1>. USE DEF OpsTypeOK, Calls
<1>1. ASSUME NEW s \in Shared, AdmitShared(s) \/ QueueCall(s) \/ RefuseShared(s) \/ AbortWaiter(s)
      PROVE  /\ OpsNext
             /\ \A c \in Calls : pc[c] = "running" => pc'[c] = "running"
             /\ \A c \in Calls : c \in Active' => c \in Active \/ c \in Entering
  <2>1. OpsNext
    BY <1>1 DEF OpsNext, SharedStep
  <2>2. \A c \in Calls : pc[c] = "running" => pc'[c] = "running"
    BY <1>1 DEF AdmitShared, Admit, QueueCall, RefuseShared, AbortWaiter
  <2>3. \A c \in Calls : c \in Active' => c \in Active \/ c \in Entering
    BY <1>1 DEF AdmitShared, Admit, QueueCall, RefuseShared, AbortWaiter, Active, Running, Entering, HoldPcs
  <2>. QED BY <2>1, <2>2, <2>3
<1>2. ASSUME NEW x \in Exclusive,
             \/ StartExclusive(x) \/ QuiesceFails(x) \/ DrainDone(x) \/ DrainTimeout(x)
             \/ OpenWindow(x) \/ SealWindow(x) \/ Sealed(x) \/ SealTimeout(x)
             \/ SettleExclusive(x) \/ Deadline(x) \/ Quiesced(x)
      PROVE  /\ OpsNext
             /\ \A c \in Calls : pc[c] = "running" => pc'[c] = "running"
             /\ \A c \in Calls : c \in Active' => c \in Active \/ c \in Entering
  <2>1. OpsNext
    BY <1>2 DEF OpsNext, ExclusiveStep
  <2>2. \A c \in Calls : pc[c] = "running" => pc'[c] = "running"
    BY <1>2 DEF StartExclusive, QuiesceFails, DrainDone, DrainTimeout, OpenWindow, Admit, SealWindow, Sealed,
         SealTimeout, SettleExclusive, Deadline, Quiesced, Finish, Waiters, HoldPcs
  <2>3. \A c \in Calls : c \in Active' => c \in Active \/ c \in Entering
    BY <1>2 DEF StartExclusive, QuiesceFails, DrainDone, DrainTimeout, OpenWindow, Admit, SealWindow, Sealed,
         SealTimeout, SettleExclusive, Deadline, Quiesced, Finish, Waiters, HoldPcs, Active, Running, Entering
  <2>. QED BY <2>1, <2>2, <2>3
<1>3. CASE Closed
  BY <1>3 DEF Closed, OpsNext, Active, Running, Entering
<1>. QED BY <1>1, <1>2, <1>3 DEF Coordinate

\* Every step of the paused daemon is a step of the coordinator or leaves it alone.
LEMMA PauseStepIsOpsStep ==
  ASSUME OpsTypeOK, [PauseNext]_daemonVars
  PROVE  [OpsNext]_opsVars
<1>1. CASE Coordinate
  BY <1>1, CoordinateEffect
<1>2. ASSUME NEW s \in Shared, SettleCallback(s)
      PROVE  OpsNext
  BY <1>2 DEF SettleCallback, OpsNext, SharedStep
<1>3. CASE CloseOperations \/ PauseWork
  BY <1>3 DEF CloseOperations, PauseWork, OpsNext
<1>4. CASE PauseDrained \/ PauseSettles
  BY <1>4 DEF PauseDrained, PauseSettles
<1>5. ASSUME NEW c \in Calls, GateTake(c) \/ GateAbort(c) \/ AwaitPause(c) \/ AwaitTimeout(c)
      PROVE  UNCHANGED opsVars
  BY <1>5 DEF GateTake, GateAbort, AwaitPause, AwaitTimeout
<1>6. CASE UNCHANGED daemonVars
  BY <1>6 DEF daemonVars
<1>. QED BY <1>1, <1>2, <1>3, <1>4, <1>5, <1>6 DEF PauseNext

\* The invariant of the coordinator holds in the paused daemon as well.
THEOREM PauseKeepsOpsInv == PauseSpec => []OpsInv
<1>1. PauseInit => OpsInv
  BY OpsAssumption DEF PauseInit, OpsInit, OpsInv, OpsTypeOK, SeparateRoles, StateFollowsHolder, OptionsFollowHolder,
       DrainCovers, CloseCovers, ExclusiveRunsAlone, SealedMeansQuiet, Pending, Inside, Holder,
       Waiters, Running, Active, Held, Closing, Kinds, HoldPcs, PcKinds, Shared, Queueing, Exclusive, Calls
<1>2. OpsInv /\ [OpsNext]_opsVars => OpsInv'
  <2>. SUFFICES ASSUME OpsInv, [OpsNext]_opsVars PROVE OpsInv'
    OBVIOUS
  <2>1. CASE OpsNext
    BY <2>1, SharedSteps, ExclusiveSteps, CloseSteps DEF OpsNext
  <2>2. CASE UNCHANGED opsVars
    BY <2>2 DEF opsVars, OpsInv, OpsTypeOK, SeparateRoles, StateFollowsHolder, OptionsFollowHolder,
       DrainCovers, CloseCovers, ExclusiveRunsAlone, SealedMeansQuiet, Pending, Inside, Holder,
       Waiters, Running, Active, Held, Closing
  <2>. QED BY <2>1, <2>2
<1>3. OpsInv /\ [PauseNext]_daemonVars => [OpsNext]_opsVars
  BY PauseStepIsOpsStep DEF OpsInv
<1>. QED BY <1>1, <1>2, <1>3, PTL DEF PauseSpec

\* The paused daemon implements the operation coordinator.
THEOREM PauseImplementsOps == PauseSpec => OpsSpec
<1>1. PauseInit => OpsInit
  BY DEF PauseInit
<1>2. OpsInv /\ [PauseNext]_daemonVars => [OpsNext]_opsVars
  BY PauseStepIsOpsStep DEF OpsInv
<1>. QED BY <1>1, <1>2, PauseKeepsOpsInv, PTL DEF PauseSpec, OpsSpec

\* What an admitted callback does at once; in paused service it never executes.
LEMMA BodyEffect ==
  ASSUME GateShape, SeparateRoles', PauseAssumption, Body,
         NEW c \in Calls
  PROVE  /\ c \notin Entering => step'[c] = step[c]
         /\ c \in Entering => step'[c] \in {"exec", "refused", "queued"}
         /\ c \in Entering /\ paused => step'[c] # "exec"
         /\ c \in Entering /\ step'[c] = "queued" => pc'[c] = "running"
         /\ step' \in [Calls -> {"none", "exec", "refused", "queued", "await"}]
<1>1. PICK Q \in SUBSET (Entering \intersect PausedReads) :
        step' = [d \in Calls |-> IF d \notin Entering THEN step[d]
                                 ELSE IF ~paused THEN "exec"
                                 ELSE IF d \in Q THEN "queued" ELSE "refused"]
  BY DEF Body
<1>2. c \in Entering /\ step'[c] = "queued" => c \in Shared /\ pc'[c] \in {"running", "quiescing"}
  BY <1>1, PauseAssumption DEF Entering, Shared
<1>3. c \in Shared => pc'[c] # "quiescing"
  BY DEF SeparateRoles, HoldPcs
<1>. QED BY <1>1, <1>2, <1>3 DEF GateShape

\* A step of the coordinator keeps the invariant.
LEMMA CoordinateKeeps ==
  ASSUME OpsInv, OpsInv', PauseInv, Coordinate
  PROVE  PauseInv'
<1>. USE DEF PauseInv
<1>0. OpsTypeOK /\ SeparateRoles' /\ PauseAssumption
  BY PauseAssumption DEF OpsInv
<1>1. /\ Body
      /\ paused' = paused /\ phase' = phase /\ pauseWait' = pauseWait /\ gate' = gate
  BY DEF Coordinate
<1>2. /\ \A c \in Calls : pc[c] = "running" => pc'[c] = "running"
      /\ \A c \in Calls : c \in Active' => c \in Active \/ c \in Entering
  BY <1>0, CoordinateEffect
<1>3. \A c \in Calls :
         /\ c \notin Entering => step'[c] = step[c]
         /\ c \in Entering => step'[c] \in {"exec", "refused", "queued"}
         /\ c \in Entering /\ paused => step'[c] # "exec"
         /\ c \in Entering /\ step'[c] = "queued" => pc'[c] = "running"
         /\ step' \in [Calls -> {"none", "exec", "refused", "queued", "await"}]
  BY <1>0, <1>1, BodyEffect
<1>4. \A c \in Calls : pc[c] = "running" => c \notin Entering
  BY <1>2 DEF Entering
<1>5. step' \in [Calls -> {"none", "exec", "refused", "queued", "await"}]
  BY <1>0, <1>1, <1>3 DEF Body
<1>6. GateShape'
  <2>1. gate # NoCall => gate \in Calls
    BY DEF GateShape
  <2>. QED BY <1>1, <1>2, <1>3, <1>4, <1>5, <2>1 DEF GateShape
<1>7. paused => Executing' \subseteq Executing
  BY <1>2, <1>3 DEF Executing, Active, Running
<1>8. StoreUse'
  BY <1>1, <1>7 DEF StoreUse, GateShape
<1>. QED BY <1>6, <1>8

\* A callback that settles is done with the store, and gives up the gate.
LEMMA SettleKeeps ==
  ASSUME OpsInv, PauseInv, NEW s \in Shared, SettleCallback(s)
  PROVE  PauseInv'
<1>. USE DEF PauseInv, SettleCallback, SettleShared, OpsInv, OpsTypeOK
<1>1. GateShape'
  BY PauseAssumption DEF GateShape, Calls
<1>2. Executing' \subseteq Executing \ {s}
  BY DEF Executing, Active, Running, HoldPcs, Calls
<1>3. StoreUse'
  BY <1>2 DEF StoreUse
<1>. QED BY <1>1, <1>3

\* Closing and pausing start nothing.
LEMMA CloseAndPauseKeep ==
  ASSUME OpsInv, PauseInv, CloseOperations \/ PauseWork
  PROVE  PauseInv'
<1>. USE DEF PauseInv, OpsInv, OpsTypeOK
<1>1. CASE CloseOperations
  <2>. USE <1>1 DEF CloseOperations, Close
  <2>1. GateShape'
    BY DEF GateShape
  <2>2. Executing' \subseteq Executing
    BY DEF GateShape, Executing, Active, Running, HoldPcs
  <2>. QED BY <2>1, <2>2 DEF StoreUse
<1>2. CASE PauseWork
  <2>. USE <1>2 DEF PauseWork, AbortAll
  <2>1. GateShape'
    BY DEF GateShape
  <2>2. Executing' \subseteq Active
    BY DEF Executing, Active, Running
  <2>. QED BY <2>1, <2>2 DEF StoreUse
<1>. QED BY <1>1, <1>2

\* The transition ends when nobody uses the store.
LEMMA TransitionKeeps ==
  ASSUME OpsInv, PauseInv, PauseDrained \/ PauseSettles
  PROVE  PauseInv'
<1>. USE DEF PauseInv, PauseDrained, PauseSettles, opsVars
<1>1. GateShape'
  BY DEF GateShape
<1>2. Executing' = Executing
  BY DEF Executing, Active, Running
<1>3. StoreUse'
  BY <1>2 DEF StoreUse, Executing
<1>. QED BY <1>1, <1>3

\* The gate passes one call, and only when the transition is over.
LEMMA GateKeeps ==
  ASSUME OpsInv, PauseInv, NEW c \in Calls,
         GateTake(c) \/ GateAbort(c) \/ AwaitPause(c) \/ AwaitTimeout(c)
  PROVE  PauseInv'
<1>. USE PauseAssumption DEF PauseInv, GateTake, GateAbort, AwaitPause, AwaitTimeout, opsVars
<1>1. GateShape'
  BY DEF GateShape
<1>2. Executing' \subseteq Executing \union {c}
  BY DEF Executing, Active, Running, GateShape
<1>3. CASE AwaitPause(c)
  <2>1. gate = c /\ gate' = c /\ phase' = phase /\ phase \in {"ready", "failed"}
    BY <1>3 DEF GateShape
  <2>. QED BY <1>1, <1>2, <2>1 DEF StoreUse
<1>4. CASE GateTake(c) \/ GateAbort(c) \/ AwaitTimeout(c)
  <2>1. Executing' \subseteq Executing /\ phase' = phase /\ pauseWait' = pauseWait
    BY <1>4 DEF Executing, Active, Running, GateShape
  <2>2. gate' = gate \/ gate = NoCall
    BY <1>4
  <2>3. NoCall \notin Executing
    BY DEF Executing, Active, Running
  <2>. QED BY <1>1, <2>1, <2>2, <2>3 DEF StoreUse
<1>. QED BY <1>3, <1>4

\* The invariant holds of every reachable state of the paused daemon.
THEOREM PauseInvariant == PauseSpec => []PauseInv
<1>1. PauseInit => PauseInv
  BY DEF PauseInit, PauseInv, GateShape, StoreUse
<1>2. OpsInv /\ OpsInv' /\ PauseInv /\ [PauseNext]_daemonVars => PauseInv'
  <2>. SUFFICES ASSUME OpsInv, OpsInv', PauseInv, [PauseNext]_daemonVars PROVE PauseInv'
    OBVIOUS
  <2>1. CASE PauseNext
    BY <2>1, CoordinateKeeps, SettleKeeps, CloseAndPauseKeep, TransitionKeeps, GateKeeps DEF PauseNext
  <2>2. CASE UNCHANGED daemonVars
    BY <2>2 DEF daemonVars, opsVars, pauseVars, PauseInv, GateShape, StoreUse, Executing, Active, Running
  <2>. QED BY <2>1, <2>2
<1>. QED BY <1>1, <1>2, PauseKeepsOpsInv, PTL DEF PauseSpec

\* While the transition closes the full store nothing executes.
THEOREM PauseQuietWhileClosing == PauseSpec => []QuietWhileClosing
<1>1. PauseInv => QuietWhileClosing
  BY DEF PauseInv, StoreUse, QuietWhileClosing
<1>. QED BY <1>1, PauseInvariant, PTL

\* The bounded reader serves one call at a time.
THEOREM PauseOneBoundedRead == PauseSpec => []OneBoundedRead
<1>1. PauseInv => OneBoundedRead
  <2>. SUFFICES ASSUME PauseInv, phase = "ready" PROVE Cardinality(Executing) <= 1
    BY DEF OneBoundedRead
  <2>1. Executing = {} \/ Executing = {gate}
    BY DEF PauseInv, StoreUse
  <2>2. Cardinality({}) = 0 /\ Cardinality({gate}) = 1
    BY FS_EmptySet, FS_Singleton
  <2>. QED BY <2>1, <2>2
<1>. QED BY <1>1, PauseInvariant, PTL
=============================================================================
