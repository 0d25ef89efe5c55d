----------------------------- MODULE WatchProofs -----------------------------
(***************************************************************************)
(* The watched projects, for any number of holders, requests, errors and   *)
(* exclusive operations.                                                   *)
(*                                                                         *)
(* Leases: an unwatched root with a live lease always has something on its *)
(* way that will watch it; at rest nothing is on its way (WatchInv).       *)
(* Subscriptions: no native stream outlives the map that owns it, and a    *)
(* detached root is quiet (SubInv).                                        *)
(***************************************************************************)
EXTENDS WatchLeases, WatcherSubscription, TLAPS

(* The leases on a root *)

\* A session, which keeps its lease, holds one.
Leased == \E h \in Holders \ {Cli} : lease[h] = "live"

\* A watch request is at the project lock, or its owner ends by watching.
TaskWillWatch ==
  \/ \E i \in 1..Len(tasks) : tasks[i] = "watch"
  \/ Owns("index") /\ stage = "busy"
  \/ Owns("remove") /\ stage = "busy" /\ had

\* The unwatched root of a session is being seen to.
WatcherUnderWay == Leased /\ ~proc /\ ~missed =>
  owed # {} \/ (roots /\ mode # "pending") \/ TaskWillWatch

\* The inductive invariant.
WatchInv == WatchTypeOK /\ (barred = "paused" => missed) /\ WatcherUnderWay

\* A request further down the queue stays in it.
LEMMA TailKeepsWatch ==
  ASSUME tasks \in Seq(Kinds), tasks # <<>>, Head(tasks) # "watch", tasks' = Tail(tasks),
         \E i \in 1..Len(tasks) : tasks[i] = "watch"
  PROVE  \E i \in 1..Len(tasks') : tasks'[i] = "watch"
<1>1. PICK i \in 1..Len(tasks) : tasks[i] = "watch"
  OBVIOUS
<1>2. i - 1 \in 1..Len(tasks') /\ tasks'[i - 1] = "watch"
  BY <1>1
<1>. QED BY <1>2

\* An attempt to watch ends with a processor or is remembered.
LEMMA ManagerWatchEffect ==
  ASSUME WatchTypeOK, ManagerWatch
  PROVE  /\ proc' \in BOOLEAN /\ missed' \in BOOLEAN /\ faults' \in 0..MaxFaults
         /\ proc' \/ missed'
         /\ barred = "paused" => missed'
<1>. USE WatchAssumption DEF WatchTypeOK
<1>1. CASE barred # "paused" /\ proc' = TRUE /\ missed' = FALSE /\ UNCHANGED faults
  BY <1>1
<1>2. CASE ~proc /\ missed' = TRUE /\ UNCHANGED proc
  <2>1. faults' \in 0..MaxFaults
    BY <1>2 DEF ManagerWatch
  <2>. QED BY <1>2, <2>1
<1>. QED BY <1>1, <1>2 DEF ManagerWatch

\* So is an attempt that was not made.
LEMMA NotWatchedEffect ==
  ASSUME WatchTypeOK, NotWatched
  PROVE  /\ proc' \in BOOLEAN /\ missed' \in BOOLEAN /\ faults' \in 0..MaxFaults
         /\ proc' \/ missed'
         /\ missed => missed'
<1>. USE DEF WatchTypeOK, NotWatched
<1>1. proc' \in BOOLEAN /\ missed' \in BOOLEAN /\ (proc' \/ missed') /\ (missed => missed')
  BY Zenon
<1>. QED BY <1>1

\* What is wanted is watched or remembered; what is not stays as it is.
LEMMA OperationWatchEffect ==
  ASSUME WatchTypeOK, NEW wanted \in BOOLEAN, OperationWatch(wanted)
  PROVE  /\ proc' \in BOOLEAN /\ missed' \in BOOLEAN /\ faults' \in 0..MaxFaults
         /\ wanted => proc' \/ missed'
         /\ barred = "paused" /\ missed => missed'
<1>1. CASE ~wanted /\ UNCHANGED <<proc, missed, faults>>
  BY <1>1 DEF WatchTypeOK
<1>2. CASE wanted /\ barred = "no" /\ ManagerWatch
  BY <1>2, ManagerWatchEffect
<1>3. CASE wanted /\ barred # "no" /\ NotWatched
  BY <1>3, NotWatchedEffect
<1>. QED BY <1>1, <1>2, <1>3 DEF OperationWatch

\* RequestWatch keeps the invariant.
LEMMA RequestWatchKeeps ==
  ASSUME WatchInv, NEW h \in Holders, RequestWatch(h)
  PROVE  WatchInv'
<1>. USE WatchAssumption DEF WatchInv, WatchTypeOK, Restoring, Kinds, Stages, Owns, RequestWatch, Queue
<1>1. CASE proc \/ barred = "paused"
  <2>1. WatchTypeOK' /\ (barred' = "paused" => missed')
    BY <1>1
  <2>2. WatcherUnderWay'
    BY <1>1 DEF WatcherUnderWay, TaskWillWatch, Leased
  <2>. QED BY <2>1, <2>2
<1>2. CASE ~(proc \/ barred = "paused")
  <2>0. missed' = FALSE /\ barred' = barred /\ tasks' = Append(tasks, "watch") /\ Len(tasks) < MaxTasks
    BY <1>2
  <2>a. lease' \in [Holders -> {"none", "live", "lapsed"}] /\ missed' \in BOOLEAN
    BY <2>0
  <2>b. tasks' \in Seq(Kinds) /\ Len(tasks') <= MaxTasks /\ tasks' # <<>>
    BY <2>0
  <2>c. had' => tasks' # <<>> /\ Head(tasks') = "remove" /\ stage' = "busy"
    BY <2>0
  <2>1. WatchTypeOK'
    BY <2>0, <2>a, <2>b, <2>c
  <2>2. tasks'[Len(tasks')] = "watch" /\ Len(tasks') \in 1..Len(tasks')
    BY <2>0
  <2>. QED BY <1>2, <2>0, <2>1, <2>2 DEF WatcherUnderWay, TaskWillWatch
<1>. QED BY <1>1, <1>2

\* ReleaseWatch keeps the invariant.
LEMMA ReleaseWatchKeeps ==
  ASSUME WatchInv, NEW H \in SUBSET Holders, ReleaseWatch(H)
  PROVE  WatchInv'
<1>. USE WatchAssumption DEF WatchInv, WatchTypeOK, Restoring, Kinds, Stages, Owns, ReleaseWatch, Queue, Wanted
<1>1. WatchTypeOK' /\ (barred' = "paused" => missed')
  OBVIOUS
<1>2. WatcherUnderWay'
  BY DEF WatcherUnderWay, TaskWillWatch, Leased
<1>. QED BY <1>1, <1>2

\* Lapse keeps the invariant.
LEMMA LapseKeeps ==
  ASSUME WatchInv, NEW h \in Holders, Lapse(h)
  PROVE  WatchInv'
<1>. USE WatchAssumption DEF WatchInv, WatchTypeOK, Restoring, Kinds, Stages, Owns, Lapse
<1>1. WatchTypeOK' /\ (barred' = "paused" => missed')
  OBVIOUS
<1>2. WatcherUnderWay'
  BY DEF WatcherUnderWay, TaskWillWatch, Leased
<1>. QED BY <1>1, <1>2

\* Sweep keeps the invariant.
LEMMA SweepKeeps ==
  ASSUME WatchInv, Sweep
  PROVE  WatchInv'
<1>. USE WatchAssumption DEF WatchInv, WatchTypeOK, Restoring, Kinds, Stages, Owns, Sweep, Queue, Wanted
<1>1. WatchTypeOK' /\ (barred' = "paused" => missed')
  OBVIOUS
<1>2. WatcherUnderWay'
  BY DEF WatcherUnderWay, TaskWillWatch, Leased
<1>. QED BY <1>1, <1>2

\* RequestIndex keeps the invariant.
LEMMA RequestIndexKeeps ==
  ASSUME WatchInv, RequestIndex
  PROVE  WatchInv'
<1>. USE WatchAssumption DEF WatchInv, WatchTypeOK, Restoring, Kinds, Stages, Owns, RequestIndex, Queue
<1>1. WatchTypeOK' /\ (barred' = "paused" => missed')
  OBVIOUS
<1>2. WatcherUnderWay'
  BY DEF WatcherUnderWay, TaskWillWatch, Leased
<1>. QED BY <1>1, <1>2

\* RequestRemove keeps the invariant.
LEMMA RequestRemoveKeeps ==
  ASSUME WatchInv, RequestRemove
  PROVE  WatchInv'
<1>. USE WatchAssumption DEF WatchInv, WatchTypeOK, Restoring, Kinds, Stages, Owns, RequestRemove, Queue
<1>1. WatchTypeOK' /\ (barred' = "paused" => missed')
  OBVIOUS
<1>2. WatcherUnderWay'
  BY DEF WatcherUnderWay, TaskWillWatch, Leased
<1>. QED BY <1>1, <1>2

\* Enqueue keeps the invariant.
LEMMA EnqueueKeeps ==
  ASSUME WatchInv, Enqueue
  PROVE  WatchInv'
<1>. USE WatchAssumption DEF WatchInv, WatchTypeOK, Restoring, Kinds, Stages, Owns, Enqueue
<1>1. WatchTypeOK' /\ (barred' = "paused" => missed')
  OBVIOUS
<1>2. WatcherUnderWay'
  BY DEF WatcherUnderWay, TaskWillWatch, Leased
<1>. QED BY <1>1, <1>2

\* Refuse keeps the invariant.
LEMMA RefuseKeeps ==
  ASSUME WatchInv, Refuse
  PROVE  WatchInv'
<1>. USE WatchAssumption DEF WatchInv, WatchTypeOK, Restoring, Kinds, Stages, Owns, Refuse, Unlock
<1>1. WatchTypeOK' /\ (barred' = "paused" => missed')
  OBVIOUS
<1>2. WatcherUnderWay'
  <2>. SUFFICES ASSUME Leased, ~proc, ~missed, Head(tasks) # "watch" PROVE owed # {} \/ (roots /\ mode # "pending") \/ TaskWillWatch'
    BY DEF WatcherUnderWay, Leased
  <2>. USE DEF WatcherUnderWay, TaskWillWatch
  <2>1. CASE \E i \in 1..Len(tasks) : tasks[i] = "watch"
    <3>1. PICK i \in 1..Len(tasks) : tasks[i] = "watch"
      BY <2>1
    <3>2. i - 1 \in 1..Len(tasks') /\ tasks'[i - 1] = "watch"
      BY <3>1
    <3>. QED BY <3>2
  <2>2. CASE ~ \E i \in 1..Len(tasks) : tasks[i] = "watch"
    BY <2>2
  <2>. QED BY <2>1, <2>2
<1>. QED BY <1>1, <1>2

\* Watch keeps the invariant.
LEMMA WatchKeeps ==
  ASSUME WatchInv, Watch
  PROVE  WatchInv'
<1>. USE WatchAssumption DEF WatchInv
<1>0. Wanted \in BOOLEAN /\ OperationWatch(Wanted) /\ barred' = barred /\ lease' = lease
  BY DEF Watch, Wanted, WatchTypeOK
<1>1. /\ proc' \in BOOLEAN /\ missed' \in BOOLEAN /\ faults' \in 0..MaxFaults
      /\ Wanted => proc' \/ missed'
      /\ barred = "paused" /\ missed => missed'
  BY <1>0, OperationWatchEffect
<1>2. tasks' \in Seq(Kinds) /\ Len(tasks') <= MaxTasks /\ tasks' = Tail(tasks) /\ stage' = "lock"
  BY DEF WatchTypeOK, Kinds, Watch, Unlock, Owns
<1>3. WatchTypeOK'
  BY <1>1, <1>2 DEF WatchTypeOK, Restoring, Stages, Owns, Watch
<1>4. Leased' => Wanted
  BY <1>0 DEF Leased, Wanted
<1>. QED BY <1>0, <1>1, <1>3, <1>4 DEF WatcherUnderWay

\* Unwatch keeps the invariant.
LEMMA UnwatchKeeps ==
  ASSUME WatchInv, Unwatch
  PROVE  WatchInv'
<1>. USE WatchAssumption DEF WatchInv, WatchTypeOK, Restoring, Kinds, Stages, Owns, Unwatch, Unlock, Admitted, Wanted
<1>1. WatchTypeOK' /\ (barred' = "paused" => missed')
  OBVIOUS
<1>2. WatcherUnderWay'
  <2>1. Leased' /\ ~proc' => ~proc
    BY DEF Leased
  <2>2. Leased' = Leased /\ UNCHANGED <<missed, owed, roots, mode>> /\ Admitted
    BY DEF Leased
  <2>3. Head(tasks) # "watch" /\ tasks # <<>> /\ stage # "busy" /\ tasks' = Tail(tasks)
    OBVIOUS
  <2>4. (\E i \in 1..Len(tasks) : tasks[i] = "watch") => \E i \in 1..Len(tasks') : tasks'[i] = "watch"
    BY <2>3, TailKeepsWatch
  <2>. QED BY <2>1, <2>2, <2>3, <2>4 DEF WatcherUnderWay, TaskWillWatch
<1>. QED BY <1>1, <1>2

\* Begin keeps the invariant.
LEMMA BeginKeeps ==
  ASSUME WatchInv, NEW k \in {"index", "remove"}, Begin(k)
  PROVE  WatchInv'
<1>. USE WatchAssumption DEF WatchInv, WatchTypeOK, Restoring, Kinds, Stages, Owns, Begin, Admitted
<1>1. WatchTypeOK' /\ (barred' = "paused" => missed')
  OBVIOUS
<1>2. WatcherUnderWay'
  BY DEF WatcherUnderWay, TaskWillWatch, Leased
<1>. QED BY <1>1, <1>2

\* ReturnEarly keeps the invariant.
LEMMA ReturnEarlyKeeps ==
  ASSUME WatchInv, ReturnEarly
  PROVE  WatchInv'
<1>. USE WatchAssumption DEF WatchInv, WatchTypeOK, Restoring, Kinds, Stages, Owns, ReturnEarly, Unlock, Admitted
<1>1. WatchTypeOK' /\ (barred' = "paused" => missed')
  OBVIOUS
<1>2. WatcherUnderWay'
  <2>1. Leased' /\ ~proc' => ~proc
    OBVIOUS
  <2>2. Leased' = Leased /\ UNCHANGED <<missed, owed, roots, mode>> /\ Admitted
    BY DEF Leased
  <2>3. Head(tasks) # "watch" /\ tasks # <<>> /\ stage # "busy" /\ tasks' = Tail(tasks)
    OBVIOUS
  <2>4. (\E i \in 1..Len(tasks) : tasks[i] = "watch") => \E i \in 1..Len(tasks') : tasks'[i] = "watch"
    BY <2>3, TailKeepsWatch
  <2>. QED BY <2>1, <2>2, <2>3, <2>4 DEF WatcherUnderWay, TaskWillWatch
<1>. QED BY <1>1, <1>2

\* IndexEnds keeps the invariant.
LEMMA IndexEndsKeeps ==
  ASSUME WatchInv, IndexEnds
  PROVE  WatchInv'
<1>. USE WatchAssumption DEF WatchInv
<1>0. Wanted \in BOOLEAN /\ OperationWatch(Wanted) /\ barred' = barred /\ lease' = lease
  BY DEF IndexEnds, Wanted, WatchTypeOK
<1>1. /\ proc' \in BOOLEAN /\ missed' \in BOOLEAN /\ faults' \in 0..MaxFaults
      /\ Wanted => proc' \/ missed'
      /\ barred = "paused" /\ missed => missed'
  BY <1>0, OperationWatchEffect
<1>2. tasks' \in Seq(Kinds) /\ Len(tasks') <= MaxTasks /\ tasks' = Tail(tasks) /\ stage' = "lock"
  BY DEF WatchTypeOK, Kinds, IndexEnds, Unlock, Owns
<1>3. WatchTypeOK'
  BY <1>1, <1>2 DEF WatchTypeOK, Restoring, Stages, Owns, IndexEnds
<1>4. Leased' => Wanted
  BY <1>0 DEF Leased, Wanted
<1>. QED BY <1>0, <1>1, <1>3, <1>4 DEF WatcherUnderWay

\* RemoveEnds keeps the invariant.
LEMMA RemoveEndsKeeps ==
  ASSUME WatchInv, RemoveEnds
  PROVE  WatchInv'
<1>. USE WatchAssumption DEF WatchInv, WatchTypeOK, Restoring, Kinds, Stages, Owns, RemoveEnds, Unlock
<1>1. WatchTypeOK' /\ (barred' = "paused" => missed')
  <2>1. lease' \in [Holders -> {"none", "live", "lapsed"}]
    OBVIOUS
  <2>2. tasks' \in Seq(Kinds) /\ Len(tasks') <= MaxTasks
    OBVIOUS
  <2>3. proc' \in BOOLEAN /\ missed' \in BOOLEAN
    BY Zenon
  <2>. QED BY <2>1, <2>2, <2>3
<1>2. WatcherUnderWay'
  BY DEF WatcherUnderWay, TaskWillWatch, Leased
<1>. QED BY <1>1, <1>2

\* RemoveFails keeps the invariant.
LEMMA RemoveFailsKeeps ==
  ASSUME WatchInv, RemoveFails
  PROVE  WatchInv'
<1>. USE WatchAssumption DEF WatchInv
<1>0. (had /\ Wanted) \in BOOLEAN /\ OperationWatch((had /\ Wanted)) /\ barred' = barred /\ lease' = lease
  BY DEF RemoveFails, Wanted, WatchTypeOK
<1>1. /\ proc' \in BOOLEAN /\ missed' \in BOOLEAN /\ faults' \in 0..MaxFaults
      /\ (had /\ Wanted) => proc' \/ missed'
      /\ barred = "paused" /\ missed => missed'
  BY <1>0, OperationWatchEffect
<1>2. tasks' \in Seq(Kinds) /\ Len(tasks') <= MaxTasks /\ tasks' = Tail(tasks) /\ stage' = "lock"
  BY DEF WatchTypeOK, Kinds, RemoveFails, Unlock, Owns
<1>3. WatchTypeOK'
  BY <1>1, <1>2 DEF WatchTypeOK, Restoring, Stages, Owns, RemoveFails
<1>4. WatcherUnderWay'
  <2>1. Leased' => Wanted
    BY <1>0 DEF Leased, Wanted
  <2>2. CASE had
    BY <1>1, <2>1, <2>2 DEF WatcherUnderWay
  <2>3. CASE ~had
    <3>1. UNCHANGED <<proc, missed, owed, roots, mode>>
      BY <2>3 DEF RemoveFails, OperationWatch
    <3>2. Leased' = Leased
      BY <1>0 DEF Leased
    <3>3. Head(tasks) = "remove" /\ tasks # <<>>
      BY DEF RemoveFails, Owns
    <3>4. (\E i \in 1..Len(tasks) : tasks[i] = "watch") => \E i \in 1..Len(tasks') : tasks'[i] = "watch"
      BY <1>2, <3>3, TailKeepsWatch DEF WatchTypeOK
    <3>. QED BY <2>3, <3>1, <3>2, <3>3, <3>4 DEF WatcherUnderWay, TaskWillWatch, Owns
  <2>. QED BY <2>2, <2>3 DEF WatchTypeOK
<1>. QED BY <1>0, <1>1, <1>3, <1>4

\* PausedRefuses keeps the invariant.
LEMMA PausedRefusesKeeps ==
  ASSUME WatchInv, PausedRefuses
  PROVE  WatchInv'
<1>. USE WatchAssumption DEF WatchInv, WatchTypeOK, Restoring, Kinds, Stages, Owns, PausedRefuses, Unlock
<1>1. WatchTypeOK' /\ (barred' = "paused" => missed')
  OBVIOUS
<1>2. WatcherUnderWay'
  BY DEF WatcherUnderWay, TaskWillWatch, Leased
<1>. QED BY <1>1, <1>2

\* Pause keeps the invariant.
LEMMA PauseKeeps ==
  ASSUME WatchInv, Pause
  PROVE  WatchInv'
<1>. USE WatchAssumption DEF WatchInv, WatchTypeOK, Restoring, Kinds, Stages, Owns, Pause
<1>1. WatchTypeOK' /\ (barred' = "paused" => missed')
  OBVIOUS
<1>2. WatcherUnderWay'
  BY DEF WatcherUnderWay, TaskWillWatch, Leased
<1>. QED BY <1>1, <1>2

\* StartExclusive keeps the invariant.
LEMMA StartExclusiveKeeps ==
  ASSUME WatchInv, NEW k \in ExclusiveOps, StartExclusive(k)
  PROVE  WatchInv'
<1>. USE WatchAssumption DEF WatchInv, WatchTypeOK, Restoring, Kinds, Stages, Owns, StartExclusive
<1>1. WatchTypeOK' /\ (barred' = "paused" => missed')
  OBVIOUS
<1>2. WatcherUnderWay'
  BY DEF WatcherUnderWay, TaskWillWatch, Leased
<1>. QED BY <1>1, <1>2

\* Quiesce keeps the invariant.
LEMMA QuiesceKeeps ==
  ASSUME WatchInv, Quiesce
  PROVE  WatchInv'
<1>. USE WatchAssumption DEF WatchInv, WatchTypeOK, Restoring, Kinds, Stages, Owns, Quiesce
<1>1. WatchTypeOK' /\ (barred' = "paused" => missed')
  OBVIOUS
<1>2. WatcherUnderWay'
  BY DEF WatcherUnderWay, TaskWillWatch, Leased
<1>. QED BY <1>1, <1>2

\* DrainDone keeps the invariant.
LEMMA DrainDoneKeeps ==
  ASSUME WatchInv, DrainDone
  PROVE  WatchInv'
<1>. USE WatchAssumption DEF WatchInv, WatchTypeOK, Restoring, Kinds, Stages, Owns, DrainDone
<1>1. WatchTypeOK' /\ (barred' = "paused" => missed')
  OBVIOUS
<1>2. WatcherUnderWay'
  BY DEF WatcherUnderWay, TaskWillWatch, Leased
<1>. QED BY <1>1, <1>2

\* RepairDetaches keeps the invariant.
LEMMA RepairDetachesKeeps ==
  ASSUME WatchInv, RepairDetaches
  PROVE  WatchInv'
<1>. USE WatchAssumption DEF WatchInv, WatchTypeOK, Restoring, Kinds, Stages, Owns, RepairDetaches
<1>1. WatchTypeOK' /\ (barred' = "paused" => missed')
  OBVIOUS
<1>2. WatcherUnderWay'
  BY DEF WatcherUnderWay, TaskWillWatch, Leased
<1>. QED BY <1>1, <1>2

\* EndExclusive keeps the invariant.
LEMMA EndExclusiveKeeps ==
  ASSUME WatchInv, EndExclusive
  PROVE  WatchInv'
<1>. USE WatchAssumption DEF WatchInv, WatchTypeOK, Restoring, Kinds, Stages, Owns, EndExclusive
<1>1. WatchTypeOK' /\ (barred' = "paused" => missed')
  OBVIOUS
<1>2. WatcherUnderWay'
  BY DEF WatcherUnderWay, TaskWillWatch, Leased
<1>. QED BY <1>1, <1>2

\* Restore keeps the invariant.
LEMMA RestoreKeeps ==
  ASSUME WatchInv, NEW k \in Restoring, Restore(k)
  PROVE  WatchInv'
<1>. USE WatchAssumption DEF WatchInv
<1>1. /\ proc' \in BOOLEAN /\ missed' \in BOOLEAN /\ faults' \in 0..MaxFaults
      /\ proc' \/ missed'
      /\ barred = "paused" => missed'
  BY ManagerWatchEffect, NotWatchedEffect DEF Restore
<1>2. WatchTypeOK' /\ barred' = barred
  BY <1>1 DEF WatchTypeOK, Restoring, Kinds, Stages, Owns, Restore
<1>. QED BY <1>1, <1>2 DEF WatcherUnderWay

\* The inductive invariant holds of every reachable state.
THEOREM WatchInvariant == WatchSpec => []WatchInv
<1>1. WatchInit => WatchInv
  <2>. SUFFICES ASSUME WatchInit PROVE WatchInv
    OBVIOUS
  <2>. USE WatchAssumption DEF WatchInit
  <2>1. tasks \in Seq(Kinds) /\ Len(tasks) <= MaxTasks
    OBVIOUS
  <2>2. lease \in [Holders -> {"none", "live", "lapsed"}] /\ used \in 0..MaxExclusive /\ faults \in 0..MaxFaults
    OBVIOUS
  <2>3. WatchTypeOK
    BY <2>1, <2>2, Zenon DEF WatchTypeOK, Restoring, Stages, Owns
  <2>. QED BY <2>3 DEF WatchInv, WatcherUnderWay, Leased
<1>2. WatchInv /\ [WatchNext]_watchVars => WatchInv'
  <2>. SUFFICES ASSUME WatchInv, [WatchNext]_watchVars PROVE WatchInv'
    OBVIOUS
  <2>1. CASE UNCHANGED watchVars
    BY <2>1 DEF watchVars, WatchInv, WatchTypeOK, Owns, WatcherUnderWay, TaskWillWatch, Leased
  <2>2. CASE LeaseStep
    <3>1. \A h \in Holders : {h} \in SUBSET Holders
      OBVIOUS
    <3>. QED BY <2>2, <3>1, RequestWatchKeeps, ReleaseWatchKeeps, LapseKeeps, SweepKeeps, RequestIndexKeeps,
              RequestRemoveKeeps DEF LeaseStep
  <2>3. CASE Coordination \/ Body \/ Ending
    BY <2>3, EnqueueKeeps, RefuseKeeps, PausedRefusesKeeps, WatchKeeps, UnwatchKeeps, BeginKeeps, ReturnEarlyKeeps, IndexEndsKeeps,
       RemoveEndsKeeps, RemoveFailsKeeps DEF Coordination, Body, Ending
  <2>4. CASE ExclusiveStep
    BY <2>4, StartExclusiveKeeps, QuiesceKeeps, DrainDoneKeeps, RepairDetachesKeeps, EndExclusiveKeeps, RestoreKeeps
       DEF ExclusiveStep
  <2>5. CASE Pause
    BY <2>5, PauseKeeps
  <2>. QED BY <2>1, <2>2, <2>3, <2>4, <2>5 DEF WatchNext
<1>. QED BY <1>1, <1>2, PTL DEF WatchSpec

\* At rest a root that a session holds is watched, unless its last request was
\* refused or failed, or a repair detached it.
THEOREM WatchLeased == WatchSpec => []LeasedIsWatched
<1>1. WatchInv => LeasedIsWatched
  <2>. SUFFICES ASSUME WatchInv, Idle, Leased, ~proc, ~missed PROVE FALSE
    BY DEF LeasedIsWatched, Leased
  <2>1. tasks = <<>> /\ op = "none" /\ ~roots /\ owed = {} /\ mode = "open"
    BY DEF WatchInv, WatchTypeOK, Restoring, Idle
  <2>2. ~TaskWillWatch
    BY <2>1 DEF TaskWillWatch, Owns
  <2>. QED BY <2>1, <2>2 DEF WatchInv, WatcherUnderWay
<1>. QED BY <1>1, WatchInvariant, PTL

\* An unwatch detaches no root whose lease is live when it is admitted.
THEOREM WatchNoDetach == WatchSpec => NoDetachUnderLease
<1>. DEFINE Detaches == proc /\ ~proc' /\ Owns("unwatch") /\ tasks' = Tail(tasks)
<1>1. ASSUME WatchTypeOK, WatchNext, Detaches
      PROVE  ~Wanted
  <2>. USE <1>1 DEF WatchTypeOK, Kinds, Owns
  <2>1. ASSUME tasks' = tasks PROVE FALSE
    BY <2>1
  <2>2. CASE LeaseStep \/ Pause
    BY <2>2, <2>1 DEF Pause, LeaseStep, RequestWatch, ReleaseWatch, Lapse, Sweep, RequestIndex, RequestRemove
  <2>3. CASE Coordination
    BY <2>3 DEF Coordination, Enqueue, Refuse, PausedRefuses
  <2>4. CASE Body
    BY <2>4, <2>1 DEF Body, Watch, OperationWatch, ManagerWatch, NotWatched, Unwatch, Begin, ReturnEarly
  <2>5. CASE Ending
    BY <2>5 DEF Ending, IndexEnds, RemoveEnds, RemoveFails
  <2>6. CASE ExclusiveStep
    BY <2>6, <2>1 DEF ExclusiveStep, StartExclusive, Quiesce, DrainDone, RepairDetaches, EndExclusive, Restore
  <2>. QED BY <2>2, <2>3, <2>4, <2>5, <2>6 DEF WatchNext
<1>2. WatchInv /\ [WatchNext]_watchVars => [Detaches => ~Wanted]_watchVars
  BY <1>1 DEF WatchInv
<1>. QED BY <1>2, WatchInvariant, PTL DEF WatchSpec, NoDetachUnderLease

-----------------------------------------------------------------------------
(* The native subscriptions of a watched root *)

Jobs == [p : Nat \ {0}, by : Callers]

\* What the argument needs of the types: an update has a processor, a generation
\* is positive, and a detached root has none.
Shape ==
  /\ watches \in Nat /\ processor \in Nat /\ timer \in Nat
  /\ updates \in Seq(Jobs)
  /\ of \in Seq(Nat) /\ (phase # "queued" => Len(of) # 0)
  /\ processor = 0 => gen = 0
  /\ 0 \notin open

\* While an update runs, the one stream outside the map is the one it opens.
StreamsAccounted ==
  /\ phase # "queued" => updates # <<>>
  /\ phase \in {"subscribing", "verifying", "discard"} => sub = 0
  /\ phase \in {"verifying", "discard"} => open \subseteq {sub, Len(of)}
  /\ phase \notin {"verifying", "discard"} => open \subseteq {sub}

\* The inductive invariant.
SubInv == Shape /\ StreamsAccounted /\ DetachedIsQuiet

\* The first of the updates, and the others.
LEMMA FirstUpdate ==
  ASSUME updates \in Seq(Jobs), updates # <<>>
  PROVE  First.p \in Nat \ {0} /\ Tail(updates) \in Seq(Jobs)
<1>1. First \in Jobs /\ Tail(updates) \in Seq(Jobs)
  BY DEF First
<1>. QED BY <1>1 DEF Jobs

\* A further update.
LEMMA NewUpdate ==
  ASSUME updates \in Seq(Jobs), NEW q \in Nat \ {0}, NEW c \in Callers
  PROVE  /\ Append(updates, [p |-> q, by |-> c]) \in Seq(Jobs)
         /\ Append(updates, [p |-> q, by |-> c]) # <<>>
<1>. DEFINE job == [p |-> q, by |-> c]
<1>1. job \in Jobs
  BY DEF Jobs
<1>. HIDE DEF job
<1>2. Append(updates, job) \in Seq(Jobs) /\ Append(updates, job) # <<>>
  BY <1>1
<1>. QED BY <1>2 DEF job

\* A further stream.
LEMMA NewStream ==
  ASSUME NEW s \in Seq(Nat), NEW q \in Nat
  PROVE  Append(s, q) \in Seq(Nat) /\ Len(Append(s, q)) = Len(s) + 1 /\ Len(s) \in Nat
  OBVIOUS

\* A watch starts without a stream.
LEMMA WatchProjectKeeps ==
  ASSUME SubInv, WatchProject
  PROVE  SubInv'
<1>. USE DEF SubInv, Shape, plan, health, counts, WatchProject, Starting
<1>w. watches + 1 \in Nat \ {0}
  OBVIOUS
<1>0. LET u == Append(updates, [p |-> watches + 1, by |-> "start"]) IN u \in Seq(Jobs) /\ u # <<>>
  BY <1>w, NewUpdate DEF Callers
<1>1. Shape'
  BY <1>0 DEF StreamsAccounted, DetachedIsQuiet
<1>2. StreamsAccounted'
  BY <1>0 DEF StreamsAccounted
<1>3. DetachedIsQuiet'
  BY <1>0 DEF StreamsAccounted, DetachedIsQuiet
<1>. QED BY <1>1, <1>2, <1>3

\* An unwatch stops the timers before it awaits anything.
LEMMA UnwatchProjectKeeps ==
  ASSUME SubInv, UnwatchProject
  PROVE  SubInv'
<1>. USE DEF SubInv, Shape, plan, health, counts, UnwatchProject, Detach
<1>1. Shape'
  BY DEF StreamsAccounted, DetachedIsQuiet
<1>2. StreamsAccounted'
  BY DEF StreamsAccounted
<1>3. DetachedIsQuiet'
  BY DEF StreamsAccounted, DetachedIsQuiet
<1>. QED BY <1>1, <1>2, <1>3

\* A quiesce leaves the processor until its streams are closed.
LEMMA QuiesceAllKeeps ==
  ASSUME SubInv, QuiesceAll
  PROVE  SubInv'
<1>. USE DEF SubInv, Shape, plan, health, counts, QuiesceAll
<1>1. Shape'
  BY DEF StreamsAccounted, DetachedIsQuiet
<1>2. StreamsAccounted'
  BY DEF StreamsAccounted
<1>3. DetachedIsQuiet'
  BY DEF StreamsAccounted, DetachedIsQuiet
<1>. QED BY <1>1, <1>2, <1>3

\* Waiting for the catchups changes nothing else.
LEMMA CatchupsAbortedKeeps ==
  ASSUME SubInv, CatchupsAborted
  PROVE  SubInv'
<1>. USE DEF SubInv, Shape, plan, health, counts, CatchupsAborted
<1>1. Shape'
  BY DEF StreamsAccounted, DetachedIsQuiet
<1>2. StreamsAccounted'
  BY DEF StreamsAccounted
<1>3. DetachedIsQuiet'
  BY DEF StreamsAccounted, DetachedIsQuiet
<1>. QED BY <1>1, <1>2, <1>3

\* A quiesce closes the stream of the map.
LEMMA StreamsClosedKeeps ==
  ASSUME SubInv, StreamsClosed
  PROVE  SubInv'
<1>. USE DEF SubInv, Shape, plan, health, counts, StreamsClosed, Detach
<1>1. Shape'
  BY DEF StreamsAccounted, DetachedIsQuiet
<1>2. StreamsAccounted'
  BY DEF StreamsAccounted
<1>3. DetachedIsQuiet'
  BY DEF StreamsAccounted, DetachedIsQuiet
<1>. QED BY <1>1, <1>2, <1>3

\* Waiting for the updates changes nothing else.
LEMMA UpdatesAwaitedKeeps ==
  ASSUME SubInv, UpdatesAwaited
  PROVE  SubInv'
<1>. USE DEF SubInv, Shape, plan, health, counts, UpdatesAwaited
<1>1. Shape'
  BY DEF StreamsAccounted, DetachedIsQuiet
<1>2. StreamsAccounted'
  BY DEF StreamsAccounted
<1>3. DetachedIsQuiet'
  BY DEF StreamsAccounted, DetachedIsQuiet
<1>. QED BY <1>1, <1>2, <1>3

\* Closing the processor changes nothing here.
LEMMA ProcessorClosedKeeps ==
  ASSUME SubInv, ProcessorClosed
  PROVE  SubInv'
<1>. USE DEF SubInv, Shape, plan, health, counts, ProcessorClosed
<1>1. Shape'
  BY DEF StreamsAccounted, DetachedIsQuiet
<1>2. StreamsAccounted'
  BY DEF StreamsAccounted
<1>3. DetachedIsQuiet'
  BY DEF StreamsAccounted, DetachedIsQuiet
<1>. QED BY <1>1, <1>2, <1>3

\* An unwatch ends with an empty map.
LEMMA UnwatchedKeeps ==
  ASSUME SubInv, Unwatched
  PROVE  SubInv'
<1>. USE DEF SubInv, Shape, plan, health, counts, Unwatched
<1>1. Shape'
  BY DEF StreamsAccounted, DetachedIsQuiet
<1>2. StreamsAccounted'
  BY DEF StreamsAccounted
<1>3. DetachedIsQuiet'
  BY DEF StreamsAccounted, DetachedIsQuiet
<1>. QED BY <1>1, <1>2, <1>3

\* An update of a detached processor starts nothing.
LEMMA UpdateSkippedKeeps ==
  ASSUME SubInv, UpdateSkipped
  PROVE  SubInv'
<1>. USE DEF SubInv, Shape, plan, health, counts, UpdateSkipped, Resolve
<1>0. First.p \in Nat \ {0} /\ Tail(updates) \in Seq(Jobs) /\ Len(of) \in Nat
  BY FirstUpdate DEF StreamsAccounted
<1>1. Shape'
  BY <1>0 DEF StreamsAccounted, DetachedIsQuiet
<1>2. StreamsAccounted'
  BY <1>0 DEF StreamsAccounted
<1>3. DetachedIsQuiet'
  BY <1>0 DEF StreamsAccounted, DetachedIsQuiet
<1>. QED BY <1>1, <1>2, <1>3

\* An update gets a number of its own.
LEMMA UpdateBeginsKeeps ==
  ASSUME SubInv, UpdateBegins
  PROVE  SubInv'
<1>. USE DEF SubInv, Shape, plan, health, counts, UpdateBegins, Latest
<1>0. First.p \in Nat \ {0} /\ Tail(updates) \in Seq(Jobs) /\ Len(of) \in Nat
  BY FirstUpdate DEF StreamsAccounted
<1>a. of' \in Seq(Nat) /\ Len(of') = Len(of) + 1
  BY <1>0, NewStream
<1>1. Shape'
  BY <1>0, <1>a DEF StreamsAccounted, DetachedIsQuiet
<1>2. StreamsAccounted'
  BY <1>0, <1>a DEF StreamsAccounted
<1>3. DetachedIsQuiet'
  BY <1>0, <1>a DEF StreamsAccounted, DetachedIsQuiet
<1>. QED BY <1>1, <1>2, <1>3

\* The old stream is closed when it leaves the map.
LEMMA CloseOldKeeps ==
  ASSUME SubInv, CloseOld
  PROVE  SubInv'
<1>. USE DEF SubInv, Shape, plan, health, counts, CloseOld
<1>1. Shape'
  BY DEF StreamsAccounted, DetachedIsQuiet
<1>2. StreamsAccounted'
  BY DEF StreamsAccounted
<1>3. DetachedIsQuiet'
  BY DEF StreamsAccounted, DetachedIsQuiet
<1>. QED BY <1>1, <1>2, <1>3

\* The new stream is the only one that is not in the map.
LEMMA StreamOpensKeeps ==
  ASSUME SubInv, StreamOpens
  PROVE  SubInv'
<1>. USE DEF SubInv, Shape, plan, health, counts, StreamOpens, Latest
<1>1. Shape'
  BY DEF StreamsAccounted, DetachedIsQuiet
<1>2. StreamsAccounted'
  BY DEF StreamsAccounted
<1>3. DetachedIsQuiet'
  BY DEF StreamsAccounted, DetachedIsQuiet
<1>. QED BY <1>1, <1>2, <1>3

\* A recovery does nothing for a detached root; for a watched one it arms the
\* timer, or closes the stream of the map and polls.
LEMMA RecoverEffect ==
  ASSUME NEW q \in Nat \ {0}, timer \in Nat, NEW n, NEW D, Recover(q, n, D)
  PROVE  /\ (sub' = sub /\ open' = open) \/ (sub' = 0 /\ open' = open \ {sub})
         /\ timer' \in Nat
         /\ processor = 0 => sub' = sub /\ polling' = polling /\ timer' = timer
         /\ probe' = probe
<1>1. CASE processor # q \/ recovering
  BY <1>1 DEF Recover, health
<1>2. CASE ~(processor # q \/ recovering)
  BY <1>2 DEF Recover
<1>. QED BY <1>1, <1>2

\* A refused stream was never open.
LEMMA RefusedKeeps ==
  ASSUME SubInv, Refused
  PROVE  SubInv'
<1>. USE DEF SubInv, Shape
<1>0. First.p \in Nat \ {0} /\ Tail(updates) \in Seq(Jobs)
  BY FirstUpdate DEF StreamsAccounted, Refused
<1>1. /\ phase = "subscribing" /\ phase' = "queued" /\ updates' = Tail(updates)
      /\ processor' = processor /\ watches' = watches /\ gen' = gen /\ of' = of /\ down' = down
  BY DEF Refused, Reject
<1>2. /\ (sub' = sub /\ open' = open) \/ (sub' = 0 /\ open' = open \ {sub})
      /\ timer' \in Nat
      /\ processor = 0 => sub' = sub /\ polling' = polling /\ timer' = timer
      /\ probe' \in {probe, "none"}
  <2>0. Reject
    BY DEF Refused
  <2>1. CASE First.by = "start" /\ down = "none"
    BY <2>0, <2>1, <1>0, RecoverEffect DEF Reject
  <2>2. CASE First.by = "start" /\ down # "none"
    BY <2>0, <2>2 DEF Reject, health
  <2>3. CASE First.by = "policy"
    BY <2>0, <2>3, <1>0, RecoverEffect DEF Reject
  <2>4. CASE First.by = "recover"
    BY <2>0, <2>4 DEF Reject
  <2>5. CASE First.by = "probe"
    BY <2>0, <2>5 DEF Reject
  <2>6. First \in Jobs
    BY DEF First, StreamsAccounted, Refused
  <2>7. First.by \in Callers
    BY <2>6 DEF Jobs
  <2>. QED BY <2>1, <2>2, <2>3, <2>4, <2>5, <2>7 DEF Callers
<1>3. Shape'
  BY <1>0, <1>1, <1>2
<1>4. StreamsAccounted'
  BY <1>1, <1>2 DEF StreamsAccounted
<1>5. DetachedIsQuiet'
  BY <1>1, <1>2 DEF DetachedIsQuiet
<1>. QED BY <1>3, <1>4, <1>5

\* A stream goes into an empty map, and for a live processor only.
LEMMA KeepStreamKeeps ==
  ASSUME SubInv, KeepStream
  PROVE  SubInv'
<1>. USE DEF SubInv, Shape, plan, health, counts, KeepStream, Current, Resolve, Latest
<1>0. First.p \in Nat \ {0} /\ Tail(updates) \in Seq(Jobs) /\ Len(of) \in Nat
  BY FirstUpdate DEF StreamsAccounted
<1>1. Shape'
  BY <1>0 DEF StreamsAccounted, DetachedIsQuiet
<1>2. StreamsAccounted'
  BY <1>0 DEF StreamsAccounted
<1>3. DetachedIsQuiet'
  BY <1>0 DEF StreamsAccounted, DetachedIsQuiet
<1>. QED BY <1>1, <1>2, <1>3

\* A stream that came too late is not in the map.
LEMMA DiscardStreamKeeps ==
  ASSUME SubInv, DiscardStream
  PROVE  SubInv'
<1>. USE DEF SubInv, Shape, plan, health, counts, DiscardStream
<1>1. Shape'
  BY DEF StreamsAccounted, DetachedIsQuiet
<1>2. StreamsAccounted'
  BY DEF StreamsAccounted
<1>3. DetachedIsQuiet'
  BY DEF StreamsAccounted, DetachedIsQuiet
<1>. QED BY <1>1, <1>2, <1>3

\* A discarded stream is closed.
LEMMA StreamDiscardedKeeps ==
  ASSUME SubInv, StreamDiscarded
  PROVE  SubInv'
<1>. USE DEF SubInv, Shape, plan, health, counts, StreamDiscarded, Resolve, Latest
<1>0. First.p \in Nat \ {0} /\ Tail(updates) \in Seq(Jobs) /\ Len(of) \in Nat
  BY FirstUpdate DEF StreamsAccounted
<1>1. Shape'
  BY <1>0 DEF StreamsAccounted, DetachedIsQuiet
<1>2. StreamsAccounted'
  BY <1>0 DEF StreamsAccounted
<1>3. DetachedIsQuiet'
  BY <1>0 DEF StreamsAccounted, DetachedIsQuiet
<1>. QED BY <1>1, <1>2, <1>3

\* A policy change queues an update.
LEMMA PolicyChangeKeeps ==
  ASSUME SubInv, PolicyChange
  PROVE  SubInv'
<1>. USE DEF SubInv, Shape, plan, health, counts, PolicyChange
<1>0. LET u == Append(updates, [p |-> processor, by |-> "policy"]) IN u \in Seq(Jobs) /\ u # <<>>
  BY NewUpdate DEF Callers
<1>1. Shape'
  BY <1>0 DEF StreamsAccounted, DetachedIsQuiet
<1>2. StreamsAccounted'
  BY <1>0 DEF StreamsAccounted
<1>3. DetachedIsQuiet'
  BY <1>0 DEF StreamsAccounted, DetachedIsQuiet
<1>. QED BY <1>1, <1>2, <1>3

\* An error stops polling or starts it, for a live processor only.
LEMMA StreamErrorKeeps ==
  ASSUME SubInv, NEW g \in open, StreamError(g)
  PROVE  SubInv'
<1>. USE DEF SubInv, Shape, plan, health, counts, StreamError, Heard, Recover
<1>1. Shape'
  BY DEF StreamsAccounted, DetachedIsQuiet
<1>2. StreamsAccounted'
  BY DEF StreamsAccounted
<1>3. DetachedIsQuiet'
  BY DEF StreamsAccounted, DetachedIsQuiet
<1>. QED BY <1>1, <1>2, <1>3

\* Health is a counter.
LEMMA HealthyKeeps ==
  ASSUME SubInv, Healthy
  PROVE  SubInv'
<1>. USE DEF SubInv, Shape, plan, health, counts, Healthy, Heard
<1>1. Shape'
  BY DEF StreamsAccounted, DetachedIsQuiet
<1>2. StreamsAccounted'
  BY DEF StreamsAccounted
<1>3. DetachedIsQuiet'
  BY DEF StreamsAccounted, DetachedIsQuiet
<1>. QED BY <1>1, <1>2, <1>3

\* A timer that fires is gone.
LEMMA TimerFiresKeeps ==
  ASSUME SubInv, TimerFires
  PROVE  SubInv'
<1>. USE DEF SubInv, Shape, plan, health, counts, TimerFires
<1>0. LET u == Append(updates, [p |-> timer, by |-> "recover"]) IN u \in Seq(Jobs) /\ u # <<>>
  BY NewUpdate DEF Callers
<1>1. Shape'
  BY <1>0 DEF StreamsAccounted, DetachedIsQuiet
<1>2. StreamsAccounted'
  BY <1>0 DEF StreamsAccounted
<1>3. DetachedIsQuiet'
  BY <1>0 DEF StreamsAccounted, DetachedIsQuiet
<1>. QED BY <1>1, <1>2, <1>3

\* The end of a scan touches no stream.
LEMMA RescannedKeeps ==
  ASSUME SubInv, Rescanned
  PROVE  SubInv'
<1>. USE DEF SubInv, Shape, plan, health, counts, Rescanned
<1>1. Shape'
  BY DEF StreamsAccounted, DetachedIsQuiet
<1>2. StreamsAccounted'
  BY DEF StreamsAccounted
<1>3. DetachedIsQuiet'
  BY DEF StreamsAccounted, DetachedIsQuiet
<1>. QED BY <1>1, <1>2, <1>3

\* A probe queues an update.
LEMMA ProbeBeginsKeeps ==
  ASSUME SubInv, ProbeBegins
  PROVE  SubInv'
<1>. USE DEF SubInv, Shape, plan, health, counts, ProbeBegins
<1>0. LET u == Append(updates, [p |-> processor, by |-> "probe"]) IN u \in Seq(Jobs) /\ u # <<>>
  BY NewUpdate DEF Callers
<1>1. Shape'
  BY <1>0 DEF StreamsAccounted, DetachedIsQuiet
<1>2. StreamsAccounted'
  BY <1>0 DEF StreamsAccounted
<1>3. DetachedIsQuiet'
  BY <1>0 DEF StreamsAccounted, DetachedIsQuiet
<1>. QED BY <1>1, <1>2, <1>3

\* The end of a probe can only stop polling.
LEMMA ProbeEndsKeeps ==
  ASSUME SubInv, ProbeEnds
  PROVE  SubInv'
<1>. USE DEF SubInv, Shape, plan, health, counts, ProbeEnds
<1>1. Shape'
  BY DEF StreamsAccounted, DetachedIsQuiet
<1>2. StreamsAccounted'
  BY DEF StreamsAccounted
<1>3. DetachedIsQuiet'
  BY DEF StreamsAccounted, DetachedIsQuiet
<1>. QED BY <1>1, <1>2, <1>3

\* The inductive invariant holds of every reachable state.
THEOREM SubInvariant == SubSpec => []SubInv
<1>1. SubInit => SubInv
  <2>. SUFFICES ASSUME SubInit PROVE SubInv
    OBVIOUS
  <2>. USE DEF SubInit
  <2>1. Shape
    BY DEF Shape
  <2>2. StreamsAccounted /\ DetachedIsQuiet
    BY DEF StreamsAccounted, DetachedIsQuiet
  <2>. QED BY <2>1, <2>2 DEF SubInv
<1>2. SubInv /\ [SubNext]_subVars => SubInv'
  <2>. SUFFICES ASSUME SubInv, [SubNext]_subVars PROVE SubInv'
    OBVIOUS
  <2>1. CASE UNCHANGED subVars
    BY <2>1 DEF subVars, plan, health, counts, SubInv, Shape, StreamsAccounted, DetachedIsQuiet
  <2>2. CASE Detaching \/ WatchProject \/ UnwatchProject \/ QuiesceAll
    BY <2>2, WatchProjectKeeps, UnwatchProjectKeeps, QuiesceAllKeeps, CatchupsAbortedKeeps, StreamsClosedKeeps,
       UpdatesAwaitedKeeps, ProcessorClosedKeeps, UnwatchedKeeps DEF Detaching
  <2>3. CASE Update \/ PolicyChange
    BY <2>3, UpdateSkippedKeeps, UpdateBeginsKeeps, CloseOldKeeps, StreamOpensKeeps, RefusedKeeps, KeepStreamKeeps,
       DiscardStreamKeeps, StreamDiscardedKeeps, PolicyChangeKeeps DEF Update
  <2>4. CASE \/ (\E g \in open : StreamError(g)) \/ Healthy \/ TimerFires \/ Rescanned
             \/ ProbeBegins \/ ProbeEnds
    BY <2>4, StreamErrorKeeps, HealthyKeeps, TimerFiresKeeps, RescannedKeeps, ProbeBeginsKeeps, ProbeEndsKeeps
  <2>. QED BY <2>1, <2>2, <2>3, <2>4 DEF SubNext
<1>. QED BY <1>1, <1>2, PTL DEF SubSpec

\* At rest no native stream is open but the one in the map.
THEOREM SubNoLeak == SubSpec => []NoLeakedStream
<1>1. SubInv => NoLeakedStream
  BY DEF SubInv, StreamsAccounted, NoLeakedStream
<1>. QED BY <1>1, SubInvariant, PTL

\* A detached root has no timer, and once detached no stream.
THEOREM SubDetachedIsQuiet == SubSpec => []DetachedIsQuiet
<1>1. SubInv => DetachedIsQuiet
  BY DEF SubInv
<1>. QED BY <1>1, SubInvariant, PTL
==============================================================================
