----------------------------- MODULE WatchLeases -----------------------------
(***************************************************************************)
(* Which projects the daemon watches (src/lib/daemon/watch-leases.ts and   *)
(* the callers of WatchLeases in src/lib/daemon/daemon.ts), for one root.  *)
(* Sessions take and renew leases; the heartbeat sweeps the ones that      *)
(* lapsed; watch, unwatch, index and remove operations on the root are     *)
(* serialised by its project lock and admitted by the operation            *)
(* coordinator; exclusive operations detach every watcher and restore the  *)
(* ones they found.                                                        *)
(*                                                                         *)
(* proc is "processors.has(root)", the daemon's notion of being watched.   *)
(* Attaching and detaching set it in one synchronous step; how the native  *)
(* stream follows is another module's matter.                              *)
(***************************************************************************)
EXTENDS Naturals, Sequences

CONSTANTS
  Holders,      \* who may hold a lease on the root
  Cli,          \* the holder "cli" of add and index commands
  Renewing,     \* sessions that stay alive and keep renewing
  ExclusiveOps, \* which of "cleanup", "bounded" and "repair" may run
  MaxExclusive, \* bound on the exclusive operations of a behaviour
  MaxTasks,     \* bound on the operations at the project lock
  MaxFaults     \* bound on the attempts to watch that fail

ASSUME WatchAssumption ==
  /\ Cli \in Holders /\ Renewing \subseteq Holders \ {Cli}
  /\ ExclusiveOps \subseteq {"cleanup", "bounded", "repair"}
  /\ MaxExclusive \in Nat /\ MaxTasks \in Nat /\ MaxFaults \in Nat

VARIABLES
  lease,    \* each holder's stored lease: absent, live, or no longer live
  proc,     \* the root has a processor
  tasks,    \* the operations at the project lock, its owner first
  stage,    \* where the owner of the lock stands
  had,      \* wasWatching of a removal in progress
  mode,     \* the coordinator's state
  op,       \* the exclusive operation in progress
  roots,    \* that operation found the root watched
  owed,     \* the finished operations that have yet to restore the root's watcher
  used,     \* exclusive operations so far
  barred,   \* what refuses to watch the root: its stale index, a paused daemon
  missed,   \* history: an attempt to watch it was refused, skipped or failed
  faults    \* attempts to watch that failed so far

watchVars ==
  <<lease, proc, tasks, stage, had, mode, op, roots, owed, used, barred, missed, faults>>

Kinds == {"watch", "unwatch", "index", "remove"}
Stages == {"lock", "waiting", "admitted", "busy"}

\* The exclusive operations that detach the watchers and restore them.
Restoring == {"bounded", "repair"}

\* An operation of this kind owns the project lock.
Owns(kind) == tasks # <<>> /\ Head(tasks) = kind

WatchTypeOK ==
  /\ lease \in [Holders -> {"none", "live", "lapsed"}]
  /\ proc \in BOOLEAN /\ had \in BOOLEAN /\ missed \in BOOLEAN
  /\ tasks \in Seq(Kinds) /\ Len(tasks) <= MaxTasks
  /\ stage \in Stages
  /\ mode \in {"open", "pending", "drain", "exclusive"}
  /\ op \in {"none", "cleanup", "bounded", "repair"}
  /\ op = "none" <=> mode = "open"
  /\ stage # "lock" => tasks # <<>>
  /\ had => Owns("remove") /\ stage = "busy"
  /\ roots \in BOOLEAN /\ (roots => op \in Restoring)
  /\ owed \subseteq Restoring
  /\ used \in 0..MaxExclusive /\ faults \in 0..MaxFaults
  /\ barred \in {"no", "stale", "paused"}

WatchInit ==
  /\ lease = [h \in Holders |-> "none"]
  /\ proc = FALSE /\ tasks = <<>> /\ stage = "lock" /\ had = FALSE
  /\ mode = "open" /\ op = "none" /\ roots = FALSE /\ owed = {}
  /\ used = 0 /\ barred \in {"no", "stale"} /\ missed = FALSE /\ faults = 0

-----------------------------------------------------------------------------
\* isWanted(root), on which shouldWatch rests.
Wanted == \E h \in Holders : lease[h] = "live"

Queue(kind) == Len(tasks) < MaxTasks /\ tasks' = Append(tasks, kind)

\* The owner of the lock is done; the next one starts at the coordinator.
Unlock == tasks' = Tail(tasks) /\ stage' = "lock"

\* WatcherManager.watchProject: the root has a processor afterwards, unless the
\* stores are gone, a quiesce overtook it or it failed, which callers only log.
ManagerWatch ==
  \/ /\ barred # "paused"
     /\ proc' = TRUE /\ missed' = FALSE /\ UNCHANGED faults
  \/ /\ ~proc
     /\ missed' = TRUE /\ UNCHANGED proc
     /\ IF barred = "paused" THEN UNCHANGED faults
        ELSE faults < MaxFaults /\ faults' = faults + 1

\* No attempt, although one was asked for.
NotWatched == missed' = (missed \/ ~proc) /\ UNCHANGED <<proc, faults>>

\* watchProjectWithinOperation, which every path but the restoring ones takes:
\* it leaves alone what nobody wants, and refuses a stale index and a paused daemon.
OperationWatch(wanted) ==
  \/ ~wanted /\ UNCHANGED <<proc, missed, faults>>
  \/ wanted /\ barred = "no" /\ ManagerWatch
  \/ wanted /\ barred # "no" /\ NotWatched

-----------------------------------------------------------------------------
(* Leases *)

\* watch IPC: take or renew a lease; a root that has a processor needs no more,
\* and a paused daemon does no more.
RequestWatch(h) ==
  /\ lease' = [lease EXCEPT ![h] = "live"]
  /\ IF proc \/ barred = "paused" THEN UNCHANGED <<tasks, missed>>
     ELSE Queue("watch") /\ missed' = FALSE
  /\ UNCHANGED <<proc, stage, had, mode, op, roots, owed, used, barred, faults>>

\* unwatch IPC for the holders H: one of them, or all when none is named.
ReleaseWatch(H) ==
  /\ lease' = [h \in Holders |-> IF h \in H THEN "none" ELSE lease[h]]
  /\ IF ~Wanted' /\ proc THEN Queue("unwatch") ELSE UNCHANGED tasks
  /\ UNCHANGED <<proc, stage, had, mode, op, roots, owed, used, missed, barred, faults>>

\* A lease expires, or its process exits.
Lapse(h) ==
  /\ lease[h] = "live" /\ h \notin Renewing
  /\ lease' = [lease EXCEPT ![h] = "lapsed"]
  /\ UNCHANGED <<proc, tasks, stage, had, mode, op, roots, owed, used, missed, barred, faults>>

\* Heartbeat: drop dead leases; a root that lost its last one is unwatched.
Sweep ==
  /\ \E h \in Holders : lease[h] = "lapsed"
  /\ lease' = [h \in Holders |-> IF lease[h] = "live" THEN "live" ELSE "none"]
  /\ IF ~Wanted /\ proc THEN Queue("unwatch") ELSE UNCHANGED tasks
  /\ UNCHANGED <<proc, stage, had, mode, op, roots, owed, used, missed, barred, faults>>

\* add and index commands take a short lease; indexing of a pending project none.
RequestIndex ==
  /\ Queue("index")
  /\ lease' \in {lease, [lease EXCEPT ![Cli] = "live"]}
  /\ UNCHANGED <<proc, stage, had, mode, op, roots, owed, used, missed, barred, faults>>

RequestRemove ==
  /\ Queue("remove")
  /\ UNCHANGED <<lease, proc, stage, had, mode, op, roots, owed, used, missed, barred, faults>>

-----------------------------------------------------------------------------
(* Operations under the project lock *)

\* The coordinator refuses "watch" outside state open; the others wait behind
\* an operation that queues shared calls, and are refused by a repair.
Enqueue ==
  /\ tasks # <<>> /\ stage = "lock" /\ mode # "open"
  /\ Head(tasks) # "watch" /\ op # "repair"
  /\ stage' = "waiting"
  /\ UNCHANGED <<lease, proc, tasks, had, mode, op, roots, owed, used, missed, barred, faults>>

Refuse ==
  /\ tasks # <<>> /\ stage = "lock" /\ mode # "open"
  /\ Head(tasks) = "watch" \/ op = "repair"
  /\ Unlock
  /\ missed' = (missed \/ (Head(tasks) = "watch" /\ ~proc))
  /\ UNCHANGED <<lease, proc, had, mode, op, roots, owed, used, barred, faults>>

\* A paused daemon admits none of them but the unwatch, which finds nothing to do.
PausedRefuses ==
  /\ tasks # <<>> /\ stage # "busy" /\ barred = "paused"
  /\ Unlock
  /\ UNCHANGED <<lease, proc, had, mode, op, roots, owed, used, barred, missed, faults>>

\* The callback of the owner of the lock may run.
Admitted ==
  /\ stage = "admitted" \/ (stage = "lock" /\ mode = "open")
  /\ barred # "paused"

\* Mutant: the request is dropped.
WatchDropped ==
  /\ Owns("watch") /\ Admitted
  /\ Unlock
  /\ UNCHANGED <<lease, proc, had, mode, op, roots, owed, used, missed, barred, faults>>

\* watchProjectWithinOperation.
Watch ==
  /\ Owns("watch") /\ Admitted
  /\ OperationWatch(Wanted)
  /\ Unlock
  /\ UNCHANGED <<lease, had, mode, op, roots, owed, used, barred>>

\* Mutant: no second look at the leases under the lock.
UnwatchAnyway ==
  /\ Owns("unwatch") /\ Admitted
  /\ proc' = FALSE
  /\ Unlock
  /\ UNCHANGED <<lease, had, mode, op, roots, owed, used, missed, barred, faults>>

\* unwatchProjectIfUnleased looks again and detaches in the same step.
Unwatch ==
  /\ Owns("unwatch") /\ Admitted
  /\ proc' = (proc /\ Wanted)
  /\ Unlock
  /\ UNCHANGED <<lease, had, mode, op, roots, owed, used, missed, barred, faults>>

\* A full index or a removal detaches the root and holds its lock ...
Begin(kind) ==
  /\ Owns(kind) /\ Admitted
  /\ stage' = "busy"
  /\ had' = (kind = "remove" /\ proc)
  /\ proc' = FALSE
  /\ UNCHANGED <<lease, tasks, mode, op, roots, owed, used, missed, barred, faults>>

\* ... unless it returns early: nothing to do, daemon not ready, client gone.
ReturnEarly ==
  /\ Owns("index") \/ Owns("remove")
  /\ Admitted
  /\ Unlock
  /\ UNCHANGED <<lease, proc, had, mode, op, roots, owed, used, missed, barred, faults>>

\* The index finished or failed: the root is watched again while leased.
IndexEnds ==
  /\ Owns("index") /\ stage = "busy"
  /\ OperationWatch(Wanted)
  /\ Unlock
  /\ UNCHANGED <<lease, had, mode, op, roots, owed, used, barred>>

\* The rows are gone and with them every lease ...
RemoveEnds ==
  /\ Owns("remove") /\ stage = "busy"
  /\ lease' = [h \in Holders |-> "none"]
  /\ had' = FALSE
  /\ Unlock
  /\ UNCHANGED <<proc, mode, op, roots, owed, used, missed, barred, faults>>

\* ... or the removal failed and the watcher is restored.
RemoveFails ==
  /\ Owns("remove") /\ stage = "busy"
  /\ OperationWatch(had /\ Wanted)
  /\ had' = FALSE
  /\ Unlock
  /\ UNCHANGED <<lease, mode, op, roots, owed, used, barred>>

-----------------------------------------------------------------------------
(* Exclusive operations *)

\* The quiesce callback lists the watched roots before it detaches them.
StartExclusive(k) ==
  /\ mode = "open" /\ used < MaxExclusive /\ barred # "paused"
  /\ mode' = "pending" /\ op' = k /\ used' = used + 1
  /\ roots' = (k # "cleanup" /\ proc)
  /\ UNCHANGED <<lease, proc, tasks, stage, had, owed, missed, barred, faults>>

\* quiesceAll detaches the roots it listed; version cleanup only pauses them.
Quiesce ==
  /\ mode = "pending"
  /\ mode' = "drain"
  /\ proc' = (proc /\ ~roots)
  /\ UNCHANGED <<lease, tasks, stage, had, op, roots, owed, used, missed, barred, faults>>

DrainDone ==
  /\ mode = "drain" /\ stage \notin {"admitted", "busy"}
  /\ mode' = "exclusive"
  /\ UNCHANGED <<lease, proc, tasks, stage, had, op, roots, owed, used, missed, barred, faults>>

\* Repair re-indexes every project, and detaches first what it finds attached.
RepairDetaches ==
  /\ mode = "exclusive" /\ op = "repair" /\ proc
  /\ proc' = FALSE /\ missed' = (missed \/ ~roots)
  /\ UNCHANGED <<lease, tasks, stage, had, mode, op, roots, owed, used, barred, faults>>

\* Mutant: the roots that were detached are forgotten.
EndRestoresNothing ==
  /\ mode # "open"
  /\ mode' = "open" /\ op' = "none" /\ roots' = FALSE
  /\ stage' = IF stage = "waiting" THEN "admitted" ELSE stage
  /\ UNCHANGED <<lease, proc, tasks, had, owed, used, missed, barred, faults>>

\* Done, failed, timed out or aborted: the coordinator reopens and resumes its
\* waiters; the roots it detached are yet to be restored.  A rebuild may have made
\* a stale index current.
EndExclusive ==
  /\ mode # "open"
  /\ mode' = "open" /\ op' = "none" /\ roots' = FALSE
  /\ owed' = owed \cup (IF roots /\ mode # "pending" THEN {op} ELSE {})
  /\ stage' = IF stage = "waiting" THEN "admitted" ELSE stage
  /\ barred' \in {barred} \cup (IF op = "repair" /\ barred = "stale" THEN {"no"} ELSE {})
  /\ UNCHANGED <<lease, proc, tasks, had, used, missed, faults>>

\* resumeAll, or the last loop of repair: WatcherManager.watchProject as is.  A
\* rebuild skips a root it could not index, and all when it failed past the drop;
\* maintenance restores nothing in a paused daemon.
Restore(k) ==
  /\ k \in owed /\ owed' = owed \ {k}
  /\ ManagerWatch \/ ((k = "repair" \/ barred = "paused") /\ NotWatched)
  /\ UNCHANGED <<lease, tasks, stage, had, mode, op, roots, used, barred>>

\* pauseWork, on memory pressure and until the daemon restarts: every watcher is
\* detached, and what operations do later they do in a paused daemon.
Pause ==
  /\ barred # "paused" /\ barred' = "paused"
  /\ proc' = FALSE /\ missed' = TRUE
  /\ UNCHANGED <<lease, tasks, stage, had, mode, op, roots, owed, used, faults>>

-----------------------------------------------------------------------------
LeaseStep ==
  \/ \E h \in Holders : RequestWatch(h) \/ ReleaseWatch({h}) \/ Lapse(h)
  \/ ReleaseWatch(Holders) \/ Sweep \/ RequestIndex \/ RequestRemove

Coordination == Enqueue \/ Refuse \/ PausedRefuses
Body == Watch \/ Unwatch \/ Begin("index") \/ Begin("remove") \/ ReturnEarly
Ending == IndexEnds \/ RemoveEnds \/ RemoveFails

ExclusiveStep ==
  \/ \E k \in ExclusiveOps : StartExclusive(k)
  \/ Quiesce \/ DrainDone \/ RepairDetaches \/ EndExclusive
  \/ \E k \in Restoring : Restore(k)

WatchNext == LeaseStep \/ Coordination \/ Body \/ Ending \/ ExclusiveStep \/ Pause

WatchSpec == WatchInit /\ [][WatchNext]_watchVars

\* The heartbeat sweeps, operations and exclusive operations end, and sessions
\* renew.  Sweeping and renewing are strongly fair because MaxTasks, which the
\* code does not have, may disable them now and then.
WatchFairness ==
  /\ SF_watchVars(Sweep)
  /\ WF_watchVars(Coordination) /\ WF_watchVars(Body) /\ WF_watchVars(Ending)
  /\ WF_watchVars(Quiesce) /\ WF_watchVars(EndExclusive)
  /\ \A k \in Restoring : WF_watchVars(Restore(k))
  /\ \A h \in Renewing : SF_watchVars(RequestWatch(h))

WatchFairSpec == WatchSpec /\ WatchFairness

-----------------------------------------------------------------------------
(* Properties *)

\* An unwatch that waited for the lock and for admission never detaches a root
\* that gained a lease meanwhile.
NoDetachUnderLease ==
  [][proc /\ ~proc' /\ Owns("unwatch") /\ tasks' = Tail(tasks) => ~Wanted]_watchVars

\* Idle: no operation holds or awaits the lock, none runs exclusively, none
\* owes a watcher.
Idle == tasks = <<>> /\ mode = "open" /\ owed = {}

\* Once everything has settled a root that a session holds is watched, whatever
\* mix of requests, lapses, indexes, removals and exclusive operations came
\* before, unless an attempt to watch it since it was last asked for was refused,
\* skipped or failed, or a repair detached it behind its back.
LeasedIsWatched ==
  Idle /\ (\E h \in Holders \ {Cli} : lease[h] = "live") => proc \/ missed

\* A root whose session keeps its lease, and whose index is current in a daemon
\* that is not paused, is watched again and again: a refusal or a failure is made
\* good by a later renewal.
RenewedIsWatched ==
  \A h \in Renewing : <>[](lease[h] = "live" /\ barred = "no") => []<>proc

\* A root that no lease wants any more ends up unwatched.
UnleasedGetsUnwatched == <>[](~Wanted) => <>[](~proc)
=============================================================================
