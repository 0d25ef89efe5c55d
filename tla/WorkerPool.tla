------------------------------ MODULE WorkerPool ------------------------------
(***************************************************************************)
(* The pool of embedding worker processes (WorkerPool in                   *)
(* src/lib/workers/pool.ts).  Indexing tasks, search tasks and document    *)
(* queries that may only use a worker which is already warm share a few    *)
(* child processes that crash, hang and ignore signals.                    *)
(*                                                                         *)
(* A handler and the dispatch() it ends with are one JavaScript turn: the  *)
(* handler sets pump, and until the loop of dispatch() has run dry nothing *)
(* else moves.  A process ends and the pool hears of it in one step: what  *)
(* is sent to it in between is lost with it.                               *)
(*                                                                         *)
(* Entries leave the lists of tasks and of workers anywhere.  Such a list  *)
(* is the set of its members and, for each, those that came before it.     *)
(***************************************************************************)
EXTENDS Integers, FiniteSets

CONSTANTS
  FileTasks,     \* calls of processFile
  Queries,       \* calls of encodeQuery and rerank
  Existing,      \* calls of encodeQueryExisting
  FileOf,        \* the file of each file task
  Ids,           \* names for child processes, reused after their exit
  MaxWorkers,
  FileCpuLimit,  \* fileCpuLimit, one less than the CPUs
  Backlog,       \* SCALE_UP_BACKLOG_PER_WORKER (4 in the code)
  WaiterLimit,   \* EXISTING_QUERY_QUEUE_LIMIT (4 in the code)
  MaxRespawns,   \* MAX_RESPAWNS (10 in the code)
  MayDeny,       \* host pressure may refuse a spawn or a dispatch
  MayReap,       \* idle, bloated and stuck workers are reaped
  None

Ordinary == FileTasks \union Queries
Tasks == Ordinary \union Existing

ASSUME PoolAssumption ==
  /\ FileTasks \intersect Queries = {} /\ Ordinary \intersect Existing = {}
  /\ Ids \subseteq Nat /\ IsFiniteSet(Ids) /\ Cardinality(Ids) > MaxWorkers
  /\ {MaxWorkers, FileCpuLimit, WaiterLimit} \subseteq Nat \ {0}
  /\ {Backlog, MaxRespawns} \subseteq Nat
  /\ {MayDeny, MayReap} \subseteq BOOLEAN
  /\ None \notin Tasks \union Ids

VARIABLES
  st,       \* the task in the pool: new, queued, assigned or gone
  caller,   \* the promise of its caller
  who,      \* the worker it is assigned to
  ahead,    \* for each queued task those that wait before it
  workers,  \* the workers dispatch() may use
  elders,   \* for each of them those before it
  retiring, \* workers that were killed and may still own their task
  proc,     \* the child processes
  hosts,    \* the native work of each process
  warm,     \* queryReady
  quiet,    \* suppressReplacement
  respawns, limit, \* consecutiveRespawns, respawnLimitReached
  denied,   \* spawnDeniedReason
  timer,    \* the task the scale-up timer is armed for
  old,      \* tasks that waited SCALE_UP_WAIT_MS
  burst,    \* existingBurst
  ending,   \* how far destroy() is
  strict,   \* requireExit of destroy()
  pump      \* dispatch() is running

taskVars == <<st, caller, who, ahead, old>>
procVars == <<workers, elders, retiring, proc, hosts, warm, quiet>>
ruleVars == <<respawns, limit, denied, timer, burst>>
endVars == <<ending, strict>>
poolVars == <<taskVars, procVars, ruleVars, endVars, pump>>

PoolInit ==
  /\ st = [t \in Tasks |-> "new"] /\ caller = [t \in Tasks |-> "none"]
  /\ who = [t \in Tasks |-> None] /\ ahead = [t \in Tasks |-> {}] /\ old = {}
  /\ \E first \in Ids :
       /\ \A i \in Ids : first <= i
       /\ workers = {first} /\ proc = [i \in Ids |-> IF i = first THEN "up" ELSE "none"]
  /\ elders = [i \in Ids |-> {}] /\ retiring = {} /\ hosts = [i \in Ids |-> None] /\ warm = {} /\ quiet = {}
  /\ respawns = 0 /\ limit = FALSE /\ denied = FALSE /\ timer = None /\ burst = 0
  /\ ending = "no" /\ strict = FALSE /\ pump = FALSE

-----------------------------------------------------------------------------
Assigned == {t \in Tasks : st[t] = "assigned"}
Busy(w) == \E t \in Assigned : who[t] = w
Owned(w) == {t \in Assigned : who[t] = w}

\* Mutant: no worker is kept from indexing.
BackgroundTakesAll == IF FileCpuLimit < MaxWorkers THEN FileCpuLimit ELSE MaxWorkers

\* backgroundIndexingLimit: files may take all workers but one.
BackgroundIndexingLimit ==
  LET most == IF MaxWorkers > 1 THEN MaxWorkers - 1 ELSE 1
  IN IF FileCpuLimit < most THEN FileCpuLimit ELSE most

\* A retry of a file waits until the process that last had it is gone.
Dispatchable(t) ==
  /\ st[t] = "queued"
  /\ t \in FileTasks =>
       /\ \A u \in Assigned \intersect FileTasks : FileOf[u] # FileOf[t]
       /\ Cardinality(Assigned \intersect FileTasks) < BackgroundIndexingLimit

Pending == {t \in Ordinary : Dispatchable(t)}
Unassigned == {t \in Ordinary : st[t] = "queued"}
Waiting == {t \in Existing : st[t] = "queued"}

\* Searches go before files.
IsNext(t) ==
  LET urgent == Pending \intersect Queries
      best == IF urgent # {} THEN urgent ELSE Pending
  IN t \in best /\ ahead[t] \intersect best = {}

Idle == {w \in workers : ~Busy(w)}
FirstOf(S, w) == w \in S /\ elders[w] \intersect S = {}
FreeIds == {i \in Ids : proc[i] = "none"}

\* Bound: this many processes may be dying while others take their place.
Room == Cardinality({i \in Ids : proc[i] # "none"} \ workers) < Cardinality(Ids) - MaxWorkers

\* The tasks of S wait no longer.
Leave(S) == ahead' = [t \in Tasks |-> IF t \in S THEN {} ELSE ahead[t] \ S]

\* Every task of S leaves the pool; the callers of S and told that still wait
\* get their answer, a result or an error.
SettleAndTell(S, told) ==
  /\ st' = [t \in Tasks |-> IF t \in S THEN "gone" ELSE st[t]]
  /\ caller' = [t \in Tasks |->
                  IF t \in S \union told /\ caller[t] = "waiting" THEN "settled" ELSE caller[t]]
  /\ who' = [t \in Tasks |-> IF t \in S THEN None ELSE who[t]]
  /\ Leave(S) /\ old' = old \ S

Settle(S) == SettleAndTell(S, {})

\* What is known of the workers outside ws goes with them.
Flags(ws) == warm' = warm \intersect ws /\ quiet' = quiet \intersect ws
Ranks(ws) == [w \in Ids |-> IF w \in ws THEN elders[w] \intersect ws ELSE {}]

\* spawnWorker: the new process, among the workers ws that are left.
Spawned(ws, p) ==
  \E w \in FreeIds :
    /\ \A i \in FreeIds : w <= i
    /\ workers' = ws \union {w} /\ elders' = [Ranks(ws) EXCEPT ![w] = ws]
    /\ proc' = [p EXCEPT ![w] = "up"]
    /\ Flags(ws) /\ denied' = FALSE

NotSpawned(ws, p) == workers' = ws /\ elders' = Ranks(ws) /\ proc' = p /\ Flags(ws)

\* maybeRespawn: counted, refused above the limit, or denied by the host.  The
\* tasks of S fail and those of told are reported failed whatever happens.
Respawn(ws, p, S, told) ==
  \/ /\ denied \/ limit
     /\ NotSpawned(ws, p) /\ SettleAndTell(S, told) /\ UNCHANGED <<respawns, limit, denied>>
  \/ /\ ~denied /\ ~limit /\ respawns = MaxRespawns
     /\ respawns' = respawns + 1 /\ limit' = TRUE /\ UNCHANGED denied
     /\ NotSpawned(ws, p)
     /\ SettleAndTell(S \union (IF ws = {} THEN Unassigned ELSE {}), told)
  \/ /\ ~denied /\ ~limit /\ respawns < MaxRespawns
     /\ respawns' = respawns + 1 /\ UNCHANGED limit
     /\ \/ Spawned(ws, p) /\ SettleAndTell(S, told)
        \/ MayDeny /\ denied' = TRUE /\ NotSpawned(ws, p) /\ SettleAndTell(S \union Unassigned, told)

NoRespawn(ws, p, S, told) ==
  NotSpawned(ws, p) /\ SettleAndTell(S, told) /\ UNCHANGED <<respawns, limit, denied>>

\* After w was lost: the floor of one worker, unless w served only a document
\* query, and nobody idle for the tasks that remain.
Wanted(w, ws, S) ==
  \/ w \notin quiet /\ ws = {}
  \/ /\ \E t \in Unassigned \ S :
          t \in FileTasks =>
            /\ \A u \in (Assigned \ S) \intersect FileTasks : FileOf[u] # FileOf[t]
            /\ Cardinality((Assigned \ S) \intersect FileTasks) < BackgroundIndexingLimit
     /\ \A v \in ws : Busy(v)

Live == ending = "no" /\ ~pump

-----------------------------------------------------------------------------
(* Callers *)

\* existingWorkerState
WarmWorkers == workers \intersect warm
Ready == \E w \in WarmWorkers : ~Busy(w)

\* processFile, encodeQuery, rerank: enqueue()
Call(t) ==
  /\ ~pump /\ st[t] = "new" /\ t \in Ordinary
  /\ IF ending # "no" \/ denied
     THEN /\ st' = [st EXCEPT ![t] = "gone"] /\ caller' = [caller EXCEPT ![t] = "settled"]
          /\ UNCHANGED <<ahead, pump>>
     ELSE /\ st' = [st EXCEPT ![t] = "queued"] /\ caller' = [caller EXCEPT ![t] = "waiting"]
          /\ ahead' = [ahead EXCEPT ![t] = Unassigned] /\ pump' = TRUE
  /\ UNCHANGED <<who, old, procVars, ruleVars, endVars>>

\* encodeQueryExisting: refused at once unless a warm worker is or will be free.
CallExisting(t) ==
  /\ ~pump /\ st[t] = "new" /\ t \in Existing
  /\ IF ending = "no" /\ ~denied /\ WarmWorkers # {} /\ Cardinality(Waiting) < WaiterLimit
     THEN /\ st' = [st EXCEPT ![t] = "queued"] /\ caller' = [caller EXCEPT ![t] = "waiting"]
          /\ ahead' = [ahead EXCEPT ![t] = Waiting] /\ pump' = TRUE
     ELSE /\ st' = [st EXCEPT ![t] = "gone"] /\ caller' = [caller EXCEPT ![t] = "settled"]
          /\ UNCHANGED <<ahead, pump>>
  /\ UNCHANGED <<who, old, procVars, ruleVars, endVars>>

\* The caller aborts, or the wait of a document query runs out.  A task that a
\* worker has keeps the worker.
CallerLeaves(t) ==
  /\ ~pump /\ caller[t] = "waiting"
  /\ IF st[t] = "queued"
     THEN Settle({t}) /\ pump' = TRUE
     ELSE caller' = [caller EXCEPT ![t] = "settled"] /\ UNCHANGED <<st, who, ahead, old, pump>>
  /\ UNCHANGED <<procVars, ruleVars, endVars>>

-----------------------------------------------------------------------------
(* dispatch() *)

Give(t, w) ==
  /\ st' = [st EXCEPT ![t] = "assigned"] /\ who' = [who EXCEPT ![t] = w]
  /\ Leave({t})

\* dispatchExistingWaiters stops: no warm worker is free, or indexing waits.
Blocked == ~Ready \/ (burst >= WaiterLimit /\ Pending # {})

\* No warm worker is left, or the resource budget refuses.
RejectWaiters ==
  /\ pump /\ ~denied /\ Waiting # {}
  /\ WarmWorkers = {} \/ (~Blocked /\ MayDeny)
  /\ Settle(Waiting)
  /\ UNCHANGED <<procVars, ruleVars, endVars, pump>>

ServeExisting ==
  /\ pump /\ ~denied /\ Waiting # {} /\ ~Blocked
  /\ \E t \in Waiting, w \in WarmWorkers :
       /\ ahead[t] = {} /\ FirstOf(Idle \intersect WarmWorkers, w)
       /\ Give(t, w) /\ hosts' = [hosts EXCEPT ![w] = t]
       /\ quiet' = quiet \union {w}
  /\ burst' = burst + 1
  /\ UNCHANGED <<caller, old, workers, elders, retiring, proc, warm, respawns, limit, denied, timer,
                 endVars, pump>>

Passed == Waiting = {} \/ (WarmWorkers # {} /\ Blocked)

\* dispatch() of a pool that was denied; one that now finds the host quarantined;
\* or a spawn or a task that is refused, which does not reach the waiters.
DispatchDenied ==
  /\ pump
  /\ denied' = TRUE /\ pump' = FALSE /\ timer' = None
  /\ \/ /\ denied \/ (MayDeny /\ Passed)
        /\ Settle(Unassigned \union Waiting)
     \/ /\ MayDeny /\ ~denied /\ Passed /\ Pending # {} /\ Waiting # {}
        /\ Settle(Unassigned)
  /\ UNCHANGED <<procVars, respawns, limit, burst, endVars>>

\* Mutant: a search waits for the timer as a file does.
ScaleUpUnhurried ==
  \/ workers = {}
  \/ Cardinality(Pending) > Cardinality(workers) * Backlog
  \/ Pending \intersect old # {}

\* scaleUpDelayMs: a task whose timer fired has waited, as have those before it.
ScaleUpNow ==
  \/ workers = {}
  \/ Pending \intersect Queries # {}
  \/ Cardinality(Pending) > Cardinality(workers) * Backlog
  \/ Pending \intersect old # {}

\* One task goes to an idle worker, or to one spawned for it.
DispatchTask ==
  /\ pump /\ ~denied /\ Passed /\ Pending # {}
  /\ \/ /\ \E t \in Pending, w \in Idle :
            /\ IsNext(t) /\ FirstOf(Idle, w)
            /\ Give(t, w) /\ hosts' = [hosts EXCEPT ![w] = t]
            /\ quiet' = quiet \ {w}
       /\ burst' = 0
       /\ UNCHANGED <<workers, elders, proc, warm, denied>>
     \/ /\ Idle = {} /\ Cardinality(workers) < MaxWorkers /\ ~limit /\ ScaleUpNow
       /\ Spawned(workers, proc)
       /\ UNCHANGED <<st, who, ahead, hosts, burst>>
  /\ UNCHANGED <<caller, old, retiring, respawns, limit, timer, endVars, pump>>

\* dispatch() has nothing to do, or must wait.
DispatchEnds ==
  /\ pump /\ ~denied /\ Passed
  /\ \/ Pending = {} /\ timer' = None /\ UNCHANGED taskVars
     \/ /\ Pending # {} /\ Idle = {} /\ Cardinality(workers) >= MaxWorkers
        /\ UNCHANGED <<timer, taskVars>>
     \/ /\ Pending # {} /\ Idle = {} /\ Cardinality(workers) < MaxWorkers
        /\ \/ limit /\ UNCHANGED timer
              /\ IF workers = {} THEN Settle(Unassigned) ELSE UNCHANGED taskVars
           \/ /\ ~limit /\ ~ScaleUpNow /\ UNCHANGED taskVars
              /\ timer' \in IF timer # None THEN {timer} ELSE {t \in Pending : ahead[t] \intersect Pending = {}}
  /\ pump' = FALSE
  /\ UNCHANGED <<procVars, respawns, limit, denied, burst, endVars>>

\* armScaleUpTimer's callback.
ScaleUpTimer ==
  /\ Live /\ timer # None
  /\ timer' = None /\ pump' = TRUE
  /\ old' = IF timer \in Unassigned THEN old \union {timer} \union ahead[timer] ELSE old
  /\ UNCHANGED <<st, caller, who, ahead, procVars, respawns, limit, denied, burst, endVars>>

-----------------------------------------------------------------------------
(* Workers *)

Lost(w) == workers \ {w}
Killed(w) == [proc EXCEPT ![w] = "killed"]
Gone(w) == [proc EXCEPT ![w] = "none"]

\* A heartbeat of an indexing task reports that the query model is loaded.
Warms(w) ==
  /\ Live /\ w \in workers \ warm /\ hosts[w] \in FileTasks
  /\ warm' = warm \union {w}
  /\ UNCHANGED <<taskVars, workers, elders, retiring, proc, hosts, quiet, ruleVars, endVars, pump>>

\* recycleWorker: the last worker is replaced, unless it served only a document
\* query.  The tasks of S are done.
Recycle(w, S) ==
  LET floor == Lost(w) = {} /\ w \notin quiet
  IN \/ ~floor /\ NotSpawned(Lost(w), Killed(w)) /\ Settle(S) /\ UNCHANGED denied
     \/ floor /\ ~denied /\ Spawned(Lost(w), Killed(w)) /\ Settle(S)
     \/ /\ floor /\ (denied \/ MayDeny)
        /\ denied' = TRUE /\ NotSpawned(Lost(w), Killed(w)) /\ Settle(S \union Unassigned)

\* A result or an error arrives; the respawn counter starts anew, and a worker
\* that has grown too large is recycled.
Result(w) ==
  /\ Live /\ w \in workers /\ hosts[w] # None
  /\ \/ /\ warm' \in {warm \union {w}, warm \ {w}} /\ Settle({hosts[w]})
        /\ UNCHANGED <<workers, elders, proc, quiet, denied>>
     \/ MayReap /\ Room /\ Recycle(w, {hosts[w]})
  /\ hosts' = [hosts EXCEPT ![w] = None]
  /\ respawns' = 0 /\ limit' = FALSE /\ pump' = TRUE
  /\ UNCHANGED <<retiring, timer, burst, endVars>>

\* reapBloatedWorkers and, above the floor, reapIdleWorkers.
Reap(w) ==
  /\ MayReap /\ Live /\ Room /\ w \in workers /\ ~Busy(w)
  /\ Recycle(w, {})
  /\ UNCHANGED <<hosts, retiring, respawns, limit, timer, burst, endVars, pump>>

\* reapStuckWorkers: killed, and left to the exit handler.
ReapStuck(w) ==
  /\ MayReap /\ Live /\ w \in workers /\ Busy(w) /\ proc[w] = "up"
  /\ proc' = [proc EXCEPT ![w] = "killed"]
  /\ UNCHANGED <<taskVars, workers, elders, retiring, hosts, warm, quiet, ruleVars, endVars, pump>>

\* A process nobody listens to any more ends.
Dies(w) ==
  /\ ~pump /\ proc[w] # "none" /\ (ending = "no" => w \notin workers \union retiring)
  /\ proc' = Gone(w) /\ hosts' = [hosts EXCEPT ![w] = None]
  /\ UNCHANGED <<taskVars, workers, elders, retiring, warm, quiet, ruleVars, endVars, pump>>

\* Mutant: the dispatch at the end is forgotten.
ExitWithoutDispatch(w) ==
  /\ Live /\ w \in workers
  /\ IF Wanted(w, Lost(w), Owned(w)) THEN Respawn(Lost(w), Gone(w), Owned(w), {})
                                     ELSE NoRespawn(Lost(w), Gone(w), Owned(w), {})
  /\ hosts' = [hosts EXCEPT ![w] = None]
  /\ UNCHANGED <<retiring, timer, burst, endVars, pump>>

\* A tracked process ends, on its own or by a signal: handleWorkerExit.
Exit(w) ==
  /\ Live /\ w \in workers
  /\ IF Wanted(w, Lost(w), Owned(w)) THEN Respawn(Lost(w), Gone(w), Owned(w), {})
                                     ELSE NoRespawn(Lost(w), Gone(w), Owned(w), {})
  /\ hosts' = [hosts EXCEPT ![w] = None]
  /\ pump' = TRUE
  /\ UNCHANGED <<retiring, timer, burst, endVars>>

\* Mutant: the task of a killed process is given up at once.
RetireReleases(w) ==
  /\ Live /\ Room /\ w \in workers
  /\ retiring' = retiring \union {w}
  /\ IF Wanted(w, Lost(w), Owned(w)) THEN Respawn(Lost(w), Killed(w), Owned(w), {})
                                     ELSE NoRespawn(Lost(w), Killed(w), Owned(w), {})
  /\ pump' = TRUE /\ UNCHANGED <<hosts, timer, burst, endVars>>

\* Mutant: nobody tells the caller.
RetireSilently(w) ==
  /\ Live /\ Room /\ w \in workers
  /\ retiring' = retiring \union {w}
  /\ NoRespawn(Lost(w), Killed(w), {}, {})
  /\ pump' = TRUE /\ UNCHANGED <<hosts, timer, burst, endVars>>

\* A deadline of a task passes or the channel of its worker fails: the caller
\* is told, the worker killed, and its task stays assigned until it is gone.
Retire(w) ==
  /\ Live /\ Room /\ w \in workers
  /\ retiring' = retiring \union {w}
  /\ IF Wanted(w, Lost(w), {}) THEN Respawn(Lost(w), Killed(w), {}, Owned(w))
                               ELSE NoRespawn(Lost(w), Killed(w), {}, Owned(w))
  /\ pump' = TRUE /\ UNCHANGED <<hosts, timer, burst, endVars>>

\* The exit handler of a retired worker; the caller was told when it was retired.
RetiredExit(w) ==
  /\ Live /\ w \in retiring
  /\ retiring' = retiring \ {w}
  /\ proc' = Gone(w) /\ hosts' = [hosts EXCEPT ![w] = None]
  /\ st' = [t \in Tasks |-> IF t \in Owned(w) THEN "gone" ELSE st[t]]
  /\ who' = [t \in Tasks |-> IF t \in Owned(w) THEN None ELSE who[t]]
  /\ pump' = TRUE
  /\ UNCHANGED <<caller, ahead, old, workers, elders, warm, quiet, ruleVars, endVars>>

-----------------------------------------------------------------------------
(* destroy() *)

Destroy(requireExit) ==
  /\ Live
  /\ ending' = "closing" /\ strict' = requireExit /\ timer' = None
  /\ Settle({t \in Tasks : st[t] \in {"queued", "assigned"}})
  /\ proc' = [w \in Ids |-> IF w \in workers \union retiring /\ proc[w] = "up"
                            THEN "killed" ELSE proc[w]]
  /\ UNCHANGED <<workers, elders, retiring, hosts, warm, quiet, respawns, limit, denied, burst, pump>>

Exited == {w \in Ids : proc[w] = "none"}

\* Mutant: the deadline counts as an exit also where exits are required.
DestroyAssumesExit ==
  /\ ending = "closing" /\ ending' = "done" /\ workers' = {} /\ retiring' = {}
  /\ elders' = Ranks(workers')
  /\ UNCHANGED <<taskVars, proc, hosts, warm, quiet, ruleVars, strict, pump>>

\* Every worker exited, or its deadline passed: then a strict shutdown fails.
DestroyEnds ==
  /\ ending = "closing"
  /\ IF strict
     THEN /\ workers' = workers \ Exited /\ retiring' = retiring \ Exited
          /\ ending' = IF workers' = {} /\ retiring' = {} THEN "done" ELSE "failed"
     ELSE workers' = {} /\ retiring' = {} /\ ending' = "done"
  /\ elders' = Ranks(workers')
  /\ UNCHANGED <<taskVars, proc, hosts, warm, quiet, ruleVars, strict, pump>>

-----------------------------------------------------------------------------
Dispatch == RejectWaiters \/ ServeExisting \/ DispatchDenied \/ DispatchTask \/ DispatchEnds

PoolNext ==
  \/ Dispatch \/ ScaleUpTimer
  \/ \E t \in Tasks : Call(t) \/ CallExisting(t) \/ CallerLeaves(t)
  \/ \E w \in Ids :
       Warms(w) \/ Result(w) \/ Reap(w) \/ ReapStuck(w) \/ Dies(w) \/ Exit(w)
       \/ Retire(w) \/ RetiredExit(w)
  \/ \E requireExit \in BOOLEAN : Destroy(requireExit)
  \/ DestroyEnds

PoolSpec == PoolInit /\ [][PoolNext]_poolVars

\* Turns end, timers and deadlines pass, and among the processes that were killed
\* some exit is noticed.  No worker need ever answer.  A document query has no
\* deadline on its worker: the reaper of stuck workers stands in for it.
KilledExit(w) == proc[w] = "killed" /\ (Dies(w) \/ Exit(w) \/ RetiredExit(w))

Deadline(w) ==
  \/ Owned(w) \intersect Ordinary # {} /\ Retire(w)
  \/ Owned(w) \intersect Existing # {} /\ ReapStuck(w)

PoolFairness ==
  /\ WF_poolVars(Dispatch) /\ WF_poolVars(ScaleUpTimer)
  /\ SF_poolVars(\E w \in Ids : KilledExit(w))
  /\ SF_poolVars(\E w \in Ids : Deadline(w))
  /\ SF_poolVars(\E t \in Existing : CallerLeaves(t))

PoolFairSpec == PoolSpec /\ PoolFairness

-----------------------------------------------------------------------------
(* Properties *)

PoolTypeOK ==
  /\ st \in [Tasks -> {"new", "queued", "assigned", "gone"}]
  /\ caller \in [Tasks -> {"none", "waiting", "settled"}]
  /\ who \in [Tasks -> Ids \union {None}]
  /\ ahead \in [Tasks -> SUBSET Tasks] /\ elders \in [Ids -> SUBSET Ids] /\ old \subseteq Ordinary
  /\ workers \union retiring \subseteq Ids /\ workers \intersect retiring = {}
  /\ proc \in [Ids -> {"none", "up", "killed"}]
  /\ hosts \in [Ids -> Tasks \union {None}] /\ warm \subseteq Ids /\ quiet \subseteq Ids
  /\ respawns \in 0..(MaxRespawns + 1) /\ Cardinality(workers) <= MaxWorkers
  /\ {limit, denied, strict, pump} \subseteq BOOLEAN
  /\ timer \in Ordinary \union {None} /\ ending \in {"no", "closing", "done", "failed"}

\* Two processes never index the same file, whatever was timed out, aborted or
\* retried meanwhile: their writes would interleave.
OneOwnerPerFile ==
  \A v, w \in Ids :
    v # w /\ hosts[v] \in FileTasks /\ hosts[w] \in FileTasks => FileOf[hosts[v]] # FileOf[hosts[w]]

\* Between turns no task waits beside a worker that could take it, and one that
\* waits has something that will wake it: a busy worker or the timer.
NoWorkBesideIdle ==
  Live /\ ~denied =>
    /\ Pending # {} =>
         /\ Idle = {}
         /\ Cardinality(workers) >= MaxWorkers \/ timer # None \/ (limit /\ workers # {})
    /\ Waiting # {} => WarmWorkers # {} /\ ~Ready

\* A worker is kept for searches.  Where the pool may have two, native work on
\* files, that of killed processes included, never takes all of them; and a
\* search waits only in a full pool that serves another search or query, unless
\* the respawn limit stopped its growth.
SearchesFindRoom ==
  Live /\ MaxWorkers > 1 =>
    /\ Cardinality({w \in Ids : hosts[w] \in FileTasks}) < MaxWorkers
    /\ Pending \intersect Queries # {} /\ ~limit =>
         Cardinality(workers) >= MaxWorkers /\ \E w \in workers : hosts[w] \in Tasks \ FileTasks

\* A strict shutdown that succeeds leaves no native work behind.
StrictMeansQuiet == ending = "done" /\ strict => \A w \in Ids : hosts[w] = None

\* Every call is answered, though workers hang, crash and ignore signals.
EveryTaskSettles == \A t \in Tasks : caller[t] = "waiting" ~> caller[t] # "waiting"
=============================================================================
