---------------------------- MODULE WorkerPoolProofs ----------------------------
(***************************************************************************)
(* The worker pool for any number of tasks, workers and respawns: two      *)
(* processes never index one file, no task waits beside an idle worker, a  *)
(* worker is kept for searches, and a strict shutdown is quiet.            *)
(*                                                                         *)
(* What a process works on is a fact about the world that the pool cannot  *)
(* see; the invariant says that its books, the tasks it holds assigned and *)
(* the workers it still watches, never lag behind that fact.               *)
(***************************************************************************)
EXTENDS WorkerPool, FiniteSetTheorems, FunctionTheorems, TLAPS

\* What the argument needs of the types.
ProcStates == {"none", "up", "killed"}

PoolShape ==
  /\ st \in [Tasks -> {"new", "queued", "assigned", "gone"}] /\ who \in [Tasks -> Ids \union {None}]
  /\ workers \subseteq Ids /\ retiring \subseteq Ids
  /\ proc \in [Ids -> ProcStates] /\ hosts \in [Ids -> Tasks \union {None}]
  /\ ending \in {"no", "closing", "done", "failed"} /\ pump \in BOOLEAN

\* A task is assigned as long as a process may work on it, and a process that
\* works on something is still watched; no two assigned tasks are for one file.
Ownership ==
  ending = "no" =>
    /\ \A t \in Assigned : who[t] \in workers \union retiring /\ hosts[who[t]] = t
    /\ \A w \in Ids : hosts[w] # None => hosts[w] \in Assigned /\ who[hosts[w]] = w
    /\ \A t, u \in Assigned \intersect FileTasks : t # u => FileOf[t] # FileOf[u]

\* Native work has a process, which the pool forgets only in a shutdown that is
\* not strict.
Watched ==
  /\ workers \intersect retiring = {}
  /\ \A w \in Ids :
       /\ ending = "no" /\ w \in workers \union retiring => proc[w] # "none"
       /\ hosts[w] # None => /\ proc[w] # "none"
                             /\ ending # "done" \/ strict => w \in workers \union retiring

\* After destroy() has begun no task is in the pool and nothing is dispatched.
Ended ==
  ending # "no" => /\ OneOwnerPerFile /\ ~pump
                   /\ \A t \in Tasks : st[t] \notin {"queued", "assigned"}
                   /\ ending = "done" /\ strict => workers \union retiring = {}

\* A pool that was refused has given up its queue.
DeniedIsEmpty == Live /\ denied => Unassigned = {}

\* A search that waits has seen the pool grow as far as it may.
FullPool ==
  Live /\ Pending \intersect Queries # {} => Cardinality(workers) >= MaxWorkers \/ limit

\* The inductive invariant.
PoolInv ==
  PoolShape /\ Ownership /\ Watched /\ Ended /\ DeniedIsEmpty /\ NoWorkBesideIdle /\ FullPool

\* An idle worker gets a task for a file that nobody works on.
LEMMA GiveKeeps ==
  ASSUME PoolInv, pump, NEW t \in Tasks, NEW w \in workers, st[t] = "queued", ~Busy(w),
         t \in FileTasks => \A u \in Assigned \intersect FileTasks : FileOf[u] # FileOf[t],
         Give(t, w), hosts' = [hosts EXCEPT ![w] = t], UNCHANGED <<workers, retiring, proc, endVars, pump>>
  PROVE  PoolInv'
<1>. USE PoolAssumption DEF PoolInv, PoolShape, endVars, Tasks, Ordinary, Assigned, Live
<1>1. ending = "no" /\ w \in Ids
  BY DEF Ended
<1>2. hosts[w] = None
  BY <1>1 DEF Ownership, Busy
<1>3. /\ st' = [st EXCEPT ![t] = "assigned"] /\ who' = [who EXCEPT ![t] = w]
      /\ \A v \in Ids : hosts'[v] = IF v = w THEN t ELSE hosts[v]
  BY <1>1 DEF Give
<1>4. PoolShape'
  BY <1>1, <1>3
<1>5. Ownership'
  BY <1>1, <1>2, <1>3 DEF Ownership
<1>6. Watched'
  BY <1>1, <1>3 DEF Watched
<1>7. Ended' /\ DeniedIsEmpty' /\ NoWorkBesideIdle' /\ FullPool'
  BY <1>1 DEF Ended, DeniedIsEmpty, NoWorkBesideIdle, FullPool
<1>. QED BY <1>4, <1>5, <1>6, <1>7

\* The workers ws are left, with a new process perhaps, and the tasks of S go,
\* with all that wait perhaps.
Loss(ws, p, S) ==
  /\ \E T \in SUBSET Tasks :
       /\ S \subseteq T /\ T \subseteq S \union {t \in Tasks : st[t] = "queued"}
       /\ st' = [t \in Tasks |-> IF t \in T THEN "gone" ELSE st[t]]
       /\ who' = [t \in Tasks |-> IF t \in T THEN None ELSE who[t]]
  /\ ws \subseteq workers' /\ workers' \subseteq Ids /\ proc' \in [Ids -> ProcStates]
  /\ \A v \in Ids : IF v \in workers' \ ws THEN proc[v] = "none" /\ proc'[v] = "up" ELSE proc'[v] = p[v]

\* One of the tasks of S and a set of waiting ones go.
LEMMA SettleEffect ==
  ASSUME NEW S \in SUBSET Tasks, NEW Q \in SUBSET Unassigned, NEW told, SettleAndTell(S \union Q, told)
  PROVE  \E T \in SUBSET Tasks :
           /\ S \subseteq T /\ T \subseteq S \union {t \in Tasks : st[t] = "queued"}
           /\ st' = [t \in Tasks |-> IF t \in T THEN "gone" ELSE st[t]]
           /\ who' = [t \in Tasks |-> IF t \in T THEN None ELSE who[t]]
<1>1. Q \subseteq {t \in Tasks : st[t] = "queued"}
  BY DEF Unassigned, Tasks
<1>2. S \union Q \in SUBSET Tasks
  BY <1>1
<1>. QED BY <1>1, <1>2 DEF SettleAndTell

LEMMA SpawnEffect ==
  ASSUME PoolShape, NEW ws \in SUBSET Ids, NEW p \in [Ids -> ProcStates],
         \A v \in ws : proc[v] # "none", Spawned(ws, p) \/ NotSpawned(ws, p)
  PROVE  /\ ws \subseteq workers' /\ workers' \subseteq Ids /\ proc' \in [Ids -> ProcStates]
         /\ \A v \in Ids : IF v \in workers' \ ws THEN proc[v] = "none" /\ proc'[v] = "up" ELSE proc'[v] = p[v]
<1>1. CASE NotSpawned(ws, p)
  BY <1>1 DEF NotSpawned
<1>2. CASE Spawned(ws, p)
  <2>1. PICK w \in FreeIds : workers' = ws \union {w} /\ proc' = [p EXCEPT ![w] = "up"]
    BY <1>2 DEF Spawned
  <2>. QED BY <2>1 DEF FreeIds, ProcStates
<1>. QED BY <1>1, <1>2

\* What follows the loss of a worker.
LEMMA LossEffect ==
  ASSUME PoolShape, NEW ws \in SUBSET Ids, NEW p \in [Ids -> ProcStates], NEW S \in SUBSET Tasks, NEW told,
         \A v \in ws : proc[v] # "none",
         Respawn(ws, p, S, told) \/ NoRespawn(ws, p, S, told)
  PROVE  Loss(ws, p, S)
<1>1. Spawned(ws, p) \/ NotSpawned(ws, p)
  BY DEF Respawn, NoRespawn
<1>2. \E Q \in SUBSET Unassigned : SettleAndTell(S \union Q, told)
  <2>1. SettleAndTell(S, told) \/ SettleAndTell(S \union Unassigned, told) \/ SettleAndTell(S \union {}, told)
    BY DEF Respawn, NoRespawn
  <2>2. S \union {} = S
    OBVIOUS
  <2>. QED BY <2>1, <2>2
<1>3. PICK Q \in SUBSET Unassigned : SettleAndTell(S \union Q, told)
  BY <1>2
<1>4. /\ ws \subseteq workers' /\ workers' \subseteq Ids /\ proc' \in [Ids -> ProcStates]
      /\ \A v \in Ids : IF v \in workers' \ ws THEN proc[v] = "none" /\ proc'[v] = "up" ELSE proc'[v] = p[v]
  BY <1>1, SpawnEffect
<1>. QED BY <1>3, <1>4, SettleEffect DEF Loss

\* What follows the retirement of a worker.
LEMMA RecycleEffect ==
  ASSUME PoolShape, Watched, ending = "no", NEW w \in workers, NEW S \in SUBSET Tasks, Recycle(w, S)
  PROVE  Loss(Lost(w), Killed(w), S)
<1>. DEFINE ws == Lost(w)
            p == Killed(w)
<1>1. ws \in SUBSET Ids /\ p \in [Ids -> ProcStates] /\ \A v \in ws : proc[v] # "none"
  BY DEF Lost, Killed, PoolShape, ProcStates, Watched
<1>2. Spawned(ws, p) \/ NotSpawned(ws, p)
  BY DEF Recycle
<1>3. \E Q \in SUBSET Unassigned : SettleAndTell(S \union Q, {})
  <2>1. SettleAndTell(S \union {}, {}) \/ SettleAndTell(S \union Unassigned, {})
    <3>1. S \union {} = S
      OBVIOUS
    <3>. QED BY <3>1 DEF Recycle, Settle
  <2>. QED BY <2>1
<1>. HIDE DEF ws, p
<1>4. PICK Q \in SUBSET Unassigned : SettleAndTell(S \union Q, {})
  BY <1>3
<1>5. /\ ws \subseteq workers' /\ workers' \subseteq Ids /\ proc' \in [Ids -> ProcStates]
      /\ \A v \in Ids : IF v \in workers' \ ws THEN proc[v] = "none" /\ proc'[v] = "up" ELSE proc'[v] = p[v]
  BY <1>1, <1>2, SpawnEffect
<1>6. Loss(ws, p, S)
  BY <1>4, <1>5, SettleEffect DEF Loss
<1>. QED BY <1>6 DEF ws, p

\* A worker is lost with its tasks, or retired with them.
LEMMA LossKeeps ==
  ASSUME PoolInv, Live, NEW w \in workers, NEW p \in [Ids -> ProcStates], \A v \in Ids \ {w} : p[v] = proc[v],
         NEW S \in SUBSET Tasks, Loss(Lost(w), p, S), UNCHANGED endVars,
         \/ /\ S = Owned(w) /\ hosts' = [hosts EXCEPT ![w] = None] /\ retiring' = retiring
         \/ /\ S = {} /\ hosts' = hosts /\ retiring' = retiring \union {w} /\ p[w] = "killed",
         pump' \in BOOLEAN
  PROVE  PoolShape' /\ Ownership' /\ Watched' /\ Ended'
<1>. USE DEF PoolInv, PoolShape, endVars
<1>1. PICK T \in SUBSET Tasks :
        /\ S \subseteq T /\ T \subseteq S \union {t \in Tasks : st[t] = "queued"}
        /\ st' = [t \in Tasks |-> IF t \in T THEN "gone" ELSE st[t]]
        /\ who' = [t \in Tasks |-> IF t \in T THEN None ELSE who[t]]
  BY DEF Loss
<1>2. /\ workers \ {w} \subseteq workers' /\ workers' \subseteq Ids /\ proc' \in [Ids -> ProcStates]
      /\ \A v \in Ids : IF v \in workers' \ (workers \ {w}) THEN proc[v] = "none" /\ proc'[v] = "up"
                                                        ELSE proc'[v] = p[v]
  BY DEF Loss, Lost
<1>3. ending = "no" /\ ending' = "no" /\ w \notin retiring /\ w \notin workers' /\ proc[w] # "none"
  BY <1>2 DEF Live, Watched
<1>4. PoolShape'
  BY <1>1, <1>2, <1>3
<1>5. Assigned' = Assigned \ S
  BY <1>1 DEF Assigned, Owned, Tasks
<1>6. \A t \in Assigned' : who'[t] = who[t]
  BY <1>1, <1>5 DEF Assigned
<1>7. Ownership'
  <2>1. CASE S = Owned(w) /\ hosts' = [hosts EXCEPT ![w] = None] /\ retiring' = retiring
    <3>1. ASSUME NEW t \in Assigned' PROVE who'[t] \in workers' \union retiring' /\ hosts'[who'[t]] = t
      <4>1. t \in Assigned /\ who[t] # w /\ who'[t] = who[t]
        BY <1>5, <1>6, <2>1 DEF Owned
      <4>2. who[t] \in workers \union retiring /\ hosts[who[t]] = t
        BY <1>3, <4>1 DEF Ownership
      <4>. QED BY <1>2, <2>1, <4>1, <4>2
    <3>2. ASSUME NEW v \in Ids, hosts'[v] # None PROVE hosts'[v] \in Assigned' /\ who'[hosts'[v]] = v
      <4>1. v # w /\ hosts'[v] = hosts[v]
        BY <2>1, <3>2
      <4>2. hosts[v] \in Assigned /\ who[hosts[v]] = v
        BY <1>3, <3>2, <4>1 DEF Ownership
      <4>. QED BY <1>5, <1>6, <2>1, <4>1, <4>2 DEF Owned
    <3>3. \A t, u \in Assigned' \intersect FileTasks : t # u => FileOf[t] # FileOf[u]
      BY <1>3, <1>5 DEF Ownership
    <3>. QED BY <3>1, <3>2, <3>3 DEF Ownership
  <2>2. CASE S = {} /\ hosts' = hosts /\ retiring' = retiring \union {w}
    BY <1>2, <1>3, <1>5, <1>6, <2>2 DEF Ownership
  <2>. QED BY <2>1, <2>2
<1>8. Watched'
  BY <1>2, <1>3 DEF Watched
<1>9. Ended'
  BY <1>3 DEF Ended
<1>. QED BY <1>4, <1>7, <1>8, <1>9

\* A call waits for a worker, or is answered at once.
LEMMA CallKeeps ==
  ASSUME PoolInv, NEW t \in Tasks, Call(t)
  PROVE  PoolInv'
<1>. USE DEF PoolInv, PoolShape, procVars, ruleVars, endVars, Tasks, Ordinary, Assigned, Live, Call
<1>1. PoolShape'
  OBVIOUS
<1>2. Ownership'
  BY DEF Ownership
<1>3. Watched'
  BY DEF Watched
<1>4. Ended'
  BY DEF Ended, OneOwnerPerFile
<1>5. DeniedIsEmpty'
  BY DEF DeniedIsEmpty, Unassigned
<1>6. NoWorkBesideIdle'
  BY DEF NoWorkBesideIdle
<1>7. FullPool'
  <2>1. CASE pump' = TRUE
    BY <2>1 DEF FullPool
  <2>2. CASE st' = [st EXCEPT ![t] = "gone"]
    <3>1. Pending' = Pending
      BY <2>2 DEF Pending, Dispatchable
    <3>. QED BY <3>1 DEF FullPool
  <2>. QED BY <2>1, <2>2
<1>. QED BY <1>1, <1>2, <1>3, <1>4, <1>5, <1>6, <1>7

\* A document query waits for a warm worker, or is refused.
LEMMA CallExistingKeeps ==
  ASSUME PoolInv, NEW t \in Tasks, CallExisting(t)
  PROVE  PoolInv'
<1>. USE PoolAssumption DEF PoolInv, PoolShape, procVars, ruleVars, endVars, Tasks, Assigned, Live, CallExisting
<1>1. PoolShape'
  OBVIOUS
<1>2. Ownership'
  BY DEF Ownership
<1>3. Watched'
  BY DEF Watched
<1>4. Ended'
  BY DEF Ended, OneOwnerPerFile
<1>5. DeniedIsEmpty'
  BY DEF DeniedIsEmpty, Unassigned
<1>6. NoWorkBesideIdle'
  <2>1. CASE pump' = TRUE
    BY <2>1 DEF NoWorkBesideIdle
  <2>2. CASE st' = [st EXCEPT ![t] = "gone"] /\ pump' = pump
    <3>1. Assigned' = Assigned /\ Waiting' = Waiting /\ t \notin Ordinary
      BY <2>2 DEF Waiting, Ordinary
    <3>2. Pending' = Pending
      BY <2>2, <3>1 DEF Pending, Dispatchable
    <3>3. Idle' = Idle /\ WarmWorkers' = WarmWorkers /\ Ready' = Ready
      BY <2>2, <3>1 DEF Idle, Busy, WarmWorkers, Ready
    <3>. QED BY <2>2, <3>1, <3>2, <3>3 DEF NoWorkBesideIdle
  <2>. QED BY <2>1, <2>2
<1>7. FullPool'
  BY DEF FullPool, Pending, Dispatchable
<1>. QED BY <1>1, <1>2, <1>3, <1>4, <1>5, <1>6, <1>7

\* A caller that leaves takes a waiting task along, not an assigned one.
LEMMA CallerLeavesKeeps ==
  ASSUME PoolInv, NEW t \in Tasks, CallerLeaves(t)
  PROVE  PoolInv'
<1>. USE PoolAssumption DEF PoolInv, PoolShape, procVars, ruleVars, endVars, Assigned, Live, CallerLeaves,
     Settle, SettleAndTell
<1>1. PoolShape'
  <2>1. CASE st[t] = "queued"
    BY <2>1
  <2>2. CASE st[t] # "queued"
    BY <2>2
  <2>. QED BY <2>1, <2>2
<1>2. Ownership'
  BY DEF Ownership
<1>3. Watched'
  BY DEF Watched
<1>4. Ended'
  BY DEF Ended, OneOwnerPerFile
<1>5. DeniedIsEmpty'
  BY DEF DeniedIsEmpty, Unassigned
<1>6. NoWorkBesideIdle'
  BY DEF NoWorkBesideIdle, Ended, Pending, Dispatchable, Waiting, Idle, Busy, WarmWorkers, Ready
<1>7. FullPool'
  BY DEF FullPool, Pending, Dispatchable
<1>. QED BY <1>1, <1>2, <1>3, <1>4, <1>5, <1>6, <1>7

\* Waiting document queries are refused.
LEMMA RejectWaitersKeeps ==
  ASSUME PoolInv, RejectWaiters
  PROVE  PoolInv'
<1>. USE DEF PoolInv, PoolShape, procVars, endVars, Assigned, Live, RejectWaiters, Settle, SettleAndTell
<1>1. PoolShape'
  OBVIOUS
<1>2. Ownership'
  BY DEF Ownership, Waiting, Pending, Unassigned
<1>3. Watched'
  BY DEF Watched
<1>4. Ended'
  BY DEF Ended
<1>5. DeniedIsEmpty'
  BY DEF DeniedIsEmpty
<1>6. NoWorkBesideIdle'
  BY DEF NoWorkBesideIdle
<1>7. FullPool'
  BY DEF FullPool
<1>. QED BY <1>1, <1>2, <1>3, <1>4, <1>5, <1>6, <1>7

\* An idle warm worker gets a document query.
LEMMA ServeExistingKeeps ==
  ASSUME PoolInv, ServeExisting
  PROVE  PoolInv'
<1>1. PICK t \in Waiting, w \in WarmWorkers :
         /\ FirstOf(Idle \intersect WarmWorkers, w) /\ Give(t, w) /\ hosts' = [hosts EXCEPT ![w] = t]
  BY DEF ServeExisting
<1>2. t \in Tasks /\ t \notin FileTasks /\ st[t] = "queued" /\ w \in workers /\ ~Busy(w)
  BY <1>1, PoolAssumption DEF Waiting, WarmWorkers, FirstOf, Idle, Tasks, Ordinary
<1>3. pump /\ UNCHANGED <<workers, retiring, proc, endVars, pump>>
  BY DEF ServeExisting
<1>. QED BY <1>1, <1>2, <1>3, GiveKeeps

\* A pool that was refused gives up its queue.
LEMMA DispatchDeniedKeeps ==
  ASSUME PoolInv, DispatchDenied
  PROVE  PoolInv'
<1>. USE DEF PoolInv, PoolShape, procVars, endVars, Live
<1>1. pump /\ ending = "no" /\ UNCHANGED <<procVars, endVars>> /\ denied'
  BY DEF DispatchDenied, Ended
<1>2. PICK S \in SUBSET Tasks : /\ Unassigned \subseteq S /\ S \subseteq {t \in Tasks : st[t] = "queued"}
                               /\ st' = [t \in Tasks |-> IF t \in S THEN "gone" ELSE st[t]]
                               /\ who' = [t \in Tasks |-> IF t \in S THEN None ELSE who[t]]
  <2>1. Settle(Unassigned) \/ Settle(Unassigned \union Waiting)
    BY DEF DispatchDenied
  <2>2. Unassigned \union Waiting \subseteq {t \in Tasks : st[t] = "queued"}
    BY DEF Unassigned, Waiting, Tasks
  <2>. QED BY <2>1, <2>2 DEF Settle, SettleAndTell
<1>3. PoolShape'
  BY <1>1, <1>2 DEF DispatchDenied
<1>8. Ownership'
  <2>1. Assigned' = Assigned /\ \A t \in Assigned : who'[t] = who[t]
    BY <1>2 DEF Assigned
  <2>. QED BY <1>1, <2>1 DEF Ownership
<1>4. Watched' /\ Ended'
  BY <1>1, <1>2 DEF Watched, Ended, DispatchDenied
<1>5. Unassigned' = {}
  BY <1>2 DEF Unassigned, Tasks
<1>6. Pending' = {}
  BY <1>5 DEF Pending, Dispatchable, Unassigned
<1>7. DeniedIsEmpty' /\ NoWorkBesideIdle' /\ FullPool'
  BY <1>1, <1>5, <1>6 DEF DeniedIsEmpty, NoWorkBesideIdle, FullPool
<1>. QED BY <1>3, <1>4, <1>7, <1>8

\* An idle worker gets a task whose file nobody has, or one is spawned.
LEMMA DispatchTaskKeeps ==
  ASSUME PoolInv, DispatchTask
  PROVE  PoolInv'
<1>. pump /\ UNCHANGED <<retiring, endVars, pump>>
  BY DEF DispatchTask
<1>1. ASSUME NEW t \in Pending, NEW w \in Idle, Give(t, w), hosts' = [hosts EXCEPT ![w] = t],
             UNCHANGED <<workers, proc>>
      PROVE  PoolInv'
  <2>1. t \in Tasks /\ st[t] = "queued" /\ w \in workers /\ ~Busy(w)
    BY DEF Pending, Dispatchable, Idle, Tasks
  <2>2. t \in FileTasks => \A u \in Assigned \intersect FileTasks : FileOf[u] # FileOf[t]
    BY DEF Pending, Dispatchable
  <2>. QED BY <1>1, <2>1, <2>2, GiveKeeps
<1>2. ASSUME Spawned(workers, proc), UNCHANGED <<st, who, hosts>> PROVE PoolInv'
  <2>. USE DEF PoolInv, PoolShape, endVars, Live
  <2>1. /\ workers \subseteq workers' /\ workers' \subseteq Ids /\ proc' \in [Ids -> ProcStates]
        /\ \A v \in Ids : IF v \in workers' \ workers THEN proc[v] = "none" /\ proc'[v] = "up"
                                                   ELSE proc'[v] = proc[v]
    <3>1. \A v \in workers : proc[v] # "none"
      BY DEF Watched, Ended
    <3>2. workers \in SUBSET Ids /\ proc \in [Ids -> ProcStates] /\ PoolShape
      OBVIOUS
    <3>. HIDE DEF PoolInv, PoolShape
    <3>. QED BY <1>2, <3>1, <3>2, SpawnEffect
  <2>2. PoolShape' /\ Ownership'
    BY <1>2, <2>1 DEF Ownership, Assigned
  <2>3. Watched'
    BY <1>2, <2>1 DEF Watched, Ended
  <2>4. Ended' /\ DeniedIsEmpty' /\ NoWorkBesideIdle' /\ FullPool'
    BY DEF Ended, DeniedIsEmpty, NoWorkBesideIdle, FullPool
  <2>. QED BY <2>2, <2>3, <2>4
<1>. QED BY <1>1, <1>2 DEF DispatchTask

\* dispatch() stops when nothing can be given out.
LEMMA DispatchEndsKeeps ==
  ASSUME PoolInv, DispatchEnds
  PROVE  PoolInv'
<1>. USE DEF PoolInv, PoolShape, procVars, endVars, Live
<1>1. pump /\ pump' = FALSE /\ ending = "no" /\ ~denied /\ UNCHANGED <<procVars, endVars, limit, denied>>
  BY DEF DispatchEnds, Ended
<1>2. Waiting # {} => WarmWorkers # {} /\ (~Ready \/ Pending # {})
  BY DEF DispatchEnds, Passed, Blocked
<1>6. Cardinality(workers) \in Nat /\ MaxWorkers \in Nat
  BY PoolAssumption, FS_Subset, FS_CardinalityType
<1>3. ~Ready \/ Idle # {}
  BY DEF Ready, Idle, WarmWorkers
<1>4. CASE UNCHANGED taskVars
  <2>1. /\ Pending' = Pending /\ Waiting' = Waiting /\ Idle' = Idle /\ WarmWorkers' = WarmWorkers
        /\ Ready' = Ready /\ Assigned' = Assigned
    BY <1>1, <1>4 DEF taskVars, Pending, Dispatchable, Waiting, Idle, WarmWorkers, Ready, Busy, Assigned
  <2>2. PoolShape' /\ Watched' /\ Ended' /\ DeniedIsEmpty'
    BY <1>1, <1>4 DEF taskVars, Watched, Ended, DeniedIsEmpty
  <2>6. Ownership'
    BY <1>1, <1>4, <2>1 DEF taskVars, Ownership
  <2>3. Pending # {} =>
          /\ Idle = {}
          /\ Cardinality(workers) >= MaxWorkers \/ timer' # None \/ (limit /\ workers # {})
    <3>1. ASSUME Pending # {}, Cardinality(workers) < MaxWorkers, ~limit PROVE timer' # None
      <4>1. None \notin Pending
        BY PoolAssumption DEF Pending, Tasks
      <4>2. timer' \in IF timer # None THEN {timer} ELSE {t \in Pending : ahead[t] \intersect Pending = {}}
        BY <1>6, <3>1 DEF DispatchEnds
      <4>. QED BY <4>1, <4>2
    <3>2. ASSUME Pending # {}, Cardinality(workers) < MaxWorkers, limit PROVE workers # {}
      <4>1. SUFFICES ASSUME workers = {}, Settle(Unassigned) PROVE FALSE
        BY <1>6, <3>2 DEF DispatchEnds
      <4>2. \A t \in Unassigned : st'[t] = "gone" /\ st[t] = "queued"
        BY <4>1 DEF Settle, SettleAndTell, Unassigned, Tasks
      <4>. QED BY <1>4, <3>2, <4>2 DEF taskVars, Pending, Dispatchable, Unassigned
    <3>. QED BY <1>6, <3>1, <3>2 DEF DispatchEnds
  <2>4. NoWorkBesideIdle'
    BY <1>1, <1>2, <1>3, <2>1, <2>3 DEF NoWorkBesideIdle
  <2>5. FullPool'
    BY <1>1, <1>6, <2>1 DEF FullPool, DispatchEnds, ScaleUpNow
  <2>. QED BY <2>2, <2>4, <2>5, <2>6
<1>5. CASE Settle(Unassigned) /\ workers = {}
  <2>1. /\ st' = [t \in Tasks |-> IF t \in Unassigned THEN "gone" ELSE st[t]]
        /\ who' = [t \in Tasks |-> IF t \in Unassigned THEN None ELSE who[t]]
    BY <1>5 DEF Settle, SettleAndTell
  <2>2. Unassigned' = {} /\ Waiting' = Waiting /\ Assigned' = Assigned
    BY <2>1, PoolAssumption DEF Unassigned, Waiting, Assigned, Tasks
  <2>3. Pending' = {} /\ WarmWorkers = {} /\ Waiting = {}
    BY <1>2, <1>5, <2>2 DEF Pending, Dispatchable, Unassigned, WarmWorkers
  <2>4. \A t \in Assigned : who'[t] = who[t]
    BY <2>1 DEF Assigned, Unassigned
  <2>5. PoolShape'
    BY <1>1, <2>1
  <2>6. Ownership'
    BY <1>1, <2>2, <2>4 DEF Ownership
  <2>7. Watched' /\ Ended'
    BY <1>1 DEF Watched, Ended
  <2>. QED BY <2>2, <2>3, <2>5, <2>6, <2>7 DEF DeniedIsEmpty, NoWorkBesideIdle, FullPool
<1>. QED BY <1>4, <1>5 DEF DispatchEnds

\* The timer dispatches again.
LEMMA ScaleUpTimerKeeps ==
  ASSUME PoolInv, ScaleUpTimer
  PROVE  PoolInv'
<1>. USE DEF PoolInv, PoolShape, procVars, endVars, Assigned, Live, ScaleUpTimer
<1>1. PoolShape'
  OBVIOUS
<1>2. Ownership'
  BY DEF Ownership
<1>3. Watched'
  BY DEF Watched
<1>4. Ended'
  BY DEF Ended
<1>5. DeniedIsEmpty'
  BY DEF DeniedIsEmpty
<1>6. NoWorkBesideIdle'
  BY DEF NoWorkBesideIdle
<1>7. FullPool'
  BY DEF FullPool
<1>. QED BY <1>1, <1>2, <1>3, <1>4, <1>5, <1>6, <1>7

\* A worker that warms up is busy.
LEMMA WarmsKeeps ==
  ASSUME PoolInv, NEW w \in Ids, Warms(w)
  PROVE  PoolInv'
<1>. USE PoolAssumption DEF PoolInv, PoolShape, taskVars, ruleVars, endVars, Tasks, Ordinary, Assigned, Live,
     Warms
<1>1. PoolShape'
  OBVIOUS
<1>2. Ownership'
  BY DEF Ownership
<1>3. Watched'
  BY DEF Watched
<1>4. Ended'
  BY DEF Ended
<1>5. DeniedIsEmpty'
  BY DEF DeniedIsEmpty, Unassigned
<1>6. NoWorkBesideIdle'
  BY DEF NoWorkBesideIdle, Ended, DeniedIsEmpty, Ownership, Pending, Dispatchable, Idle, Busy, WarmWorkers,
     Ready, Unassigned, Waiting
<1>7. FullPool'
  BY DEF FullPool, Pending, Dispatchable
<1>. QED BY <1>1, <1>2, <1>3, <1>4, <1>5, <1>6, <1>7

\* The task that is answered leaves with its work.
LEMMA ResultKeeps ==
  ASSUME PoolInv, NEW w \in Ids, Result(w)
  PROVE  PoolInv'
<1>1. /\ Live /\ w \in workers /\ UNCHANGED <<retiring, endVars>> /\ pump' /\ hosts[w] # None
      /\ hosts' = [hosts EXCEPT ![w] = None]
  BY DEF Result
<1>2. Owned(w) = {hosts[w]} /\ Owned(w) \in SUBSET Tasks
  BY <1>1 DEF PoolInv, PoolShape, Ownership, Owned, Assigned, Live
<1>3. CASE Recycle(w, {hosts[w]})
  <2>1. Loss(Lost(w), Killed(w), Owned(w))
    BY <1>1, <1>2, <1>3, RecycleEffect DEF PoolInv, Live
  <2>2. Killed(w) \in [Ids -> ProcStates] /\ \A v \in Ids \ {w} : Killed(w)[v] = proc[v]
    BY DEF Killed, PoolInv, PoolShape, ProcStates
  <2>. QED BY <1>1, <1>2, <2>1, <2>2, LossKeeps
           DEF PoolInv, DeniedIsEmpty, NoWorkBesideIdle, FullPool, Live
<1>4. CASE Settle({hosts[w]}) /\ UNCHANGED <<workers, proc>>
  <2>. USE DEF PoolInv, PoolShape, Live, endVars
  <2>1. /\ st' = [t \in Tasks |-> IF t = hosts[w] THEN "gone" ELSE st[t]]
        /\ who' = [t \in Tasks |-> IF t = hosts[w] THEN None ELSE who[t]]
    BY <1>4 DEF Settle, SettleAndTell
  <2>2. PoolShape'
    BY <1>1, <1>4, <2>1
  <2>3. Ownership'
    BY <1>1, <1>4, <2>1, PoolAssumption DEF Ownership, Assigned
  <2>4. Watched' /\ Ended'
    BY <1>1, <1>4 DEF Watched, Ended
  <2>. QED BY <1>1, <2>2, <2>3, <2>4 DEF DeniedIsEmpty, NoWorkBesideIdle, FullPool
<1>. QED BY <1>3, <1>4 DEF Result

\* Only an idle worker is reaped, and then nothing waits.
LEMMA ReapKeeps ==
  ASSUME PoolInv, NEW w \in Ids, Reap(w)
  PROVE  PoolInv'
<1>1. /\ Live /\ w \in workers /\ ~Busy(w) /\ UNCHANGED <<hosts, retiring, endVars, pump>> /\ Recycle(w, {})
  BY DEF Reap
<1>2. Owned(w) = {} /\ hosts[w] = None
  BY <1>1 DEF PoolInv, PoolShape, Ownership, Owned, Assigned, Busy, Live
<1>3. hosts' = [hosts EXCEPT ![w] = None]
  BY <1>1, <1>2 DEF PoolInv, PoolShape
<1>4. Loss(Lost(w), Killed(w), {})
  BY <1>1, RecycleEffect DEF PoolInv, Live
<1>5. Killed(w) \in [Ids -> ProcStates] /\ \A v \in Ids \ {w} : Killed(w)[v] = proc[v]
  BY DEF Killed, PoolInv, PoolShape, ProcStates
<1>6. PoolShape' /\ Ownership' /\ Watched' /\ Ended'
  BY <1>1, <1>2, <1>3, <1>4, <1>5, LossKeeps DEF PoolInv, PoolShape
<1>7. Pending = {} /\ (~denied /\ Waiting # {} => WarmWorkers # {} /\ ~Ready)
  <2>1. CASE denied
    BY <1>1, <2>1 DEF PoolInv, DeniedIsEmpty, Pending, Dispatchable, Unassigned
  <2>2. CASE ~denied
    BY <1>1, <2>2 DEF PoolInv, NoWorkBesideIdle, Idle
  <2>. QED BY <2>1, <2>2
<1>8. PICK T \in SUBSET Tasks :
        /\ T \subseteq {t \in Tasks : st[t] = "queued"}
        /\ st' = [t \in Tasks |-> IF t \in T THEN "gone" ELSE st[t]]
        /\ who' = [t \in Tasks |-> IF t \in T THEN None ELSE who[t]]
  BY <1>4 DEF Loss
<1>9. Assigned' = Assigned /\ \A t \in Assigned : who'[t] = who[t]
  BY <1>8 DEF Assigned
<1>10. Pending' = {}
  BY <1>7, <1>8, <1>9 DEF Pending, Dispatchable, Tasks, Ordinary
<1>11. DeniedIsEmpty'
  <2>1. CASE denied
    BY <1>1, <1>8, <2>1 DEF DeniedIsEmpty, Unassigned, Live, PoolInv, Tasks
  <2>2. CASE ~denied /\ denied'
    <3>1. Settle({} \union Unassigned)
      BY <1>1, <2>2 DEF Recycle, Spawned
    <3>. QED BY <3>1 DEF Settle, SettleAndTell, DeniedIsEmpty, Unassigned, Tasks
  <2>. QED BY <2>1, <2>2 DEF DeniedIsEmpty
<1>12. ASSUME ~denied', Waiting' # {} PROVE WarmWorkers' # {} /\ ~Ready'
  <2>1. Waiting # {}
    BY <1>8, <1>12 DEF Waiting, Tasks
  <2>2. ~denied /\ WarmWorkers # {} /\ ~Ready
    BY <1>1, <1>7, <1>12, <2>1 DEF Recycle
  <2>3. w \notin warm /\ workers # {w}
    BY <1>1, <2>2 DEF Ready, WarmWorkers
  <2>4. NotSpawned(Lost(w), Killed(w))
    BY <1>1, <2>3 DEF Recycle, Lost
  <2>5. WarmWorkers' = WarmWorkers
    BY <2>3, <2>4 DEF NotSpawned, Flags, Lost, WarmWorkers
  <2>6. \A v \in Ids : Busy(v) => Busy(v)'
    BY <1>9 DEF Busy
  <2>. QED BY <1>1, <2>2, <2>5, <2>6 DEF Ready, WarmWorkers, PoolInv, PoolShape
<1>. QED BY <1>6, <1>10, <1>11, <1>12 DEF PoolInv, NoWorkBesideIdle, FullPool

\* A stuck worker is killed and stays in the books.
LEMMA ReapStuckKeeps ==
  ASSUME PoolInv, NEW w \in Ids, ReapStuck(w)
  PROVE  PoolInv'
<1>. USE DEF PoolInv, PoolShape, ProcStates, taskVars, ruleVars, endVars, Assigned, Live, ReapStuck
<1>1. PoolShape'
  OBVIOUS
<1>2. Ownership'
  BY DEF Ownership
<1>3. Watched'
  BY DEF Watched
<1>4. Ended'
  BY DEF Ended
<1>5. DeniedIsEmpty'
  BY DEF DeniedIsEmpty, Unassigned
<1>6. NoWorkBesideIdle'
  BY DEF NoWorkBesideIdle, Ended, Pending, Dispatchable, Waiting, Idle, Busy, WarmWorkers, Ready
<1>7. FullPool'
  BY DEF FullPool, Pending, Dispatchable
<1>. QED BY <1>1, <1>2, <1>3, <1>4, <1>5, <1>6, <1>7

\* A process that nobody listens to has no task.
LEMMA DiesKeeps ==
  ASSUME PoolInv, NEW w \in Ids, Dies(w)
  PROVE  PoolInv'
<1>. USE PoolAssumption DEF PoolInv, PoolShape, ProcStates, taskVars, ruleVars, endVars, Tasks, Ordinary,
     Assigned, Live, Dies, Gone
<1>1. PoolShape'
  OBVIOUS
<1>2. Ownership'
  BY DEF Ownership
<1>3. Watched'
  BY DEF Watched
<1>4. Ended'
  BY DEF Ended, OneOwnerPerFile
<1>5. DeniedIsEmpty'
  BY DEF DeniedIsEmpty, Unassigned
<1>6. NoWorkBesideIdle'
  BY DEF NoWorkBesideIdle, Ended, Pending, Dispatchable, Waiting, Idle, Busy, WarmWorkers, Ready
<1>7. FullPool'
  BY DEF FullPool, Pending, Dispatchable
<1>. QED BY <1>1, <1>2, <1>3, <1>4, <1>5, <1>6, <1>7

\* The tasks of a worker that exits fail with it.
LEMMA ExitKeeps ==
  ASSUME PoolInv, NEW w \in Ids, Exit(w)
  PROVE  PoolInv'
<1>1. Live /\ w \in workers /\ UNCHANGED <<retiring, endVars>> /\ pump' /\ hosts' = [hosts EXCEPT ![w] = None]
  BY DEF Exit
<1>2. Lost(w) \in SUBSET Ids /\ Gone(w) \in [Ids -> ProcStates] /\ \A v \in Lost(w) : proc[v] # "none"
  BY <1>1 DEF Lost, Gone, PoolInv, PoolShape, ProcStates, Watched, Live
<1>3. Owned(w) \in SUBSET Tasks
  BY DEF Owned, Assigned
<1>4. Loss(Lost(w), Gone(w), Owned(w))
  BY <1>2, <1>3, LossEffect DEF Exit, PoolInv
<1>5. \A v \in Ids \ {w} : Gone(w)[v] = proc[v]
  BY DEF Gone, PoolInv, PoolShape
<1>6. PoolShape' /\ Ownership' /\ Watched' /\ Ended'
  BY <1>1, <1>2, <1>3, <1>4, <1>5, LossKeeps
<1>. QED BY <1>1, <1>6 DEF PoolInv, DeniedIsEmpty, NoWorkBesideIdle, FullPool, Live

\* A retired worker keeps its task.
LEMMA RetireKeeps ==
  ASSUME PoolInv, NEW w \in Ids, Retire(w)
  PROVE  PoolInv'
<1>1. Live /\ w \in workers /\ UNCHANGED <<hosts, endVars>> /\ pump' /\ retiring' = retiring \union {w}
  BY DEF Retire
<1>2. Lost(w) \in SUBSET Ids /\ Killed(w) \in [Ids -> ProcStates] /\ \A v \in Lost(w) : proc[v] # "none"
  BY <1>1 DEF Lost, Killed, PoolInv, PoolShape, ProcStates, Watched, Live
<1>3. Loss(Lost(w), Killed(w), {})
  BY <1>2, LossEffect DEF Retire, PoolInv
<1>4. Killed(w)[w] = "killed" /\ \A v \in Ids \ {w} : Killed(w)[v] = proc[v]
  BY DEF Killed, PoolInv, PoolShape
<1>5. PoolShape' /\ Ownership' /\ Watched' /\ Ended'
  BY <1>1, <1>2, <1>3, <1>4, LossKeeps
<1>. QED BY <1>1, <1>5 DEF PoolInv, DeniedIsEmpty, NoWorkBesideIdle, FullPool, Live

\* The task of a retired worker goes when it exits.
LEMMA RetiredExitKeeps ==
  ASSUME PoolInv, NEW w \in Ids, RetiredExit(w)
  PROVE  PoolInv'
<1>. USE DEF PoolInv, PoolShape, ProcStates, endVars, Assigned, Live, RetiredExit, Gone, Owned
<1>1. PoolShape'
  OBVIOUS
<1>2. Ownership'
  BY DEF Ownership
<1>3. Watched'
  BY DEF Watched
<1>4. Ended'
  BY DEF Ended
<1>5. DeniedIsEmpty'
  BY DEF DeniedIsEmpty
<1>6. NoWorkBesideIdle'
  BY DEF NoWorkBesideIdle
<1>7. FullPool'
  BY DEF FullPool
<1>. QED BY <1>1, <1>2, <1>3, <1>4, <1>5, <1>6, <1>7

\* destroy() empties the pool and kills every process.
LEMMA DestroyKeeps ==
  ASSUME PoolInv, NEW requireExit \in BOOLEAN, Destroy(requireExit)
  PROVE  PoolInv'
<1>. USE PoolAssumption DEF PoolInv, PoolShape, ProcStates, Tasks, Ordinary, Live, Destroy, Settle,
     SettleAndTell
<1>1. PoolShape'
  OBVIOUS
<1>2. Ownership'
  BY DEF Ownership
<1>3. Watched'
  BY DEF Watched
<1>4. Ended'
  BY DEF Ended, OneOwnerPerFile, Ownership
<1>5. DeniedIsEmpty'
  BY DEF DeniedIsEmpty
<1>6. NoWorkBesideIdle'
  BY DEF NoWorkBesideIdle
<1>7. FullPool'
  BY DEF FullPool
<1>. QED BY <1>1, <1>2, <1>3, <1>4, <1>5, <1>6, <1>7

\* A strict shutdown forgets only what has exited.
LEMMA DestroyEndsKeeps ==
  ASSUME PoolInv, DestroyEnds
  PROVE  PoolInv'
<1>. USE DEF PoolInv, PoolShape, taskVars, Live, DestroyEnds, Exited
<1>1. PoolShape'
  OBVIOUS
<1>2. Ownership'
  BY DEF Ownership
<1>3. Watched'
  <2>1. CASE strict
    BY <2>1 DEF Watched
  <2>2. CASE ~strict
    BY <2>2 DEF Watched
  <2>. QED BY <2>1, <2>2
<1>4. Ended'
  BY DEF Ended, OneOwnerPerFile
<1>5. DeniedIsEmpty'
  BY DEF DeniedIsEmpty
<1>6. NoWorkBesideIdle'
  BY DEF NoWorkBesideIdle
<1>7. FullPool'
  BY DEF FullPool
<1>. QED BY <1>1, <1>2, <1>3, <1>4, <1>5, <1>6, <1>7

\* The first worker is alone and nothing waits.
LEMMA PoolInitially ==
  PoolInit => PoolInv
<1>. SUFFICES ASSUME PoolInit PROVE PoolInv
  OBVIOUS
<1>1. PICK first \in Ids : workers = {first} /\ proc = [i \in Ids |-> IF i = first THEN "up" ELSE "none"]
  BY DEF PoolInit
<1>2. Assigned = {} /\ Pending = {} /\ Unassigned = {} /\ Waiting = {}
  BY DEF PoolInit, Assigned, Pending, Dispatchable, Unassigned, Waiting, Tasks, Ordinary
<1>3. PoolShape
  BY <1>1 DEF PoolInit, PoolShape, ProcStates
<1>4. Ownership
  BY <1>2 DEF PoolInit, Ownership
<1>5. Watched
  BY <1>1 DEF PoolInit, Watched
<1>. QED BY <1>2, <1>3, <1>4, <1>5
         DEF PoolInit, PoolInv, Ended, DeniedIsEmpty, NoWorkBesideIdle, FullPool

\* Nothing the invariant speaks of changes in a step that stutters.
LEMMA PoolStutters ==
  ASSUME PoolInv, UNCHANGED poolVars
  PROVE  PoolInv'
<1>. USE DEF poolVars, taskVars, procVars, ruleVars, endVars
<1>1. /\ Assigned' = Assigned /\ Pending' = Pending /\ Unassigned' = Unassigned /\ Waiting' = Waiting
      /\ Idle' = Idle /\ WarmWorkers' = WarmWorkers /\ Ready' = Ready /\ Live' = Live
  BY DEF Assigned, Pending, Dispatchable, Unassigned, Waiting, Idle, WarmWorkers, Ready, Busy, Live
<1>2. PoolShape' /\ Ownership' /\ Watched'
  BY <1>1 DEF PoolInv, PoolShape, Ownership, Watched
<1>3. Ended' /\ DeniedIsEmpty'
  BY <1>1 DEF PoolInv, Ended, OneOwnerPerFile, DeniedIsEmpty
<1>4. NoWorkBesideIdle' /\ FullPool'
  BY <1>1 DEF PoolInv, NoWorkBesideIdle, FullPool
<1>. QED BY <1>2, <1>3, <1>4 DEF PoolInv

\* Every step keeps the invariant.
LEMMA PoolStepKeeps ==
  PoolInv /\ [PoolNext]_poolVars => PoolInv'
<1>. SUFFICES ASSUME PoolInv, [PoolNext]_poolVars PROVE PoolInv'
  OBVIOUS
<1>1. CASE UNCHANGED poolVars
  BY <1>1, PoolStutters
<1>2. CASE Dispatch
  BY <1>2, RejectWaitersKeeps, ServeExistingKeeps, DispatchDeniedKeeps, DispatchTaskKeeps, DispatchEndsKeeps
  DEF Dispatch
<1>3. CASE ScaleUpTimer
  BY <1>3, ScaleUpTimerKeeps
<1>4. CASE \E t \in Tasks : Call(t) \/ CallExisting(t) \/ CallerLeaves(t)
  BY <1>4, CallKeeps, CallExistingKeeps, CallerLeavesKeeps
<1>5. ASSUME NEW w \in Ids,
             \/ Warms(w) \/ Result(w) \/ Reap(w) \/ ReapStuck(w) \/ Dies(w) \/ Exit(w)
             \/ Retire(w) \/ RetiredExit(w)
      PROVE  PoolInv'
  BY <1>5, WarmsKeeps, ResultKeeps, ReapKeeps, ReapStuckKeeps, DiesKeeps, ExitKeeps, RetireKeeps,
     RetiredExitKeeps
<1>6. CASE \E requireExit \in BOOLEAN : Destroy(requireExit)
  BY <1>6, DestroyKeeps
<1>7. CASE DestroyEnds
  BY <1>7, DestroyEndsKeeps
<1>. QED BY <1>1, <1>2, <1>3, <1>4, <1>5, <1>6, <1>7 DEF PoolNext

\* PoolInv holds in every state of the pool, whatever its size and limits.
THEOREM PoolInvariant == PoolSpec => []PoolInv
BY PoolInitially, PoolStepKeeps, PTL DEF PoolSpec

\* Two processes never index one file: what a process works on is assigned to
\* it, and two assigned tasks are of two files.
THEOREM PoolOneOwnerPerFile == PoolSpec => []OneOwnerPerFile
<1>1. ASSUME PoolInv PROVE OneOwnerPerFile
  <2>1. CASE ending = "no"
    BY <1>1, <2>1, PoolAssumption DEF PoolInv, Ownership, OneOwnerPerFile, Tasks, Ordinary
  <2>2. CASE ending # "no"
    BY <1>1, <2>2 DEF PoolInv, Ended
  <2>. QED BY <2>1, <2>2
<1>. QED BY <1>1, PoolInvariant, PTL

\* Between turns no task waits beside a worker that could take it.
THEOREM PoolNoWorkBesideIdle == PoolSpec => []NoWorkBesideIdle
<1>1. PoolInv => NoWorkBesideIdle
  BY DEF PoolInv
<1>. QED BY <1>1, PoolInvariant, PTL

\* The workers whose native work is on a file, and the limit on them.
FileHosts == {w \in Ids : hosts[w] \in FileTasks}

Reserve == ending = "no" => Cardinality(FileHosts) <= BackgroundIndexingLimit

LEMMA LimitIsNat ==
  BackgroundIndexingLimit \in Nat \ {0} /\ (MaxWorkers > 1 => BackgroundIndexingLimit < MaxWorkers)
BY PoolAssumption DEF BackgroundIndexingLimit

\* The pool counts the files it has given out: as many as are worked on.
LEMMA HostsAreCounted ==
  ASSUME PoolInv, ending = "no"
  PROVE  /\ IsFiniteSet(FileHosts) /\ Cardinality(FileHosts) \in Nat
         /\ Cardinality(Assigned \intersect FileTasks) = Cardinality(FileHosts)
<1>. DEFINE G == Assigned \intersect FileTasks
            f == [w \in FileHosts |-> hosts[w]]
<1>1. IsFiniteSet(FileHosts) /\ Cardinality(FileHosts) \in Nat
  BY PoolAssumption, FS_Subset, FS_CardinalityType DEF FileHosts
<1>2. f \in Bijection(FileHosts, G)
  <2>1. None \notin FileTasks /\ FileTasks \subseteq Tasks
    BY PoolAssumption DEF Tasks, Ordinary
  <2>2. \A w \in FileHosts : hosts[w] \in G /\ who[hosts[w]] = w
    BY <2>1 DEF PoolInv, Ownership, FileHosts
  <2>3. \A t \in G : who[t] \in FileHosts /\ hosts[who[t]] = t
    BY DEF PoolInv, PoolShape, Ownership, FileHosts
  <2>. QED BY <2>2, <2>3, Fun_IsBij
<1>3. Cardinality(G) = Cardinality(FileHosts)
  BY <1>1, <1>2, FS_Bijection DEF ExistsBijection
<1>. QED BY <1>1, <1>3

\* A step that gives out no file leaves no more files in work.
LEMMA NoMoreFiles ==
  ASSUME PoolInv, Reserve, ending' = "no" => ending = "no" /\ FileHosts' \subseteq FileHosts
  PROVE  Reserve'
<1>. SUFFICES ASSUME ending' = "no" PROVE Cardinality(FileHosts') <= BackgroundIndexingLimit
  BY DEF Reserve, BackgroundIndexingLimit
<1>1. IsFiniteSet(FileHosts) /\ Cardinality(FileHosts) \in Nat /\ Cardinality(FileHosts) <= BackgroundIndexingLimit
  BY HostsAreCounted DEF Reserve
<1>2. Cardinality(FileHosts') <= Cardinality(FileHosts) /\ Cardinality(FileHosts') \in Nat
  BY <1>1, FS_Subset, FS_CardinalityType
<1>. QED BY <1>1, <1>2, LimitIsNat

\* Only dispatch() gives out files, and it looks at the limit first.
LEMMA ReserveStep ==
  ASSUME PoolInv, Reserve, [PoolNext]_poolVars
  PROVE  Reserve'
<1>1. CASE hosts' = hosts /\ (ending' = "no" => ending = "no")
  BY <1>1, NoMoreFiles DEF FileHosts
<1>2. ASSUME NEW w \in Ids, hosts' = [hosts EXCEPT ![w] = None], ending' = "no" => ending = "no"
      PROVE  Reserve'
  <2>1. \A v \in Ids : hosts'[v] = IF v = w THEN None ELSE hosts[v]
    BY <1>2 DEF PoolInv, PoolShape
  <2>2. FileHosts' \subseteq FileHosts
    BY <2>1, PoolAssumption DEF FileHosts, Tasks, Ordinary
  <2>. QED BY <1>2, <2>2, NoMoreFiles
<1>3. ASSUME NEW t \in Tasks, NEW w \in Ids, hosts' = [hosts EXCEPT ![w] = t], UNCHANGED ending,
             t \in FileTasks => Dispatchable(t)
      PROVE  Reserve'
  <2>1. \A v \in Ids : hosts'[v] = IF v = w THEN t ELSE hosts[v]
    BY <1>3 DEF PoolInv, PoolShape
  <2>2. CASE t \notin FileTasks
    <3>1. FileHosts' \subseteq FileHosts
      BY <2>1, <2>2 DEF FileHosts
    <3>. QED BY <1>3, <3>1, NoMoreFiles
  <2>3. CASE t \in FileTasks
    <3>. SUFFICES ASSUME ending = "no" PROVE Cardinality(FileHosts') <= BackgroundIndexingLimit
      BY <1>3 DEF Reserve, BackgroundIndexingLimit
    <3>1. IsFiniteSet(FileHosts) /\ Cardinality(FileHosts) \in Nat /\ Cardinality(FileHosts) < BackgroundIndexingLimit
      BY <1>3, <2>3, HostsAreCounted DEF Dispatchable
    <3>2. FileHosts' \subseteq FileHosts \union {w}
      BY <2>1 DEF FileHosts
    <3>3. /\ IsFiniteSet(FileHosts \union {w})
          /\ Cardinality(FileHosts \union {w}) <= Cardinality(FileHosts) + 1
      <4>1. \/ Cardinality(FileHosts \union {w}) = Cardinality(FileHosts)
            \/ Cardinality(FileHosts \union {w}) = Cardinality(FileHosts) + 1
        BY <3>1, FS_AddElement, Zenon
      <4>2. IsFiniteSet(FileHosts \union {w})
        BY <3>1, FS_AddElement, Zenon
      <4>. QED BY <3>1, <4>1, <4>2
    <3>4. /\ Cardinality(FileHosts') \in Nat /\ Cardinality(FileHosts \union {w}) \in Nat
          /\ Cardinality(FileHosts') <= Cardinality(FileHosts \union {w})
      BY <3>2, <3>3, FS_Subset, FS_CardinalityType
    <3>. QED BY <3>1, <3>3, <3>4, LimitIsNat
  <2>. QED BY <2>2, <2>3
<1>4. CASE ServeExisting
  <2>1. \E t \in Existing, w \in workers : hosts' = [hosts EXCEPT ![w] = t]
    BY <1>4 DEF ServeExisting, Waiting, WarmWorkers
  <2>. QED BY <1>3, <1>4, <2>1, PoolAssumption DEF ServeExisting, endVars, Tasks, Ordinary, PoolInv, PoolShape
<1>5. CASE DispatchTask
  <2>1. hosts' = hosts \/ \E t \in Pending, w \in workers : hosts' = [hosts EXCEPT ![w] = t]
    BY <1>5 DEF DispatchTask, Idle
  <2>. QED BY <1>1, <1>3, <1>5, <2>1 DEF DispatchTask, endVars, Pending, Tasks, PoolInv, PoolShape
<1>6. CASE RejectWaiters \/ DispatchDenied \/ DispatchEnds \/ ScaleUpTimer \/ UNCHANGED poolVars
  BY <1>1, <1>6 DEF RejectWaiters, DispatchDenied, DispatchEnds, ScaleUpTimer, poolVars, procVars, endVars
<1>7. ASSUME NEW t \in Tasks, Call(t) \/ CallExisting(t) \/ CallerLeaves(t) PROVE Reserve'
  BY <1>1, <1>7 DEF Call, CallExisting, CallerLeaves, procVars, endVars
<1>8. ASSUME NEW w \in Ids, Warms(w) \/ Reap(w) \/ ReapStuck(w) \/ Retire(w) PROVE Reserve'
  BY <1>1, <1>8 DEF Warms, Reap, ReapStuck, Retire, endVars
<1>9. ASSUME NEW w \in Ids, Result(w) \/ Dies(w) \/ Exit(w) \/ RetiredExit(w) PROVE Reserve'
  BY <1>2, <1>9 DEF Result, Dies, Exit, RetiredExit, endVars
<1>10. ASSUME NEW requireExit \in BOOLEAN, Destroy(requireExit) \/ DestroyEnds PROVE Reserve'
  BY <1>1, <1>10 DEF Destroy, DestroyEnds
<1>. QED BY <1>4, <1>5, <1>6, <1>7, <1>8, <1>9, <1>10 DEF PoolNext, Dispatch

\* Files never take every worker of a pool that may have two, and a search waits
\* only in a full pool that serves another.
THEOREM PoolSearchesFindRoom == PoolSpec => []SearchesFindRoom
<1>1. PoolInit => Reserve
  <2>1. PoolInit => FileHosts = {}
    BY PoolAssumption DEF PoolInit, FileHosts, Tasks, Ordinary
  <2>. QED BY <2>1, FS_EmptySet, LimitIsNat DEF Reserve
<1>2. PoolInv /\ Reserve => SearchesFindRoom
  <2>. SUFFICES ASSUME PoolInv, Reserve, Live, MaxWorkers > 1
       PROVE  /\ Cardinality(FileHosts) < MaxWorkers
              /\ Pending \intersect Queries # {} /\ ~limit =>
                   Cardinality(workers) >= MaxWorkers /\ \E w \in workers : hosts[w] \in Tasks \ FileTasks
    BY DEF SearchesFindRoom, FileHosts
  <2>1. IsFiniteSet(FileHosts) /\ Cardinality(FileHosts) \in Nat /\ Cardinality(FileHosts) < MaxWorkers
    BY HostsAreCounted, LimitIsNat, PoolAssumption DEF Reserve, Live
  <2>2. ASSUME Pending \intersect Queries # {}, ~limit PROVE Cardinality(workers) >= MaxWorkers
    BY <2>2 DEF PoolInv, FullPool
  <2>3. ASSUME Pending \intersect Queries # {}, ~limit PROVE \E w \in workers : hosts[w] \in Tasks \ FileTasks
    <3>1. Pending # {} /\ ~denied
      BY <2>3 DEF PoolInv, DeniedIsEmpty, Pending, Dispatchable, Unassigned
    <3>2. \A w \in workers : Busy(w)
      BY <3>1 DEF PoolInv, NoWorkBesideIdle, Idle
    <3>3. \A w \in workers : w \in Ids /\ hosts[w] \in Tasks
      BY <3>2 DEF PoolInv, PoolShape, Ownership, Busy, Assigned, Live
    <3>4. ~(workers \subseteq FileHosts)
      <4>1. workers \subseteq FileHosts => Cardinality(workers) <= Cardinality(FileHosts) /\ Cardinality(workers) \in Nat
        BY <2>1, FS_Subset, FS_CardinalityType
      <4>. QED BY <2>1, <2>2, <2>3, <4>1, PoolAssumption
    <3>. QED BY <3>3, <3>4 DEF FileHosts
  <2>. QED BY <2>1, <2>2, <2>3
<1>. QED BY <1>1, <1>2, ReserveStep, PoolInvariant, PTL DEF PoolSpec

\* A strict shutdown that succeeds leaves no native work: what still works is
\* watched, and such a shutdown ends with nothing to watch.
THEOREM PoolStrictMeansQuiet == PoolSpec => []StrictMeansQuiet
<1>1. PoolInv => StrictMeansQuiet
  BY DEF PoolInv, Watched, Ended, StrictMeansQuiet
<1>. QED BY <1>1, PoolInvariant, PTL

-----------------------------------------------------------------------------
(* Types and limits *)

\* What PoolShape leaves out: the lists and flags, and the two limits.
PoolLimits ==
  /\ caller \in [Tasks -> {"none", "waiting", "settled"}]
  /\ ahead \in [Tasks -> SUBSET Tasks] /\ \A t \in Ordinary : ahead[t] \subseteq Ordinary
  /\ elders \in [Ids -> SUBSET Ids] /\ old \subseteq Ordinary
  /\ warm \subseteq Ids /\ quiet \subseteq Ids
  /\ respawns \in 0..(MaxRespawns + 1) /\ Cardinality(workers) <= MaxWorkers
  /\ limit \in BOOLEAN /\ denied \in BOOLEAN /\ strict \in BOOLEAN
  /\ timer \in Ordinary \union {None}

\* Tasks that leave keep the types.
LEMMA SettleTypes ==
  ASSUME PoolLimits, NEW S, NEW told, SettleAndTell(S, told)
  PROVE  /\ caller' \in [Tasks -> {"none", "waiting", "settled"}]
         /\ ahead' \in [Tasks -> SUBSET Tasks] /\ \A t \in Ordinary : ahead'[t] \subseteq Ordinary
         /\ old' \subseteq Ordinary
<1>1. caller' \in [Tasks -> {"none", "waiting", "settled"}]
  BY DEF PoolLimits, SettleAndTell
<1>2. ahead' \in [Tasks -> SUBSET Tasks] /\ \A t \in Ordinary : ahead'[t] \subseteq Ordinary
  BY DEF PoolLimits, SettleAndTell, Leave, Tasks
<1>3. old' \subseteq Ordinary
  BY DEF PoolLimits, SettleAndTell
<1>. QED BY <1>1, <1>2, <1>3

\* A process is spawned only where there is room.
LEMMA SpawnTypes ==
  ASSUME PoolLimits, NEW ws \in SUBSET Ids, NEW p, Cardinality(ws) < MaxWorkers,
         Spawned(ws, p) \/ NotSpawned(ws, p)
  PROVE  /\ elders' \in [Ids -> SUBSET Ids] /\ warm' \subseteq Ids /\ quiet' \subseteq Ids
         /\ Cardinality(workers') <= MaxWorkers
<1>0. IsFiniteSet(ws) /\ Cardinality(ws) \in Nat /\ MaxWorkers \in Nat
  BY PoolAssumption, FS_Subset, FS_CardinalityType
<1>1. Ranks(ws) \in [Ids -> SUBSET Ids] /\ warm' \subseteq Ids /\ quiet' \subseteq Ids
  BY DEF PoolLimits, Ranks, Spawned, NotSpawned, Flags
<1>2. CASE NotSpawned(ws, p)
  BY <1>0, <1>1, <1>2 DEF NotSpawned
<1>3. CASE Spawned(ws, p)
  <2>1. PICK w \in Ids : workers' = ws \union {w} /\ elders' = [Ranks(ws) EXCEPT ![w] = ws]
    BY <1>3 DEF Spawned, FreeIds
  <2>2. Cardinality(workers') <= Cardinality(ws) + 1
    BY <1>0, <2>1, FS_AddElement
  <2>3. Cardinality(workers') \in Nat
    BY <1>0, <2>1, FS_AddElement, FS_CardinalityType
  <2>. QED BY <1>0, <1>1, <2>1, <2>2, <2>3
<1>. QED BY <1>2, <1>3

\* A lost worker leaves room for one.
LEMMA LostLeavesRoom ==
  ASSUME PoolInv, PoolLimits, NEW w \in workers
  PROVE  Lost(w) \in SUBSET Ids /\ Cardinality(Lost(w)) < MaxWorkers
<1>1. IsFiniteSet(workers) /\ Cardinality(workers) \in Nat /\ MaxWorkers \in Nat
  BY PoolAssumption, FS_Subset, FS_CardinalityType DEF PoolInv, PoolShape
<1>2. Cardinality(Lost(w)) = Cardinality(workers) - 1
  BY <1>1, FS_RemoveElement DEF Lost
<1>. QED BY <1>1, <1>2 DEF Lost, PoolInv, PoolShape, PoolLimits

\* Losing a worker, respawned or not, keeps types and limits.
LEMMA LossTypes ==
  ASSUME PoolInv, PoolLimits, NEW w \in workers, NEW p, NEW S, NEW told,
         Respawn(Lost(w), p, S, told) \/ NoRespawn(Lost(w), p, S, told),
         UNCHANGED <<timer, endVars>>
  PROVE  PoolLimits'
<1>. DEFINE ws == Lost(w)
<1>1. ws \in SUBSET Ids /\ Cardinality(ws) < MaxWorkers
  BY LostLeavesRoom
<1>2. (Spawned(ws, p) \/ NotSpawned(ws, p)) /\ \E T : SettleAndTell(T, told)
  BY DEF Respawn, NoRespawn
<1>3. respawns' \in 0..(MaxRespawns + 1) /\ limit' \in BOOLEAN /\ denied' \in BOOLEAN
  <2>1. MaxRespawns \in Nat /\ respawns \in 0..(MaxRespawns + 1) /\ limit \in BOOLEAN /\ denied \in BOOLEAN
    BY PoolAssumption DEF PoolLimits
  <2>2. respawns' = respawns \/ (respawns' = respawns + 1 /\ respawns <= MaxRespawns)
    BY <2>1 DEF Respawn, NoRespawn
  <2>3. limit' \in BOOLEAN /\ denied' \in BOOLEAN
    BY <2>1, Zenon DEF Respawn, NoRespawn, Spawned
  <2>. QED BY <2>1, <2>2, <2>3
<1>4. strict' \in BOOLEAN /\ timer' \in Ordinary \union {None}
  BY DEF PoolLimits, endVars
<1>. HIDE DEF ws
<1>. QED BY <1>1, <1>2, <1>3, <1>4, SettleTypes, SpawnTypes DEF PoolLimits

\* So does retiring one.
LEMMA RecycleTypes ==
  ASSUME PoolInv, PoolLimits, NEW w \in workers, NEW S, Recycle(w, S),
         respawns' \in 0..(MaxRespawns + 1), limit' \in BOOLEAN, UNCHANGED <<timer, endVars>>
  PROVE  PoolLimits'
<1>. DEFINE ws == Lost(w)
            p == Killed(w)
<1>1. ws \in SUBSET Ids /\ Cardinality(ws) < MaxWorkers
  BY LostLeavesRoom
<1>2. (Spawned(ws, p) \/ NotSpawned(ws, p)) /\ \E T : SettleAndTell(T, {})
  BY DEF Recycle, Settle
<1>3. denied' \in BOOLEAN
  BY DEF Recycle, Spawned, PoolLimits
<1>4. strict' \in BOOLEAN /\ timer' \in Ordinary \union {None}
  BY DEF PoolLimits, endVars
<1>. HIDE DEF ws, p
<1>. QED BY <1>1, <1>2, <1>3, <1>4, SettleTypes, SpawnTypes DEF PoolLimits

\* Every step keeps types and limits.
LEMMA PoolLimitsStep ==
  ASSUME PoolInv, PoolLimits, [PoolNext]_poolVars
  PROVE  PoolLimits'
<1>. USE DEF taskVars, procVars, ruleVars, endVars
<1>1. CASE UNCHANGED poolVars
  BY <1>1 DEF poolVars, PoolLimits
<1>2. ASSUME NEW t \in Tasks, Call(t) \/ CallExisting(t) PROVE PoolLimits'
  <2>1. /\ caller' \in [Tasks -> {"none", "waiting", "settled"}] /\ ahead' \in [Tasks -> SUBSET Tasks]
        /\ \A u \in Ordinary : ahead'[u] \subseteq Ordinary
        /\ UNCHANGED <<old, procVars, ruleVars, endVars>>
    BY <1>2, PoolAssumption DEF Call, CallExisting, PoolLimits, Unassigned, Waiting, Tasks
  <2>. QED BY <2>1 DEF PoolLimits
<1>3. ASSUME NEW t \in Tasks, CallerLeaves(t) PROVE PoolLimits'
  <2>1. CASE Settle({t})
    BY <1>3, <2>1, SettleTypes DEF CallerLeaves, Settle, PoolLimits
  <2>2. CASE caller' = [caller EXCEPT ![t] = "settled"] /\ UNCHANGED <<ahead, old>>
    BY <1>3, <2>2 DEF CallerLeaves, PoolLimits
  <2>. QED BY <1>3, <2>1, <2>2 DEF CallerLeaves
<1>4. CASE RejectWaiters
  BY <1>4, SettleTypes DEF RejectWaiters, Settle, PoolLimits
<1>5. CASE ServeExisting
  <2>1. PICK t \in Waiting, w \in WarmWorkers : Give(t, w) /\ quiet' = quiet \union {w}
    BY <1>5 DEF ServeExisting
  <2>2. /\ quiet' \subseteq Ids /\ ahead' \in [Tasks -> SUBSET Tasks]
        /\ \A u \in Ordinary : ahead'[u] \subseteq Ordinary
    BY <2>1 DEF PoolLimits, PoolInv, PoolShape, Give, Leave, WarmWorkers, Tasks
  <2>. QED BY <1>5, <2>2 DEF ServeExisting, PoolLimits
<1>6. CASE DispatchDenied
  <2>1. \E S : SettleAndTell(S, {})
    BY <1>6 DEF DispatchDenied, Settle
  <2>. QED BY <1>6, <2>1, SettleTypes DEF DispatchDenied, PoolLimits
<1>7. CASE DispatchTask
  <2>0. Cardinality(workers) \in Nat /\ MaxWorkers \in Nat /\ workers \in SUBSET Ids
    BY PoolAssumption, FS_Subset, FS_CardinalityType DEF PoolInv, PoolShape
  <2>1. ASSUME NEW t, NEW w, Give(t, w), quiet' = quiet \ {w}, UNCHANGED <<workers, elders, warm, denied>>
        PROVE  PoolLimits'
    BY <1>7, <2>1 DEF DispatchTask, Give, Leave, PoolLimits, Tasks
  <2>2. CASE Cardinality(workers) < MaxWorkers /\ Spawned(workers, proc) /\ UNCHANGED ahead
    <3>1. denied' \in BOOLEAN
      BY <2>2 DEF Spawned
    <3>. QED BY <1>7, <2>0, <2>2, <3>1, SpawnTypes DEF DispatchTask, PoolLimits
  <2>. QED BY <1>7, <2>1, <2>2 DEF DispatchTask
<1>8. CASE DispatchEnds
  <2>1. timer' \in Ordinary \union {None} /\ UNCHANGED <<procVars, respawns, limit, denied, endVars>>
    BY <1>8 DEF DispatchEnds, PoolLimits, Pending
  <2>2. (\E S : SettleAndTell(S, {})) \/ UNCHANGED taskVars
    BY <1>8 DEF DispatchEnds, Settle
  <2>. QED BY <2>1, <2>2, SettleTypes DEF PoolLimits
<1>9. CASE ScaleUpTimer
  <2>1. old' \subseteq Ordinary
    BY <1>9 DEF ScaleUpTimer, PoolLimits, Unassigned
  <2>. QED BY <1>9, <2>1 DEF ScaleUpTimer, PoolLimits
<1>10. ASSUME NEW w \in Ids, Warms(w) PROVE PoolLimits'
  BY <1>10 DEF Warms, PoolLimits
<1>11. ASSUME NEW w \in Ids, Result(w) PROVE PoolLimits'
  <2>0. MaxRespawns \in Nat
    BY PoolAssumption
  <2>1. w \in workers /\ respawns' = 0 /\ limit' = FALSE /\ UNCHANGED <<timer, endVars>>
    BY <1>11 DEF Result
  <2>4. respawns' \in 0..(MaxRespawns + 1)
    BY <2>0, <2>1
  <2>5. limit' \in BOOLEAN
    BY <2>1, Zenon
  <2>2. CASE Recycle(w, {hosts[w]})
    BY <2>1, <2>2, <2>4, <2>5, RecycleTypes
  <2>3. CASE /\ warm' \in {warm \union {w}, warm \ {w}} /\ Settle({hosts[w]})
             /\ UNCHANGED <<workers, elders, quiet, denied>>
    BY <2>1, <2>3, <2>4, <2>5, SettleTypes DEF Settle, PoolLimits
  <2>. QED BY <1>11, <2>2, <2>3 DEF Result
<1>12. ASSUME NEW w \in Ids, Reap(w) PROVE PoolLimits'
  BY <1>12, RecycleTypes DEF Reap, PoolLimits
<1>13. ASSUME NEW w \in Ids, ReapStuck(w) \/ Dies(w) PROVE PoolLimits'
  BY <1>13 DEF ReapStuck, Dies, PoolLimits
<1>14. ASSUME NEW w \in Ids, Exit(w) PROVE PoolLimits'
  BY <1>14, LossTypes DEF Exit
<1>15. ASSUME NEW w \in Ids, Retire(w) PROVE PoolLimits'
  BY <1>15, LossTypes DEF Retire
<1>16. ASSUME NEW w \in Ids, RetiredExit(w) PROVE PoolLimits'
  BY <1>16 DEF RetiredExit, PoolLimits
<1>17. ASSUME NEW requireExit \in BOOLEAN, Destroy(requireExit) PROVE PoolLimits'
  BY <1>17, SettleTypes DEF Destroy, Settle, PoolLimits
<1>18. CASE DestroyEnds
  <2>1. workers' \subseteq workers /\ elders' = Ranks(workers')
    BY <1>18 DEF DestroyEnds
  <2>2. elders' \in [Ids -> SUBSET Ids]
    BY <2>1 DEF Ranks, PoolLimits
  <2>3. IsFiniteSet(workers)
    BY PoolAssumption, FS_Subset DEF PoolInv, PoolShape
  <2>4. Cardinality(workers') <= MaxWorkers
    <3>1. Cardinality(workers') <= Cardinality(workers) /\ IsFiniteSet(workers')
      BY <2>1, <2>3, FS_Subset
    <3>. QED BY <2>3, <3>1, FS_CardinalityType, PoolAssumption DEF PoolLimits
  <2>. QED BY <1>18, <2>2, <2>4 DEF DestroyEnds, PoolLimits
<1>. QED BY <1>1, <1>2, <1>3, <1>4, <1>5, <1>6, <1>7, <1>8, <1>9, <1>10, <1>11, <1>12, <1>13, <1>14, <1>15,
            <1>16, <1>17, <1>18 DEF PoolNext, Dispatch

\* The types hold, and in them the limits: never more workers than MaxWorkers,
\* never more respawns in a row than the one that is refused.
THEOREM PoolTypes == PoolSpec => []PoolTypeOK
<1>1. PoolInit => PoolLimits
  <2>. SUFFICES ASSUME PoolInit PROVE PoolLimits
    OBVIOUS
  <2>1. PICK first \in Ids : workers = {first}
    BY DEF PoolInit
  <2>2. Cardinality(workers) = 1
    BY <2>1, FS_Singleton
  <2>3. 1 <= MaxWorkers /\ 0 \in 0..(MaxRespawns + 1)
    <3>1. MaxRespawns \in Nat /\ MaxWorkers \in Nat \ {0}
      BY PoolAssumption
    <3>. QED BY <3>1
  <2>. QED BY <2>2, <2>3 DEF PoolInit, PoolLimits, Tasks
<1>2. PoolInv /\ PoolLimits /\ [PoolNext]_poolVars => PoolLimits'
  BY PoolLimitsStep
<1>3. PoolInv /\ PoolLimits => PoolTypeOK
  <2>. SUFFICES ASSUME PoolInv, PoolLimits PROVE PoolTypeOK
    OBVIOUS
  <2>1. PoolShape /\ workers \intersect retiring = {}
    BY DEF PoolInv, Watched
  <2>2. {limit, denied, strict, pump} \subseteq BOOLEAN
    BY <2>1 DEF PoolShape, PoolLimits
  <2>. QED BY <2>1, <2>2 DEF PoolShape, ProcStates, PoolLimits, PoolTypeOK
<1>. QED BY <1>1, <1>2, <1>3, PoolInvariant, PTL DEF PoolSpec
=============================================================================
