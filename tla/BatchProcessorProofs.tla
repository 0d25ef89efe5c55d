-------------------------- MODULE BatchProcessorProofs --------------------------
(***************************************************************************)
(* For any number of files, edits and faults: pending work has something   *)
(* that starts it, a processor that was paused or closed is quiet, a       *)
(* repair that is due is never lost (BatchInv); and, on top of that, the   *)
(* vectors and the meta entries follow the files (IndexInv).               *)
(***************************************************************************)
EXTENDS BatchProcessorInv, TLAPS

EventKinds == {"none", "change", "unlink"}
JobKinds == {"none", "todo", "busy", "read"} \union Outcomes

Shape ==
  /\ pend \in [Paths -> EventKinds] /\ ev \in [Paths -> EventKinds] /\ job \in [Paths -> JobKinds]
  /\ forced \subseteq Paths /\ fresh \subseteq Paths /\ jf \subseteq Paths /\ terminal \subseteq Paths
  /\ phase \in {"none", "waiting", "tasks", "insert", "verify", "delete", "commit", "end"}
  /\ mode \in {"running", "pausing", "paused", "closing", "closed"} /\ timer \in BOOLEAN
  /\ turn \in {"catchup", "cleanup"}

\* What starts batches, and what keeps a stopped processor from starting one.
Started ==
  /\ NoStrandedWork /\ StopIsQuiet
  /\ mode \in {"closing", "closed"} => ~timer

\* A batch has paths only while it runs; once its tasks have settled each path
\* has an outcome, and those without a result are queued again or given up.
BatchAccounted ==
  /\ phase \in {"none", "waiting"} => Batch = {}
  /\ \A p \in Batch : ev[p] # "none"
  /\ phase \in {"insert", "verify", "delete", "commit", "end"} =>
       \A p \in Batch : job[p] \in Completed \union {"left"}
                        /\ (job[p] = "left" => p \in Pending \union terminal)

\* A repair is due to the batch that was taken for it, or to pending work.
RepairsOwed ==
  /\ fresh \subseteq forced \intersect Pending
  /\ forced \subseteq Pending \union Batch \union terminal
  /\ forced \intersect Batch \subseteq jf \union fresh
  /\ phase = "end" => forced \intersect Batch \subseteq Pending \union terminal

\* The inductive invariant.
BatchInv == Shape /\ Started /\ BatchAccounted /\ RepairsOwed

\* Enqueued paths are pending.
LEMMA EnqueueEffect ==
  ASSUME Shape, NEW S \in SUBSET Paths, NEW e \in [Paths -> EventKinds], NEW k,
         \A p \in S : e[p] # "none", Enqueue(S, e, k)
  PROVE  pend' \in [Paths -> EventKinds] /\ Pending' = Pending \union S
<1>1. pend' = [p \in Paths |-> IF p \in S THEN e[p] ELSE pend[p]]
  BY DEF Enqueue
<1>. QED BY <1>1 DEF Shape, Pending

\* An event makes its path pending, with its repair if it asks for one.
LEMMA HandleEffect ==
  ASSUME Shape, NEW q \in Paths, NEW e \in {"change", "unlink"}, NEW k, NEW f \in BOOLEAN, Handle(q, e, k, f)
  PROVE  /\ pend' \in [Paths -> EventKinds] /\ Pending' = Pending \union {q}
         /\ (forced' = forced /\ fresh' = fresh) \/ (forced' = forced \union {q} /\ fresh' = fresh \union {q})
         /\ Schedule
<1>1. [p \in Paths |-> e] \in [Paths -> EventKinds] /\ \A p \in {q} : [r \in Paths |-> e][p] # "none"
  BY DEF EventKinds
<1>2. Enqueue({q}, [p \in Paths |-> e], k)
  BY DEF Handle
<1>. QED BY <1>1, <1>2, EnqueueEffect DEF Handle

\* Whatever is queued again is pending or has been given up.
LEMMA RequeueEffect ==
  ASSUME Shape, NEW S \in SUBSET Paths, NEW T \in SUBSET Paths, NEW e \in [Paths -> EventKinds],
         \A p \in S \union T : e[p] # "none", Requeue(S, T, e)
  PROVE  /\ pend' \in [Paths -> EventKinds] /\ terminal' \subseteq Paths
         /\ Pending \subseteq Pending' /\ terminal \subseteq terminal'
         /\ S \union T \subseteq Pending' \union terminal'
<1>. DEFINE dropped == {p \in S \ Pending : tries[p] + 1 >= MaxRetries}
            again == (S \union T) \ Pending
<1>1. terminal' = terminal \union dropped /\ Enqueue(again \ dropped, e, bk)
  BY DEF Requeue
<1>2. dropped \subseteq Paths /\ again \ dropped \in SUBSET Paths
  OBVIOUS
<1>. HIDE DEF dropped
<1>3. pend' \in [Paths -> EventKinds] /\ Pending' = Pending \union (again \ dropped)
  BY <1>1, <1>2, EnqueueEffect
<1>. QED BY <1>1, <1>2, <1>3 DEF Shape

\* The timer follows the queue while the processor runs idle.
LEMMA ScheduleEffect ==
  ASSUME BatchInv, Schedule, pend' \in [Paths -> EventKinds], mode' = mode, phase' = phase
  PROVE  timer' \in BOOLEAN /\ Started'
<1>1. Pending' # {} <=> \E p \in Paths : pend'[p] # "none"
  BY DEF Pending
<1>. QED BY <1>1 DEF BatchInv, Shape, Started, NoStrandedWork, StopIsQuiet, Schedule, Active

\* Queueing an event, or a repair with it, keeps the invariant.
LEMMA HandleKeeps ==
  ASSUME BatchInv, NEW q \in Paths, NEW e \in {"change", "unlink"}, NEW k, NEW f \in BOOLEAN, Handle(q, e, k, f),
         job' = job, ev' = ev, jf' = jf, phase' = phase, mode' = mode, terminal' = terminal, turn' = turn
  PROVE  BatchInv'
<1>. USE DEF BatchInv
<1>1. /\ pend' \in [Paths -> EventKinds] /\ Pending' = Pending \union {q}
      /\ (forced' = forced /\ fresh' = fresh) \/ (forced' = forced \union {q} /\ fresh' = fresh \union {q})
      /\ Schedule
  BY HandleEffect
<1>2. timer' \in BOOLEAN /\ Started'
  BY <1>1, ScheduleEffect
<1>3. Batch' = Batch
  BY DEF Batch
<1>4. Shape'
  BY <1>1, <1>2 DEF Shape
<1>5. BatchAccounted' /\ RepairsOwed'
  BY <1>1, <1>3 DEF BatchAccounted, RepairsOwed
<1>. QED BY <1>2, <1>4, <1>5

\* A path of a running batch moves on, and stays in the batch.
LEMMA OutcomeKeeps ==
  ASSUME BatchInv, NEW q \in Batch, NEW o \in JobKinds \ {"none"}, Outcome(q, o), phase = "tasks",
         UNCHANGED <<pend, ev, jf, forced, fresh, phase, mode, timer, terminal, turn>>
  PROVE  BatchInv'
<1>. USE DEF BatchInv
<1>1. Batch' = Batch /\ Pending' = Pending /\ job' \in [Paths -> JobKinds]
  BY DEF Batch, Pending, Outcome, Shape
<1>2. Shape' /\ Started'
  BY <1>1 DEF Shape, Started, NoStrandedWork, StopIsQuiet, Active
<1>3. BatchAccounted' /\ RepairsOwed'
  BY <1>1 DEF BatchAccounted, RepairsOwed
<1>. QED BY <1>2, <1>3


\* An edit touches no queue.
LEMMA EditKeeps ==
  ASSUME BatchInv, NEW p \in Paths, Edit(p)
  PROVE  BatchInv'
<1>. USE DEF BatchInv, store, world, policy, queue, jobs, pace, faults, Edit, Counted
<1>1. Shape'
  BY DEF Shape
<1>2. Started'
  BY DEF Shape, Started, NoStrandedWork, StopIsQuiet, Active, Pending
<1>3. BatchAccounted'
  BY DEF Shape, BatchAccounted, Batch, Pending
<1>4. RepairsOwed'
  BY DEF Shape, BatchAccounted, RepairsOwed, Batch, Pending
<1>. QED BY <1>1, <1>2, <1>3, <1>4

\* An edit of an ignore file touches no queue.
LEMMA EditRulesKeeps ==
  ASSUME BatchInv, NEW p \in Paths, EditRules(p)
  PROVE  BatchInv'
<1>. USE DEF BatchInv, store, world, policy, queue, jobs, pace, faults, EditRules, Counted
<1>1. Shape'
  BY DEF Shape
<1>2. Started'
  BY DEF Shape, Started, NoStrandedWork, StopIsQuiet, Active, Pending
<1>3. BatchAccounted'
  BY DEF Shape, BatchAccounted, Batch, Pending
<1>4. RepairsOwed'
  BY DEF Shape, BatchAccounted, RepairsOwed, Batch, Pending
<1>. QED BY <1>1, <1>2, <1>3, <1>4

\* A policy change marks the batch.
LEMMA PolicyEventKeeps ==
  ASSUME BatchInv, PolicyEvent
  PROVE  BatchInv'
<1>. USE DEF BatchInv, store, world, policy, queue, jobs, pace, faults, PolicyEvent
<1>1. Shape'
  BY DEF Shape
<1>2. Started'
  BY DEF Shape, Started, NoStrandedWork, StopIsQuiet, Active, Pending
<1>3. BatchAccounted'
  BY DEF Shape, BatchAccounted, Batch, Pending
<1>4. RepairsOwed'
  BY DEF Shape, BatchAccounted, RepairsOwed, Batch, Pending
<1>. QED BY <1>1, <1>2, <1>3, <1>4

\* An overflow loses events, not work.
LEMMA OverflowKeeps ==
  ASSUME BatchInv, Overflow
  PROVE  BatchInv'
<1>. USE DEF BatchInv, store, world, policy, queue, jobs, pace, faults, Overflow
<1>1. Shape'
  BY DEF Shape
<1>2. Started'
  BY DEF Shape, Started, NoStrandedWork, StopIsQuiet, Active, Pending
<1>3. BatchAccounted'
  BY DEF Shape, BatchAccounted, Batch, Pending
<1>4. RepairsOwed'
  BY DEF Shape, BatchAccounted, RepairsOwed, Batch, Pending
<1>. QED BY <1>1, <1>2, <1>3, <1>4

\* A scan begins without work of its own.
LEMMA ScanBeginsKeeps ==
  ASSUME BatchInv, ScanBegins
  PROVE  BatchInv'
<1>. USE DEF BatchInv, store, world, policy, queue, jobs, pace, faults, ScanBegins
<1>1. Shape'
  BY DEF Shape
<1>2. Started'
  BY DEF Shape, Started, NoStrandedWork, StopIsQuiet, Active, Pending
<1>3. BatchAccounted'
  BY DEF Shape, BatchAccounted, Batch, Pending
<1>4. RepairsOwed'
  BY DEF Shape, BatchAccounted, RepairsOwed, Batch, Pending
<1>. QED BY <1>1, <1>2, <1>3, <1>4

\* A path that a scan misses is not queued.
LEMMA ScanPathFailsKeeps ==
  ASSUME BatchInv, NEW p \in Paths, ScanPathFails(p)
  PROVE  BatchInv'
<1>. USE DEF BatchInv, store, world, policy, queue, jobs, pace, faults, ScanPathFails, Counted
<1>1. Shape'
  BY DEF Shape
<1>2. Started'
  BY DEF Shape, Started, NoStrandedWork, StopIsQuiet, Active, Pending
<1>3. BatchAccounted'
  BY DEF Shape, BatchAccounted, Batch, Pending
<1>4. RepairsOwed'
  BY DEF Shape, BatchAccounted, RepairsOwed, Batch, Pending
<1>. QED BY <1>1, <1>2, <1>3, <1>4

\* A scan that fails leaves what it has queued.
LEMMA ScanFailsKeeps ==
  ASSUME BatchInv, ScanFails
  PROVE  BatchInv'
<1>. USE DEF BatchInv, store, world, policy, queue, jobs, pace, faults, ScanFails, Counted
<1>1. Shape'
  BY DEF Shape
<1>2. Started'
  BY DEF Shape, Started, NoStrandedWork, StopIsQuiet, Active, Pending
<1>3. BatchAccounted'
  BY DEF Shape, BatchAccounted, Batch, Pending
<1>4. RepairsOwed'
  BY DEF Shape, BatchAccounted, RepairsOwed, Batch, Pending
<1>. QED BY <1>1, <1>2, <1>3, <1>4

\* The timer fires into a batch, or into one that is active, or in a pause.
LEMMA StartBatchKeeps ==
  ASSUME BatchInv, StartBatch
  PROVE  BatchInv'
<1>. USE DEF BatchInv, store, world, policy, queue, jobs, pace, faults, StartBatch
<1>1. Shape'
  BY DEF Shape
<1>2. Started'
  BY DEF Shape, Started, NoStrandedWork, StopIsQuiet, Active, Pending
<1>3. BatchAccounted'
  BY DEF Shape, BatchAccounted, Batch, Pending, Active
<1>4. RepairsOwed'
  BY DEF Shape, BatchAccounted, RepairsOwed, Batch, Pending
<1>. QED BY <1>1, <1>2, <1>3, <1>4

\* A batch that is halted keeps its paths.
LEMMA HaltKeeps ==
  ASSUME BatchInv, Halt
  PROVE  BatchInv'
<1>. USE DEF BatchInv, store, world, policy, queue, jobs, pace, faults, Halt, Counted
<1>1. Shape'
  BY DEF Shape
<1>2. Started'
  BY DEF Shape, Started, NoStrandedWork, StopIsQuiet, Active, Pending
<1>3. BatchAccounted'
  BY DEF Shape, BatchAccounted, Batch, Pending
<1>4. RepairsOwed'
  BY DEF Shape, BatchAccounted, RepairsOwed, Batch, Pending
<1>. QED BY <1>1, <1>2, <1>3, <1>4

\* The insertion changes no outcome.
LEMMA InsertKeeps ==
  ASSUME BatchInv, Insert
  PROVE  BatchInv'
<1>. USE DEF BatchInv, store, world, policy, queue, jobs, pace, faults, Insert
<1>1. Shape'
  BY DEF Shape
<1>2. Started'
  BY DEF Shape, Started, NoStrandedWork, StopIsQuiet, Active, Pending
<1>3. BatchAccounted'
  BY DEF Shape, BatchAccounted, Batch, Pending
<1>4. RepairsOwed'
  BY DEF Shape, BatchAccounted, RepairsOwed, Batch, Pending
<1>. QED BY <1>1, <1>2, <1>3, <1>4

\* The deletion changes no outcome.
LEMMA DeleteKeeps ==
  ASSUME BatchInv, Delete
  PROVE  BatchInv'
<1>. USE DEF BatchInv, store, world, policy, queue, jobs, pace, faults, Delete
<1>1. Shape'
  BY DEF Shape
<1>2. Started'
  BY DEF Shape, Started, NoStrandedWork, StopIsQuiet, Active, Pending
<1>3. BatchAccounted'
  BY DEF Shape, BatchAccounted, Batch, Pending
<1>4. RepairsOwed'
  BY DEF Shape, BatchAccounted, RepairsOwed, Batch, Pending
<1>. QED BY <1>1, <1>2, <1>3, <1>4

\* A pause leaves the queue as it is.
LEMMA PauseKeeps ==
  ASSUME BatchInv, Pause
  PROVE  BatchInv'
<1>. USE DEF BatchInv, store, world, policy, queue, jobs, pace, faults, Pause, Counted, AbortScan, AbortBatch,
   Open
<1>1. Shape'
  BY DEF Shape
<1>2. Started'
  BY DEF Shape, Started, NoStrandedWork, StopIsQuiet, Active, Pending
<1>3. BatchAccounted'
  BY DEF Shape, BatchAccounted, Batch, Pending
<1>4. RepairsOwed'
  BY DEF Shape, BatchAccounted, RepairsOwed, Batch, Pending
<1>. QED BY <1>1, <1>2, <1>3, <1>4

\* A pause is over once no batch is active.
LEMMA PausedKeeps ==
  ASSUME BatchInv, Paused
  PROVE  BatchInv'
<1>. USE DEF BatchInv, store, world, policy, queue, jobs, pace, faults, Paused
<1>1. Shape'
  BY DEF Shape
<1>2. Started'
  BY DEF Shape, Started, NoStrandedWork, StopIsQuiet, Active, Pending
<1>3. BatchAccounted'
  BY DEF Shape, BatchAccounted, Batch, Pending
<1>4. RepairsOwed'
  BY DEF Shape, BatchAccounted, RepairsOwed, Batch, Pending
<1>. QED BY <1>1, <1>2, <1>3, <1>4

\* Resuming arms the timer for what is pending.
LEMMA ResumeKeeps ==
  ASSUME BatchInv, Resume
  PROVE  BatchInv'
<1>. USE DEF BatchInv, store, world, policy, queue, jobs, pace, faults, Resume
<1>1. Shape'
  BY DEF Shape
<1>2. Started'
  BY DEF Shape, Started, NoStrandedWork, StopIsQuiet, Active, Pending
<1>3. BatchAccounted'
  BY DEF Shape, BatchAccounted, Batch, Pending
<1>4. RepairsOwed'
  BY DEF Shape, BatchAccounted, RepairsOwed, Batch, Pending
<1>. QED BY <1>1, <1>2, <1>3, <1>4

\* Closing disarms the timer for good.
LEMMA CloseKeeps ==
  ASSUME BatchInv, Close
  PROVE  BatchInv'
<1>. USE DEF BatchInv, store, world, policy, queue, jobs, pace, faults, Close, Counted, AbortScan, AbortBatch,
   Open
<1>1. Shape'
  BY DEF Shape
<1>2. Started'
  BY DEF Shape, Started, NoStrandedWork, StopIsQuiet, Active, Pending
<1>3. BatchAccounted'
  BY DEF Shape, BatchAccounted, Batch, Pending
<1>4. RepairsOwed'
  BY DEF Shape, BatchAccounted, RepairsOwed, Batch, Pending
<1>. QED BY <1>1, <1>2, <1>3, <1>4

\* A restart begins with nothing queued.
LEMMA RestartKeeps ==
  ASSUME BatchInv, Restart
  PROVE  BatchInv'
<1>. USE DEF BatchInv, store, world, policy, queue, jobs, pace, faults, Restart, Counted
<1>1. Shape'
  BY DEF Shape, EventKinds, JobKinds, Completed, Outcomes
<1>2. Started'
  BY DEF Shape, Started, NoStrandedWork, StopIsQuiet, Active, Pending
<1>3. BatchAccounted'
  BY DEF Shape, BatchAccounted, Batch, Pending
<1>4. RepairsOwed'
  BY DEF Shape, BatchAccounted, RepairsOwed, Batch, Pending
<1>. QED BY <1>1, <1>2, <1>3, <1>4

\* An event makes its path pending.
LEMMA EventKeeps ==
  ASSUME BatchInv, NEW p \in Paths, NEW last \in BOOLEAN, Event(p, last)
  PROVE  BatchInv'
<1>. USE DEF BatchInv, store, policy, jobs, pace, faults
<1>0. /\ job' = job /\ ev' = ev /\ jf' = jf /\ phase' = phase /\ mode' = mode /\ terminal' = terminal /\ turn' = turn
  BY DEF Event
<1>1. CASE UNCHANGED <<queue, timer>>
  <2>. USE <1>0, <1>1 DEF queue
  <2>1. Shape' /\ Started'
    BY DEF Shape, Started, NoStrandedWork, StopIsQuiet, Active, Pending
  <2>2. BatchAccounted' /\ RepairsOwed'
    BY DEF BatchAccounted, RepairsOwed, Batch, Pending
  <2>. QED BY <2>1, <2>2
<1>2. ASSUME NEW e \in {"change", "unlink"}, Handle(p, e, "live", FALSE)
      PROVE  BatchInv'
  BY <1>0, <1>2, HandleKeeps
<1>. QED BY <1>1, <1>2 DEF Event

\* The walk of a scan queues repairs and changes.
LEMMA ScanPathKeeps ==
  ASSUME BatchInv, NEW p \in Paths, ScanPath(p)
  PROVE  BatchInv'
<1>. USE DEF BatchInv, world, policy, jobs, pace, faults
<1>0. /\ job' = job /\ ev' = ev /\ jf' = jf /\ phase' = phase /\ mode' = mode /\ terminal' = terminal /\ turn' = turn
  BY DEF ScanPath
<1>1. CASE UNCHANGED <<queue, timer>>
  <2>. USE <1>0, <1>1 DEF queue
  <2>1. Shape' /\ Started'
    BY DEF Shape, Started, NoStrandedWork, StopIsQuiet, Active, Pending
  <2>2. BatchAccounted' /\ RepairsOwed'
    BY DEF BatchAccounted, RepairsOwed, Batch, Pending
  <2>. QED BY <2>1, <2>2
<1>2. ASSUME NEW f \in BOOLEAN, Handle(p, "change", "catchup", f)
      PROVE  BatchInv'
  BY <1>0, <1>2, HandleKeeps
<1>. QED BY <1>1, <1>2 DEF ScanPath

\* A scan ends with removals.
LEMMA ScanEndsKeeps ==
  ASSUME BatchInv, ScanEnds
  PROVE  BatchInv'
<1>. USE DEF BatchInv, store, world, policy, jobs, pace, faults
<1>. DEFINE S == ((scan.known \ scan.seen) \ lost) \intersect Paths
<1>0. /\ job' = job /\ ev' = ev /\ jf' = jf /\ phase' = phase /\ mode' = mode /\ terminal' = terminal
      /\ forced' = forced /\ fresh' = fresh /\ turn' = turn /\ Schedule
  BY DEF ScanEnds
<1>1. /\ pend' = [p \in Paths |-> IF p \in (scan.known \ scan.seen) \ lost THEN "unlink" ELSE pend[p]]
  BY DEF ScanEnds, Enqueue
<1>2. pend' \in [Paths -> EventKinds] /\ Pending \subseteq Pending'
  BY <1>1 DEF Shape, Pending, EventKinds
<1>3. Started' /\ Shape'
  BY <1>0, <1>2, ScheduleEffect DEF Shape
<1>4. Batch' = Batch
  BY <1>0 DEF Batch
<1>. QED BY <1>0, <1>2, <1>3, <1>4 DEF BatchAccounted, RepairsOwed

\* What a batch takes is ready.
LEMMA SelectTakes ==
  ASSUME Shape, NEW ripe \in SUBSET Paths, Select(ripe), ~(halt \/ mode # "running" \/ ripe = {})
  PROVE  \E S \in SUBSET ripe :
           /\ job' = [p \in Paths |-> IF p \in S THEN "todo" ELSE "none"]
           /\ ev' = [p \in Paths |-> IF p \in S THEN pend[p] ELSE "none"]
           /\ jf' = forced \intersect S /\ fresh' = fresh \ S
           /\ pend' = [p \in Paths |-> IF p \in S THEN "none" ELSE pend[p]]
<1>. DEFINE ready == [k \in Kinds |-> {p \in ripe : kind[p] = k}]
            pick == Pick(ready)
<1>1. pick[1] \in Kinds
  <2>. HIDE DEF ready
  <2>1. \E k \in {"catchup", "cleanup"} : k # turn
    OBVIOUS
  <2>2. (CHOOSE k \in {"catchup", "cleanup"} : k # turn) \in {"catchup", "cleanup"}
    BY <2>1
  <2>. QED BY <2>2 DEF Pick, Kinds, Shape
<1>2. ready[pick[1]] \subseteq ripe
  BY <1>1
<1>. HIDE DEF ready, pick
<1>. QED BY <1>2 DEF Select, ready, pick

\* A batch takes pending paths with the repairs that are due to them.
LEMMA SelectKeeps ==
  ASSUME BatchInv, NEW ripe \in SUBSET Paths, Select(ripe)
  PROVE  BatchInv'
<1>. USE DEF BatchInv, store, world, policy, faults
<1>0. phase = "waiting" /\ ripe \subseteq Pending /\ mode' = mode /\ terminal' = terminal /\ Batch = {}
  BY DEF Select, BatchAccounted
<1>1. CASE halt \/ mode # "running" \/ ripe = {}
  <2>. USE <1>0, <1>1 DEF queue, jobs, BatchOver
  <2>1. BatchOver(Pending # {}) /\ UNCHANGED <<queue, jobs>>
    BY DEF Select
  <2>2. Pending' = Pending /\ Batch' = Batch
    BY <2>1 DEF Pending, Batch
  <2>3. phase' = "none" /\ timer' \in BOOLEAN /\ turn' = turn
    BY <2>1 DEF Select, pace
  <2>5. Shape'
    BY <2>1, <2>3 DEF Shape
  <2>4. Started'
    BY <2>1, <2>2 DEF Started, NoStrandedWork, StopIsQuiet, Active
  <2>. QED BY <2>1, <2>2, <2>3, <2>4, <2>5 DEF BatchAccounted, RepairsOwed
<1>2. CASE ~(halt \/ mode # "running" \/ ripe = {})
  <2>1. PICK S \in SUBSET ripe :
          /\ job' = [p \in Paths |-> IF p \in S THEN "todo" ELSE "none"]
          /\ ev' = [p \in Paths |-> IF p \in S THEN pend[p] ELSE "none"]
          /\ jf' = forced \intersect S /\ fresh' = fresh \ S
          /\ pend' = [p \in Paths |-> IF p \in S THEN "none" ELSE pend[p]]
    BY <1>2, SelectTakes
  <2>2. /\ phase' = "tasks" /\ forced' = forced /\ timer' = timer
    BY <1>2 DEF Select
  <2>3. turn' \in {"catchup", "cleanup"}
    <3>1. PICK b : turn' = IF b = "live" THEN turn ELSE CHOOSE k \in {"catchup", "cleanup"} : k # b
      BY <1>2 DEF Select
    <3>2. \E k \in {"catchup", "cleanup"} : k # b
      OBVIOUS
    <3>. QED BY <3>1, <3>2 DEF Shape
  <2>4. Batch' = S /\ Pending' = Pending \ S /\ S \subseteq Pending
    BY <1>0, <2>1 DEF Batch, Pending
  <2>5. Shape'
    BY <1>0, <2>1, <2>2, <2>3 DEF Shape, EventKinds, JobKinds
  <2>6. Started'
    BY <1>0, <2>2 DEF Started, NoStrandedWork, StopIsQuiet, Active
  <2>7. BatchAccounted'
    BY <2>1, <2>2, <2>4 DEF BatchAccounted, Pending
  <2>8. RepairsOwed'
    BY <1>0, <2>1, <2>2, <2>4 DEF RepairsOwed
  <2>. QED BY <2>5, <2>6, <2>7, <2>8
<1>. QED BY <1>1, <1>2


\* A task begins.
LEMMA BeginKeeps ==
  ASSUME BatchInv, NEW p \in Paths, Begin(p)
  PROVE  BatchInv'
<1>. USE DEF BatchInv
<1>1. job[p] \in {"todo", "busy", "read"} /\ p \in Batch
  BY DEF Begin, Batch
<1>2. phase = "tasks"
  BY <1>1 DEF Shape, BatchAccounted, Completed
<1>3. UNCHANGED <<pend, ev, jf, forced, fresh, phase, mode, timer, terminal, turn>>
  BY DEF Begin, queue, faults, pace
<1>4. \E o \in {"gone", "cached", "stamp", "busy"} : Outcome(p, o)
  BY DEF Begin
<1>5. {"gone", "cached", "stamp", "busy"} \subseteq JobKinds \ {"none"}
  BY DEF JobKinds, Outcomes, Completed
<1>. QED BY <1>1, <1>2, <1>3, <1>4, <1>5, OutcomeKeeps

\* A worker has read the file.
LEMMA ReadKeeps ==
  ASSUME BatchInv, NEW p \in Paths, Read(p)
  PROVE  BatchInv'
<1>. USE DEF BatchInv
<1>1. job[p] \in {"todo", "busy", "read"} /\ p \in Batch
  BY DEF Read, Batch
<1>2. phase = "tasks"
  BY <1>1 DEF Shape, BatchAccounted, Completed
<1>3. UNCHANGED <<pend, ev, jf, forced, fresh, phase, mode, timer, terminal, turn>>
  BY DEF Read, queue, faults, pace
<1>4. \E o \in {"gone", "read"} : Outcome(p, o)
  BY DEF Read
<1>5. {"gone", "read"} \subseteq JobKinds \ {"none"}
  BY DEF JobKinds, Outcomes, Completed
<1>. QED BY <1>1, <1>2, <1>3, <1>4, <1>5, OutcomeKeeps

\* A result is accepted, or not.
LEMMA FinishKeeps ==
  ASSUME BatchInv, NEW p \in Paths, Finish(p)
  PROVE  BatchInv'
<1>. USE DEF BatchInv
<1>1. job[p] \in {"todo", "busy", "read"} /\ p \in Batch
  BY DEF Finish, Batch
<1>2. phase = "tasks"
  BY <1>1 DEF Shape, BatchAccounted, Completed
<1>3. UNCHANGED <<pend, ev, jf, forced, fresh, phase, mode, timer, terminal, turn>>
  BY DEF Finish, queue, faults, pace
<1>4. \E o \in {"gone", "retry", "stamp", "write"} : Outcome(p, o)
  BY DEF Finish
<1>5. {"gone", "retry", "stamp", "write"} \subseteq JobKinds \ {"none"}
  BY DEF JobKinds, Outcomes, Completed
<1>. QED BY <1>1, <1>2, <1>3, <1>4, <1>5, OutcomeKeeps

\* A task fails.
LEMMA TaskFailsKeeps ==
  ASSUME BatchInv, NEW p \in Paths, TaskFails(p)
  PROVE  BatchInv'
<1>. USE DEF BatchInv
<1>1. job[p] \in {"todo", "busy", "read"} /\ p \in Batch
  BY DEF TaskFails, Counted, Batch
<1>2. phase = "tasks"
  BY <1>1 DEF Shape, BatchAccounted, Completed
<1>3. UNCHANGED <<pend, ev, jf, forced, fresh, phase, mode, timer, terminal, turn>>
  BY DEF TaskFails, Counted, queue, faults, pace
<1>4. \E o \in {"left", "retry"} : Outcome(p, o)
  BY DEF TaskFails, Counted
<1>5. {"left", "retry"} \subseteq JobKinds \ {"none"}
  BY DEF JobKinds, Outcomes, Completed
<1>. QED BY <1>1, <1>2, <1>3, <1>4, <1>5, OutcomeKeeps

\* Once the tasks have settled, what has no result is queued again or given up.
LEMMA SettleKeeps ==
  ASSUME BatchInv, Settle
  PROVE  BatchInv'
<1>. USE DEF BatchInv
<1>. DEFINE back == {p \in JobIn({"gone"}) : Seen(p) # Absent}
            e == [p \in Paths |-> IF p \in back THEN "change" ELSE ev[p]]
            T == back \union JobIn({"todo", "left"})
<1>1. /\ phase = "tasks" /\ phase' = "insert" /\ Batch \subseteq JobIn(Outcomes \union {"todo"})
      /\ job' = [p \in Paths |-> IF p \in back \/ job[p] \in {"todo", "retry"} THEN "left" ELSE job[p]]
      /\ ev' = e /\ Requeue(JobIn({"retry"}), T, e)
      /\ UNCHANGED <<forced, fresh, jf, mode, timer, turn>>
  BY DEF Settle, Dispatching, pace
<1>2. back \subseteq Batch /\ T \subseteq Batch /\ JobIn({"retry"}) \subseteq Batch /\ Batch \subseteq Paths
  BY DEF JobIn, Batch
<1>3. e \in [Paths -> EventKinds] /\ \A p \in Batch : e[p] # "none"
  BY <1>2 DEF Shape, EventKinds, BatchAccounted
<1>4. /\ pend' \in [Paths -> EventKinds] /\ terminal' \subseteq Paths
      /\ Pending \subseteq Pending' /\ terminal \subseteq terminal'
      /\ JobIn({"retry"}) \union T \subseteq Pending' \union terminal'
  <2>. HIDE DEF e, T
  <2>. QED BY <1>1, <1>2, <1>3, RequeueEffect
<1>5. Batch' = Batch /\ \A p \in Batch : job'[p] \in Completed \union {"left"}
  BY <1>1, <1>2 DEF Batch, JobIn, Outcomes
<1>6. \A p \in Batch : job'[p] = "left" => p \in JobIn({"retry"}) \union T
  BY <1>1, <1>2 DEF JobIn
<1>7. job' \in [Paths -> JobKinds]
  BY <1>1 DEF Shape, JobKinds, Outcomes
<1>. HIDE DEF e, T, back
<1>8. Shape'
  BY <1>1, <1>3, <1>4, <1>7 DEF Shape
<1>9. Started'
  BY <1>1 DEF Started, NoStrandedWork, StopIsQuiet, Active
<1>10. BatchAccounted'
  BY <1>1, <1>3, <1>4, <1>5, <1>6 DEF BatchAccounted
<1>11. RepairsOwed'
  BY <1>1, <1>4, <1>5 DEF RepairsOwed
<1>. QED BY <1>8, <1>9, <1>10, <1>11

\* Removals that turn out wrong are queued again.
LEMMA VerifyKeeps ==
  ASSUME BatchInv, Verify
  PROVE  BatchInv'
<1>. USE DEF BatchInv
<1>. DEFINE back == {p \in JobIn({"gone"}) : Seen(p) # Absent}
            e == [p \in Paths |-> "change"]
<1>1. /\ phase = "verify" /\ phase' = "delete"
      /\ job' = [p \in Paths |-> IF p \in back THEN "left" ELSE job[p]]
      /\ ev' = [p \in Paths |-> IF p \in back THEN "change" ELSE ev[p]]
      /\ Requeue({}, back, e)
      /\ UNCHANGED <<forced, fresh, jf, mode, timer, turn>>
  BY DEF Verify, pace
<1>2. back \subseteq Batch /\ Batch \subseteq Paths
  BY DEF JobIn, Batch
<1>3. e \in [Paths -> EventKinds] /\ \A p \in Paths : e[p] # "none"
  BY DEF EventKinds
<1>4. /\ pend' \in [Paths -> EventKinds] /\ terminal' \subseteq Paths
      /\ Pending \subseteq Pending' /\ terminal \subseteq terminal' /\ back \subseteq Pending' \union terminal'
  <2>. HIDE DEF e, back
  <2>. QED BY <1>1, <1>2, <1>3, RequeueEffect
<1>. HIDE DEF e, back
<1>5. Batch' = Batch
  BY <1>1, <1>2 DEF Batch
<1>6. Shape'
  BY <1>1, <1>4 DEF Shape, JobKinds, Outcomes, EventKinds
<1>7. Started'
  BY <1>1 DEF Started, NoStrandedWork, StopIsQuiet, Active
<1>8. BatchAccounted'
  BY <1>1, <1>2, <1>4, <1>5 DEF BatchAccounted
<1>9. RepairsOwed'
  BY <1>1, <1>4, <1>5 DEF RepairsOwed
<1>. QED BY <1>6, <1>7, <1>8, <1>9

\* A repair is done when the batch that was taken for it has completed its path.
LEMMA CommitKeeps ==
  ASSUME BatchInv, Commit
  PROVE  BatchInv'
<1>. USE DEF BatchInv
<1>. DEFINE done == JobIn(Completed)
<1>1. /\ phase = "commit" /\ phase' = "end"
      /\ forced' = forced \ ((jf \intersect done) \ fresh) /\ terminal' = terminal \ done
      /\ UNCHANGED <<pend, fresh, job, ev, jf, mode, timer, turn>>
  BY DEF Commit, jobs, pace
<1>2. Batch' = Batch /\ Pending' = Pending /\ done \subseteq Batch
  BY <1>1 DEF Batch, Pending, JobIn, Completed
<1>3. \A p \in Batch \ done : p \in Pending \union terminal
  BY <1>1 DEF BatchAccounted, JobIn, Batch
<1>4. \A p \in done : job[p] # "left"
  BY DEF JobIn, Completed
<1>. HIDE DEF done
<1>5. Shape' /\ Started'
  BY <1>1, <1>2 DEF Shape, Started, NoStrandedWork, StopIsQuiet, Active
<1>6. BatchAccounted'
  BY <1>1, <1>2, <1>4 DEF BatchAccounted
<1>7. RepairsOwed'
  BY <1>1, <1>2, <1>3 DEF RepairsOwed
<1>. QED BY <1>5, <1>6, <1>7

\* A batch that the store refuses is queued again, or given up.
LEMMA StoreFailsKeeps ==
  ASSUME BatchInv, StoreFails
  PROVE  BatchInv'
<1>. USE DEF BatchInv
<1>1. /\ phase \in {"insert", "delete"} /\ phase' = "end"
      /\ UNCHANGED <<forced, fresh, job, ev, jf, mode, timer, turn>>
  BY DEF StoreFails, jobs, pace
<1>2. Batch \ terminal \in SUBSET Paths /\ {} \in SUBSET Paths /\ ev \in [Paths -> EventKinds]
  BY DEF Batch, Shape
<1>3. /\ pend' \in [Paths -> EventKinds] /\ terminal' \subseteq Paths
      /\ Pending \subseteq Pending' /\ terminal \subseteq terminal'
      /\ Batch \ terminal \subseteq Pending' \union terminal'
  <2>1. \A p \in Batch \ terminal : ev[p] # "none"
    BY DEF BatchAccounted
  <2>2. CASE Requeue({}, Batch \ terminal, ev)
    BY <1>2, <2>1, <2>2, RequeueEffect
  <2>3. CASE Requeue(Batch \ terminal, {}, ev)
    BY <1>2, <2>1, <2>3, RequeueEffect
  <2>. QED BY <2>2, <2>3 DEF StoreFails
<1>4. Batch' = Batch
  BY <1>1 DEF Batch
<1>5. Shape' /\ Started'
  BY <1>1, <1>3 DEF Shape, Started, NoStrandedWork, StopIsQuiet, Active
<1>6. BatchAccounted'
  BY <1>1, <1>3, <1>4 DEF BatchAccounted
<1>7. RepairsOwed'
  BY <1>1, <1>3, <1>4 DEF RepairsOwed
<1>. QED BY <1>5, <1>6, <1>7

\* The end of a batch empties it; what a policy change touched is queued again.
LEMMA EndKeeps ==
  ASSUME BatchInv, End
  PROVE  BatchInv'
<1>. USE DEF BatchInv
<1>1. PICK again \in SUBSET Paths :
        /\ Enqueue(again, [p \in Paths |-> "change"], bk)
        /\ BatchOver(Pending \union again # {})
  BY DEF End, Batch
<1>2. /\ phase = "end"
      /\ job' = [p \in Paths |-> "none"] /\ ev' = [p \in Paths |-> "none"] /\ jf' = {}
      /\ UNCHANGED <<forced, fresh, terminal, mode, turn>>
  BY DEF End, pace
<1>3. [p \in Paths |-> "change"] \in [Paths -> EventKinds]
  BY DEF EventKinds
<1>4. pend' \in [Paths -> EventKinds] /\ Pending' = Pending \union again
  BY <1>1, <1>3, EnqueueEffect
<1>5. Batch' = {} /\ phase' = "none" /\ timer' = (mode = "running" /\ Pending \union again # {})
  BY <1>1, <1>2 DEF Batch, BatchOver
<1>6. Shape'
  BY <1>2, <1>4, <1>5 DEF Shape, EventKinds, JobKinds
<1>7. Started'
  BY <1>2, <1>4, <1>5 DEF Started, NoStrandedWork, StopIsQuiet, Active
<1>8. BatchAccounted'
  BY <1>5 DEF BatchAccounted
<1>9. RepairsOwed'
  BY <1>2, <1>4, <1>5 DEF RepairsOwed
<1>. QED BY <1>6, <1>7, <1>8, <1>9

\* The inductive invariant holds of every reachable state.
THEOREM BatchInvariant == BatchSpec => []BatchInv
<1>1. BatchInit => BatchInv
  <2>. SUFFICES ASSUME BatchInit PROVE BatchInv
    OBVIOUS
  <2>1. Shape
    BY DEF BatchInit, Shape, EventKinds, JobKinds
  <2>2. Started
    BY DEF BatchInit, Started, NoStrandedWork, StopIsQuiet, Active, Pending
  <2>3. BatchAccounted /\ RepairsOwed
    BY DEF BatchInit, BatchAccounted, RepairsOwed, Batch
  <2>. QED BY <2>1, <2>2, <2>3 DEF BatchInv
<1>2. BatchInv /\ [BatchNext]_batchVars => BatchInv'
  <2>. SUFFICES ASSUME BatchInv, [BatchNext]_batchVars PROVE BatchInv'
    OBVIOUS
  <2>1. CASE UNCHANGED batchVars
    BY <2>1 DEF batchVars, queue, jobs, pace, faults, BatchInv, Shape, Started, BatchAccounted, RepairsOwed,
       NoStrandedWork, StopIsQuiet, Active, Batch, Pending
  <2>2. ASSUME NEW p \in Paths,
               \/ Edit(p) \/ EditRules(p) \/ ScanPath(p) \/ ScanPathFails(p)
               \/ Begin(p) \/ Read(p) \/ Finish(p) \/ TaskFails(p)
               \/ \E last \in BOOLEAN : Event(p, last)
        PROVE  BatchInv'
    BY <2>2, EditKeeps, EditRulesKeeps, ScanPathKeeps, ScanPathFailsKeeps, BeginKeeps, ReadKeeps, FinishKeeps,
       TaskFailsKeeps, EventKeeps
  <2>3. CASE \/ Overflow \/ PolicyEvent \/ ScanBegins \/ ScanEnds \/ ScanFails \/ StartBatch
             \/ \E ripe \in SUBSET Paths : Select(ripe)
    BY <2>3, OverflowKeeps, PolicyEventKeeps, ScanBeginsKeeps, ScanEndsKeeps, ScanFailsKeeps, StartBatchKeeps,
       SelectKeeps
  <2>4. CASE Halt \/ Flush \/ StoreFails
    BY <2>4, HaltKeeps, SettleKeeps, InsertKeeps, VerifyKeeps, DeleteKeeps, CommitKeeps, EndKeeps, StoreFailsKeeps
       DEF Flush
  <2>5. CASE Pause \/ Paused \/ Resume \/ Close \/ Restart
    BY <2>5, PauseKeeps, PausedKeeps, ResumeKeeps, CloseKeeps, RestartKeeps
  <2>. QED BY <2>1, <2>2, <2>3, <2>4, <2>5 DEF BatchNext
<1>. QED BY <1>1, <1>2, PTL DEF BatchSpec

\* Pending work of a running processor has something that will start it.
THEOREM BatchNothingStranded == BatchSpec => []NoStrandedWork
<1>1. BatchInv => NoStrandedWork
  BY DEF BatchInv, Started
<1>. QED BY <1>1, BatchInvariant, PTL

\* A processor that is paused or closed has no batch.
THEOREM BatchStopIsQuiet == BatchSpec => []StopIsQuiet
<1>1. BatchInv => StopIsQuiet
  BY DEF BatchInv, Started
<1>. QED BY <1>1, BatchInvariant, PTL

\* A repair that is due has work that will do it.
THEOREM BatchRepairStaysDue == BatchSpec => []RepairStaysDue
<1>1. BatchInv => RepairStaysDue
  BY DEF BatchInv, RepairsOwed, RepairStaysDue
<1>. QED BY <1>1, BatchInvariant, PTL

-----------------------------------------------------------------------------
(* The index and the files.  One lemma for each action; under it one step    *)
(* for each conjunct of the invariant.                                       *)

USE DEF Version, ScanShape, Absent, Idle, EventKinds, JobKinds, Completed, Outcomes, store, policy, world,
   queue, jobs, pace, faults, Due

\* The walk takes p from what is left, and remembers what it has met.
LEMMA VisitedEffect ==
  ASSUME IndexShape, NEW p \in Paths, NEW S \in SUBSET Paths, Visited(p, S)
  PROVE  /\ scan' \in ScanShape
         /\ scan'.on = scan.on /\ scan'.known = scan.known /\ scan'.vec = scan.vec
         /\ scan'.todo = scan.todo \ {p} /\ scan'.seen = scan.seen \union S
  BY DEF IndexShape, Visited

\* An entry with the content of the file has no other vectors beside it.
LEMMA LevelRows ==
  ASSUME IndexInv, NEW p \in Paths, disk[p] # Absent, meta[p].c = disk[p].c, rows[p] # {}
  PROVE  rows[p] = {disk[p].c}
<1>1. \A c \in rows[p] : c \in Nat /\ c <= disk[p].c /\ disk[p].c <= c
  BY DEF IndexInv, IndexShape, Ordered
<1>2. disk[p].c \in Nat
  BY DEF IndexInv, IndexShape
<1>3. \A c \in rows[p] : c = disk[p].c
  BY <1>1, <1>2
<1>. QED BY <1>3

\* A path whose entry has the content of the file is right, or somebody will look.
LEMMA LevelIsRight ==
  ASSUME BatchInv, IndexInv, Open, NEW p \in Paths, Seen(p) # Absent, meta[p].c = Seen(p).c,
         p \notin forced \/ p \in Pending, ~(phase = "commit" /\ job[p] = "gone")
  PROVE  InSync(p) \/ Watched(p)
<1>1. p \notin loaded /\ disk[p] # Absent /\ meta[p].c = disk[p].c /\ disk[p].c # 0
  BY DEF Seen, IndexInv, Ordered
<1>2. rows[p] # {} => rows[p] = {disk[p].c}
  BY <1>1, LevelRows
<1>3. rows[p] = {} => Watched(p)
  BY <1>1 DEF IndexInv, IndexShape, Backed, Watched, ToPurge, Seen
<1>4. p \in rules => Watched(p)
  BY <1>1 DEF IndexInv, PolicyIsRead, Watched
<1>. QED BY <1>1, <1>2, <1>3, <1>4 DEF InSync

\* An edit sends an event.
LEMMA EditIndexed ==
  ASSUME BatchInv, IndexInv, ~MayRevert, ~FirstTimeGap, ~SilentRules, NEW p \in Paths, Edit(p)
  PROVE  IndexInv'
<1>a. PICK c \in {0, disk[p].c, counts.edits + 1} :
        disk' = [disk EXCEPT ![p] = IF c = 0 THEN Absent ELSE [c |-> c, t |-> counts.edits + 1]]
  BY DEF Edit, Contents
<1>b. /\ disk' \in [Paths -> Version] /\ disk'[p].c = c /\ (c = 0 => disk'[p] = Absent)
      /\ \A r \in Paths \ {p} : disk'[r] = disk[r]
  BY <1>a DEF IndexInv, IndexShape
<1>c. counts' \in [edits : Nat, faults : Nat] /\ counts'.edits = counts.edits + 1
  BY DEF IndexInv, IndexShape, Edit, Counted
<1>d. c \in Nat /\ told' = told \union {p}
  BY DEF IndexInv, IndexShape, Edit
<1>e. UNCHANGED <<store, gap, lost, policy, scan, queue, jobs, phase, timer, halt, dirty, pace, faults, mode>>
  BY DEF Edit
<1>. USE DEF BatchInv, Shape, IndexInv, IndexShape, Open, Seen, Pending, Batch
<1>1. IndexShape' /\ PolicyIsRead'
  BY <1>a, <1>b, <1>c, <1>d, <1>e DEF PolicyIsRead, BatchAccounted
<1>2. ASSUME NEW q \in Paths
      PROVE  (Ordered(q) /\ Results(q) /\ Backed(q) /\ Purged(q) /\ Removed(q) /\ Written(q) /\ Followed(q))'
  <2>1. Ordered(q)'
    BY <1>a, <1>b, <1>c, <1>d, <1>e DEF Ordered
  <2>2. Results(q)'
    BY <1>a, <1>b, <1>c, <1>d, <1>e DEF Results
  <2>3. Backed(q)'
    BY <1>a, <1>b, <1>c, <1>d, <1>e DEF Backed, Ordered
  <2>4. Purged(q)'
    BY <1>a, <1>b, <1>c, <1>d, <1>e DEF Purged, ToPurge, Removal, Unlinking, Dropped, Settled, Flushing
  <2>5. Removed(q)'
    BY <1>a, <1>b, <1>c, <1>d, <1>e DEF Removed, ToPurge, Ordered
  <2>6. Written(q)'
    BY <1>a, <1>b, <1>c, <1>d, <1>e DEF Written, ToPurge, Flushing
  <2>7. Followed(q)'
    BY <1>a, <1>b, <1>c, <1>d, <1>e DEF Followed, ToPurge, InSync, Watched, GivenUp, Unvisited, InWork,
       Settled, Flushing
  <2>. QED BY <2>1, <2>2, <2>3, <2>4, <2>5, <2>6, <2>7
<1>. QED BY <1>1, <1>2

\* An edit of an ignore file sends an event.
LEMMA EditRulesIndexed ==
  ASSUME BatchInv, IndexInv, ~MayRevert, ~FirstTimeGap, ~SilentRules, NEW p \in Paths, EditRules(p)
  PROVE  IndexInv'
<1>. USE DEF BatchInv, Shape, IndexInv, IndexShape, Open, Seen, Pending, Batch, EditRules, Counted
<1>1. IndexShape' /\ PolicyIsRead'
  BY DEF PolicyIsRead, BatchAccounted
<1>2. ASSUME NEW q \in Paths
      PROVE  (Ordered(q) /\ Results(q) /\ Backed(q) /\ Purged(q) /\ Removed(q) /\ Written(q) /\ Followed(q))'
  <2>1. Ordered(q)'
    BY DEF Ordered
  <2>2. Results(q)'
    BY DEF Results
  <2>3. Backed(q)'
    BY DEF Backed
  <2>4. Purged(q)'
    BY DEF Purged, ToPurge, Removal, Unlinking, Dropped, Settled, Flushing
  <2>5. Removed(q)'
    BY DEF Removed, ToPurge
  <2>6. Written(q)'
    BY DEF Written, ToPurge, Flushing
  <2>7. Followed(q)'
    BY DEF Followed, ToPurge, InSync, Watched, GivenUp, Unvisited, InWork, Settled, Flushing
  <2>. QED BY <2>1, <2>2, <2>3, <2>4, <2>5, <2>6, <2>7
<1>. QED BY <1>1, <1>2

\* New rules ask for a scan and mark the batch.
LEMMA PolicyEventIndexed ==
  ASSUME BatchInv, IndexInv, ~MayRevert, ~FirstTimeGap, ~SilentRules, PolicyEvent
  PROVE  IndexInv'
<1>. USE DEF BatchInv, Shape, IndexInv, IndexShape, Open, Seen, Pending, Batch, PolicyEvent
<1>1. IndexShape' /\ PolicyIsRead'
  BY DEF PolicyIsRead, BatchAccounted
<1>2. ASSUME NEW q \in Paths
      PROVE  (Ordered(q) /\ Results(q) /\ Backed(q) /\ Purged(q) /\ Removed(q) /\ Written(q) /\ Followed(q))'
  <2>1. Ordered(q)'
    BY DEF Ordered
  <2>2. Results(q)'
    BY DEF Results
  <2>3. Backed(q)'
    BY DEF Backed
  <2>4. Purged(q)'
    BY DEF Purged, ToPurge, Removal, Unlinking, Dropped, Settled, Flushing
  <2>5. Removed(q)'
    BY DEF Removed, ToPurge
  <2>6. Written(q)'
    BY DEF Written, ToPurge, Flushing
  <2>7. Followed(q)'
    BY DEF Followed, ToPurge, InSync, Watched, GivenUp, Unvisited, InWork, Settled, Flushing
  <2>. QED BY <2>1, <2>2, <2>3, <2>4, <2>5, <2>6, <2>7
<1>. QED BY <1>1, <1>2

\* Lost events ask for a scan.
LEMMA OverflowIndexed ==
  ASSUME BatchInv, IndexInv, ~MayRevert, ~FirstTimeGap, ~SilentRules, Overflow
  PROVE  IndexInv'
<1>. USE DEF BatchInv, Shape, IndexInv, IndexShape, Open, Seen, Pending, Batch, Overflow
<1>1. IndexShape' /\ PolicyIsRead'
  BY DEF PolicyIsRead, BatchAccounted
<1>2. ASSUME NEW q \in Paths
      PROVE  (Ordered(q) /\ Results(q) /\ Backed(q) /\ Purged(q) /\ Removed(q) /\ Written(q) /\ Followed(q))'
  <2>1. Ordered(q)'
    BY DEF Ordered
  <2>2. Results(q)'
    BY DEF Results
  <2>3. Backed(q)'
    BY DEF Backed
  <2>4. Purged(q)'
    BY DEF Purged, ToPurge, Removal, Unlinking, Dropped, Settled, Flushing
  <2>5. Removed(q)'
    BY DEF Removed, ToPurge
  <2>6. Written(q)'
    BY DEF Written, ToPurge, Flushing
  <2>7. Followed(q)'
    BY DEF Followed, ToPurge, InSync, Watched, GivenUp, Unvisited, InWork, Settled, Flushing
  <2>. QED BY <2>1, <2>2, <2>3, <2>4, <2>5, <2>6, <2>7
<1>. QED BY <1>1, <1>2

\* An event is queued, or its path has no entry and may not be seen.
LEMMA EventIndexed ==
  ASSUME BatchInv, IndexInv, ~MayRevert, ~FirstTimeGap, ~SilentRules, NEW p \in Paths, NEW last \in BOOLEAN,
     Event(p, last)
  PROVE  IndexInv'
<1>a. \/ /\ p \in loaded /\ meta[p] = Absent /\ pend' = pend /\ UNCHANGED <<forced, fresh>>
      \/ /\ ~(p \in loaded /\ meta[p] = Absent) /\ UNCHANGED <<forced, fresh>>
         /\ pend' = [r \in Paths |-> IF r \in {p} THEN IF (disk[p] = Absent) = last THEN "unlink" ELSE "change"
                                     ELSE pend[r]]
  BY DEF Event, Handle, Enqueue
<1>b. p \in told /\ told' = IF last THEN told \ {p} ELSE told
  BY DEF Event
<1>c. UNCHANGED <<store, disk, gap, lost, policy, scan, jobs, phase, halt, dirty, pace, faults, mode, counts>>
  BY DEF Event
<1>d. pend' \in [Paths -> EventKinds] /\ \A r \in Paths \ {p} : pend'[r] = pend[r]
  BY <1>a DEF BatchInv, Shape
<1>e. p \notin told' \/ ~last
  BY <1>b
<1>f. pend'[p] # "none" => pend[p] # "none" \/ ~(p \in loaded /\ meta[p] = Absent)
  BY <1>a
<1>g. pend[p] # "none" \/ ~(p \in loaded /\ meta[p] = Absent) => pend'[p] # "none"
  BY <1>a
<1>. USE DEF BatchInv, Shape, IndexInv, IndexShape, Open, Seen, Pending, Batch
<1>1. IndexShape' /\ PolicyIsRead'
  BY <1>a, <1>b, <1>c, <1>d, <1>e, <1>f, <1>g DEF PolicyIsRead, BatchAccounted
<1>2. ASSUME NEW q \in Paths
      PROVE  (Ordered(q) /\ Results(q) /\ Backed(q) /\ Purged(q) /\ Removed(q) /\ Written(q) /\ Followed(q))'
  <2>1. Ordered(q)'
    BY <1>a, <1>b, <1>c, <1>d, <1>e, <1>f, <1>g DEF Ordered
  <2>2. Results(q)'
    BY <1>a, <1>b, <1>c, <1>d, <1>e, <1>f, <1>g DEF Results
  <2>3. Backed(q)'
    BY <1>a, <1>b, <1>c, <1>d, <1>e, <1>f, <1>g DEF Backed
  <2>4. Purged(q)'
    <3>. USE <1>b, <1>c DEF Purged, ToPurge, Removal, Unlinking, Dropped, Settled, Flushing
    <3>1. CASE q # p
      BY <1>d, <3>1
    <3>2. CASE q = p /\ p \in loaded /\ meta[p] = Absent
      <4>1. pend' = pend
        BY <1>a, <3>2
      <4>. QED BY <3>2, <4>1
    <3>3. CASE q = p /\ p \notin loaded /\ last /\ disk[p] = Absent
      <4>1. pend'[p] = "unlink"
        BY <1>a, <3>3
      <4>. QED BY <3>3, <4>1
    <3>4. CASE q = p /\ p \notin loaded /\ ~(last /\ disk[p] = Absent)
      BY <3>4
    <3>. QED BY <3>1, <3>2, <3>3, <3>4
  <2>5. Removed(q)'
    BY <1>a, <1>b, <1>c, <1>d, <1>e, <1>f, <1>g DEF Removed, ToPurge
  <2>6. Written(q)'
    BY <1>a, <1>b, <1>c, <1>d, <1>e, <1>f, <1>g DEF Written, ToPurge, Flushing
  <2>7. Followed(q)'
    <3>. USE <1>b, <1>c DEF PolicyIsRead, Followed, ToPurge, InSync, Watched, GivenUp, Unvisited, InWork,
       Settled, Flushing
    <3>1. CASE q # p
      BY <1>d, <3>1
    <3>2. CASE q = p /\ pend'[p] # "none"
      BY <3>2
    <3>3. CASE q = p /\ pend'[p] = "none"
      <4>1. p \in loaded /\ meta[p] = Absent /\ pend[p] = "none"
        BY <1>g, <3>3
      <4>2. Open /\ rows[p] # {} => Due(p) \/ ToPurge(p) \/ GivenUp(p) \/ InWork(p)
        BY <3>3, <4>1 DEF Purged, Removal, Unlinking, Dropped
      <4>. QED BY <3>3, <4>1, <4>2
    <3>. QED BY <3>1, <3>2, <3>3
  <2>. QED BY <2>1, <2>2, <2>3, <2>4, <2>5, <2>6, <2>7
<1>. QED BY <1>1, <1>2

\* A scan lists what is known.
LEMMA ScanBeginsIndexed ==
  ASSUME BatchInv, IndexInv, ~MayRevert, ~FirstTimeGap, ~SilentRules, ScanBegins
  PROVE  IndexInv'
<1>a. scan' \in ScanShape /\ scan'.todo \intersect scan'.seen = {} /\ scan'.on
  BY DEF ScanBegins, Known
<1>. USE DEF BatchInv, Shape, IndexInv, IndexShape, Open, Seen, Pending, Batch, ScanBegins, Known
<1>1. IndexShape' /\ PolicyIsRead'
  BY <1>a DEF PolicyIsRead
<1>2. ASSUME NEW q \in Paths
      PROVE  (Ordered(q) /\ Results(q) /\ Backed(q) /\ Purged(q) /\ Removed(q) /\ Written(q) /\ Followed(q))'
  <2>1. Ordered(q)'
    BY DEF Ordered
  <2>2. Results(q)'
    BY DEF Results
  <2>3. Backed(q)'
    BY DEF Backed, Ordered
  <2>4. Purged(q)'
    BY DEF Purged, ToPurge, Removal, Unlinking, Dropped, Settled, Flushing
  <2>5. Removed(q)'
    BY DEF Removed, ToPurge
  <2>6. Written(q)'
    BY DEF Written, ToPurge, Flushing
  <2>7. Followed(q)'
    BY DEF Followed, ToPurge, InSync, Watched, GivenUp, Unvisited, InWork, Settled, Flushing
  <2>. QED BY <2>1, <2>2, <2>3, <2>4, <2>5, <2>6, <2>7
<1>. QED BY <1>1, <1>2

\* The walk queues what differs.
LEMMA ScanPathIndexed ==
  ASSUME BatchInv, IndexInv, ~MayRevert, ~FirstTimeGap, ~SilentRules, NEW p \in Paths, ScanPath(p)
  PROVE  IndexInv'
<1>a. /\ scan.on /\ p \in scan.todo
      /\ \E S \in SUBSET Paths : Visited(p, S) /\ S = IF Seen(p) = Absent THEN {} ELSE {p}
  BY DEF ScanPath
<1>b. \/ Seen(p) = Absent /\ UNCHANGED <<meta, pend, forced>>
      \/ /\ Seen(p) # Absent /\ UNCHANGED meta
         /\ pend' = [r \in Paths |-> IF r \in {p} THEN "change" ELSE pend[r]]
         /\ forced' = forced \union {p} \/ (forced' = forced /\ p \in scan.vec)
      \/ /\ Seen(p) # Absent /\ meta[p] # Absent /\ meta[p].c = Seen(p).c /\ p \in scan.vec
         /\ meta' = [meta EXCEPT ![p] = Seen(p)] /\ UNCHANGED <<pend, forced>>
      \/ Seen(p) # Absent /\ meta[p] = Seen(p) /\ p \in scan.vec /\ UNCHANGED <<meta, pend, forced>>
  BY DEF ScanPath, Handle, Enqueue
<1>c. UNCHANGED <<rows, world, jobs, phase, halt, dirty, pace, faults, mode, counts>>
  BY DEF ScanPath
<1>d. /\ scan' \in ScanShape
      /\ scan'.on /\ scan'.known = scan.known /\ scan'.vec = scan.vec /\ scan'.todo = scan.todo \ {p}
      /\ scan'.seen = IF Seen(p) = Absent THEN scan.seen ELSE scan.seen \union {p}
  BY <1>a, VisitedEffect DEF IndexInv
<1>e. meta' \in [Paths -> Version] /\ meta'[p].c = meta[p].c /\ (meta'[p] = Absent <=> meta[p] = Absent)
  BY <1>b DEF IndexInv, IndexShape, Seen
<1>f. /\ \A r \in Paths \ {p} : meta'[r] = meta[r] /\ pend'[r] = pend[r]
      /\ pend' \in [Paths -> EventKinds] /\ \A r \in Paths : pend[r] # "none" => pend'[r] # "none"
  BY <1>b DEF IndexInv, IndexShape, BatchInv, Shape
<1>. USE DEF BatchInv, Shape, IndexInv, IndexShape, Open, Seen, Pending, Batch
<1>1. IndexShape' /\ PolicyIsRead'
  BY <1>a, <1>b, <1>c, <1>d, <1>e, <1>f DEF PolicyIsRead, BatchAccounted
<1>2. ASSUME NEW q \in Paths
      PROVE  (Ordered(q) /\ Results(q) /\ Backed(q) /\ Purged(q) /\ Removed(q) /\ Written(q) /\ Followed(q))'
  <2>1. Ordered(q)'
    BY <1>a, <1>b, <1>c, <1>d, <1>e, <1>f DEF Ordered
  <2>2. Results(q)'
    BY <1>a, <1>b, <1>c, <1>d, <1>e, <1>f DEF Results
  <2>3. Backed(q)'
    BY <1>a, <1>b, <1>c, <1>d, <1>e, <1>f DEF Backed
  <2>4. Purged(q)'
    BY <1>a, <1>b, <1>c, <1>d, <1>e, <1>f DEF Purged, ToPurge, Removal, Unlinking, Dropped, Settled, Flushing
  <2>5. Removed(q)'
    BY <1>a, <1>b, <1>c, <1>d, <1>e, <1>f DEF Removed, ToPurge
  <2>6. Written(q)'
    <3>. USE DEF PolicyIsRead, Written, ToPurge, Flushing, Ordered, Results
    <3>1. CASE q # p
      BY <1>c, <1>d, <1>e, <1>f, <3>1
    <3>2. CASE q = p /\ Seen(p) = Absent
      BY <1>b, <1>c, <1>d, <1>f, <3>2
    <3>3. CASE q = p /\ Seen(p) # Absent /\ pend'[p] = "none"
      <4>1. meta[p].c = disk[p].c /\ UNCHANGED pend /\ p \notin loaded /\ disk[p] # Absent
        BY <1>b, <3>3
      <4>2. job[p] = "write" => disk[p].c = res[p].c
        <5>1. disk[p].c \in Nat /\ res[p].c \in Nat
          OBVIOUS
        <5>2. job[p] = "write" => meta[p].c <= res[p].c
          OBVIOUS
        <5>3. disk[p].c # 0 => res[p].c <= disk[p].c
          OBVIOUS
        <5>4. disk[p].c # 0
          BY <4>1
        <5>. QED BY <4>1, <5>1, <5>2, <5>3, <5>4
      <4>. QED BY <1>c, <1>d, <3>3, <4>1, <4>2
    <3>4. CASE q = p /\ pend'[p] # "none"
      BY <3>4
    <3>. QED BY <3>1, <3>2, <3>3, <3>4
  <2>7. Followed(q)'
    <3>. USE DEF PolicyIsRead, Followed, ToPurge, InSync, Watched, GivenUp, Unvisited, InWork, Settled,
       Flushing, Ordered
    <3>1. CASE q # p
      BY <1>c, <1>d, <1>e, <1>f, <3>1
    <3>2. CASE q = p /\ Seen(p) = Absent
      <4>1. UNCHANGED <<meta, pend, forced>> /\ scan'.seen = scan.seen
        BY <1>b, <1>d, <3>2
      <4>. QED BY <1>c, <1>d, <3>2, <4>1
    <3>3. CASE q = p /\ Seen(p) # Absent /\ pend'[p] = "none"
      <4>1. /\ meta[p].c = disk[p].c /\ p \in scan.vec /\ UNCHANGED <<pend, forced>>
            /\ p \notin loaded /\ disk[p] # Absent
        BY <1>b, <3>3
      <4>2. Open => rows[p] = {disk[p].c} \/ Due(p) \/ GivenUp(p) \/ InWork(p)
        <5>1. CASE phase = "commit" /\ job[p] = "gone"
          BY <5>1
        <5>2. CASE p \in forced
          BY <3>3, <4>1, <5>2 DEF Results, BatchAccounted, RepairsOwed
        <5>3. CASE p \notin forced /\ ~(phase = "commit" /\ job[p] = "gone")
          <6>1. rows[p] # {} => rows[p] = {disk[p].c}
            BY <4>1, LevelRows
          <6>. QED BY <3>3, <4>1, <5>3, <6>1 DEF Backed
        <5>. QED BY <5>1, <5>2, <5>3
      <4>. QED BY <1>c, <1>d, <1>e, <3>3, <4>1, <4>2
    <3>4. CASE q = p /\ pend'[p] # "none"
      BY <3>4
    <3>. QED BY <3>1, <3>2, <3>3, <3>4
  <2>. QED BY <2>1, <2>2, <2>3, <2>4, <2>5, <2>6, <2>7
<1>. QED BY <1>1, <1>2

\* A path that the scan missed is one it no longer has to visit.
LEMMA ScanPathFailsIndexed ==
  ASSUME BatchInv, IndexInv, ~MayRevert, ~FirstTimeGap, ~SilentRules, NEW p \in Paths,
     ScanPathFails(p)
  PROVE  IndexInv'
<1>a. /\ scan.on /\ p \in scan.todo /\ Visited(p, {}) /\ lost' = lost \union {p}
      /\ counts' \in [edits : Nat, faults : Nat] /\ counts'.edits = counts.edits
  BY DEF ScanPathFails, Counted, IndexInv, IndexShape
<1>b. /\ scan' \in ScanShape
      /\ scan'.on /\ scan'.known = scan.known /\ scan'.vec = scan.vec /\ scan'.todo = scan.todo \ {p}
      /\ scan'.seen = scan.seen \union {}
  BY <1>a, VisitedEffect DEF IndexInv
<1>c. UNCHANGED <<store, disk, told, gap, policy, queue, jobs, phase, timer, halt, dirty, pace, faults, mode>>
  BY DEF ScanPathFails
<1>. USE DEF BatchInv, Shape, IndexInv, IndexShape, Open, Seen, Pending, Batch
<1>1. IndexShape' /\ PolicyIsRead'
  BY <1>a, <1>b, <1>c DEF PolicyIsRead, BatchAccounted
<1>2. ASSUME NEW q \in Paths
      PROVE  (Ordered(q) /\ Results(q) /\ Backed(q) /\ Purged(q) /\ Removed(q) /\ Written(q) /\ Followed(q))'
  <2>1. Ordered(q)'
    BY <1>a, <1>b, <1>c DEF Ordered
  <2>2. Results(q)'
    BY <1>a, <1>b, <1>c DEF Results
  <2>3. Backed(q)'
    BY <1>a, <1>b, <1>c DEF Backed
  <2>4. Purged(q)'
    BY <1>a, <1>b, <1>c DEF Purged, ToPurge, Removal, Unlinking, Dropped, Settled, Flushing
  <2>5. Removed(q)'
    BY <1>a, <1>b, <1>c DEF Removed, ToPurge
  <2>6. Written(q)'
    BY <1>a, <1>b, <1>c DEF Written, ToPurge, Flushing
  <2>7. Followed(q)'
    BY <1>a, <1>b, <1>c DEF Followed, ToPurge, InSync, Watched, GivenUp, Unvisited, InWork, Settled, Flushing
  <2>. QED BY <2>1, <2>2, <2>3, <2>4, <2>5, <2>6, <2>7
<1>. QED BY <1>1, <1>2

\* After a scan that failed every path counts as missed.
LEMMA ScanFailsIndexed ==
  ASSUME BatchInv, IndexInv, ~MayRevert, ~FirstTimeGap, ~SilentRules, ScanFails
  PROVE  IndexInv'
<1>a. /\ scan' = Idle /\ lost' = Paths /\ gap' \in BOOLEAN
      /\ counts' \in [edits : Nat, faults : Nat] /\ counts'.edits = counts.edits
  <2>1. scan' = Idle /\ lost' = Paths
    BY DEF ScanFails
  <2>2. gap' \in BOOLEAN
    BY DEF ScanFails, IndexInv, IndexShape
  <2>3. counts' \in [edits : Nat, faults : Nat] /\ counts'.edits = counts.edits
    BY DEF ScanFails, Counted, IndexInv, IndexShape
  <2>. QED BY <2>1, <2>2, <2>3
<1>b. UNCHANGED <<store, disk, told, policy, queue, jobs, phase, timer, halt, dirty, pace, faults, mode>>
  BY DEF ScanFails
<1>. USE DEF BatchInv, Shape, IndexInv, IndexShape, Open, Seen, Pending, Batch
<1>1. IndexShape' /\ PolicyIsRead'
  BY <1>a, <1>b DEF PolicyIsRead, BatchAccounted
<1>2. ASSUME NEW q \in Paths
      PROVE  (Ordered(q) /\ Results(q) /\ Backed(q) /\ Purged(q) /\ Removed(q) /\ Written(q) /\ Followed(q))'
  <2>1. Ordered(q)'
    BY <1>a, <1>b DEF Ordered
  <2>2. Results(q)'
    BY <1>a, <1>b DEF Results
  <2>3. Backed(q)'
    BY <1>a, <1>b DEF Backed
  <2>4. Purged(q)'
    BY <1>a, <1>b DEF Purged, ToPurge, Removal, Unlinking, Dropped, Settled, Flushing
  <2>5. Removed(q)'
    BY <1>a, <1>b DEF Removed, ToPurge
  <2>6. Written(q)'
    BY <1>a, <1>b DEF Written, ToPurge, Flushing
  <2>7. Followed(q)'
    BY <1>a, <1>b DEF Followed, ToPurge, InSync, Watched, GivenUp, Unvisited, InWork, Settled, Flushing
  <2>. QED BY <2>1, <2>2, <2>3, <2>4, <2>5, <2>6, <2>7
<1>. QED BY <1>1, <1>2

\* What was not met is purged.
LEMMA ScanEndsIndexed ==
  ASSUME BatchInv, IndexInv, ~MayRevert, ~FirstTimeGap, ~SilentRules, ScanEnds
  PROVE  IndexInv'
<1>a. gap' \in BOOLEAN /\ (gap => gap')
  <2>1. gap \in BOOLEAN
    BY DEF IndexInv, IndexShape
  <2>2. gap' = gap \/ gap' = TRUE
    BY DEF ScanEnds
  <2>. QED BY <2>1, <2>2
<1>. USE DEF BatchInv, Shape, IndexInv, IndexShape, Open, Seen, Pending, Batch, ScanEnds, Enqueue
<1>1. IndexShape' /\ PolicyIsRead'
  BY <1>a DEF PolicyIsRead, BatchAccounted
<1>2. ASSUME NEW q \in Paths
      PROVE  (Ordered(q) /\ Results(q) /\ Backed(q) /\ Purged(q) /\ Removed(q) /\ Written(q) /\ Followed(q))'
  <2>1. Ordered(q)'
    BY <1>a DEF Ordered
  <2>2. Results(q)'
    BY <1>a DEF Results
  <2>3. Backed(q)'
    BY <1>a DEF Backed
  <2>4. Purged(q)'
    BY <1>a DEF Purged, ToPurge, Removal, Unlinking, Dropped, Settled, Flushing
  <2>5. Removed(q)'
    BY <1>a DEF Removed, ToPurge
  <2>6. Written(q)'
    BY <1>a DEF Written, ToPurge, Flushing
  <2>7. Followed(q)'
    BY <1>a DEF Followed, ToPurge, InSync, Watched, GivenUp, Unvisited, InWork, Settled, Flushing
  <2>. QED BY <2>1, <2>2, <2>3, <2>4, <2>5, <2>6, <2>7
<1>. QED BY <1>1, <1>2

\* A batch that waits has no paths.
LEMMA StartBatchIndexed ==
  ASSUME BatchInv, IndexInv, ~MayRevert, ~FirstTimeGap, ~SilentRules, StartBatch
  PROVE  IndexInv'
<1>. USE DEF BatchInv, Shape, IndexInv, IndexShape, Open, Seen, Pending, Batch, StartBatch, Active
<1>1. IndexShape' /\ PolicyIsRead'
  BY DEF PolicyIsRead, BatchAccounted
<1>2. ASSUME NEW q \in Paths
      PROVE  (Ordered(q) /\ Results(q) /\ Backed(q) /\ Purged(q) /\ Removed(q) /\ Written(q) /\ Followed(q))'
  <2>1. Ordered(q)'
    BY DEF Ordered
  <2>2. Results(q)'
    BY DEF Results
  <2>3. Backed(q)'
    BY DEF Backed
  <2>4. Purged(q)'
    BY DEF Purged, ToPurge, Removal, Unlinking, Dropped, Settled, Flushing
  <2>5. Removed(q)'
    BY DEF Removed, ToPurge
  <2>6. Written(q)'
    BY DEF Written, ToPurge, Flushing
  <2>7. Followed(q)'
    BY DEF Followed, ToPurge, InSync, Watched, GivenUp, Unvisited, InWork, Settled, Flushing
  <2>. QED BY <2>1, <2>2, <2>3, <2>4, <2>5, <2>6, <2>7
<1>. QED BY <1>1, <1>2

\* Pending work becomes a batch.
LEMMA SelectIndexed ==
  ASSUME BatchInv, IndexInv, ~MayRevert, ~FirstTimeGap, ~SilentRules, NEW ripe \in SUBSET Paths, Select(ripe)
  PROVE  IndexInv'
<1>a. \/ /\ phase' = "none" /\ UNCHANGED <<queue, jobs>>
      \/ \E S \in SUBSET ripe :
           /\ job' = [p \in Paths |-> IF p \in S THEN "todo" ELSE "none"]
           /\ ev' = [p \in Paths |-> IF p \in S THEN pend[p] ELSE "none"]
           /\ pend' = [p \in Paths |-> IF p \in S THEN "none" ELSE pend[p]]
           /\ jf' = forced \intersect S /\ phase' = "tasks" /\ UNCHANGED <<forced, res>>
           /\ S \subseteq Pending
  <2>1. ripe \subseteq Pending
    BY DEF Select
  <2>2. CASE halt \/ mode # "running" \/ ripe = {}
    BY <2>2 DEF Select, BatchOver
  <2>3. CASE ~(halt \/ mode # "running" \/ ripe = {})
    <3>1. phase' = "tasks" /\ UNCHANGED <<forced, res>>
      BY <2>3 DEF Select
    <3>. QED BY <2>1, <2>3, <3>1, SelectTakes DEF BatchInv
  <2>. QED BY <2>2, <2>3
<1>b. phase = "waiting" /\ UNCHANGED <<store, world, scan, dirty, faults, mode, counts>>
  BY DEF Select
<1>c. \A r \in Paths : job[r] = "none"
  BY <1>b DEF BatchInv, BatchAccounted, Batch
<1>. USE DEF BatchInv, Shape, IndexInv, IndexShape, Open, Seen, Pending, Batch
<1>1. IndexShape' /\ PolicyIsRead'
  BY <1>a, <1>b, <1>c DEF PolicyIsRead, BatchAccounted
<1>2. ASSUME NEW q \in Paths
      PROVE  (Ordered(q) /\ Results(q) /\ Backed(q) /\ Purged(q) /\ Removed(q) /\ Written(q) /\ Followed(q))'
  <2>1. Ordered(q)'
    BY <1>a, <1>b, <1>c DEF Ordered
  <2>2. Results(q)'
    BY <1>a, <1>b, <1>c DEF Results
  <2>3. Backed(q)'
    BY <1>a, <1>b, <1>c DEF Backed
  <2>4. Purged(q)'
    BY <1>a, <1>b, <1>c DEF Purged, ToPurge, Removal, Unlinking, Dropped, Settled, Flushing
  <2>5. Removed(q)'
    BY <1>a, <1>b, <1>c DEF Removed, ToPurge
  <2>6. Written(q)'
    BY <1>a, <1>b, <1>c DEF Written, ToPurge, Flushing
  <2>7. Followed(q)'
    BY <1>a, <1>b, <1>c DEF Followed, ToPurge, InSync, Watched, GivenUp, Unvisited, InWork, Settled, Flushing
  <2>. QED BY <2>1, <2>2, <2>3, <2>4, <2>5, <2>6, <2>7
<1>. QED BY <1>1, <1>2

\* A task that ends at once has found the index right.
LEMMA BeginIndexed ==
  ASSUME BatchInv, IndexInv, ~MayRevert, ~FirstTimeGap, ~SilentRules, NEW p \in Paths, Begin(p)
  PROVE  IndexInv'
<1>a. job[p] = "todo" /\ phase = "tasks"
  BY DEF Begin, Dispatching
<1>b. \/ Seen(p) = Absent /\ Outcome(p, "gone") /\ UNCHANGED res
      \/ Seen(p) = Absent /\ ev[p] # "unlink" /\ meta[p] = Absent /\ Outcome(p, "cached") /\ UNCHANGED res
      \/ Seen(p) # Absent /\ p \notin jf /\ meta[p] = Seen(p) /\ Outcome(p, "cached") /\ UNCHANGED res
      \/ /\ Seen(p) # Absent /\ p \notin jf /\ meta[p].c = Seen(p).c /\ Outcome(p, "stamp")
         /\ res' = [res EXCEPT ![p] = Seen(p)]
      \/ Seen(p) # Absent /\ Outcome(p, "busy") /\ UNCHANGED res
  BY DEF Begin
<1>c. UNCHANGED <<store, world, scan, queue, ev, jf, bk, phase, timer, halt, dirty, pace, faults, mode, counts>>
  BY DEF Begin
<1>s. Seen(p) \in Version /\ (Seen(p) # Absent => Seen(p) = disk[p])
  BY DEF Seen, IndexInv, IndexShape
<1>d. /\ job' \in [Paths -> JobKinds] /\ job'[p] \in {"gone", "cached", "stamp", "busy"}
      /\ \A r \in Paths \ {p} : job'[r] = job[r]
  BY <1>b DEF Outcome, BatchInv, Shape
<1>r. res' \in [Paths -> Version] /\ \A r \in Paths \ {p} : res'[r] = res[r]
  BY <1>b, <1>s DEF IndexInv, IndexShape
<1>e. /\ job'[p] = "stamp" => res'[p] = Seen(p)
      /\ job'[p] \in {"stamp", "cached"} =>
           \/ Seen(p) # Absent /\ p \notin jf /\ meta[p].c = Seen(p).c
           \/ Seen(p) = Absent /\ ev[p] # "unlink" /\ meta[p] = Absent /\ job'[p] = "cached"
      /\ Seen(p) = Absent => job'[p] \in {"gone", "cached"}
      /\ job'[p] = "gone" => Seen(p) = Absent
      /\ res'[p] = res[p] \/ (job'[p] = "stamp" /\ res'[p] = disk[p])
  BY <1>b, <1>s DEF Outcome, BatchInv, Shape, IndexInv, IndexShape
<1>. USE DEF BatchInv, Shape, IndexInv, IndexShape, Open, Seen, Pending, Batch
<1>1. IndexShape' /\ PolicyIsRead'
  BY <1>a, <1>b, <1>c, <1>s, <1>d, <1>r, <1>e DEF PolicyIsRead, BatchAccounted
<1>2. ASSUME NEW q \in Paths
      PROVE  (Ordered(q) /\ Results(q) /\ Backed(q) /\ Purged(q) /\ Removed(q) /\ Written(q) /\ Followed(q))'
  <2>1. Ordered(q)'
    BY <1>a, <1>b, <1>c, <1>s, <1>d, <1>r, <1>e DEF Ordered
  <2>2. Results(q)'
    BY <1>a, <1>b, <1>c, <1>s, <1>d, <1>r, <1>e DEF Results, Ordered
  <2>3. Backed(q)'
    BY <1>a, <1>b, <1>c, <1>s, <1>d, <1>r, <1>e DEF Backed
  <2>4. Purged(q)'
    BY <1>a, <1>b, <1>c, <1>s, <1>d, <1>r, <1>e DEF Purged, ToPurge, Removal, Unlinking, Dropped, Settled,
       Flushing
  <2>5. Removed(q)'
    BY <1>a, <1>b, <1>c, <1>s, <1>d, <1>r, <1>e DEF Removed, ToPurge
  <2>6. Written(q)'
    BY <1>a, <1>b, <1>c, <1>s, <1>d, <1>r, <1>e DEF Written, ToPurge, Flushing
  <2>7. Followed(q)'
    <3>1. CASE q # p \/ job'[p] \in {"gone", "busy"}
      BY <1>a, <1>c, <1>d, <3>1 DEF Followed, ToPurge, InSync, Watched, GivenUp, Unvisited, InWork, Settled,
         Flushing
    <3>2. ASSUME q = p, job'[p] \in {"stamp", "cached"}, Open
          PROVE  InSync(p) \/ Watched(p)
      <4>1. CASE Seen(p) # Absent
        <5>1. p \notin jf /\ meta[p].c = Seen(p).c /\ (p \in forced => p \in Pending)
          BY <1>a, <1>e, <3>2, <4>1 DEF RepairsOwed
        <5>. QED BY <1>a, <3>2, <4>1, <5>1, LevelIsRight
      <4>2. CASE Seen(p) = Absent
        <5>1. ev[p] # "unlink" /\ meta[p] = Absent
          BY <1>e, <3>2, <4>2
        <5>2. rows[p] # {} => Watched(p)
          BY <1>a, <3>2, <4>2, <5>1 DEF Purged, Removal, Unlinking, Dropped, Settled, Watched
        <5>3. rows[p] = {} => InSync(p) \/ Watched(p)
          BY <3>2, <4>2, <5>1 DEF InSync, Watched, PolicyIsRead
        <5>. QED BY <5>2, <5>3
      <4>. QED BY <4>1, <4>2
    <3>3. ASSUME InSync(p) \/ Watched(p)
          PROVE  (InSync(p) \/ Watched(p))'
      BY <1>c, <3>3 DEF InSync, Watched, ToPurge
    <3>. QED BY <1>c, <1>d, <3>1, <3>2, <3>3 DEF Followed
  <2>. QED BY <2>1, <2>2, <2>3, <2>4, <2>5, <2>6, <2>7
<1>. QED BY <1>1, <1>2

\* A worker reads the newest content.
LEMMA ReadIndexed ==
  ASSUME BatchInv, IndexInv, ~MayRevert, ~FirstTimeGap, ~SilentRules, NEW p \in Paths, Read(p)
  PROVE  IndexInv'
<1>a. job[p] = "busy" /\ phase' = phase
      /\ UNCHANGED <<store, world, scan, queue, ev, jf, bk, timer, halt, dirty, pace, faults, mode, counts>>
  BY DEF Read
<1>b. \/ disk[p] = Absent /\ job' = [job EXCEPT ![p] = "gone"] /\ res' = res
      \/ disk[p] # Absent /\ job' = [job EXCEPT ![p] = "read"] /\ res' = [res EXCEPT ![p] = disk[p]]
  BY DEF Read, Outcome
<1>c. job' \in [Paths -> JobKinds] /\ \A r \in Paths \ {p} : job'[r] = job[r]
  BY <1>b DEF BatchInv, Shape
<1>d. res' \in [Paths -> Version] /\ \A r \in Paths \ {p} : res'[r] = res[r]
  BY <1>b DEF IndexInv, IndexShape
<1>e. \/ disk[p] = Absent /\ job'[p] = "gone" /\ res'[p] = res[p]
      \/ disk[p] # Absent /\ job'[p] = "read" /\ res'[p] = disk[p]
  BY <1>b DEF IndexInv, IndexShape, BatchInv, Shape
<1>. USE DEF BatchInv, Shape, IndexInv, IndexShape, Open, Seen, Pending, Batch
<1>1. IndexShape' /\ PolicyIsRead'
  BY <1>a, <1>b, <1>c, <1>d, <1>e DEF PolicyIsRead, BatchAccounted
<1>2. ASSUME NEW q \in Paths
      PROVE  (Ordered(q) /\ Results(q) /\ Backed(q) /\ Purged(q) /\ Removed(q) /\ Written(q) /\ Followed(q))'
  <2>1. Ordered(q)'
    <3>1. CASE q # p
      BY <1>a, <1>d, <3>1 DEF Ordered
    <3>2. CASE q = p
      BY <1>a, <1>e, <3>2 DEF Ordered
    <3>. QED BY <3>1, <3>2
  <2>2. Results(q)'
    BY <1>a, <1>b, <1>c, <1>d, <1>e DEF Results, BatchAccounted, Ordered
  <2>3. Backed(q)'
    <3>1. CASE q # p
      <4>1. job'[q] = job[q]
        BY <1>c, <3>1
      <4>. QED BY <1>a, <4>1 DEF Backed
    <3>2. CASE q = p
      BY <1>a, <3>2 DEF Backed
    <3>. QED BY <3>1, <3>2
  <2>4. Purged(q)'
    BY <1>a, <1>b, <1>c, <1>d, <1>e DEF Purged, ToPurge, Removal, Unlinking, Dropped, Settled, Flushing
  <2>5. Removed(q)'
    BY <1>a, <1>b, <1>c, <1>d, <1>e DEF Removed, ToPurge
  <2>6. Written(q)'
    BY <1>a, <1>b, <1>c, <1>d, <1>e DEF Written, ToPurge, Flushing
  <2>7. Followed(q)'
    BY <1>a, <1>b, <1>c, <1>d, <1>e DEF Followed, ToPurge, InSync, Watched, GivenUp, Unvisited, InWork,
       Settled, Flushing
  <2>. QED BY <2>1, <2>2, <2>3, <2>4, <2>5, <2>6, <2>7
<1>. QED BY <1>1, <1>2

\* A result is used while it describes the file.
LEMMA FinishIndexed ==
  ASSUME BatchInv, IndexInv, ~MayRevert, ~FirstTimeGap, ~SilentRules, NEW p \in Paths, Finish(p)
  PROVE  IndexInv'
<1>a. /\ job[p] = "read"
      /\ UNCHANGED <<store, world, scan, queue, ev, jf, res, bk, phase, timer, halt, dirty, pace, faults, mode,
         counts>>
  BY DEF Finish
<1>b. /\ job' \in [Paths -> JobKinds] /\ \A r \in Paths \ {p} : job'[r] = job[r]
      /\ \/ job'[p] = "gone" /\ Seen(p) = Absent
         \/ job'[p] = "retry" /\ Seen(p) # Absent
         \/ job'[p] = "stamp" /\ Seen(p) # Absent /\ Seen(p) = res[p] /\ p \notin jf /\ meta[p].c = res[p].c
         \/ job'[p] = "write" /\ Seen(p) # Absent /\ Seen(p) = res[p]
  BY DEF Finish, Outcome, BatchInv, Shape
<1>c. phase = "tasks"
  BY <1>a DEF BatchInv, BatchAccounted, Shape, Batch
<1>. USE DEF BatchInv, Shape, IndexInv, IndexShape, Open, Seen, Pending, Batch
<1>1. IndexShape' /\ PolicyIsRead'
  BY <1>a, <1>b, <1>c DEF PolicyIsRead, BatchAccounted
<1>2. ASSUME NEW q \in Paths
      PROVE  (Ordered(q) /\ Results(q) /\ Backed(q) /\ Purged(q) /\ Removed(q) /\ Written(q) /\ Followed(q))'
  <2>1. Ordered(q)'
    BY <1>a, <1>b, <1>c DEF Ordered
  <2>2. Results(q)'
    BY <1>a, <1>b, <1>c DEF Results
  <2>3. Backed(q)'
    BY <1>a, <1>b, <1>c DEF Backed
  <2>4. Purged(q)'
    BY <1>a, <1>b, <1>c DEF Purged, ToPurge, Removal, Unlinking, Dropped, Settled, Flushing
  <2>5. Removed(q)'
    BY <1>a, <1>b, <1>c DEF Removed, ToPurge
  <2>6. Written(q)'
    BY <1>a, <1>b, <1>c DEF PolicyIsRead, Written, ToPurge, Flushing
  <2>7. Followed(q)'
    <3>1. CASE q # p \/ job'[p] # "stamp"
      BY <1>a, <1>b, <1>c, <3>1 DEF Followed, ToPurge, InSync, Watched, GivenUp, Unvisited, InWork, Settled,
         Flushing
    <3>2. ASSUME q = p, job'[p] = "stamp", Open
          PROVE  InSync(p) \/ Watched(p)
      <4>1. Seen(p) # Absent /\ meta[p].c = Seen(p).c /\ (p \in forced => p \in Pending)
        BY <1>a, <1>b, <3>2 DEF RepairsOwed
      <4>. QED BY <1>a, <3>2, <4>1, LevelIsRight
    <3>3. ASSUME InSync(p) \/ Watched(p)
          PROVE  (InSync(p) \/ Watched(p))'
      BY <1>a, <3>3 DEF InSync, Watched, ToPurge
    <3>. QED BY <1>a, <1>b, <3>1, <3>2, <3>3 DEF Followed
  <2>. QED BY <2>1, <2>2, <2>3, <2>4, <2>5, <2>6, <2>7
<1>. QED BY <1>1, <1>2

\* A failed task is not finished.
LEMMA TaskFailsIndexed ==
  ASSUME BatchInv, IndexInv, ~MayRevert, ~FirstTimeGap, ~SilentRules, NEW p \in Paths, TaskFails(p)
  PROVE  IndexInv'
<1>. USE DEF BatchInv, Shape, IndexInv, IndexShape, Open, Seen, Pending, Batch, TaskFails, Outcome, Counted,
   Dispatching
<1>1. IndexShape' /\ PolicyIsRead'
  BY DEF PolicyIsRead, BatchAccounted
<1>2. ASSUME NEW q \in Paths
      PROVE  (Ordered(q) /\ Results(q) /\ Backed(q) /\ Purged(q) /\ Removed(q) /\ Written(q) /\ Followed(q))'
  <2>1. Ordered(q)'
    BY DEF Ordered
  <2>2. Results(q)'
    BY DEF Results
  <2>3. Backed(q)'
    BY DEF Backed
  <2>4. Purged(q)'
    BY DEF Purged, ToPurge, Removal, Unlinking, Dropped, Settled, Flushing
  <2>5. Removed(q)'
    BY DEF Removed, ToPurge
  <2>6. Written(q)'
    BY DEF Written, ToPurge, Flushing
  <2>7. Followed(q)'
    BY DEF Followed, ToPurge, InSync, Watched, GivenUp, Unvisited, InWork, Settled, Flushing
  <2>. QED BY <2>1, <2>2, <2>3, <2>4, <2>5, <2>6, <2>7
<1>. QED BY <1>1, <1>2

\* A halted batch keeps its paths.
LEMMA HaltIndexed ==
  ASSUME BatchInv, IndexInv, ~MayRevert, ~FirstTimeGap, ~SilentRules, Halt
  PROVE  IndexInv'
<1>. USE DEF BatchInv, Shape, IndexInv, IndexShape, Open, Seen, Pending, Batch, Halt, Counted, Dispatching
<1>1. IndexShape' /\ PolicyIsRead'
  <2>1. counts' \in [edits : Nat, faults : Nat]
    OBVIOUS
  <2>2. scan' \in ScanShape /\ (~scan'.on => scan' = Idle) /\ scan'.todo \intersect scan'.seen = {}
    BY DEF ScanShape, Idle
  <2>3. dirty' \in BOOLEAN /\ (dirty' => phase' \notin {"none", "waiting"})
    BY DEF BatchAccounted
  <2>4. PolicyIsRead'
    BY DEF PolicyIsRead, BatchAccounted
  <2>. QED BY <2>1, <2>2, <2>3, <2>4
<1>2. ASSUME NEW q \in Paths
      PROVE  (Ordered(q) /\ Results(q) /\ Backed(q) /\ Purged(q) /\ Removed(q) /\ Written(q) /\ Followed(q))'
  <2>1. Ordered(q)'
    BY DEF Ordered
  <2>2. Results(q)'
    BY DEF Results
  <2>3. Backed(q)'
    BY DEF Backed
  <2>4. Purged(q)'
    BY DEF Purged, ToPurge, Removal, Unlinking, Dropped, Settled, Flushing
  <2>5. Removed(q)'
    BY DEF Removed, ToPurge
  <2>6. Written(q)'
    BY DEF Written, ToPurge, Flushing
  <2>7. Followed(q)'
    BY DEF Followed, ToPurge, InSync, Watched, GivenUp, Unvisited, InWork, Settled, Flushing
  <2>. QED BY <2>1, <2>2, <2>3, <2>4, <2>5, <2>6, <2>7
<1>. QED BY <1>1, <1>2

\* What reached no outcome comes up again.
LEMMA SettleIndexed ==
  ASSUME BatchInv, IndexInv, ~MayRevert, ~FirstTimeGap, ~SilentRules, Settle
  PROVE  IndexInv'
<1>. USE DEF BatchInv, Shape, IndexInv, IndexShape, Open, Seen, Pending, Batch, Settle, Dispatching, Requeue,
   Enqueue, JobIn
<1>1. IndexShape' /\ PolicyIsRead'
  BY DEF PolicyIsRead, BatchAccounted
<1>2. ASSUME NEW q \in Paths
      PROVE  (Ordered(q) /\ Results(q) /\ Backed(q) /\ Purged(q) /\ Removed(q) /\ Written(q) /\ Followed(q))'
  <2>1. Ordered(q)'
    BY DEF Ordered
  <2>2. Results(q)'
    BY DEF Results
  <2>3. Backed(q)'
    BY DEF Backed
  <2>4. Purged(q)'
    BY DEF Purged, ToPurge, Removal, Unlinking, Dropped, Settled, Flushing
  <2>5. Removed(q)'
    BY DEF Removed, ToPurge
  <2>6. Written(q)'
    BY DEF Written, ToPurge, Flushing
  <2>7. Followed(q)'
    BY DEF Followed, ToPurge, InSync, Watched, GivenUp, Unvisited, InWork, Settled, Flushing
  <2>. QED BY <2>1, <2>2, <2>3, <2>4, <2>5, <2>6, <2>7
<1>. QED BY <1>1, <1>2

\* Insertion adds a content that is not older.
LEMMA InsertIndexed ==
  ASSUME BatchInv, IndexInv, ~MayRevert, ~FirstTimeGap, ~SilentRules, Insert
  PROVE  IndexInv'
<1>. USE DEF BatchInv, Shape, IndexInv, IndexShape, Open, Seen, Pending, Batch, Insert
<1>1. IndexShape' /\ PolicyIsRead'
  BY DEF PolicyIsRead, BatchAccounted
<1>2. ASSUME NEW q \in Paths
      PROVE  (Ordered(q) /\ Results(q) /\ Backed(q) /\ Purged(q) /\ Removed(q) /\ Written(q) /\ Followed(q))'
  <2>1. Ordered(q)'
    BY DEF Ordered, Results
  <2>2. Results(q)'
    BY DEF Results
  <2>3. Backed(q)'
    BY DEF Backed
  <2>4. Purged(q)'
    BY DEF Purged, ToPurge, Removal, Unlinking, Dropped, Settled, Flushing
  <2>5. Removed(q)'
    BY DEF Removed, ToPurge
  <2>6. Written(q)'
    BY DEF Written, ToPurge, Flushing
  <2>7. Followed(q)'
    BY DEF Followed, ToPurge, InSync, Watched, GivenUp, Unvisited, InWork, Settled, Flushing
  <2>. QED BY <2>1, <2>2, <2>3, <2>4, <2>5, <2>6, <2>7
<1>. QED BY <1>1, <1>2

\* A removal that is wrong is taken back.
LEMMA VerifyIndexed ==
  ASSUME BatchInv, IndexInv, ~MayRevert, ~FirstTimeGap, ~SilentRules, Verify
  PROVE  IndexInv'
<1>. USE DEF BatchInv, Shape, IndexInv, IndexShape, Open, Seen, Pending, Batch, Verify, Requeue, Enqueue, JobIn
<1>1. IndexShape' /\ PolicyIsRead'
  BY DEF PolicyIsRead, BatchAccounted
<1>2. ASSUME NEW q \in Paths
      PROVE  (Ordered(q) /\ Results(q) /\ Backed(q) /\ Purged(q) /\ Removed(q) /\ Written(q) /\ Followed(q))'
  <2>1. Ordered(q)'
    BY DEF Ordered
  <2>2. Results(q)'
    BY DEF Results
  <2>3. Backed(q)'
    BY DEF Backed
  <2>4. Purged(q)'
    BY DEF Purged, ToPurge, Removal, Unlinking, Dropped, Settled, Flushing
  <2>5. Removed(q)'
    BY DEF Removed, ToPurge
  <2>6. Written(q)'
    BY DEF Written, ToPurge, Flushing
  <2>7. Followed(q)'
    BY DEF Followed, ToPurge, InSync, Watched, GivenUp, Unvisited, InWork, Settled, Flushing
  <2>. QED BY <2>1, <2>2, <2>3, <2>4, <2>5, <2>6, <2>7
<1>. QED BY <1>1, <1>2

\* Deletion leaves what was inserted.
LEMMA DeleteIndexed ==
  ASSUME BatchInv, IndexInv, ~MayRevert, ~FirstTimeGap, ~SilentRules, Delete
  PROVE  IndexInv'
<1>. USE DEF BatchInv, Shape, IndexInv, IndexShape, Open, Seen, Pending, Batch, Delete
<1>1. IndexShape' /\ PolicyIsRead'
  BY DEF PolicyIsRead, BatchAccounted
<1>2. ASSUME NEW q \in Paths
      PROVE  (Ordered(q) /\ Results(q) /\ Backed(q) /\ Purged(q) /\ Removed(q) /\ Written(q) /\ Followed(q))'
  <2>1. Ordered(q)'
    BY DEF Ordered, Results
  <2>2. Results(q)'
    BY DEF Results
  <2>3. Backed(q)'
    BY DEF Backed
  <2>4. Purged(q)'
    BY DEF Purged, ToPurge, Removal, Unlinking, Dropped, Settled, Flushing
  <2>5. Removed(q)'
    BY DEF Removed, ToPurge
  <2>6. Written(q)'
    BY DEF Written, ToPurge, Flushing
  <2>7. Followed(q)'
    BY DEF Followed, ToPurge, InSync, Watched, GivenUp, Unvisited, InWork, Settled, Flushing
  <2>. QED BY <2>1, <2>2, <2>3, <2>4, <2>5, <2>6, <2>7
<1>. QED BY <1>1, <1>2

\* The entries follow the vectors.
LEMMA CommitIndexed ==
  ASSUME BatchInv, IndexInv, ~MayRevert, ~FirstTimeGap, ~SilentRules, Commit
  PROVE  IndexInv'
<1>. USE DEF BatchInv, Shape, IndexInv, IndexShape, Open, Seen, Pending, Batch, Commit, JobIn
<1>1. IndexShape' /\ PolicyIsRead'
  BY DEF PolicyIsRead, BatchAccounted
<1>2. ASSUME NEW q \in Paths
      PROVE  (Ordered(q) /\ Results(q) /\ Backed(q) /\ Purged(q) /\ Removed(q) /\ Written(q) /\ Followed(q))'
  <2>1. Ordered(q)'
    BY DEF Ordered, Results
  <2>2. Results(q)'
    BY DEF Results
  <2>3. Backed(q)'
    <3>. USE DEF Backed, Ordered, Results
    <3>1. CASE job[q] \in {"stamp", "cached"}
      BY <3>1 DEF RepairsOwed
    <3>2. CASE job[q] = "write"
      BY <3>2
    <3>3. CASE job[q] = "gone"
      BY <3>3
    <3>4. CASE job[q] \in {"none", "left"}
      BY <3>4
    <3>. QED BY <3>1, <3>2, <3>3, <3>4 DEF BatchAccounted
  <2>4. Purged(q)'
    BY DEF Purged, ToPurge, Removal, Unlinking, Dropped, Settled, Flushing, BatchAccounted, Results
  <2>5. Removed(q)'
    BY DEF Removed, ToPurge
  <2>6. Written(q)'
    BY DEF Written, ToPurge, Flushing
  <2>7. Followed(q)'
    BY DEF PolicyIsRead, Followed, ToPurge, InSync, Watched, GivenUp, Unvisited, InWork, Settled, Flushing,
       Results, Written, Removed, BatchAccounted
  <2>. QED BY <2>1, <2>2, <2>3, <2>4, <2>5, <2>6, <2>7
<1>. QED BY <1>1, <1>2

\* A batch that the store refuses comes up again.
LEMMA StoreFailsIndexed ==
  ASSUME BatchInv, IndexInv, ~MayRevert, ~FirstTimeGap, ~SilentRules, StoreFails
  PROVE  IndexInv'
<1>a. counts' \in [edits : Nat, faults : Nat]
  BY DEF IndexInv, IndexShape, StoreFails, Counted
<1>. USE DEF BatchInv, Shape, IndexInv, IndexShape, Open, Seen, Pending, Batch, StoreFails, Requeue, Enqueue,
   Counted
<1>1. IndexShape' /\ PolicyIsRead'
  <2>1. counts' \in [edits : Nat, faults : Nat]
    BY <1>a
  <2>2. scan' \in ScanShape /\ (~scan'.on => scan' = Idle) /\ scan'.todo \intersect scan'.seen = {}
    BY DEF ScanShape, Idle
  <2>3. dirty' \in BOOLEAN /\ (dirty' => phase' \notin {"none", "waiting"})
    BY DEF BatchAccounted
  <2>4. PolicyIsRead'
    BY DEF PolicyIsRead, BatchAccounted
  <2>. QED BY <2>1, <2>2, <2>3, <2>4
<1>2. ASSUME NEW q \in Paths
      PROVE  (Ordered(q) /\ Results(q) /\ Backed(q) /\ Purged(q) /\ Removed(q) /\ Written(q) /\ Followed(q))'
  <2>1. Ordered(q)'
    BY DEF Ordered
  <2>2. Results(q)'
    BY DEF Results
  <2>3. Backed(q)'
    BY DEF Backed
  <2>4. Purged(q)'
    BY DEF Purged, ToPurge, Removal, Unlinking, Dropped, Settled, Flushing, BatchAccounted
  <2>5. Removed(q)'
    BY DEF Removed, ToPurge
  <2>6. Written(q)'
    BY DEF Written, ToPurge, Flushing
  <2>7. Followed(q)'
    BY DEF Followed, ToPurge, InSync, Watched, GivenUp, Unvisited, InWork, Settled, Flushing, BatchAccounted
  <2>. QED BY <2>1, <2>2, <2>3, <2>4, <2>5, <2>6, <2>7
<1>. QED BY <1>1, <1>2

\* The batch that ends has left the index right.
LEMMA EndIndexed ==
  ASSUME BatchInv, IndexInv, ~MayRevert, ~FirstTimeGap, ~SilentRules, End
  PROVE  IndexInv'
<1>. USE DEF BatchInv, Shape, IndexInv, IndexShape, Open, Seen, Pending, Batch, End, Enqueue, BatchOver
<1>1. IndexShape' /\ PolicyIsRead'
  BY DEF PolicyIsRead, BatchAccounted
<1>2. ASSUME NEW q \in Paths
      PROVE  (Ordered(q) /\ Results(q) /\ Backed(q) /\ Purged(q) /\ Removed(q) /\ Written(q) /\ Followed(q))'
  <2>1. Ordered(q)'
    BY DEF Ordered
  <2>2. Results(q)'
    BY DEF Results
  <2>3. Backed(q)'
    BY DEF Backed
  <2>4. Purged(q)'
    BY DEF Purged, ToPurge, Removal, Unlinking, Dropped, Settled, Flushing
  <2>5. Removed(q)'
    BY DEF Removed, ToPurge
  <2>6. Written(q)'
    BY DEF Written, ToPurge, Flushing
  <2>7. Followed(q)'
    BY DEF Followed, ToPurge, InSync, Watched, GivenUp, Unvisited, InWork, Settled, Flushing
  <2>. QED BY <2>1, <2>2, <2>3, <2>4, <2>5, <2>6, <2>7
<1>. QED BY <1>1, <1>2

\* A scan that is interrupted is due again.
LEMMA PauseIndexed ==
  ASSUME BatchInv, IndexInv, ~MayRevert, ~FirstTimeGap, ~SilentRules, Pause
  PROVE  IndexInv'
<1>a. counts' \in [edits : Nat, faults : Nat]
  BY DEF IndexInv, IndexShape, Pause, Counted
<1>. USE DEF BatchInv, Shape, IndexInv, IndexShape, Open, Seen, Pending, Batch, Pause, Counted, AbortScan,
   AbortBatch
<1>1. IndexShape' /\ PolicyIsRead'
  <2>1. counts' \in [edits : Nat, faults : Nat]
    BY <1>a
  <2>2. scan' \in ScanShape /\ (~scan'.on => scan' = Idle) /\ scan'.todo \intersect scan'.seen = {}
    BY DEF ScanShape, Idle
  <2>3. dirty' \in BOOLEAN /\ (dirty' => phase' \notin {"none", "waiting"})
    BY DEF BatchAccounted
  <2>4. PolicyIsRead'
    BY DEF PolicyIsRead, BatchAccounted
  <2>. QED BY <2>1, <2>2, <2>3, <2>4
<1>2. ASSUME NEW q \in Paths
      PROVE  (Ordered(q) /\ Results(q) /\ Backed(q) /\ Purged(q) /\ Removed(q) /\ Written(q) /\ Followed(q))'
  <2>1. Ordered(q)'
    BY DEF Ordered
  <2>2. Results(q)'
    BY DEF Results
  <2>3. Backed(q)'
    BY DEF Backed
  <2>4. Purged(q)'
    BY DEF Purged, ToPurge, Removal, Unlinking, Dropped, Settled, Flushing
  <2>5. Removed(q)'
    BY DEF Removed, ToPurge
  <2>6. Written(q)'
    BY DEF Written, ToPurge, Flushing
  <2>7. Followed(q)'
    BY DEF Followed, ToPurge, InSync, Watched, GivenUp, Unvisited, InWork, Settled, Flushing
  <2>. QED BY <2>1, <2>2, <2>3, <2>4, <2>5, <2>6, <2>7
<1>. QED BY <1>1, <1>2

\* A paused processor forgets nothing.
LEMMA PausedIndexed ==
  ASSUME BatchInv, IndexInv, ~MayRevert, ~FirstTimeGap, ~SilentRules, Paused
  PROVE  IndexInv'
<1>. USE DEF BatchInv, Shape, IndexInv, IndexShape, Open, Seen, Pending, Batch, Paused, Active
<1>1. IndexShape' /\ PolicyIsRead'
  BY DEF PolicyIsRead, BatchAccounted
<1>2. ASSUME NEW q \in Paths
      PROVE  (Ordered(q) /\ Results(q) /\ Backed(q) /\ Purged(q) /\ Removed(q) /\ Written(q) /\ Followed(q))'
  <2>1. Ordered(q)'
    BY DEF Ordered
  <2>2. Results(q)'
    BY DEF Results
  <2>3. Backed(q)'
    BY DEF Backed
  <2>4. Purged(q)'
    BY DEF Purged, ToPurge, Removal, Unlinking, Dropped, Settled, Flushing
  <2>5. Removed(q)'
    BY DEF Removed, ToPurge
  <2>6. Written(q)'
    BY DEF Written, ToPurge, Flushing
  <2>7. Followed(q)'
    BY DEF Followed, ToPurge, InSync, Watched, GivenUp, Unvisited, InWork, Settled, Flushing
  <2>. QED BY <2>1, <2>2, <2>3, <2>4, <2>5, <2>6, <2>7
<1>. QED BY <1>1, <1>2

\* Resuming changes no file.
LEMMA ResumeIndexed ==
  ASSUME BatchInv, IndexInv, ~MayRevert, ~FirstTimeGap, ~SilentRules, Resume
  PROVE  IndexInv'
<1>. USE DEF BatchInv, Shape, IndexInv, IndexShape, Open, Seen, Pending, Batch, Resume
<1>1. IndexShape' /\ PolicyIsRead'
  BY DEF PolicyIsRead, BatchAccounted
<1>2. ASSUME NEW q \in Paths
      PROVE  (Ordered(q) /\ Results(q) /\ Backed(q) /\ Purged(q) /\ Removed(q) /\ Written(q) /\ Followed(q))'
  <2>1. Ordered(q)'
    BY DEF Ordered
  <2>2. Results(q)'
    BY DEF Results
  <2>3. Backed(q)'
    BY DEF Backed
  <2>4. Purged(q)'
    BY DEF Purged, ToPurge, Removal, Unlinking, Dropped, Settled, Flushing
  <2>5. Removed(q)'
    BY DEF Removed, ToPurge
  <2>6. Written(q)'
    BY DEF Written, ToPurge, Flushing
  <2>7. Followed(q)'
    BY DEF Followed, ToPurge, InSync, Watched, GivenUp, Unvisited, InWork, Settled, Flushing
  <2>. QED BY <2>1, <2>2, <2>3, <2>4, <2>5, <2>6, <2>7
<1>. QED BY <1>1, <1>2

\* A closed processor is not relied on.
LEMMA CloseIndexed ==
  ASSUME BatchInv, IndexInv, ~MayRevert, ~FirstTimeGap, ~SilentRules, Close
  PROVE  IndexInv'
<1>a. counts' \in [edits : Nat, faults : Nat]
  BY DEF IndexInv, IndexShape, Close, Counted
<1>. USE DEF BatchInv, Shape, IndexInv, IndexShape, Open, Seen, Pending, Batch, Close, Counted, AbortScan,
   AbortBatch
<1>1. IndexShape' /\ PolicyIsRead'
  <2>1. counts' \in [edits : Nat, faults : Nat]
    BY <1>a
  <2>2. scan' \in ScanShape /\ (~scan'.on => scan' = Idle) /\ scan'.todo \intersect scan'.seen = {}
    BY DEF ScanShape, Idle
  <2>3. dirty' \in BOOLEAN /\ (dirty' => phase' \notin {"none", "waiting"})
    BY DEF BatchAccounted
  <2>4. PolicyIsRead'
    BY DEF PolicyIsRead, BatchAccounted
  <2>. QED BY <2>1, <2>2, <2>3, <2>4
<1>2. ASSUME NEW q \in Paths
      PROVE  (Ordered(q) /\ Results(q) /\ Backed(q) /\ Purged(q) /\ Removed(q) /\ Written(q) /\ Followed(q))'
  <2>1. Ordered(q)'
    BY DEF Ordered
  <2>2. Results(q)'
    BY DEF Results
  <2>3. Backed(q)'
    BY DEF Backed
  <2>4. Purged(q)'
    BY DEF Purged, ToPurge, Removal, Unlinking, Dropped, Settled, Flushing
  <2>5. Removed(q)'
    BY DEF Removed, ToPurge
  <2>6. Written(q)'
    BY DEF Written, ToPurge, Flushing
  <2>7. Followed(q)'
    BY DEF Followed, ToPurge, InSync, Watched, GivenUp, Unvisited, InWork, Settled, Flushing
  <2>. QED BY <2>1, <2>2, <2>3, <2>4, <2>5, <2>6, <2>7
<1>. QED BY <1>1, <1>2

\* A restart asks for a scan.
LEMMA RestartIndexed ==
  ASSUME BatchInv, IndexInv, ~MayRevert, ~FirstTimeGap, ~SilentRules, Restart
  PROVE  IndexInv'
<1>a. counts' \in [edits : Nat, faults : Nat] /\ counts'.edits = counts.edits
  BY DEF IndexInv, IndexShape, Restart, Counted
<1>. USE DEF BatchInv, Shape, IndexInv, IndexShape, Open, Seen, Pending, Batch, Restart, Counted
<1>1. IndexShape' /\ PolicyIsRead'
  BY <1>a DEF PolicyIsRead, BatchAccounted
<1>2. ASSUME NEW q \in Paths
      PROVE  (Ordered(q) /\ Results(q) /\ Backed(q) /\ Purged(q) /\ Removed(q) /\ Written(q) /\ Followed(q))'
  <2>1. Ordered(q)'
    BY <1>a DEF Ordered
  <2>2. Results(q)'
    BY <1>a DEF Results
  <2>3. Backed(q)'
    BY <1>a DEF Backed
  <2>4. Purged(q)'
    BY <1>a DEF Purged, ToPurge, Removal, Unlinking, Dropped, Settled, Flushing
  <2>5. Removed(q)'
    BY <1>a DEF Removed, ToPurge
  <2>6. Written(q)'
    BY <1>a DEF Written, ToPurge, Flushing
  <2>7. Followed(q)'
    BY <1>a DEF Followed, ToPurge, InSync, Watched, GivenUp, Unvisited, InWork, Settled, Flushing
  <2>. QED BY <2>1, <2>2, <2>3, <2>4, <2>5, <2>6, <2>7
<1>. QED BY <1>1, <1>2

\* Before the first scan a catchup is due, and there is neither entry nor vector.
LEMMA InitIndexed == BatchInit => IndexInv
<1>. SUFFICES ASSUME BatchInit PROVE IndexInv
  OBVIOUS
<1>1. IndexShape /\ PolicyIsRead
  BY DEF BatchInit, IndexShape, PolicyIsRead
<1>2. ASSUME NEW p \in Paths
      PROVE  /\ Ordered(p) /\ Results(p) /\ Backed(p)
             /\ Purged(p) /\ Removed(p) /\ Written(p) /\ Followed(p)
  BY DEF BatchInit, Ordered, Results, Backed, Purged, Removal, Removed, Written, Flushing, Followed, Watched
<1>. QED BY <1>1, <1>2 DEF IndexInv

\* Every step keeps the agreement of the index with the files.
LEMMA IndexSteps ==
  ASSUME BatchInv, IndexInv, [BatchNext]_batchVars, ~MayRevert, ~FirstTimeGap, ~SilentRules
  PROVE  IndexInv'
<1>1. CASE UNCHANGED batchVars
  BY <1>1 DEF batchVars, IndexInv, IndexShape, PolicyIsRead, Ordered, Results, Backed, Purged, Removal, Unlinking,
     Dropped, Settled, Flushing, Removed, Written, Followed, Watched, GivenUp, Unvisited, InWork, ToPurge, InSync,
     Open, Seen, Pending, Batch
<1>2. ASSUME NEW p \in Paths,
             \/ Edit(p) \/ EditRules(p) \/ ScanPath(p) \/ ScanPathFails(p)
             \/ Begin(p) \/ Read(p) \/ Finish(p) \/ TaskFails(p)
             \/ \E last \in BOOLEAN : Event(p, last)
      PROVE  IndexInv'
  BY <1>2, EditIndexed, EditRulesIndexed, ScanPathIndexed, ScanPathFailsIndexed, BeginIndexed, ReadIndexed, FinishIndexed,
     TaskFailsIndexed, EventIndexed
<1>3. CASE \/ Overflow \/ PolicyEvent \/ ScanBegins \/ ScanEnds \/ ScanFails \/ StartBatch
           \/ \E ripe \in SUBSET Paths : Select(ripe)
  BY <1>3, OverflowIndexed, PolicyEventIndexed, ScanBeginsIndexed, ScanEndsIndexed, ScanFailsIndexed, StartBatchIndexed,
     SelectIndexed
<1>4. CASE Halt \/ Flush \/ StoreFails
  BY <1>4, HaltIndexed, SettleIndexed, InsertIndexed, VerifyIndexed, DeleteIndexed, CommitIndexed, EndIndexed,
     StoreFailsIndexed DEF Flush
<1>5. CASE Pause \/ Paused \/ Resume \/ Close \/ Restart
  BY <1>5, PauseIndexed, PausedIndexed, ResumeIndexed, CloseIndexed, RestartIndexed
<1>. QED BY <1>1, <1>2, <1>3, <1>4, <1>5 DEF BatchNext

\* The index follows the files in every reachable state, where no content comes
\* back and a scan and a batch do not miss each other.
THEOREM IndexInvariant ==
  ASSUME ~MayRevert, ~FirstTimeGap, ~SilentRules PROVE BatchSpec => []IndexInv
<1>1. BatchInv /\ IndexInv /\ [BatchNext]_batchVars => IndexInv'
  BY IndexSteps
<1>. QED BY <1>1, InitIndexed, BatchInvariant, PTL DEF BatchSpec

\* Until the index agrees with a file an event, a scan, the queue or a batch
\* will bring the file up again, or it is reported as failed.
THEOREM IndexNothingForgotten ==
  ASSUME ~MayRevert, ~FirstTimeGap, ~SilentRules PROVE BatchSpec => []NothingForgotten
<1>1. IndexInv => NothingForgotten
  BY DEF IndexInv, NothingForgotten, Followed, Watched, ToPurge, GivenUp, Unvisited, InWork
<1>. QED BY <1>1, IndexInvariant, PTL

\* A file is skipped only if the store holds the vectors of its content and no
\* others, or a scan is on its way that will find that it holds none.
THEOREM IndexCachedIsSearchable ==
  ASSUME ~MayRevert, ~FirstTimeGap, ~SilentRules PROVE BatchSpec => []CachedIsSearchable
<1>1. ASSUME BatchInv, IndexInv PROVE CachedIsSearchable
  <2>. SUFFICES ASSUME NEW p \in Paths, Open, Seen(p) # Absent, meta[p] = Seen(p),
                       p \notin Pending \union Batch \union forced
                PROVE  \/ rows[p] = {disk[p].c}
                       \/ rows[p] = {} /\ (gap \/ p \in lost \/ p \in scan.todo \ scan.vec)
    BY DEF CachedIsSearchable
  <2>1. disk[p] # Absent /\ meta[p].c = disk[p].c
    BY DEF Seen
  <2>2. CASE rows[p] # {}
    BY <2>1, <2>2, <1>1, LevelRows
  <2>3. CASE rows[p] = {}
    BY <2>1, <2>3, <1>1 DEF IndexInv, Backed, Batch
  <2>. QED BY <2>2, <2>3
<1>. QED BY <1>1, IndexInvariant, BatchInvariant, PTL

===================================================================================
