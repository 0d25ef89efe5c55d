---------------------------- MODULE BatchProcessor ----------------------------
(***************************************************************************)
(* How the index of one watched project follows its files                  *)
(* (ProjectBatchProcessor in src/lib/index/batch-processor.ts and the      *)
(* catchup scan of src/lib/daemon/watcher-manager.ts).                     *)
(*                                                                         *)
(* The file system, the vector store and the meta cache are three pieces   *)
(* of state that no transaction joins.  A batch reads a file at one        *)
(* moment, writes its vectors at a later one and its meta entry at a       *)
(* third, while events, scans, policy changes, pauses and crashes go on.   *)
(* A version of a file is its content and the moment of its last write.    *)
(* One action is what runs between two awaits.                             *)
(***************************************************************************)
EXTENDS Integers, FiniteSets

CONSTANTS
  Paths,
  MaxEdits,    \* bound: writes to files
  MaxFaults,   \* bound: failures, crashes, pauses, closings and policy changes
  MaxRetries,  \* MAX_RETRIES (5 in the code)
  MaxLive,     \* MAX_CONSECUTIVE_LIVE_BATCHES (3 in the code)
  MayRevert,   \* an edit may bring back an earlier content
  FirstTimeGap, \* a scan may list the known paths while a batch indexes a new one
  SilentRules  \* a scan may be the first to read rules that bring back what a batch removes

ASSUME BatchAssumption ==
  /\ IsFiniteSet(Paths)
  /\ {MaxEdits, MaxFaults} \subseteq Nat
  /\ {MaxRetries, MaxLive} \subseteq Nat \ {0}
  /\ {MayRevert, FirstTimeGap, SilentRules} \subseteq BOOLEAN

VARIABLES
  disk,     \* the version of each file
  meta,     \* the meta cache
  rows,     \* the contents whose vectors the store holds for each path
  rules,    \* the paths the ignore files exclude
  loaded,   \* the paths the policy in memory excludes
  told,     \* paths with a native event on its way
  news,     \* an event of an ignore file is on its way
  gap,      \* events were lost, or a scan asked for: a catchup is due
  lost,     \* the paths the latest scan could not look at
  scan,     \* the catchup: what is left to visit, what was known and seen
  pend,     \* pending
  kind,     \* the kind of the pending work
  forced, fresh, \* forcedReprocess, and the generations newer than the batch
  job,      \* the state of each path of the batch
  ev, jf, res, \* its event, whether it is forced, what its worker read
  bk,       \* the kind of the batch
  phase,    \* how far the batch is
  timer,    \* the debounce timer is armed
  halt,     \* the batch was aborted or stopped dispatching
  dirty,    \* policyChangedDuringBatch
  live, turn, \* liveBatches, nextBackground
  tries,    \* retryCount
  terminal, \* terminalFailures
  mode,     \* running, pausing, paused, closing or closed
  counts    \* of edits and faults

store == <<meta, rows>>
policy == <<rules, loaded, news>>
world == <<disk, told, gap, lost, policy>>
queue == <<pend, kind, forced, fresh>>
jobs == <<job, ev, jf, res, bk>>
pace == <<live, turn>>
faults == <<tries, terminal>>
batchVars == <<store, world, scan, queue, jobs, phase, timer, halt, dirty, pace, faults, mode, counts>>

Absent == [c |-> 0, t |-> 0]
Kinds == {"live", "catchup", "cleanup"}
Rank(k) == CASE k = "live" -> 0 [] k = "catchup" -> 1 [] k = "cleanup" -> 2 [] OTHER -> 3
Idle == [on |-> FALSE, todo |-> {}, known |-> {}, vec |-> {}, seen |-> {}]

\* Outcomes of a task: nothing to do, new meta entry, new vectors, removal.
Completed == {"cached", "stamp", "write", "gone"}
Outcomes == Completed \union {"retry", "left"}

BatchInit ==
  /\ disk = [p \in Paths |-> [c |-> 1, t |-> 1]] /\ told = {} /\ gap = TRUE /\ lost = {}
  /\ rules = {} /\ loaded = {} /\ news = FALSE
  /\ meta = [p \in Paths |-> Absent] /\ rows = [p \in Paths |-> {}]
  /\ scan = Idle
  /\ pend = [p \in Paths |-> "none"] /\ kind = [p \in Paths |-> "none"]
  /\ forced = {} /\ fresh = {}
  /\ job = [p \in Paths |-> "none"] /\ ev = [p \in Paths |-> "none"]
  /\ jf = {} /\ res = [p \in Paths |-> Absent] /\ bk = "none"
  /\ phase = "none" /\ timer = FALSE /\ halt = FALSE /\ dirty = FALSE
  /\ live = 0 /\ turn = "catchup"
  /\ tries = [p \in Paths |-> 0] /\ terminal = {}
  /\ mode = "running"
  /\ counts = [edits |-> 1, faults |-> 0]

Counted(f) == counts' = [counts EXCEPT ![f] = @ + 1]

-----------------------------------------------------------------------------
(* The queue *)

Batch == {p \in Paths : job[p] # "none"}
Pending == {p \in Paths : pend[p] # "none"}
Active == phase # "none"

Better(k, l) == IF Rank(k) < Rank(l) THEN k ELSE l

\* enqueueWork: the better of the new and the pending, or running, kind of work.
Enqueue(S, e, k) ==
  /\ pend' = [p \in Paths |-> IF p \in S THEN e[p] ELSE pend[p]]
  /\ kind' = [p \in Paths |->
                IF p \notin S THEN kind[p]
                ELSE Better(k, IF pend[p] # "none" THEN kind[p]
                               ELSE IF p \in Batch THEN bk ELSE k)]

\* schedulePendingBatch: nothing is armed while a batch is active.
Schedule ==
  timer' = IF mode # "running" \/ Active THEN timer ELSE \E p \in Paths : pend'[p] # "none"

\* handleFileEvent.
Handle(p, e, k, force) ==
  /\ Enqueue({p}, [q \in Paths |-> e], k)
  /\ forced' = IF force THEN forced \union {p} ELSE forced
  /\ fresh' = IF force THEN fresh \union {p} ELSE fresh
  /\ Schedule

\* classifyFile: what the policy in memory lets one see of a file.
Seen(p) == IF p \in loaded THEN Absent ELSE disk[p]

Open == mode \in {"running", "pausing", "paused"}

\* A native event of p arrives: the last one tells the truth, one before it may
\* not.  An ignored path that was never indexed is dropped at once.
Event(p, last) ==
  /\ Open /\ p \in told
  /\ told' = IF last THEN told \ {p} ELSE told
  /\ IF p \in loaded /\ meta[p] = Absent
     THEN UNCHANGED <<queue, timer>>
     ELSE Handle(p, IF (disk[p] = Absent) = last THEN "unlink" ELSE "change", "live", FALSE)
  /\ UNCHANGED <<store, disk, gap, lost, policy, scan, jobs, phase, halt, dirty, pace, faults, mode, counts>>

-----------------------------------------------------------------------------
(* The world *)

Contents(p) ==
  {0, disk[p].c, counts.edits + 1} \union (IF MayRevert THEN 1..counts.edits ELSE {})

\* A file is written, touched, created or removed.
Edit(p) ==
  /\ counts.edits < MaxEdits /\ Counted("edits")
  /\ \E c \in Contents(p) :
       /\ <<c, disk[p].c>> # <<0, 0>>
       /\ disk' = [disk EXCEPT ![p] = IF c = 0 THEN Absent ELSE [c |-> c, t |-> counts.edits + 1]]
  /\ told' = told \union {p}
  /\ UNCHANGED <<store, gap, lost, policy, scan, queue, jobs, phase, timer, halt, dirty, pace, faults, mode>>

\* An ignore file is edited: p is excluded, or no longer.
EditRules(p) ==
  /\ counts.faults < MaxFaults /\ Counted("faults")
  /\ rules' = IF p \in rules THEN rules \ {p} ELSE rules \union {p}
  /\ news' = TRUE
  /\ UNCHANGED <<store, disk, told, gap, lost, loaded, scan, queue, jobs, phase, timer, halt, dirty,
                 pace, faults, mode>>

\* handleFileEvent for an ignore file, and onPolicyChange, which asks for a scan.
PolicyEvent ==
  /\ Open /\ news
  /\ news' = FALSE /\ loaded' = rules /\ gap' = TRUE
  /\ dirty' = (dirty \/ phase \notin {"none", "waiting"})
  /\ UNCHANGED <<store, disk, told, lost, rules, scan, queue, jobs, phase, timer, halt, pace, faults, mode,
                 counts>>

\* The event buffer overflows: the events never come, and a catchup is asked for.
Overflow ==
  /\ Open /\ (told # {} \/ news)
  /\ told' = {} /\ news' = FALSE /\ gap' = TRUE
  /\ UNCHANGED <<store, disk, lost, rules, loaded, scan, queue, jobs, phase, timer, halt, dirty, pace, faults,
                 mode, counts>>

-----------------------------------------------------------------------------
(* catchupScan *)

Known == {p \in Paths : meta[p] # Absent \/ rows[p] # {}}

\* The rules are read again, which no batch is told of.  The known paths are
\* listed once; a running batch may write others afterwards.
ScanBegins ==
  /\ gap /\ ~scan.on /\ mode = "running"
  /\ gap' = FALSE /\ lost' = {} /\ loaded' = rules
  /\ FirstTimeGap \/ Batch \subseteq Known
  /\ SilentRules \/ phase \notin {"delete", "commit"} \/ {p \in loaded : job[p] = "gone"} \subseteq rules
  /\ scan' = [on |-> TRUE, todo |-> Paths, seen |-> {}, known |-> Known,
              vec |-> {p \in Paths : rows[p] # {}}]
  /\ UNCHANGED <<store, disk, told, rules, news, queue, jobs, phase, timer, halt, dirty, pace, faults, mode, counts>>

Visited(p, seen) == scan' = [scan EXCEPT !.todo = @ \ {p}, !.seen = @ \union seen]

\* The walk passes p.  reconcileMetaEntry compares the entry with the vectors
\* there were when the scan began.  A new time with the old content is stamped,
\* unless the entry or the file has changed while the content was read.
ScanPath(p) ==
  /\ scan.on /\ p \in scan.todo
  /\ \/ /\ Seen(p) = Absent
        /\ Visited(p, {}) /\ UNCHANGED <<meta, queue, timer>>
     \/ /\ Seen(p) # Absent /\ Visited(p, {p})
        /\ \/ /\ meta[p] = Absent \/ p \notin scan.vec
              /\ Handle(p, "change", "catchup", TRUE) /\ UNCHANGED meta
           \/ /\ meta[p] # Absent /\ p \in scan.vec /\ meta[p] # Seen(p)
              /\ \/ Handle(p, "change", "catchup", FALSE) /\ UNCHANGED meta
                 \/ /\ meta[p].c = Seen(p).c
                    /\ meta' = [meta EXCEPT ![p] = Seen(p)] /\ UNCHANGED <<queue, timer>>
           \/ /\ meta[p] = Seen(p) /\ p \in scan.vec /\ UNCHANGED <<meta, queue, timer>>
  /\ UNCHANGED <<rows, world, jobs, phase, halt, dirty, pace, faults, mode, counts>>

\* The walk, the classification of p or its reading fails: p is protected from
\* the purge, and the scan goes on.
ScanPathFails(p) ==
  /\ scan.on /\ p \in scan.todo /\ counts.faults < MaxFaults /\ Counted("faults")
  /\ Visited(p, {}) /\ lost' = lost \union {p}
  /\ UNCHANGED <<store, disk, told, gap, policy, queue, jobs, phase, timer, halt, dirty, pace, faults, mode>>

\* What was known and neither seen nor protected is purged.  A scan that left
\* something out is repeated, but only three times.
ScanEnds ==
  /\ scan.on /\ scan.todo = {}
  /\ Enqueue((scan.known \ scan.seen) \ lost, [p \in Paths |-> "unlink"], "cleanup")
  /\ Schedule /\ scan' = Idle
  /\ gap' \in {gap} \union {b \in {TRUE} : lost # {}}
  /\ UNCHANGED <<store, disk, told, lost, policy, forced, fresh, jobs, phase, halt, dirty, pace, faults, mode,
                 counts>>

\* The scan throws, or its operation is refused.  Whoever asked for it logs that
\* and asks no more; of the requests that came meanwhile only one that was put
\* off is still there.
ScanFails ==
  /\ (gap \/ scan.on) /\ mode = "running" /\ counts.faults < MaxFaults /\ Counted("faults")
  /\ gap' \in {FALSE, scan.on /\ gap} /\ scan' = Idle /\ lost' = Paths
  /\ UNCHANGED <<store, disk, told, policy, queue, jobs, phase, timer, halt, dirty, pace, faults, mode>>

-----------------------------------------------------------------------------
(* A batch *)

Dispatching == phase = "tasks"
JobIn(S) == {p \in Paths : job[p] \in S}

\* startBatch: the operation waits for admission.
StartBatch ==
  /\ timer /\ timer' = FALSE
  /\ IF Active \/ mode = "pausing" \/ mode = "paused" THEN UNCHANGED phase ELSE phase' = "waiting"
  /\ UNCHANGED <<store, world, scan, queue, jobs, halt, dirty, pace, faults, mode, counts>>

\* The batch is over, and what is pending is scheduled.
BatchOver(pending) ==
  /\ phase' = "none" /\ halt' = FALSE
  /\ timer' = (mode = "running" /\ pending)

\* Live work first, but after some batches in a row one background file.
Pick(ready) ==
  LET background == IF ready[turn] # {} THEN turn ELSE CHOOSE k \in {"catchup", "cleanup"} : k # turn
      fair == ready["live"] # {} /\ ready[background] # {} /\ live >= MaxLive
  IN <<IF ready["live"] # {} /\ ~fair THEN "live" ELSE background, fair>>

\* processBatch takes what is ready, of one kind.
Select(ripe) ==
  /\ phase = "waiting" /\ ripe \subseteq Pending
  /\ IF halt \/ mode # "running" \/ ripe = {}
     THEN /\ BatchOver(Pending # {}) /\ UNCHANGED <<queue, jobs, pace>>
     ELSE LET ready == [k \in Kinds |-> {p \in ripe : kind[p] = k}]
              pick == Pick(ready)
          IN /\ \E S \in SUBSET ready[pick[1]] :
                  /\ S # {} /\ IF pick[2] THEN Cardinality(S) = 1 ELSE S = ready[pick[1]]
                  /\ job' = [p \in Paths |-> IF p \in S THEN "todo" ELSE "none"]
                  /\ ev' = [p \in Paths |-> IF p \in S THEN pend[p] ELSE "none"]
                  /\ jf' = forced \intersect S /\ fresh' = fresh \ S
                  /\ pend' = [p \in Paths |-> IF p \in S THEN "none" ELSE pend[p]]
                  /\ kind' = [p \in Paths |-> IF p \in S THEN "none" ELSE kind[p]]
             /\ bk' = pick[1]
             /\ live' = IF bk' # "live" THEN 0 ELSE IF live < MaxLive THEN live + 1 ELSE live
             /\ turn' = IF bk' = "live" THEN turn ELSE CHOOSE k \in {"catchup", "cleanup"} : k # bk'
             /\ phase' = "tasks" /\ UNCHANGED <<forced, res, halt, timer>>
  /\ UNCHANGED <<store, world, scan, dirty, faults, mode, counts>>

Outcome(p, o) == job' = [job EXCEPT ![p] = o]

\* processOne classifies the path, whatever the event said, and asks the cache.
Begin(p) ==
  /\ Dispatching /\ ~halt /\ job[p] = "todo"
  /\ \/ /\ Seen(p) = Absent
        /\ Outcome(p, IF ev[p] = "unlink" \/ meta[p] # Absent THEN "gone" ELSE "cached")
        /\ UNCHANGED res
     \/ /\ Seen(p) # Absent /\ p \notin jf /\ meta[p] = Seen(p)
        /\ Outcome(p, "cached") /\ UNCHANGED res
     \/ /\ Seen(p) # Absent /\ p \notin jf /\ meta[p] # Seen(p) /\ meta[p].c = Seen(p).c
        /\ Outcome(p, "stamp") /\ res' = [res EXCEPT ![p] = Seen(p)]
     \/ /\ Seen(p) # Absent /\ (p \in jf \/ meta[p] # Seen(p))
        /\ Outcome(p, "busy") /\ UNCHANGED res
  /\ UNCHANGED <<store, world, scan, queue, ev, jf, bk, phase, timer, halt, dirty, pace, faults, mode, counts>>

\* The worker reads the file.
Read(p) ==
  /\ job[p] = "busy"
  /\ IF disk[p] = Absent THEN Outcome(p, "gone") /\ UNCHANGED res
     ELSE Outcome(p, "read") /\ res' = [res EXCEPT ![p] = disk[p]]
  /\ UNCHANGED <<store, world, scan, queue, ev, jf, bk, phase, timer, halt, dirty, pace, faults, mode, counts>>

\* The result is used only if it still describes the file.
Finish(p) ==
  /\ job[p] = "read"
  /\ Outcome(p, IF Seen(p) = Absent THEN "gone"
                ELSE IF Seen(p) # res[p] THEN "retry"
                ELSE IF p \notin jf /\ meta[p].c = res[p].c THEN "stamp" ELSE "write")
  /\ UNCHANGED <<store, world, scan, queue, ev, jf, res, bk, phase, timer, halt, dirty, pace, faults, mode, counts>>

\* A task fails; or the disk is too full to index, or the whole back end fails,
\* which stops the batch: then the files keep their retries.
TaskFails(p) ==
  /\ job[p] \in {"todo", "busy", "read"} /\ Dispatching
  /\ \/ halt /\ Outcome(p, "left") /\ UNCHANGED <<halt, counts>>
     \/ /\ ~halt /\ counts.faults < MaxFaults /\ Counted("faults")
        /\ \/ Outcome(p, "retry") /\ UNCHANGED halt
           \/ Outcome(p, "left") /\ halt' \in BOOLEAN
  /\ UNCHANGED <<store, world, scan, queue, ev, jf, res, bk, phase, timer, dirty, pace, faults, mode>>

\* The batch times out, or background work yields to live edits.
Halt ==
  /\ Dispatching /\ ~halt
  /\ \/ counts.faults < MaxFaults /\ Counted("faults")
     \/ bk # "live" /\ JobIn(Outcomes) # {} /\ UNCHANGED counts
  /\ halt' = TRUE
  /\ UNCHANGED <<store, world, scan, queue, jobs, phase, timer, dirty, pace, faults, mode>>

-----------------------------------------------------------------------------
(* Its end *)

\* computePathRetry, for the paths of S that failed: those with no retries left
\* are dropped, the others are queued again with the paths of T.
Requeue(S, T, e) ==
  LET again == (S \union T) \ Pending
      dropped == {p \in S \ Pending : tries[p] + 1 >= MaxRetries}
  IN /\ terminal' = terminal \union dropped
     /\ tries' = [p \in Paths |-> IF p \in dropped THEN 0
                                  ELSE IF p \in S \ Pending THEN tries[p] + 1 ELSE tries[p]]
     /\ Enqueue(again \ dropped, e, bk)

\* Mutant: paths that were never started are not queued again.
SettleForgetsRest ==
  /\ Dispatching /\ Batch \subseteq JobIn(Outcomes \union {"todo"})
  /\ JobIn({"todo"}) # {} => halt
  /\ phase' = "insert"
  /\ job' = [p \in Paths |-> IF job[p] \in {"todo", "retry"} THEN "left" ELSE job[p]]
  /\ Requeue(JobIn({"retry"}), {}, ev)
  /\ UNCHANGED <<store, world, scan, forced, fresh, ev, jf, res, bk, timer, halt, dirty, pace, mode, counts>>

\* All tasks have settled.  Removals are verified, and whatever reached no
\* outcome is queued again.
Settle ==
  /\ Dispatching /\ Batch \subseteq JobIn(Outcomes \union {"todo"})
  /\ JobIn({"todo"}) # {} => halt
  /\ phase' = "insert"
  /\ LET back == {p \in JobIn({"gone"}) : Seen(p) # Absent}
         e == [p \in Paths |-> IF p \in back THEN "change" ELSE ev[p]]
     IN /\ job' = [p \in Paths |-> IF p \in back \/ job[p] \in {"todo", "retry"} THEN "left" ELSE job[p]]
        /\ ev' = e
        /\ Requeue(JobIn({"retry"}), back \union JobIn({"todo", "left"}), e)
  /\ UNCHANGED <<store, world, scan, forced, fresh, jf, res, bk, timer, halt, dirty, pace, mode, counts>>

Insert ==
  /\ phase = "insert" /\ phase' = "verify"
  /\ rows' = [p \in Paths |-> IF job[p] = "write" THEN rows[p] \union {res[p].c} ELSE rows[p]]
  /\ UNCHANGED <<meta, world, scan, queue, jobs, timer, halt, dirty, pace, faults, mode, counts>>

\* Removals are verified a second time, after the insertion.
Verify ==
  /\ phase = "verify" /\ phase' = "delete"
  /\ LET back == {p \in JobIn({"gone"}) : Seen(p) # Absent}
     IN /\ job' = [p \in Paths |-> IF p \in back THEN "left" ELSE job[p]]
        /\ ev' = [p \in Paths |-> IF p \in back THEN "change" ELSE ev[p]]
        /\ Requeue({}, back, [p \in Paths |-> "change"])
  /\ UNCHANGED <<store, world, scan, forced, fresh, jf, res, bk, timer, halt, dirty, pace, mode, counts>>

\* Mutant: the vectors of the earlier content stay.
DeleteKeepsOld ==
  /\ phase = "delete" /\ phase' = "commit"
  /\ rows' = [p \in Paths |-> IF job[p] = "gone" THEN {} ELSE rows[p]]
  /\ UNCHANGED <<meta, world, scan, queue, jobs, timer, halt, dirty, pace, faults, mode, counts>>

\* deletePathsExcludingIds: everything but the vectors just inserted.
Delete ==
  /\ phase = "delete" /\ phase' = "commit"
  /\ rows' = [p \in Paths |-> IF job[p] = "gone" THEN {}
                              ELSE IF job[p] = "write" THEN {res[p].c} ELSE rows[p]]
  /\ UNCHANGED <<meta, world, scan, queue, jobs, timer, halt, dirty, pace, faults, mode, counts>>

\* Mutant: a repair that was asked for during the batch counts as done.
CommitForgetsForce ==
  /\ phase = "commit" /\ phase' = "end"
  /\ meta' = [p \in Paths |-> IF job[p] \in {"stamp", "write"} THEN res[p]
                              ELSE IF job[p] = "gone" THEN Absent ELSE meta[p]]
  /\ LET done == JobIn(Completed) IN
     /\ forced' = forced \ done
     /\ tries' = [p \in Paths |-> IF p \in done THEN 0 ELSE tries[p]]
     /\ terminal' = terminal \ done
  /\ UNCHANGED <<rows, world, scan, pend, kind, fresh, jobs, timer, halt, dirty, pace, mode, counts>>

\* The meta entries follow the vectors; then the books of the completed paths.
Commit ==
  /\ phase = "commit" /\ phase' = "end"
  /\ meta' = [p \in Paths |-> IF job[p] \in {"stamp", "write"} THEN res[p]
                              ELSE IF job[p] = "gone" THEN Absent ELSE meta[p]]
  /\ LET done == JobIn(Completed) IN
     /\ forced' = forced \ ((jf \intersect done) \ fresh)
     /\ tries' = [p \in Paths |-> IF p \in done THEN 0 ELSE tries[p]]
     /\ terminal' = terminal \ done
  /\ UNCHANGED <<rows, world, scan, pend, kind, fresh, jobs, timer, halt, dirty, pace, mode, counts>>

\* The store refuses: for want of space or because it is corrupt, which is not
\* the files' fault, or for another reason, which counts against each of them.
StoreFails ==
  /\ phase \in {"insert", "delete"} /\ phase' = "end"
  /\ counts.faults < MaxFaults /\ Counted("faults")
  /\ \/ Requeue({}, Batch \ terminal, ev)
     \/ Requeue(Batch \ terminal, {}, ev)
  /\ UNCHANGED <<store, world, scan, forced, fresh, jobs, timer, halt, dirty, pace, mode>>

\* Mutant: the batch ends and leaves the timer as it is.
EndUnscheduled ==
  /\ phase = "end" /\ phase' = "none" /\ halt' = FALSE /\ dirty' = FALSE
  /\ UNCHANGED <<pend, kind, timer>>
  /\ job' = [p \in Paths |-> "none"] /\ ev' = [p \in Paths |-> "none"]
  /\ jf' = {} /\ res' = [p \in Paths |-> Absent] /\ bk' = "none"
  /\ UNCHANGED <<store, world, scan, forced, fresh, pace, faults, mode, counts>>

\* The finally block, and the settlement of the operation.
End ==
  /\ phase = "end"
  /\ LET again == IF dirty THEN Batch \ Pending ELSE {} IN
     /\ Enqueue(again, [p \in Paths |-> "change"], bk)
     /\ tries' = [p \in Paths |-> IF p \in again THEN 0 ELSE tries[p]]
     /\ BatchOver(Pending \union again # {})
  /\ dirty' = FALSE
  /\ job' = [p \in Paths |-> "none"] /\ ev' = [p \in Paths |-> "none"]
  /\ jf' = {} /\ res' = [p \in Paths |-> Absent] /\ bk' = "none"
  /\ UNCHANGED <<store, world, scan, forced, fresh, pace, terminal, mode, counts>>

-----------------------------------------------------------------------------
(* Pause, close, crash *)

\* A scan that is interrupted is asked for again.
AbortScan == gap' = (gap \/ scan.on) /\ scan' = Idle

\* The abort reaches a batch that waits for admission or runs its tasks.
AbortBatch == halt' = (halt \/ phase \in {"waiting", "tasks"})

Pause ==
  /\ mode = "running" /\ counts.faults < MaxFaults /\ Counted("faults")
  /\ mode' = "pausing" /\ AbortScan /\ AbortBatch
  /\ UNCHANGED <<store, disk, told, lost, policy, queue, jobs, phase, timer, dirty, pace, faults>>

Paused ==
  /\ mode \in {"pausing", "closing"} /\ ~Active
  /\ mode' = IF mode = "pausing" THEN "paused" ELSE "closed"
  /\ UNCHANGED <<store, world, scan, queue, jobs, phase, timer, halt, dirty, pace, faults, counts>>

Resume ==
  /\ mode = "paused" /\ mode' = "running"
  /\ timer' = (Pending # {})
  /\ UNCHANGED <<store, world, scan, queue, jobs, phase, halt, dirty, pace, faults, counts>>

\* Mutant: the timer survives.
CloseKeepsTimer ==
  /\ Open /\ mode' = "closing" /\ counts.faults < MaxFaults /\ Counted("faults")
  /\ AbortScan /\ AbortBatch
  /\ UNCHANGED <<store, disk, told, lost, policy, queue, jobs, phase, timer, dirty, pace, faults>>

Close ==
  /\ Open /\ mode' = "closing" /\ counts.faults < MaxFaults /\ Counted("faults")
  /\ timer' = FALSE /\ AbortScan /\ AbortBatch
  /\ UNCHANGED <<store, disk, told, lost, policy, queue, jobs, phase, dirty, pace, faults>>

\* The daemon dies, or has closed, and starts again: files, vectors and meta
\* entries are all there is left, and the project gets a catchup.
Restart ==
  /\ \/ mode = "closed" /\ UNCHANGED counts
     \/ counts.faults < MaxFaults /\ Counted("faults")
  /\ told' = {} /\ gap' = TRUE /\ lost' = {} /\ scan' = Idle /\ loaded' = rules /\ news' = FALSE
  /\ pend' = [p \in Paths |-> "none"] /\ kind' = [p \in Paths |-> "none"]
  /\ forced' = {} /\ fresh' = {}
  /\ job' = [p \in Paths |-> "none"] /\ ev' = [p \in Paths |-> "none"]
  /\ jf' = {} /\ res' = [p \in Paths |-> Absent] /\ bk' = "none"
  /\ phase' = "none" /\ timer' = FALSE /\ halt' = FALSE /\ dirty' = FALSE
  /\ live' = 0 /\ turn' = "catchup"
  /\ tries' = [p \in Paths |-> 0] /\ terminal' = {} /\ mode' = "running"
  /\ UNCHANGED <<store, disk, rules>>

-----------------------------------------------------------------------------
Flush == Settle \/ Insert \/ Verify \/ Delete \/ Commit \/ End

BatchNext ==
  \/ \E p \in Paths : Edit(p) \/ EditRules(p) \/ ScanPath(p) \/ ScanPathFails(p)
  \/ \E p \in Paths : Begin(p) \/ Read(p) \/ Finish(p) \/ TaskFails(p)
  \/ \E p \in Paths, last \in BOOLEAN : Event(p, last)
  \/ Overflow \/ PolicyEvent \/ ScanBegins \/ ScanEnds \/ ScanFails \/ StartBatch
  \/ \E ripe \in SUBSET Paths : Select(ripe)
  \/ Halt \/ Flush \/ StoreFails \/ Pause \/ Paused \/ Resume \/ Close \/ Restart

BatchSpec == BatchInit /\ [][BatchNext]_batchVars

-----------------------------------------------------------------------------
(* Properties *)

Versions == [c : 0..MaxEdits, t : 0..MaxEdits]

BatchTypeOK ==
  /\ disk \in [Paths -> Versions] /\ meta \in [Paths -> Versions] /\ res \in [Paths -> Versions]
  /\ rows \in [Paths -> SUBSET (1..MaxEdits)]
  /\ told \union lost \union rules \union loaded \union forced \union fresh \union jf \union terminal \subseteq Paths
  /\ {gap, news, timer, halt, dirty, scan.on} \subseteq BOOLEAN
  /\ scan.todo \union scan.known \union scan.vec \union scan.seen \subseteq Paths
  /\ pend \in [Paths -> {"none", "change", "unlink"}] /\ kind \in [Paths -> Kinds \union {"none"}]
  /\ \A p \in Paths : (pend[p] = "none") = (kind[p] = "none")
  /\ job \in [Paths -> {"none", "todo", "busy", "read"} \union Outcomes]
  /\ ev \in [Paths -> {"none", "change", "unlink"}] /\ bk \in Kinds \union {"none"}
  /\ phase \in {"none", "waiting", "tasks", "insert", "verify", "delete", "commit", "end"}
  /\ live \in 0..MaxLive /\ turn \in {"catchup", "cleanup"}
  /\ tries \in [Paths -> 0..MaxRetries - 1]
  /\ mode \in {"running", "pausing", "paused", "closing", "closed"}

\* The index agrees with the content of the file.  The time in the meta entry may
\* be an older one: the next scan reads the file and stamps it.
InSync(p) ==
  IF p \in rules \/ disk[p] = Absent THEN meta[p] = Absent /\ rows[p] = {}
  ELSE meta[p].c = disk[p].c /\ rows[p] = {disk[p].c}

\* A change of a file is not forgotten: until the index agrees with the file an
\* event, a scan, the queue or a batch will bring it up again, or the path is
\* reported as a terminal failure, or as one that the latest scan missed.
NothingForgotten ==
  \A p \in Paths :
    Open => \/ InSync(p) \/ p \in told \/ gap \/ news \/ p \in Pending \/ p \in Batch \/ p \in terminal
            \/ p \in scan.todo \/ p \in scan.known \ scan.seen \/ p \in lost

\* A meta entry that spares a file the reading is backed by vectors of that
\* content and no other; or by none at all, which happens when a removal was cut
\* short, and then a scan that will see it is due, has still to pass, or failed.
CachedIsSearchable ==
  \A p \in Paths :
    Open /\ Seen(p) # Absent /\ meta[p] = Seen(p) /\ p \notin Pending \union Batch \union forced
      => \/ rows[p] = {disk[p].c}
         \/ rows[p] = {} /\ (gap \/ p \in lost \/ p \in scan.todo \ scan.vec)

\* Pending work always has something that will start it.
NoStrandedWork == mode = "running" /\ Pending # {} => timer \/ Active

\* Once pause() or close() has returned nothing reads or writes the store.
StopIsQuiet == mode \in {"paused", "closed"} => ~Active

\* A repair that was asked for since the batch was taken is not counted as done
\* by that batch, and every repair that is due has work that will do it.
RepairStaysDue ==
  Open => /\ fresh \subseteq forced
          /\ \A p \in forced : p \in Pending \union Batch \union terminal
=============================================================================
