# grepmax in TLA+

grepmax (`gmax`) indexes source trees for semantic search. A daemon per user
watches projects, embeds what changes with a pool of worker processes, stores
vectors in one LanceDB table and answers the command line, an MCP server and
editor plugins over a Unix socket. This directory models the parts of it that
are concurrent, persistent or must survive a crash, checks them with TLC on
small instances and proves their main invariants with TLAPS for every instance.

Paths below are relative to the repository. `lib/` stands for `src/lib/`.

    tlc -workers 2 -config MCStoreLease.cfg MCStoreLease    # one run
    tlapm StoreLeaseProofs.tla                              # one module's proofs

`PROJECT.json` lists the components, the runs, for each property a mutant of
the model that breaks it, the lines each definition stands for, the hazards and
the theorems.

## 1. The system

### What is modelled

| Component | State it keeps | Operations | Works with | What is hard | What makes it correct |
|---|---|---|---|---|---|
| Store lease (`lib/store/store-lease.ts`) | on disk: one marker per reader, an intent directory, a lock directory; in memory: the leases held | acquire shared and exclusive, upgrade, downgrade, release, pin a helper process | every process that opens the store; the cleanup helpers | any process dies between two file-system calls; probes are older than what they decide | no writer beside a reader that was not evicted; live owners keep their files until a helper of theirs exits; what the dead left is reclaimed |
| Operation coordinator (`lib/utils/operation-coordinator.ts`) | state, active operations, the queue of waiting calls, the protected read window | runShared, runExclusive, abort, close | every IPC handler, watcher batches, maintenance | reads enter while an exclusive operation drains; aborts and close in every state | exclusive bodies run alone; no queued call is forgotten; nothing runs after close |
| Pause (`lib/daemon/daemon.ts` 842-1060, `paused-reads.ts`) | the pause flag and transition, the gate of bounded reads | pauseWork, paused reads | the coordinator, the stores it closes | calls admitted before the transition; reads that wait for it while it waits for them | the store is closed only when nothing uses it; nothing hangs |
| Watch leases (`lib/daemon/watch-leases.ts`, `daemon.ts`) | lease per holder, processor per root, the queue of the project mutex | lease, release, sweep, watch, unwatch, index, remove, quiesce, resume | the coordinator, the subscription | decisions that wait for a lock while leases come and go | a leased project is watched unless the code refused or failed to, and is not detached by mistake |
| Watcher subscription (`lib/daemon/watcher-manager.ts`) | the native stream, its generation, the chain of updates, backoff and poll timers | watch, recover, policy update, probe, quiesce, unwatch | file watching library, batch processor | every await may be overtaken by an unwatch or a newer stream | no stream leaks; a watched project always learns of changes |
| Worker pool (`lib/workers/pool.ts`) | the queue, the workers, the processes behind them, waiters, timers | run a task, query, dispatch, scale up, reap, respawn, time out, destroy | batch processor, searches, host limits | crashes, deadlines and retirements race answers; killed processes still run | one process per file; nobody waits beside an idle worker; every call is answered |
| Batch processor and catchup scan (`lib/index/batch-processor.ts`, `watcher-batch.ts`, `watcher-manager.ts`) | pending map, timer, attempts, forced repairs; the meta cache and the vectors | handle an event, batch, flush, retry, pause, close, scan | the pool, the two stores, the disk | edits at any point of a batch; store calls that fail one by one; a scan beside a batch | no change is forgotten; a cached entry is backed by vectors |
| Daemon lifecycle (`lib/daemon/daemon.ts` 430-720 and 3300-3470, `daemon-restart.ts`, `utils/recovery.ts`) | lock, socket, PID file, draining marker | start, wait, take over, stop, relaunch | all processes of the user | kills, stale locks, a predecessor that is still draining | at most one daemon claims the store, until its shutdown is over; simultaneous starts leave one |
| Bounded maintenance (`lib/store/bounded-maintenance.ts`, `lance-maintenance/native/src/engine.rs`) | the receipt on disk, two tags and the versions of the table, the handshake over pipes | automatic pass, recovery, protected reads | the coordinator's read window, the lease, version pruning | receipt, tags and commit are separate durable writes of a process that may be killed | protected reads keep their version; a proven outcome is finalized |
| Project sync and rebuild (`lib/daemon/daemon.ts` 1500-2880, `lib/utils/project-registry.ts`, `lib/index/syncer.ts`) | on disk: registry, rebuild journal, vectors, meta cache; in memory: the resources of one embedding generation | index, index pending, ensure, remove, `repair --rebuild` and its resumption | the coordinator, the lease, the pool, commands that edit the registry themselves | one table for all projects is dropped in the middle of a dozen separate writes; a killed rebuild is resumed after other operations have run | an indexed project has the vectors of the generation it names; a rebuild is finished or undone |

How they interact: a request enters through the IPC server, is admitted by the
operation coordinator, which the pause wraps, and takes a lease on the store.
A watch lease attaches a batch processor and a subscription to a root; events
of the subscription and of catchup scans become work of the batch processor,
which runs under the project mutex, sends files to the worker pool and writes
vectors and meta entries. Cleanup and maintenance take the coordinator
exclusively, quiesce every watcher, start a helper process that holds the
exclusive store lease, and resume the watchers. The lifecycle decides which
process may do any of this. A rebuild takes the coordinator exclusively, upgrades
the lease, replaces store and pool by those of the configured generation and
stamps the registry, which every other sync compares with.

### What is not modelled, and why

| Part | Size (lines) | Reason |
|---|---|---|
| Vector store access (`store/vector-db.ts`, `store-access.ts`) | 3,000 | Calls into LanceDB, schema repair and query building. Its lease is `StoreLease`, its four write calls are steps of `BatchProcessor`, its cleanup is `BoundedMaintenance`. |
| IPC server and handlers (`ipc-handler.ts`, `rows-handler.ts`, `graph-handler.ts`, ...) | 4,000 | Parsing, reading and formatting. Admission, queueing and abort are in `OperationCoordinator` and `DaemonPause`. |
| Chunker, parsers, skeletons, file policy | 3,000 | Pure functions of a file's text or path over tree-sitter grammars and ignore rules. |
| Search, PageRank, graph, impact, surprising connections | 6,000 | Floating-point ranking, or heuristics over symbol names, without state of its own. |
| Worker orchestrator, embedding servers (`mlx-server-manager.ts`, `mlx-embed-server/`) | 1,800 | What a worker computes. Its outcome, failure included, is a choice in `WorkerPool` and `BatchProcessor`. |
| Resource budget, host and kernel limits | 1,500 | Comparisons of counters of the operating system. A refusal is a nondeterministic step of the pool and of maintenance. |
| Version cleanup, pruning, full-text index refresh | 1,200 | Subprocesses around library calls. Their exclusive operation is a call of `OperationCoordinator`, their helper a pinned helper of `StoreLease`, the removal of versions the action `Prune` of `BoundedMaintenance`. |
| Native operations other than the copy (relocation, orphans, repair, owned files) | 2,900 | They run inside the attempt `BoundedMaintenance` models; their own planning works on Lance fragments. |
| Commands, MCP server, language model tools, configuration | 20,000 | Arguments in, text out, one request at a time. |
| `gmax add`'s own registry writes (`commands/add.ts:180, 241, 278, 308`) | 200 | The client writes a `pending` entry before it asks the daemon and an `error` one when that fails. `ProjectRebuild` has the entries the daemon and the other commands write. |
| The walk of a tree, embedding reuse (`walker.ts`, `sync-helpers.ts`, `embedding-reuse.ts`) | 350 | Which files a sync visits and which vectors it may copy. `ProjectRebuild` has one file per project; files of a watched project are in `BatchProcessor`. |
| Plugins, scripts, benchmarks, tests | the rest | Not part of the running system. |

The map of `PROJECT.json` covers about 7,600 lines, a tenth of the
implementation, and with them most of its code in which two actors, a failure
or a crash can meet.

## 2. The modules

Every component has one module with its constants, variables, actions and
properties; `MC<Module>.tla` instantiates it for TLC; `<Module>Inv.tla`, where
it exists, holds an inductive invariant used by more than one module;
`<Module>Proofs.tla` holds the theorems. `DaemonPauseProofs` proves the
coordinator too, on which the pause rests, and `WatchProofs` is about both
`WatchLeases` and `WatcherSubscription`.

- **StoreLease** — `pc[n]` is where the call behind lease `n` stands, one step
  per file-system call that another process can tell apart. `readers`,
  `intentOwner`, `pinned` and `lock` are the files; `scan` is what the last
  directory listing returned, so that a decision may be older than the files it
  is about. `helper[n]` is the process pinned to an exclusive use: while it is
  pinned `owner.json` names it alone, so between its exit and the unpin the
  probe of another process finds a dead owner and takes the intent of a live
  one, which then is in `evicted`. `Crash(p)` stops every lease of a process
  where it is. **StoreLock** is the promise, a reader-writer lock with holders,
  in which a step may drop the lease of an evicted owner; `ImplementsLock` is
  the refinement.
- **OperationCoordinator** — `pc[c]` follows `runShared` and `runExclusive`;
  `state`, `queueShared`, `readWindow` and `drain` are fields and locals of the
  class, and the synchronous stretch between two awaits is one action.
- **DaemonPause** composes the coordinator with the pause: `step[c]` says
  whether an admitted call waits for the transition, queues at the gate or
  executes; every action either is an action of the coordinator with `Body`
  added, or leaves its variables alone.
- **WatchLeases** — one project. `tasks` is the queue of its mutex, `stage` how
  far the head has come, `mode` what the coordinator is doing, `owed` the
  finished exclusive operations that have yet to restore the watcher. `barred`
  is what refuses a watch, an index of another generation or a paused daemon; a
  restore also skips a project that is not "indexed", and a watch may fail,
  which the code only logs. `missed` records that an attempt to watch, since one
  was last asked for, came to nothing.
- **WatcherSubscription** — one project. `updates` is the promise chain of
  subscription updates, `of[g]` the processor stream `g` was opened for, `gen`
  the current generation, `timer`, `polling` and `probe` the three ways back.
- **WorkerPool** — `workers` is the list of the class, `proc` and `hosts` the
  processes and the file native code really works on, which outlives the
  bookkeeping after a kill. Entries leave the lists of the class anywhere, so
  each is the set of its members with, for each member, those that came before
  it (`ahead`, `elders`): the first that qualifies is the one with no qualifying
  member before it. A turn of the event loop is a handler and the steps of
  `dispatch()` it ends with, while `pump` holds everything else.
- **BatchProcessor** — `disk`, `meta` and `rows` are the file, its cache entry
  and its vectors per path; `job` is what the running batch has decided;
  `Insert`, `Verify`, `Delete` and `Commit` are the four awaits of a flush and
  any of them may fail. The scan of `watcher-manager.ts` runs beside it; it may
  give up on a path or fail as a whole, and `lost` is the set of paths the
  latest scan should have looked at and did not.
- **DaemonLifecycle** — up to `MaxProcs` processes; `pc` follows `start()`, `sd`
  follows `performShutdown()`; the four files are `lock`, `sock`, `pidFile`
  and `marker`. A store may fail to close: a strict shutdown then stops, any
  other goes on with the store still open.
- **BoundedMaintenance** — three programs: the daemon's side (`call`), the
  helper (`h`), and the disk (`receipt`, `tagB`, `tagA`, `log`, `kept`). Lines
  travel through `msg` and `ack`. A death of either side may come between any
  two durable writes.
- **ProjectRebuild** — two programs on one disk: `pc` follows `repairRebuild`,
  `job` is the sync or removal of a project in progress. `reg`, `journal` and
  `temp` are the registry, the rebuild journal and the temporary file it is
  renamed from; `rows[r]` the generations of the vectors a project really has;
  `gen`, `pool`, `db` and `lease` the resources of the daemon. Each write that
  a kill can separate from the next is a step. A failure before the drop goes
  through `Undo`, `Undone` and `Recover`, one after it through `Lost`.

Abstractions common to all: names, payloads and vectors are model values;
logging, metrics and formatting are left out; durations are nondeterministic,
so a deadline may pass at any moment unless the code compares it with another.

## 3. The runs

| Run | Instance | Shows |
|---|---|---|
| `lease` | three leases in two processes, a helper each; one process may crash, also inside the two halves of a write | exclusion beside the evicted, refinement of `StoreLock`, a live owner is reclaimed only after its helper exited, a patient writer gets in, markers of the crashed go away |
| `pause` | two paused reads, a cleanup, a maintenance pass with windows, queue and gate of one place | exclusion, the window, the store is closed only when unused, every call, the pause and the close settle |
| `watch` | a session that renews and a command line, three kinds of exclusive operations, at most two of them, queue of three, one failure, a stale index, a pause | leased projects are watched at rest unless refused, never detached under a lease, and again and again while nothing refuses them |
| `watch_unleased` | two holders that stop, one maintenance pass | **violated**: an unleased project ends up unwatched |
| `subscription` | two watches, three stream errors, two refusals (of a start, a policy update or a probe), two policy changes | no leak, quiet after detach, coverage returns, polling ends |
| `watcher_retry` | one watch, one error, its recovery refused | **violated**: a watched project is covered again |
| `pool` | two tasks for one file, a search, a document query; three workers, four process slots, one respawn | one process per file, no wait beside an idle worker, room for searches, strict shutdown |
| `pool_live` | tasks for two files, two workers | indexing leaves a worker free; every call is answered |
| `indexing` | two paths, two edits, one fault (of a batch, a scan or the daemon), two attempts | nothing forgotten but by a failed scan, cached means searchable, nothing stranded, quiet stop, repairs stay due |
| `lifecycle` | three processes, one requested stop, one fault (a kill, a failed start, a stolen lock, a store that will not close) | one process claims the store, the published one is reachable; one survives; everything settles |
| `rebuild` | two projects, one change of model, one removal, two faults | indexed means built by the generation named; serving means whole; an unfinished rebuild settles |
| `maintenance` | two edits, two copies, two faults | pinned reads, tags, no second copy, accepted outcomes settle |

Why the bounds are enough for the cases of interest: two readers and a writer
are the fewest with which a writer can be overtaken by one reader while it
waits for another, and two leases of one process exercise upgrade and the
rules for own markers; one process that may crash is enough, since the other has
to live with what it left. One gate place makes the second read queue and a queue
limit of one makes the third call be refused. Two exclusive operations let one
begin while watchers of the previous are being restored. Three stream errors
are `MaxRetries` plus one, so the backoff runs out. Four process slots for
three workers leave a killed process beside its replacement. A second edit is
needed to change a file after it was read; a second attempt exhausts the retry
limit. Three processes are a dying daemon, its successor and a second newcomer.
Two faults are one that interrupts an attempt and one that interrupts its
recovery, in maintenance and in a rebuild; a second project is the one a rebuild
has not reached yet, and one change of the model is enough for a rebuild, and for
one whose target is no longer configured. Every bound is a constant and is tested in the guard of the action it
limits; none is in an invariant.

`CHECK_DEADLOCK FALSE` is set in every run but `rebuild`: each of the others may really
come to rest, with all leases released, the coordinator closed, all calls
answered, or, where requests never end in the code, with the bounds on edits,
errors and operations used up.

Several constants switch off one interleaving that breaks a property, so that a
run says the property holds *otherwise*; each is described in section 6:
`BusyFailures`, `RefusedFor`, `MayRevert`, `FirstTimeGap`, `SilentRules`,
`SleepAnywhere`, `StopWhileWatching`, `HiddenRows`, `LateRestore`. Where the code
breaks a promise on a path that cannot be switched off without distorting the
model, the path is in the model and a history variable or a condition of the
property names it: `evicted`, `missed`, `lost`, `Claims`, `Littered`, `Misplaced`.

### Fairness

- A process that has not crashed takes its next step; timers fire; promise
  reactions run: weak fairness of each program step.
- A step that other actors keep disabling and enabling is strongly fair only
  when the code retries it: giving up a lease request at its deadline, taking
  the gate, leaving after a deadline in the pool, releasing a lease.
- Sweeping and renewing are strongly fair because the bound on the queue, which
  the code does not have, may disable them.
- Bodies of operations end, except those listed as `Wedged`. Workers need not
  answer: deadlines and the exit of killed processes are enough.
- Whoever asked for a rebuild repeats `gmax repair --rebuild` while it is
  unfinished (strong fairness, since a stop or another operation may come
  between): nothing in the daemon resumes it.
- Nothing forces an edit, an error, a request, a crash or a kill.

## 4. The proofs

Proved for every value of the constants, under the named assumptions of each
module and the switches stated here.

| Module | Theorems | How |
|---|---|---|
| `StoreLeaseProofs` | `LeaseInvariant`, `LeaseMutualExclusion`, `LeaseImplementsLock`, `LeaseNeverReclaimedLive` | `LeaseInv`. Mutual exclusion alone is not inductive: one must know that a reader past its recheck has its marker on disk and is in the listing of every writer that has not finished its sweep, which files a lock holder may still be removing, and how an owner that was evicted after its helper exited may still get at the intent of its successor. From the same invariant each action maps to a step of `StoreLock` or a stutter. |
| `DaemonPauseProofs` | `OpsInvariant`, `OpsExclusion`, `OpsSealed`, `OpsNoOrphan`, `OpsClosedIsQuiet`, `OpsAbortedNeverStarts` | `OpsInv` ties `state` and its options to the one exclusive call in progress and says that a drain and a close wait for every task that still runs; exclusion alone does not survive a read admitted during a drain. |
| | `PauseImplementsOps`, `PauseInvariant`, `PauseQuietWhileClosing`, `PauseOneBoundedRead` | Each step of the composition is a step of the coordinator or leaves it alone, so `OpsInv` carries over, and `PauseInv` is proved inductive relative to it. |
| `WatchProofs` | `WatchInvariant`, `WatchLeased`, `WatchNoDetach` | `WatchInv` says who owes a watcher to a leased root: a queued task, an exclusive operation, or nobody because an attempt came to nothing. |
| | `SubInvariant`, `SubNoLeak`, `SubDetachedIsQuiet` | `SubInv` accounts for each open stream: registered, in the hands of the update at the head of the chain, or of the teardown. |
| `WorkerPoolProofs` | `PoolInvariant`, `PoolTypes`, `PoolOneOwnerPerFile`, `PoolNoWorkBesideIdle`, `PoolSearchesFindRoom`, `PoolStrictMeansQuiet` | `PoolInv`. What a process works on is a fact the pool cannot see. `Ownership` says its books never lag behind: native work is for a task that is still assigned, to a worker still watched, and no two assigned tasks are for one file; without the worker lists a retry could be handed out while a killed process is still inside the file. A pool that was refused has an empty queue (`DeniedIsEmpty`), which is what lets a refusal end without a wake-up, and `Watched` and `Ended` carry the first part through `destroy()`. |
| `BatchProcessorProofs` | `BatchInvariant`, `BatchNothingStranded`, `BatchStopIsQuiet`, `BatchRepairStaysDue` | `BatchInv` relates mode, timer, phase and forced repairs. |
| | `IndexInvariant`, `IndexNothingForgotten`, `IndexCachedIsSearchable` | `IndexInv`, path by path: how the version on disk, the one a batch has read, the meta entry and the vectors compare at each place a scan and a batch can be at. It must say of every vector in the store who will still replace or remove it (the entry, the running batch, a forced repair, a scan that is due), since a flush is four writes that fail one by one; a path a scan gave up on is in `lost`, and the invariant (`Due`) says that nothing else drops out of a scan. Assumes `~MayRevert`, `~FirstTimeGap` and `~SilentRules`. |
| `DaemonLifecycleProofs` | `LifeInvariant`, `LifeOneStoreOwner`, `LifeOwnerIsVisible`, `LifePublishedIsReachable`, `LifeTypes` | `LifeInv`: the lock protects a start until its PID file does, and every check made under the lock sees whoever claims the store, to the end of its shutdown and also when its store would not close. Assumes `~SleepAnywhere`. |
| | `LifeOneSurvives` | `SurvivorInv` names a survivor for every disk: the process the lock, the PID file or the socket points at, or one that has not looked yet. It needs no exclusion, so it holds with `SleepAnywhere` too. |
| `BoundedMaintenanceProofs` | `MaintInvariant`, `MaintPinnedReads`, `MaintTagsFollowReceipt`, `MaintPendingNeverReplaced` | `MaintInv` says, for each place the helper can be at, how far the receipt on disk, the receipt in its memory and the two tags are. The tags follow the receipt only if the one in memory is the one on disk wherever the helper is about to move a tag. |
| `ProjectRebuildProofs` | `RebuildInvariant`, `RebuildReadyIsWhole` | `RebuildInv`: which resources of the daemon are gone at each step of a repair, and which of them each failure path puts back. |
| | `BuiltInvariant`, `RebuildIndexedIsBuilt` | `BuiltInv`: as long as rows of another generation may be left, the journal or the running sync names the project; an entry is stamped only with the rows written. Assumes `~HiddenRows` and `~LateRestore`. |

Types are parts of the invariants. Every inductive invariant was first checked
by TLC, on the instance of the component's run. The switches are the hypotheses
of the theorems, and each excludes an interleaving that really breaks the
property (section 6); the other assumptions are those of the modules, finite
sets and limits that are numbers.

### Only model-checked

Liveness, and so everything with fairness or `ENABLED`, is out of the prover's
reach, as are induction over data and recursive operators. Hence all leads-to
and eventuality properties: `EventuallyGranted`, `CrashedReaderReclaimed`,
`NothingHangs`, `RenewedIsWatched`, `WatchedIsCovered`, `PollingEnds`,
`EveryTaskSettles`, `EverythingSettles`, `AcceptedSettles`, `RebuildSettles`.
Every invariant and every action property of a passing run is proved.

## 5. Hazards

`PROJECT.json` lists what is hard to test in this code, at the line where it
bites, with the properties that would catch it. Those without a property say
why in their note: the composition of `resumeAll` with an unwatch
(`watcher-manager.ts:1107`, two modules that are not composed), the registry
entry `onReindex` writes back (`watcher-manager.ts:217`), and the cases in which
the code breaks a property and the run leaves them out: the eviction of a live
owner (`store-lease.ts:454`), failures while a recovery is in flight
(`watcher-manager.ts:496`), a stop while `start()` attaches projects
(`daemon.ts:683`), the misplaced tag (`engine.rs:1676`) and rows of an entry made
anew (`syncer.ts:136`).

## 6. Where the code and its description differ

Shown by runs that end in a violation:

- **An unleased project stays watched** (`watch_unleased`). The sweep skips a
  root without a processor, which is every root while maintenance runs;
  `resumeAll` then attaches it again. `README.md:433`: "When the last lease
  ends the project is unwatched".
- **A refused recovery is the last one** (`watcher_retry`). When the
  subscription a recovery makes is refused the error is logged and nothing is
  armed. `README.md:517` promises recovery or polling.

Excluded in a property, or accepted by it:

- A reader that dies between creating and renaming its marker
  (`store-lease.ts:178`) leaves a file no owner can be read from; every later
  writer is refused because of it, although `docs/known-limitations.md:394-398`
  says a crashed reader is reclaimed on the next exclusive attempt.
  `CrashedReaderReclaimed` speaks of runs without such a file (`Littered`).
- A strict destroy of the pool that times out in a rebuild (`daemon.ts:2470`)
  makes the failure path hand the old resources back, with a pool that is
  already destroyed and rejects every task. `ReadyIsWhole` accepts it as
  `"stuck"`.
- Exclusion is lost while a destructive use is verified. `pinExclusiveHelper`
  puts the helper alone into `owner.json` (`store-lease.ts:437`); from its exit
  to the unpin on "close" (`bounded-maintenance.ts:893-900`) another process that
  probes the intent finds a dead owner (`store-lease.ts:454-466`) and removes it,
  although `withExclusiveUse` is to "Hold verified cross-process exclusion
  through a destructive helper and its verification" (`store-lease.ts:383-384`). The shortest trace is
  `UseBegin`, `PinHelper`, `HelperExit`, then `SharedProbe` and `Unlink` of
  another process. The model keeps such owners in `evicted`, and
  `MutualExclusion`, `StoreLock` and `EventuallyGranted` let them go without.
  `ExclusionHeldThroughUse` in `StoreLease` is the promise as written; added to
  the configuration as an invariant it is violated by that trace.
- A watch that came to nothing is only logged: refused for a stale generation or
  in a paused daemon (`daemon.ts:844-856`, `watcher-manager.ts:167-169`), skipped
  at a restore because the project is not "indexed" (`daemon.ts:2750`), not
  restored after a repair that failed past its drop (`daemon.ts:2782`), or failed
  after an index or a removal (`daemon.ts:1584-1590`, `2126-2133`, `2231-2239`).
  `LeasedIsWatched` accepts such a project (`missed`) until it is asked for
  again, and `RenewedIsWatched` speaks of renewals that nothing refuses
  (`barred`).
- A scan that fails is only logged and the root reported as "degraded"
  (`watcher-manager.ts:727-728, 965-981`), as is a path it cannot look at after
  three retries (`853-856`, `952-962`). What changed there while the daemon was
  not watching is not seen before the next event or scan; `NothingForgotten` and
  `CachedIsSearchable` accept these paths (`lost`).
- A shutdown that cannot close its store goes on to start its successor and to
  clear the draining marker (`daemon.ts:3443-3471`; `vector-db.ts:2500-2533`
  gives up on a close that takes too long), although the comment at
  `daemon.ts:3458-3461` lets the successor start "only after every resource is
  released". `OneStoreOwner` speaks of claims, which end with the shutdown
  (`Claims`); until the old process exits its connection may still be open.

Shown by turning a switch of a passing run on:

- `BusyFailures` (`watcher-manager.ts:496`): a terminal error that arrives while
  a recovery is in flight is dropped by the early return, and the dead stream
  stays registered; a policy update that is refused meanwhile
  (`watcher-manager.ts:199-201`) runs into the same return and leaves the root
  with no stream; `WatchedIsCovered` is violated.
- `RefusedFor` without `"recover"` is what the run `subscription` has; the run
  `watcher_retry` shows the rest.
- `FirstTimeGap` (`watcher-manager.ts:729`): a file indexed for the first time
  while the scan lists the known paths is not in the list; if it then goes away
  unnoticed its vectors stay; `NothingForgotten` is violated.
- `SilentRules` (`watcher-manager.ts:725`): a scan reads the ignore rules anew
  without telling a batch in progress. A file that comes back between the second
  verification of a batch and the commit of its removal is skipped by the scan,
  whose entry for it is still there, and then removed by the batch;
  `NothingForgotten` is violated. The proof found this one: it takes three
  faults, one more than the run has.
- `MayRevert` (`batch-processor.ts:836`): an insertion whose deletion failed
  leaves the rows of two contents; if the file then returns to the content and
  time its meta entry names it is skipped.
- `StopWhileWatching` (`daemon.ts:683`): a stop that begins while `start()`
  attaches projects is swallowed by the loop's catch, and `start()` arms
  intervals nobody clears; the process does not exit.
- `SleepAnywhere` (`daemon.ts:458`): a daemon suspended between taking the lock
  and writing its PID file for longer than the lock's staleness opens the store
  beside its successor.
- `Misplaced` (`engine.rs:1676`, excluded in `AcceptedSettles`): a recovery
  that dies after moving the after tag to the head leaves a tag that, once
  another edit is committed, every later recovery refuses, although
  `engine.rs:1459-1464` says that ordinary edits may advance the head. The
  daemon then starts with maintenance read-only.
- `HiddenRows` (`syncer.ts:136`): a sync compares the configured generation with
  the registry entry. `gmax doctor --fix` removes an entry and leaves the rows;
  ensuring the project after a change of model makes an entry of the new
  generation, skips the cached files and stamps the rows of the old one as
  current; `IndexedIsBuilt` is violated. An entry that failed half way does the
  same. `docs/known-limitations.md:89-91`: a stale generation "is rejected before
  search or sync mutation".
- `LateRestore` (`project-registry.ts:379`): a resumed rebuild that fails before
  its own drop restores the entries its journal names, "indexed" with the old
  generation, although the first attempt has dropped their rows or a sync has
  rewritten them since; `IndexedIsBuilt` is violated.

One more was found by reading and is in no model: `onReindex`
(`watcher-manager.ts:217`) reads a registry entry, awaits a count and writes the
entry back, over whatever was written meanwhile.

## 7. What could come next

The composition of `WatchLeases` with `WatcherSubscription`, for the race of
`resumeAll` with an unwatch; watched batches beside `ProjectRebuild`, for the
registry; the other operations of the native helper; version cleanup as a module
of its own.
