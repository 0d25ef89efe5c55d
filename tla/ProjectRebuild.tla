--------------------------- MODULE ProjectRebuild ---------------------------
(***************************************************************************)
(* The switch of the embedding generation.  Every project is registered    *)
(* with the generation its rows were built by; `gmax repair --rebuild`     *)
(* reserves all projects for the configured generation, drops the table    *)
(* they share and indexes them again (src/lib/daemon/daemon.ts,            *)
(* src/lib/utils/project-registry.ts).  A journal on disk lets a later     *)
(* repair resume one that died.  Beside it run the operations that stamp   *)
(* the registry: index, index of pending projects at a start, ensure, and  *)
(* the commands that remove a project.                                     *)
(*                                                                         *)
(* A project has one file.  Operations of different projects share nothing *)
(* but the store, so at most one of them is in progress; the repair        *)
(* excludes them all (module OperationCoordinator).                        *)
(***************************************************************************)
EXTENDS Naturals, FiniteSets

CONSTANTS
  Projects,
  Gens,          \* embedding generations, each with its fingerprint
  First,         \* the one configured at the beginning
  None,
  MaxChanges,    \* bound: edits of the configuration
  Ids,           \* identities of rebuilds
  MaxRemoves,    \* bound: projects removed from the registry
  MaxFaults,     \* bound: kills, failed calls, aborts and lost clients
  HiddenRows,    \* a sync may meet rows of a generation its registry entry does not name
  LateRestore    \* a resumed rebuild may fail before its own drop

ASSUME RebuildAssumption ==
  /\ First \in Gens /\ None \notin Projects \cup Gens \cup Ids
  /\ Ids # {} /\ {MaxChanges, MaxRemoves, MaxFaults} \subseteq Nat
  /\ {HiddenRows, LateRestore} \subseteq BOOLEAN

VARIABLES
  config,   \* the generation the configuration file names
  reg,      \* projects.json: the entry of each project, or None
  journal,  \* rebuild-journal.json, or None
  temp,     \* a journal written beside it and not renamed yet, or None
  rows,     \* the generations of a project's vectors
  meta,     \* whether its file has an entry in the meta cache
  leaving,  \* projects whose data gmax remove has begun to delete
  up, ready,
  gen,      \* activeGeneration
  pool,     \* the worker pool: "up", "gone", or "stuck" when it could not be destroyed
  db,       \* the store: "open", "closed", or "broken" when closing it failed
  lease,
  todo,     \* pending projects the daemon will index in the background
  job,      \* the operation on a project in progress, or None
  pc,       \* where repairRebuild stands
  target,   \* targetGeneration
  resv,     \* its reservation
  left,     \* projects it has still to index
  failed,   \* failures is not empty
  client,   \* the command that asked for it is connected, and the table not dropped
  changes, removes, faults

disk == <<config, reg, journal, temp, rows, meta, leaving>>
resources == <<ready, gen, pool, db, lease>>
call == <<target, resv, left, failed, client>>
bounds == <<changes, removes, faults>>
rebuildVars == <<disk, up, resources, todo, job, pc, call, bounds>>

\* An entry: status "indexed"; identity; whether it is recorded; rebuildId or None.
Entry == [done : BOOLEAN, gen : Gens, exact : BOOLEAN, rid : Ids \cup {None}]

\* getProject: what the stamp of a full sync expects to find again.
Recorded(e) == IF e = None THEN <<None, None>> ELSE <<IF e.exact THEN e.gen ELSE None, e.rid>>

\* loadRebuildJournal, which first renames a temporary file left behind.
Loaded == IF temp # None THEN temp ELSE journal

Stale(r) == reg[r] # None /\ reg[r].gen # gen

\* Mutant: a sync without the check of the generation.
AnyGen(r) == TRUE

CurrentGen(r) == ~Stale(r)

Unfinished == Loaded # None \/ \E r \in Projects : reg[r] # None /\ reg[r].rid # None

Init ==
  /\ config = First
  /\ reg \in [Projects -> {None} \cup {[done |-> TRUE, gen |-> config, exact |-> TRUE, rid |-> None]}]
  /\ rows = [r \in Projects |-> IF reg[r] = None THEN {} ELSE {config}]
  /\ meta = [r \in Projects |-> reg[r] # None]
  /\ journal = None /\ temp = None /\ leaving = {}
  /\ up = FALSE /\ ready = FALSE /\ gen = First /\ pool = "gone" /\ db = "closed" /\ lease = "none"
  /\ todo = {} /\ job = None
  /\ pc = "idle" /\ target = None /\ resv = None /\ left = {} /\ failed = FALSE /\ client = FALSE
  /\ changes = 0 /\ removes = 0 /\ faults = 0

Fault == faults < MaxFaults /\ faults' = faults + 1 /\ UNCHANGED <<changes, removes>>

-----------------------------------------------------------------------------
\* The user, and the life of the daemon.

\* gmax config: a running daemon keeps the generation it started with.
ChangeConfig ==
  /\ changes < MaxChanges /\ changes' = changes + 1
  /\ config' \in Gens \ {config}
  /\ UNCHANGED <<reg, journal, temp, rows, meta, leaving, up, resources, todo, job, pc, call, removes, faults>>

\* start: resources for the configured generation; the pending projects no rebuild has reserved.
StartDaemon ==
  /\ ~up /\ up' = TRUE /\ ready' = TRUE
  /\ gen' = config /\ pool' = "up" /\ db' = "open" /\ lease' = "shared"
  /\ todo' = {r \in Projects : reg[r] # None /\ ~reg[r].done /\ reg[r].rid = None}
  /\ UNCHANGED <<disk, job, pc, call, bounds>>

Forget ==
  /\ up' = FALSE /\ ready' = FALSE /\ pool' = "gone" /\ db' = "closed" /\ lease' = "none"
  /\ todo' = {} /\ job' = None /\ pc' = "idle"
  /\ target' = None /\ resv' = None /\ left' = {} /\ failed' = FALSE /\ client' = FALSE
  /\ gen' = First
  /\ UNCHANGED disk

Crash == up /\ Fault /\ Forget

\* A stop, and the shutdown in the finally block of a repair that left the daemon not ready.
Shutdown == up /\ (pc = "down" \/ (pc = "idle" /\ job = None)) /\ Forget /\ UNCHANGED bounds

\* reserveProjectsForRebuild holds the lock of the registry while it writes journal and registry.
RegistryLocked == pc \in {"rename", "save"}

\* The registry entry goes: gmax remove, after the daemon has deleted the data, or gmax doctor --fix alone.
Unregister(r) ==
  /\ reg[r] # None /\ ~RegistryLocked
  /\ reg' = [reg EXCEPT ![r] = None] /\ leaving' = leaving \ {r}
  /\ IF r \in leaving THEN UNCHANGED removes ELSE removes < MaxRemoves /\ removes' = removes + 1
  /\ UNCHANGED <<config, journal, temp, rows, meta, up, resources, todo, job, pc, call, changes, faults>>

-----------------------------------------------------------------------------
\* Operations on one project.  The coordinator admits them while no repair is under way.

Admitted == up /\ ready /\ pc = "idle" /\ job = None

Indexed(r) == reg[r] # None /\ reg[r].done
\* Rows built by a generation other than the active one, of a project whose entry does not tell.
Hides(r) == ~(rows[r] \subseteq {gen}) /\ ~Indexed(r)

Begin(r, kind, prev, expected) == job' = [root |-> r, kind |-> kind, prev |-> prev, expected |-> expected, synced |-> FALSE]

\* indexProject: gmax index, with or without --reset.
StartIndex(r) ==
  /\ Admitted /\ reg[r] # None
  /\ CurrentGen(r)
  /\ \E kind \in {"index", "reset"} :
        (Hides(r) /\ kind = "index" => HiddenRows) /\ Begin(r, kind, None, Recorded(reg[r]))
  /\ UNCHANGED <<disk, up, resources, todo, pc, call, bounds>>

\* indexPendingProject looks at the entry again: only projects not indexed yet.
StartPending(r) ==
  /\ Admitted /\ r \in todo /\ todo' = todo \ {r}
  /\ reg[r] # None /\ ~Indexed(r)
  /\ CurrentGen(r) /\ (Hides(r) => HiddenRows)
  /\ Begin(r, "pending", None, Recorded(reg[r]))
  /\ UNCHANGED <<disk, up, resources, pc, call, bounds>>

\* Its entry is gone, indexed or stale: nothing to do, or an error five times.
SkipPending(r) ==
  /\ Admitted /\ r \in todo /\ todo' = todo \ {r}
  /\ ~(reg[r] # None /\ ~Indexed(r) /\ CurrentGen(r))
  /\ UNCHANGED <<disk, up, resources, job, pc, call, bounds>>

\* ensureProject registers a project that is not indexed anew, without fingerprint and rebuildId.
StartEnsure(r) ==
  /\ Admitted /\ gen = config /\ (Hides(r) => HiddenRows)
  /\ ~Indexed(r)
  /\ reg' = [reg EXCEPT ![r] = [done |-> FALSE, gen |-> gen, exact |-> FALSE, rid |-> None]]
  /\ Begin(r, "ensure", reg[r], <<None, None>>)
  /\ UNCHANGED <<config, journal, temp, rows, meta, leaving, up, resources, todo, pc, call, bounds>>

\* removeProject of the daemon: vectors, then meta entries.
StartRemove(r) ==
  /\ Admitted /\ reg[r] # None /\ removes < MaxRemoves /\ removes' = removes + 1
  /\ Begin(r, "remove", None, Recorded(reg[r]))
  /\ leaving' = leaving \cup {r}
  /\ UNCHANGED <<config, reg, journal, temp, rows, meta, up, resources, todo, pc, call, changes, faults>>

\* initialSync: a file with a meta entry is skipped if its vectors are there as well.
Cached(r) == meta[r] /\ rows[r] # {}
Skipped(r) == job.kind \notin {"reset", "rebuild"} /\ Cached(r)

Syncing == job # None /\ ~job.synced /\ job.kind # "remove"

SyncFile ==
  /\ Syncing /\ (Skipped(job.root) \/ pool = "up")
  /\ rows' = IF Skipped(job.root) THEN rows ELSE [rows EXCEPT ![job.root] = {gen}]
  /\ meta' = [meta EXCEPT ![job.root] = TRUE]
  /\ job' = [job EXCEPT !.synced = TRUE]
  /\ UNCHANGED <<config, reg, journal, temp, leaving, up, resources, todo, pc, call, bounds>>

\* stampProjectFullSync, unless the entry has changed since the sync read it.
Stamped == [done |-> TRUE, gen |-> gen, exact |-> TRUE, rid |-> None]
Expected(r) == Recorded(reg[r]) = job.expected

Stamp ==
  /\ job # None /\ job.synced /\ job.kind \in {"index", "reset", "pending", "ensure"}
  /\ IF Expected(job.root) /\ ~(job.kind = "pending" /\ reg[job.root] = None)
     THEN reg' = [reg EXCEPT ![job.root] = Stamped] ELSE UNCHANGED reg
  /\ job' = None
  /\ UNCHANGED <<config, journal, temp, rows, meta, leaving, up, resources, todo, pc, call, bounds>>

\* A sync that is aborted, degraded or fails; a destroyed pool fails every file.  Unless aborted,
\* index-pending tries again, and so does a degraded ensure.  Ensure puts back the entry it found, or
\* leaves its own when it failed.
SyncFails ==
  /\ Syncing /\ job.kind # "rebuild"
  /\ \/ Fault
     \/ pool # "up" /\ ~Skipped(job.root) /\ UNCHANGED bounds
  /\ rows' \in {rows} \cup (IF pool = "up" /\ ~Skipped(job.root) THEN {[rows EXCEPT ![job.root] = @ \cup {gen}]} ELSE {})
  /\ \E end \in {"aborted", "degraded", "failed"} :
        /\ reg' = IF job.kind = "ensure" /\ end # "failed" /\ job.prev # None
                  THEN [reg EXCEPT ![job.root] = job.prev] ELSE reg
        /\ todo' = IF <<job.kind, end>> \in {<<"pending", "degraded">>, <<"pending", "failed">>, <<"ensure", "degraded">>}
                   THEN todo \cup {job.root} ELSE todo
  /\ job' = None
  /\ UNCHANGED <<config, journal, temp, meta, leaving, up, resources, pc, call>>

RemoveRows ==
  /\ job # None /\ job.kind = "remove" /\ ~job.synced
  /\ rows' = [rows EXCEPT ![job.root] = {}]
  /\ job' = [job EXCEPT !.synced = TRUE]
  /\ UNCHANGED <<config, reg, journal, temp, meta, leaving, up, resources, todo, pc, call, bounds>>

RemoveMeta ==
  /\ job # None /\ job.kind = "remove" /\ job.synced
  /\ meta' = [meta EXCEPT ![job.root] = FALSE] /\ job' = None
  /\ UNCHANGED <<config, reg, journal, temp, rows, leaving, up, resources, todo, pc, call, bounds>>

-----------------------------------------------------------------------------
\* repairRebuild.

Goto(from, to) == up /\ pc = from /\ pc' = to

\* Back to serving, or answered with an error.
Return ==
  /\ pc' = "idle" /\ target' = None /\ resv' = None /\ left' = {} /\ failed' = FALSE /\ client' = FALSE

\* The old resources are given up; the finally block then shuts the daemon down.
FailClosed ==
  /\ ready' = FALSE /\ pool' = "gone" /\ db' = "closed" /\ lease' = "none" /\ pc' = "down"
  /\ UNCHANGED <<gen, call>>

\* gmax repair --rebuild: the target is the generation configured now.  A request made while an operation
\* is in progress waits for it; neither looks at what the other changes, so it is made after it here.
RequestRepair ==
  /\ up /\ ready /\ pc = "idle" /\ job = None /\ pc' = "drain"
  /\ target' = config /\ client' = TRUE
  /\ UNCHANGED <<disk, up, resources, todo, job, resv, left, failed, bounds>>

\* With LateRestore = FALSE what would cancel a resumed rebuild before its drop does not happen.
MayFail == resv.again => LateRestore

\* Its connection closes: that cancels the repair until the table is dropped.
Disconnect ==
  /\ client /\ Fault /\ client' = FALSE
  /\ \/ pc \in {"drain", "lease"}
     \/ pc = "reserve" /\ (Loaded # None => LateRestore)
     \/ pc \in {"rename", "save", "stop", "close", "mark", "marking", "drop"} /\ MayFail
  /\ UNCHANGED <<disk, up, resources, todo, job, pc, target, resv, left, failed>>

Drained == Goto("drain", "lease") /\ UNCHANGED <<disk, up, resources, todo, job, call, bounds>>

\* The safety of the host refuses it.
Refused ==
  /\ up /\ pc = "drain" /\ Fault /\ Return
  /\ UNCHANGED <<disk, up, resources, todo, job>>

Upgrade ==
  /\ Goto("lease", IF client THEN "reserve" ELSE "retreat")
  /\ lease' = "exclusive"
  /\ UNCHANGED <<disk, up, ready, gen, pool, db, todo, job, call, bounds>>

\* Other owners of the store do not leave in time, or the client has left.
UpgradeFails ==
  /\ up /\ pc = "lease" /\ Return
  /\ Fault \/ (~client /\ UNCHANGED bounds)
  /\ UNCHANGED <<disk, up, resources, todo, job>>

\* Nothing has been reserved: the lease is shared again.
Retreat ==
  /\ up /\ pc = "retreat" /\ Return
  /\ lease' = "shared"
  /\ UNCHANGED <<disk, up, ready, gen, pool, db, todo, job, bounds>>

RetreatFails == up /\ pc = "retreat" /\ Fault /\ FailClosed /\ UNCHANGED <<disk, up, todo, job>>

\* Mutant: an unfinished rebuild is refused whatever its target.
ConflictUnlessNew == Loaded # None \/ \E r \in Projects : reg[r] # None /\ reg[r].rid # None

\* reserveProjectsForRebuild: a journal left by an earlier rebuild is resumed if it has the same target,
\* with the entries it found then.
Conflict ==
  IF Loaded # None THEN Loaded.target # target
  ELSE \E r \in Projects : reg[r] # None /\ reg[r].rid # None

Previous(r) == IF Loaded # None /\ reg[r] # None /\ Loaded.prev[r] # None THEN Loaded.prev[r] ELSE reg[r]

\* A random UUID; an identity that nothing names any more may come again.
NewId == CHOOSE id \in Ids : \A r \in Projects : reg[r] # None => reg[r].rid # id

Reserve ==
  /\ Goto("reserve", "rename") /\ ~Conflict
  /\ resv' = [rid |-> IF Loaded # None THEN Loaded.rid ELSE NewId,
              prev |-> [r \in Projects |-> Previous(r)],
              roots |-> {r \in Projects : reg[r] # None}, again |-> Loaded # None]
  /\ journal' = Loaded
  /\ temp' = [rid |-> resv'.rid, target |-> target, prev |-> resv'.prev,
              dropping |-> Loaded # None /\ Loaded.dropping]
  /\ UNCHANGED <<config, reg, rows, meta, leaving, up, resources, todo, job, target, left, failed, client, changes, removes, faults>>

ReserveConflict ==
  /\ Goto("reserve", "retreat") /\ Conflict
  /\ journal' = Loaded /\ temp' = None
  /\ UNCHANGED <<config, reg, rows, meta, leaving, up, resources, todo, job, call, bounds>>

RenameJournal(from, to) ==
  /\ Goto(from, to)
  /\ journal' = temp /\ temp' = None
  /\ UNCHANGED <<config, reg, rows, meta, leaving, up, resources, todo, job, call, bounds>>

Reserved == [done |-> FALSE, gen |-> target, exact |-> TRUE, rid |-> resv.rid]

SaveReserved ==
  /\ Goto("save", "stop")
  /\ reg' = [r \in Projects |-> IF r \in resv.roots THEN Reserved ELSE None]
  /\ UNCHANGED <<config, journal, temp, rows, meta, leaving, up, resources, todo, job, call, bounds>>

\* saveRegistry throws: only a new journal is taken back.
SaveFails ==
  /\ Goto("save", "retreat") /\ Fault
  /\ journal' = IF resv.again THEN journal ELSE None
  /\ UNCHANGED <<config, reg, temp, rows, meta, leaving, up, resources, todo, job, call>>

\* throwIfPreDropCancelled
Cancelled == ~client

DestroyPool ==
  /\ Goto("stop", IF Cancelled THEN "undo" ELSE "close")
  /\ pool = "up" /\ pool' = "gone"
  /\ UNCHANGED <<disk, up, ready, gen, db, lease, todo, job, call, bounds>>

\* A worker has not exited in time.  The pool answers every later destroy with the same error.
DestroyFails ==
  /\ Goto("stop", "undo") /\ MayFail
  /\ \/ pool = "up" /\ Fault
     \/ pool = "stuck" /\ UNCHANGED bounds
  /\ pool' = "stuck"
  /\ UNCHANGED <<disk, up, ready, gen, db, lease, todo, job, call>>

CloseDb ==
  /\ Goto("close", IF Cancelled THEN "undo" ELSE "mark")
  /\ db' = "closed"
  /\ UNCHANGED <<disk, up, ready, gen, pool, lease, todo, job, call, bounds>>

CloseFails ==
  /\ Goto("close", "undo") /\ MayFail /\ Fault
  /\ db' = "broken"
  /\ UNCHANGED <<disk, up, ready, gen, pool, lease, todo, job, call>>

\* markProjectRebuildDropping
Mark ==
  /\ Goto("mark", "marking")
  /\ temp' = [Loaded EXCEPT !.dropping = TRUE] /\ journal' = Loaded
  /\ UNCHANGED <<config, reg, rows, meta, leaving, up, resources, todo, job, call, bounds>>

MarkFails == Goto("mark", "undo") /\ MayFail /\ Fault /\ UNCHANGED <<disk, up, resources, todo, job, call>>

NoRows == [r \in Projects |-> {}]

Drop ==
  /\ Goto("drop", "publish")
  /\ rows' = NoRows /\ client' = FALSE
  /\ UNCHANGED <<config, reg, journal, temp, meta, leaving, up, resources, todo, job, target, resv, left, failed, bounds>>

\* The call fails with the table dropped or not; a look at the table, which may fail too, decides.
DropFails ==
  /\ up /\ pc = "drop" /\ Fault
  /\ \E seen \in BOOLEAN :
        /\ rows' \in {rows, NoRows}
        /\ pc' = IF rows' = NoRows \/ ~seen THEN "lost" ELSE "undo"
        /\ pc' = "undo" => MayFail
  /\ client' = FALSE
  /\ UNCHANGED <<config, reg, journal, temp, meta, leaving, up, resources, todo, job, target, resv, left, failed>>

\* ensureTable, the new pool, publishResourceGeneration.
Publish ==
  /\ Goto("publish", "index")
  /\ gen' = target /\ pool' = "up" /\ db' = "open" /\ left' = resv.roots
  /\ UNCHANGED <<disk, up, ready, lease, todo, job, target, resv, failed, client, bounds>>

PublishFails == Goto("publish", "lost") /\ Fault /\ UNCHANGED <<disk, up, resources, todo, job, call>>

\* reindexOneProject with reset, under the expectation of the reservation; its entry, if it has not been
\* removed, names the target.
IndexNext(r) ==
  /\ up /\ pc = "index" /\ job = None /\ r \in left
  /\ CurrentGen(r)
  /\ Begin(r, "rebuild", None, <<target, resv.rid>>)
  /\ left' = left \ {r}
  /\ UNCHANGED <<disk, up, resources, todo, pc, target, resv, failed, client, bounds>>

StampNext ==
  /\ up /\ pc = "index" /\ job # None /\ job.synced /\ job' = None
  /\ IF Expected(job.root)
     THEN reg' = [reg EXCEPT ![job.root] = Stamped] /\ UNCHANGED failed
     ELSE failed' = TRUE /\ UNCHANGED reg
  /\ UNCHANGED <<config, journal, temp, rows, meta, leaving, up, resources, todo, pc, target, resv, left, client, bounds>>

\* A sync that fails or is degraded: the next project.
IndexFails ==
  /\ up /\ pc = "index" /\ job # None /\ ~job.synced /\ Fault
  /\ job' = None /\ failed' = TRUE
  /\ rows' \in {rows, [rows EXCEPT ![job.root] = {gen}]}
  /\ UNCHANGED <<config, reg, journal, temp, meta, leaving, up, resources, todo, pc, target, resv, left, client>>

\* The operation is aborted.
IndexAborted ==
  /\ Goto("index", "lost") /\ Fault /\ job' = None
  /\ UNCHANGED <<disk, up, resources, todo, call>>

Downgrade ==
  /\ Goto("index", "complete") /\ left = {} /\ job = None
  /\ lease' = "shared"
  /\ UNCHANGED <<disk, up, ready, gen, pool, db, todo, job, call, bounds>>

DowngradeFails == Goto("index", "lost") /\ left = {} /\ job = None /\ Fault /\ UNCHANGED <<disk, up, resources, todo, job, call>>

Remaining == \E r \in Projects : reg[r] # None /\ reg[r].rid = resv.rid

RemovesJournal == journal' = IF Loaded.rid = resv.rid THEN None ELSE Loaded

\* (No stamped project can keep the reservation, so the error of completeProjectRebuild is left out.)
\* completeProjectRebuild, unless a project failed: then the journal stays for another repair.
Complete ==
  /\ up /\ pc = "complete" /\ Return
  /\ IF failed THEN UNCHANGED <<journal, temp>>
     ELSE ~Remaining /\ RemovesJournal /\ temp' = None
  /\ UNCHANGED <<config, reg, rows, meta, leaving, up, resources, todo, job, bounds>>

\* A failure after the drop: the daemon stops, and the registry keeps what the rebuild has made of it.
Lost ==
  /\ Goto("lost", "down")
  /\ ready' = FALSE /\ gen' = target /\ lease' = "shared"
  /\ UNCHANGED <<disk, up, pool, db, todo, job, call, bounds>>

\* A failure before the drop: restoreProjectsAfterRebuild, registry first, then the journal.
Undo ==
  /\ Goto("undo", "undone") /\ ready' = FALSE
  /\ reg' = [r \in Projects |->
               IF reg[r] # None /\ reg[r].rid = resv.rid /\ resv.prev[r] # None THEN resv.prev[r] ELSE reg[r]]
  /\ UNCHANGED <<config, journal, temp, rows, meta, leaving, up, gen, pool, db, lease, todo, job, call, bounds>>

Undone ==
  /\ Goto("undone", "recover")
  /\ RemovesJournal /\ temp' = None
  /\ UNCHANGED <<config, reg, rows, meta, leaving, up, resources, todo, job, call, bounds>>

UndoFails == up /\ pc \in {"undo", "undone"} /\ Fault /\ FailClosed /\ UNCHANGED <<disk, up, todo, job>>

\* Mutant: the old pool is handed back although it is gone.
RecoverPoolKept == pool

\* The old resources again, or new ones in their place.
RecoverPool == IF pool = "stuck" THEN "stuck" ELSE "up"

Recover ==
  /\ up /\ pc = "recover" /\ db # "broken" /\ Return
  /\ ready' = TRUE /\ pool' = RecoverPool /\ db' = "open" /\ lease' = "shared"
  /\ UNCHANGED <<disk, up, gen, todo, job, bounds>>

\* A store that could not be closed cannot take its lease back.
RecoverFails ==
  /\ up /\ pc = "recover" /\ FailClosed
  /\ Fault \/ (db = "broken" /\ UNCHANGED bounds)
  /\ UNCHANGED <<disk, up, todo, job>>

-----------------------------------------------------------------------------
Work == SyncFile \/ Stamp \/ RemoveRows \/ RemoveMeta

Repair ==
  \/ Drained \/ Upgrade \/ Retreat \/ Reserve \/ ReserveConflict
  \/ RenameJournal("rename", "save") \/ SaveReserved
  \/ DestroyPool \/ CloseDb \/ Mark \/ RenameJournal("marking", "drop") \/ Drop \/ Publish
  \/ \E r \in Projects : IndexNext(r)
  \/ StampNext \/ Downgrade \/ Complete \/ Lost \/ Undo \/ Undone \/ Recover

Failure ==
  \/ Crash \/ Disconnect \/ SyncFails \/ Refused \/ UpgradeFails \/ RetreatFails \/ SaveFails
  \/ DestroyFails \/ CloseFails \/ MarkFails \/ DropFails \/ PublishFails
  \/ IndexFails \/ IndexAborted \/ DowngradeFails \/ UndoFails \/ RecoverFails

Next ==
  \/ ChangeConfig \/ StartDaemon \/ Shutdown \/ RequestRepair
  \/ \E r \in Projects :
        Unregister(r) \/ StartIndex(r) \/ StartPending(r) \/ SkipPending(r) \/ StartEnsure(r) \/ StartRemove(r)
  \/ Work \/ Repair \/ Failure

RebuildSpec == Init /\ [][Next]_rebuildVars

\* A program that has not died goes on.  (Operations of a project and steps of a repair are never enabled
\* together.)
GoesOn ==
  \/ StartDaemon \/ (pc = "down" /\ Shutdown)
  \/ Work \/ SyncFails
  \/ Repair \/ DestroyFails \/ UpgradeFails \/ RecoverFails

\* The user repeats the repair, which starts the daemon, as long as it is unfinished.
RebuildFairSpec ==
  /\ RebuildSpec
  /\ WF_rebuildVars(GoesOn)
  /\ SF_rebuildVars(Unfinished /\ RequestRepair)

-----------------------------------------------------------------------------
\* A project listed as indexed has the vectors of the generation its entry names, and no others, so that
\* a search compares vectors of one model: through syncs, restarts with another configuration, and a
\* rebuild that stops anywhere.  It may have none once its removal has begun.
IndexedIsBuilt ==
  \A r \in Projects :
     Indexed(r) => rows[r] = {reg[r].gen} \/ (rows[r] = {} /\ r \in leaving)

\* A daemon that answers requests after a repair, however it ended, has a store it may use beside
\* others and a worker pool; one that could not be destroyed counts, although it serves nobody.
ReadyIsWhole == up /\ ready /\ pc = "idle" => pool # "gone" /\ db = "open" /\ lease = "shared"

\* A rebuild that died is finished by the repairs that follow, if the configuration still names its
\* target: no journal and no reservation is left that every repair refuses.
RebuildSettles == Unfinished ~> ~Unfinished \/ (Loaded # None /\ Loaded.target # config)
=============================================================================
