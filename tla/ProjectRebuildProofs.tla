------------------------- MODULE ProjectRebuildProofs -------------------------
(***************************************************************************)
(* The switch of the embedding generation, for any number of projects,     *)
(* generations and faults.  The first invariant types the registry, the    *)
(* journal and the reservation and follows the resources of the daemon; it *)
(* makes a daemon that answers after a repair whole.  The second follows   *)
(* the rows through a sync and through a rebuild up to its drop; it makes  *)
(* an indexed project's vectors those of the generation its entry names.   *)
(***************************************************************************)
EXTENDS ProjectRebuild, TLAPS

Slots == Entry \cup {None}
Journals == [rid : Ids, target : Gens, prev : [Projects -> Slots], dropping : BOOLEAN]
Reservations == [rid : Ids, prev : [Projects -> Slots], roots : SUBSET Projects, again : BOOLEAN]
Syncs == {"index", "reset", "pending", "ensure", "rebuild"}
Jobs == [root : Projects, kind : Syncs \cup {"remove"}, prev : Slots,
         expected : (Gens \cup {None}) \X (Ids \cup {None}), synced : BOOLEAN]

\* Places of a repair: before its reservation, with the old resources, and after its drop.
Asking == {"drain", "lease", "reserve", "retreat"}
Reserving == {"rename", "save"}
Before == {"stop", "close", "mark", "marking", "drop", "undo"}
Later == {"publish", "index", "complete", "lost", "undone", "recover"}

\* What is stored and remembered has its shape.
Typed ==
  /\ config \in Gens /\ gen \in Gens
  /\ reg \in [Projects -> Slots] /\ rows \in [Projects -> SUBSET Gens]
  /\ journal # None => journal \in Journals
  /\ temp # None => temp \in Journals
  /\ job # None => job \in Jobs
  /\ pool \in {"up", "gone", "stuck"}

\* A repair has a target, then a journal and a reservation, and works alone
\* until it indexes.
Placed ==
  /\ pc \in Asking \cup Reserving \cup Before \cup Later \cup {"idle", "down"}
  /\ ~up => pc = "idle" /\ job = None
  /\ job # None => (pc = "idle" /\ job.kind # "rebuild") \/ (pc = "index" /\ job.kind = "rebuild")
  /\ pc \notin {"idle", "down"} => target \in Gens
  /\ pc \in Reserving \cup Before \cup Later => resv \in Reservations
  /\ pc \in {"rename", "marking"} => temp \in Journals
  /\ pc \in {"save", "stop", "close", "mark"} => temp = None /\ journal \in Journals

\* The resources of the daemon, from request to answer.
Whole ==
  /\ ready /\ pc \in {"idle", "drain", "lease"} /\ up => pool # "gone" /\ db = "open" /\ lease = "shared"
  /\ pc \in {"reserve", "retreat", "rename", "save", "index", "complete"} => pool # "gone" /\ db = "open"
  /\ pc \in {"drain", "lease"} => ready
  /\ pc = "complete" => lease = "shared"

RebuildInv == Typed /\ Placed /\ Whole

\* A sync works on an entry of the active generation, on rows it does not mix with others.
SyncIsCurrent ==
  job # None =>
    /\ job.kind \in Syncs =>
         /\ reg[job.root] # None => reg[job.root].gen = gen
         /\ job.synced => rows[job.root] = {gen}
         /\ job.kind \in {"index", "pending", "ensure"} => rows[job.root] \subseteq {gen}
    /\ job.kind = "ensure" => job.prev = None \/ ~job.prev.done
    /\ job.kind = "remove" => job.root \in leaving \/ reg[job.root] = None

\* Before the drop nothing is listed as indexed, and a new rebuild can still put back what was.
CanRestore ==
  /\ pc \in Before => \A r \in Projects : ~Indexed(r)
  /\ pc \in Reserving => \A r \in resv.roots : reg[r] # None
  /\ pc = "reserve" /\ Loaded # None => client
  /\ pc \in Reserving \cup Before /\ resv.again => client /\ pc # "undo"
  /\ pc \in Reserving \cup Before /\ ~resv.again =>
       \A r \in Projects :
         LET e == resv.prev[r] IN
         reg[r] # None /\ e # None /\ e.done => rows[r] = {e.gen} \/ (rows[r] = {} /\ r \in leaving)

BuiltInv == SyncIsCurrent /\ CanRestore /\ IndexedIsBuilt

-----------------------------------------------------------------------------
(* Types and resources *)

\* What is found, looked up and written has its shape.
LEMMA Shapes ==
  ASSUME RebuildInv
  PROVE  /\ Loaded # None => Loaded \in Journals
         /\ \A r \in Projects : reg[r] # None => reg[r] \in Entry
         /\ \A r \in Projects : Recorded(reg[r]) \in (Gens \cup {None}) \X (Ids \cup {None})
         /\ \A r \in Projects : Previous(r) \in Slots
  BY DEF RebuildInv, Typed, Loaded, Recorded, Slots, Entry, Previous, Journals

\* The entries that are written.
LEMMA EntryShapes ==
  ASSUME NEW g \in Gens
  PROVE  /\ [done |-> TRUE, gen |-> g, exact |-> TRUE, rid |-> None] \in Slots
         /\ [done |-> FALSE, gen |-> g, exact |-> FALSE, rid |-> None] \in Slots
         /\ \A i \in Ids : [done |-> FALSE, gen |-> g, exact |-> TRUE, rid |-> i] \in Slots
         /\ None \in Slots
  BY DEF Slots, Entry

\* The registry with one entry replaced.
LEMMA RegistryShape ==
  ASSUME Typed, NEW r \in Projects, NEW e \in Slots
  PROVE  [reg EXCEPT ![r] = e] \in [Projects -> Slots]
  BY DEF Typed

\* The operations that begin and go on.
LEMMA BeginShape ==
  ASSUME NEW r \in Projects, NEW k \in Syncs \cup {"remove"}, NEW e \in Slots,
         NEW x \in (Gens \cup {None}) \X (Ids \cup {None}), Begin(r, k, e, x)
  PROVE  job' \in Jobs
  BY DEF Begin, Jobs

LEMMA SyncedShape ==
  ASSUME NEW j \in Jobs
  PROVE  [j EXCEPT !.synced = TRUE] \in Jobs /\ j.prev \in Slots /\ j.root \in Projects
  BY DEF Jobs

\* A rebuild that resumes none finds an identity.
LEMMA NewIdIsId ==
  ASSUME RebuildInv, \A r \in Projects : reg[r] # None => reg[r].rid = None
  PROVE  NewId \in Ids
<1>1. \E id \in Ids : \A r \in Projects : reg[r] # None => reg[r].rid # id
  BY RebuildAssumption
<1>. QED BY <1>1 DEF NewId

\* A reservation, and the journal that holds it.
LEMMA ReserveShapes ==
  ASSUME RebuildInv, Reserve
  PROVE  resv' \in Reservations /\ temp' \in Journals
<1>. DEFINE rid == IF Loaded # None THEN Loaded.rid ELSE NewId
            prev == [r \in Projects |-> Previous(r)]
<1>1. rid \in Ids
  <2>1. CASE Loaded # None
    BY <2>1, Shapes DEF Journals
  <2>2. CASE Loaded = None
    BY <2>2, NewIdIsId DEF Reserve, Conflict
  <2>. QED BY <2>1, <2>2
<1>2. prev \in [Projects -> Slots]
  BY Shapes
<1>3. target \in Gens
  BY DEF RebuildInv, Placed, Reserve, Goto
<1>4. resv' = [rid |-> rid, prev |-> prev, roots |-> {r \in Projects : reg[r] # None}, again |-> Loaded # None]
  BY DEF Reserve
<1>5. resv' \in Reservations
  <2>. HIDE DEF rid, prev
  <2>. QED BY <1>1, <1>2, <1>4 DEF Reservations
<1>6. temp' = [rid |-> rid, target |-> target, prev |-> prev, dropping |-> Loaded # None /\ Loaded.dropping]
  BY <1>4 DEF Reserve
<1>7. temp' \in Journals
  <2>1. (Loaded # None /\ Loaded.dropping) \in BOOLEAN
    BY Shapes DEF Journals
  <2>. HIDE DEF rid, prev
  <2>. QED BY <1>1, <1>2, <1>3, <1>6, <2>1 DEF Journals
<1>. QED BY <1>5, <1>7

\* The journal marked.
LEMMA MarkShape ==
  ASSUME RebuildInv, Mark
  PROVE  journal' \in Journals /\ temp' \in Journals
<1>1. Loaded \in Journals /\ temp' = [Loaded EXCEPT !.dropping = TRUE] /\ journal' = Loaded
  BY DEF Loaded, Mark, Goto, RebuildInv, Placed
<1>. QED BY <1>1 DEF Journals

\* From here on the sets of places and of kinds of operations stand for their elements.
USE DEF Asking, Reserving, Before, Later, Syncs

\* The user and the life of the daemon.
LEMMA LifeServe ==
  ASSUME RebuildInv,
         ChangeConfig \/ StartDaemon \/ Crash \/ Shutdown
  PROVE  RebuildInv'
<1>. USE RebuildAssumption DEF RebuildInv, Typed, Placed, Whole, disk, resources, call, bounds
<1>1. CASE ChangeConfig
  <2>1. Typed'
    BY <1>1 DEF ChangeConfig
  <2>2. Placed'
    BY <1>1 DEF ChangeConfig
  <2>3. Whole'
    BY <1>1 DEF ChangeConfig
  <2>. QED BY <2>1, <2>2, <2>3
<1>2. CASE StartDaemon
  <2>1. Typed'
    BY <1>2 DEF StartDaemon
  <2>2. Placed'
    BY <1>2 DEF StartDaemon
  <2>3. Whole'
    BY <1>2 DEF StartDaemon
  <2>. QED BY <2>1, <2>2, <2>3
<1>3. CASE Crash
  <2>1. Typed'
    BY <1>3 DEF Crash, Fault, Forget
  <2>2. Placed'
    BY <1>3 DEF Crash, Fault, Forget
  <2>3. Whole'
    BY <1>3 DEF Crash, Fault, Forget
  <2>. QED BY <2>1, <2>2, <2>3
<1>4. CASE Shutdown
  <2>1. Typed'
    BY <1>4 DEF Shutdown, Forget
  <2>2. Placed'
    BY <1>4 DEF Shutdown, Forget
  <2>3. Whole'
    BY <1>4 DEF Shutdown, Forget
  <2>. QED BY <2>1, <2>2, <2>3
<1>. QED BY <1>1, <1>2, <1>3, <1>4

\* An operation on a project starts, or the project leaves the registry.
LEMMA EntriesServe ==
  ASSUME RebuildInv,
         NEW r \in Projects, Unregister(r) \/ StartIndex(r) \/ StartPending(r) \/ SkipPending(r) \/ StartEnsure(r)
         \/ StartRemove(r)
  PROVE  RebuildInv'
<1>. USE RebuildAssumption DEF RebuildInv, Typed, Placed, Whole, disk, resources, call, bounds
<1>1. CASE Unregister(r)
  <2>1. Typed'
    <3>1. job' # None => job' \in Jobs
      BY <1>1, Shapes, EntryShapes, BeginShape, SyncedShape DEF Unregister, RegistryLocked
    <3>2. reg' \in [Projects -> Slots]
      BY <1>1, Shapes, EntryShapes, RegistryShape, SyncedShape DEF Unregister, RegistryLocked
    <3>3. rows' \in [Projects -> SUBSET Gens]
      BY <1>1 DEF Unregister, RegistryLocked
    <3>4. (journal' # None => journal' \in Journals) /\ (temp' # None => temp' \in Journals)
      BY <1>1, Shapes DEF Unregister, RegistryLocked
    <3>. QED BY <1>1, <3>1, <3>2, <3>3, <3>4 DEF Unregister, RegistryLocked
  <2>2. Placed'
    BY <1>1 DEF Unregister, RegistryLocked
  <2>3. Whole'
    BY <1>1 DEF Unregister, RegistryLocked
  <2>. QED BY <2>1, <2>2, <2>3
<1>2. CASE StartIndex(r)
  <2>1. Typed'
    <3>1. job' # None => job' \in Jobs
      BY <1>2, Shapes, EntryShapes, BeginShape, SyncedShape DEF StartIndex, Admitted, Hides, Indexed, CurrentGen, Stale
    <3>2. reg' \in [Projects -> Slots]
      BY <1>2, Shapes, EntryShapes, RegistryShape, SyncedShape DEF StartIndex, Admitted, Hides, Indexed, Begin, CurrentGen, Stale
    <3>3. rows' \in [Projects -> SUBSET Gens]
      BY <1>2 DEF StartIndex, Admitted, Hides, Indexed, Begin, CurrentGen, Stale
    <3>4. (journal' # None => journal' \in Journals) /\ (temp' # None => temp' \in Journals)
      BY <1>2, Shapes DEF StartIndex, Admitted, Hides, Indexed, Begin, CurrentGen, Stale
    <3>. QED BY <1>2, <3>1, <3>2, <3>3, <3>4 DEF StartIndex, Admitted, Hides, Indexed, Begin, CurrentGen, Stale
  <2>2. Placed'
    BY <1>2 DEF StartIndex, Admitted, Hides, Indexed, Begin, CurrentGen, Stale
  <2>3. Whole'
    BY <1>2 DEF StartIndex, Admitted, Hides, Indexed, Begin, CurrentGen, Stale
  <2>. QED BY <2>1, <2>2, <2>3
<1>3. CASE StartPending(r)
  <2>1. Typed'
    <3>1. job' # None => job' \in Jobs
      BY <1>3, Shapes, EntryShapes, BeginShape, SyncedShape DEF StartPending, Admitted, Hides, Indexed, CurrentGen, Stale
    <3>2. reg' \in [Projects -> Slots]
      BY <1>3, Shapes, EntryShapes, RegistryShape, SyncedShape DEF StartPending, Admitted, Hides, Indexed, Begin, CurrentGen, Stale
    <3>3. rows' \in [Projects -> SUBSET Gens]
      BY <1>3 DEF StartPending, Admitted, Hides, Indexed, Begin, CurrentGen, Stale
    <3>4. (journal' # None => journal' \in Journals) /\ (temp' # None => temp' \in Journals)
      BY <1>3, Shapes DEF StartPending, Admitted, Hides, Indexed, Begin, CurrentGen, Stale
    <3>. QED BY <1>3, <3>1, <3>2, <3>3, <3>4 DEF StartPending, Admitted, Hides, Indexed, Begin, CurrentGen, Stale
  <2>2. Placed'
    BY <1>3 DEF StartPending, Admitted, Hides, Indexed, Begin, CurrentGen, Stale
  <2>3. Whole'
    BY <1>3 DEF StartPending, Admitted, Hides, Indexed, Begin, CurrentGen, Stale
  <2>. QED BY <2>1, <2>2, <2>3
<1>4. CASE SkipPending(r)
  <2>1. Typed'
    BY <1>4 DEF SkipPending
  <2>2. Placed'
    BY <1>4 DEF SkipPending
  <2>3. Whole'
    BY <1>4 DEF SkipPending
  <2>. QED BY <2>1, <2>2, <2>3
<1>5. CASE StartEnsure(r)
  <2>1. Typed'
    <3>1. job' # None => job' \in Jobs
      BY <1>5, Shapes, EntryShapes, BeginShape, SyncedShape DEF StartEnsure, Admitted, Hides, Indexed
    <3>2. reg' \in [Projects -> Slots]
      BY <1>5, Shapes, EntryShapes, RegistryShape, SyncedShape DEF StartEnsure, Admitted, Hides, Indexed, Begin
    <3>3. rows' \in [Projects -> SUBSET Gens]
      BY <1>5 DEF StartEnsure, Admitted, Hides, Indexed, Begin
    <3>4. (journal' # None => journal' \in Journals) /\ (temp' # None => temp' \in Journals)
      BY <1>5, Shapes DEF StartEnsure, Admitted, Hides, Indexed, Begin
    <3>. QED BY <1>5, <3>1, <3>2, <3>3, <3>4 DEF StartEnsure, Admitted, Hides, Indexed, Begin
  <2>2. Placed'
    BY <1>5 DEF StartEnsure, Admitted, Hides, Indexed, Begin
  <2>3. Whole'
    BY <1>5 DEF StartEnsure, Admitted, Hides, Indexed, Begin
  <2>. QED BY <2>1, <2>2, <2>3
<1>6. CASE StartRemove(r)
  <2>1. Typed'
    <3>1. job' # None => job' \in Jobs
      BY <1>6, Shapes, EntryShapes, BeginShape, SyncedShape DEF StartRemove, Admitted
    <3>2. reg' \in [Projects -> Slots]
      BY <1>6, Shapes, EntryShapes, RegistryShape, SyncedShape DEF StartRemove, Admitted, Begin
    <3>3. rows' \in [Projects -> SUBSET Gens]
      BY <1>6 DEF StartRemove, Admitted, Begin
    <3>4. (journal' # None => journal' \in Journals) /\ (temp' # None => temp' \in Journals)
      BY <1>6, Shapes DEF StartRemove, Admitted, Begin
    <3>. QED BY <1>6, <3>1, <3>2, <3>3, <3>4 DEF StartRemove, Admitted, Begin
  <2>2. Placed'
    BY <1>6 DEF StartRemove, Admitted, Begin
  <2>3. Whole'
    BY <1>6 DEF StartRemove, Admitted, Begin
  <2>. QED BY <2>1, <2>2, <2>3
<1>. QED BY <1>1, <1>2, <1>3, <1>4, <1>5, <1>6

\* An operation on a project goes on.
LEMMA SyncsServe ==
  ASSUME RebuildInv,
         SyncFile \/ Stamp \/ SyncFails \/ RemoveRows \/ RemoveMeta
  PROVE  RebuildInv'
<1>. USE RebuildAssumption DEF RebuildInv, Typed, Placed, Whole, disk, resources, call, bounds
<1>1. CASE SyncFile
  <2>1. Typed'
    <3>1. job' # None => job' \in Jobs
      BY <1>1, Shapes, EntryShapes, BeginShape, SyncedShape DEF SyncFile, Syncing, Skipped, Cached
    <3>2. reg' \in [Projects -> Slots]
      BY <1>1, Shapes, EntryShapes, RegistryShape, SyncedShape DEF SyncFile, Syncing, Skipped, Cached
    <3>3. rows' \in [Projects -> SUBSET Gens]
      BY <1>1 DEF SyncFile, Syncing, Skipped, Cached
    <3>4. (journal' # None => journal' \in Journals) /\ (temp' # None => temp' \in Journals)
      BY <1>1, Shapes DEF SyncFile, Syncing, Skipped, Cached
    <3>. QED BY <1>1, <3>1, <3>2, <3>3, <3>4 DEF SyncFile, Syncing, Skipped, Cached
  <2>2. Placed'
    BY <1>1 DEF SyncFile, Syncing, Skipped, Cached
  <2>3. Whole'
    BY <1>1 DEF SyncFile, Syncing, Skipped, Cached
  <2>. QED BY <2>1, <2>2, <2>3
<1>2. CASE Stamp
  <2>1. Typed'
    <3>1. job' # None => job' \in Jobs
      BY <1>2, Shapes, EntryShapes, BeginShape, SyncedShape DEF Stamp, Stamped, Expected
    <3>2. reg' \in [Projects -> Slots]
      BY <1>2, Shapes, EntryShapes, RegistryShape, SyncedShape DEF Stamp, Stamped, Expected
    <3>3. rows' \in [Projects -> SUBSET Gens]
      BY <1>2 DEF Stamp, Stamped, Expected
    <3>4. (journal' # None => journal' \in Journals) /\ (temp' # None => temp' \in Journals)
      BY <1>2, Shapes DEF Stamp, Stamped, Expected
    <3>. QED BY <1>2, <3>1, <3>2, <3>3, <3>4 DEF Stamp, Stamped, Expected
  <2>2. Placed'
    BY <1>2 DEF Stamp, Stamped, Expected
  <2>3. Whole'
    BY <1>2 DEF Stamp, Stamped, Expected
  <2>. QED BY <2>1, <2>2, <2>3
<1>3. CASE SyncFails
  <2>1. Typed'
    <3>1. job' # None => job' \in Jobs
      BY <1>3, Shapes, EntryShapes, BeginShape, SyncedShape DEF SyncFails, Syncing, Skipped, Cached, Fault
    <3>2. reg' \in [Projects -> Slots]
      BY <1>3, Shapes, EntryShapes, RegistryShape, SyncedShape DEF SyncFails, Syncing, Skipped, Cached, Fault
    <3>3. rows' \in [Projects -> SUBSET Gens]
      BY <1>3 DEF SyncFails, Syncing, Skipped, Cached, Fault
    <3>4. (journal' # None => journal' \in Journals) /\ (temp' # None => temp' \in Journals)
      BY <1>3, Shapes DEF SyncFails, Syncing, Skipped, Cached, Fault
    <3>. QED BY <1>3, <3>1, <3>2, <3>3, <3>4 DEF SyncFails, Syncing, Skipped, Cached, Fault
  <2>2. Placed'
    BY <1>3 DEF SyncFails, Syncing, Skipped, Cached, Fault
  <2>3. Whole'
    BY <1>3 DEF SyncFails, Syncing, Skipped, Cached, Fault
  <2>. QED BY <2>1, <2>2, <2>3
<1>4. CASE RemoveRows
  <2>1. Typed'
    <3>1. job' # None => job' \in Jobs
      BY <1>4, Shapes, EntryShapes, BeginShape, SyncedShape DEF RemoveRows
    <3>2. reg' \in [Projects -> Slots]
      BY <1>4, Shapes, EntryShapes, RegistryShape, SyncedShape DEF RemoveRows
    <3>3. rows' \in [Projects -> SUBSET Gens]
      BY <1>4 DEF RemoveRows
    <3>4. (journal' # None => journal' \in Journals) /\ (temp' # None => temp' \in Journals)
      BY <1>4, Shapes DEF RemoveRows
    <3>. QED BY <1>4, <3>1, <3>2, <3>3, <3>4 DEF RemoveRows
  <2>2. Placed'
    BY <1>4 DEF RemoveRows
  <2>3. Whole'
    BY <1>4 DEF RemoveRows
  <2>. QED BY <2>1, <2>2, <2>3
<1>5. CASE RemoveMeta
  <2>1. Typed'
    BY <1>5 DEF RemoveMeta
  <2>2. Placed'
    BY <1>5 DEF RemoveMeta
  <2>3. Whole'
    BY <1>5 DEF RemoveMeta
  <2>. QED BY <2>1, <2>2, <2>3
<1>. QED BY <1>1, <1>2, <1>3, <1>4, <1>5

\* A repair asks for the store and is given it, or not.
LEMMA AskingServe ==
  ASSUME RebuildInv,
         RequestRepair \/ Disconnect \/ Drained \/ Refused \/ Upgrade \/ UpgradeFails \/
         Retreat \/ RetreatFails
  PROVE  RebuildInv'
<1>. USE RebuildAssumption DEF RebuildInv, Typed, Placed, Whole, disk, resources, call, bounds
<1>1. CASE RequestRepair
  <2>1. Typed'
    BY <1>1 DEF RequestRepair
  <2>2. Placed'
    BY <1>1 DEF RequestRepair
  <2>3. Whole'
    BY <1>1 DEF RequestRepair
  <2>. QED BY <2>1, <2>2, <2>3
<1>2. CASE Disconnect
  <2>1. Typed'
    BY <1>2 DEF Disconnect, Fault, MayFail
  <2>2. Placed'
    BY <1>2 DEF Disconnect, Fault, MayFail
  <2>3. Whole'
    BY <1>2 DEF Disconnect, Fault, MayFail
  <2>. QED BY <2>1, <2>2, <2>3
<1>3. CASE Drained
  <2>1. Typed'
    BY <1>3 DEF Drained, Goto
  <2>2. Placed'
    BY <1>3 DEF Drained, Goto
  <2>3. Whole'
    BY <1>3 DEF Drained, Goto
  <2>. QED BY <2>1, <2>2, <2>3
<1>4. CASE Refused
  <2>1. Typed'
    BY <1>4 DEF Refused, Fault, Return
  <2>2. Placed'
    BY <1>4 DEF Refused, Fault, Return
  <2>3. Whole'
    BY <1>4 DEF Refused, Fault, Return
  <2>. QED BY <2>1, <2>2, <2>3
<1>5. CASE Upgrade
  <2>1. Typed'
    BY <1>5 DEF Upgrade, Goto
  <2>2. Placed'
    BY <1>5 DEF Upgrade, Goto
  <2>3. Whole'
    BY <1>5 DEF Upgrade, Goto
  <2>. QED BY <2>1, <2>2, <2>3
<1>6. CASE UpgradeFails
  <2>1. Typed'
    BY <1>6 DEF UpgradeFails, Fault, Return
  <2>2. Placed'
    BY <1>6 DEF UpgradeFails, Fault, Return
  <2>3. Whole'
    BY <1>6 DEF UpgradeFails, Fault, Return
  <2>. QED BY <2>1, <2>2, <2>3
<1>7. CASE Retreat
  <2>1. Typed'
    BY <1>7 DEF Retreat, Return
  <2>2. Placed'
    BY <1>7 DEF Retreat, Return
  <2>3. Whole'
    BY <1>7 DEF Retreat, Return
  <2>. QED BY <2>1, <2>2, <2>3
<1>8. CASE RetreatFails
  <2>1. Typed'
    BY <1>8 DEF RetreatFails, Fault, FailClosed
  <2>2. Placed'
    BY <1>8 DEF RetreatFails, Fault, FailClosed
  <2>3. Whole'
    BY <1>8 DEF RetreatFails, Fault, FailClosed
  <2>. QED BY <2>1, <2>2, <2>3
<1>. QED BY <1>1, <1>2, <1>3, <1>4, <1>5, <1>6, <1>7, <1>8

\* The projects are reserved, journal first.
LEMMA ReservingServe ==
  ASSUME RebuildInv,
         Reserve \/ ReserveConflict \/ RenameJournal("rename", "save") \/ SaveReserved \/
         SaveFails
  PROVE  RebuildInv'
<1>. USE RebuildAssumption DEF RebuildInv, Typed, Placed, Whole, disk, resources, call, bounds
<1>1. CASE Reserve
  <2>1. Typed'
    <3>1. job' # None => job' \in Jobs
      BY <1>1, Shapes, EntryShapes, BeginShape, SyncedShape DEF Reserve, Goto, Conflict, Previous
    <3>2. reg' \in [Projects -> Slots]
      BY <1>1, Shapes, EntryShapes, RegistryShape, SyncedShape DEF Reserve, Goto, Conflict, Previous
    <3>3. rows' \in [Projects -> SUBSET Gens]
      BY <1>1 DEF Reserve, Goto, Conflict, Previous
    <3>4. (journal' # None => journal' \in Journals) /\ (temp' # None => temp' \in Journals)
      BY <1>1, Shapes, ReserveShapes DEF Reserve
    <3>. QED BY <1>1, <3>1, <3>2, <3>3, <3>4 DEF Reserve, Goto, Conflict, Previous
  <2>2. Placed'
    BY <1>1, ReserveShapes DEF Reserve, Goto
  <2>3. Whole'
    BY <1>1 DEF Reserve, Goto, Conflict, Previous
  <2>. QED BY <2>1, <2>2, <2>3
<1>2. CASE ReserveConflict
  <2>1. Typed'
    <3>1. job' # None => job' \in Jobs
      BY <1>2, Shapes, EntryShapes, BeginShape, SyncedShape DEF ReserveConflict, Goto
    <3>2. reg' \in [Projects -> Slots]
      BY <1>2, Shapes, EntryShapes, RegistryShape, SyncedShape DEF ReserveConflict, Goto
    <3>3. rows' \in [Projects -> SUBSET Gens]
      BY <1>2 DEF ReserveConflict, Goto
    <3>4. (journal' # None => journal' \in Journals) /\ (temp' # None => temp' \in Journals)
      BY <1>2, Shapes DEF ReserveConflict, Goto
    <3>. QED BY <1>2, <3>1, <3>2, <3>3, <3>4 DEF ReserveConflict, Goto
  <2>2. Placed'
    BY <1>2 DEF ReserveConflict, Goto
  <2>3. Whole'
    BY <1>2 DEF ReserveConflict, Goto
  <2>. QED BY <2>1, <2>2, <2>3
<1>3. CASE RenameJournal("rename", "save")
  <2>1. Typed'
    BY <1>3 DEF RenameJournal, Goto
  <2>2. Placed'
    BY <1>3 DEF RenameJournal, Goto
  <2>3. Whole'
    BY <1>3 DEF RenameJournal, Goto
  <2>. QED BY <2>1, <2>2, <2>3
<1>4. CASE SaveReserved
  <2>1. Typed'
    <3>1. job' # None => job' \in Jobs
      BY <1>4, Shapes, EntryShapes, BeginShape, SyncedShape DEF SaveReserved, Goto, Reserved
    <3>2. reg' \in [Projects -> Slots]
      BY <1>4, EntryShapes DEF SaveReserved, Goto, Reserved, Reservations
    <3>3. rows' \in [Projects -> SUBSET Gens]
      BY <1>4 DEF SaveReserved, Goto, Reserved
    <3>4. (journal' # None => journal' \in Journals) /\ (temp' # None => temp' \in Journals)
      BY <1>4, Shapes DEF SaveReserved, Goto, Reserved
    <3>. QED BY <1>4, <3>1, <3>2, <3>3, <3>4 DEF SaveReserved, Goto, Reserved
  <2>2. Placed'
    BY <1>4 DEF SaveReserved, Goto, Reserved
  <2>3. Whole'
    BY <1>4 DEF SaveReserved, Goto, Reserved
  <2>. QED BY <2>1, <2>2, <2>3
<1>5. CASE SaveFails
  <2>1. Typed'
    BY <1>5 DEF SaveFails, Goto, Fault
  <2>2. Placed'
    BY <1>5 DEF SaveFails, Goto, Fault
  <2>3. Whole'
    BY <1>5 DEF SaveFails, Goto, Fault
  <2>. QED BY <2>1, <2>2, <2>3
<1>. QED BY <1>1, <1>2, <1>3, <1>4, <1>5

\* The old resources are given up and the table is dropped.
LEMMA DroppingServe ==
  ASSUME RebuildInv,
         DestroyPool \/ DestroyFails \/ CloseDb \/ CloseFails \/ Mark \/ MarkFails \/
         RenameJournal("marking", "drop") \/ Drop \/ DropFails
  PROVE  RebuildInv'
<1>. USE RebuildAssumption DEF RebuildInv, Typed, Placed, Whole, disk, resources, call, bounds
<1>1. CASE DestroyPool
  <2>1. Typed'
    BY <1>1 DEF DestroyPool, Goto, Cancelled
  <2>2. Placed'
    BY <1>1 DEF DestroyPool, Goto, Cancelled
  <2>3. Whole'
    BY <1>1 DEF DestroyPool, Goto, Cancelled
  <2>. QED BY <2>1, <2>2, <2>3
<1>2. CASE DestroyFails
  <2>1. Typed'
    BY <1>2 DEF DestroyFails, Goto, MayFail, Fault
  <2>2. Placed'
    BY <1>2 DEF DestroyFails, Goto, MayFail, Fault
  <2>3. Whole'
    BY <1>2 DEF DestroyFails, Goto, MayFail, Fault
  <2>. QED BY <2>1, <2>2, <2>3
<1>3. CASE CloseDb
  <2>1. Typed'
    BY <1>3 DEF CloseDb, Goto, Cancelled
  <2>2. Placed'
    BY <1>3 DEF CloseDb, Goto, Cancelled
  <2>3. Whole'
    BY <1>3 DEF CloseDb, Goto, Cancelled
  <2>. QED BY <2>1, <2>2, <2>3
<1>4. CASE CloseFails
  <2>1. Typed'
    BY <1>4 DEF CloseFails, Goto, MayFail, Fault
  <2>2. Placed'
    BY <1>4 DEF CloseFails, Goto, MayFail, Fault
  <2>3. Whole'
    BY <1>4 DEF CloseFails, Goto, MayFail, Fault
  <2>. QED BY <2>1, <2>2, <2>3
<1>5. CASE Mark
  <2>1. Typed'
    <3>1. job' # None => job' \in Jobs
      BY <1>5, Shapes, EntryShapes, BeginShape, SyncedShape DEF Mark, Goto
    <3>2. reg' \in [Projects -> Slots]
      BY <1>5, Shapes, EntryShapes, RegistryShape, SyncedShape DEF Mark, Goto
    <3>3. rows' \in [Projects -> SUBSET Gens]
      BY <1>5 DEF Mark, Goto
    <3>4. (journal' # None => journal' \in Journals) /\ (temp' # None => temp' \in Journals)
      BY <1>5, MarkShape DEF Mark
    <3>. QED BY <1>5, <3>1, <3>2, <3>3, <3>4 DEF Mark, Goto
  <2>2. Placed'
    BY <1>5, MarkShape DEF Mark, Goto
  <2>3. Whole'
    BY <1>5 DEF Mark, Goto
  <2>. QED BY <2>1, <2>2, <2>3
<1>6. CASE MarkFails
  <2>1. Typed'
    BY <1>6 DEF MarkFails, Goto, MayFail, Fault
  <2>2. Placed'
    BY <1>6 DEF MarkFails, Goto, MayFail, Fault
  <2>3. Whole'
    BY <1>6 DEF MarkFails, Goto, MayFail, Fault
  <2>. QED BY <2>1, <2>2, <2>3
<1>7. CASE RenameJournal("marking", "drop")
  <2>1. Typed'
    BY <1>7 DEF RenameJournal, Goto
  <2>2. Placed'
    BY <1>7 DEF RenameJournal, Goto
  <2>3. Whole'
    BY <1>7 DEF RenameJournal, Goto
  <2>. QED BY <2>1, <2>2, <2>3
<1>8. CASE Drop
  <2>1. Typed'
    BY <1>8 DEF Drop, Goto, NoRows
  <2>2. Placed'
    BY <1>8 DEF Drop, Goto, NoRows
  <2>3. Whole'
    BY <1>8 DEF Drop, Goto, NoRows
  <2>. QED BY <2>1, <2>2, <2>3
<1>9. CASE DropFails
  <2>1. Typed'
    BY <1>9 DEF DropFails, Fault, NoRows, MayFail
  <2>2. Placed'
    BY <1>9 DEF DropFails, Fault, NoRows, MayFail
  <2>3. Whole'
    BY <1>9 DEF DropFails, Fault, NoRows, MayFail
  <2>. QED BY <2>1, <2>2, <2>3
<1>. QED BY <1>1, <1>2, <1>3, <1>4, <1>5, <1>6, <1>7, <1>8, <1>9

\* The projects are indexed again.
LEMMA IndexingServe ==
  ASSUME RebuildInv,
         Publish \/ PublishFails \/ StampNext \/ IndexFails \/ IndexAborted \/ Downgrade \/
         DowngradeFails \/ Complete \/ Lost \/ \E r \in Projects : IndexNext(r)
  PROVE  RebuildInv'
<1>. USE RebuildAssumption DEF RebuildInv, Typed, Placed, Whole, disk, resources, call, bounds
<1>1. CASE Publish
  <2>1. Typed'
    BY <1>1 DEF Publish, Goto
  <2>2. Placed'
    BY <1>1 DEF Publish, Goto
  <2>3. Whole'
    BY <1>1 DEF Publish, Goto
  <2>. QED BY <2>1, <2>2, <2>3
<1>2. CASE PublishFails
  <2>1. Typed'
    BY <1>2 DEF PublishFails, Goto, Fault
  <2>2. Placed'
    BY <1>2 DEF PublishFails, Goto, Fault
  <2>3. Whole'
    BY <1>2 DEF PublishFails, Goto, Fault
  <2>. QED BY <2>1, <2>2, <2>3
<1>3. CASE StampNext
  <2>1. Typed'
    <3>1. job' # None => job' \in Jobs
      BY <1>3, Shapes, EntryShapes, BeginShape, SyncedShape DEF StampNext, Stamped, Expected
    <3>2. reg' \in [Projects -> Slots]
      BY <1>3, Shapes, EntryShapes, RegistryShape, SyncedShape DEF StampNext, Stamped, Expected
    <3>3. rows' \in [Projects -> SUBSET Gens]
      BY <1>3 DEF StampNext, Stamped, Expected
    <3>4. (journal' # None => journal' \in Journals) /\ (temp' # None => temp' \in Journals)
      BY <1>3, Shapes DEF StampNext, Stamped, Expected
    <3>. QED BY <1>3, <3>1, <3>2, <3>3, <3>4 DEF StampNext, Stamped, Expected
  <2>2. Placed'
    BY <1>3 DEF StampNext, Stamped, Expected
  <2>3. Whole'
    BY <1>3 DEF StampNext, Stamped, Expected
  <2>. QED BY <2>1, <2>2, <2>3
<1>4. CASE IndexFails
  <2>1. Typed'
    <3>1. job' # None => job' \in Jobs
      BY <1>4, Shapes, EntryShapes, BeginShape, SyncedShape DEF IndexFails, Fault
    <3>2. reg' \in [Projects -> Slots]
      BY <1>4, Shapes, EntryShapes, RegistryShape, SyncedShape DEF IndexFails, Fault
    <3>3. rows' \in [Projects -> SUBSET Gens]
      BY <1>4 DEF IndexFails, Fault
    <3>4. (journal' # None => journal' \in Journals) /\ (temp' # None => temp' \in Journals)
      BY <1>4, Shapes DEF IndexFails, Fault
    <3>. QED BY <1>4, <3>1, <3>2, <3>3, <3>4 DEF IndexFails, Fault
  <2>2. Placed'
    BY <1>4 DEF IndexFails, Fault
  <2>3. Whole'
    BY <1>4 DEF IndexFails, Fault
  <2>. QED BY <2>1, <2>2, <2>3
<1>5. CASE IndexAborted
  <2>1. Typed'
    BY <1>5 DEF IndexAborted, Goto, Fault
  <2>2. Placed'
    BY <1>5 DEF IndexAborted, Goto, Fault
  <2>3. Whole'
    BY <1>5 DEF IndexAborted, Goto, Fault
  <2>. QED BY <2>1, <2>2, <2>3
<1>6. CASE Downgrade
  <2>1. Typed'
    BY <1>6 DEF Downgrade, Goto
  <2>2. Placed'
    BY <1>6 DEF Downgrade, Goto
  <2>3. Whole'
    BY <1>6 DEF Downgrade, Goto
  <2>. QED BY <2>1, <2>2, <2>3
<1>7. CASE DowngradeFails
  <2>1. Typed'
    BY <1>7 DEF DowngradeFails, Goto, Fault
  <2>2. Placed'
    BY <1>7 DEF DowngradeFails, Goto, Fault
  <2>3. Whole'
    BY <1>7 DEF DowngradeFails, Goto, Fault
  <2>. QED BY <2>1, <2>2, <2>3
<1>8. CASE Complete
  <2>1. Typed'
    <3>1. job' # None => job' \in Jobs
      BY <1>8, Shapes, EntryShapes, BeginShape, SyncedShape DEF Complete, Return, RemovesJournal
    <3>2. reg' \in [Projects -> Slots]
      BY <1>8, Shapes, EntryShapes, RegistryShape, SyncedShape DEF Complete, Return, RemovesJournal
    <3>3. rows' \in [Projects -> SUBSET Gens]
      BY <1>8 DEF Complete, Return, RemovesJournal
    <3>4. (journal' # None => journal' \in Journals) /\ (temp' # None => temp' \in Journals)
      BY <1>8, Shapes DEF Complete, Return, RemovesJournal
    <3>. QED BY <1>8, <3>1, <3>2, <3>3, <3>4 DEF Complete, Return, RemovesJournal
  <2>2. Placed'
    BY <1>8 DEF Complete, Return, RemovesJournal
  <2>3. Whole'
    BY <1>8 DEF Complete, Return, RemovesJournal
  <2>. QED BY <2>1, <2>2, <2>3
<1>9. CASE Lost
  <2>1. Typed'
    BY <1>9 DEF Lost, Goto
  <2>2. Placed'
    BY <1>9 DEF Lost, Goto
  <2>3. Whole'
    BY <1>9 DEF Lost, Goto
  <2>. QED BY <2>1, <2>2, <2>3
<1>10. ASSUME NEW r \in Projects, IndexNext(r)
      PROVE  RebuildInv'
  <2>1. Typed'
    <3>1. job' # None => job' \in Jobs
      BY <1>10, Shapes, EntryShapes, BeginShape, SyncedShape DEF IndexNext, CurrentGen, Stale, Reservations
    <3>2. reg' \in [Projects -> Slots]
      BY <1>10, Shapes, EntryShapes, RegistryShape, SyncedShape DEF IndexNext, CurrentGen, Stale, Begin
    <3>3. rows' \in [Projects -> SUBSET Gens]
      BY <1>10 DEF IndexNext, CurrentGen, Stale, Begin
    <3>4. (journal' # None => journal' \in Journals) /\ (temp' # None => temp' \in Journals)
      BY <1>10, Shapes DEF IndexNext, CurrentGen, Stale, Begin
    <3>. QED BY <1>10, <3>1, <3>2, <3>3, <3>4 DEF IndexNext, CurrentGen, Stale, Begin
  <2>2. Placed'
    BY <1>10 DEF IndexNext, CurrentGen, Stale, Begin
  <2>3. Whole'
    BY <1>10 DEF IndexNext, CurrentGen, Stale, Begin
  <2>. QED BY <2>1, <2>2, <2>3
<1>. QED BY <1>1, <1>2, <1>3, <1>4, <1>5, <1>6, <1>7, <1>8, <1>9, <1>10

\* What was reserved is put back.
LEMMA UndoingServe ==
  ASSUME RebuildInv,
         Undo \/ Undone \/ UndoFails \/ Recover \/ RecoverFails
  PROVE  RebuildInv'
<1>. USE RebuildAssumption DEF RebuildInv, Typed, Placed, Whole, disk, resources, call, bounds
<1>1. CASE Undo
  <2>1. Typed'
    <3>1. job' # None => job' \in Jobs
      BY <1>1, Shapes, EntryShapes, BeginShape, SyncedShape DEF Undo, Goto
    <3>2. reg' \in [Projects -> Slots]
      BY <1>1, EntryShapes DEF Undo, Goto, Reservations, Slots
    <3>3. rows' \in [Projects -> SUBSET Gens]
      BY <1>1 DEF Undo, Goto
    <3>4. (journal' # None => journal' \in Journals) /\ (temp' # None => temp' \in Journals)
      BY <1>1, Shapes DEF Undo, Goto
    <3>. QED BY <1>1, <3>1, <3>2, <3>3, <3>4 DEF Undo, Goto
  <2>2. Placed'
    BY <1>1 DEF Undo, Goto
  <2>3. Whole'
    BY <1>1 DEF Undo, Goto
  <2>. QED BY <2>1, <2>2, <2>3
<1>2. CASE Undone
  <2>1. Typed'
    <3>1. job' # None => job' \in Jobs
      BY <1>2, Shapes, EntryShapes, BeginShape, SyncedShape DEF Undone, Goto, RemovesJournal
    <3>2. reg' \in [Projects -> Slots]
      BY <1>2, Shapes, EntryShapes, RegistryShape, SyncedShape DEF Undone, Goto, RemovesJournal
    <3>3. rows' \in [Projects -> SUBSET Gens]
      BY <1>2 DEF Undone, Goto, RemovesJournal
    <3>4. (journal' # None => journal' \in Journals) /\ (temp' # None => temp' \in Journals)
      BY <1>2, Shapes DEF Undone, Goto, RemovesJournal
    <3>. QED BY <1>2, <3>1, <3>2, <3>3, <3>4 DEF Undone, Goto, RemovesJournal
  <2>2. Placed'
    BY <1>2 DEF Undone, Goto, RemovesJournal
  <2>3. Whole'
    BY <1>2 DEF Undone, Goto, RemovesJournal
  <2>. QED BY <2>1, <2>2, <2>3
<1>3. CASE UndoFails
  <2>1. Typed'
    BY <1>3 DEF UndoFails, Fault, FailClosed
  <2>2. Placed'
    BY <1>3 DEF UndoFails, Fault, FailClosed
  <2>3. Whole'
    BY <1>3 DEF UndoFails, Fault, FailClosed
  <2>. QED BY <2>1, <2>2, <2>3
<1>4. CASE Recover
  <2>1. Typed'
    BY <1>4 DEF Recover, Return, RecoverPool
  <2>2. Placed'
    BY <1>4 DEF Recover, Return, RecoverPool
  <2>3. Whole'
    BY <1>4 DEF Recover, Return, RecoverPool
  <2>. QED BY <2>1, <2>2, <2>3
<1>5. CASE RecoverFails
  <2>1. Typed'
    BY <1>5 DEF RecoverFails, Fault, FailClosed
  <2>2. Placed'
    BY <1>5 DEF RecoverFails, Fault, FailClosed
  <2>3. Whole'
    BY <1>5 DEF RecoverFails, Fault, FailClosed
  <2>. QED BY <2>1, <2>2, <2>3
<1>. QED BY <1>1, <1>2, <1>3, <1>4, <1>5

-----------------------------------------------------------------------------
(* Rows and entries *)

\* The user and the life of the daemon.
LEMMA LifeBuild ==
  ASSUME RebuildInv, BuiltInv, ~HiddenRows, ~LateRestore,
         ChangeConfig \/ StartDaemon \/ Crash \/ Shutdown
  PROVE  BuiltInv'
<1>. USE RebuildAssumption DEF BuiltInv, SyncIsCurrent, CanRestore, IndexedIsBuilt, Indexed, Loaded,
     RebuildInv, Typed, Placed, disk, resources, call, bounds
<1>1. CASE ChangeConfig
  <2>1. SyncIsCurrent'
    BY <1>1 DEF ChangeConfig
  <2>2. CanRestore'
    BY <1>1 DEF ChangeConfig
  <2>3. IndexedIsBuilt'
    BY <1>1 DEF ChangeConfig
  <2>. QED BY <2>1, <2>2, <2>3
<1>2. CASE StartDaemon
  <2>1. SyncIsCurrent'
    BY <1>2 DEF StartDaemon
  <2>2. CanRestore'
    BY <1>2 DEF StartDaemon
  <2>3. IndexedIsBuilt'
    BY <1>2 DEF StartDaemon
  <2>. QED BY <2>1, <2>2, <2>3
<1>3. CASE Crash
  <2>1. SyncIsCurrent'
    BY <1>3 DEF Crash, Fault, Forget
  <2>2. CanRestore'
    BY <1>3 DEF Crash, Fault, Forget
  <2>3. IndexedIsBuilt'
    BY <1>3 DEF Crash, Fault, Forget
  <2>. QED BY <2>1, <2>2, <2>3
<1>4. CASE Shutdown
  <2>1. SyncIsCurrent'
    BY <1>4 DEF Shutdown, Forget
  <2>2. CanRestore'
    BY <1>4 DEF Shutdown, Forget
  <2>3. IndexedIsBuilt'
    BY <1>4 DEF Shutdown, Forget
  <2>. QED BY <2>1, <2>2, <2>3
<1>. QED BY <1>1, <1>2, <1>3, <1>4

\* An operation on a project starts, or the project leaves the registry.
LEMMA EntriesBuild ==
  ASSUME RebuildInv, BuiltInv, ~HiddenRows, ~LateRestore,
         NEW r \in Projects, Unregister(r) \/ StartIndex(r) \/ StartPending(r) \/ SkipPending(r) \/ StartEnsure(r)
         \/ StartRemove(r)
  PROVE  BuiltInv'
<1>. USE RebuildAssumption DEF BuiltInv, SyncIsCurrent, CanRestore, IndexedIsBuilt, Indexed, Loaded,
     RebuildInv, Typed, Placed, disk, resources, call, bounds
<1>1. CASE Unregister(r)
  <2>1. SyncIsCurrent'
    BY <1>1 DEF Unregister, RegistryLocked
  <2>2. CanRestore'
    BY <1>1 DEF Unregister, RegistryLocked
  <2>3. IndexedIsBuilt'
    BY <1>1 DEF Unregister, RegistryLocked
  <2>. QED BY <2>1, <2>2, <2>3
<1>2. CASE StartIndex(r)
  <2>1. SyncIsCurrent'
    BY <1>2 DEF StartIndex, Admitted, Hides, Indexed, Begin, CurrentGen, Stale
  <2>2. CanRestore'
    BY <1>2 DEF StartIndex, Admitted, Hides, Indexed, Begin, CurrentGen, Stale
  <2>3. IndexedIsBuilt'
    BY <1>2 DEF StartIndex, Admitted, Hides, Indexed, Begin, CurrentGen, Stale
  <2>. QED BY <2>1, <2>2, <2>3
<1>3. CASE StartPending(r)
  <2>1. SyncIsCurrent'
    BY <1>3 DEF StartPending, Admitted, Hides, Indexed, Begin, CurrentGen, Stale
  <2>2. CanRestore'
    BY <1>3 DEF StartPending, Admitted, Hides, Indexed, Begin, CurrentGen, Stale
  <2>3. IndexedIsBuilt'
    BY <1>3 DEF StartPending, Admitted, Hides, Indexed, Begin, CurrentGen, Stale
  <2>. QED BY <2>1, <2>2, <2>3
<1>4. CASE SkipPending(r)
  <2>1. SyncIsCurrent'
    BY <1>4 DEF SkipPending
  <2>2. CanRestore'
    BY <1>4 DEF SkipPending
  <2>3. IndexedIsBuilt'
    BY <1>4 DEF SkipPending
  <2>. QED BY <2>1, <2>2, <2>3
<1>5. CASE StartEnsure(r)
  <2>1. SyncIsCurrent'
    BY <1>5 DEF StartEnsure, Admitted, Hides, Indexed, Begin
  <2>2. CanRestore'
    BY <1>5 DEF StartEnsure, Admitted, Hides, Indexed, Begin
  <2>3. IndexedIsBuilt'
    BY <1>5 DEF StartEnsure, Admitted, Hides, Indexed, Begin
  <2>. QED BY <2>1, <2>2, <2>3
<1>6. CASE StartRemove(r)
  <2>1. SyncIsCurrent'
    BY <1>6 DEF StartRemove, Admitted, Begin
  <2>2. CanRestore'
    BY <1>6 DEF StartRemove, Admitted, Begin
  <2>3. IndexedIsBuilt'
    BY <1>6 DEF StartRemove, Admitted, Begin
  <2>. QED BY <2>1, <2>2, <2>3
<1>. QED BY <1>1, <1>2, <1>3, <1>4, <1>5, <1>6

\* An operation on a project goes on.
LEMMA SyncsBuild ==
  ASSUME RebuildInv, BuiltInv, ~HiddenRows, ~LateRestore,
         SyncFile \/ Stamp \/ SyncFails \/ RemoveRows \/ RemoveMeta
  PROVE  BuiltInv'
<1>. USE RebuildAssumption DEF BuiltInv, SyncIsCurrent, CanRestore, IndexedIsBuilt, Indexed, Loaded,
     RebuildInv, Typed, Placed, disk, resources, call, bounds
<1>1. CASE SyncFile
  <2>1. SyncIsCurrent'
    <3>1. job # None /\ job \in Jobs /\ job.root \in Projects /\ job.kind \in Syncs
      BY <1>1 DEF SyncFile, Syncing, Jobs
    <3>2. rows'[job.root] = {gen}
      <4>1. CASE Skipped(job.root)
        <5>1. rows[job.root] \subseteq {gen} /\ rows[job.root] # {}
          BY <1>1, <3>1, <4>1 DEF Skipped, Cached, SyncFile, Syncing
        <5>2. rows' = rows
          BY <1>1, <4>1 DEF SyncFile
        <5>. QED BY <5>1, <5>2
      <4>2. CASE ~Skipped(job.root)
        BY <1>1, <3>1, <4>2 DEF SyncFile
      <4>. QED BY <4>1, <4>2
    <3>3. /\ job'.root = job.root /\ job'.kind = job.kind /\ job'.prev = job.prev
          /\ UNCHANGED <<reg, gen, leaving>>
      BY <1>1, <3>1 DEF SyncFile, Jobs
    <3>. QED BY <3>1, <3>2, <3>3
  <2>2. CanRestore'
    BY <1>1 DEF SyncFile, Syncing, Skipped, Cached
  <2>3. IndexedIsBuilt'
    <3>1. job # None /\ job.root \in Projects /\ job.kind \in Syncs
      BY <1>1 DEF SyncFile, Syncing, Jobs
    <3>2. CASE Skipped(job.root)
      BY <1>1, <3>2 DEF SyncFile
    <3>3. CASE ~Skipped(job.root)
      BY <1>1, <3>1, <3>3 DEF SyncFile
    <3>. QED BY <3>2, <3>3
  <2>. QED BY <2>1, <2>2, <2>3
<1>2. CASE Stamp
  <2>1. SyncIsCurrent'
    BY <1>2 DEF Stamp, Stamped, Expected
  <2>2. CanRestore'
    BY <1>2 DEF Stamp, Stamped, Expected
  <2>3. IndexedIsBuilt'
    BY <1>2 DEF Stamp, Stamped, Expected
  <2>. QED BY <2>1, <2>2, <2>3
<1>3. CASE SyncFails
  <2>1. SyncIsCurrent'
    BY <1>3 DEF SyncFails, Syncing, Skipped, Cached, Fault
  <2>2. CanRestore'
    BY <1>3 DEF SyncFails, Syncing, Skipped, Cached, Fault
  <2>3. IndexedIsBuilt'
    <3>. DEFINE p == job.root
    <3>1. job # None /\ p \in Projects /\ job.kind \in Syncs
      BY <1>3 DEF SyncFails, Syncing, Jobs
    <3>2. \A r \in Projects \ {p} : reg'[r] = reg[r] /\ rows'[r] = rows[r]
      BY <1>3, <3>1 DEF SyncFails
    <3>3. rows'[p] \in {rows[p], rows[p] \cup {gen}}
      BY <1>3, <3>1 DEF SyncFails
    <3>4. reg'[p] = reg[p] \/ (reg'[p] = job.prev /\ job.kind = "ensure" /\ job.prev # None)
      BY <1>3, <3>1 DEF SyncFails
    <3>5. leaving' = leaving
      BY <1>3 DEF SyncFails
    <3>6. reg'[p] # None /\ reg'[p].done => rows'[p] = {reg'[p].gen} \/ (rows'[p] = {} /\ p \in leaving')
      <4>1. CASE reg'[p] = reg[p] /\ Indexed(p)
        <5>1. reg[p].gen = gen /\ (rows[p] = {gen} \/ (rows[p] = {} /\ p \in leaving))
          BY <3>1, <4>1
        <5>2. {gen} \cup {gen} = {gen} /\ {} \cup {gen} = {gen}
          OBVIOUS
        <5>. QED BY <3>3, <3>5, <4>1, <5>1, <5>2
      <4>2. CASE reg'[p] = reg[p] /\ ~Indexed(p)
        BY <4>2
      <4>3. CASE reg'[p] = job.prev /\ job.kind = "ensure" /\ job.prev # None
        BY <3>1, <4>3
      <4>. QED BY <3>4, <4>1, <4>2, <4>3
    <3>7. ASSUME NEW r \in Projects, Indexed(r)'
          PROVE  rows'[r] = {reg'[r].gen} \/ (rows'[r] = {} /\ r \in leaving')
      <4>1. CASE r = p
        BY <3>6, <3>7, <4>1
      <4>2. CASE r # p
        <5>1. reg'[r] = reg[r] /\ rows'[r] = rows[r]
          BY <3>2, <4>2
        <5>. QED BY <3>5, <3>7, <5>1
      <4>. QED BY <4>1, <4>2
    <3>. QED BY <3>7
  <2>. QED BY <2>1, <2>2, <2>3
<1>4. CASE RemoveRows
  <2>1. SyncIsCurrent'
    BY <1>4 DEF RemoveRows
  <2>2. CanRestore'
    BY <1>4 DEF RemoveRows
  <2>3. IndexedIsBuilt'
    BY <1>4 DEF RemoveRows
  <2>. QED BY <2>1, <2>2, <2>3
<1>5. CASE RemoveMeta
  <2>1. SyncIsCurrent'
    BY <1>5 DEF RemoveMeta
  <2>2. CanRestore'
    BY <1>5 DEF RemoveMeta
  <2>3. IndexedIsBuilt'
    BY <1>5 DEF RemoveMeta
  <2>. QED BY <2>1, <2>2, <2>3
<1>. QED BY <1>1, <1>2, <1>3, <1>4, <1>5

\* A repair asks for the store and is given it, or not.
LEMMA AskingBuild ==
  ASSUME RebuildInv, BuiltInv, ~HiddenRows, ~LateRestore,
         RequestRepair \/ Disconnect \/ Drained \/ Refused \/ Upgrade \/ UpgradeFails \/
         Retreat \/ RetreatFails
  PROVE  BuiltInv'
<1>. USE RebuildAssumption DEF BuiltInv, SyncIsCurrent, CanRestore, IndexedIsBuilt, Indexed, Loaded,
     RebuildInv, Typed, Placed, disk, resources, call, bounds
<1>1. CASE RequestRepair
  <2>1. SyncIsCurrent'
    BY <1>1 DEF RequestRepair
  <2>2. CanRestore'
    BY <1>1 DEF RequestRepair
  <2>3. IndexedIsBuilt'
    BY <1>1 DEF RequestRepair
  <2>. QED BY <2>1, <2>2, <2>3
<1>2. CASE Disconnect
  <2>1. SyncIsCurrent'
    BY <1>2 DEF Disconnect, Fault, MayFail
  <2>2. CanRestore'
    BY <1>2 DEF Disconnect, Fault, MayFail
  <2>3. IndexedIsBuilt'
    BY <1>2 DEF Disconnect, Fault, MayFail
  <2>. QED BY <2>1, <2>2, <2>3
<1>3. CASE Drained
  <2>1. SyncIsCurrent'
    BY <1>3 DEF Drained, Goto
  <2>2. CanRestore'
    BY <1>3 DEF Drained, Goto
  <2>3. IndexedIsBuilt'
    BY <1>3 DEF Drained, Goto
  <2>. QED BY <2>1, <2>2, <2>3
<1>4. CASE Refused
  <2>1. SyncIsCurrent'
    BY <1>4 DEF Refused, Fault, Return
  <2>2. CanRestore'
    BY <1>4 DEF Refused, Fault, Return
  <2>3. IndexedIsBuilt'
    BY <1>4 DEF Refused, Fault, Return
  <2>. QED BY <2>1, <2>2, <2>3
<1>5. CASE Upgrade
  <2>1. SyncIsCurrent'
    BY <1>5 DEF Upgrade, Goto
  <2>2. CanRestore'
    BY <1>5 DEF Upgrade, Goto
  <2>3. IndexedIsBuilt'
    BY <1>5 DEF Upgrade, Goto
  <2>. QED BY <2>1, <2>2, <2>3
<1>6. CASE UpgradeFails
  <2>1. SyncIsCurrent'
    BY <1>6 DEF UpgradeFails, Fault, Return
  <2>2. CanRestore'
    BY <1>6 DEF UpgradeFails, Fault, Return
  <2>3. IndexedIsBuilt'
    BY <1>6 DEF UpgradeFails, Fault, Return
  <2>. QED BY <2>1, <2>2, <2>3
<1>7. CASE Retreat
  <2>1. SyncIsCurrent'
    BY <1>7 DEF Retreat, Return
  <2>2. CanRestore'
    BY <1>7 DEF Retreat, Return
  <2>3. IndexedIsBuilt'
    BY <1>7 DEF Retreat, Return
  <2>. QED BY <2>1, <2>2, <2>3
<1>8. CASE RetreatFails
  <2>1. SyncIsCurrent'
    BY <1>8 DEF RetreatFails, Fault, FailClosed
  <2>2. CanRestore'
    BY <1>8 DEF RetreatFails, Fault, FailClosed
  <2>3. IndexedIsBuilt'
    BY <1>8 DEF RetreatFails, Fault, FailClosed
  <2>. QED BY <2>1, <2>2, <2>3
<1>. QED BY <1>1, <1>2, <1>3, <1>4, <1>5, <1>6, <1>7, <1>8

\* The projects are reserved, journal first.
LEMMA ReservingBuild ==
  ASSUME RebuildInv, BuiltInv, ~HiddenRows, ~LateRestore,
         Reserve \/ ReserveConflict \/ RenameJournal("rename", "save") \/ SaveReserved \/
         SaveFails
  PROVE  BuiltInv'
<1>. USE RebuildAssumption DEF BuiltInv, SyncIsCurrent, CanRestore, IndexedIsBuilt, Indexed, Loaded,
     RebuildInv, Typed, Placed, disk, resources, call, bounds
<1>1. CASE Reserve
  <2>1. SyncIsCurrent'
    BY <1>1 DEF Reserve, Goto, Conflict, Previous
  <2>2. CanRestore'
    BY <1>1 DEF Reserve, Goto, Conflict, Previous
  <2>3. IndexedIsBuilt'
    BY <1>1 DEF Reserve, Goto, Conflict, Previous
  <2>. QED BY <2>1, <2>2, <2>3
<1>2. CASE ReserveConflict
  <2>1. SyncIsCurrent'
    BY <1>2 DEF ReserveConflict, Goto
  <2>2. CanRestore'
    BY <1>2 DEF ReserveConflict, Goto
  <2>3. IndexedIsBuilt'
    BY <1>2 DEF ReserveConflict, Goto
  <2>. QED BY <2>1, <2>2, <2>3
<1>3. CASE RenameJournal("rename", "save")
  <2>1. SyncIsCurrent'
    BY <1>3 DEF RenameJournal, Goto
  <2>2. CanRestore'
    BY <1>3 DEF RenameJournal, Goto
  <2>3. IndexedIsBuilt'
    BY <1>3 DEF RenameJournal, Goto
  <2>. QED BY <2>1, <2>2, <2>3
<1>4. CASE SaveReserved
  <2>1. SyncIsCurrent'
    BY <1>4 DEF SaveReserved, Goto, Reserved
  <2>2. CanRestore'
    BY <1>4 DEF SaveReserved, Goto, Reserved
  <2>3. IndexedIsBuilt'
    BY <1>4 DEF SaveReserved, Goto, Reserved
  <2>. QED BY <2>1, <2>2, <2>3
<1>5. CASE SaveFails
  <2>1. SyncIsCurrent'
    BY <1>5 DEF SaveFails, Goto, Fault
  <2>2. CanRestore'
    BY <1>5 DEF SaveFails, Goto, Fault
  <2>3. IndexedIsBuilt'
    BY <1>5 DEF SaveFails, Goto, Fault
  <2>. QED BY <2>1, <2>2, <2>3
<1>. QED BY <1>1, <1>2, <1>3, <1>4, <1>5

\* The old resources are given up and the table is dropped.
LEMMA DroppingBuild ==
  ASSUME RebuildInv, BuiltInv, ~HiddenRows, ~LateRestore,
         DestroyPool \/ DestroyFails \/ CloseDb \/ CloseFails \/ Mark \/ MarkFails \/
         RenameJournal("marking", "drop") \/ Drop \/ DropFails
  PROVE  BuiltInv'
<1>. USE RebuildAssumption DEF BuiltInv, SyncIsCurrent, CanRestore, IndexedIsBuilt, Indexed, Loaded,
     RebuildInv, Typed, Placed, disk, resources, call, bounds
<1>1. CASE DestroyPool
  <2>1. SyncIsCurrent'
    BY <1>1 DEF DestroyPool, Goto, Cancelled
  <2>2. CanRestore'
    BY <1>1 DEF DestroyPool, Goto, Cancelled
  <2>3. IndexedIsBuilt'
    BY <1>1 DEF DestroyPool, Goto, Cancelled
  <2>. QED BY <2>1, <2>2, <2>3
<1>2. CASE DestroyFails
  <2>1. SyncIsCurrent'
    BY <1>2 DEF DestroyFails, Goto, MayFail, Fault
  <2>2. CanRestore'
    BY <1>2 DEF DestroyFails, Goto, MayFail, Fault
  <2>3. IndexedIsBuilt'
    BY <1>2 DEF DestroyFails, Goto, MayFail, Fault
  <2>. QED BY <2>1, <2>2, <2>3
<1>3. CASE CloseDb
  <2>1. SyncIsCurrent'
    BY <1>3 DEF CloseDb, Goto, Cancelled
  <2>2. CanRestore'
    BY <1>3 DEF CloseDb, Goto, Cancelled
  <2>3. IndexedIsBuilt'
    BY <1>3 DEF CloseDb, Goto, Cancelled
  <2>. QED BY <2>1, <2>2, <2>3
<1>4. CASE CloseFails
  <2>1. SyncIsCurrent'
    BY <1>4 DEF CloseFails, Goto, MayFail, Fault
  <2>2. CanRestore'
    BY <1>4 DEF CloseFails, Goto, MayFail, Fault
  <2>3. IndexedIsBuilt'
    BY <1>4 DEF CloseFails, Goto, MayFail, Fault
  <2>. QED BY <2>1, <2>2, <2>3
<1>5. CASE Mark
  <2>1. SyncIsCurrent'
    BY <1>5 DEF Mark, Goto
  <2>2. CanRestore'
    BY <1>5 DEF Mark, Goto
  <2>3. IndexedIsBuilt'
    BY <1>5 DEF Mark, Goto
  <2>. QED BY <2>1, <2>2, <2>3
<1>6. CASE MarkFails
  <2>1. SyncIsCurrent'
    BY <1>6 DEF MarkFails, Goto, MayFail, Fault
  <2>2. CanRestore'
    BY <1>6 DEF MarkFails, Goto, MayFail, Fault
  <2>3. IndexedIsBuilt'
    BY <1>6 DEF MarkFails, Goto, MayFail, Fault
  <2>. QED BY <2>1, <2>2, <2>3
<1>7. CASE RenameJournal("marking", "drop")
  <2>1. SyncIsCurrent'
    BY <1>7 DEF RenameJournal, Goto
  <2>2. CanRestore'
    BY <1>7 DEF RenameJournal, Goto
  <2>3. IndexedIsBuilt'
    BY <1>7 DEF RenameJournal, Goto
  <2>. QED BY <2>1, <2>2, <2>3
<1>8. CASE Drop
  <2>1. SyncIsCurrent'
    BY <1>8 DEF Drop, Goto, NoRows
  <2>2. CanRestore'
    BY <1>8 DEF Drop, Goto, NoRows
  <2>3. IndexedIsBuilt'
    BY <1>8 DEF Drop, Goto, NoRows
  <2>. QED BY <2>1, <2>2, <2>3
<1>9. CASE DropFails
  <2>1. SyncIsCurrent'
    BY <1>9 DEF DropFails, Fault, NoRows, MayFail
  <2>2. CanRestore'
    BY <1>9 DEF DropFails, Fault, NoRows, MayFail
  <2>3. IndexedIsBuilt'
    BY <1>9 DEF DropFails, Fault, NoRows, MayFail
  <2>. QED BY <2>1, <2>2, <2>3
<1>. QED BY <1>1, <1>2, <1>3, <1>4, <1>5, <1>6, <1>7, <1>8, <1>9

\* The projects are indexed again.
LEMMA IndexingBuild ==
  ASSUME RebuildInv, BuiltInv, ~HiddenRows, ~LateRestore,
         Publish \/ PublishFails \/ StampNext \/ IndexFails \/ IndexAborted \/ Downgrade \/
         DowngradeFails \/ Complete \/ Lost \/ \E r \in Projects : IndexNext(r)
  PROVE  BuiltInv'
<1>. USE RebuildAssumption DEF BuiltInv, SyncIsCurrent, CanRestore, IndexedIsBuilt, Indexed, Loaded,
     RebuildInv, Typed, Placed, disk, resources, call, bounds
<1>1. CASE Publish
  <2>1. SyncIsCurrent'
    BY <1>1 DEF Publish, Goto
  <2>2. CanRestore'
    BY <1>1 DEF Publish, Goto
  <2>3. IndexedIsBuilt'
    BY <1>1 DEF Publish, Goto
  <2>. QED BY <2>1, <2>2, <2>3
<1>2. CASE PublishFails
  <2>1. SyncIsCurrent'
    BY <1>2 DEF PublishFails, Goto, Fault
  <2>2. CanRestore'
    BY <1>2 DEF PublishFails, Goto, Fault
  <2>3. IndexedIsBuilt'
    BY <1>2 DEF PublishFails, Goto, Fault
  <2>. QED BY <2>1, <2>2, <2>3
<1>3. CASE StampNext
  <2>1. SyncIsCurrent'
    BY <1>3 DEF StampNext, Stamped, Expected
  <2>2. CanRestore'
    BY <1>3 DEF StampNext, Stamped, Expected
  <2>3. IndexedIsBuilt'
    BY <1>3 DEF StampNext, Stamped, Expected
  <2>. QED BY <2>1, <2>2, <2>3
<1>4. CASE IndexFails
  <2>1. SyncIsCurrent'
    BY <1>4 DEF IndexFails, Fault
  <2>2. CanRestore'
    BY <1>4 DEF IndexFails, Fault
  <2>3. IndexedIsBuilt'
    BY <1>4 DEF IndexFails, Fault
  <2>. QED BY <2>1, <2>2, <2>3
<1>5. CASE IndexAborted
  <2>1. SyncIsCurrent'
    BY <1>5 DEF IndexAborted, Goto, Fault
  <2>2. CanRestore'
    BY <1>5 DEF IndexAborted, Goto, Fault
  <2>3. IndexedIsBuilt'
    BY <1>5 DEF IndexAborted, Goto, Fault
  <2>. QED BY <2>1, <2>2, <2>3
<1>6. CASE Downgrade
  <2>1. SyncIsCurrent'
    BY <1>6 DEF Downgrade, Goto
  <2>2. CanRestore'
    BY <1>6 DEF Downgrade, Goto
  <2>3. IndexedIsBuilt'
    BY <1>6 DEF Downgrade, Goto
  <2>. QED BY <2>1, <2>2, <2>3
<1>7. CASE DowngradeFails
  <2>1. SyncIsCurrent'
    BY <1>7 DEF DowngradeFails, Goto, Fault
  <2>2. CanRestore'
    BY <1>7 DEF DowngradeFails, Goto, Fault
  <2>3. IndexedIsBuilt'
    BY <1>7 DEF DowngradeFails, Goto, Fault
  <2>. QED BY <2>1, <2>2, <2>3
<1>8. CASE Complete
  <2>1. SyncIsCurrent'
    BY <1>8 DEF Complete, Return, RemovesJournal
  <2>2. CanRestore'
    BY <1>8 DEF Complete, Return, RemovesJournal
  <2>3. IndexedIsBuilt'
    BY <1>8 DEF Complete, Return, RemovesJournal
  <2>. QED BY <2>1, <2>2, <2>3
<1>9. CASE Lost
  <2>1. SyncIsCurrent'
    BY <1>9 DEF Lost, Goto
  <2>2. CanRestore'
    BY <1>9 DEF Lost, Goto
  <2>3. IndexedIsBuilt'
    BY <1>9 DEF Lost, Goto
  <2>. QED BY <2>1, <2>2, <2>3
<1>10. ASSUME NEW r \in Projects, IndexNext(r)
      PROVE  BuiltInv'
  <2>1. SyncIsCurrent'
    BY <1>10 DEF IndexNext, CurrentGen, Stale, Begin
  <2>2. CanRestore'
    BY <1>10 DEF IndexNext, CurrentGen, Stale, Begin
  <2>3. IndexedIsBuilt'
    BY <1>10 DEF IndexNext, CurrentGen, Stale, Begin
  <2>. QED BY <2>1, <2>2, <2>3
<1>. QED BY <1>1, <1>2, <1>3, <1>4, <1>5, <1>6, <1>7, <1>8, <1>9, <1>10

\* What was reserved is put back.
LEMMA UndoingBuild ==
  ASSUME RebuildInv, BuiltInv, ~HiddenRows, ~LateRestore,
         Undo \/ Undone \/ UndoFails \/ Recover \/ RecoverFails
  PROVE  BuiltInv'
<1>. USE RebuildAssumption DEF BuiltInv, SyncIsCurrent, CanRestore, IndexedIsBuilt, Indexed, Loaded,
     RebuildInv, Typed, Placed, disk, resources, call, bounds
<1>1. CASE Undo
  <2>1. SyncIsCurrent'
    BY <1>1 DEF Undo, Goto
  <2>2. CanRestore'
    BY <1>1 DEF Undo, Goto
  <2>3. IndexedIsBuilt'
    BY <1>1 DEF Undo, Goto
  <2>. QED BY <2>1, <2>2, <2>3
<1>2. CASE Undone
  <2>1. SyncIsCurrent'
    BY <1>2 DEF Undone, Goto, RemovesJournal
  <2>2. CanRestore'
    BY <1>2 DEF Undone, Goto, RemovesJournal
  <2>3. IndexedIsBuilt'
    BY <1>2 DEF Undone, Goto, RemovesJournal
  <2>. QED BY <2>1, <2>2, <2>3
<1>3. CASE UndoFails
  <2>1. SyncIsCurrent'
    BY <1>3 DEF UndoFails, Fault, FailClosed
  <2>2. CanRestore'
    BY <1>3 DEF UndoFails, Fault, FailClosed
  <2>3. IndexedIsBuilt'
    BY <1>3 DEF UndoFails, Fault, FailClosed
  <2>. QED BY <2>1, <2>2, <2>3
<1>4. CASE Recover
  <2>1. SyncIsCurrent'
    BY <1>4 DEF Recover, Return, RecoverPool
  <2>2. CanRestore'
    BY <1>4 DEF Recover, Return, RecoverPool
  <2>3. IndexedIsBuilt'
    BY <1>4 DEF Recover, Return, RecoverPool
  <2>. QED BY <2>1, <2>2, <2>3
<1>5. CASE RecoverFails
  <2>1. SyncIsCurrent'
    BY <1>5 DEF RecoverFails, Fault, FailClosed
  <2>2. CanRestore'
    BY <1>5 DEF RecoverFails, Fault, FailClosed
  <2>3. IndexedIsBuilt'
    BY <1>5 DEF RecoverFails, Fault, FailClosed
  <2>. QED BY <2>1, <2>2, <2>3
<1>. QED BY <1>1, <1>2, <1>3, <1>4, <1>5

-----------------------------------------------------------------------------
(* The theorems *)

\* The registry, the journal and the reservation keep their shape, a repair works
\* alone until it indexes, and the daemon's resources are those of its place.
THEOREM RebuildInvariant == RebuildSpec => []RebuildInv
<1>1. Init => RebuildInv
  <2>. SUFFICES ASSUME Init
                PROVE  RebuildInv
    OBVIOUS
  <2>1. config \in Gens /\ gen \in Gens
    BY RebuildAssumption DEF Init
  <2>2. reg \in [Projects -> Slots] /\ rows \in [Projects -> SUBSET Gens]
    BY <2>1, EntryShapes DEF Init
  <2>. QED BY <2>1, <2>2 DEF Init, RebuildInv, Typed, Placed, Whole
<1>2. RebuildInv /\ [Next]_rebuildVars => RebuildInv'
  <2>. SUFFICES ASSUME RebuildInv, [Next]_rebuildVars
                PROVE  RebuildInv'
    OBVIOUS
  <2>1. CASE ChangeConfig \/ StartDaemon \/ Shutdown \/ RequestRepair \/ Work
    BY <2>1, LifeServe, AskingServe, SyncsServe DEF Work
  <2>2. ASSUME NEW r \in Projects,
               Unregister(r) \/ StartIndex(r) \/ StartPending(r) \/ SkipPending(r) \/ StartEnsure(r) \/ StartRemove(r)
        PROVE  RebuildInv'
    BY <2>2, EntriesServe
  <2>3. CASE Repair
    BY <2>3, AskingServe, ReservingServe, DroppingServe, IndexingServe, UndoingServe DEF Repair
  <2>4. CASE Failure
    BY <2>4, LifeServe, SyncsServe, AskingServe, ReservingServe, DroppingServe, IndexingServe, UndoingServe DEF Failure
  <2>5. CASE UNCHANGED rebuildVars
    BY <2>5 DEF rebuildVars, disk, resources, call, bounds, RebuildInv, Typed, Placed, Whole
  <2>. QED BY <2>1, <2>2, <2>3, <2>4, <2>5 DEF Next
<1>. QED BY <1>1, <1>2, PTL DEF RebuildSpec

\* However a repair ended, a daemon that answers has its store and its pool.
THEOREM RebuildReadyIsWhole == RebuildSpec => []ReadyIsWhole
<1>1. RebuildInv => ReadyIsWhole
  BY DEF RebuildInv, Whole, ReadyIsWhole
<1>. QED BY <1>1, RebuildInvariant, PTL

\* Rows follow the entries, and what a rebuild has not dropped it can put back,
\* when a sync meets no hidden rows and a resumed rebuild does not fail early.
THEOREM BuiltInvariant ==
  ASSUME ~HiddenRows, ~LateRestore
  PROVE  RebuildSpec => []BuiltInv
<1>1. Init => BuiltInv
  BY RebuildAssumption DEF Init, BuiltInv, SyncIsCurrent, CanRestore, IndexedIsBuilt, Indexed
<1>2. RebuildInv /\ BuiltInv /\ [Next]_rebuildVars => BuiltInv'
  <2>. SUFFICES ASSUME RebuildInv, BuiltInv, [Next]_rebuildVars
                PROVE  BuiltInv'
    OBVIOUS
  <2>1. CASE ChangeConfig \/ StartDaemon \/ Shutdown \/ RequestRepair \/ Work
    BY <2>1, LifeBuild, AskingBuild, SyncsBuild DEF Work
  <2>2. ASSUME NEW r \in Projects,
               Unregister(r) \/ StartIndex(r) \/ StartPending(r) \/ SkipPending(r) \/ StartEnsure(r) \/ StartRemove(r)
        PROVE  BuiltInv'
    BY <2>2, EntriesBuild
  <2>3. CASE Repair
    BY <2>3, AskingBuild, ReservingBuild, DroppingBuild, IndexingBuild, UndoingBuild DEF Repair
  <2>4. CASE Failure
    BY <2>4, LifeBuild, SyncsBuild, AskingBuild, ReservingBuild, DroppingBuild, IndexingBuild, UndoingBuild DEF Failure
  <2>5. CASE UNCHANGED rebuildVars
    BY <2>5 DEF rebuildVars, disk, resources, call, bounds, BuiltInv, SyncIsCurrent, CanRestore, IndexedIsBuilt,
         Indexed, Loaded
  <2>. QED BY <2>1, <2>2, <2>3, <2>4, <2>5 DEF Next
<1>. QED BY <1>1, <1>2, RebuildInvariant, PTL DEF RebuildSpec

\* An indexed project has the rows of the generation its entry names, and no others.
THEOREM RebuildIndexedIsBuilt ==
  ASSUME ~HiddenRows, ~LateRestore
  PROVE  RebuildSpec => []IndexedIsBuilt
<1>1. BuiltInv => IndexedIsBuilt
  BY DEF BuiltInv
<1>. QED BY <1>1, BuiltInvariant, PTL
=============================================================================
