------------------------- MODULE OperationCoordinator -------------------------
(***************************************************************************)
(* Admission of the daemon's operations (src/lib/utils/                    *)
(* operation-coordinator.ts).  Shared calls overlap; an exclusive call     *)
(* announces itself, lets the watchers quiesce, drains the shared calls it *)
(* finds running and then runs alone, except for reads that a read window  *)
(* admits.  While an exclusive call that asked for it is active, shared    *)
(* calls wait in a queue instead of being refused.                         *)
(*                                                                         *)
(* The code is single-threaded: a step is everything between two awaits.   *)
(* A call is made at most once; pc[c] is where its promise stands.  The    *)
(* names of operations are abstracted to the sets the code tells apart:    *)
(* every read window in the daemon admits exactly the reads.               *)
(***************************************************************************)
EXTENDS Naturals, FiniteSets

CONSTANTS
  Reads,      \* shared calls a read window admits
  Writes,     \* shared calls no read window admits
  Watches,    \* "watch*" and "store-maintenance": refused, never queued
  Cleanups,   \* exclusive "version-cleanup" calls
  Bounded,    \* exclusive "bounded-maintenance" calls
  Repairs,    \* exclusive "repair" calls: they queue nobody
  QueueLimit, \* bound on the waiters (64 in the code)
  Wedged      \* shared calls whose callback may never settle

Shared == Reads \union Writes \union Watches
Queueing == Cleanups \union Bounded
Exclusive == Queueing \union Repairs
Calls == Shared \union Exclusive

ASSUME OpsAssumption ==
  /\ Shared \intersect Exclusive = {}
  /\ Reads \intersect (Writes \union Watches) = {}
  /\ Writes \intersect Watches = {}
  /\ Cleanups \intersect Bounded = {} /\ Queueing \intersect Repairs = {}
  /\ IsFiniteSet(Calls)
  /\ QueueLimit \in Nat
  /\ Wedged \subseteq Shared

VARIABLES
  state,       \* state.kind
  queueShared, \* the active exclusive call queues shared calls
  readWindow,  \* a read window is open
  pc,          \* where each call stands
  drain,       \* the shared tasks a drain or a window closing waits for
  aborted,     \* exclusive calls whose controller was aborted
  closeWait,   \* the tasks close waits for
  since        \* history: state.kind when a shared call was admitted

opsVars == <<state, queueShared, readWindow, pc, drain, aborted, closeWait, since>>

Kinds == {"open", "exclusive-pending", "exclusive", "closing", "closed"}
HoldPcs == {"quiescing", "draining", "exclusive", "sealing"}
PcKinds == {"idle", "waiting", "running", "done", "failed"} \union HoldPcs

OpsTypeOK ==
  /\ state \in Kinds
  /\ queueShared \in BOOLEAN /\ readWindow \in BOOLEAN
  /\ pc \in [Calls -> PcKinds]
  /\ drain \subseteq Shared
  /\ aborted \subseteq {x \in Exclusive : pc[x] \in HoldPcs}
  /\ closeWait \subseteq Calls
  /\ since \in [Shared -> Kinds]

OpsInit ==
  /\ state = "open"
  /\ queueShared = FALSE /\ readWindow = FALSE
  /\ pc = [c \in Calls |-> "idle"]
  /\ drain = {} /\ aborted = {} /\ closeWait = {}
  /\ since = [s \in Shared |-> "open"]

-----------------------------------------------------------------------------
Waiters == {c \in Calls : pc[c] = "waiting"}
Running == {c \in Calls : pc[c] = "running"}
Active == Running \union {c \in Calls : pc[c] \in HoldPcs}
Held == state \in {"exclusive-pending", "exclusive"}
Closing == state \in {"closing", "closed"}

\* readWindow?.(name): the window is open and admits the call.
InWindow(s) == readWindow /\ s \in Reads

\* The calls of W are admitted, or fail as their admission is refused.
Admit(W) ==
  /\ pc' = [c \in Calls |-> IF c \in W THEN "running" ELSE pc[c]]
  /\ since' = [s \in Shared |-> IF s \in W THEN state ELSE since[s]]

-----------------------------------------------------------------------------
(* runShared *)

MustQueue(s) == queueShared /\ Held /\ ~InWindow(s) /\ s \notin Watches

\* assertSharedAdmission does not throw.
Admissible(s) == state = "open" \/ (Held /\ InWindow(s))

AdmitShared(s) ==
  /\ pc[s] = "idle"
  /\ Admissible(s)
  /\ Admit({s})
  /\ UNCHANGED <<state, queueShared, readWindow, drain, aborted, closeWait>>

QueueCall(s) ==
  /\ pc[s] = "idle"
  /\ MustQueue(s) /\ Cardinality(Waiters) < QueueLimit
  /\ pc' = [pc EXCEPT ![s] = "waiting"]
  /\ UNCHANGED <<state, queueShared, readWindow, drain, aborted, closeWait, since>>

\* Queue full, busy or closing; or the caller's signal was aborted before the call.
RefuseShared(s) ==
  /\ pc[s] = "idle"
  /\ \/ MustQueue(s) /\ Cardinality(Waiters) >= QueueLimit
     \/ ~MustQueue(s) /\ ~Admissible(s)
     \/ state = "open"
  /\ pc' = [pc EXCEPT ![s] = "failed"]
  /\ UNCHANGED <<state, queueShared, readWindow, drain, aborted, closeWait, since>>

\* The caller's signal aborts a queued call.
AbortWaiter(s) ==
  /\ pc[s] = "waiting"
  /\ pc' = [pc EXCEPT ![s] = "failed"]
  /\ UNCHANGED <<state, queueShared, readWindow, drain, aborted, closeWait, since>>

\* The callback of an admitted call resolves or rejects, aborted or not.
SettleShared(s) ==
  /\ s \in Shared /\ pc[s] = "running"
  /\ pc' = [pc EXCEPT ![s] = "done"]
  /\ UNCHANGED <<state, queueShared, readWindow, drain, aborted, closeWait, since>>

-----------------------------------------------------------------------------
(* runExclusive *)

\* Mutant: the waiters are forgotten.
FinishForgetsWaiters(x, outcome) ==
  /\ state' = IF Held THEN "open" ELSE state
  /\ queueShared' = FALSE /\ readWindow' = FALSE
  /\ pc' = [pc EXCEPT ![x] = outcome]
  /\ drain' = {} /\ aborted' = aborted \ {x}
  /\ UNCHANGED <<closeWait, since>>

\* The finally block: reopen unless closing, then resume every waiter.
Finish(x, outcome) ==
  /\ state' = IF Held THEN "open" ELSE state
  /\ queueShared' = FALSE /\ readWindow' = FALSE
  /\ pc' = [c \in Calls |-> IF c = x THEN outcome
                            ELSE IF pc[c] # "waiting" THEN pc[c]
                            ELSE IF Closing THEN "failed" ELSE "running"]
  /\ since' = [s \in Shared |-> IF pc[s] = "waiting" THEN "open" ELSE since[s]]
  /\ drain' = {} /\ aborted' = aborted \ {x}
  /\ UNCHANGED closeWait

StartExclusive(x) ==
  /\ pc[x] = "idle"
  /\ IF state = "open"
     THEN /\ state' = "exclusive-pending"
          /\ queueShared' = (x \in Queueing)
          /\ readWindow' = (x \in Queueing)
          /\ pc' = [pc EXCEPT ![x] = "quiescing"]
     ELSE pc' = [pc EXCEPT ![x] = "failed"] /\ UNCHANGED <<state, queueShared, readWindow>>
  /\ UNCHANGED <<drain, aborted, closeWait, since>>

\* Mutant: the window for reads stays open while they drain.
QuiescedStaysOpen(x) ==
  /\ pc[x] = "quiescing"
  /\ drain' = Shared \intersect Running
  /\ pc' = [pc EXCEPT ![x] = "draining"]
  /\ UNCHANGED <<state, queueShared, readWindow, aborted, closeWait, since>>

\* quiesce() resolved: close the window, then snapshot the shared tasks.
Quiesced(x) ==
  /\ pc[x] = "quiescing"
  /\ readWindow' = FALSE
  /\ drain' = Shared \intersect Running
  /\ pc' = [pc EXCEPT ![x] = "draining"]
  /\ UNCHANGED <<state, queueShared, aborted, closeWait, since>>

QuiesceFails(x) == pc[x] = "quiescing" /\ Finish(x, "failed")

Drained == drain \intersect Running = {}

\* Mutant: an abort during the drain goes unnoticed.
DrainIgnoresAbort(x) ==
  /\ pc[x] = "draining" /\ Drained
  /\ IF Closing
     THEN Finish(x, "failed")
     ELSE /\ state' = "exclusive"
          /\ pc' = [pc EXCEPT ![x] = "exclusive"]
          /\ UNCHANGED <<queueShared, readWindow, drain, aborted, closeWait, since>>

DrainDone(x) ==
  /\ pc[x] = "draining" /\ Drained
  /\ IF x \in aborted \/ Closing
     THEN Finish(x, "failed")
     ELSE /\ state' = "exclusive"
          /\ pc' = [pc EXCEPT ![x] = "exclusive"]
          /\ UNCHANGED <<queueShared, readWindow, drain, aborted, closeWait, since>>

\* readerDrainTimeoutMs, given by bounded maintenance only.
DrainTimeout(x) ==
  /\ pc[x] = "draining" /\ x \in Bounded /\ ~Drained
  /\ Finish(x, "failed")

\* openVersionCleanupReadWindow, openProtectedMaintenanceReadWindow: the
\* waiting reads are resumed into the window.
OpenWindow(x) ==
  /\ pc[x] = "exclusive" /\ x \in Queueing
  /\ state = "exclusive" /\ queueShared
  /\ readWindow' = TRUE
  /\ Admit(Waiters \intersect Reads)
  /\ UNCHANGED <<state, queueShared, drain, aborted, closeWait>>

\* closeProtectedMaintenanceReadWindow begins ...
SealWindow(x) ==
  /\ pc[x] = "exclusive" /\ x \in Bounded /\ state = "exclusive"
  /\ readWindow' = FALSE
  /\ drain' = Shared \intersect Running
  /\ pc' = [pc EXCEPT ![x] = "sealing"]
  /\ UNCHANGED <<state, queueShared, aborted, closeWait, since>>

\* Mutant: the window counts as closed without waiting for its readers.
SealedAtOnce(x) ==
  /\ pc[x] = "sealing"
  /\ pc' = [pc EXCEPT ![x] = "exclusive"]
  /\ UNCHANGED <<state, queueShared, readWindow, drain, aborted, closeWait, since>>

\* ... and resolves once every reader it found has settled ...
Sealed(x) ==
  /\ pc[x] = "sealing" /\ Drained
  /\ pc' = [pc EXCEPT ![x] = "exclusive"]
  /\ UNCHANGED <<state, queueShared, readWindow, drain, aborted, closeWait, since>>

\* ... or rejects after 5 s, and with it the callback.
SealTimeout(x) ==
  /\ pc[x] = "sealing" /\ ~Drained
  /\ Finish(x, "failed")

\* The callback resolves or rejects.
SettleExclusive(x) == pc[x] = "exclusive" /\ Finish(x, "done")

-----------------------------------------------------------------------------
(* Aborting and closing *)

\* The signal that bounded maintenance passes in.
Deadline(x) ==
  /\ x \in Bounded \ aborted /\ pc[x] \in HoldPcs
  /\ aborted' = aborted \union {x}
  /\ UNCHANGED <<state, queueShared, readWindow, pc, drain, closeWait, since>>

\* abortAndDrain: every controller; who waits for the drain is up to the caller.
AbortAll ==
  /\ aborted' = aborted \union {x \in Exclusive : pc[x] \in HoldPcs}
  /\ UNCHANGED <<state, queueShared, readWindow, pc, drain, closeWait, since>>

\* Waiters are rejected, controllers aborted, the active tasks awaited.
Close ==
  /\ ~Closing
  /\ state' = "closing"
  /\ pc' = [c \in Calls |-> IF pc[c] = "waiting" THEN "failed" ELSE pc[c]]
  /\ aborted' = aborted \union {x \in Exclusive : pc[x] \in HoldPcs}
  /\ closeWait' = Active
  /\ UNCHANGED <<queueShared, readWindow, drain, since>>

Closed ==
  /\ state = "closing" /\ closeWait \intersect Active = {}
  /\ state' = "closed"
  /\ UNCHANGED <<queueShared, readWindow, pc, drain, aborted, closeWait, since>>

-----------------------------------------------------------------------------
SharedStep(s) == AdmitShared(s) \/ QueueCall(s) \/ RefuseShared(s) \/ AbortWaiter(s) \/ SettleShared(s)

ExclusiveStep(x) ==
  \/ StartExclusive(x) \/ Quiesced(x) \/ QuiesceFails(x) \/ DrainDone(x) \/ DrainTimeout(x)
  \/ OpenWindow(x) \/ SealWindow(x) \/ Sealed(x) \/ SealTimeout(x)
  \/ SettleExclusive(x) \/ Deadline(x)

OpsNext ==
  \/ \E s \in Shared : SharedStep(s)
  \/ \E x \in Exclusive : ExclusiveStep(x)
  \/ AbortAll \/ Close \/ Closed

OpsSpec == OpsInit /\ [][OpsNext]_opsVars

-----------------------------------------------------------------------------
(* Properties *)

\* The callback of an exclusive call overlaps no shared call but reads that
\* were admitted after the drain, by a window of that same call: no read
\* older than the drain survives it, and no write ever overlaps it.
ExclusiveRunsAlone ==
  \A x \in Exclusive : pc[x] = "exclusive" =>
    \A s \in Shared \intersect Running :
      x \in Queueing /\ s \in Reads /\ since[s] = "exclusive"

\* While no window is open, in particular after bounded maintenance closed
\* its window and before native handles are closed, no read is running.
SealedMeansQuiet ==
  \A x \in Exclusive :
    pc[x] = "exclusive" /\ ~readWindow => Shared \intersect Running = {}

\* A queued call always has an exclusive call in progress to resume it.
NoOrphanedWaiter ==
  Waiters # {} => Held /\ queueShared /\ \E x \in Queueing : pc[x] \in HoldPcs

\* Whatever aborted it while it waited, an exclusive call never starts its
\* callback afterwards: not after its deadline, abortAndDrain or close.
AbortedNeverStarts ==
  [][\A x \in Exclusive : pc[x] # "exclusive" /\ pc[x] # "sealing" /\ pc'[x] = "exclusive"
       => x \notin aborted /\ ~Closing]_opsVars

\* The promise of close resolves only when no task is left, and none starts
\* afterwards.
ClosedIsQuiet == state = "closed" => Active = {} /\ Waiters = {}

=============================================================================
