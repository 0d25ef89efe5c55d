----------------------------- MODULE DaemonPause -----------------------------
(***************************************************************************)
(* Paused service of the daemon (Daemon.pauseWork and runSharedOperation   *)
(* in src/lib/daemon/daemon.ts) on top of its operation coordinator.       *)
(* Under host pressure the daemon stays up: it aborts what runs, drains    *)
(* it, closes the full store and opens a bounded read-only one; meanwhile  *)
(* and afterwards a few read verbs pass one at a time through a gate and   *)
(* first await the transition, with a timeout.                             *)
(***************************************************************************)
EXTENDS OperationCoordinator

CONSTANTS
  PausedReads, \* the reads isPausedRead admits
  GateLimit,   \* bound on the reads waiting at the gate (16 in the code)
  NoCall

ASSUME PauseAssumption ==
  PausedReads \subseteq Reads /\ GateLimit \in Nat /\ NoCall \notin Calls

VARIABLES
  paused,    \* pausedReason is set
  phase,     \* how far pausePromise is
  pauseWait, \* the tasks pausePromise drains
  gate,      \* the call that holds pausedReadGate
  step       \* where the callback of an admitted call stands

pauseVars == <<paused, phase, pauseWait, gate, step>>
daemonVars == <<opsVars, pauseVars>>

PauseTypeOK ==
  /\ OpsTypeOK
  /\ paused \in BOOLEAN
  /\ phase \in {"none", "draining", "closing", "ready", "failed"}
  /\ pauseWait \subseteq Calls
  /\ gate \in Calls \union {NoCall}
  /\ step \in [Calls -> {"none", "exec", "refused", "queued", "await"}]
  /\ gate # NoCall => pc[gate] = "running" /\ step[gate] # "queued"
  /\ \A c \in Calls : step[c] = "await" => gate = c

PauseInit ==
  /\ OpsInit
  /\ paused = FALSE /\ phase = "none" /\ pauseWait = {} /\ gate = NoCall
  /\ step = [c \in Calls |-> "none"]

-----------------------------------------------------------------------------
AtGate == {c \in Calls : step[c] = "queued"}

\* Calls whose callback has its hands on the store.
Executing == {c \in Active : step[c] = "exec"}

\* The calls this step of the coordinator admits; an exclusive one enters quiesce().
Entering == {c \in Calls : pc'[c] \in {"running", "quiescing"} /\ pc[c] # pc'[c]}

\* The synchronous part of an admitted callback: in paused service reads queue
\* at the gate while it has room, and everything else throws.
Body ==
  LET fits == Entering \intersect PausedReads
      used == Cardinality(AtGate) + (IF gate = NoCall THEN 0 ELSE 1)
  IN \E Q \in SUBSET fits :
       /\ Cardinality(Q) + used <= GateLimit + 1
       /\ Q # fits => Cardinality(Q) + used = GateLimit + 1
       /\ step' = [c \in Calls |-> IF c \notin Entering THEN step[c]
                                   ELSE IF ~paused THEN "exec"
                                   ELSE IF c \in Q THEN "queued" ELSE "refused"]

\* Steps of the coordinator that admit or queue calls, and run callbacks of
\* exclusive calls; assertHeavyOperationAdmission fails quiesce() when paused.
Coordinate ==
  /\ \/ \E s \in Shared : AdmitShared(s) \/ QueueCall(s) \/ RefuseShared(s) \/ AbortWaiter(s)
     \/ \E x \in Exclusive :
          \/ StartExclusive(x) \/ QuiesceFails(x) \/ DrainDone(x) \/ DrainTimeout(x)
          \/ OpenWindow(x) \/ SealWindow(x) \/ Sealed(x) \/ SealTimeout(x)
          \/ SettleExclusive(x) \/ Deadline(x)
          \/ Quiesced(x) /\ step[x] = "exec"
     \/ Closed
  /\ Body
  /\ UNCHANGED <<paused, phase, pauseWait, gate>>

\* The callback of a shared call settles, and gives up the gate if it holds it.
SettleCallback(s) ==
  /\ SettleShared(s) /\ step[s] \in {"exec", "refused"}
  /\ gate' = IF gate = s THEN NoCall ELSE gate
  /\ UNCHANGED <<paused, phase, pauseWait, step>>

\* shutdown: operations.close aborts the reads that wait at the gate.
CloseOperations ==
  /\ Close
  /\ step' = [c \in Calls |-> IF step[c] = "queued" THEN "refused" ELSE step[c]]
  /\ UNCHANGED <<paused, phase, pauseWait, gate>>

\* Mutant: only the shared tasks are drained, not the exclusive call.
PauseDrainsShared ==
  /\ ~paused /\ ~Closing
  /\ AbortAll
  /\ paused' = TRUE /\ phase' = "draining" /\ pauseWait' = Shared \intersect Running
  /\ UNCHANGED <<gate, step>>

\* pauseWork: abort everything, drain what was admitted so far.
PauseWork ==
  /\ ~paused /\ ~Closing
  /\ AbortAll
  /\ paused' = TRUE /\ phase' = "draining" /\ pauseWait' = Active
  /\ UNCHANGED <<gate, step>>

\* The drain, the watchers and the worker pool are done: close the full store.
PauseDrained ==
  /\ phase = "draining" /\ pauseWait \intersect Active = {}
  /\ phase' = "closing"
  /\ UNCHANGED <<opsVars, paused, pauseWait, gate, step>>

\* The bounded reader is open (or the daemon shuts down), or closing rejected.
PauseSettles ==
  /\ phase = "closing"
  /\ phase' \in {"ready", "failed"}
  /\ UNCHANGED <<opsVars, paused, pauseWait, gate, step>>

GateTake(c) ==
  /\ step[c] = "queued" /\ gate = NoCall
  /\ gate' = c
  /\ step' = [step EXCEPT ![c] = "await"]
  /\ UNCHANGED <<opsVars, paused, phase, pauseWait>>

\* The client of a read that waits at the gate disconnects.
GateAbort(c) ==
  /\ step[c] = "queued"
  /\ step' = [step EXCEPT ![c] = "refused"]
  /\ UNCHANGED <<opsVars, paused, phase, pauseWait, gate>>

AwaitPause(c) ==
  /\ step[c] = "await" /\ phase \in {"ready", "failed"}
  /\ step' = [step EXCEPT ![c] = IF phase = "failed" \/ Closing THEN "refused" ELSE "exec"]
  /\ UNCHANGED <<opsVars, paused, phase, pauseWait, gate>>

\* Mutant: the transition is awaited without a deadline.
AwaitNoTimeout(c) == FALSE /\ AwaitPause(c)

\* withQueryTimeout gives up on pausePromise after 2 s.
AwaitTimeout(c) ==
  /\ step[c] = "await" /\ phase \in {"draining", "closing"}
  /\ step' = [step EXCEPT ![c] = "refused"]
  /\ UNCHANGED <<opsVars, paused, phase, pauseWait, gate>>

-----------------------------------------------------------------------------
PauseNext ==
  \/ Coordinate
  \/ \E s \in Shared : SettleCallback(s)
  \/ CloseOperations
  \/ PauseWork \/ PauseDrained \/ PauseSettles
  \/ \E c \in Calls : GateTake(c) \/ GateAbort(c) \/ AwaitPause(c) \/ AwaitTimeout(c)

PauseSpec == PauseInit /\ [][PauseNext]_daemonVars

CoordinateFor(A) == A /\ Body /\ UNCHANGED <<paused, phase, pauseWait, gate>>

\* Callbacks settle unless wedged; timers and promise reactions run.  A
\* callback that opens windows opens a bounded number of them.
PauseFairness ==
  /\ \A s \in Shared \ Wedged : WF_daemonVars(SettleCallback(s))
  /\ \A x \in Exclusive :
       /\ WF_daemonVars(CoordinateFor(\/ QuiesceFails(x) \/ (Quiesced(x) /\ step[x] = "exec")
                                      \/ DrainDone(x) \/ DrainTimeout(x)
                                      \/ Sealed(x) \/ SealTimeout(x)))
       /\ SF_daemonVars(CoordinateFor(SettleExclusive(x)))
  /\ WF_daemonVars(CoordinateFor(Closed))
  /\ WF_daemonVars(PauseDrained \/ PauseSettles)
  /\ \A c \in PausedReads :
       /\ SF_daemonVars(GateTake(c))
       /\ WF_daemonVars(AwaitPause(c) \/ AwaitTimeout(c))

PauseFairSpec == PauseSpec /\ PauseFairness

-----------------------------------------------------------------------------
(* Properties *)

\* While the transition closes the full store, no callback executes: what ran
\* before the pause was drained, what was admitted since waits behind it.
QuietWhileClosing == phase = "closing" => Executing = {}

\* The bounded reader serves one call at a time, whatever path admitted it: a
\* direct call, a waiter resumed behind an exclusive call or into its window.
OneBoundedRead == phase = "ready" => Cardinality(Executing) <= 1

\* Nothing hangs: in the end no call is under way (each is made at most once),
\* also behind the gate, a close that began is over, and so is the transition
\* to paused service.  It drains exclusive calls that drain reads that await
\* the transition: the deadline of those reads breaks the circle.
NothingHangs ==
  <>[](/\ \A c \in Calls : pc[c] \in {"idle", "done", "failed"}
       /\ state # "closing"
       /\ phase \notin {"draining", "closing"})
=============================================================================
