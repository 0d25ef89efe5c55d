--------------------------- MODULE DaemonLifecycle ---------------------------
(***************************************************************************)
(* One daemon per home directory (Daemon.start and performShutdown in      *)
(* src/lib/daemon/daemon.ts, ProcessManager.assertStartupAvailable, the    *)
(* markers of src/lib/utils/daemon-client.ts).                             *)
(*                                                                         *)
(* Any number of processes may start as a daemon at any time.  They agree  *)
(* through files only: a lock, a socket, a PID file and a draining marker. *)
(* A daemon that stops gives up the socket, the PID file and the lock long *)
(* before it has closed its store, and its successor may start meanwhile.  *)
(* Starting and stopping are two threads of control of one process: one    *)
(* action is what runs between two awaits of either.                       *)
(***************************************************************************)
EXTENDS Integers

CONSTANTS
  MaxProcs,         \* bound: processes started as a daemon
  MaxStops,         \* bound: shutdowns asked for
  MaxFaults,        \* bound: kills, failures and stale locks
  SleepAnywhere,    \* a daemon may sleep through its lock before it has a PID file or while it stops
  StopWhileWatching \* a shutdown without exit may meet start() while it watches projects

ASSUME LifecycleAssumption ==
  /\ {MaxProcs, MaxStops, MaxFaults} \subseteq Nat
  /\ {SleepAnywhere, StopWhileWatching} \subseteq BOOLEAN

Procs == 1..MaxProcs
Nobody == 0

VARIABLES
  lock, sock, pidFile, \* whose they are
  marker, fresh,       \* whom the draining marker names; younger than DRAIN_GRACE_MS
  life,                \* of each process: unborn, alive or dead
  pc,                  \* how far its start() is
  waitsFor,            \* the process whose drain it awaits
  sd,                  \* how far its performShutdown() is
  held,                \* it has a lock to release
  owns,                \* ownsControlState
  server,              \* its server: none, listening or closed
  open,                \* it has the store open, or may still have it open
  armed,               \* its intervals keep it alive
  exits, relaunch,     \* what follows its shutdown
  stops, faults

files == <<lock, sock, pidFile, marker, fresh>>
threads == <<life, pc, waitsFor, sd>>
own == <<held, owns, server, open, armed>>
after == <<exits, relaunch>>
bounds == <<stops, faults>>
lifeVars == <<files, threads, own, after, bounds>>

LifeInit ==
  /\ lock = Nobody /\ sock = Nobody /\ pidFile = Nobody /\ marker = Nobody /\ fresh = FALSE
  /\ life = [p \in Procs |-> "unborn"] /\ pc = [p \in Procs |-> "pid"]
  /\ waitsFor = [p \in Procs |-> Nobody] /\ sd = [p \in Procs |-> "no"]
  /\ held = [p \in Procs |-> FALSE] /\ owns = [p \in Procs |-> FALSE]
  /\ server = [p \in Procs |-> "none"] /\ open = [p \in Procs |-> FALSE]
  /\ armed = [p \in Procs |-> FALSE]
  /\ exits = [p \in Procs |-> FALSE] /\ relaunch = [p \in Procs |-> FALSE]
  /\ stops = 0 /\ faults = 0

Alive(p) == p \in Procs /\ life[p] = "alive"
Stopping(p) == sd[p] \notin {"no", "begin"}
Fault == faults < MaxFaults /\ faults' = faults + 1

\* The end of a process is the end of what it had in memory.
Dies(p) ==
  /\ life' = [life EXCEPT ![p] = "dead"]
  /\ pc' = [pc EXCEPT ![p] = "pid"] /\ sd' = [sd EXCEPT ![p] = "no"]
  /\ waitsFor' = [waitsFor EXCEPT ![p] = Nobody]
  /\ server' = [server EXCEPT ![p] = "none"]
  /\ held' = [held EXCEPT ![p] = FALSE] /\ owns' = [owns EXCEPT ![p] = FALSE]
  /\ open' = [open EXCEPT ![p] = FALSE] /\ armed' = [armed EXCEPT ![p] = FALSE]
  /\ exits' = [exits EXCEPT ![p] = FALSE] /\ relaunch' = [relaunch EXCEPT ![p] = FALSE]

\* The lock library removes the lock of a process that exits.
LockOfExited(p) == lock' = IF lock = p THEN Nobody ELSE lock

\* Processes are numbered in the order in which they start.
Born(p) ==
  /\ life[p] = "unborn" /\ \A q \in 1..p - 1 : life[q] # "unborn"
  /\ life' = [life EXCEPT ![p] = "alive"]

\* Mutant: the PID file is written before the lock is taken.
SpawnPublished(p) ==
  /\ Born(p) /\ pidFile' = p
  /\ UNCHANGED <<lock, sock, marker, fresh, pc, waitsFor, sd, own, after, bounds>>

\* spawnDaemon, a hook, a service manager or a user.
Spawn(p) ==
  /\ Born(p)
  /\ UNCHANGED <<files, pc, waitsFor, sd, own, after, bounds>>

-----------------------------------------------------------------------------
(* start() *)

Step(p, from, to) == Alive(p) /\ pc[p] = from /\ pc' = [pc EXCEPT ![p] = to]

\* start() throws, and its caller shuts the daemon down.
Throws(p) ==
  /\ pc' = [pc EXCEPT ![p] = "failed"]
  /\ sd' = [sd EXCEPT ![p] = IF @ = "no" THEN "begin" ELSE @]

Checks == {"pid", "marker", "pidAgain", "markerAgain"}
NextCheck == [c \in Checks |-> CASE c = "pid" -> "marker" [] c = "marker" -> "lock"
                                 [] c = "pidAgain" -> "markerAgain" [] OTHER -> "listen"]
Named(c) == IF c \in {"pid", "pidAgain"} THEN pidFile ELSE marker

\* The second round ends under the lock: from here on the files are this
\* daemon's.
CheckPassed(p) ==
  LET next == NextCheck[pc[p]] IN
  /\ waitsFor' = [waitsFor EXCEPT ![p] = Nobody]
  /\ IF next \in {"lock", "listen"} /\ Stopping(p)
     THEN Throws(p) /\ UNCHANGED owns
     ELSE /\ pc' = [pc EXCEPT ![p] = next]
          /\ owns' = IF next = "listen" THEN [owns EXCEPT ![p] = TRUE] ELSE owns
          /\ UNCHANGED sd
  /\ UNCHANGED <<files, life, held, server, open, armed, after, bounds>>

\* Mutant: the files are not read again under the lock.
CheckOnce(p) ==
  /\ Alive(p) /\ pc[p] \in Checks /\ waitsFor[p] = Nobody
  /\ LET q == Named(pc[p]) IN
     \/ (q \in {Nobody, p} \/ ~Alive(q) \/ pc[p] \in {"pidAgain", "markerAgain"}) /\ CheckPassed(p)
     \/ /\ Alive(q) /\ q # p /\ pc[p] \in {"pid", "marker"}
        /\ IF marker = q /\ fresh THEN waitsFor' = [waitsFor EXCEPT ![p] = q] /\ UNCHANGED <<pc, sd>>
                                  ELSE Throws(p) /\ UNCHANGED waitsFor
        /\ UNCHANGED <<files, life, own, after, bounds>>

\* assertStartupAvailable: a live process named by a file is waited for when it
\* is draining, and otherwise respected.
Check(p) ==
  /\ Alive(p) /\ pc[p] \in Checks /\ waitsFor[p] = Nobody
  /\ LET q == Named(pc[p]) IN
     \/ (q \in {Nobody, p} \/ ~Alive(q)) /\ CheckPassed(p)
     \/ /\ Alive(q) /\ q # p
        /\ IF marker = q /\ fresh THEN waitsFor' = [waitsFor EXCEPT ![p] = q] /\ UNCHANGED <<pc, sd>>
                                  ELSE Throws(p) /\ UNCHANGED waitsFor
        /\ UNCHANGED <<files, life, own, after, bounds>>

WaitEnds(p) == Alive(p) /\ waitsFor[p] # Nobody /\ ~Alive(waitsFor[p]) /\ CheckPassed(p)

WaitTimesOut(p) ==
  /\ Alive(p) /\ Alive(waitsFor[p])
  /\ Throws(p) /\ waitsFor' = [waitsFor EXCEPT ![p] = Nobody]
  /\ UNCHANGED <<files, life, own, after, bounds>>

\* The lock is taken if it is free, or was not refreshed for two minutes; there
\* is no second try.
Lock(p) ==
  /\ Alive(p) /\ pc[p] = "lock"
  /\ Alive(lock) => SleepAnywhere \/ (pidFile = lock /\ ~Stopping(lock))
  /\ IF Alive(lock) THEN Fault ELSE UNCHANGED faults
  /\ lock' = p /\ held' = [held EXCEPT ![p] = TRUE] /\ pc' = [pc EXCEPT ![p] = "pidAgain"]
  /\ UNCHANGED <<sock, pidFile, marker, fresh, life, waitsFor, sd, owns, server, open, armed, after, stops>>

Locked(p) ==
  /\ Alive(p) /\ pc[p] = "lock" /\ lock # Nobody
  /\ Dies(p) /\ LockOfExited(p)
  /\ UNCHANGED <<sock, pidFile, marker, fresh, bounds>>

\* The socket that may be left is replaced, the server listens, and only then is
\* the PID file written and the store opened.
Listen(p) ==
  /\ Step(p, "listen", "recover")
  /\ sock' = p /\ server' = [server EXCEPT ![p] = "listening"]
  /\ pidFile' = p /\ open' = [open EXCEPT ![p] = TRUE]
  /\ UNCHANGED <<lock, marker, fresh, life, waitsFor, sd, held, owns, armed, after, bounds>>

\* Recovery, workers, MLX: any of them may fail.
Recover(p) ==
  /\ Alive(p) /\ pc[p] = "recover"
  /\ \/ Stopping(p) /\ Throws(p) /\ UNCHANGED faults
     \/ ~Stopping(p) /\ Fault /\ Throws(p)
     \/ ~Stopping(p) /\ pc' = [pc EXCEPT ![p] = "watch"] /\ UNCHANGED <<sd, faults>>
  /\ UNCHANGED <<files, life, waitsFor, own, after, stops>>

\* The projects are watched one by one.  A shutdown that has begun meanwhile is
\* caught with the errors of the projects, and the intervals are armed.
WatchProjects(p) ==
  /\ Step(p, "watch", "serving")
  /\ armed' = [armed EXCEPT ![p] = TRUE]
  /\ UNCHANGED <<files, life, waitsFor, sd, held, owns, server, open, after, bounds>>

-----------------------------------------------------------------------------
(* What asks for a shutdown *)

Asked(p) ==
  /\ stops < MaxStops /\ stops' = stops + 1
  /\ sd' = [sd EXCEPT ![p] = IF @ = "no" THEN "begin" ELSE @]

\* The shutdown command and the idle interval: nothing forces the process to exit.
StopQuietly(p) ==
  /\ Alive(p) /\ server[p] = "listening" /\ sock = p
  /\ Asked(p)
  /\ UNCHANGED <<files, life, pc, waitsFor, own, after, faults>>

\* SIGTERM and SIGINT, and the recycling of an old daemon, which starts another.
StopAndExit(p, again) ==
  /\ Alive(p) /\ (again => pc[p] = "serving" /\ ~Stopping(p))
  /\ Asked(p) /\ exits' = [exits EXCEPT ![p] = TRUE]
  /\ relaunch' = [relaunch EXCEPT ![p] = @ \/ again]
  /\ UNCHANGED <<files, life, pc, waitsFor, own, faults>>

\* onCompromised: another process has taken the lock, or it is gone.
Compromised(p) ==
  /\ Alive(p) /\ held[p] /\ lock # p
  /\ owns' = [owns EXCEPT ![p] = FALSE] /\ held' = [held EXCEPT ![p] = FALSE]
  /\ exits' = [exits EXCEPT ![p] = TRUE]
  /\ sd' = [sd EXCEPT ![p] = IF @ = "no" THEN "begin" ELSE @]
  /\ UNCHANGED <<files, life, pc, waitsFor, server, open, armed, relaunch, bounds>>

-----------------------------------------------------------------------------
(* performShutdown() *)

\* start() is at an await, so that the other thread of the process may begin; a
\* daemon that wakes up looks after its lock first.
AtAwait(p) ==
  /\ held[p] /\ lock # p => SleepAnywhere
  /\ pc[p] \notin Checks \union {"listen"} \/ waitsFor[p] # Nobody
  /\ pc[p] = "watch" => exits[p] \/ StopWhileWatching

ShutStep(p, from, to) == Alive(p) /\ sd[p] = from /\ sd' = [sd EXCEPT ![p] = to]

\* Mutant: a daemon that stops removes the files whosoever they are.
ClosedAnyway(p) ==
  /\ server' = [server EXCEPT ![p] = IF @ = "listening" THEN "closed" ELSE @]
  /\ sock' = Nobody

\* Closing a server removes the file of its socket.
Closed(p) ==
  /\ server' = [server EXCEPT ![p] = IF @ = "listening" THEN "closed" ELSE @]
  /\ sock' = IF owns[p] \/ server[p] = "listening" THEN Nobody ELSE sock

\* The marker is written before the other files are removed.
Begin(p) ==
  /\ ShutStep(p, "begin", "release") /\ AtAwait(p) /\ Closed(p)
  /\ IF owns[p] THEN marker' = p /\ fresh' = TRUE /\ pidFile' = Nobody
                ELSE UNCHANGED <<marker, fresh, pidFile>>
  /\ UNCHANGED <<lock, life, pc, waitsFor, held, owns, open, armed, after, bounds>>

\* Mutant: the intervals are forgotten.
ReleaseKeepsTimers(p) ==
  /\ ShutStep(p, "release", "drain")
  /\ held' = [held EXCEPT ![p] = FALSE] /\ lock' = IF held[p] THEN Nobody ELSE lock
  /\ UNCHANGED <<sock, pidFile, marker, fresh, life, pc, waitsFor, owns, server, open, armed, after, bounds>>

Release(p) ==
  /\ ShutStep(p, "release", "drain")
  /\ held' = [held EXCEPT ![p] = FALSE] /\ lock' = IF held[p] THEN Nobody ELSE lock
  /\ armed' = [armed EXCEPT ![p] = FALSE]
  /\ UNCHANGED <<sock, pidFile, marker, fresh, life, pc, waitsFor, owns, server, open, after, bounds>>

\* The drain is bounded, so it always ends; then everything is closed.  After an
\* unfinished rebuild a store that cannot be closed stops the shutdown; at any
\* other time a close that fails or takes too long is passed over.
CloseStores(p) ==
  /\ Alive(p) /\ sd[p] = "drain"
  /\ \/ sd' = [sd EXCEPT ![p] = "closed"] /\ open' = [open EXCEPT ![p] = FALSE] /\ UNCHANGED faults
     \/ Fault /\ sd' \in {[sd EXCEPT ![p] = end] : end \in {"stuck", "closed"}} /\ UNCHANGED open
  /\ UNCHANGED <<files, life, pc, waitsFor, held, owns, server, armed, after, stops>>

\* The successor finds the marker of a daemon that has closed what it could.
Relaunch(p) ==
  /\ ShutStep(p, "closed", "clear")
  /\ \/ /\ relaunch[p] /\ owns[p]
        /\ \E q \in Procs : Born(q)
     \/ /\ ~(relaunch[p] /\ owns[p]) \/ \A q \in Procs : life[q] # "unborn"
        /\ UNCHANGED life
  /\ UNCHANGED <<files, pc, waitsFor, own, after, bounds>>

Clear(p) ==
  /\ ShutStep(p, "clear", "done")
  /\ marker' = IF owns[p] THEN Nobody ELSE marker
  /\ owns' = [owns EXCEPT ![p] = FALSE]
  /\ UNCHANGED <<lock, sock, pidFile, fresh, life, pc, waitsFor, held, server, open, armed, after, bounds>>

\* A process exits when it is told to, or when nothing keeps it alive.
Exit(p) ==
  /\ Alive(p)
  /\ \/ exits[p] /\ sd[p] \in {"done", "stuck"}
     \/ sd[p] = "done" /\ ~armed[p] /\ server[p] # "listening" /\ pc[p] \in {"failed", "serving"}
  /\ Dies(p) /\ LockOfExited(p)
  /\ UNCHANGED <<sock, pidFile, marker, fresh, bounds>>

\* SIGKILL, or the time limit of a shutdown: every file is left as it is.
Kill(p) ==
  /\ Alive(p) /\ Fault /\ Dies(p)
  /\ UNCHANGED <<files, stops>>

MarkerAges ==
  /\ fresh /\ fresh' = FALSE
  /\ UNCHANGED <<lock, sock, pidFile, marker, threads, own, after, bounds>>

-----------------------------------------------------------------------------
Start(p) == Check(p) \/ WaitEnds(p) \/ WaitTimesOut(p) \/ Lock(p) \/ Locked(p) \/ Listen(p) \/ Recover(p) \/ WatchProjects(p)
Shutdown(p) == Begin(p) \/ Release(p) \/ CloseStores(p) \/ Relaunch(p) \/ Clear(p) \/ Exit(p)

LifeNext ==
  \/ \E p \in Procs : Spawn(p) \/ Start(p) \/ Shutdown(p) \/ Compromised(p) \/ StopQuietly(p) \/ Kill(p)
  \/ \E p \in Procs, again \in BOOLEAN : StopAndExit(p, again)
  \/ MarkerAges

\* Both threads of a process go on, and so does the timer of its lock: every wait
\* in them has a time limit or ends with the process waited for.
LifeSpec ==
  /\ LifeInit /\ [][LifeNext]_lifeVars
  /\ \A p \in Procs : WF_lifeVars(Start(p)) /\ WF_lifeVars(Shutdown(p)) /\ WF_lifeVars(Compromised(p))

-----------------------------------------------------------------------------
(* Properties *)

LifeTypeOK ==
  /\ {lock, sock, pidFile, marker} \subseteq Procs \union {Nobody} /\ fresh \in BOOLEAN
  /\ life \in [Procs -> {"unborn", "alive", "dead"}]
  /\ pc \in [Procs -> Checks \union {"lock", "listen", "recover", "watch", "serving", "failed"}]
  /\ waitsFor \in [Procs -> Procs \union {Nobody}]
  /\ sd \in [Procs -> {"no", "begin", "release", "drain", "closed", "clear", "done", "stuck"}]
  /\ {held, owns, open, armed, exits, relaunch} \subseteq [Procs -> BOOLEAN]
  /\ server \in [Procs -> {"none", "listening", "closed"}]
  /\ \A p \in Procs : owns[p] => pc[p] \notin Checks \union {"lock"}
  /\ stops \in 0..MaxStops /\ faults \in 0..MaxFaults

\* A shutdown that is over claims the store no longer, although a close that was
\* passed over may leave it open until the process exits.
Claims(p) == Alive(p) /\ open[p] /\ sd[p] # "done"

\* Two daemons never claim the store at the same time, however many start while
\* another one starts, drains, is killed, loses its lock or cannot close it.
OneStoreOwner == \A p, q \in Procs : Claims(p) /\ Claims(q) => p = q

\* A daemon that claims the store is named by a file a newcomer reads, from before
\* it opens the store to the end of its shutdown, a close that failed included.
OwnerIsVisible == \A p \in Procs : Claims(p) => p \in {pidFile, marker}

\* A daemon whose PID a client can read answers it: its socket is there until the
\* daemon itself gives it up.
PublishedIsReachable ==
  \A p \in Procs : Alive(p) /\ pidFile = p /\ ~Stopping(p) => sock = p /\ server[p] = "listening"

\* Starting several daemons at once never leaves none: if nothing was stopped,
\* killed or failed, one of them serves.
OneSurvives ==
  (\E p \in Procs : life[p] # "unborn") /\ stops + faults = 0
    => \E p \in Procs : Alive(p) /\ pc[p] # "failed"

\* A start ends in a daemon that serves or in no process, and a shutdown in no
\* process, unless a resource refused to be closed.
EverythingSettles ==
  <>[](\A p \in Procs : Alive(p) => (pc[p] = "serving" /\ sd[p] = "no") \/ sd[p] = "stuck")
=============================================================================
