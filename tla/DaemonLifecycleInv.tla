------------------------- MODULE DaemonLifecycleInv -------------------------
(* The inductive invariant behind the exclusion of daemons.                 *)
EXTENDS DaemonLifecycle

\* A start that has the lock and has not yet published itself.
Undecided(p) == Alive(p) /\ pc[p] \in {"pidAgain", "markerAgain", "listen"} /\ ~Stopping(p)

\* From the PID file to the end of the shutdown.
UsesStore(p) == Alive(p) /\ sd[p] # "done" /\ (open[p] \/ (owns[p] /\ pc[p] # "listen"))

\* Until it has published itself a start is protected by the lock; nobody may
\* take it, and a shutdown gives back no lock but its own.
LockProtects ==
  /\ \A p \in Procs : Undecided(p) => lock = p
  /\ \A p \in Procs : Alive(p) /\ pidFile = p => pc[p] \in {"recover", "watch", "serving", "failed"}
  /\ \A p \in Procs : pidFile = p => life[p] # "unborn"
  /\ \A p \in Procs : Alive(p) /\ sd[p] = "release" /\ held[p] => lock = p

\* Where the two threads of a process may be, relative to each other.
ThreadsAgree ==
  /\ \A p \in Procs : pc[p] = "listen" => ~Stopping(p)
  /\ \A p \in Procs : waitsFor[p] # Nobody => pc[p] \in Checks
  /\ \A p \in Procs : sd[p] = "done" => ~owns[p]
  /\ \A p \in Procs : ~Alive(p) => pc[p] = "pid" /\ sd[p] = "no" /\ ~open[p] /\ ~owns[p] /\ ~held[p] /\ server[p] = "none"

\* At most one daemon uses the store, and a file names it.
UserIsVisible ==
  /\ \A p, q \in Procs : UsesStore(p) /\ UsesStore(q) => p = q
  /\ \A p \in Procs : UsesStore(p) => p \in {pidFile, marker}

\* What the second look at the files has ruled out: first every user but the one
\* the marker names, then every user.
RuledOut ==
  \A p, q \in Procs : Undecided(p) /\ UsesStore(q) /\ p # q =>
    /\ waitsFor[p] # Nobody => q = waitsFor[p]
    /\ pc[p] = "markerAgain" => q = marker
    /\ pc[p] # "listen"

\* A daemon listens as long as it uses the store and has not begun to stop, and
\* what it has published leads to it.
ServerFollowsStore ==
  /\ \A p \in Procs : Alive(p) /\ server[p] = "listening" => open[p] /\ ~Stopping(p)
  /\ \A p \in Procs : Alive(p) /\ pidFile = p /\ ~Stopping(p) => open[p]
  /\ PublishedIsReachable

\* The inductive invariant: the lock protects a start until its PID file does, and
\* whoever uses the store can be seen by a start that looks under the lock.
LifeInv == LifeTypeOK /\ LockProtects /\ ThreadsAgree /\ UserIsVisible /\ RuledOut /\ ServerFollowsStore
\* Nothing was asked to stop, was killed or failed.
Untroubled == stops = 0 /\ faults = 0

\* Then a start that gives up has nothing to give back.
FailedHasNothing ==
  \A p \in Procs :
    /\ sd[p] # "no" => pc[p] = "failed" /\ Alive(p)
    /\ pc[p] = "failed" => ~held[p] /\ life[p] = "alive"
    /\ pc[p] \in Checks \union {"lock", "failed"} => ~owns[p] /\ server[p] = "none"
    /\ held[p] => lock = p
    /\ life[p] # "alive" => pc[p] = "pid"
    /\ waitsFor[p] = Nobody /\ ~relaunch[p]

\* The lock has one holder, which goes on with its start, and the only process
\* the files name is that one.
HolderGoesOn ==
  /\ lock # Nobody => Alive(lock) /\ pc[lock] \notin {"pid", "marker", "lock", "failed"}
  /\ \A p \in Procs : Alive(p) /\ pc[p] \notin {"pid", "marker", "lock", "failed"} => lock = p
  /\ pidFile \in {Nobody, lock} /\ marker = Nobody

ThreadTypes ==
  /\ lock \in Procs \union {Nobody} /\ life \in [Procs -> {"unborn", "alive", "dead"}]
  /\ pc \in [Procs -> Checks \union {"lock", "listen", "recover", "watch", "serving", "failed"}]
  /\ waitsFor \in [Procs -> Procs \union {Nobody}]
  /\ sd \in [Procs -> {"no", "begin", "release", "drain", "closed", "clear", "done", "stuck"}]
  /\ held \in [Procs -> BOOLEAN] /\ owns \in [Procs -> BOOLEAN] /\ relaunch \in [Procs -> BOOLEAN]
  /\ server \in [Procs -> {"none", "listening", "closed"}]

\* The inductive invariant behind OneSurvives, wherever a daemon may sleep.
SurvivorInv ==
  /\ stops \in Nat /\ faults \in Nat
  /\ Untroubled => ThreadTypes /\ FailedHasNothing /\ HolderGoesOn /\ OneSurvives
=============================================================================
