------------------------ MODULE DaemonLifecycleProofs ------------------------
(***************************************************************************)
(* One user of the store, for any number of processes, shutdowns and       *)
(* faults.  LifeInv is inductive as long as no daemon sleeps through its   *)
(* lock before it has published itself or while it stops (SleepAnywhere).  *)
(***************************************************************************)
EXTENDS DaemonLifecycleInv, TLAPS

\* Nobody is no process.
LEMMA NobodyIsNone == Nobody \notin Procs
  BY LifecycleAssumption DEF Nobody, Procs

\* A check that has passed leads to the next one, to the lock or to the server.
LEMMA PassedTypes ==
  ASSUME LifeTypeOK, NEW p \in Procs, pc[p] \in Checks, CheckPassed(p)
  PROVE  LifeTypeOK'
<1>. USE NobodyIsNone DEF LifeTypeOK, CheckPassed, Throws, Checks, files, own, after, bounds
<1>1. NextCheck[pc[p]] \in {"marker", "lock", "markerAgain", "listen"}
  BY DEF NextCheck
<1>2. CASE NextCheck[pc[p]] \in {"lock", "listen"} /\ Stopping(p)
  BY <1>2
<1>3. CASE ~(NextCheck[pc[p]] \in {"lock", "listen"} /\ Stopping(p))
  <2>1. pc' \in [Procs -> Checks \union {"lock", "listen", "recover", "watch", "serving", "failed"}]
    BY <1>1, <1>3
  <2>2. owns' \in [Procs -> BOOLEAN]
    BY <1>3
  <2>3. \A q \in Procs : owns'[q] => pc'[q] \notin Checks \union {"lock"}
    BY <1>1, <1>3
  <2>. QED BY <1>3, <2>1, <2>2, <2>3
<1>. QED BY <1>2, <1>3

\* A process that starts has nothing yet.
LEMMA SpawnKeeps ==
  ASSUME LifeInv, ~SleepAnywhere, NEW p \in Procs, Spawn(p)
  PROVE  LifeInv'
<1>. USE NobodyIsNone DEF LifeInv, LifeTypeOK, Alive, Stopping, Checks, files, threads, own, after, bounds,
       Spawn, Born
<1>1. LifeTypeOK'
  BY LifecycleAssumption
<1>2. LockProtects'
  BY DEF LockProtects, ThreadsAgree, Undecided
<1>3. ThreadsAgree'
  BY DEF LockProtects, ThreadsAgree
<1>4. UserIsVisible'
  BY DEF ThreadsAgree, UserIsVisible, RuledOut, UsesStore, Undecided
<1>5. RuledOut'
  BY DEF LockProtects, ThreadsAgree, UserIsVisible, RuledOut, UsesStore, Undecided
<1>6. ServerFollowsStore'
  BY DEF LockProtects, ThreadsAgree, UserIsVisible, RuledOut, UsesStore, Undecided, ServerFollowsStore, PublishedIsReachable
<1>. QED BY <1>1, <1>2, <1>3, <1>4, <1>5, <1>6

\* A look at the files rules out whom they do not name.
LEMMA CheckKeeps ==
  ASSUME LifeInv, ~SleepAnywhere, NEW p \in Procs, Check(p)
  PROVE  LifeInv'
<1>1. LifeTypeOK'
  <2>1. CASE CheckPassed(p)
    BY <2>1, PassedTypes DEF Check, LifeInv
  <2>2. CASE ~CheckPassed(p)
    BY <2>2, NobodyIsNone DEF Check, LifeInv, LifeTypeOK, Throws, Checks, Named, files, own, after, bounds
  <2>. QED BY <2>1, <2>2
<1>. USE NobodyIsNone DEF LifeInv, LifeTypeOK, Alive, Stopping, Checks, files, threads, own, after, bounds,
       Check, CheckPassed, Throws, NextCheck, Named
<1>2. LockProtects'
  BY DEF LockProtects, ThreadsAgree, Undecided
<1>3. ThreadsAgree'
  BY DEF LockProtects, ThreadsAgree
<1>4. UserIsVisible'
  BY DEF ThreadsAgree, UserIsVisible, RuledOut, UsesStore, Undecided
<1>5. RuledOut'
  BY DEF LockProtects, ThreadsAgree, UserIsVisible, RuledOut, UsesStore, Undecided
<1>6. ServerFollowsStore'
  BY DEF LockProtects, ThreadsAgree, UserIsVisible, RuledOut, UsesStore, Undecided, ServerFollowsStore, PublishedIsReachable
<1>. QED BY <1>1, <1>2, <1>3, <1>4, <1>5, <1>6

\* A wait ends with the process it was for.
LEMMA WaitEndsKeeps ==
  ASSUME LifeInv, ~SleepAnywhere, NEW p \in Procs, WaitEnds(p)
  PROVE  LifeInv'
<1>1. LifeTypeOK'
  BY PassedTypes DEF WaitEnds, LifeInv, ThreadsAgree
<1>. USE NobodyIsNone DEF LifeInv, LifeTypeOK, Alive, Stopping, Checks, files, threads, own, after, bounds,
       WaitEnds, CheckPassed, Throws, NextCheck
<1>2. LockProtects'
  BY DEF LockProtects, ThreadsAgree, Undecided
<1>3. ThreadsAgree'
  BY DEF LockProtects, ThreadsAgree
<1>4. UserIsVisible'
  BY DEF ThreadsAgree, UserIsVisible, RuledOut, UsesStore, Undecided
<1>5. RuledOut'
  BY DEF LockProtects, ThreadsAgree, UserIsVisible, RuledOut, UsesStore, Undecided
<1>6. ServerFollowsStore'
  BY DEF LockProtects, ThreadsAgree, UserIsVisible, RuledOut, UsesStore, Undecided, ServerFollowsStore, PublishedIsReachable
<1>. QED BY <1>1, <1>2, <1>3, <1>4, <1>5, <1>6

\* A wait that is too long ends the start.
LEMMA WaitTimesOutKeeps ==
  ASSUME LifeInv, ~SleepAnywhere, NEW p \in Procs, WaitTimesOut(p)
  PROVE  LifeInv'
<1>. USE NobodyIsNone DEF LifeInv, LifeTypeOK, Alive, Stopping, Checks, files, threads, own, after, bounds,
       WaitTimesOut, Throws
<1>1. LifeTypeOK'
  BY LifecycleAssumption
<1>2. LockProtects'
  BY DEF LockProtects, ThreadsAgree, Undecided
<1>3. ThreadsAgree'
  BY DEF LockProtects, ThreadsAgree
<1>4. UserIsVisible'
  BY DEF ThreadsAgree, UserIsVisible, RuledOut, UsesStore, Undecided
<1>5. RuledOut'
  BY DEF LockProtects, ThreadsAgree, UserIsVisible, RuledOut, UsesStore, Undecided
<1>6. ServerFollowsStore'
  BY DEF LockProtects, ThreadsAgree, UserIsVisible, RuledOut, UsesStore, Undecided, ServerFollowsStore, PublishedIsReachable
<1>. QED BY <1>1, <1>2, <1>3, <1>4, <1>5, <1>6

\* The lock is not taken from a start that is undecided.
LEMMA LockKeeps ==
  ASSUME LifeInv, ~SleepAnywhere, NEW p \in Procs, Lock(p)
  PROVE  LifeInv'
<1>. USE NobodyIsNone DEF LifeInv, LifeTypeOK, Alive, Stopping, Checks, files, threads, own, after, bounds,
       Lock, Fault
<1>1. LifeTypeOK'
  BY LifecycleAssumption
<1>2. LockProtects'
  BY DEF LockProtects, ThreadsAgree, Undecided
<1>3. ThreadsAgree'
  BY DEF LockProtects, ThreadsAgree
<1>4. UserIsVisible'
  BY DEF ThreadsAgree, UserIsVisible, RuledOut, UsesStore, Undecided
<1>5. RuledOut'
  BY DEF LockProtects, ThreadsAgree, UserIsVisible, RuledOut, UsesStore, Undecided
<1>6. ServerFollowsStore'
  BY DEF LockProtects, ThreadsAgree, UserIsVisible, RuledOut, UsesStore, Undecided, ServerFollowsStore, PublishedIsReachable
<1>. QED BY <1>1, <1>2, <1>3, <1>4, <1>5, <1>6

\* A start that finds the lock taken gives back none.
LEMMA LockedKeeps ==
  ASSUME LifeInv, ~SleepAnywhere, NEW p \in Procs, Locked(p)
  PROVE  LifeInv'
<1>. USE NobodyIsNone DEF LifeInv, LifeTypeOK, Alive, Stopping, Checks, files, threads, own, after, bounds,
       Locked, Dies, LockOfExited
<1>1. LifeTypeOK'
  BY LifecycleAssumption
<1>2. LockProtects'
  BY DEF LockProtects, ThreadsAgree, Undecided
<1>3. ThreadsAgree'
  BY DEF LockProtects, ThreadsAgree
<1>4. UserIsVisible'
  BY DEF ThreadsAgree, UserIsVisible, RuledOut, UsesStore, Undecided
<1>5. RuledOut'
  BY DEF LockProtects, ThreadsAgree, UserIsVisible, RuledOut, UsesStore, Undecided
<1>6. ServerFollowsStore'
  BY DEF LockProtects, ThreadsAgree, UserIsVisible, RuledOut, UsesStore, Undecided, ServerFollowsStore, PublishedIsReachable
<1>. QED BY <1>1, <1>2, <1>3, <1>4, <1>5, <1>6

\* Whoever publishes itself is alone.
LEMMA ListenKeeps ==
  ASSUME LifeInv, ~SleepAnywhere, NEW p \in Procs, Listen(p)
  PROVE  LifeInv'
<1>. USE NobodyIsNone DEF LifeInv, LifeTypeOK, Alive, Stopping, Checks, files, threads, own, after, bounds,
       Listen, Step
<1>1. LifeTypeOK'
  BY LifecycleAssumption
<1>2. LockProtects'
  BY DEF LockProtects, ThreadsAgree, Undecided
<1>3. ThreadsAgree'
  BY DEF LockProtects, ThreadsAgree
<1>4. UserIsVisible'
  BY DEF ThreadsAgree, UserIsVisible, RuledOut, UsesStore, Undecided
<1>5. RuledOut'
  BY DEF LockProtects, ThreadsAgree, UserIsVisible, RuledOut, UsesStore, Undecided
<1>6. ServerFollowsStore'
  BY DEF LockProtects, ThreadsAgree, UserIsVisible, RuledOut, UsesStore, Undecided, ServerFollowsStore, PublishedIsReachable
<1>. QED BY <1>1, <1>2, <1>3, <1>4, <1>5, <1>6

\* What may fail after the store is open.
LEMMA RecoverKeeps ==
  ASSUME LifeInv, ~SleepAnywhere, NEW p \in Procs, Recover(p)
  PROVE  LifeInv'
<1>. USE NobodyIsNone DEF LifeInv, LifeTypeOK, Alive, Stopping, Checks, files, threads, own, after, bounds,
       Recover, Throws, Fault
<1>1. LifeTypeOK'
  BY LifecycleAssumption
<1>2. LockProtects'
  BY DEF LockProtects, ThreadsAgree, Undecided
<1>3. ThreadsAgree'
  BY DEF LockProtects, ThreadsAgree
<1>4. UserIsVisible'
  BY DEF ThreadsAgree, UserIsVisible, RuledOut, UsesStore, Undecided
<1>5. RuledOut'
  BY DEF LockProtects, ThreadsAgree, UserIsVisible, RuledOut, UsesStore, Undecided
<1>6. ServerFollowsStore'
  BY DEF LockProtects, ThreadsAgree, UserIsVisible, RuledOut, UsesStore, Undecided, ServerFollowsStore, PublishedIsReachable
<1>. QED BY <1>1, <1>2, <1>3, <1>4, <1>5, <1>6

\* The last step of a start.
LEMMA WatchProjectsKeeps ==
  ASSUME LifeInv, ~SleepAnywhere, NEW p \in Procs, WatchProjects(p)
  PROVE  LifeInv'
<1>. USE NobodyIsNone DEF LifeInv, LifeTypeOK, Alive, Stopping, Checks, files, threads, own, after, bounds,
       WatchProjects, Step
<1>1. LifeTypeOK'
  BY LifecycleAssumption
<1>2. LockProtects'
  BY DEF LockProtects, ThreadsAgree, Undecided
<1>3. ThreadsAgree'
  BY DEF LockProtects, ThreadsAgree
<1>4. UserIsVisible'
  BY DEF ThreadsAgree, UserIsVisible, RuledOut, UsesStore, Undecided
<1>5. RuledOut'
  BY DEF LockProtects, ThreadsAgree, UserIsVisible, RuledOut, UsesStore, Undecided
<1>6. ServerFollowsStore'
  BY DEF LockProtects, ThreadsAgree, UserIsVisible, RuledOut, UsesStore, Undecided, ServerFollowsStore, PublishedIsReachable
<1>. QED BY <1>1, <1>2, <1>3, <1>4, <1>5, <1>6

\* A daemon that lost its lock is still named by its PID file.
LEMMA CompromisedKeeps ==
  ASSUME LifeInv, ~SleepAnywhere, NEW p \in Procs, Compromised(p)
  PROVE  LifeInv'
<1>. USE NobodyIsNone DEF LifeInv, LifeTypeOK, Alive, Stopping, Checks, files, threads, own, after, bounds,
       Compromised
<1>1. LifeTypeOK'
  BY LifecycleAssumption
<1>2. LockProtects'
  BY DEF LockProtects, ThreadsAgree, Undecided
<1>3. ThreadsAgree'
  BY DEF LockProtects, ThreadsAgree
<1>4. UserIsVisible'
  BY DEF ThreadsAgree, UserIsVisible, RuledOut, UsesStore, Undecided
<1>5. RuledOut'
  BY DEF LockProtects, ThreadsAgree, UserIsVisible, RuledOut, UsesStore, Undecided
<1>6. ServerFollowsStore'
  BY DEF LockProtects, ThreadsAgree, UserIsVisible, RuledOut, UsesStore, Undecided, ServerFollowsStore, PublishedIsReachable
<1>. QED BY <1>1, <1>2, <1>3, <1>4, <1>5, <1>6

\* A shutdown that is asked for has not begun.
LEMMA StopQuietlyKeeps ==
  ASSUME LifeInv, ~SleepAnywhere, NEW p \in Procs, StopQuietly(p)
  PROVE  LifeInv'
<1>. USE NobodyIsNone DEF LifeInv, LifeTypeOK, Alive, Stopping, Checks, files, threads, own, after, bounds,
       StopQuietly, Asked
<1>1. LifeTypeOK'
  BY LifecycleAssumption
<1>2. LockProtects'
  BY DEF LockProtects, ThreadsAgree, Undecided
<1>3. ThreadsAgree'
  BY DEF LockProtects, ThreadsAgree
<1>4. UserIsVisible'
  BY DEF ThreadsAgree, UserIsVisible, RuledOut, UsesStore, Undecided
<1>5. RuledOut'
  BY DEF LockProtects, ThreadsAgree, UserIsVisible, RuledOut, UsesStore, Undecided
<1>6. ServerFollowsStore'
  BY DEF LockProtects, ThreadsAgree, UserIsVisible, RuledOut, UsesStore, Undecided, ServerFollowsStore, PublishedIsReachable
<1>. QED BY <1>1, <1>2, <1>3, <1>4, <1>5, <1>6

\* A killed process uses nothing.
LEMMA KillKeeps ==
  ASSUME LifeInv, ~SleepAnywhere, NEW p \in Procs, Kill(p)
  PROVE  LifeInv'
<1>. USE NobodyIsNone DEF LifeInv, LifeTypeOK, Alive, Stopping, Checks, files, threads, own, after, bounds,
       Kill, Fault, Dies
<1>1. LifeTypeOK'
  BY LifecycleAssumption
<1>2. LockProtects'
  BY DEF LockProtects, ThreadsAgree, Undecided
<1>3. ThreadsAgree'
  BY DEF LockProtects, ThreadsAgree
<1>4. UserIsVisible'
  BY DEF ThreadsAgree, UserIsVisible, RuledOut, UsesStore, Undecided
<1>5. RuledOut'
  BY DEF LockProtects, ThreadsAgree, UserIsVisible, RuledOut, UsesStore, Undecided
<1>6. ServerFollowsStore'
  BY DEF LockProtects, ThreadsAgree, UserIsVisible, RuledOut, UsesStore, Undecided, ServerFollowsStore, PublishedIsReachable
<1>. QED BY <1>1, <1>2, <1>3, <1>4, <1>5, <1>6

\* The marker takes over from the PID file.
LEMMA BeginKeeps ==
  ASSUME LifeInv, ~SleepAnywhere, NEW p \in Procs, Begin(p)
  PROVE  LifeInv'
<1>. USE NobodyIsNone DEF LifeInv, LifeTypeOK, Alive, Stopping, Checks, files, threads, own, after, bounds,
       Begin, ShutStep, AtAwait, Closed
<1>1. LifeTypeOK'
  BY LifecycleAssumption
<1>2. LockProtects'
  BY DEF LockProtects, ThreadsAgree, Undecided
<1>3. ThreadsAgree'
  BY DEF LockProtects, ThreadsAgree
<1>4. UserIsVisible'
  BY DEF ThreadsAgree, UserIsVisible, RuledOut, UsesStore, Undecided
<1>5. RuledOut'
  BY DEF LockProtects, ThreadsAgree, UserIsVisible, RuledOut, UsesStore, Undecided
<1>6. ServerFollowsStore'
  BY DEF LockProtects, ThreadsAgree, UserIsVisible, RuledOut, UsesStore, Undecided, ServerFollowsStore, PublishedIsReachable
<1>. QED BY <1>1, <1>2, <1>3, <1>4, <1>5, <1>6

\* The lock given back is the one that was taken.
LEMMA ReleaseKeeps ==
  ASSUME LifeInv, ~SleepAnywhere, NEW p \in Procs, Release(p)
  PROVE  LifeInv'
<1>. USE NobodyIsNone DEF LifeInv, LifeTypeOK, Alive, Stopping, Checks, files, threads, own, after, bounds,
       Release, ShutStep
<1>1. LifeTypeOK'
  BY LifecycleAssumption
<1>2. LockProtects'
  BY DEF LockProtects, ThreadsAgree, Undecided
<1>3. ThreadsAgree'
  BY DEF LockProtects, ThreadsAgree
<1>4. UserIsVisible'
  BY DEF ThreadsAgree, UserIsVisible, RuledOut, UsesStore, Undecided
<1>5. RuledOut'
  BY DEF LockProtects, ThreadsAgree, UserIsVisible, RuledOut, UsesStore, Undecided
<1>6. ServerFollowsStore'
  BY DEF LockProtects, ThreadsAgree, UserIsVisible, RuledOut, UsesStore, Undecided, ServerFollowsStore, PublishedIsReachable
<1>. QED BY <1>1, <1>2, <1>3, <1>4, <1>5, <1>6

\* The store is closed, or not, behind the marker.
LEMMA CloseStoresKeeps ==
  ASSUME LifeInv, ~SleepAnywhere, NEW p \in Procs, CloseStores(p)
  PROVE  LifeInv'
<1>. USE NobodyIsNone DEF LifeInv, LifeTypeOK, Alive, Stopping, Checks, files, threads, own, after, bounds,
       CloseStores, Fault
<1>1. LifeTypeOK'
  <2>1. CASE sd' = [sd EXCEPT ![p] = "closed"] /\ open' = [open EXCEPT ![p] = FALSE] /\ UNCHANGED faults
    BY <2>1
  <2>2. CASE Fault /\ sd' = [sd EXCEPT ![p] = "stuck"] /\ UNCHANGED open
    BY <2>2, LifecycleAssumption
  <2>3. CASE Fault /\ sd' = [sd EXCEPT ![p] = "closed"] /\ UNCHANGED open
    BY <2>3, LifecycleAssumption
  <2>. QED BY <2>1, <2>2, <2>3
<1>2. LockProtects'
  BY DEF LockProtects, ThreadsAgree, Undecided
<1>3. ThreadsAgree'
  BY DEF LockProtects, ThreadsAgree
<1>4. UserIsVisible'
  <2>1. \A q \in Procs : UsesStore(q)' => UsesStore(q)
    BY DEF UsesStore
  <2>. QED BY <2>1 DEF UserIsVisible
<1>5. RuledOut'
  BY DEF LockProtects, ThreadsAgree, UserIsVisible, RuledOut, UsesStore, Undecided
<1>6. ServerFollowsStore'
  <2>1. Stopping(p) /\ \A q \in Procs : Stopping(q)' = Stopping(q) /\ (q # p => open'[q] = open[q])
    OBVIOUS
  <2>2. UNCHANGED <<life, server, pidFile, sock>>
    OBVIOUS
  <2>. QED BY ONLY <2>1, <2>2, LifeInv DEF LifeInv, ServerFollowsStore, PublishedIsReachable, Alive
<1>. QED BY <1>1, <1>2, <1>3, <1>4, <1>5, <1>6

\* The successor starts like any other.
LEMMA RelaunchKeeps ==
  ASSUME LifeInv, ~SleepAnywhere, NEW p \in Procs, Relaunch(p)
  PROVE  LifeInv'
<1>. USE NobodyIsNone DEF LifeInv, LifeTypeOK, Alive, Stopping, Checks, files, threads, own, after, bounds,
       Relaunch, ShutStep, Born
<1>1. LifeTypeOK'
  BY LifecycleAssumption
<1>2. LockProtects'
  BY DEF LockProtects, ThreadsAgree, Undecided
<1>3. ThreadsAgree'
  BY DEF LockProtects, ThreadsAgree
<1>4. UserIsVisible'
  BY DEF ThreadsAgree, UserIsVisible, RuledOut, UsesStore, Undecided
<1>5. RuledOut'
  BY DEF LockProtects, ThreadsAgree, UserIsVisible, RuledOut, UsesStore, Undecided
<1>6. ServerFollowsStore'
  BY DEF LockProtects, ThreadsAgree, UserIsVisible, RuledOut, UsesStore, Undecided, ServerFollowsStore, PublishedIsReachable
<1>. QED BY <1>1, <1>2, <1>3, <1>4, <1>5, <1>6

\* The marker goes after the store is closed.
LEMMA ClearKeeps ==
  ASSUME LifeInv, ~SleepAnywhere, NEW p \in Procs, Clear(p)
  PROVE  LifeInv'
<1>. USE NobodyIsNone DEF LifeInv, LifeTypeOK, Alive, Stopping, Checks, files, threads, own, after, bounds,
       Clear, ShutStep
<1>1. LifeTypeOK'
  BY LifecycleAssumption
<1>2. LockProtects'
  BY DEF LockProtects, ThreadsAgree, Undecided
<1>3. ThreadsAgree'
  BY DEF LockProtects, ThreadsAgree
<1>4. UserIsVisible'
  BY DEF ThreadsAgree, UserIsVisible, RuledOut, UsesStore, Undecided
<1>5. RuledOut'
  BY DEF LockProtects, ThreadsAgree, UserIsVisible, RuledOut, UsesStore, Undecided
<1>6. ServerFollowsStore'
  BY DEF LockProtects, ThreadsAgree, UserIsVisible, RuledOut, UsesStore, Undecided, ServerFollowsStore, PublishedIsReachable
<1>. QED BY <1>1, <1>2, <1>3, <1>4, <1>5, <1>6

\* A process that exits uses nothing.
LEMMA ExitKeeps ==
  ASSUME LifeInv, ~SleepAnywhere, NEW p \in Procs, Exit(p)
  PROVE  LifeInv'
<1>. USE NobodyIsNone DEF LifeInv, LifeTypeOK, Alive, Stopping, Checks, files, threads, own, after, bounds,
       Exit, Dies, LockOfExited
<1>1. LifeTypeOK'
  BY LifecycleAssumption
<1>2. LockProtects'
  BY DEF LockProtects, ThreadsAgree, Undecided
<1>3. ThreadsAgree'
  BY DEF LockProtects, ThreadsAgree
<1>4. UserIsVisible'
  BY DEF ThreadsAgree, UserIsVisible, RuledOut, UsesStore, Undecided
<1>5. RuledOut'
  BY DEF LockProtects, ThreadsAgree, UserIsVisible, RuledOut, UsesStore, Undecided
<1>6. ServerFollowsStore'
  BY DEF LockProtects, ThreadsAgree, UserIsVisible, RuledOut, UsesStore, Undecided, ServerFollowsStore, PublishedIsReachable
<1>. QED BY <1>1, <1>2, <1>3, <1>4, <1>5, <1>6

\* The age of the marker is looked at, but nobody relies on it.
LEMMA MarkerAgesKeeps ==
  ASSUME LifeInv, ~SleepAnywhere, MarkerAges
  PROVE  LifeInv'
<1>. USE NobodyIsNone DEF LifeInv, LifeTypeOK, Alive, Stopping, Checks, files, threads, own, after, bounds,
       MarkerAges
<1>1. LifeTypeOK'
  BY LifecycleAssumption
<1>2. LockProtects'
  BY DEF LockProtects, ThreadsAgree, Undecided
<1>3. ThreadsAgree'
  BY DEF LockProtects, ThreadsAgree
<1>4. UserIsVisible'
  BY DEF ThreadsAgree, UserIsVisible, RuledOut, UsesStore, Undecided
<1>5. RuledOut'
  BY DEF LockProtects, ThreadsAgree, UserIsVisible, RuledOut, UsesStore, Undecided
<1>6. ServerFollowsStore'
  BY DEF LockProtects, ThreadsAgree, UserIsVisible, RuledOut, UsesStore, Undecided, ServerFollowsStore, PublishedIsReachable
<1>. QED BY <1>1, <1>2, <1>3, <1>4, <1>5, <1>6

\* A shutdown that will exit has not begun either.
LEMMA StopAndExitKeeps ==
  ASSUME LifeInv, ~SleepAnywhere, NEW p \in Procs, NEW again \in BOOLEAN, StopAndExit(p, again)
  PROVE  LifeInv'
<1>. USE NobodyIsNone DEF LifeInv, LifeTypeOK, Alive, Stopping, Checks, files, threads, own, after, bounds,
       StopAndExit, Asked
<1>1. LifeTypeOK'
  BY LifecycleAssumption
<1>2. LockProtects'
  BY DEF LockProtects, ThreadsAgree, Undecided
<1>3. ThreadsAgree'
  BY DEF LockProtects, ThreadsAgree
<1>4. UserIsVisible'
  BY DEF ThreadsAgree, UserIsVisible, RuledOut, UsesStore, Undecided
<1>5. RuledOut'
  BY DEF LockProtects, ThreadsAgree, UserIsVisible, RuledOut, UsesStore, Undecided
<1>6. ServerFollowsStore'
  BY DEF LockProtects, ThreadsAgree, UserIsVisible, RuledOut, UsesStore, Undecided, ServerFollowsStore, PublishedIsReachable
<1>. QED BY <1>1, <1>2, <1>3, <1>4, <1>5, <1>6

\* Initially no process has started.
LEMMA LifeInitially == LifeInit => LifeInv
<1>. SUFFICES ASSUME LifeInit PROVE LifeInv
  OBVIOUS
<1>. USE NobodyIsNone DEF LifeInit, Alive, Stopping, Checks
<1>1. LifeTypeOK
  <2>1. {lock, sock, pidFile, marker} \subseteq Procs \union {Nobody} /\ fresh \in BOOLEAN
    OBVIOUS
  <2>2. {held, owns, open, armed, exits, relaunch} \subseteq [Procs -> BOOLEAN]
    OBVIOUS
  <2>3. stops \in 0..MaxStops /\ faults \in 0..MaxFaults
    BY LifecycleAssumption
  <2>. QED BY <2>1, <2>2, <2>3 DEF LifeTypeOK
<1>2. LockProtects /\ ThreadsAgree /\ UserIsVisible /\ RuledOut /\ ServerFollowsStore
  BY DEF ServerFollowsStore, PublishedIsReachable, LockProtects, ThreadsAgree, UserIsVisible, RuledOut, UsesStore, Undecided
<1>. QED BY <1>1, <1>2 DEF LifeInv

\* Every step keeps the invariant.
LEMMA LifeSteps ==
  ASSUME LifeInv, ~SleepAnywhere, [LifeNext]_lifeVars
  PROVE  LifeInv'
<1>1. CASE UNCHANGED lifeVars
  BY <1>1 DEF lifeVars, files, threads, own, after, bounds, LifeInv, LifeTypeOK, LockProtects, ThreadsAgree,
     UserIsVisible, RuledOut, ServerFollowsStore, PublishedIsReachable, UsesStore, Undecided, Alive, Stopping
<1>2. CASE MarkerAges
  BY <1>2, MarkerAgesKeeps
<1>3. ASSUME NEW p \in Procs, NEW again \in BOOLEAN, StopAndExit(p, again)
      PROVE  LifeInv'
  BY <1>3, StopAndExitKeeps
<1>4. ASSUME NEW p \in Procs, Start(p)
      PROVE  LifeInv'
  BY <1>4, CheckKeeps, WaitEndsKeeps, WaitTimesOutKeeps, LockKeeps, LockedKeeps, ListenKeeps, RecoverKeeps,
     WatchProjectsKeeps DEF Start
<1>5. ASSUME NEW p \in Procs, Shutdown(p)
      PROVE  LifeInv'
  BY <1>5, BeginKeeps, ReleaseKeeps, CloseStoresKeeps, RelaunchKeeps, ClearKeeps, ExitKeeps DEF Shutdown
<1>6. ASSUME NEW p \in Procs, Spawn(p) \/ Compromised(p) \/ StopQuietly(p) \/ Kill(p)
      PROVE  LifeInv'
  BY <1>6, SpawnKeeps, CompromisedKeeps, StopQuietlyKeeps, KillKeeps
<1>. QED BY <1>1, <1>2, <1>3, <1>4, <1>5, <1>6 DEF LifeNext

\* The inductive invariant of the daemons of one home.
THEOREM LifeInvariant ==
  ASSUME ~SleepAnywhere
  PROVE  LifeSpec => []LifeInv
<1>1. LifeInv /\ [LifeNext]_lifeVars => LifeInv'
  BY LifeSteps
<1>. QED BY <1>1, LifeInitially, PTL DEF LifeSpec

\* Two daemons never claim the store at the same time, however many processes
\* start, stop, are killed, cannot close the store or lose their lock after they
\* have published themselves.
THEOREM LifeOneStoreOwner ==
  ASSUME ~SleepAnywhere
  PROVE  LifeSpec => []OneStoreOwner
<1>1. LifeInv => OneStoreOwner
  BY DEF LifeInv, UserIsVisible, UsesStore, OneStoreOwner, Claims
<1>. QED BY <1>1, LifeInvariant, PTL

\* The daemon that claims the store is named by the PID file or the marker until
\* its shutdown is over.
THEOREM LifeOwnerIsVisible ==
  ASSUME ~SleepAnywhere
  PROVE  LifeSpec => []OwnerIsVisible
<1>1. LifeInv => OwnerIsVisible
  BY DEF LifeInv, UserIsVisible, UsesStore, OwnerIsVisible, Claims
<1>. QED BY <1>1, LifeInvariant, PTL

\* A published daemon that has not begun to stop answers on the socket.
THEOREM LifePublishedIsReachable ==
  ASSUME ~SleepAnywhere
  PROVE  LifeSpec => []PublishedIsReachable
<1>1. LifeInv => PublishedIsReachable
  BY DEF LifeInv, ServerFollowsStore
<1>. QED BY <1>1, LifeInvariant, PTL

\* The variables of every process keep their types, and it takes the files for its
\* own only after the checks under the lock.
THEOREM LifeTypes ==
  ASSUME ~SleepAnywhere
  PROVE  LifeSpec => []LifeTypeOK
<1>1. LifeInv => LifeTypeOK
  BY DEF LifeInv
<1>. QED BY <1>1, LifeInvariant, PTL

-----------------------------------------------------------------------------
(* A daemon survives: the steps of a start that gives up, while nothing was  *)
(* asked to stop, was killed or failed.                                      *)

\* What the steps of such a start keep.
Quiet == ThreadTypes /\ FailedHasNothing /\ HolderGoesOn /\ OneSurvives

\* A new process can start.
LEMMA SpawnSurvives ==
  ASSUME Untroubled, Quiet, NEW p \in Procs, Spawn(p)
  PROVE  Quiet'
<1>. USE NobodyIsNone DEF Untroubled, Quiet, ThreadTypes, FailedHasNothing, HolderGoesOn, Alive, Stopping, Checks,
       files, threads, own, after, bounds, Spawn, Born
<1>1. ThreadTypes'
  OBVIOUS
<1>2. FailedHasNothing'
  OBVIOUS
<1>3. HolderGoesOn'
  OBVIOUS
<1>4. OneSurvives'
  <2>1. pc[p] # "failed" /\ life'[p] = "alive" /\ pc' = pc
    OBVIOUS
  <2>. QED BY <2>1 DEF OneSurvives
<1>. QED BY <1>1, <1>2, <1>3, <1>4

\* Only a process that holds the lock makes another one give up.
LEMMA CheckSurvives ==
  ASSUME Untroubled, Quiet, NEW p \in Procs, Check(p)
  PROVE  Quiet'
<1>. USE NobodyIsNone DEF Untroubled, Quiet, ThreadTypes, FailedHasNothing, HolderGoesOn, Alive, Stopping, Checks,
       files, threads, own, after, bounds, Check
<1>1. CASE CheckPassed(p)
  <2>. USE <1>1 DEF CheckPassed
  <2>1. ~Stopping(p)
    OBVIOUS
  <2>2. /\ pc' = [pc EXCEPT ![p] = NextCheck[pc[p]]]
        /\ owns' = IF NextCheck[pc[p]] = "listen" THEN [owns EXCEPT ![p] = TRUE] ELSE owns
        /\ sd' = sd
    BY <2>1
  <2>. USE <2>2 DEF NextCheck
  <2>3. ThreadTypes'
    OBVIOUS
  <2>4. FailedHasNothing'
    OBVIOUS
  <2>5. HolderGoesOn'
    OBVIOUS
  <2>6. OneSurvives'
    <3>1. Alive(p)' /\ pc'[p] # "failed"
      OBVIOUS
    <3>. QED BY <3>1 DEF OneSurvives
  <2>. QED BY <2>3, <2>4, <2>5, <2>6
<1>2. CASE ~CheckPassed(p)
  <2>. USE <1>2 DEF Throws, Named
  <2>1. pidFile # Nobody /\ lock = pidFile /\ lock # p /\ Alive(lock) /\ pc[lock] # "failed"
    OBVIOUS
  <2>2. pc[p] \in {"pid", "marker"}
    BY <2>1
  <2>3. ThreadTypes'
    OBVIOUS
  <2>4. FailedHasNothing'
    BY <2>1, <2>2
  <2>5. HolderGoesOn'
    BY <2>1, <2>2
  <2>6. OneSurvives'
    <3>1. Alive(lock)' /\ pc'[lock] # "failed"
      BY <2>1
    <3>. QED BY <3>1 DEF OneSurvives
  <2>. QED BY <2>3, <2>4, <2>5, <2>6
<1>. QED BY <1>1, <1>2

\* Only the holder of the lock publishes itself.
LEMMA ListenSurvives ==
  ASSUME Untroubled, Quiet, NEW p \in Procs, Listen(p)
  PROVE  Quiet'
<1>. USE NobodyIsNone DEF Untroubled, Quiet, ThreadTypes, FailedHasNothing, HolderGoesOn, Alive, Stopping, Checks,
       files, threads, own, after, bounds, Listen, Step
<1>1. ThreadTypes'
  OBVIOUS
<1>2. FailedHasNothing'
  OBVIOUS
<1>3. HolderGoesOn'
  OBVIOUS
<1>4. OneSurvives'
  BY DEF OneSurvives
<1>. QED BY <1>1, <1>2, <1>3, <1>4

\* A process that does not get the lock leaves the one that has it.
LEMMA LockedSurvives ==
  ASSUME Untroubled, Quiet, NEW p \in Procs, Locked(p)
  PROVE  Quiet'
<1>. USE NobodyIsNone DEF Untroubled, Quiet, ThreadTypes, FailedHasNothing, HolderGoesOn, Alive, Stopping, Checks,
       files, threads, own, after, bounds, Locked, Dies, LockOfExited
<1>1. ThreadTypes'
  OBVIOUS
<1>2. FailedHasNothing'
  OBVIOUS
<1>3. HolderGoesOn'
  OBVIOUS
<1>4. OneSurvives'
  BY DEF OneSurvives
<1>. QED BY <1>1, <1>2, <1>3, <1>4

\* The holder ends its start.
LEMMA WatchProjectsSurvives ==
  ASSUME Untroubled, Quiet, NEW p \in Procs, WatchProjects(p)
  PROVE  Quiet'
<1>. USE NobodyIsNone DEF Untroubled, Quiet, ThreadTypes, FailedHasNothing, HolderGoesOn, Alive, Stopping, Checks,
       files, threads, own, after, bounds, WatchProjects, Step
<1>1. ThreadTypes'
  OBVIOUS
<1>2. FailedHasNothing'
  OBVIOUS
<1>3. HolderGoesOn'
  OBVIOUS
<1>4. OneSurvives'
  BY DEF OneSurvives
<1>. QED BY <1>1, <1>2, <1>3, <1>4

\* A start that has given up removes nothing.
LEMMA BeginSurvives ==
  ASSUME Untroubled, Quiet, NEW p \in Procs, Begin(p)
  PROVE  Quiet'
<1>. USE NobodyIsNone DEF Untroubled, Quiet, ThreadTypes, FailedHasNothing, HolderGoesOn, Alive, Stopping, Checks,
       files, threads, own, after, bounds, Begin, ShutStep, AtAwait, Closed
<1>1. ThreadTypes'
  OBVIOUS
<1>2. FailedHasNothing'
  OBVIOUS
<1>3. HolderGoesOn'
  OBVIOUS
<1>4. OneSurvives'
  BY DEF OneSurvives
<1>. QED BY <1>1, <1>2, <1>3, <1>4

\* It releases no lock.
LEMMA ReleaseSurvives ==
  ASSUME Untroubled, Quiet, NEW p \in Procs, Release(p)
  PROVE  Quiet'
<1>. USE NobodyIsNone DEF Untroubled, Quiet, ThreadTypes, FailedHasNothing, HolderGoesOn, Alive, Stopping, Checks,
       files, threads, own, after, bounds, Release, ShutStep
<1>1. ThreadTypes'
  OBVIOUS
<1>2. FailedHasNothing'
  OBVIOUS
<1>3. HolderGoesOn'
  OBVIOUS
<1>4. OneSurvives'
  BY DEF OneSurvives
<1>. QED BY <1>1, <1>2, <1>3, <1>4

\* It starts no other process.
LEMMA RelaunchSurvives ==
  ASSUME Untroubled, Quiet, NEW p \in Procs, Relaunch(p)
  PROVE  Quiet'
<1>. USE NobodyIsNone DEF Untroubled, Quiet, ThreadTypes, FailedHasNothing, HolderGoesOn, Alive, Stopping, Checks,
       files, threads, own, after, bounds, Relaunch, ShutStep
<1>1. ThreadTypes'
  OBVIOUS
<1>2. FailedHasNothing'
  OBVIOUS
<1>3. HolderGoesOn'
  OBVIOUS
<1>4. OneSurvives'
  BY DEF OneSurvives
<1>. QED BY <1>1, <1>2, <1>3, <1>4

\* It has written no marker.
LEMMA ClearSurvives ==
  ASSUME Untroubled, Quiet, NEW p \in Procs, Clear(p)
  PROVE  Quiet'
<1>. USE NobodyIsNone DEF Untroubled, Quiet, ThreadTypes, FailedHasNothing, HolderGoesOn, Alive, Stopping, Checks,
       files, threads, own, after, bounds, Clear, ShutStep
<1>1. ThreadTypes'
  OBVIOUS
<1>2. FailedHasNothing'
  OBVIOUS
<1>3. HolderGoesOn'
  OBVIOUS
<1>4. OneSurvives'
  BY DEF OneSurvives
<1>. QED BY <1>1, <1>2, <1>3, <1>4

\* It leaves the holder of the lock.
LEMMA ExitSurvives ==
  ASSUME Untroubled, Quiet, NEW p \in Procs, Exit(p)
  PROVE  Quiet'
<1>. USE NobodyIsNone DEF Untroubled, Quiet, ThreadTypes, FailedHasNothing, HolderGoesOn, Alive, Stopping, Checks,
       files, threads, own, after, bounds, Exit, Dies, LockOfExited
<1>1. ThreadTypes'
  OBVIOUS
<1>2. FailedHasNothing'
  OBVIOUS
<1>3. HolderGoesOn'
  OBVIOUS
<1>4. OneSurvives'
  BY DEF OneSurvives
<1>. QED BY <1>1, <1>2, <1>3, <1>4

\* Initially nothing has happened.
LEMMA SurvivorInitially == LifeInit => SurvivorInv
<1>. USE NobodyIsNone DEF LifeInit, Checks
<1>1. LifeInit => ThreadTypes
  BY DEF ThreadTypes
<1>2. LifeInit => FailedHasNothing /\ HolderGoesOn /\ OneSurvives
  BY DEF FailedHasNothing, HolderGoesOn, OneSurvives, Alive
<1>. QED BY <1>1, <1>2 DEF SurvivorInv

\* A shutdown that was asked for, a kill and a failure are counted, and the counts
\* never go back.
LEMMA TroublesStay ==
  ASSUME stops \in Nat, faults \in Nat, [LifeNext]_lifeVars
  PROVE  stops' \in Nat /\ faults' \in Nat /\ (Untroubled' => UNCHANGED bounds)
<1>1. /\ stops' = stops \/ stops' = stops + 1
      /\ faults' = faults \/ faults' = faults + 1
  BY DEF LifeNext, Start, Shutdown, lifeVars, bounds, Spawn, Check, CheckPassed, WaitEnds, WaitTimesOut, Lock,
     Locked, Listen, Recover, WatchProjects, Begin, Release, CloseStores, Relaunch, Clear, Exit, Compromised,
     StopQuietly, StopAndExit, Asked, Kill, MarkerAges, Fault
<1>. QED BY <1>1 DEF Untroubled, bounds

\* What cannot happen while nothing is asked to stop, killed or failed.
LEMMA LockSurvives ==
  ASSUME Untroubled, Quiet, NEW p \in Procs, Lock(p), UNCHANGED bounds
  PROVE  Quiet'
<1>. USE NobodyIsNone DEF Untroubled, Quiet, ThreadTypes, FailedHasNothing, HolderGoesOn, Alive, Stopping, Checks,
       after, bounds, Lock, Fault
<1>1. lock = Nobody
  OBVIOUS
<1>2. ThreadTypes'
  OBVIOUS
<1>3. FailedHasNothing'
  BY <1>1
<1>4. HolderGoesOn'
  BY <1>1
<1>5. OneSurvives'
  BY DEF OneSurvives
<1>. QED BY <1>2, <1>3, <1>4, <1>5

LEMMA RecoverSurvives ==
  ASSUME Untroubled, Quiet, NEW p \in Procs, Recover(p), UNCHANGED bounds
  PROVE  Quiet'
<1>. USE NobodyIsNone DEF Untroubled, Quiet, ThreadTypes, FailedHasNothing, HolderGoesOn, Alive, Stopping, Checks,
       files, own, after, bounds, Recover, Fault
<1>1. pc' = [pc EXCEPT ![p] = "watch"] /\ UNCHANGED sd
  OBVIOUS
<1>2. ThreadTypes'
  BY <1>1
<1>3. FailedHasNothing'
  BY <1>1
<1>4. HolderGoesOn'
  BY <1>1
<1>5. OneSurvives'
  BY <1>1 DEF OneSurvives
<1>. QED BY <1>2, <1>3, <1>4, <1>5

LEMMA CloseStoresSurvives ==
  ASSUME Untroubled, Quiet, NEW p \in Procs, CloseStores(p), UNCHANGED bounds
  PROVE  Quiet'
<1>. USE NobodyIsNone DEF Untroubled, Quiet, ThreadTypes, FailedHasNothing, HolderGoesOn, Alive, Stopping, Checks,
       files, after, bounds, CloseStores, Fault
<1>1. ThreadTypes'
  OBVIOUS
<1>2. FailedHasNothing' /\ HolderGoesOn'
  OBVIOUS
<1>3. OneSurvives'
  BY DEF OneSurvives
<1>. QED BY <1>1, <1>2, <1>3

\* Nobody waits for a drain, no lock is lost, and there is no marker to age that
\* anybody looks at.
LEMMA NoTroubleNoSuchStep ==
  ASSUME Untroubled, Quiet, UNCHANGED bounds, NEW p \in Procs,
         \/ WaitEnds(p) \/ WaitTimesOut(p) \/ Compromised(p) \/ StopQuietly(p) \/ Kill(p)
         \/ \E again \in BOOLEAN : StopAndExit(p, again)
  PROVE  FALSE
<1>. USE NobodyIsNone DEF Untroubled, Quiet, FailedHasNothing, Alive, bounds
<1>1. ~WaitEnds(p) /\ ~WaitTimesOut(p) /\ ~Compromised(p)
  BY DEF WaitEnds, WaitTimesOut, Compromised
<1>2. ~StopQuietly(p) /\ ~Kill(p)
  BY DEF StopQuietly, Asked, Kill, Fault
<1>3. ~StopAndExit(p, TRUE) /\ ~StopAndExit(p, FALSE)
  BY DEF StopAndExit, Asked
<1>. QED BY <1>1, <1>2, <1>3

\* Every step keeps the invariant.
LEMMA SurvivorSteps ==
  ASSUME SurvivorInv, [LifeNext]_lifeVars
  PROVE  SurvivorInv'
<1>1. stops' \in Nat /\ faults' \in Nat /\ (Untroubled' => UNCHANGED bounds)
  BY TroublesStay DEF SurvivorInv
<1>2. ASSUME Untroubled'
      PROVE  Quiet'
  <2>1. UNCHANGED bounds /\ Untroubled /\ Quiet
    BY <1>1, <1>2 DEF Untroubled, bounds, SurvivorInv, Quiet
  <2>2. CASE UNCHANGED lifeVars \/ MarkerAges
    BY <2>1, <2>2 DEF MarkerAges, lifeVars, files, threads, own, after, bounds, Quiet, ThreadTypes,
       FailedHasNothing, HolderGoesOn, OneSurvives, Alive
  <2>3. ASSUME NEW p \in Procs, Start(p)
        PROVE  Quiet'
    BY <2>1, <2>3, CheckSurvives, NoTroubleNoSuchStep, LockSurvives, LockedSurvives, ListenSurvives,
       RecoverSurvives, WatchProjectsSurvives DEF Start
  <2>4. ASSUME NEW p \in Procs, Shutdown(p)
        PROVE  Quiet'
    BY <2>1, <2>4, BeginSurvives, ReleaseSurvives, CloseStoresSurvives, RelaunchSurvives, ClearSurvives,
       ExitSurvives DEF Shutdown
  <2>5. ASSUME NEW p \in Procs, Spawn(p)
        PROVE  Quiet'
    BY <2>1, <2>5, SpawnSurvives
  <2>. QED BY <2>1, <2>2, <2>3, <2>4, <2>5, NoTroubleNoSuchStep DEF LifeNext
<1>. QED BY <1>1, <1>2 DEF SurvivorInv, Quiet

\* Starting several daemons at once never leaves none: as long as nothing was asked
\* to stop, was killed or failed, a process is alive that has not given up its
\* start, wherever the processes sleep.
THEOREM LifeOneSurvives == LifeSpec => []OneSurvives
<1>1. SurvivorInv /\ [LifeNext]_lifeVars => SurvivorInv'
  BY SurvivorSteps
<1>2. SurvivorInv => OneSurvives
  BY DEF SurvivorInv, Untroubled, OneSurvives
<1>. QED BY <1>1, <1>2, SurvivorInitially, PTL DEF LifeSpec

=============================================================================
