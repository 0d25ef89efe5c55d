------------------------- MODULE WatcherSubscription -------------------------
(***************************************************************************)
(* The native file-event stream of one watched root (WatcherManager in     *)
(* src/lib/daemon/watcher-manager.ts): attaching it, serialised updates,   *)
(* recovery after terminal errors, the fallback to polling and the climb   *)
(* back, and detaching.  A step is everything between two awaits.          *)
(*                                                                         *)
(* Gaps, which do not end a stream, and the catchup scans themselves are   *)
(* left out, except that a recovery ends only after its scan.  A stream is *)
(* named by its watcherGeneration; a processor by the watch that made it.  *)
(***************************************************************************)
EXTENDS Naturals, Sequences

CONSTANTS
  MaxWatches,  \* bound on the watches of the root
  MaxErrors,   \* bound on the terminal errors of native streams
  MaxRefusals, \* bound on the native subscribe calls that fail
  MaxPolicies, \* bound on the changes of the file policy
  MaxStreams,  \* bound on the streams
  MaxRetries,  \* MAX_WATCHER_RETRIES (3 in the code)
  RefusedFor,  \* the callers whose native subscribe may fail
  BusyFailures \* streams end, and policy updates fail, also while a recovery is in flight

ASSUME SubscriptionAssumption ==
  /\ {MaxWatches, MaxErrors, MaxRefusals, MaxPolicies, MaxStreams, MaxRetries} \subseteq Nat
  /\ BusyFailures \in BOOLEAN
  /\ RefusedFor \subseteq {"start", "policy", "recover", "probe"}

VARIABLES
  processor,  \* the root's processor, 0 if it has none
  watches,    \* processors so far
  gen,        \* watcherGenerations.get(root), 0 if none
  of,         \* the processor of each stream made so far
  sub,        \* the stream in the subscriptions map, 0 if none
  open, dead, \* native streams that hold a kernel slot; those that ended
  updates,    \* the chain of subscribeWatcher calls: processor and caller
  phase,      \* where the first of them stands
  recovering, \* pendingOps has the recovery key
  timer,      \* the processor whose back-off timer is armed, or 0
  scanning,   \* the processor whose recovery awaits its catchup, or 0
  fails,      \* watcherFailCount
  polling,    \* the poll interval and the probe interval are armed
  probe,      \* the attempt to leave poll mode
  shaky,      \* a terminal failure was recorded since the probe's window began
  down,       \* how far unwatchProject or quiesceAll is
  errors, refusals, policies

plan == <<updates, phase>>
health == <<recovering, timer, scanning, fails, polling, probe, shaky>>
counts == <<errors, refusals, policies>>
subVars == <<processor, watches, gen, of, sub, open, dead, plan, health, down, counts>>

Callers == {"start", "policy", "recover", "probe"}
Beyond == MaxRetries + 1

SubTypeOK ==
  /\ watches \in 0..MaxWatches /\ processor \in {0, watches}
  /\ of \in Seq(1..watches) /\ Len(of) <= MaxStreams
  /\ gen \in {0, Len(of)}
  /\ open \subseteq 1..Len(of) /\ dead \subseteq open
  /\ sub \in {0} \union open
  /\ updates \in Seq([p : 1..watches, by : Callers])
  /\ phase \in {"queued", "unsub", "subscribing", "verifying", "discard"}
  /\ recovering \in BOOLEAN /\ polling \in BOOLEAN /\ shaky \in BOOLEAN
  /\ timer \in 0..watches /\ scanning \in 0..watches /\ fails \in 0..Beyond
  /\ probe \in {"none", "subscribing", "window"}
  /\ down \in {"none", "aborting", "closing", "updates", "stopping", "unsub"}
  /\ errors \in 0..MaxErrors /\ refusals \in 0..MaxRefusals /\ policies \in 0..MaxPolicies

SubInit ==
  /\ processor = 0 /\ watches = 0 /\ gen = 0 /\ of = <<>>
  /\ sub = 0 /\ open = {} /\ dead = {}
  /\ updates = <<>> /\ phase = "queued"
  /\ recovering = FALSE /\ timer = 0 /\ scanning = 0 /\ fails = 0
  /\ polling = FALSE /\ probe = "none" /\ shaky = FALSE
  /\ down = "none"
  /\ errors = 0 /\ refusals = 0 /\ policies = 0

-----------------------------------------------------------------------------
(* recoverWatcher *)

\* Processor p failed terminally, after n failures: back off, or poll.  D are the
\* streams known to have ended.
Recover(p, n, D) ==
  IF processor # p \/ recovering
  THEN dead' = D /\ UNCHANGED <<sub, open, health>>
  ELSE /\ shaky' = TRUE
       /\ fails' = IF n < MaxRetries THEN n + 1 ELSE Beyond
       /\ IF n < MaxRetries
          THEN /\ recovering' = TRUE /\ timer' = p
               /\ dead' = D /\ UNCHANGED <<sub, open, polling>>
          ELSE /\ sub' = 0 /\ open' = open \ {sub} /\ dead' = D \ {sub}
               /\ polling' = TRUE
               /\ UNCHANGED <<recovering, timer>>
       /\ UNCHANGED <<scanning, probe>>

\* A callback acts for the current stream of the current processor only.
Heard(g) == g = gen /\ of[g] = processor

\* A native stream ends with an error.
StreamError(g) ==
  /\ g \in open \ dead /\ errors < MaxErrors
  /\ BusyFailures \/ ~recovering
  /\ errors' = errors + 1
  /\ IF Heard(g) THEN Recover(processor, fails, dead \union {g})
     ELSE dead' = dead \union {g} /\ UNCHANGED <<sub, open, health>>
  /\ UNCHANGED <<processor, watches, gen, of, plan, down, refusals, policies>>

\* Events keep coming five minutes after the last failure.
Healthy ==
  /\ sub # 0 /\ Heard(sub) /\ sub \notin dead /\ fails # 0
  /\ fails' = 0
  /\ UNCHANGED <<processor, watches, gen, of, sub, open, dead, plan, recovering, timer,
                 scanning, polling, probe, shaky, down, counts>>

\* Mutant: the back-off ends and nothing is subscribed.
TimerDropped ==
  /\ timer # 0 /\ timer' = 0 /\ recovering' = FALSE
  /\ UNCHANGED <<processor, watches, gen, of, sub, open, dead, plan, scanning, fails,
                 polling, probe, shaky, down, counts>>

\* The back-off is over: subscribe again, unless the root was detached.
TimerFires ==
  /\ timer # 0 /\ timer' = 0
  /\ IF processor = timer
     THEN updates' = Append(updates, [p |-> timer, by |-> "recover"]) /\ UNCHANGED recovering
     ELSE recovering' = FALSE /\ UNCHANGED updates
  /\ UNCHANGED <<processor, watches, gen, of, sub, open, dead, phase, scanning, fails,
                 polling, probe, shaky, down, counts>>

\* Mutant: the recovery key is not given back.
RescanKeepsKey ==
  /\ scanning # 0 /\ scanning' = 0
  /\ UNCHANGED <<processor, watches, gen, of, sub, open, dead, plan, recovering, timer, fails,
                 polling, probe, shaky, down, counts>>

\* The catchup of a recovery settled, and with it the recovery.
Rescanned ==
  /\ scanning # 0 /\ scanning' = 0
  /\ recovering' = FALSE
  /\ UNCHANGED <<processor, watches, gen, of, sub, open, dead, plan, timer, fails,
                 polling, probe, shaky, down, counts>>

-----------------------------------------------------------------------------
(* subscribeWatcher *)

First == Head(updates)
Latest == Len(of)

\* The policy changed: attach again with the new exclusions.
PolicyChange ==
  /\ processor # 0 /\ policies < MaxPolicies
  /\ policies' = policies + 1
  /\ updates' = Append(updates, [p |-> processor, by |-> "policy"])
  /\ UNCHANGED <<processor, watches, gen, of, sub, open, dead, phase, health, down,
                 errors, refusals>>

\* The first update resolves: its caller goes on.
Resolve ==
  /\ updates' = Tail(updates) /\ phase' = "queued"
  /\ CASE First.by = "recover" ->
            /\ IF processor = First.p THEN scanning' = First.p /\ UNCHANGED recovering
               ELSE recovering' = FALSE /\ UNCHANGED scanning
            /\ UNCHANGED <<timer, fails, polling, probe, shaky>>
       [] First.by = "probe" ->
            /\ probe' = IF processor = First.p THEN "window" ELSE "none"
            /\ shaky' = FALSE
            /\ UNCHANGED <<recovering, timer, scanning, fails, polling>>
       [] OTHER -> UNCHANGED health

\* The first update rejects: a failed start goes straight to polling unless
\* it was quiesced meanwhile, a failed policy update to recovery; a failed
\* recovery and a failed probe are logged.
Reject ==
  /\ updates' = Tail(updates) /\ phase' = "queued"
  /\ CASE First.by = "start" /\ down = "none" -> Recover(First.p, MaxRetries, dead)
       [] First.by = "start" /\ down # "none" -> UNCHANGED <<sub, open, dead, health>>
       [] First.by = "policy" -> Recover(First.p, fails, dead)
       [] First.by = "recover" ->
            /\ recovering' = FALSE
            /\ UNCHANGED <<sub, open, dead, timer, scanning, fails, polling, probe, shaky>>
       [] First.by = "probe" ->
            /\ probe' = "none"
            /\ UNCHANGED <<sub, open, dead, recovering, timer, scanning, fails, polling, shaky>>

\* subscribeWatcherNow: nothing to do for a detached processor ...
UpdateSkipped ==
  /\ updates # <<>> /\ phase = "queued" /\ processor # First.p
  /\ Resolve
  /\ UNCHANGED <<processor, watches, gen, of, sub, open, dead, down, counts>>

\* ... otherwise a new generation, and the old stream is closed first.
UpdateBegins ==
  /\ updates # <<>> /\ phase = "queued" /\ processor = First.p
  /\ Latest < MaxStreams
  /\ of' = Append(of, First.p) /\ gen' = Latest + 1
  /\ phase' = IF sub = 0 THEN "subscribing" ELSE "unsub"
  /\ UNCHANGED <<processor, watches, sub, open, dead, updates, health, down, counts>>

\* Mutant: the old stream is dropped from the map but not closed.
ForgetOld ==
  /\ phase = "unsub"
  /\ sub' = 0 /\ phase' = "subscribing"
  /\ UNCHANGED <<processor, watches, gen, of, open, dead, updates, health, down, counts>>

CloseOld ==
  /\ phase = "unsub"
  /\ sub' = 0 /\ open' = open \ {sub} /\ dead' = dead \ {sub}
  /\ phase' = "subscribing"
  /\ UNCHANGED <<processor, watches, gen, of, updates, health, down, counts>>

\* The native stream is open; its exclusions are being verified.
StreamOpens ==
  /\ phase = "subscribing"
  /\ open' = open \union {Latest} /\ phase' = "verifying"
  /\ UNCHANGED <<processor, watches, gen, of, sub, dead, updates, health, down, counts>>

Refused ==
  /\ phase = "subscribing" /\ First.by \in RefusedFor /\ refusals < MaxRefusals
  /\ First.by = "policy" /\ recovering => BusyFailures
  /\ refusals' = refusals + 1
  /\ Reject
  /\ UNCHANGED <<processor, watches, gen, of, down, errors, policies>>

Current == processor = First.p /\ gen = Latest

\* The stream is kept if processor and generation are still current ...
KeepStream ==
  /\ phase = "verifying" /\ Current
  /\ sub' = Latest
  /\ Resolve
  /\ UNCHANGED <<processor, watches, gen, of, open, dead, down, counts>>

\* ... and closed otherwise.
DiscardStream ==
  /\ phase = "verifying" /\ ~Current
  /\ phase' = "discard"
  /\ UNCHANGED <<processor, watches, gen, of, sub, open, dead, updates, health, down, counts>>

StreamDiscarded ==
  /\ phase = "discard"
  /\ open' = open \ {Latest} /\ dead' = dead \ {Latest}
  /\ Resolve
  /\ UNCHANGED <<processor, watches, gen, of, sub, down, counts>>

-----------------------------------------------------------------------------
(* Leaving poll mode *)

ProbeBegins ==
  /\ polling /\ ~recovering /\ probe = "none" /\ processor # 0
  /\ fails' = 0 /\ probe' = "subscribing"
  /\ updates' = Append(updates, [p |-> processor, by |-> "probe"])
  /\ UNCHANGED <<processor, watches, gen, of, sub, open, dead, phase, recovering, timer,
                 scanning, polling, shaky, down, counts>>

\* The health window is over: polling stops unless a failure fell into it.
ProbeEnds ==
  /\ probe = "window" /\ probe' = "none"
  /\ polling' = (polling /\ shaky)
  /\ UNCHANGED <<processor, watches, gen, of, sub, open, dead, plan, recovering, timer,
                 scanning, fails, shaky, down, counts>>

-----------------------------------------------------------------------------
(* Attaching and detaching *)

Starting == \E i \in 1..Len(updates) : updates[i].by = "start"

WatchProject ==
  /\ processor = 0 /\ down = "none" /\ ~Starting /\ watches < MaxWatches
  /\ watches' = watches + 1 /\ processor' = watches + 1
  /\ updates' = Append(updates, [p |-> watches + 1, by |-> "start"])
  /\ UNCHANGED <<gen, of, sub, open, dead, phase, health, down, counts>>

\* Mutant: the poll timers outlive the watch.
DetachKeepsPolling ==
  /\ processor' = 0 /\ gen' = 0
  /\ recovering' = FALSE /\ timer' = 0
  /\ probe' = IF probe = "window" THEN "none" ELSE probe
  /\ down' = "updates"
  /\ UNCHANGED <<polling, watches, of, plan, scanning, fails, shaky, counts>>

\* unwatchProject up to its first await.
Detach ==
  /\ processor' = 0 /\ gen' = 0
  /\ polling' = FALSE /\ recovering' = FALSE /\ timer' = 0
  /\ probe' = IF probe = "window" THEN "none" ELSE probe
  /\ down' = "updates"
  /\ UNCHANGED <<watches, of, plan, scanning, fails, shaky, counts>>

\* Under the project lock, hence not while the watch is starting.
UnwatchProject ==
  /\ processor # 0 /\ down = "none" /\ ~Starting
  /\ Detach
  /\ UNCHANGED <<sub, open, dead>>

\* quiesceAll, at any time: teardown stops the timers, then awaits the catchups,
\* closes the streams and goes on to unwatchProject.
QuiesceAll ==
  /\ processor # 0 /\ down = "none"
  /\ down' = "aborting"
  /\ polling' = FALSE /\ timer' = 0
  /\ probe' = IF probe = "window" THEN "none" ELSE probe
  /\ UNCHANGED <<processor, watches, gen, of, sub, open, dead, plan, recovering, scanning,
                 fails, shaky, counts>>

CatchupsAborted ==
  /\ down = "aborting" /\ scanning = 0
  /\ down' = "closing"
  /\ UNCHANGED <<processor, watches, gen, of, sub, open, dead, plan, health, counts>>

StreamsClosed ==
  /\ down = "closing"
  /\ sub' = 0 /\ open' = open \ {sub} /\ dead' = dead \ {sub}
  /\ Detach

UpdatesAwaited ==
  /\ down = "updates" /\ updates = <<>>
  /\ down' = "stopping"
  /\ UNCHANGED <<processor, watches, gen, of, sub, open, dead, plan, health, counts>>

ProcessorClosed ==
  /\ down = "stopping" /\ scanning = 0
  /\ down' = "unsub"
  /\ UNCHANGED <<processor, watches, gen, of, sub, open, dead, plan, health, counts>>

Unwatched ==
  /\ down = "unsub" /\ down' = "none"
  /\ sub' = 0 /\ open' = open \ {sub} /\ dead' = dead \ {sub}
  /\ shaky' = FALSE
  /\ UNCHANGED <<processor, watches, gen, of, plan, recovering, timer, scanning, fails,
                 polling, probe, counts>>

-----------------------------------------------------------------------------
Update ==
  \/ UpdateSkipped \/ UpdateBegins \/ CloseOld \/ StreamOpens \/ Refused
  \/ KeepStream \/ DiscardStream \/ StreamDiscarded

Detaching ==
  CatchupsAborted \/ StreamsClosed \/ UpdatesAwaited \/ ProcessorClosed \/ Unwatched

SubNext ==
  \/ WatchProject \/ UnwatchProject \/ QuiesceAll \/ Detaching
  \/ Update \/ PolicyChange
  \/ \E g \in open : StreamError(g)
  \/ Healthy \/ TimerFires \/ Rescanned \/ ProbeBegins \/ ProbeEnds

SubSpec == SubInit /\ [][SubNext]_subVars

\* Timers fire, native calls settle, scans end.
SubFairness ==
  /\ WF_subVars(Update) /\ WF_subVars(Detaching)
  /\ WF_subVars(TimerFires) /\ WF_subVars(Rescanned)
  /\ WF_subVars(ProbeBegins) /\ WF_subVars(ProbeEnds)

SubFairSpec == SubSpec /\ SubFairness

-----------------------------------------------------------------------------
(* Properties *)

\* At rest the only native stream open is the one the map knows: none leaks,
\* whatever recovery, policy update, probe or quiesce was cut short.
NoLeakedStream == updates = <<>> /\ down = "none" => open \subseteq {sub}

\* A detached root has no stream and no timer: nothing keeps scanning a removed
\* project.
DetachedIsQuiet ==
  processor = 0 => /\ ~polling /\ timer = 0 /\ probe # "window"
                   /\ down = "none" => sub = 0

\* Edits of the root are noticed: natively or by polling.
Covered == (sub # 0 /\ sub \notin dead) \/ polling

\* A watched root is covered again and again: streams that end are replaced.
WatchedIsCovered == processor # 0 ~> Covered \/ processor = 0

\* Polling is not for ever: the native stream comes back.
PollingEnds == polling ~> ~polling
=============================================================================
