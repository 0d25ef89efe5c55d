----------------------------- MODULE StoreLease -----------------------------
(***************************************************************************)
(* The cross-process lease on one LanceDB store (src/lib/store/            *)
(* store-lease.ts).  Processes share a lease directory: one JSON marker    *)
(* per shared holder under readers/, one intent/ directory with owner.json *)
(* for the exclusive holder, and a lock directory that serialises changes  *)
(* of the intent.  Any process may crash between two file-system calls;    *)
(* what it left on disk is reclaimed by the next process that probes it.   *)
(*                                                                         *)
(* A token is one lease: the nonce of one acquireShared, acquireExclusive, *)
(* upgrade or downgrade call.  pc[n] is where that call, or the holder of  *)
(* the lease it returned, stands.  A step is one file-system call, or a    *)
(* run of calls no other process can tell apart.                           *)
(***************************************************************************)
EXTENDS Naturals, FiniteSets

CONSTANTS
  Tokens,     \* leases (nonces); each is requested at most once
  Procs,      \* operating-system processes; a restarted one is another process
  ProcOf,     \* the process that requests a token
  None,       \* no token; as intentOwner: there is no intent directory
  Torn,       \* as intentOwner: the intent directory has no owner.json
  Patient,    \* tokens requested without a deadline in reach
  Crashable,  \* bound: the processes that may crash
  CrashInGap  \* may a crash hit between the two halves of a temp-file write
              \* or of a recursive directory removal?

ASSUME LeaseAssumption ==
  /\ None # Torn /\ None \notin Tokens /\ Torn \notin Tokens
  /\ ProcOf \in [Tokens -> Procs]
  /\ Crashable \subseteq Procs /\ Patient \subseteq Tokens
  /\ CrashInGap \in BOOLEAN

VARIABLES
  pc,          \* where each token's call or holder stands
  base,        \* the token an upgrade ignores, or a downgrade replaces
  readers,     \* tokens whose marker file exists
  intentOwner, \* nonce in intent/owner.json
  pinned,      \* owner.json names the pid of the owner's helper
  lock,        \* token whose call holds the intent lock
  victim,      \* token whose intent the lock holder is removing
  scan,        \* files the last readdir of readers/ returned to a token
  helper,      \* the destructive child process of a token
  alive,       \* processes that have not crashed
  evicted      \* history: live owners whose intent was taken from them after
               \* their helper exited, or by one this had happened to

vars == <<pc, base, readers, intentOwner, pinned, lock, victim, scan, helper, alive, evicted>>

SharedPcs == {"sProbe", "sUnlink", "sRmdir", "sCheck", "sOpen", "sTemp", "sRecheck", "sWithdraw"}
WaitPcs == {"xProbe", "xUnlink", "xRmdir", "xCreate", "xList", "xSweep", "xVerify", "xSwap"}
DowngradePcs == {"dTemp", "dMarked", "dWait", "dUnlink", "dRmdir", "dFail"}
RemovePcs == {"rUnlink", "rRmdir"}
HeldPcs == {"shared", "exclusive", "using", "unpinning", "unsure"}
PCs == SharedPcs \union WaitPcs \union DowngradePcs \union RemovePcs \union HeldPcs
         \union {"idle", "xAbandon", "leaked", "thrown", "done"}

LeaseTypeOK ==
  /\ pc \in [Tokens -> PCs]
  /\ base \in [Tokens -> Tokens \union {None}]
  /\ readers \subseteq Tokens
  /\ intentOwner \in Tokens \union {None, Torn}
  /\ pinned \in BOOLEAN
  /\ lock \in Tokens \union {None}
  /\ victim \in Tokens \union {None}
  /\ scan \in [Tokens -> SUBSET Tokens]
  /\ helper \in [Tokens -> {"none", "waiting", "running", "gone"}]
  /\ alive \subseteq Procs /\ evicted \subseteq Tokens
  /\ victim # None => lock # None

Init ==
  /\ pc = [n \in Tokens |-> "idle"]
  /\ base = [n \in Tokens |-> None]
  /\ readers = {}
  /\ intentOwner = None
  /\ pinned = FALSE
  /\ lock = None
  /\ victim = None
  /\ scan = [n \in Tokens |-> {}]
  /\ helper = [n \in Tokens |-> "none"]
  /\ alive = Procs
  /\ evicted = {}

-----------------------------------------------------------------------------
Live(n) == ProcOf[n] \in alive

\* The token runs: its process is alive and the token stands at l.
At(n, l) == pc[n] = l /\ Live(n)

Goto(n, l) == pc' = [pc EXCEPT ![n] = l]

\* A half-written marker: readOwner finds no owner in it.
TempFile(n) == pc[n] \in {"sTemp", "dTemp"}

\* A lease another call of its process is upgrading or downgrading.
Busy(n) == \E m \in Tokens : base[m] = n /\ pc[m] \in WaitPcs \union DowngradePcs \union {"xAbandon"}

\* The lock directory is free, or 10 s old because its holder crashed.
LockFree == lock \in Tokens => ~Live(lock)

\* Mutant: the probe forgets the helper.
OwnerStaleNoHelper == intentOwner \in Tokens /\ ~Live(intentOwner)

\* defaultProbeOwner says "dead" or "reused" of the owner of the intent.  While
\* a helper is pinned the file names nobody else: whether its parent lives is
\* not asked.
OwnerStale ==
  /\ intentOwner \in Tokens
  /\ IF pinned THEN helper[intentOwner] = "gone" ELSE ~Live(intentOwner)

\* Mutant: the lock is not taken.
TakeNoLock(n, v) == LockFree /\ lock' = None /\ victim' = v

TakeLock(n, v) == LockFree /\ lock' = n /\ victim' = v

-----------------------------------------------------------------------------
(* acquireShared *)

StartShared(n) ==
  /\ At(n, "idle")
  /\ Goto(n, "sProbe")
  /\ UNCHANGED <<base, readers, intentOwner, pinned, lock, victim, scan, helper, alive, evicted>>

\* removeStaleIntent under the lock; on ELOCKED the loop goes on without it.
SharedProbe(n) ==
  /\ At(n, "sProbe")
  /\ IF LockFree /\ OwnerStale
     THEN TakeLock(n, intentOwner) /\ Goto(n, "sUnlink")
     ELSE Goto(n, "sCheck") /\ UNCHANGED <<lock, victim>>
  /\ UNCHANGED <<base, readers, intentOwner, pinned, scan, helper, alive, evicted>>

SharedCheck(n) ==
  /\ At(n, "sCheck")
  /\ Goto(n, IF intentOwner = None THEN "sOpen" ELSE "sProbe")
  /\ UNCHANGED <<base, readers, intentOwner, pinned, lock, victim, scan, helper, alive, evicted>>

\* writeOwnerAtomic creates the temp file inside readers/ ...
SharedOpen(n) ==
  /\ At(n, "sOpen")
  /\ Goto(n, "sTemp")
  /\ UNCHANGED <<base, readers, intentOwner, pinned, lock, victim, scan, helper, alive, evicted>>

\* ... and renames it to the marker.
SharedMark(n) ==
  /\ At(n, "sTemp")
  /\ readers' = readers \union {n}
  /\ Goto(n, "sRecheck")
  /\ UNCHANGED <<base, intentOwner, pinned, lock, victim, scan, helper, alive, evicted>>

\* Mutant: the intent is not looked for again after the marker is written.
SharedNoRecheck(n) ==
  /\ At(n, "sRecheck")
  /\ Goto(n, "shared")
  /\ UNCHANGED <<base, readers, intentOwner, pinned, lock, victim, scan, helper, alive, evicted>>

SharedRecheck(n) ==
  /\ At(n, "sRecheck")
  /\ Goto(n, IF intentOwner = None THEN "shared" ELSE "sWithdraw")
  /\ UNCHANGED <<base, readers, intentOwner, pinned, lock, victim, scan, helper, alive, evicted>>

SharedWithdraw(n) ==
  /\ At(n, "sWithdraw")
  /\ readers' = readers \ {n}
  /\ Goto(n, "sProbe")
  /\ UNCHANGED <<base, intentOwner, pinned, lock, victim, scan, helper, alive, evicted>>

\* The deadline passed, or the caller aborted, while the loop slept.
GiveUp(n) ==
  /\ n \notin Patient
  /\ \/ At(n, "sProbe") /\ Goto(n, "done")
     \/ At(n, "xProbe") /\ Goto(n, "done")
     \/ At(n, "xList") /\ Goto(n, "xAbandon")
  /\ UNCHANGED <<base, readers, intentOwner, pinned, lock, victim, scan, helper, alive, evicted>>

-----------------------------------------------------------------------------
(* acquireExclusive, upgrade and VectorDB's temporary exclusive lease *)

\* b is the caller's own shared lease, in ignoreNonces, or None.
StartExclusive(n, b) ==
  /\ At(n, "idle")
  /\ b # None => At(b, "shared") /\ ProcOf[b] = ProcOf[n] /\ ~Busy(b)
  /\ base' = [base EXCEPT ![n] = b]
  /\ Goto(n, "xProbe")
  /\ UNCHANGED <<readers, intentOwner, pinned, lock, victim, scan, helper, alive, evicted>>

\* Under the lock: reclaim a stale intent, or create one where there is none.
ExclusiveProbe(n) ==
  /\ At(n, "xProbe")
  /\ LockFree
  /\ \/ /\ OwnerStale
        /\ TakeLock(n, intentOwner) /\ Goto(n, "xUnlink")
        /\ UNCHANGED <<intentOwner, pinned>>
     \/ /\ intentOwner = None
        /\ intentOwner' = n /\ pinned' = FALSE
        /\ lock' = None /\ victim' = None /\ Goto(n, "xList")
  /\ UNCHANGED <<base, readers, scan, helper, alive, evicted>>

\* The same locked section after it removed a stale intent.
ExclusiveCreate(n) ==
  /\ At(n, "xCreate")
  /\ IF intentOwner = None
     THEN intentOwner' = n /\ pinned' = FALSE /\ Goto(n, "xList")
     ELSE Goto(n, "xProbe") /\ UNCHANGED <<intentOwner, pinned>>
  /\ lock' = None /\ victim' = None
  /\ UNCHANGED <<base, readers, scan, helper, alive, evicted>>

\* liveReaders: readdir ...
ExclusiveList(n) ==
  /\ At(n, "xList")
  /\ scan' = [scan EXCEPT ![n] = readers \union {m \in Tokens : TempFile(m)}]
  /\ Goto(n, "xSweep")
  /\ UNCHANGED <<base, readers, intentOwner, pinned, lock, victim, helper, alive, evicted>>

\* Mutants: markers are unlinked without a probe; every marker of the own
\* process is ignored; a dead reader's marker blocks like a live one's.
SweepUnprobed(n) ==
  LET gone == (scan[n] \intersect readers) \ {base[n]} IN
  /\ At(n, "xSweep")
  /\ readers' = readers \ gone
  /\ scan' = [scan EXCEPT ![n] = {}]
  /\ Goto(n, IF scan[n] \subseteq gone \union {base[n]} THEN "xVerify" ELSE "xList")
  /\ UNCHANGED <<base, intentOwner, pinned, lock, victim, helper, alive, evicted>>

SweepIgnoresProcess(n) ==
  LET dead == {m \in scan[n] \intersect readers : ~Live(m)} IN
  /\ At(n, "xSweep")
  /\ readers' = readers \ dead
  /\ scan' = [scan EXCEPT ![n] = {}]
  /\ Goto(n, IF \A m \in scan[n] \ dead : ProcOf[m] = ProcOf[n] THEN "xVerify" ELSE "xList")
  /\ UNCHANGED <<base, intentOwner, pinned, lock, victim, helper, alive, evicted>>

SweepKeepsDead(n) ==
  /\ At(n, "xSweep")
  /\ scan' = [scan EXCEPT ![n] = {}]
  /\ Goto(n, IF scan[n] \subseteq {base[n]} THEN "xVerify" ELSE "xList")
  /\ UNCHANGED <<base, readers, intentOwner, pinned, lock, victim, helper, alive, evicted>>

\* ... then probe each marker, unlink the dead ones, ignore the base; a file
\* with no owner, or gone by now, blocks this round.
ExclusiveSweep(n) ==
  LET dead == {m \in scan[n] \intersect readers : ~Live(m)} IN
  /\ At(n, "xSweep")
  /\ readers' = readers \ dead
  /\ scan' = [scan EXCEPT ![n] = {}]
  /\ Goto(n, IF scan[n] \subseteq dead \union {base[n]} THEN "xVerify" ELSE "xList")
  /\ UNCHANGED <<base, intentOwner, pinned, lock, victim, helper, alive, evicted>>

\* upgrade goes on to release the base; a temporary exclusive lease keeps it.
ExclusiveVerify(n) ==
  /\ At(n, "xVerify")
  /\ \/ intentOwner = n /\ Goto(n, "exclusive")
     \/ intentOwner = n /\ base[n] # None /\ Goto(n, "xSwap")
     \/ intentOwner # n /\ Goto(n, "xAbandon")
  /\ UNCHANGED <<base, readers, intentOwner, pinned, lock, victim, scan, helper, alive, evicted>>

UpgradeSwap(n) ==
  /\ At(n, "xSwap")
  /\ readers' = readers \ {base[n]}
  /\ pc' = [pc EXCEPT ![n] = "exclusive", ![base[n]] = "done"]
  /\ base' = [base EXCEPT ![n] = None]
  /\ UNCHANGED <<intentOwner, pinned, lock, victim, scan, helper, alive, evicted>>

\* The catch block: releaseIntentWithRetry, 1 s.
Abandon(n) ==
  /\ At(n, "xAbandon")
  /\ \/ TakeLock(n, n) /\ Goto(n, "rUnlink")
     \/ lock # None /\ Goto(n, "leaked") /\ UNCHANGED <<lock, victim>>
  /\ UNCHANGED <<base, readers, intentOwner, pinned, scan, helper, alive, evicted>>

-----------------------------------------------------------------------------
(* Removal of the intent directory by the holder of the lock: owner.json   *)
(* is unlinked if it still names the victim, then the directory goes.      *)

Unlink(n) ==
  /\ Live(n) /\ lock = n
  /\ \/ pc[n] = "sUnlink" /\ Goto(n, "sRmdir")
     \/ pc[n] = "xUnlink" /\ Goto(n, "xRmdir")
     \/ pc[n] = "rUnlink" /\ Goto(n, "rRmdir")
     \/ pc[n] = "dUnlink" /\ Goto(n, "dRmdir")
  /\ IF intentOwner = victim
     THEN /\ intentOwner' = Torn /\ pinned' = FALSE /\ UNCHANGED victim
          /\ evicted' = evicted \union
               {v \in {victim} : pc[n] \in {"sUnlink", "xUnlink"} /\ Live(v) /\ helper[v] = "gone"}
     ELSE victim' = None /\ UNCHANGED <<intentOwner, pinned, evicted>>
  /\ UNCHANGED <<base, readers, lock, scan, helper, alive>>

\* Mutant: the reclaimed intent's lock is never released.
RmdirKeepsLock(n) ==
  /\ Live(n) /\ lock = n
  /\ \/ pc[n] = "sRmdir" /\ Goto(n, "sCheck")
     \/ pc[n] = "xRmdir" /\ Goto(n, "xCreate")
     \/ pc[n] = "rRmdir" /\ Goto(n, "done")
  /\ intentOwner' = IF victim # None /\ intentOwner = Torn THEN None ELSE intentOwner
  /\ victim' = None
  /\ UNCHANGED <<base, readers, lock, pinned, scan, helper, alive, evicted>>

Rmdir(n) ==
  /\ Live(n) /\ lock = n
  /\ \/ pc[n] = "sRmdir" /\ Goto(n, "sCheck") /\ lock' = None /\ UNCHANGED base
     \/ pc[n] = "xRmdir" /\ Goto(n, "xCreate") /\ UNCHANGED <<lock, base>>
     \/ pc[n] = "rRmdir" /\ Goto(n, "done") /\ lock' = None /\ UNCHANGED base
     \/ /\ pc[n] = "dRmdir" /\ lock' = None
        /\ pc' = [pc EXCEPT ![n] = "shared", ![base[n]] = "done"]
        /\ base' = [base EXCEPT ![n] = None]
  /\ intentOwner' = IF victim # None /\ intentOwner = Torn THEN None ELSE intentOwner
  /\ victim' = None
  /\ UNCHANGED <<readers, pinned, scan, helper, alive, evicted>>

\* A directory that got a new owner.json meanwhile stays: rmSync gives up on
\* it, silently or, in later releases of Node, with an error.
RmdirThrows(n) ==
  /\ Live(n) /\ lock = n /\ victim # None /\ intentOwner \in Tokens
  /\ \/ pc[n] \in {"sRmdir", "xRmdir", "rRmdir"} /\ Goto(n, "thrown")
     \/ pc[n] = "dRmdir" /\ Goto(n, "dFail")
  /\ lock' = None /\ victim' = None
  /\ UNCHANGED <<base, readers, intentOwner, pinned, scan, helper, alive, evicted>>

-----------------------------------------------------------------------------
(* release and downgrade *)

ReleaseShared(n) ==
  /\ At(n, "shared") /\ ~Busy(n)
  /\ readers' = readers \ {n}
  /\ Goto(n, "done")
  /\ UNCHANGED <<base, intentOwner, pinned, lock, victim, scan, helper, alive, evicted>>

\* A release that times out on the lock leaves the lease held.
ReleaseExclusive(n) ==
  /\ At(n, "exclusive") /\ ~Busy(n)
  /\ TakeLock(n, n) /\ Goto(n, "rUnlink")
  /\ UNCHANGED <<base, readers, intentOwner, pinned, scan, helper, alive, evicted>>

StartDowngrade(n, b) ==
  /\ At(n, "idle") /\ At(b, "exclusive") /\ ~Busy(b)
  /\ ProcOf[b] = ProcOf[n] /\ base[b] = None
  /\ intentOwner = b
  /\ base' = [base EXCEPT ![n] = b]
  /\ Goto(n, "dTemp")
  /\ UNCHANGED <<readers, intentOwner, pinned, lock, victim, scan, helper, alive, evicted>>

DowngradeMark(n) ==
  /\ At(n, "dTemp")
  /\ readers' = readers \union {n}
  /\ Goto(n, "dMarked")
  /\ UNCHANGED <<base, intentOwner, pinned, lock, victim, scan, helper, alive, evicted>>

\* An owner file that cannot be read counts as changed.
DowngradeCheck(n) ==
  /\ At(n, "dMarked")
  /\ \/ intentOwner = base[n] /\ Goto(n, "dWait")
     \/ Goto(n, "dFail")
  /\ UNCHANGED <<base, readers, intentOwner, pinned, lock, victim, scan, helper, alive, evicted>>

DowngradeRelease(n) ==
  /\ At(n, "dWait")
  /\ \/ TakeLock(n, base[n]) /\ Goto(n, "dUnlink")
     \/ lock # None /\ Goto(n, "dFail") /\ UNCHANGED <<lock, victim>>
  /\ UNCHANGED <<base, readers, intentOwner, pinned, scan, helper, alive, evicted>>

\* The catch block: the new marker goes, the exclusive lease stays held.
DowngradeFail(n) ==
  /\ At(n, "dFail")
  /\ readers' = readers \ {n}
  /\ Goto(n, "done")
  /\ base' = [base EXCEPT ![n] = None]
  /\ UNCHANGED <<intentOwner, pinned, lock, victim, scan, helper, alive, evicted>>

-----------------------------------------------------------------------------
(* withExclusiveUse and the helper it pins *)

UseBegin(n) ==
  /\ At(n, "exclusive") /\ ~Busy(n)
  /\ intentOwner = n /\ ~pinned /\ readers = {}
  /\ Goto(n, "using")
  /\ UNCHANGED <<base, readers, intentOwner, pinned, lock, victim, scan, helper, alive, evicted>>

\* pinExclusiveHelper writes the child's pid over owner.json; the child
\* blocks on its stdin until approved.  When the child's start time cannot be
\* read the call throws after the write, and there is no unpin closure.  No
\* caller runs two helpers under one lease.
PinHelper(n) ==
  /\ At(n, "using") /\ helper[n] = "none"
  /\ intentOwner = n /\ ~pinned
  /\ pinned' = TRUE
  /\ helper' = [helper EXCEPT ![n] = "waiting"]
  /\ UNCHANGED pc \/ Goto(n, "unsure")
  /\ UNCHANGED <<base, readers, intentOwner, lock, victim, scan, alive, evicted>>

ApproveHelper(n) ==
  /\ At(n, "using") /\ helper[n] = "waiting"
  /\ helper' = [helper EXCEPT ![n] = "running"]
  /\ UNCHANGED <<pc, base, readers, intentOwner, pinned, lock, victim, scan, alive, evicted>>

\* The helper ends: done, killed, or its stdin closed when the parent died.
HelperExit(n) ==
  /\ helper[n] \in {"waiting", "running"}
  /\ helper' = [helper EXCEPT ![n] = "gone"]
  /\ UNCHANGED <<pc, base, readers, intentOwner, pinned, lock, victim, scan, alive, evicted>>

\* unpin on the child's "close": it reads owner.json, and throws unless its own
\* nonce and helper are there ...
UnpinRead(n) ==
  /\ At(n, "using") /\ helper[n] = "gone"
  /\ intentOwner = n /\ pinned
  /\ Goto(n, "unpinning")
  /\ UNCHANGED <<base, readers, intentOwner, pinned, lock, victim, scan, helper, alive, evicted>>

\* ... then renames a file that names the parent over whatever is there by
\* then; without the directory it throws.
UnpinWrite(n) ==
  LET robbed == IF intentOwner = Torn THEN {victim} ELSE {intentOwner} IN
  /\ At(n, "unpinning")
  /\ Goto(n, "using")
  /\ \/ intentOwner = None /\ UNCHANGED <<intentOwner, pinned, evicted>>
     \/ /\ intentOwner # None
        /\ intentOwner' = n /\ pinned' = FALSE
        /\ evicted' = evicted \union ((robbed \intersect Tokens) \ {n})
  /\ UNCHANGED <<base, readers, lock, victim, scan, helper, alive>>

\* The operation settled; its second verify passed or threw.
UseEnd(n) ==
  /\ \/ At(n, "using") /\ (intentOwner = n => ~pinned)
     \/ At(n, "unsure")
  /\ helper[n] \in {"none", "gone"}
  /\ Goto(n, "exclusive")
  /\ UNCHANGED <<base, readers, intentOwner, pinned, lock, victim, scan, helper, alive, evicted>>

-----------------------------------------------------------------------------
Gap(n) == pc[n] \in {"sTemp", "dTemp", "sRmdir", "xRmdir", "rRmdir", "dRmdir"}

Crash(p) ==
  /\ p \in alive \intersect Crashable
  /\ CrashInGap \/ \A n \in Tokens : ProcOf[n] = p => ~Gap(n)
  /\ alive' = alive \ {p}
  /\ UNCHANGED <<pc, base, readers, intentOwner, pinned, lock, victim, scan, helper, evicted>>

Request(n) == StartShared(n) \/ \E b \in Tokens \union {None} : StartExclusive(n, b)

SharedStep(n) ==
  \/ SharedProbe(n) \/ SharedCheck(n) \/ SharedOpen(n)
  \/ SharedMark(n) \/ SharedRecheck(n) \/ SharedWithdraw(n)

ExclusiveStep(n) ==
  \/ ExclusiveProbe(n) \/ ExclusiveCreate(n) \/ ExclusiveList(n) \/ ExclusiveSweep(n)
  \/ ExclusiveVerify(n) \/ UpgradeSwap(n) \/ Abandon(n)

RemoveStep(n) == Unlink(n) \/ Rmdir(n) \/ RmdirThrows(n)

DowngradeStep(n) ==
  \/ DowngradeMark(n) \/ DowngradeCheck(n) \/ DowngradeRelease(n) \/ DowngradeFail(n)

Release(n) == ReleaseShared(n) \/ ReleaseExclusive(n)

UseStep(n) == UseBegin(n) \/ PinHelper(n) \/ ApproveHelper(n) \/ UnpinRead(n) \/ UnpinWrite(n) \/ UseEnd(n)

Next ==
  \/ \E n \in Tokens :
       \/ Request(n) \/ SharedStep(n) \/ ExclusiveStep(n) \/ RemoveStep(n) \/ GiveUp(n)
       \/ Release(n) \/ DowngradeStep(n) \/ UseStep(n) \/ HelperExit(n)
       \/ \E b \in Tokens : StartDowngrade(n, b)
  \/ \E p \in Procs : Crash(p)

Spec == Init /\ [][Next]_vars

-----------------------------------------------------------------------------
(* Properties *)

\* What a token's lease allows its holder at this moment: nothing once it was
\* evicted, whatever its holder believes.  The helper of a dead parent still
\* works on the store.
Mode(n) ==
  IF n \in evicted THEN "none"
  ELSE IF helper[n] = "running" \/ (Live(n) /\ pc[n] \in {"xSwap", "exclusive", "using", "unpinning", "unsure"})
  THEN "exclusive"
  ELSE IF At(n, "shared") THEN "shared" ELSE "none"

\* No holder works on the store beside an exclusive one (or its helper),
\* except under the shared lease the exclusive call was made from, and except
\* a holder that was evicted.
MutualExclusion ==
  \A n, m \in Tokens :
    n # m /\ Mode(n) = "exclusive" =>
      Mode(m) = "none" \/ (Mode(m) = "shared" /\ m = base[n])

\* "Hold verified cross-process exclusion through a destructive helper and its
\* verification": between the two verify calls of withExclusiveUse the intent
\* is the caller's.  The code does not keep this promise in the window after its
\* helper has exited (README, section 6), so no run checks it.
ExclusionHeldThroughUse ==
  \A n \in Tokens : At(n, "using") \/ At(n, "unpinning") => intentOwner = n

\* A live holder's marker leaves the disk only by a step of that holder's own
\* call.  So does its intent, unless its helper has exited: then it may be
\* reclaimed, and the unpin that comes too late may take the next owner's.
NeverReclaimedLive ==
  [][\A n \in Tokens :
       /\ At(n, "shared") /\ n \in readers /\ n \notin readers' => pc'[n] = "done"
       /\ Live(n) /\ intentOwner = n /\ intentOwner' # n =>
            \/ \E m \in Tokens : lock = m /\ n \in {m, base[m]}
            \/ helper[n] = "gone"
            \/ intentOwner' \in evicted /\ pc[intentOwner'] = "unpinning"]_vars

\* The abstract lease: an atomic readers-writer lock.
modes == [n \in Tokens |-> Mode(n)]
Lock == INSTANCE StoreLock WITH mode <- modes
ImplementsLock == Lock!Spec

-----------------------------------------------------------------------------
(* Liveness.  Every process keeps running until it crashes; a holder, busy  *)
(* on and off, releases in the end, and helpers exit; a retry loop whose    *)
(* deadline passed leaves at its next test, so giving up and releasing need *)
(* strong fairness.                                                         *)
Fairness ==
  \A n \in Tokens :
    /\ WF_vars(SharedStep(n) \/ RemoveStep(n) \/ DowngradeStep(n))
    /\ WF_vars(ExclusiveStep(n))
    /\ SF_vars(Release(n)) /\ WF_vars(UnpinRead(n) \/ UnpinWrite(n) \/ UseEnd(n)) /\ WF_vars(HelperExit(n))
    /\ SF_vars(GiveUp(n))

\* A leak: the retries of a failed acquireExclusive ran into a dead lock.
Leaked == \E m \in Tokens : At(m, "leaked")

FairSpec == Spec /\ Fairness

\* A process died between two file-system calls that belong together, and left
\* a marker or an intent nobody can attribute.
Littered == \E m \in Tokens : ~Live(m) /\ Gap(m)

\* What a crashed process left on disk is reclaimed: a patient request is
\* granted in the end, unless its own process dies, it is evicted, or it finds
\* an evicted owner's file in the directory it is removing.
EventuallyGranted ==
  \A n \in Patient :
    pc[n] \in {"sProbe", "xProbe"} ~>
      pc[n] \in HeldPcs \/ ~Live(n) \/ Leaked \/ Littered \/ n \in evicted \/ pc[n] = "thrown"

\* An exclusive request is not held up in readers/ for ever by what readers
\* that died outside a gap left there.
CrashedReaderReclaimed ==
  \A n \in Patient :
    pc[n] = "xList" ~> pc[n] \notin {"xList", "xSweep"} \/ ~Live(n) \/ Littered
=============================================================================
