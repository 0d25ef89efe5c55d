------------------------- MODULE BoundedMaintenance -------------------------
(***************************************************************************)
(* Reclaiming deleted rows: a native helper rewrites some fragments of the *)
(* table and commits them as a new version, while the daemon serves reads  *)
(* of a tagged version (src/lib/store/bounded-maintenance.ts, VectorDB,    *)
(* lance-maintenance/native/src/engine.rs, operation "cleanup").  Daemon   *)
(* and helper take turns: the helper writes a line and waits for an        *)
(* acknowledgement.  Either may die between any two durable writes; the    *)
(* receipt and the tags on disk tell a later recovery what to finish.      *)
(*                                                                         *)
(* The session holds the exclusive lease, which names the helper, so no    *)
(* one else writes before both are gone (module StoreLease).               *)
(***************************************************************************)
EXTENDS Naturals, Sequences, FiniteSets

CONSTANTS
  MaxEdits,   \* bound: commits by writers between sessions
  MaxCopies,  \* bound: copies a helper finds worth making
  MaxFaults   \* bound: crashes, kills, timeouts, refusals and failed writes

ASSUME MaintenanceAssumption == MaxEdits \in Nat /\ MaxCopies \in Nat /\ MaxFaults \in Nat

VARIABLES
  log,       \* how each version of the table came about: "edit" or "copy"
  kept,      \* versions still on disk
  receipt,   \* _gmax-bounded-receipt.json
  tagB,      \* version the receipt's reader tag protects, or 0
  tagA,      \* version its after tag protects, or 0
  h,         \* where the helper stands
  mode,      \* what its attempt amounts to
  m,         \* the receipt in its memory
  msg,       \* the line it wrote and the daemon has not read, or "none"
  ack,       \* an acknowledgement the helper has not read
  call,      \* where performBoundedMaintenance stands
  step,      \* state of runBoundedMaintenance
  failed,    \* its failure is set, and the helper is being killed
  window,    \* version that protected reads are open at, or 0
  faults

disk == <<log, kept, receipt, tagB, tagA>>
helper == <<h, mode, m>>
pipe == <<msg, ack>>
daemon == <<call, step, failed, window>>
maintVars == <<disk, helper, pipe, daemon, faults>>

Newest == Len(log)

\* verify_candidate: version c holds the rows of b, rewritten.
CopyOf(b, c) == {b, c} \subseteq kept /\ c = b + 1 /\ log[c] = "copy"

NewReceipt(v) ==
  [phase |-> "protecting", before |-> v, after |-> 0, verified |-> 0, accepted |-> FALSE, aborted |-> FALSE]

\* Mutant: an attempt that has copied nothing yet does not count.
SettledUnlessCopied == receipt.phase \in {"none", "finalized", "protecting", "protected"}

Settled == receipt.phase \in {"none", "finalized"}
Accepted == receipt.phase \in {"finalizing", "abort-proven", "aborted"}

MaintInit ==
  /\ log = <<"edit">> /\ kept = {1} /\ tagB = 0 /\ tagA = 0
  /\ receipt = [NewReceipt(0) EXCEPT !.phase = "none"]
  /\ h = "dead" /\ mode = "run" /\ m = receipt
  /\ msg = "none" /\ ack = FALSE
  /\ call = "idle" /\ step = "launch" /\ failed = FALSE /\ window = 0
  /\ faults = 0

Fault == faults < MaxFaults /\ faults' = faults + 1

\* The daemon was killed and left its helper behind.
Orphan == call = "idle" /\ h # "dead"

-----------------------------------------------------------------------------
(* The daemon: VectorDB.performBoundedMaintenance *)

\* spawn, pinExclusiveHelper and the request line.
Spawn(c) ==
  /\ call' = c /\ step' = "launch" /\ failed' = FALSE
  /\ h' = "boot" /\ mode' = (IF c = "fresh" THEN "run" ELSE "recover")
  /\ msg' = "none" /\ ack' = FALSE

\* The cadence ("auto") or a starting daemon ("recover"), under the exclusive
\* lease and after all reads of the table have drained.
Begin(c) ==
  /\ call = "idle" /\ h = "dead" /\ window = 0
  /\ c \in {"auto", "recover"}
  /\ Spawn(c)
  /\ UNCHANGED <<disk, m, window, faults>>

\* The child has closed and its lines are handled.  Only the proof that no
\* receipt is pending lets an automatic pass copy; a failed copy is recovered once.
Closed ==
  LET ok == ~failed /\ step \in {"done", "nothing"} IN
  /\ call \in {"auto", "recover", "fresh", "rescue"} /\ h = "dead" /\ msg = "none"
  /\ \/ call = "auto" /\ ok /\ step = "nothing" /\ Spawn("fresh") /\ UNCHANGED m
     \/ /\ ~(call = "auto" /\ ok /\ step = "nothing")
        /\ call' = IF call = "fresh" /\ ~ok THEN "salvage" ELSE "ending"
        /\ UNCHANGED <<helper, pipe, step, failed>>
  /\ UNCHANGED <<disk, window, faults>>

\* Before the rescue the reads of the window drain and their handles close.
Salvage ==
  /\ call = "salvage"
  /\ \/ window' = 0 /\ Spawn("rescue") /\ UNCHANGED <<m, faults>>
     \/ Fault /\ call' = "ending" /\ UNCHANGED <<helper, pipe, step, failed, window>>
  /\ UNCHANGED disk

\* finally: drain what is still open, give the exclusive lease back.  The window
\* is open here only after a failure, and a read may outlast the drain.
EndSession ==
  /\ call = "ending"
  /\ call' = "idle" /\ window' \in {0, window}
  /\ UNCHANGED <<disk, helper, pipe, step, failed, faults>>

\* Reads that did not drain in time end later.
ReadsEnd ==
  /\ call = "idle" /\ window # 0
  /\ window' = 0
  /\ UNCHANGED <<disk, helper, pipe, call, step, failed, faults>>

-----------------------------------------------------------------------------
(* The daemon: handle(line) of runBoundedMaintenance *)

\* A line in its turn is answered; reads open on the protected version.
Answer(line, from, to) ==
  /\ msg = line /\ step = from /\ ~failed /\ call # "idle"
  /\ msg' = "none" /\ step' = to /\ ack' = (to \notin {"done", "nothing"})
  /\ UNCHANGED <<disk, helper, call, failed, faults>>

OnLaunch == Answer("launch", "launch", "ready") /\ UNCHANGED window
OnReady == Answer("ready", "ready", "protect") /\ UNCHANGED window
OnNoWork == Answer("no-work", "ready", "empty") /\ UNCHANGED window

\* runBoundedMaintenance takes the protected version from the frozen plan.
OnProtected ==
  /\ Answer("protected-read-ready", "protect", "drain")
  /\ window' = IF mode = "run" THEN m.before ELSE m.after

\* Mutant: finalization is acknowledged before the reads have drained.
OnDrainEarly == Answer("reader-drain", "drain", "result") /\ UNCHANGED window

\* readers.drain and closeMaintenanceHandles come before the acknowledgement.
OnDrain == Answer("reader-drain", "drain", "result") /\ window' = 0

OnResult ==
  /\ \/ Answer("result", "result", "done")
     \/ Answer("result", "empty", "nothing")
  /\ UNCHANGED window

\* A refusal reported by the helper; lines that come after a failure.
OnError ==
  /\ msg # "none" /\ call # "idle"
  /\ msg = "error" \/ failed
  /\ msg' = "none" /\ failed' = TRUE
  /\ UNCHANGED <<disk, helper, ack, call, step, window, faults>>

\* stop(): the deadline, an abort, a refused admission, a drain that timed out.
Stop ==
  /\ call \in {"auto", "recover", "fresh", "rescue"} /\ h # "dead" /\ ~failed
  /\ Fault
  /\ failed' = TRUE
  /\ UNCHANGED <<disk, helper, pipe, call, step, window>>

Handle == OnLaunch \/ OnReady \/ OnNoWork \/ OnProtected \/ OnDrain \/ OnResult \/ OnError

-----------------------------------------------------------------------------
(* The helper: engine.rs, run *)

Goto(l) == h' = l /\ UNCHANGED <<mode, pipe>>
Say(line, l) == h' = l /\ msg' = line /\ UNCHANGED <<mode, ack>>
Save(r) == receipt' = r /\ m' = r

Launch ==
  /\ h = "boot"
  /\ Say("launch", "ack1")
  /\ UNCHANGED <<disk, m, daemon, faults>>

After == [ack0 |-> "empty", ack1 |-> "plan", ack2 |-> "admit", ack3 |-> "work", ack4 |-> "final"]

Acknowledged ==
  /\ h \in DOMAIN After /\ ack
  /\ h' = After[h] /\ ack' = FALSE
  /\ UNCHANGED <<disk, mode, m, msg, daemon, faults>>

\* A run: an unfinished receipt refuses it; a batch is found or not.
PlanRun ==
  /\ h = "plan" /\ mode = "run"
  /\ \/ ~Settled /\ Say("error", "dead") /\ UNCHANGED m
     \/ Settled /\ Say("no-work", "ack0") /\ UNCHANGED m
     \/ /\ Settled /\ Cardinality({v \in DOMAIN log : log[v] = "copy"}) < MaxCopies
        /\ Say("ready", "ack2") /\ m' = NewReceipt(Newest)
  /\ UNCHANGED <<disk, daemon, faults>>

\* What a recovery may do about the receipt r it finds, and r brought up to
\* date; a receipt that fits none of them is refused.
Recoveries(r) ==
  {q \in {
     [does |-> "finalize", r |-> [r EXCEPT !.after = Newest, !.verified = IF @ = 0 THEN r.after ELSE @]],
     [does |-> "abort", r |-> [r EXCEPT !.aborted = TRUE, !.after = Newest, !.verified = Newest]],
     [does |-> "accept", r |-> [r EXCEPT !.after = Newest]],
     [does |-> "candidate", r |-> [r EXCEPT !.after = Newest, !.verified = r.after]] } :
   CASE q.does = "finalize"  -> Accepted /\ r.accepted /\ r.after <= Newest
     [] q.does = "abort"     -> ~Accepted /\ r.after = 0 /\ Newest = r.before
     [] q.does = "accept"    -> ~Accepted /\ r.after = 0 /\ tagB = r.before /\ CopyOf(r.before, Newest)
     [] q.does = "candidate" -> /\ ~Accepted /\ r.after \in 1..Newest
                                /\ tagB = r.before /\ tagA = r.after /\ CopyOf(r.before, r.after)}

PlanRecover ==
  /\ h = "plan" /\ mode = "recover"
  /\ \/ Settled /\ Say("no-work", "ack0") /\ UNCHANGED m
     \/ ~Settled /\ Recoveries(receipt) = {} /\ Say("error", "dead") /\ UNCHANGED m
     \/ /\ ~Settled
        /\ \E q \in Recoveries(receipt) :
             h' = "ack2" /\ msg' = "ready" /\ mode' = q.does /\ m' = q.r /\ UNCHANGED ack
  /\ UNCHANGED <<disk, daemon, faults>>

Nothing ==
  /\ h = "empty"
  /\ Say("result", "dead")
  /\ UNCHANGED <<disk, m, daemon, faults>>

\* The receipt is on disk before anything else of the attempt.
Admit ==
  /\ h = "admit"
  /\ \/ mode = "run" /\ Save(m) /\ Goto("tagB")
     \/ /\ mode \in {"finalize", "candidate"}
        /\ Save([m EXCEPT !.phase = "finalizing", !.accepted = TRUE]) /\ Goto("retag")
     \/ mode \in {"abort", "accept"} /\ Goto("retag") /\ UNCHANGED <<receipt, m>>
  /\ UNCHANGED <<log, kept, tagB, tagA, daemon, faults>>

\* Mutant: the version to be copied is not tagged.
TagBNever ==
  /\ h = "tagB"
  /\ Goto("protect")
  /\ UNCHANGED <<disk, m, daemon, faults>>

TagBefore ==
  /\ h = "tagB"
  /\ tagB' = m.before
  /\ Goto("protect")
  /\ UNCHANGED <<log, kept, receipt, tagA, m, daemon, faults>>

Protect ==
  /\ h = "protect"
  /\ Save([m EXCEPT !.phase = "protected"])
  /\ Say("protected-read-ready", "ack3")
  /\ UNCHANGED <<log, kept, tagB, tagA, daemon, faults>>

\* Mutant: a recovery takes the tag of the accepted copy for somebody else's.
RetagNeverMoves ==
  /\ h = "retag"
  /\ \/ tagA = 0 /\ tagA' = Newest /\ Goto(IF mode = "accept" THEN "copied" ELSE "retag")
     \/ tagA \notin {0, Newest} /\ Say("error", "dead") /\ UNCHANGED tagA
     \/ tagA = Newest /\ Say("protected-read-ready", "ack3") /\ UNCHANGED tagA
  /\ UNCHANGED <<log, kept, receipt, tagB, m, daemon, faults>>

\* A recovery protects the head with the after tag; only the tag of the
\* accepted copy may be moved.
Retag ==
  /\ h = "retag"
  /\ \/ tagA = 0 /\ tagA' = Newest /\ Goto(IF mode = "accept" THEN "copied" ELSE "retag")
     \/ /\ tagA \notin {0, Newest} /\ mode \in {"finalize", "candidate"}
        /\ IF tagA = m.verified THEN tagA' = 0 /\ Goto("retag") ELSE Say("error", "dead") /\ UNCHANGED tagA
     \/ /\ tagA = Newest \/ (tagA # 0 /\ mode \in {"abort", "accept"})
        /\ Say("protected-read-ready", "ack3") /\ UNCHANGED tagA
  /\ UNCHANGED <<log, kept, receipt, tagB, m, daemon, faults>>

\* The protected reads are open.
Work ==
  /\ h = "work"
  /\ \/ mode = "run" /\ Save([m EXCEPT !.phase = "copying"]) /\ Goto("commit")
     \/ mode = "accept" /\ Goto("verify") /\ UNCHANGED <<receipt, m>>
     \/ /\ mode \in {"finalize", "candidate", "abort"}
        /\ Say("reader-drain", "ack4") /\ UNCHANGED <<receipt, m>>
  /\ UNCHANGED <<log, kept, tagB, tagA, daemon, faults>>

Commit ==
  /\ h = "commit" /\ Newest = m.before
  /\ log' = Append(log, "copy") /\ kept' = kept \union {Newest + 1}
  /\ m' = [m EXCEPT !.after = Newest + 1, !.verified = Newest + 1]
  /\ Goto("tagA")
  /\ UNCHANGED <<receipt, tagB, tagA, daemon, faults>>

TagAfter ==
  /\ h = "tagA"
  /\ tagA' = Newest
  /\ Goto("copied")
  /\ UNCHANGED <<log, kept, receipt, tagB, m, daemon, faults>>

Copied ==
  /\ h = "copied"
  /\ Save([m EXCEPT !.phase = "copied"])
  /\ IF mode = "accept" THEN Say("protected-read-ready", "ack3") ELSE Goto("verify")
  /\ UNCHANGED <<log, kept, tagB, tagA, daemon, faults>>

\* verify_candidate compares rows, schema and index contents.
Verify ==
  /\ h = "verify" /\ CopyOf(m.before, m.after)
  /\ Save([m EXCEPT !.phase = "verified"])
  /\ Say("reader-drain", "ack4")
  /\ UNCHANGED <<log, kept, tagB, tagA, daemon, faults>>

\* The accepted proof is on disk before the first tag goes.
Finalize ==
  /\ h = "final"
  /\ IF Newest = m.after /\ tagB \in {0, m.before} /\ tagA \in {0, m.after}
     THEN Save([m EXCEPT !.phase = "finalizing", !.accepted = TRUE]) /\ Goto("untagB")
     ELSE Say("error", "dead") /\ UNCHANGED <<receipt, m>>
  /\ UNCHANGED <<log, kept, tagB, tagA, daemon, faults>>

UntagBefore ==
  /\ h = "untagB"
  /\ tagB' = 0
  /\ Goto("untagA")
  /\ UNCHANGED <<log, kept, receipt, tagA, m, daemon, faults>>

UntagAfter ==
  /\ h = "untagA"
  /\ tagA' = 0
  /\ Goto("finish")
  /\ UNCHANGED <<log, kept, receipt, tagB, m, daemon, faults>>

\* A recovery that cannot read the list of files the copy owns, or cannot remove
\* those of an abandoned copy, keeps the receipt pending.
Finish ==
  /\ h = "finish"
  /\ \/ Save([m EXCEPT !.phase = "finalized"]) /\ UNCHANGED faults
     \/ mode # "run" /\ Fault /\ Save([m EXCEPT !.phase = "aborted"])
  /\ Say("result", "dead")
  /\ UNCHANGED <<log, kept, tagB, tagA, daemon>>

HelperStep ==
  \/ Launch \/ Acknowledged \/ PlanRun \/ PlanRecover \/ Nothing \/ Admit \/ TagBefore \/ Protect
  \/ Retag \/ Work \/ Commit \/ TagAfter \/ Copied \/ Verify
  \/ Finalize \/ UntagBefore \/ UntagAfter \/ Finish

-----------------------------------------------------------------------------
(* Faults *)

\* An error inside the operation, with the head still the one to be copied,
\* leaves the proof that nothing was committed.
ProveAbort ==
  /\ mode = "run" /\ h \in {"tagB", "protect", "ack3", "work", "commit"} /\ Newest = m.before
  /\ Save([m EXCEPT !.phase = "abort-proven", !.after = Newest, !.accepted = TRUE, !.aborted = TRUE])

\* A write fails or a check refuses; or the daemon is gone and the awaited
\* line never comes.
HelperFails ==
  /\ h # "dead"
  /\ \/ h \notin DOMAIN After /\ Fault
     \/ h \in DOMAIN After /\ ~ack /\ Orphan /\ UNCHANGED faults
  /\ ProveAbort \/ UNCHANGED <<receipt, m>>
  /\ Say("error", "dead")
  /\ UNCHANGED <<log, kept, tagB, tagA, daemon>>

\* SIGTERM or SIGKILL after stop(); or a kill, a CPU limit, a crash.
HelperDies ==
  /\ h # "dead"
  /\ IF failed THEN UNCHANGED faults ELSE Fault
  /\ h' = "dead"
  /\ UNCHANGED <<disk, mode, m, pipe, daemon>>

\* The daemon dies, with its reads and its lease; the helper still holds the store.
DaemonDies ==
  /\ call # "idle" /\ Fault
  /\ call' = "idle" /\ window' = 0 /\ failed' = FALSE
  /\ UNCHANGED <<disk, helper, pipe, step>>

\* A writer commits, between sessions.
Edit ==
  /\ call = "idle" /\ h = "dead"
  /\ Cardinality({v \in DOMAIN log : log[v] = "edit"}) <= MaxEdits
  /\ log' = Append(log, "edit") /\ kept' = kept \union {Newest + 1}
  /\ UNCHANGED <<receipt, tagB, tagA, helper, pipe, daemon, faults>>

\* Version cleanup removes an old version no tag protects.
Prune ==
  /\ call = "idle" /\ h = "dead"
  /\ \E v \in kept \ {Newest, tagA, tagB} : kept' = kept \ {v}
  /\ UNCHANGED <<log, receipt, tagB, tagA, helper, pipe, daemon, faults>>

MaintNext ==
  \/ \E c \in {"auto", "recover"} : Begin(c)
  \/ Closed \/ Salvage \/ EndSession \/ ReadsEnd \/ Handle \/ Stop
  \/ HelperStep \/ HelperFails \/ HelperDies \/ DaemonDies \/ Edit \/ Prune

MaintSpec == MaintInit /\ [][MaintNext]_maintVars

\* The daemon and a helper that is not stuck go on, SIGKILL arrives, and the
\* cadence or the next start of the daemon tries again.
MaintFairSpec ==
  /\ MaintSpec
  /\ WF_maintVars(HelperStep) /\ WF_maintVars(HelperFails /\ Orphan)
  /\ WF_maintVars(HelperDies /\ failed)
  /\ WF_maintVars(Handle) /\ WF_maintVars(Closed) /\ WF_maintVars(Salvage)
  /\ WF_maintVars(EndSession) /\ WF_maintVars(ReadsEnd)
  /\ WF_maintVars(\E c \in {"auto", "recover"} : Begin(c))

-----------------------------------------------------------------------------
(* Properties *)

\* The version protected reads are open at stays tagged, so nothing removes
\* it under them, through kills, failed drains and recoveries.
PinnedReads == window # 0 => window \in {tagB, tagA} \intersect kept

\* A finished receipt leaves no tag behind, and until the copy is accepted the
\* version it was made from is tagged and on disk.
TagsFollowReceipt ==
  /\ Settled => tagB = 0 /\ tagA = 0
  /\ receipt.phase \in {"protected", "copying", "copied", "verified"} =>
       tagB = receipt.before /\ receipt.before \in kept

\* "never launch a second copy": no other copy is begun and nothing is
\* committed by a helper beside the one its unfinished receipt is about.
PendingNeverReplaced ==
  [][/\ receipt.phase \notin {"none", "finalized"} => receipt'.before = receipt.before
     /\ log' # log /\ log'[Len(log')] = "copy" => receipt.phase = "copying" /\ receipt.before = Newest]_maintVars

\* The after tag a recovery moved to the head before it died, when the head has
\* moved on since: the next recovery refuses it.
Misplaced == tagA \notin {0, Newest, IF receipt.verified = 0 THEN receipt.after ELSE receipt.verified}

\* "Ordinary subsequent edits may advance the head": an attempt whose outcome
\* is proven on disk is finalized in the end, unless its after tag is misplaced.
AcceptedSettles == Accepted ~> (receipt.phase = "finalized" \/ Misplaced)
=============================================================================
