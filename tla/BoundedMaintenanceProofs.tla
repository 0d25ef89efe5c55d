----------------------- MODULE BoundedMaintenanceProofs -----------------------
(***************************************************************************)
(* Bounded maintenance for any number of edits, copies and faults: reads   *)
(* stay pinned, tags follow the receipt and no copy is begun beside a      *)
(* pending one.  The invariant says, for each place the helper can be at,  *)
(* how far the receipt on disk, the one in its memory and the two tags     *)
(* are; a helper that dies there leaves a disk a recovery understands.     *)
(***************************************************************************)
EXTENDS BoundedMaintenance, TLAPS

Early == {"protecting", "protected", "copying"}
Phases == Early \union
  {"none", "copied", "verified", "finalizing", "abort-proven", "aborted", "finalized"}
Receipts ==
  [phase : Phases, before : Nat, after : Nat, verified : Nat, accepted : BOOLEAN, aborted : BOOLEAN]
Resumed == {"finalize", "abort", "accept", "candidate"}

\* Places of a helper that has not planned, and of one whose reads are open.
Starting == {"boot", "ack1", "plan", "ack0", "empty"}
Reading == {"ack3", "work", "commit", "tagA", "copied", "verify", "ack4"}
Ending == {"untagB", "untagA", "finish"}
Recovering == {"ack2", "admit", "retag", "ack3", "work", "copied", "verify", "ack4", "final"}
Places == Starting \union Reading \union Ending \union Recovering \union {"dead", "tagB", "protect"}

\* What is stored and remembered has its shape; the newest version is kept.
Stored ==
  /\ log \in Seq({"edit", "copy"}) /\ kept \subseteq 1..Newest /\ Newest \in kept
  /\ receipt \in Receipts /\ m \in Receipts
  /\ tagB \in Nat /\ tagA \in Nat /\ window \in Nat

\* Where the helper stands, and as what.
Placed ==
  /\ h \in Places /\ mode \in {"run", "recover"} \union Resumed
  /\ h \in Starting => mode \in {"run", "recover"}
  /\ ack \in BOOLEAN

\* What is on disk, whoever is alive.  Until a copy is recorded only the
\* version to be copied or the copy itself can bear the after tag.
Disk ==
  /\ TagsFollowReceipt
  /\ receipt.phase = "protecting" => tagB \in {0, receipt.before}
  /\ receipt.phase \in Early =>
       /\ receipt.after = 0 /\ receipt.before \in 1..Newest
       /\ tagA \in {0, IF receipt.before < Newest /\ log[receipt.before + 1] = "copy"
                       THEN receipt.before + 1 ELSE receipt.before}
  /\ receipt.phase \in {"copied", "verified"} => receipt.after # 0

\* A run, place by place.
Running ==
  /\ h \in {"tagB", "protect", "commit", "tagA"} => mode = "run"
  /\ h = "retag" => mode # "run"
  /\ mode = "run" =>
       /\ h \in {"ack2", "admit"} => Settled /\ m = NewReceipt(Newest)
       /\ h \in {"tagB", "protect"} =>
            m = NewReceipt(Newest) /\ receipt = m /\ tagA = 0 /\ tagB = (IF h = "tagB" THEN 0 ELSE Newest)
       /\ h \in {"ack3", "work", "commit"} =>
            /\ receipt = m /\ m.phase = (IF h = "commit" THEN "copying" ELSE "protected")
            /\ m.before = Newest /\ m.after = 0 /\ tagA = 0
       /\ h \in {"tagA", "copied"} =>
            /\ receipt.phase = "copying" /\ receipt.before = m.before
            /\ m.after = Newest /\ CopyOf(m.before, Newest)
       /\ h \in {"verify", "ack4", "final"} =>
            receipt = m /\ m.phase \in {"copied", "verified"}

\* A recovery, place by place.
Resuming ==
  h \in Recovering /\ mode # "run" =>
    /\ mode \in Resumed /\ ~Settled /\ m.after = Newest /\ m.before = receipt.before
    /\ mode \in {"finalize", "candidate"} /\ h \notin {"ack2", "admit"} =>
         receipt = m /\ m.phase = "finalizing" /\ h \notin {"copied", "verify"}
    /\ mode = "abort" => receipt.phase \in Early /\ m.before = Newest /\ h \notin {"copied", "verify"}
    /\ mode = "accept" =>
         /\ ~Accepted /\ tagB = m.before /\ CopyOf(m.before, Newest)
         /\ h \in {"ack2", "admit", "retag", "copied"} => receipt.phase \in Early
    /\ h \in {"ack3", "work", "copied", "verify", "ack4", "final"} => tagA = Newest

\* The last steps, of either.
Leaving ==
  /\ h \in Ending => receipt = m /\ m.phase = "finalizing"
  /\ h \in {"untagA", "finish"} => tagB = 0
  /\ h = "finish" => tagA = 0

\* One line or one acknowledgement is under way, and belongs to where the
\* helper waits; the line that opens reads comes with the tag they rely on.
Turns ==
  /\ ack => msg = "none" /\ h \in DOMAIN After \union {"dead"}
  /\ msg # "none" => h \in DOMAIN After \union {"dead"}
  /\ h = "ack4" => msg \in {"none", "reader-drain"}
  /\ msg = "protected-read-ready" =>
       /\ h \in {"ack3", "dead"}
       /\ call # "idle" => IF mode = "run" THEN m.before = tagB /\ tagB \in kept
                                           ELSE m.after = tagA /\ tagA \in kept

\* Reads are open from the answer to that line until the drain, at the tag the
\* helper leaves alone meanwhile.
Opened ==
  /\ window # 0 =>
       /\ step = "drain" /\ window \in kept
       /\ h = "dead" => window \in {tagB, tagA}
       /\ h # "dead" => h \in Reading /\ window = (IF mode = "run" THEN tagB ELSE tagA)
  /\ h = "ack4" /\ ack => window = 0

\* The inductive invariant.
MaintInv == Stored /\ Disk /\ Placed /\ Running /\ Resuming /\ Leaving /\ Turns /\ Opened

-----------------------------------------------------------------------------
(* Receipts *)

\* What the helper saves is a receipt.
LEMMA ReceiptShapes ==
  ASSUME NEW r \in Receipts, NEW v \in Nat, NEW w \in Nat
  PROVE  /\ NewReceipt(v) \in Receipts
         /\ [r EXCEPT !.phase = "protected"] \in Receipts
         /\ [r EXCEPT !.phase = "copying"] \in Receipts
         /\ [r EXCEPT !.phase = "copied"] \in Receipts
         /\ [r EXCEPT !.phase = "verified"] \in Receipts
         /\ [r EXCEPT !.phase = "finalized"] \in Receipts
         /\ [r EXCEPT !.phase = "aborted"] \in Receipts
         /\ [r EXCEPT !.phase = "finalizing", !.accepted = TRUE] \in Receipts
         /\ [r EXCEPT !.phase = "abort-proven", !.after = v, !.accepted = TRUE, !.aborted = TRUE] \in Receipts
         /\ [r EXCEPT !.after = v, !.verified = w] \in Receipts
         /\ [r EXCEPT !.after = v] \in Receipts
         /\ [r EXCEPT !.aborted = TRUE, !.after = v, !.verified = w] \in Receipts
         /\ r.after \in Nat /\ r.verified \in Nat
  BY DEF Receipts, Phases, Early, NewReceipt

\* What is saved when the copy stands, or the attempt is abandoned.
LEMMA Finalizing ==
  ASSUME NEW r \in Receipts
  PROVE  LET f == [r EXCEPT !.phase = "finalizing", !.accepted = TRUE] IN
         /\ f \in Receipts /\ f.phase = "finalizing" /\ f.accepted = TRUE
         /\ f.before = r.before /\ f.after = r.after /\ f.verified = r.verified /\ f.aborted = r.aborted
  BY DEF Receipts, Phases, Early

\* Versions are numbered from one.
LEMMA NewestIsNat ==
  ASSUME Stored
  PROVE  Newest \in Nat /\ Newest + 1 \in Nat
  BY DEF Stored, Newest

\* The version a commit appends is the newest, and the others stay what they are.
LEMMA Appended ==
  ASSUME Stored, NEW e \in {"edit", "copy"}
  PROVE  LET l == Append(log, e) IN
         /\ l \in Seq({"edit", "copy"}) /\ Len(l) = Newest + 1 /\ Newest \in Nat /\ l[Newest + 1] = e
         /\ \A i \in 1..Newest : l[i] = log[i]
  BY DEF Stored, Newest

-----------------------------------------------------------------------------
(* The daemon *)

\* From here on the sets of phases and places stand for their elements.
USE DEF Early, Phases, Resumed, Starting, Reading, Ending, Recovering, Places

\* A session starts only when no reads are open and no helper is alive.
LEMMA BeginKeeps ==
  ASSUME MaintInv, NEW c \in {"auto", "recover"}, Begin(c)
  PROVE  MaintInv'
<1>. USE DEF MaintInv, Stored, Disk, Placed, Running, Resuming, Leaving, Turns, Opened,
       TagsFollowReceipt, Settled, Accepted, Newest, CopyOf, NewReceipt, After, Receipts, disk,
       helper, pipe, daemon, Begin, Spawn
<1>1. Stored' /\ Disk'
  OBVIOUS
<1>2. Placed'
  OBVIOUS
<1>3. Turns'
  OBVIOUS
<1>4. Running'
  OBVIOUS
<1>5. Resuming' /\ Leaving'
  OBVIOUS
<1>6. Opened'
  OBVIOUS
<1>. QED BY <1>1, <1>2, <1>3, <1>4, <1>5, <1>6

\* A child has closed.  It is followed by another at once only after it found
\* nothing pending, and then it has opened no reads.
LEMMA ClosedKeeps ==
  ASSUME MaintInv, Closed
  PROVE  MaintInv'
<1>. USE DEF MaintInv, Stored, Disk, Placed, Running, Resuming, Leaving, Turns, Opened,
       TagsFollowReceipt, Settled, Accepted, Newest, CopyOf, NewReceipt, After, Receipts, disk,
       helper, pipe, daemon, Closed, Spawn
<1>1. Stored' /\ Disk'
  OBVIOUS
<1>2. Placed'
  OBVIOUS
<1>3. Turns'
  OBVIOUS
<1>4. Running'
  OBVIOUS
<1>5. Resuming' /\ Leaving'
  OBVIOUS
<1>6. Opened'
  OBVIOUS
<1>. QED BY <1>1, <1>2, <1>3, <1>4, <1>5, <1>6

\* The rescue of a failed copy starts when its reads have ended.
LEMMA SalvageKeeps ==
  ASSUME MaintInv, Salvage
  PROVE  MaintInv'
<1>. USE DEF MaintInv, Stored, Disk, Placed, Running, Resuming, Leaving, Turns, Opened,
       TagsFollowReceipt, Settled, Accepted, Newest, CopyOf, NewReceipt, After, Receipts, disk,
       helper, pipe, daemon, Salvage, Spawn, Fault
<1>1. Stored' /\ Disk'
  OBVIOUS
<1>2. Placed'
  <2>1. CASE Spawn("rescue")
    BY <2>1
  <2>2. CASE UNCHANGED <<helper, pipe>>
    BY <2>2
  <2>. QED BY <2>1, <2>2
<1>3. Turns'
  OBVIOUS
<1>4. Running'
  OBVIOUS
<1>5. Resuming' /\ Leaving'
  OBVIOUS
<1>6. Opened'
  OBVIOUS
<1>. QED BY <1>1, <1>2, <1>3, <1>4, <1>5, <1>6

\* The session gives the lease back, its reads drained or not.
LEMMA EndSessionKeeps ==
  ASSUME MaintInv, EndSession
  PROVE  MaintInv'
<1>. USE DEF MaintInv, Stored, Disk, Placed, Running, Resuming, Leaving, Turns, Opened,
       TagsFollowReceipt, Settled, Accepted, Newest, CopyOf, NewReceipt, After, Receipts, disk,
       helper, pipe, daemon, EndSession
<1>1. Stored' /\ Disk'
  OBVIOUS
<1>2. Placed'
  OBVIOUS
<1>3. Turns'
  OBVIOUS
<1>4. Running'
  OBVIOUS
<1>5. Resuming' /\ Leaving'
  OBVIOUS
<1>6. Opened'
  OBVIOUS
<1>. QED BY <1>1, <1>2, <1>3, <1>4, <1>5, <1>6

\* Reads that did not drain in time end.
LEMMA ReadsEndKeeps ==
  ASSUME MaintInv, ReadsEnd
  PROVE  MaintInv'
<1>. USE DEF MaintInv, Stored, Disk, Placed, Running, Resuming, Leaving, Turns, Opened,
       TagsFollowReceipt, Settled, Accepted, Newest, CopyOf, NewReceipt, After, Receipts, disk,
       helper, pipe, daemon, ReadsEnd
<1>1. Stored' /\ Disk'
  OBVIOUS
<1>2. Placed'
  OBVIOUS
<1>3. Turns'
  OBVIOUS
<1>4. Running'
  OBVIOUS
<1>5. Resuming' /\ Leaving'
  OBVIOUS
<1>6. Opened'
  OBVIOUS
<1>. QED BY <1>1, <1>2, <1>3, <1>4, <1>5, <1>6

\* Every line but the one that opens reads and the one that drains them.
LEMMA PlainLineKeeps ==
  ASSUME MaintInv, OnLaunch \/ OnReady \/ OnNoWork \/ OnResult
  PROVE  MaintInv'
<1>1. UNCHANGED <<disk, helper, window, call>>
  BY DEF OnLaunch, OnReady, OnNoWork, OnResult, Answer
<1>2. msg \in {"launch", "ready", "no-work", "result"} /\ msg' = "none" /\ step # "drain"
  BY DEF OnLaunch, OnReady, OnNoWork, OnResult, Answer
<1>3. ack' \in BOOLEAN
  BY DEF OnLaunch, OnReady, OnNoWork, OnResult, Answer
<1>. USE DEF MaintInv, disk, helper
<1>4. Stored'
  BY <1>1 DEF Stored, Newest
<1>5. Disk'
  BY <1>1 DEF Disk, TagsFollowReceipt, Settled, Accepted, Newest, CopyOf
<1>6. Placed'
  BY <1>1, <1>3 DEF Placed
<1>7. Turns'
  BY <1>1, <1>2 DEF Turns
<1>8. Running'
  BY <1>1 DEF Running, Settled, Newest, CopyOf, NewReceipt
<1>9. Resuming'
  BY <1>1 DEF Resuming, Settled, Accepted, Newest, CopyOf
<1>10. Leaving' /\ Opened'
  BY <1>1, <1>2 DEF Leaving, Opened
<1>. QED BY <1>4, <1>5, <1>6, <1>7, <1>8, <1>9, <1>10

\* Reads open at the version the helper has just tagged.
LEMMA OnProtectedKeeps ==
  ASSUME MaintInv, OnProtected
  PROVE  MaintInv'
<1>. USE DEF MaintInv, Stored, Disk, Placed, Running, Resuming, Leaving, Turns, Opened,
       TagsFollowReceipt, Settled, Accepted, Newest, CopyOf, NewReceipt, After, Receipts, disk,
       helper, pipe, daemon, OnProtected, Answer
<1>1. Stored' /\ Disk'
  OBVIOUS
<1>2. Placed'
  OBVIOUS
<1>3. Turns'
  OBVIOUS
<1>4. Running'
  OBVIOUS
<1>5. Resuming' /\ Leaving'
  OBVIOUS
<1>6. Opened'
  OBVIOUS
<1>. QED BY <1>1, <1>2, <1>3, <1>4, <1>5, <1>6

\* The drain is acknowledged with no reads open.
LEMMA OnDrainKeeps ==
  ASSUME MaintInv, OnDrain
  PROVE  MaintInv'
<1>. USE DEF MaintInv, Stored, Disk, Placed, Running, Resuming, Leaving, Turns, Opened,
       TagsFollowReceipt, Settled, Accepted, Newest, CopyOf, NewReceipt, After, Receipts, disk,
       helper, pipe, daemon, OnDrain, Answer
<1>1. Stored' /\ Disk'
  OBVIOUS
<1>2. Placed'
  OBVIOUS
<1>3. Turns'
  OBVIOUS
<1>4. Running'
  OBVIOUS
<1>5. Resuming' /\ Leaving'
  OBVIOUS
<1>6. Opened'
  OBVIOUS
<1>. QED BY <1>1, <1>2, <1>3, <1>4, <1>5, <1>6

\* A line after a failure is dropped.
LEMMA OnErrorKeeps ==
  ASSUME MaintInv, OnError
  PROVE  MaintInv'
<1>. USE DEF MaintInv, Stored, Disk, Placed, Running, Resuming, Leaving, Turns, Opened,
       TagsFollowReceipt, Settled, Accepted, Newest, CopyOf, NewReceipt, After, Receipts, disk,
       helper, pipe, daemon, OnError
<1>1. Stored' /\ Disk'
  OBVIOUS
<1>2. Placed'
  OBVIOUS
<1>3. Turns'
  OBVIOUS
<1>4. Running'
  OBVIOUS
<1>5. Resuming' /\ Leaving'
  OBVIOUS
<1>6. Opened'
  OBVIOUS
<1>. QED BY <1>1, <1>2, <1>3, <1>4, <1>5, <1>6

\* A deadline sets the failure and no more.
LEMMA StopKeeps ==
  ASSUME MaintInv, Stop
  PROVE  MaintInv'
<1>. USE DEF MaintInv, Stored, Disk, Placed, Running, Resuming, Leaving, Turns, Opened,
       TagsFollowReceipt, Settled, Accepted, Newest, CopyOf, NewReceipt, After, Receipts, disk,
       helper, pipe, daemon, Stop, Fault
<1>1. Stored' /\ Disk'
  OBVIOUS
<1>2. Placed'
  OBVIOUS
<1>3. Turns'
  OBVIOUS
<1>4. Running'
  OBVIOUS
<1>5. Resuming' /\ Leaving'
  OBVIOUS
<1>6. Opened'
  OBVIOUS
<1>. QED BY <1>1, <1>2, <1>3, <1>4, <1>5, <1>6

-----------------------------------------------------------------------------
(* The helper *)

\* The helper reports that it runs.
LEMMA LaunchKeeps ==
  ASSUME MaintInv, Launch
  PROVE  MaintInv'
<1>. USE DEF MaintInv, Stored, Disk, Placed, Running, Resuming, Leaving, Turns, Opened,
       TagsFollowReceipt, Settled, Accepted, Newest, CopyOf, NewReceipt, After, Receipts, disk,
       helper, pipe, daemon, Launch, Say
<1>1. Stored' /\ Disk'
  OBVIOUS
<1>2. Placed'
  OBVIOUS
<1>3. Turns'
  OBVIOUS
<1>4. Running'
  OBVIOUS
<1>5. Resuming' /\ Leaving'
  OBVIOUS
<1>6. Opened'
  OBVIOUS
<1>. QED BY <1>1, <1>2, <1>3, <1>4, <1>5, <1>6

\* An acknowledged helper goes on from where it waits: reads are open after the third line
\* and drained after the fourth.
LEMMA AcknowledgedKeeps ==
  ASSUME MaintInv, Acknowledged
  PROVE  MaintInv'
<1>1. UNCHANGED <<disk, mode, m, msg, daemon, faults>> /\ ~ack' /\ ack
     /\ \/ h = "ack0" /\ h' = "empty"
        \/ h = "ack1" /\ h' = "plan"
        \/ h = "ack2" /\ h' = "admit"
        \/ h = "ack3" /\ h' = "work"
        \/ h = "ack4" /\ h' = "final"
     /\ ack' = FALSE
  BY DEF Acknowledged, After
<1>. USE DEF MaintInv, Stored, Disk, Placed, Running, Resuming, Leaving, Turns, Opened,
       TagsFollowReceipt, Settled, Accepted, Newest, CopyOf, NewReceipt, After, Receipts, disk,
       helper, pipe, daemon, Acknowledged
<1>2. Stored' /\ Disk'
  BY <1>1
<1>3. Placed'
  BY <1>1
<1>4. Turns'
  BY <1>1
<1>5. Running'
  BY <1>1
<1>6. Resuming' /\ Leaving'
  BY <1>1
<1>7. Opened'
  BY <1>1
<1>. QED BY <1>2, <1>3, <1>4, <1>5, <1>6, <1>7

\* A run is planned only when nothing is pending.
LEMMA PlanRunKeeps ==
  ASSUME MaintInv, PlanRun
  PROVE  MaintInv'
<1>1. receipt' \in Receipts /\ m' \in Receipts
  BY ReceiptShapes, NewestIsNat DEF MaintInv, Stored, disk, PlanRun, Say
<1>. USE DEF MaintInv, Stored, Disk, Placed, Running, Resuming, Leaving, Turns, Opened,
       TagsFollowReceipt, Settled, Accepted, Newest, CopyOf, NewReceipt, After, Receipts, disk,
       helper, pipe, daemon, PlanRun, Say
<1>2. Stored'
  BY <1>1
<1>3. Disk'
  OBVIOUS
<1>4. Placed' /\ Turns'
  OBVIOUS
<1>5. Running'
  OBVIOUS
<1>6. Resuming' /\ Leaving'
  OBVIOUS
<1>7. Opened'
  OBVIOUS
<1>. QED BY <1>2, <1>3, <1>4, <1>5, <1>6, <1>7

\* The four things a recovery may do, with what it has checked.
LEMMA RecoveryKinds ==
  ASSUME NEW q \in Recoveries(receipt)
  PROVE  \/ /\ q.does = "finalize" /\ Accepted
            /\ \E v \in {receipt.verified, receipt.after} :
                 q.r = [receipt EXCEPT !.after = Newest, !.verified = v]
         \/ /\ q.does = "abort" /\ ~Accepted /\ receipt.after = 0 /\ Newest = receipt.before
            /\ q.r = [receipt EXCEPT !.aborted = TRUE, !.after = Newest, !.verified = Newest]
         \/ /\ q.does = "accept" /\ ~Accepted /\ receipt.after = 0 /\ tagB = receipt.before
            /\ CopyOf(receipt.before, Newest) /\ q.r = [receipt EXCEPT !.after = Newest]
         \/ /\ q.does = "candidate" /\ ~Accepted
            /\ q.r = [receipt EXCEPT !.after = Newest, !.verified = receipt.after]
<1>. DEFINE F == [does |-> "finalize", r |-> [receipt EXCEPT !.after = Newest, !.verified = IF @ = 0 THEN receipt.after ELSE @]]
            A == [does |-> "abort", r |-> [receipt EXCEPT !.aborted = TRUE, !.after = Newest, !.verified = Newest]]
            B == [does |-> "accept", r |-> [receipt EXCEPT !.after = Newest]]
            C == [does |-> "candidate", r |-> [receipt EXCEPT !.after = Newest, !.verified = receipt.after]]
<1>1. q \in {F, A, B, C}
  BY DEF Recoveries
<1>2. CASE q = F
  <2>1. Accepted
    BY <1>2 DEF Recoveries
  <2>. QED BY <1>2, <2>1
<1>3. CASE q = A
  <2>1. ~Accepted /\ receipt.after = 0 /\ Newest = receipt.before
    BY <1>3 DEF Recoveries
  <2>. QED BY <1>3, <2>1
<1>4. CASE q = B
  <2>1. ~Accepted /\ receipt.after = 0 /\ tagB = receipt.before /\ CopyOf(receipt.before, Newest)
    BY <1>4 DEF Recoveries
  <2>. QED BY <1>4, <2>1
<1>5. CASE q = C
  <2>1. ~Accepted
    BY <1>5 DEF Recoveries
  <2>. QED BY <1>5, <2>1
<1>. QED BY <1>1, <1>2, <1>3, <1>4, <1>5

\* What it makes of the receipt is a receipt about the same version.
LEMMA RecoveryShapes ==
  ASSUME Stored, NEW q \in Recoveries(receipt)
  PROVE  q.r \in Receipts /\ q.r.before = receipt.before /\ q.r.after = Newest
<1>1. receipt \in Receipts /\ Newest \in Nat
  BY NewestIsNat DEF Stored
<1>2. ASSUME NEW v \in {receipt.verified, receipt.after},
             q.r = [receipt EXCEPT !.after = Newest, !.verified = v]
      PROVE  q.r \in Receipts /\ q.r.before = receipt.before /\ q.r.after = Newest
  BY <1>1, <1>2 DEF Receipts
<1>3. CASE q.r = [receipt EXCEPT !.aborted = TRUE, !.after = Newest, !.verified = Newest]
  BY <1>1, <1>3 DEF Receipts
<1>4. CASE q.r = [receipt EXCEPT !.after = Newest]
  BY <1>1, <1>4 DEF Receipts
<1>. QED BY <1>2, <1>3, <1>4, RecoveryKinds

\* A recovery starts from a pending receipt, which names the same version as before.
LEMMA PlanRecoverKeeps ==
  ASSUME MaintInv, PlanRecover
  PROVE  MaintInv'
<1>1. receipt' \in Receipts /\ m' \in Receipts
  BY RecoveryShapes DEF MaintInv, Stored, disk, PlanRecover, Say
<1>. USE DEF MaintInv, Stored, Disk, Placed, Running, Resuming, Leaving, Turns, Opened,
       TagsFollowReceipt, Settled, Accepted, Newest, CopyOf, NewReceipt, After, Receipts, disk,
       helper, pipe, daemon, PlanRecover, Say
<1>2. Stored'
  BY <1>1
<1>3. Disk'
  OBVIOUS
<1>4. Placed' /\ Turns'
  BY RecoveryKinds, RecoveryShapes
<1>5. Running'
  BY RecoveryKinds, RecoveryShapes
<1>6. Resuming'
  <2>1. CASE h' # "ack2"
    BY <2>1
  <2>2. ASSUME NEW q \in Recoveries(receipt), ~Settled, h' = "ack2", mode' = q.does, m' = q.r PROVE Resuming'
    <3>1. CASE q.does \in {"finalize", "candidate"}
      BY <2>2, <3>1, RecoveryShapes
    <3>2. CASE q.does = "abort"
      BY <2>2, <3>2, RecoveryKinds, RecoveryShapes
    <3>3. CASE q.does = "accept"
      <4>1. q.r.after = Newest /\ q.r.before = receipt.before /\ ~Accepted /\ receipt.after = 0
        BY <2>2, <3>3, RecoveryKinds, RecoveryShapes
      <4>2. tagB = receipt.before /\ CopyOf(receipt.before, Newest) /\ receipt.phase \in Early
        BY <2>2, <3>3, RecoveryKinds, <4>1
      <4>3. UNCHANGED <<receipt, log, kept, tagB, tagA>>
        OBVIOUS
      <4>. QED BY <2>2, <3>3, <4>1, <4>2, <4>3
    <3>. QED BY <3>1, <3>2, <3>3, RecoveryKinds
  <2>. QED BY <2>1, <2>2
<1>7. Leaving'
  BY RecoveryKinds, RecoveryShapes
<1>8. Opened'
  BY RecoveryKinds, RecoveryShapes
<1>. QED BY <1>2, <1>3, <1>4, <1>5, <1>6, <1>7, <1>8

\* A helper with nothing to do ends.
LEMMA NothingKeeps ==
  ASSUME MaintInv, Nothing
  PROVE  MaintInv'
<1>. USE DEF MaintInv, Stored, Disk, Placed, Running, Resuming, Leaving, Turns, Opened,
       TagsFollowReceipt, Settled, Accepted, Newest, CopyOf, NewReceipt, After, Receipts, disk,
       helper, pipe, daemon, Nothing, Say
<1>1. Stored' /\ Disk'
  OBVIOUS
<1>2. Placed'
  OBVIOUS
<1>3. Turns'
  OBVIOUS
<1>4. Running'
  OBVIOUS
<1>5. Resuming' /\ Leaving'
  OBVIOUS
<1>6. Opened'
  OBVIOUS
<1>. QED BY <1>1, <1>2, <1>3, <1>4, <1>5, <1>6

\* The receipt of a run is written when no tag is left from another.
LEMMA AdmitKeeps ==
  ASSUME MaintInv, Admit
  PROVE  MaintInv'
<1>1. receipt' \in Receipts /\ m' \in Receipts
  BY ReceiptShapes, NewestIsNat DEF MaintInv, Stored, disk, Admit, Save, Goto
<1>a. ASSUME mode \in {"finalize", "candidate"}
      PROVE  /\ receipt' = m' /\ receipt'.phase = "finalizing" /\ receipt'.accepted = TRUE
             /\ receipt'.before = m.before /\ receipt'.after = m.after /\ receipt'.aborted = m.aborted
             /\ UNCHANGED <<log, kept, tagB, tagA>>
  BY <1>a, Finalizing DEF MaintInv, Stored, Admit, Save
<1>. USE DEF MaintInv, Stored, Disk, Placed, Running, Resuming, Leaving, Turns, Opened,
       TagsFollowReceipt, Settled, Accepted, Newest, CopyOf, NewReceipt, After, Receipts, disk,
       helper, pipe, daemon, Admit, Save, Goto
<1>2. Stored'
  BY <1>1
<1>3. Disk'
  <2>1. CASE mode = "run"
    BY <2>1
  <2>2. CASE mode \in {"finalize", "candidate"}
    <3>1. Accepted' /\ ~Settled' /\ receipt'.before = receipt.before /\ UNCHANGED <<log, tagB, tagA>>
      BY <1>a, <2>2
    <3>. QED BY <2>2, <3>1
  <2>3. CASE mode \in {"abort", "accept"}
    BY <2>3
  <2>. QED BY <2>1, <2>2, <2>3
<1>4. Placed' /\ Turns'
  OBVIOUS
<1>5. Running'
  OBVIOUS
<1>6. Resuming'
  <2>1. CASE mode = "run"
    BY <2>1
  <2>2. CASE mode \in {"finalize", "candidate"}
    <3>1. h' = "retag" /\ mode' = mode /\ ~Settled' /\ receipt.before = m.before /\ m.after = Newest
      BY <1>a, <2>2
    <3>. QED BY <1>a, <2>2, <3>1
  <2>3. CASE mode \in {"abort", "accept"}
    BY <2>3
  <2>. QED BY <2>1, <2>2, <2>3
<1>7. Leaving'
  OBVIOUS
<1>8. Opened'
  OBVIOUS
<1>. QED BY <1>2, <1>3, <1>4, <1>5, <1>6, <1>7, <1>8

\* The version to be copied is tagged.
LEMMA TagBeforeKeeps ==
  ASSUME MaintInv, TagBefore
  PROVE  MaintInv'
<1>. USE DEF MaintInv, Stored, Disk, Placed, Running, Resuming, Leaving, Turns, Opened,
       TagsFollowReceipt, Settled, Accepted, Newest, CopyOf, NewReceipt, After, Receipts, disk,
       helper, pipe, daemon, TagBefore, Goto
<1>1. Stored' /\ Disk'
  OBVIOUS
<1>2. Placed'
  OBVIOUS
<1>3. Turns'
  OBVIOUS
<1>4. Running'
  OBVIOUS
<1>5. Resuming' /\ Leaving'
  OBVIOUS
<1>6. Opened'
  OBVIOUS
<1>. QED BY <1>1, <1>2, <1>3, <1>4, <1>5, <1>6

\* The tag is on disk before reads are asked for.
LEMMA ProtectKeeps ==
  ASSUME MaintInv, Protect
  PROVE  MaintInv'
<1>1. receipt' \in Receipts /\ m' \in Receipts
  BY ReceiptShapes, NewestIsNat DEF MaintInv, Stored, disk, Protect, Save, Say
<1>. USE DEF MaintInv, Stored, Disk, Placed, Running, Resuming, Leaving, Turns, Opened,
       TagsFollowReceipt, Settled, Accepted, Newest, CopyOf, NewReceipt, After, Receipts, disk,
       helper, pipe, daemon, Protect, Save, Say
<1>2. Stored'
  BY <1>1
<1>3. Disk'
  OBVIOUS
<1>4. Placed' /\ Turns'
  OBVIOUS
<1>5. Running'
  OBVIOUS
<1>6. Resuming' /\ Leaving'
  OBVIOUS
<1>7. Opened'
  OBVIOUS
<1>. QED BY <1>2, <1>3, <1>4, <1>5, <1>6, <1>7

\* A recovery asks for reads when the head bears the after tag.
LEMMA RetagKeeps ==
  ASSUME MaintInv, Retag
  PROVE  MaintInv'
<1>. USE DEF MaintInv, Stored, Disk, Placed, Running, Resuming, Leaving, Turns, Opened,
       TagsFollowReceipt, Settled, Accepted, Newest, CopyOf, NewReceipt, After, Receipts, disk,
       helper, pipe, daemon, Retag, Goto, Say
<1>1. Stored' /\ Disk'
  OBVIOUS
<1>2. Placed'
  OBVIOUS
<1>3. Turns'
  OBVIOUS
<1>4. Running'
  OBVIOUS
<1>5. Resuming' /\ Leaving'
  OBVIOUS
<1>6. Opened'
  OBVIOUS
<1>. QED BY <1>1, <1>2, <1>3, <1>4, <1>5, <1>6

\* What follows the opening of the reads.
LEMMA WorkKeeps ==
  ASSUME MaintInv, Work
  PROVE  MaintInv'
<1>1. receipt' \in Receipts /\ m' \in Receipts
  BY ReceiptShapes, NewestIsNat DEF MaintInv, Stored, disk, Work, Goto, Say, Save
<1>. USE DEF MaintInv, Stored, Disk, Placed, Running, Resuming, Leaving, Turns, Opened,
       TagsFollowReceipt, Settled, Accepted, Newest, CopyOf, NewReceipt, After, Receipts, disk,
       helper, pipe, daemon, Work, Goto, Say, Save
<1>2. Stored'
  BY <1>1
<1>3. Disk'
  OBVIOUS
<1>4. Placed' /\ Turns'
  OBVIOUS
<1>5. Running'
  OBVIOUS
<1>6. Resuming' /\ Leaving'
  OBVIOUS
<1>7. Opened'
  OBVIOUS
<1>. QED BY <1>2, <1>3, <1>4, <1>5, <1>6, <1>7

\* The copy is committed beside the tagged version.
LEMMA CommitKeeps ==
  ASSUME MaintInv, Commit
  PROVE  MaintInv'
<1>1. receipt' \in Receipts /\ m' \in Receipts
  BY ReceiptShapes, NewestIsNat DEF MaintInv, Stored, disk, Commit, Goto
<1>. USE DEF MaintInv, Stored, Disk, Placed, Running, Resuming, Leaving, Turns, Opened,
       TagsFollowReceipt, Settled, Accepted, Newest, CopyOf, NewReceipt, After, Receipts, disk,
       helper, pipe, daemon, Commit, Goto
<1>2. Stored'
  BY <1>1, Appended
<1>3. Disk'
  BY Appended
<1>4. Placed' /\ Turns'
  BY Appended
<1>5. Running'
  BY Appended
<1>6. Resuming' /\ Leaving'
  BY Appended
<1>7. Opened'
  BY Appended
<1>. QED BY <1>2, <1>3, <1>4, <1>5, <1>6, <1>7

\* The copy is tagged.
LEMMA TagAfterKeeps ==
  ASSUME MaintInv, TagAfter
  PROVE  MaintInv'
<1>. USE DEF MaintInv, Stored, Disk, Placed, Running, Resuming, Leaving, Turns, Opened,
       TagsFollowReceipt, Settled, Accepted, Newest, CopyOf, NewReceipt, After, Receipts, disk,
       helper, pipe, daemon, TagAfter, Goto
<1>1. Stored' /\ Disk'
  OBVIOUS
<1>2. Placed'
  OBVIOUS
<1>3. Turns'
  OBVIOUS
<1>4. Running'
  OBVIOUS
<1>5. Resuming' /\ Leaving'
  OBVIOUS
<1>6. Opened'
  OBVIOUS
<1>. QED BY <1>1, <1>2, <1>3, <1>4, <1>5, <1>6

\* The copy is recorded.
LEMMA CopiedKeeps ==
  ASSUME MaintInv, Copied
  PROVE  MaintInv'
<1>1. receipt' \in Receipts /\ m' \in Receipts
  BY ReceiptShapes, NewestIsNat DEF MaintInv, Stored, disk, Copied, Goto, Say, Save
<1>. USE DEF MaintInv, Stored, Disk, Placed, Running, Resuming, Leaving, Turns, Opened,
       TagsFollowReceipt, Settled, Accepted, Newest, CopyOf, NewReceipt, After, Receipts, disk,
       helper, pipe, daemon, Copied, Goto, Say, Save
<1>2. Stored'
  BY <1>1
<1>3. Disk'
  OBVIOUS
<1>4. Placed' /\ Turns'
  OBVIOUS
<1>5. Running'
  OBVIOUS
<1>6. Resuming' /\ Leaving'
  OBVIOUS
<1>7. Opened'
  OBVIOUS
<1>. QED BY <1>2, <1>3, <1>4, <1>5, <1>6, <1>7

\* A copy that compares equal is recorded as verified.
LEMMA VerifyKeeps ==
  ASSUME MaintInv, Verify
  PROVE  MaintInv'
<1>1. receipt' \in Receipts /\ m' \in Receipts
  BY ReceiptShapes, NewestIsNat DEF MaintInv, Stored, disk, Verify, Say, Save
<1>. USE DEF MaintInv, Stored, Disk, Placed, Running, Resuming, Leaving, Turns, Opened,
       TagsFollowReceipt, Settled, Accepted, Newest, CopyOf, NewReceipt, After, Receipts, disk,
       helper, pipe, daemon, Verify, Say, Save
<1>2. Stored'
  BY <1>1
<1>3. Disk'
  OBVIOUS
<1>4. Placed' /\ Turns'
  OBVIOUS
<1>5. Running'
  OBVIOUS
<1>6. Resuming' /\ Leaving'
  OBVIOUS
<1>7. Opened'
  OBVIOUS
<1>. QED BY <1>2, <1>3, <1>4, <1>5, <1>6, <1>7

\* The receipt is accepted before the first tag goes.
LEMMA FinalizeKeeps ==
  ASSUME MaintInv, Finalize
  PROVE  MaintInv'
<1>1. receipt' \in Receipts /\ m' \in Receipts
  BY ReceiptShapes, NewestIsNat DEF MaintInv, Stored, disk, Finalize, Say, Save, Goto
<1>a. \/ UNCHANGED receipt
      \/ /\ receipt'.phase = "finalizing" /\ receipt'.accepted = TRUE
         /\ receipt'.before = m.before /\ receipt'.after = m.after /\ receipt'.aborted = m.aborted
         /\ Newest = m.after /\ tagB \in {0, m.before} /\ tagA \in {0, m.after}
  BY Finalizing DEF MaintInv, Stored, Finalize, Save, Newest
<1>b. UNCHANGED <<log, kept, tagB, tagA>>
  BY DEF Finalize
<1>. USE DEF MaintInv, Stored, Disk, Placed, Running, Resuming, Leaving, Turns, Opened,
       TagsFollowReceipt, Settled, Accepted, Newest, CopyOf, NewReceipt, After, Receipts, disk,
       helper, pipe, daemon, Finalize, Say, Save, Goto
<1>2. Stored'
  BY <1>1
<1>3. Disk'
  BY <1>a, <1>b
<1>4. Placed' /\ Turns'
  OBVIOUS
<1>5. Running'
  OBVIOUS
<1>6. Resuming' /\ Leaving'
  OBVIOUS
<1>7. Opened'
  OBVIOUS
<1>. QED BY <1>2, <1>3, <1>4, <1>5, <1>6, <1>7

\* The reader tag goes.
LEMMA UntagBeforeKeeps ==
  ASSUME MaintInv, UntagBefore
  PROVE  MaintInv'
<1>. USE DEF MaintInv, Stored, Disk, Placed, Running, Resuming, Leaving, Turns, Opened,
       TagsFollowReceipt, Settled, Accepted, Newest, CopyOf, NewReceipt, After, Receipts, disk,
       helper, pipe, daemon, UntagBefore, Goto
<1>1. Stored' /\ Disk'
  OBVIOUS
<1>2. Placed'
  OBVIOUS
<1>3. Turns'
  OBVIOUS
<1>4. Running'
  OBVIOUS
<1>5. Resuming' /\ Leaving'
  OBVIOUS
<1>6. Opened'
  OBVIOUS
<1>. QED BY <1>1, <1>2, <1>3, <1>4, <1>5, <1>6

\* The after tag goes.
LEMMA UntagAfterKeeps ==
  ASSUME MaintInv, UntagAfter
  PROVE  MaintInv'
<1>. USE DEF MaintInv, Stored, Disk, Placed, Running, Resuming, Leaving, Turns, Opened,
       TagsFollowReceipt, Settled, Accepted, Newest, CopyOf, NewReceipt, After, Receipts, disk,
       helper, pipe, daemon, UntagAfter, Goto
<1>1. Stored' /\ Disk'
  OBVIOUS
<1>2. Placed'
  OBVIOUS
<1>3. Turns'
  OBVIOUS
<1>4. Running'
  OBVIOUS
<1>5. Resuming' /\ Leaving'
  OBVIOUS
<1>6. Opened'
  OBVIOUS
<1>. QED BY <1>1, <1>2, <1>3, <1>4, <1>5, <1>6

\* A receipt ends with both tags gone.
LEMMA FinishKeeps ==
  ASSUME MaintInv, Finish
  PROVE  MaintInv'
<1>1. receipt' \in Receipts /\ m' \in Receipts
  BY ReceiptShapes, NewestIsNat DEF MaintInv, Stored, disk, Finish, Say, Save, Fault
<1>. USE DEF MaintInv, Stored, Disk, Placed, Running, Resuming, Leaving, Turns, Opened,
       TagsFollowReceipt, Settled, Accepted, Newest, CopyOf, NewReceipt, After, Receipts, disk,
       helper, pipe, daemon, Finish, Say, Save, Fault
<1>2. Stored'
  BY <1>1
<1>3. Disk'
  OBVIOUS
<1>4. Placed' /\ Turns'
  OBVIOUS
<1>5. Running'
  OBVIOUS
<1>6. Resuming' /\ Leaving'
  OBVIOUS
<1>7. Opened'
  OBVIOUS
<1>. QED BY <1>2, <1>3, <1>4, <1>5, <1>6, <1>7

-----------------------------------------------------------------------------
(* Faults and writers *)

\* A helper that fails leaves a receipt a recovery understands.
LEMMA HelperFailsKeeps ==
  ASSUME MaintInv, HelperFails
  PROVE  MaintInv'
<1>1. receipt' \in Receipts /\ m' \in Receipts
  <2>1. CASE ProveAbort
    BY <2>1, ReceiptShapes, NewestIsNat DEF ProveAbort, Save, MaintInv, Stored
  <2>2. CASE UNCHANGED <<receipt, m>>
    BY <2>2 DEF MaintInv, Stored
  <2>. QED BY <2>1, <2>2 DEF HelperFails
<1>. USE DEF MaintInv, Stored, Disk, Placed, Running, Resuming, Leaving, Turns, Opened,
       TagsFollowReceipt, Settled, Accepted, Newest, CopyOf, NewReceipt, After, Receipts, disk,
       helper, pipe, daemon, HelperFails, ProveAbort, Orphan, Fault, Save, Say
<1>2. Stored'
  BY <1>1
<1>3. Disk'
  OBVIOUS
<1>4. Placed' /\ Turns'
  OBVIOUS
<1>5. Running'
  OBVIOUS
<1>6. Resuming' /\ Leaving'
  OBVIOUS
<1>7. Opened'
  OBVIOUS
<1>. QED BY <1>2, <1>3, <1>4, <1>5, <1>6, <1>7

\* A helper that dies leaves its tags.
LEMMA HelperDiesKeeps ==
  ASSUME MaintInv, HelperDies
  PROVE  MaintInv'
<1>. USE DEF MaintInv, Stored, Disk, Placed, Running, Resuming, Leaving, Turns, Opened,
       TagsFollowReceipt, Settled, Accepted, Newest, CopyOf, NewReceipt, After, Receipts, disk,
       helper, pipe, daemon, HelperDies, Fault
<1>1. Stored' /\ Disk'
  OBVIOUS
<1>2. Placed'
  OBVIOUS
<1>3. Turns'
  OBVIOUS
<1>4. Running'
  OBVIOUS
<1>5. Resuming' /\ Leaving'
  OBVIOUS
<1>6. Opened'
  OBVIOUS
<1>. QED BY <1>1, <1>2, <1>3, <1>4, <1>5, <1>6

\* The reads of a daemon die with it.
LEMMA DaemonDiesKeeps ==
  ASSUME MaintInv, DaemonDies
  PROVE  MaintInv'
<1>. USE DEF MaintInv, Stored, Disk, Placed, Running, Resuming, Leaving, Turns, Opened,
       TagsFollowReceipt, Settled, Accepted, Newest, CopyOf, NewReceipt, After, Receipts, disk,
       helper, pipe, daemon, DaemonDies, Fault
<1>1. Stored' /\ Disk'
  OBVIOUS
<1>2. Placed'
  OBVIOUS
<1>3. Turns'
  OBVIOUS
<1>4. Running'
  OBVIOUS
<1>5. Resuming' /\ Leaving'
  OBVIOUS
<1>6. Opened'
  OBVIOUS
<1>. QED BY <1>1, <1>2, <1>3, <1>4, <1>5, <1>6

\* A writer commits an edit, with no helper alive.
LEMMA EditKeeps ==
  ASSUME MaintInv, Edit
  PROVE  MaintInv'
<1>1. log' \in Seq({"edit", "copy"}) /\ kept' \subseteq 1..Newest' /\ Newest' \in kept'
  <2>1. Newest \in Nat /\ kept \subseteq 1..Newest /\ kept' = kept \union {Newest + 1}
    BY NewestIsNat DEF MaintInv, Stored, Edit
  <2>2. Newest' = Newest + 1 /\ log' \in Seq({"edit", "copy"})
    BY Appended DEF MaintInv, Edit, Newest
  <2>3. kept' \subseteq 1..(Newest + 1) /\ Newest + 1 \in kept'
    BY <2>1
  <2>. QED BY <2>2, <2>3
<1>. USE DEF MaintInv, Stored, Disk, Placed, Running, Resuming, Leaving, Turns, Opened,
       TagsFollowReceipt, Settled, Accepted, Newest, CopyOf, NewReceipt, After, Receipts, disk,
       helper, pipe, daemon, Edit
<1>2. Stored'
  BY <1>1
<1>3. Disk'
  BY Appended
<1>4. Placed' /\ Turns'
  BY Appended
<1>5. Running'
  BY Appended
<1>6. Resuming' /\ Leaving'
  BY Appended
<1>7. Opened'
  BY Appended
<1>. QED BY <1>2, <1>3, <1>4, <1>5, <1>6, <1>7

\* A pruned version is neither the newest nor tagged.
LEMMA PruneKeeps ==
  ASSUME MaintInv, Prune
  PROVE  MaintInv'
<1>. USE DEF MaintInv, Stored, Disk, Placed, Running, Resuming, Leaving, Turns, Opened,
       TagsFollowReceipt, Settled, Accepted, Newest, CopyOf, NewReceipt, After, Receipts, disk,
       helper, pipe, daemon, Prune
<1>1. Stored' /\ Disk'
  OBVIOUS
<1>2. Placed'
  OBVIOUS
<1>3. Turns'
  OBVIOUS
<1>4. Running'
  OBVIOUS
<1>5. Resuming' /\ Leaving'
  OBVIOUS
<1>6. Opened'
  OBVIOUS
<1>. QED BY <1>1, <1>2, <1>3, <1>4, <1>5, <1>6

-----------------------------------------------------------------------------
(* The theorems *)

\* The receipt, the tags and the helper agree, however the two processes
\* interleave and wherever one of them dies.
THEOREM MaintInvariant == MaintSpec => []MaintInv
<1>1. MaintInit => MaintInv
  <2>. SUFFICES ASSUME MaintInit
                PROVE  MaintInv
    OBVIOUS
  <2>1. Stored
    <3>1. receipt \in Receipts
      BY DEF MaintInit, NewReceipt, Receipts
    <3>. QED BY <3>1 DEF MaintInit, Stored, Newest
  <2>2. receipt.phase = "none"
    BY DEF MaintInit, NewReceipt
  <2>3. Disk
    BY <2>2 DEF MaintInit, Disk, TagsFollowReceipt
  <2>. QED BY <2>1, <2>3 DEF MaintInit, MaintInv, Placed, Running, Resuming, Leaving, Turns, Opened,
         After
<1>2. MaintInv /\ [MaintNext]_maintVars => MaintInv'
  <2>. SUFFICES ASSUME MaintInv, [MaintNext]_maintVars
                PROVE  MaintInv'
    OBVIOUS
  <2>1. ASSUME NEW c \in {"auto", "recover"}, Begin(c)
        PROVE  MaintInv'
    BY <2>1, BeginKeeps
  <2>2. CASE Closed \/ Salvage \/ EndSession \/ ReadsEnd \/ Stop
    BY <2>2, ClosedKeeps, SalvageKeeps, EndSessionKeeps, ReadsEndKeeps, StopKeeps
  <2>3. CASE Handle
    BY <2>3, PlainLineKeeps, OnProtectedKeeps, OnDrainKeeps, OnErrorKeeps DEF Handle
  <2>4. CASE HelperStep
    BY <2>4, LaunchKeeps, AcknowledgedKeeps, PlanRunKeeps, PlanRecoverKeeps, NothingKeeps, AdmitKeeps,
       TagBeforeKeeps, ProtectKeeps, RetagKeeps, WorkKeeps, CommitKeeps, TagAfterKeeps, CopiedKeeps,
       VerifyKeeps, FinalizeKeeps, UntagBeforeKeeps, UntagAfterKeeps, FinishKeeps DEF HelperStep
  <2>5. CASE HelperFails \/ HelperDies \/ DaemonDies \/ Edit \/ Prune
    BY <2>5, HelperFailsKeeps, HelperDiesKeeps, DaemonDiesKeeps, EditKeeps, PruneKeeps
  <2>6. CASE UNCHANGED maintVars
    BY <2>6 DEF maintVars, disk, helper, pipe, daemon, MaintInv, Stored, Disk, Placed, Running, Resuming,
         Leaving, Turns, Opened, TagsFollowReceipt, Settled, Accepted, Newest, CopyOf
  <2>. QED BY <2>1, <2>2, <2>3, <2>4, <2>5, <2>6 DEF MaintNext
<1>. QED BY <1>1, <1>2, PTL DEF MaintSpec

\* The version protected reads are open at is tagged and on disk.
THEOREM MaintPinnedReads == MaintSpec => []PinnedReads
<1>1. MaintInv => PinnedReads
  BY DEF MaintInv, Opened, PinnedReads
<1>. QED BY <1>1, MaintInvariant, PTL

\* A finished receipt leaves no tag; an unaccepted one keeps what it was made from.
THEOREM MaintTagsFollowReceipt == MaintSpec => []TagsFollowReceipt
<1>1. MaintInv => TagsFollowReceipt
  BY DEF MaintInv, Disk
<1>. QED BY <1>1, MaintInvariant, PTL

\* What a helper saves over a pending receipt is about the same version.
LEMMA SavedIsSame ==
  ASSUME MaintInv, MaintNext, ~Settled
  PROVE  receipt'.before = receipt.before
<1>. USE DEF MaintInv, Stored, Running, Resuming, Leaving, Settled, Receipts
<1>1. CASE UNCHANGED receipt
  BY <1>1
<1>2. CASE receipt' # receipt
  <2>1. \/ Admit \/ Protect \/ Work \/ Copied \/ Verify \/ Finalize \/ Finish \/ HelperFails
    BY <1>2 DEF MaintNext, Begin, Closed, Salvage, EndSession, ReadsEnd, Stop, Handle, OnLaunch, OnReady, OnNoWork,
         OnProtected, OnDrain, OnResult, OnError, Answer, HelperStep, Launch, Acknowledged, PlanRun, PlanRecover,
         Nothing, TagBefore, Retag, Commit, TagAfter, UntagBefore, UntagAfter, HelperDies, DaemonDies, Edit,
         Prune, disk
  <2>2. CASE Admit
    BY <2>2, <1>2 DEF Admit, Save
  <2>3. CASE Protect \/ Work \/ Copied \/ Verify
    BY <2>3, <1>2 DEF Protect, Work, Copied, Verify, Save
  <2>4. CASE Finalize
    <3>1. m.before = receipt.before /\ m \in Receipts
      BY <2>4 DEF Finalize
    <3>. QED BY <3>1, <2>4, <1>2 DEF Finalize, Save
  <2>5. CASE Finish
    BY <2>5, <1>2 DEF Finish, Save
  <2>6. CASE HelperFails
    BY <2>6, <1>2 DEF HelperFails, ProveAbort, Save
  <2>. QED BY <2>1, <2>2, <2>3, <2>4, <2>5, <2>6
<1>. QED BY <1>1, <1>2

\* No copy is begun or committed beside the one a pending receipt is about.
THEOREM MaintPendingNeverReplaced == MaintSpec => PendingNeverReplaced
<1>. DEFINE Pending == receipt.phase \notin {"none", "finalized"} => receipt'.before = receipt.before
            Copying == log' # log /\ log'[Len(log')] = "copy" => receipt.phase = "copying" /\ receipt.before = Newest
<1>1. ASSUME MaintInv, [MaintNext]_maintVars
      PROVE  Pending
  BY <1>1, SavedIsSame DEF Settled, maintVars, disk
<1>2. ASSUME MaintInv, [MaintNext]_maintVars
      PROVE  Copying
  <2>1. CASE UNCHANGED log
    BY <2>1
  <2>2. CASE log' # log
    <3>1. Commit \/ Edit
      BY <1>2, <2>2 DEF MaintNext, Begin, Closed, Salvage, EndSession, ReadsEnd, Stop, Handle, OnLaunch, OnReady,
           OnNoWork, OnProtected, OnDrain, OnResult, OnError, Answer, HelperStep, Launch, Acknowledged, PlanRun,
           PlanRecover, Nothing, Admit, TagBefore, Protect, Retag, Work, TagAfter, Copied, Verify, Finalize,
           UntagBefore, UntagAfter, Finish, HelperFails, HelperDies, DaemonDies, Prune, disk, maintVars
    <3>2. CASE Commit
      BY <1>2, <3>2 DEF Commit, MaintInv, Running, Newest
    <3>3. CASE Edit
      BY <1>2, <3>3, Appended DEF Edit, MaintInv, Stored, Newest
    <3>. QED BY <3>1, <3>2, <3>3
  <2>. QED BY <2>1, <2>2
<1>3. MaintInv /\ [MaintNext]_maintVars => [Pending /\ Copying]_maintVars
  BY <1>1, <1>2
<1>. QED BY <1>3, MaintInvariant, PTL DEF MaintSpec, PendingNeverReplaced
=============================================================================
