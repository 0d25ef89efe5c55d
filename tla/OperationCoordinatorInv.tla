------------------------ MODULE OperationCoordinatorInv ------------------------
(* The inductive invariant behind the safety properties of the coordinator. *)
EXTENDS OperationCoordinator

Pending(x) == pc[x] \in {"quiescing", "draining"}
Inside(x) == pc[x] \in {"exclusive", "sealing"}
Holder(x) == pc[x] \in HoldPcs

\* Shared calls are never held, exclusive calls never queued.
SeparateRoles ==
  /\ \A s \in Shared : pc[s] \notin HoldPcs
  /\ \A x \in Exclusive : pc[x] \notin {"waiting", "running"}

\* state follows the one exclusive call in progress, unless close took over.
StateFollowsHolder ==
  /\ \A x, y \in Exclusive : Holder(x) /\ Holder(y) => x = y
  /\ \A x \in Exclusive : Pending(x) => state \in {"exclusive-pending", "closing"}
  /\ \A x \in Exclusive : Inside(x) => state \in {"exclusive", "closing"}
  /\ Held => \E x \in Exclusive : Holder(x)

\* The options of the call in progress, and of no other.
OptionsFollowHolder ==
  /\ queueShared \/ readWindow => \E x \in Queueing : Holder(x)
  /\ \A x \in Exclusive : pc[x] \in {"draining", "sealing"} => ~readWindow
  /\ Waiters # {} => Held /\ queueShared

\* A drain waits for every shared task that is running.
DrainCovers ==
  \A x \in Exclusive : pc[x] \in {"draining", "sealing"} => Shared \intersect Running \subseteq drain

\* A closing coordinator waits for every task that is active.
CloseCovers ==
  /\ state = "closing" => Active \subseteq closeWait
  /\ state = "closed" => Active = {}

\* The inductive invariant of the coordinator: roles, state, options, drain and
\* close stay in step with the one exclusive call in progress.
OpsInv ==
  /\ OpsTypeOK
  /\ SeparateRoles
  /\ StateFollowsHolder
  /\ OptionsFollowHolder
  /\ DrainCovers
  /\ CloseCovers
  /\ ExclusiveRunsAlone
  /\ SealedMeansQuiet
=============================================================================
