---------------------------- MODULE MCStoreLease ----------------------------
EXTENDS StoreLeaseInv, TLC

CONSTANTS n1, n2, n3, p1, p2

\* Two leases of one process (an upgrade or a downgrade) and one of another.
TwoAndOne == n1 :> p1 @@ n2 :> p1 @@ n3 :> p2
=============================================================================
