---------------------------- MODULE MCDraftOrders ---------------------------
(* Small instances of DraftOrders for TLC.                                   *)
EXTENDS DraftOrders, TLC

CONSTANTS s1, s2, c1, c2, p1, p2, t1, t2

\* One customer writes in two sessions, or two customers in one each.
OneCustomer == [s \in Session |-> c1]
TwoCustomers == [s \in Session |-> IF s = s1 THEN c1 ELSE c2]
\* The same two products in opposite orders, one of them in two units; or one
\* product alone.
Crossed == [s \in Session |-> IF s = s1 THEN <<p1, p2>> ELSE <<p2, p1, p2>>]
Single == [s \in Session |-> <<p1>>]
TwoEach == [p \in Product |-> 2]
Symmetry == Permutations(Run)
=============================================================================
