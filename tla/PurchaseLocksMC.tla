----------------------------- MODULE PurchaseLocksMC -----------------------------
(*****************************************************************************)
(* Two connections, two buyers and two vendors with a lead each, so that     *)
(* sweeps and bulk orders reach the same vendors in opposite orders.         *)
(*****************************************************************************)
EXTENDS PurchaseLocks

CONSTANTS u1, u2, v1, v2, org1, t1, t2

MCVendorOf == [l \in Leads |-> IF l = 1 THEN v1 ELSE v2]
MCPrice == [l \in Leads |-> 2]
AnyBasket == SUBSET Leads
IdOrder == [u \in Users |-> IF u = u1 THEN 1 ELSE 2]
CappedBuyer == {<< org1, u1 >>}
=================================================================================
