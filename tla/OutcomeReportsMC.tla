---------------------------- MODULE OutcomeReportsMC ----------------------------
(*****************************************************************************)
(* One buyer, two leads, two dispute refunds and outcome reports.            *)
(*****************************************************************************)
EXTENDS OutcomeReports

CONSTANTS u1, v1, org1

MCVendorOf == [l \in Leads |-> v1]
MCPrice == [l \in Leads |-> IF l = 1 THEN 4 ELSE 3]
AnyBasket == SUBSET Leads
CappedBuyer == {<< org1, u1 >>}
=================================================================================
