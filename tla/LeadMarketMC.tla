------------------------------ MODULE LeadMarketMC ------------------------------
(*****************************************************************************)
(* Instances of LeadMarket small enough for TLC: prices that do not divide   *)
(* evenly at the revenue share, so that every floor matters, wallets that    *)
(* can afford some leads and not all, and one vendor with several leads.     *)
(*****************************************************************************)
EXTENDS LeadMarket, TLC

CONSTANTS u1, u2, u3, v1, v2, org1, org2

\* Leads 1 and 2 are of one vendor; at a share of 3/5 the prices 4, 3 and 2 all
\* leave a fraction to floor.
MCVendorOf == [l \in Leads |-> IF l = 3 THEN v2 ELSE v1]
MCPrice == [l \in Leads |-> CASE l = 1 -> 4 [] l = 2 -> 3 [] OTHER -> 2]
AnyBasket == SUBSET Leads
TwoMembers == {<< org1, u1 >>, << org2, u1 >>}

UserSymmetry == Permutations(Users)
=================================================================================
