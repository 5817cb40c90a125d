-------------------------------- MODULE RoutingMC --------------------------------
(*****************************************************************************)
(* Lead 1 is routed at once, lead 2 is auctioned; two agents with room for   *)
(* one lead each, the better one for both leads being the first.             *)
(*****************************************************************************)
EXTENDS Routing, TLC

CONSTANTS a1, a2, p1

MCQualified == [l \in Leads |-> Agents]
MCMerit == [l \in Leads |-> a1 :> 50 @@ a2 :> 40]
MCReputation == a1 :> 0 @@ a2 :> -5
MCCapacity == a1 :> 1 @@ a2 :> 1
==================================================================================
