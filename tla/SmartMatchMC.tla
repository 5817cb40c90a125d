------------------------------ MODULE SmartMatchMC ------------------------------
(*****************************************************************************)
(* Two subscriptions of one lead a cycle: all three leads fit the first one, *)
(* the second lead fits both.                                                *)
(*****************************************************************************)
EXTENDS SmartMatch, TLC

CONSTANTS a1, a2

MCAgentOf == 1 :> a1 @@ 2 :> a2
MCQuota == 1 :> 1 @@ 2 :> 1
MCFits == 1 :> Leads @@ 2 :> {2}
=================================================================================
