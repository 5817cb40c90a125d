------------------------------ MODULE SecondLookMC ------------------------------
(*****************************************************************************)
(* Two leads and a sweep that takes one row.  At floor 51 and a minimum price *)
(* of 40 the first lead, at 65, is asked 55 (from 55.25, settled), then 46   *)
(* (from 45.50, rounded up) and then 40 (from 33.15, the minimum): in its    *)
(* last two tiers it is stuck.  The second, at 100, never is.                *)
(*****************************************************************************)
EXTENDS SecondLook, TLC

StickersOfBothKinds == 1 :> 65 @@ 2 :> 100
=================================================================================
