---------------------------- MODULE LeadReplacementMC ---------------------------
(*****************************************************************************)
(* A lead that is sold for an odd price, refunded, and given away.           *)
(*****************************************************************************)
EXTENDS LeadReplacement, TLC

CONSTANTS d1, d2, c1, c2, r1, r2, l1

MCLeadOf == [o \in Orders |-> l1]
MCPrice == 1 :> 1 @@ 2 :> 0

Symmetry ==
  Permutations({d1, d2}) \cup Permutations({c1, c2}) \cup Permutations({r1, r2})
=================================================================================
