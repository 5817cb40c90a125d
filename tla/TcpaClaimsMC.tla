------------------------------ MODULE TcpaClaimsMC ------------------------------
(*****************************************************************************)
(* One organisation: a policy whose aggregate limit covers one full claim    *)
(* and a half, and its renewal.                                              *)
(*****************************************************************************)
EXTENDS TcpaClaims, TLC

CONSTANTS a1, a2, o1, o2, g1

MCLimits == {[perClaim |-> 2, aggregate |-> 3]}

Symmetry == Permutations({a1, a2}) \cup Permutations({o1, o2})
=================================================================================
