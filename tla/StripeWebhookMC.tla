---------------------------- MODULE StripeWebhookMC -----------------------------
(*****************************************************************************)
(* Two events about one paid session, which race each other and their own    *)
(* retries on two pods, or two sessions with an event each.                  *)
(*****************************************************************************)
EXTENDS StripeWebhook

CONSTANTS e1, e2, e3, s1, s2, p1, p2, c1, c2

MCSessionOf == [e \in Events |-> IF e = e3 THEN s2 ELSE s1]
=================================================================================
