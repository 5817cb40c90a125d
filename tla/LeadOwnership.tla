----------------------------- MODULE LeadOwnership -----------------------------
(*****************************************************************************)
(* What the routing of an organization's leads promises its agents, however  *)
(* it finds them: a lead is offered to one agent at a time; only that agent  *)
(* answers; a declined lead is free again, and an accepted one is kept.      *)
(*****************************************************************************)
CONSTANTS Leads, Agents, NONE

VARIABLE offer   \* offer[l]: whom l is offered to and whether they accepted

Free == [agent |-> NONE, accepted |-> FALSE]

Init == offer = [l \in Leads |-> Free]

Offer(l, a) ==
  /\ offer[l] = Free
  /\ offer' = [offer EXCEPT ![l] = [agent |-> a, accepted |-> FALSE]]

Accept(l) ==
  /\ offer[l].agent # NONE
  /\ offer' = [offer EXCEPT ![l].accepted = TRUE]

Decline(l) ==
  /\ offer[l].agent # NONE /\ ~offer[l].accepted
  /\ offer' = [offer EXCEPT ![l] = Free]

Next == \E l \in Leads : Accept(l) \/ Decline(l) \/ \E a \in Agents : Offer(l, a)

Spec == Init /\ [][Next]_offer
================================================================================
