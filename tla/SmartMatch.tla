------------------------------- MODULE SmartMatch -------------------------------
(*****************************************************************************)
(* smartMatch.ts: flat-rate subscriptions that are handed freshly ingested   *)
(* leads.  The delivery of a lead runs beside everything else the ingest     *)
(* handler started and beside the marketplace: it reads the lead, then the   *)
(* subscriptions, picks one, and only then opens a transaction, which writes *)
(* the lead by id without looking at it again.  Purchases, routing, removals *)
(* and the DNC recheck are other writers of the same row.                    *)
(*****************************************************************************)
EXTENDS Integers, FiniteSets

CONSTANTS
  Leads,
  Subs,        \* subscription ids, numbers: the lowest one wins a tie
  AgentOf,     \* AgentOf[s]: the agent who owns subscription s
  Quota,       \* Quota[s]: monthlyLeadQuota
  Fits,        \* Fits[s]: the leads that satisfy filterCriteria of s
  Buyers,      \* agents who buy in the marketplace
  Contested,   \* bound: the leads other writers buy, route, remove or flag
  MaxIngests,  \* bound: ingests whose delivery runs at the same time
  NONE

ASSUME SmartMatchAssumption ==
  /\ Subs \subseteq Nat /\ IsFiniteSet(Subs)
  /\ IsFiniteSet(Leads)
  /\ AgentOf \in [Subs -> Buyers] /\ NONE \notin Buyers /\ NONE \notin Subs
  /\ Quota \in [Subs -> Nat]
  /\ Fits \in [Subs -> SUBSET Leads]
  /\ Contested \subseteq Leads
  /\ MaxIngests \in Nat \ {0}

VARIABLES
  lead,     \* rows of leads: listed (the row exists), sold, removed, dncFlagged,
            \* purchasedBy, assignedToUserId
  orders,   \* rows of orders: lead, user, status
  sub,      \* rows of smart_match_subscriptions: status, delivered, due
            \* (cycleStartedAt is before the cutoff)
  call,     \* attemptDeliveryForLead of each lead: where it is, whom it picked
  stale,    \* the rows the running cycle reset selected and has not written yet
  overtaken \* history: leads bought while a delivery of theirs held the row it had read

vars == << lead, orders, sub, call, stale, overtaken >>

\* Seeded fault of Gone: a sold lead is delivered like any other.
GoneUnlessSold(l) == lead[l].removed \/ lead[l].dncFlagged

Gone(l) == lead[l].sold \/ lead[l].removed \/ lead[l].dncFlagged

Running == {l \in Leads : call[l].pc \in {"read", "list", "deliver"}}
InFlight(s) == {l \in Leads : call[l].pc = "deliver" /\ call[l].winner = s}

Ended == [pc |-> "done", winner |-> NONE]

-------------------------------------------------------------------------------
(* Pure helpers.                                                             *)

RemainingQuota(s) == IF Quota[s] > sub[s].delivered THEN Quota[s] - sub[s].delivered ELSE 0

\* Seeded fault of MatchesOf: a subscription with nothing left is not skipped.
MatchesOfWithoutQuota(l) == {s \in Subs : sub[s].status = "active" /\ l \in Fits[s]}

\* Seeded fault of MatchesOf: the filter is not looked at.
MatchesOfAnyLead(l) == {s \in Subs : sub[s].status = "active" /\ RemainingQuota(s) > 0}

\* The subscriptions pickBestSubscription does not skip.
MatchesOf(l) ==
  {s \in Subs : sub[s].status = "active" /\ l \in Fits[s] /\ RemainingQuota(s) > 0}

\* The most remaining quota wins, and the lowest id of those.
Better(s, t) ==
  \/ RemainingQuota(s) > RemainingQuota(t)
  \/ RemainingQuota(s) = RemainingQuota(t) /\ s <= t

PickBestSubscription(l) ==
  IF MatchesOf(l) = {} THEN NONE
  ELSE CHOOSE s \in MatchesOf(l) : \A t \in MatchesOf(l) : Better(s, t)

-------------------------------------------------------------------------------
Init ==
  /\ lead = [l \in Leads |-> [listed |-> FALSE, sold |-> FALSE, removed |-> FALSE,
                              dncFlagged |-> FALSE, purchasedBy |-> NONE, assignedTo |-> NONE]]
  /\ orders = {}
  /\ sub = [s \in Subs |-> [status |-> "none", delivered |-> 0, due |-> FALSE]]
  /\ call = [l \in Leads |-> [pc |-> "none", winner |-> NONE]]
  /\ stale = {}
  /\ overtaken = {}

\* The ingest handler inserts the lead and starts the delivery without awaiting it.
Ingest(l) ==
  /\ ~lead[l].listed
  /\ Cardinality(Running) < MaxIngests
  /\ lead' = [lead EXCEPT ![l].listed = TRUE]
  /\ call' = [call EXCEPT ![l].pc = "read"]
  /\ UNCHANGED << orders, sub, stale, overtaken >>

\* getLead, then the early returns of attemptDeliveryForLead on what it returned.
ReadLead(l) ==
  /\ call[l].pc = "read"
  /\ call' = [call EXCEPT ![l] = IF Gone(l) \/ lead[l].assignedTo # NONE
                                 THEN Ended ELSE [@ EXCEPT !.pc = "list"]]
  /\ UNCHANGED << lead, orders, sub, stale, overtaken >>

\* listSmartMatchSubscriptions and the choice among its rows.
PickSubscription(l) ==
  /\ call[l].pc = "list"
  /\ call' = [call EXCEPT ![l] = IF MatchesOf(l) = {} THEN Ended
                                 ELSE [pc |-> "deliver", winner |-> PickBestSubscription(l)]]
  /\ UNCHANGED << lead, orders, sub, stale, overtaken >>

\* Seeded fault of Delivered: the agent is assigned, the lead stays on sale.
DeliveredUnsold(l, s) == [lead[l] EXCEPT !.assignedTo = AgentOf[s]]

\* What the transaction writes to the lead.
Delivered(l, s) ==
  [lead[l] EXCEPT !.sold = TRUE, !.purchasedBy = AgentOf[s], !.assignedTo = AgentOf[s]]

\* The transaction: the order, the lead by its id, the counter by its id.
Deliver(l) ==
  LET s == call[l].winner IN
  /\ call[l].pc = "deliver"
  /\ orders' = orders \cup {[lead |-> l, user |-> AgentOf[s], status |-> "completed_smartmatch"]}
  /\ lead' = [lead EXCEPT ![l] = Delivered(l, s)]
  /\ sub' = [sub EXCEPT ![s].delivered = @ + 1]
  /\ call' = [call EXCEPT ![l] = Ended]
  /\ UNCHANGED << stale, overtaken >>

\* A query fails and the error is caught, or the pod dies: nothing is written and
\* nobody tries this lead again.
Lose(l) ==
  /\ call[l].pc \in {"read", "list", "deliver"}
  /\ call' = [call EXCEPT ![l] = Ended]
  /\ UNCHANGED << lead, orders, sub, stale, overtaken >>

-------------------------------------------------------------------------------
(* The other writers.                                                        *)

\* purchaseLead, as far as the lead and the order go.
PurchaseLead(l, u) ==
  /\ l \in Contested
  /\ lead[l].listed /\ ~lead[l].sold /\ ~lead[l].removed
  /\ lead' = [lead EXCEPT ![l].sold = TRUE, ![l].purchasedBy = u]
  /\ orders' = orders \cup {[lead |-> l, user |-> u, status |-> "completed"]}
  /\ overtaken' = IF call[l].pc \in {"list", "deliver"} THEN overtaken \cup {l} ELSE overtaken
  /\ UNCHANGED << sub, call, stale >>

\* routeLeadToBestAgent, which the same ingest starts, gives the lead to an agent.
Route(l, u) ==
  /\ l \in Contested
  /\ lead[l].listed /\ ~lead[l].sold /\ ~lead[l].removed /\ lead[l].assignedTo = NONE
  /\ lead' = [lead EXCEPT ![l].assignedTo = u]
  /\ UNCHANGED << orders, sub, call, stale, overtaken >>

RemoveLead(l) ==
  /\ l \in Contested /\ lead[l].listed
  /\ lead' = [lead EXCEPT ![l].removed = TRUE]
  /\ UNCHANGED << orders, sub, call, stale, overtaken >>

\* The nightly recheck flips the flag either way.  It selects unsold leads and writes
\* them by id after a call of the DNC service, so a sold one may be written too.
DncRecheck(l) ==
  /\ l \in Contested /\ lead[l].listed
  /\ lead' = [lead EXCEPT ![l].dncFlagged = ~@]
  /\ UNCHANGED << orders, sub, call, stale, overtaken >>

CreateSubscription(s) ==
  /\ sub[s].status = "none"
  /\ sub' = [sub EXCEPT ![s].status = "active"]
  /\ UNCHANGED << lead, orders, call, stale, overtaken >>

CancelSubscription(s) ==
  /\ sub[s].status = "active"
  /\ sub' = [sub EXCEPT ![s].status = "cancelled"]
  /\ UNCHANGED << lead, orders, call, stale, overtaken >>

-------------------------------------------------------------------------------
(* The cycle reset.                                                          *)

\* Thirty days have passed since the cycle of s started.
CycleElapses(s) ==
  /\ sub[s].status # "none" /\ ~sub[s].due
  /\ sub' = [sub EXCEPT ![s].due = TRUE]
  /\ UNCHANGED << lead, orders, call, stale, overtaken >>

\* runSmartMatchCycleReset selects the active rows of an old cycle ...
SelectStale ==
  /\ stale = {}
  /\ stale' = {s \in Subs : sub[s].status = "active" /\ sub[s].due}
  /\ UNCHANGED << lead, orders, sub, call, overtaken >>

\* Seeded fault of Rolled: the clock restarts, the counter does not.
RolledButCounter(s) == [sub[s] EXCEPT !.due = FALSE]

\* What the reset leaves in a row.
Rolled(s) == [sub[s] EXCEPT !.delivered = 0, !.due = FALSE]

\* ... and writes them one by one, by id.
ResetCycle(s) ==
  /\ s \in stale
  /\ sub' = [sub EXCEPT ![s] = Rolled(s)]
  /\ stale' = stale \ {s}
  /\ UNCHANGED << lead, orders, call, overtaken >>

\* The pod that runs the reset dies between two rows.
ResetDies ==
  /\ stale # {}
  /\ stale' = {}
  /\ UNCHANGED << lead, orders, sub, call, overtaken >>

-------------------------------------------------------------------------------
Next ==
  \/ \E l \in Leads : Ingest(l) \/ ReadLead(l) \/ PickSubscription(l) \/ Deliver(l) \/ Lose(l)
                       \/ RemoveLead(l) \/ DncRecheck(l)
  \/ \E l \in Leads, u \in Buyers : PurchaseLead(l, u) \/ Route(l, u)
  \/ \E s \in Subs : CreateSubscription(s) \/ CancelSubscription(s) \/ CycleElapses(s)
                      \/ ResetCycle(s)
  \/ SelectStale \/ ResetDies

\* Time passes, the cron fires every night, and it does not die in the middle of
\* every single run.
Fairness ==
  /\ \A s \in Subs : WF_vars(CycleElapses(s)) /\ SF_vars(ResetCycle(s))
  /\ SF_vars(SelectStale /\ stale' # {})

Spec == Init /\ [][Next]_vars /\ Fairness

-------------------------------------------------------------------------------
(* Properties.                                                               *)

LeadRow == [listed : BOOLEAN, sold : BOOLEAN, removed : BOOLEAN, dncFlagged : BOOLEAN,
            purchasedBy : Buyers \cup {NONE}, assignedTo : Buyers \cup {NONE}]

\* Every variable holds a value of its type, and a delivery that is about to write
\* has picked a subscription whose filter the lead satisfies.
TypeOK ==
  /\ lead \in [Leads -> LeadRow]
  /\ orders \subseteq [lead : Leads, user : Buyers, status : {"completed", "completed_smartmatch"}]
  /\ sub \in [Subs -> [status : {"none", "active", "cancelled"}, delivered : Nat, due : BOOLEAN]]
  /\ call \in [Leads -> [pc : {"none", "read", "list", "deliver", "done"},
                         winner : Subs \cup {NONE}]]
  /\ stale \subseteq Subs /\ overtaken \subseteq Leads
  /\ \A l \in Leads : call[l].pc = "deliver" <=> call[l].winner # NONE
  /\ \A l \in Leads : call[l].pc = "deliver" => l \in Fits[call[l].winner]

\* "A half-delivery can never leak" (smartMatch.ts:242): a lead is off the market
\* exactly when somebody has an order for it, its buyer is one of those, and no
\* order of either kind is repeated, whatever buys, routes or delivers beside it.
NoHalfDelivery ==
  \A l \in Leads :
    /\ lead[l].sold <=> \E o \in orders : o.lead = l
    /\ lead[l].sold => \E o \in orders : o.lead = l /\ o.user = lead[l].purchasedBy
    /\ \A o, q \in orders : o.lead = l /\ q.lead = l /\ o.status = q.status => o = q

\* "Sold/removed/DNC leads never count" (smartMatch.ts:106), as far as it goes: the
\* delivery looks at a row read before its transaction, so a lead has a second order
\* only if the marketplace sold it between that read and the delivery.
SoldTwiceOnlyWhenOvertaken ==
  \A o, q \in orders : o.lead = q.lead /\ o # q => o.lead \in overtaken

\* How far the quota may be passed.  It is compared when a subscription is picked
\* and counted when the lead is delivered, so of n deliveries at the same time n - 1
\* may go over it, and never more: the counter and the deliveries on their way to
\* it together stay below the quota plus MaxIngests.
QuotaOvershootBounded ==
  \A s \in Subs : sub[s].delivered + Cardinality(InFlight(s)) <= Quota[s] + MaxIngests - 1

\* A subscription that used its quota up gets leads again in the next cycle, unless
\* it is cancelled: the reset reaches every active row, also when it dies in between.
QuotaComesBack ==
  \A s \in Subs :
    (sub[s].status = "active" /\ sub[s].delivered >= Quota[s])
      ~> (sub[s].delivered < Quota[s] \/ sub[s].status = "cancelled")

=================================================================================
