-------------------------------- MODULE Routing --------------------------------
(*****************************************************************************)
(* How an organization's leads find an agent: routeLeadToBestAgent, which    *)
(* assigns under an advisory lock of the organization, and the live auction  *)
(* of leads with a high score (auction.ts), which opens a window in the      *)
(* memory of one pod, takes claims, and resolves them from a timer with one  *)
(* query after the other and no lock.  Agents answer the assignments they    *)
(* get; a declined lead is routed again.  Calls are interleaved between      *)
(* their awaits, pods crash and queries fail.                                *)
(*****************************************************************************)
EXTENDS Integers, FiniteSets

CONSTANTS
  Leads, Agents, Pods,
  HighScore,       \* leads that shouldOpenAuction sends to an auction
  Qualified,       \* Qualified[l]: agents that pass the hard filters but capacity
  Merit,           \* Merit[l][a]: the part of the score that does not change
  Reputation,      \* Reputation[a]: what routing adds and the auction does not
  Capacity,        \* Capacity[a]: capacityLimit
  Subscribed,      \* leads some Smart Match subscription wants as well
  Faulty,          \* bound: leads whose queries fail and whose agents answer twice
  MaxDeclines,     \* bound: declined assignments
  MaxClaims,       \* bound: rows of lead_claims
  NONE

ASSUME RoutingAssumption ==
  /\ IsFiniteSet(Leads)
  /\ HighScore \subseteq Leads /\ Subscribed \subseteq Leads /\ Faulty \subseteq Leads
  /\ Qualified \in [Leads -> SUBSET Agents]
  /\ Capacity \in [Agents -> Nat \ {0}]
  /\ Merit \in [Leads -> [Agents -> Nat]] /\ Reputation \in [Agents -> Int]
  /\ NONE \notin Agents
  /\ MaxDeclines \in Nat /\ MaxClaims \in Nat

VARIABLES
  lead,        \* rows of leads: listed (the row exists), gone (sold or removed), owner
               \* (assignedToUserId)
  assignment,  \* rows of lead_assignments: id, lead, agent, status, via
  claim,       \* rows of lead_claims: id (in order of createdAt), lead, agent, status
  marker,      \* marker[p]: openAuctions of pod p
  calls,       \* calls between two awaits: lead, pod, pc, the agent or the claims they hold
  failed       \* history: leads of which a call was lost to a crash or a failed query

vars == << lead, assignment, claim, marker, calls, failed >>

Call(l, p, pc) == [lead |-> l, pod |-> p, pc |-> pc, agent |-> NONE, seen |-> {}]

RoutePcs == {"pre", "bypass", "tx", "holding"}
AuctionPcs == {"exists", "mark", "timer", "list", "rank", "losers", "expire"}
ClaimPcs == {"dedupe", "insert"}
AllPcs == RoutePcs \cup AuctionPcs \cup ClaimPcs

AssignmentsOf(l) == {a \in assignment : a.lead = l}
AssignmentExists(l) == AssignmentsOf(l) # {}
SmartMatched(l) == \E a \in AssignmentsOf(l) : a.via = "smartmatch"
PendingClaims(l) == {c \in claim : c.lead = l /\ c.status = "pending"}

\* A routing transaction holds the lock of the organization and the lead's row.
Locked == \E c \in calls : c.pc = "holding"
RowFree(l) == ~\E c \in calls : c.pc = "holding" /\ c.lead = l

OpenLeads(a) == {l \in Leads : lead[l].owner = a /\ ~lead[l].gone}

-------------------------------------------------------------------------------
(* Ranking.                                                                  *)

\* Math.round((slack / capacityLimit) * 20)
SlackBonus(a) == LET slack == Capacity[a] - Cardinality(OpenLeads(a)) IN
  (40 * slack + Capacity[a]) \div (2 * Capacity[a])

Score(l, a) == Merit[l][a] + SlackBonus(a)

\* The agents rankCandidates does not skip.
Eligible(l) == {a \in Qualified[l] : Cardinality(OpenLeads(a)) < Capacity[a]}

\* The best of them; among equals, whichever row the database returns first.
IsBestAgent(l, a) ==
  /\ a \in Eligible(l)
  /\ \A b \in Eligible(l) : Score(l, b) + Reputation[b] <= Score(l, a) + Reputation[a]

\* resolveAuctionWinner: the best score among claimants, the earlier claim of equals.
IsWinner(l, seen, c) ==
  /\ c \in seen /\ c.agent \in Eligible(l)
  /\ \A d \in seen : d.agent \in Eligible(l) =>
       \/ Score(l, d.agent) < Score(l, c.agent)
       \/ Score(l, d.agent) = Score(l, c.agent) /\ c.id <= d.id

-------------------------------------------------------------------------------
Init ==
  /\ lead = [l \in Leads |-> [listed |-> FALSE, gone |-> FALSE, owner |-> NONE]]
  /\ assignment = {} /\ claim = {} /\ calls = {} /\ failed = {}
  /\ marker = [p \in Pods |-> {}]

\* The call goes on at pc, or ends.
Goto(c, pc) == calls' = (calls \ {c}) \cup {[c EXCEPT !.pc = pc]}
Return(c) == calls' = calls \ {c}

\* The ingest handler inserts the lead and calls routeLeadToBestAgent.
Ingest(l, p) ==
  /\ ~lead[l].listed
  /\ lead' = [lead EXCEPT ![l].listed = TRUE]
  /\ calls' = calls \cup {Call(l, p, "pre")}
  /\ UNCHANGED << assignment, claim, marker, failed >>

\* routeLeadToBestAgent outside its transaction.
PreCheck(c) ==
  /\ c.pc \in {"pre", "bypass"}
  /\ IF lead[c.lead].gone \/ lead[c.lead].owner # NONE THEN Return(c)
     ELSE Goto(c, IF c.pc = "pre" /\ c.lead \in HighScore THEN "exists" ELSE "tx")
  /\ UNCHANGED << lead, assignment, claim, marker, failed >>

\* Seeded fault of MayRoute: two transactions of one organization at a time.
MayRouteBeside(c) == c.pc = "tx" /\ RowFree(c.lead)

\* pg_advisory_xact_lock of the organization, then the row of the lead.
MayRoute(c) == c.pc = "tx" /\ ~Locked

\* Under the locks: the lead is checked again, the agents are counted and ranked.
RouteChoose(c) ==
  /\ MayRoute(c)
  /\ \/ /\ lead[c.lead].gone \/ lead[c.lead].owner # NONE \/ Eligible(c.lead) = {}
        /\ Return(c)
     \/ /\ ~lead[c.lead].gone /\ lead[c.lead].owner = NONE
        /\ \E a \in Agents :
             /\ IsBestAgent(c.lead, a)
             /\ calls' = (calls \ {c}) \cup {[c EXCEPT !.pc = "holding", !.agent = a]}
  /\ UNCHANGED << lead, assignment, claim, marker, failed >>

\* The lead and its assignment, in one transaction.
Assign(l, a, via) ==
  /\ lead' = [lead EXCEPT ![l].owner = a]
  /\ assignment' = assignment \cup
       {[id |-> Cardinality(assignment) + 1, lead |-> l, agent |-> a, status |-> "assigned",
         via |-> via]}

RouteCommit(c) ==
  /\ c.pc = "holding"
  /\ Assign(c.lead, c.agent, "routing")
  /\ Return(c)
  /\ UNCHANGED << claim, marker, failed >>

-------------------------------------------------------------------------------
(* The auction.                                                              *)

\* openAuction awaits assignmentExists ...
OpenCheck(c) ==
  /\ c.pc = "exists"
  /\ IF AssignmentExists(c.lead) THEN Return(c) ELSE Goto(c, "mark")
  /\ UNCHANGED << lead, assignment, claim, marker, failed >>

\* ... and then looks at the marker, sets it and starts the timer in one go.
OpenMark(c) ==
  /\ c.pc = "mark"
  /\ IF c.lead \in marker[c.pod] THEN Return(c) /\ UNCHANGED marker
     ELSE Goto(c, "timer") /\ marker' = [marker EXCEPT ![c.pod] = @ \cup {c.lead}]
  /\ UNCHANGED << lead, assignment, claim, failed >>

ClearOpen(c) == marker' = [marker EXCEPT ![c.pod] = @ \ {c.lead}]

\* The timer fires and resolveAuction asks for an assignment.
ResolveCheck(c) ==
  /\ c.pc = "timer"
  /\ IF AssignmentExists(c.lead) THEN Return(c) /\ ClearOpen(c)
     ELSE Goto(c, "list") /\ UNCHANGED marker
  /\ UNCHANGED << lead, assignment, claim, failed >>

\* It lists the claims; without any it closes the window and routes as usual.
ResolveList(c) ==
  /\ c.pc = "list"
  /\ IF PendingClaims(c.lead) = {} THEN Goto(c, "bypass") /\ ClearOpen(c)
     ELSE /\ calls' = (calls \ {c}) \cup
                        {[c EXCEPT !.pc = "rank", !.seen = PendingClaims(c.lead)]}
          /\ UNCHANGED marker
  /\ UNCHANGED << lead, assignment, claim, failed >>

Settled(c, d, status) == claim' = (claim \ {d}) \cup {[d EXCEPT !.status = status]}

\* It hydrates the claimants, finds the winner and marks that claim.
ResolveRank(c) ==
  /\ c.pc = "rank"
  /\ \/ \E d \in c.seen :
          /\ IsWinner(c.lead, c.seen, d)
          /\ Settled(c, d, "won")
          /\ calls' = (calls \ {c}) \cup
                        {[c EXCEPT !.pc = "losers", !.agent = d.agent, !.seen = @ \ {d}]}
     \/ /\ \A d \in c.seen : d.agent \notin Eligible(c.lead)
        /\ Goto(c, "expire")
        /\ UNCHANGED claim
  /\ UNCHANGED << lead, assignment, marker, failed >>

\* The claims that did not win are marked one by one.
MarkClaim(c) ==
  /\ c.pc \in {"losers", "expire"}
  /\ \E d \in c.seen :
       /\ \A e \in c.seen : d.id <= e.id
       /\ Settled(c, d, IF c.pc = "losers" THEN "lost" ELSE "expired")
       /\ calls' = (calls \ {c}) \cup {[c EXCEPT !.seen = @ \ {d}]}
  /\ UNCHANGED << lead, assignment, marker, failed >>

\* Nobody who claimed may have it: close and route as usual.
ResolveExpired(c) ==
  /\ c.pc = "expire" /\ c.seen = {}
  /\ Goto(c, "bypass")
  /\ ClearOpen(c)
  /\ UNCHANGED << lead, assignment, claim, failed >>

\* Seeded fault of ResolveAward: a lead that was sold meanwhile is not assigned.
ResolveAwardUnlessGone(c) ==
  /\ c.pc = "losers" /\ c.seen = {}
  /\ RowFree(c.lead)
  /\ IF lead[c.lead].gone THEN UNCHANGED << lead, assignment >>
     ELSE Assign(c.lead, c.agent, "auction")
  /\ Return(c)
  /\ ClearOpen(c)
  /\ UNCHANGED << claim, failed >>

\* writeAssignment, whatever became of the lead, and the end of the auction.
ResolveAward(c) ==
  /\ c.pc = "losers" /\ c.seen = {}
  /\ RowFree(c.lead)
  /\ Assign(c.lead, c.agent, "auction")
  /\ Return(c)
  /\ ClearOpen(c)
  /\ UNCHANGED << claim, failed >>

\* recordAuctionClaim on pod p: the lead is free, the window open on this pod, the
\* agent one of the organization; then the agent's pending claims are read ...
StartClaim(l, a, p) ==
  /\ lead[l].listed /\ lead[l].owner = NONE
  /\ l \in marker[p]
  /\ Cardinality(claim) + Cardinality({c \in calls : c.pc \in ClaimPcs}) < MaxClaims
  /\ calls' = calls \cup {[Call(l, p, "dedupe") EXCEPT !.agent = a]}
  /\ UNCHANGED << lead, assignment, claim, marker, failed >>

DedupeClaim(c) ==
  /\ c.pc = "dedupe"
  /\ IF \E d \in PendingClaims(c.lead) : d.agent = c.agent THEN Return(c) ELSE Goto(c, "insert")
  /\ UNCHANGED << lead, assignment, claim, marker, failed >>

\* ... and then a claim is inserted.
InsertClaim(c) ==
  /\ c.pc = "insert"
  /\ claim' = claim \cup {[id |-> Cardinality(claim) + 1, lead |-> c.lead, agent |-> c.agent,
                           status |-> "pending"]}
  /\ Return(c)
  /\ UNCHANGED << lead, assignment, marker, failed >>

-------------------------------------------------------------------------------
(* Answers, other writers of the row, failures.                              *)

\* Seeded fault of MayAnswer: an answered assignment is answered again.
MayAnswerAgain(a) == TRUE

\* Only an assignment that is still open is answered.
MayAnswer(a) == a.status = "assigned"

Answered(a, status) == assignment' = (assignment \ {a}) \cup {[a EXCEPT !.status = status]}

AcceptAssignment(a) ==
  /\ MayAnswer(a)
  /\ Answered(a, "accepted")
  /\ UNCHANGED << lead, claim, marker, calls, failed >>

\* Seeded fault of DeclineAssignment: the row is freed, and nobody routes it again.
DeclineAndForget(a, p) ==
  /\ MayAnswer(a)
  /\ Cardinality({b \in assignment : b.status = "declined"}) < MaxDeclines
  /\ RowFree(a.lead)
  /\ Answered(a, "declined")
  /\ lead' = [lead EXCEPT ![a.lead].owner = NONE]
  /\ UNCHANGED << claim, marker, calls, failed >>

\* The row is freed, and the route handler calls routeLeadToBestAgent once more.
DeclineAssignment(a, p) ==
  /\ MayAnswer(a)
  /\ Cardinality({b \in assignment : b.status = "declined"}) < MaxDeclines
  /\ RowFree(a.lead)
  /\ Answered(a, "declined")
  /\ lead' = [lead EXCEPT ![a.lead].owner = NONE]
  /\ calls' = calls \cup {Call(a.lead, p, "pre")}
  /\ UNCHANGED << claim, marker, failed >>

\* An answer that comes too late changes nothing, but the route handler routes the
\* lead again whenever it says "declined".
DeclineAgain(a, p) ==
  /\ a.lead \in Faulty /\ ~MayAnswer(a)
  /\ calls' = calls \cup {Call(a.lead, p, "pre")}
  /\ UNCHANGED << lead, assignment, claim, marker, failed >>

\* The lead is sold or removed.
LeaveMarket(l) ==
  /\ lead[l].listed /\ ~lead[l].gone /\ RowFree(l)
  /\ lead' = [lead EXCEPT ![l].gone = TRUE]
  /\ UNCHANGED << assignment, claim, marker, calls, failed >>

\* Smart Match, started by the same ingest, writes the lead by id and assigns it.
SmartMatchDelivers(l, a) ==
  /\ l \in Subscribed /\ lead[l].listed /\ RowFree(l)
  /\ ~SmartMatched(l)
  /\ lead' = [lead EXCEPT ![l].owner = a, ![l].gone = TRUE]
  /\ assignment' = assignment \cup
       {[id |-> Cardinality(assignment) + 1, lead |-> l, agent |-> a, status |-> "assigned",
         via |-> "smartmatch"]}
  /\ UNCHANGED << claim, marker, calls, failed >>

\* A query of a call fails: its promise is rejected, its marker stays, its
\* transaction is rolled back.
QueryFails(c) ==
  /\ c.lead \in Faulty /\ c.pc # "timer"
  /\ Return(c)
  /\ failed' = failed \cup {c.lead}
  /\ UNCHANGED << lead, assignment, claim, marker >>

\* A pod dies with its calls, timers and markers.
Crash(p) ==
  /\ calls' = {c \in calls : c.pod # p}
  /\ marker' = [marker EXCEPT ![p] = {}]
  /\ failed' = failed \cup {c.lead : c \in calls \ calls'}
  /\ UNCHANGED << lead, assignment, claim >>

-------------------------------------------------------------------------------
Step(c) ==
  \/ PreCheck(c) \/ RouteChoose(c) \/ RouteCommit(c)
  \/ OpenCheck(c) \/ OpenMark(c)
  \/ ResolveCheck(c) \/ ResolveList(c) \/ ResolveRank(c) \/ MarkClaim(c)
  \/ ResolveExpired(c) \/ ResolveAward(c)
  \/ DedupeClaim(c) \/ InsertClaim(c)

Next ==
  \/ \E c \in calls : Step(c) \/ QueryFails(c)
  \/ \E l \in Leads : LeaveMarket(l)
  \/ \E l \in Leads, p \in Pods : Ingest(l, p)
  \/ \E l \in Leads, a \in Agents : SmartMatchDelivers(l, a)
  \/ \E l \in Leads, a \in Agents, p \in Pods : StartClaim(l, a, p)
  \/ \E a \in assignment : AcceptAssignment(a) \/ \E p \in Pods : DeclineAssignment(a, p) \/ DeclineAgain(a, p)
  \/ \E p \in Pods : Crash(p)

\* Timers fire, awaited queries return and locks are granted in turn.
Runs(l, pcs) == \E c \in calls : c.lead = l /\ c.pc \in pcs /\ Step(c)

Fairness ==
  \A l \in Leads :
    WF_vars(Runs(l, {"pre"})) /\ SF_vars(Runs(l, RoutePcs \ {"pre"})) /\ SF_vars(Runs(l, AuctionPcs))

Spec == Init /\ [][Next]_vars /\ Fairness

-------------------------------------------------------------------------------
(* Properties.                                                               *)

AssignmentRow == [id : Nat, lead : Leads, agent : Agents,
                  status : {"assigned", "accepted", "declined"},
                  via : {"routing", "auction", "smartmatch"}]
ClaimRow == [id : Nat, lead : Leads, agent : Agents,
             status : {"pending", "won", "lost", "expired"}]
CallRow == [lead : Leads, pod : Pods, pc : AllPcs, agent : Agents \cup {NONE}, seen : SUBSET claim]

\* Every variable holds a value of its type, and one routing transaction of the
\* organization runs at a time.
TypeOK ==
  /\ lead \in [Leads -> [listed : BOOLEAN, gone : BOOLEAN, owner : Agents \cup {NONE}]]
  /\ assignment \subseteq AssignmentRow
  /\ claim \subseteq ClaimRow
  /\ marker \in [Pods -> SUBSET Leads]
  /\ calls \subseteq CallRow
  /\ failed \subseteq Leads
  /\ \A c, d \in calls : c.pc = "holding" /\ d.pc = "holding" => c = d

LiveAssignments(l) == {a \in AssignmentsOf(l) : a.status # "declined"}

\* The lead's owner and the assignment rows never part, until Smart Match writes both
\* behind the router's back: a lead has an owner exactly when one of its
\* assignments is not declined, it is only one, and it is the owner's.  A lead is so
\* never promised to two agents, not by two route calls, a route call and an auction,
\* or a second answer to an old assignment.
OwnerHoldsTheAssignment ==
  \A l \in Leads : ~SmartMatched(l) =>
    IF lead[l].owner = NONE THEN LiveAssignments(l) = {}
    ELSE \E a \in assignment : LiveAssignments(l) = {a} /\ a.agent = lead[l].owner

Routed(a) == {l \in OpenLeads(a) : \E b \in LiveAssignments(l) : b.agent = a /\ b.via = "routing"}

\* "Two concurrent ingests in the same org used to ... both pick the same agent,
\* blowing through capacity" (storage.ts:2230): what routing itself assigns never
\* passes an agent's capacity, whatever auctions and Smart Match add to it.
RoutedWithinCapacity == \A a \in Agents : Cardinality(Routed(a)) <= Capacity[a]

\* A claim that was told it won has the assignment, is about to get it, or lost it to
\* a crash or a failed query; and no other claim of the lead won too.
WonClaimIsAssigned ==
  \A c \in claim : c.status = "won" =>
    /\ \/ c.lead \in failed
       \/ \E a \in AssignmentsOf(c.lead) : a.agent = c.agent /\ a.via = "auction"
       \/ \E d \in calls : d.pc = "losers" /\ d.lead = c.lead /\ d.agent = c.agent
    /\ \A d \in claim : d.lead = c.lead /\ d.status = "won" => d = c

\* Leads that Smart Match does not touch are offered as LeadOwnership promises.
Offered(l) ==
  [agent |-> lead[l].owner, accepted |-> \E a \in LiveAssignments(l) : a.status = "accepted"]

Ownership == INSTANCE LeadOwnership
  WITH Leads <- Leads \ Subscribed, offer <- [l \in Leads \ Subscribed |-> Offered(l)]

ImplementsOwnership == Ownership!Spec

\* A listed lead without owner gets one while an agent has room for it, unless it
\* leaves the market or a call of it is lost: a new lead by routing or after its
\* auction, and a declined one ("free the lead so the routing engine can re-route it",
\* storage.ts:2646) by routing again.  An auctioned lead is promised one assignment only:
\* openAuction does not look at the status of an old one, and drops a declined lead.
EveryLeadFindsAnAgent ==
  \A l \in Leads :
    (lead[l].listed /\ lead[l].owner = NONE)
      ~> \/ lead[l].owner # NONE
         \/ l \in HighScore /\ AssignmentExists(l)
         \/ lead[l].gone \/ l \in failed \/ Eligible(l) = {}

===============================================================================
