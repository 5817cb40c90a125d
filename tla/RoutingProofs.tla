------------------------------ MODULE RoutingProofs ------------------------------
(*****************************************************************************)
(* Proofs about Routing: for any leads, agents, pods, scores and capacities, *)
(* with every crash, failed query, claim and answer.                         *)
(*****************************************************************************)
EXTENDS Routing, FiniteSetTheorems, TLAPS

-------------------------------------------------------------------------------
(* The inductive invariant.                                                  *)

\* A call whose claims need not be in the table any more.
CallShape ==
  [lead : Leads, pod : Pods, pc : AllPcs, agent : Agents \cup {NONE}, seen : SUBSET ClaimRow]

\* TypeOK but for the markers and what the calls saw, and the tables are finite.
Shaped ==
  /\ lead \in [Leads -> [listed : BOOLEAN, gone : BOOLEAN, owner : Agents \cup {NONE}]]
  /\ assignment \subseteq AssignmentRow /\ IsFiniteSet(assignment)
  /\ claim \subseteq ClaimRow /\ IsFiniteSet(claim)
  /\ calls \subseteq CallShape
  /\ failed \subseteq Leads

\* Where a call may be between its check that the lead has no assignment and the end
\* of the auction, the routing that follows one without winner included.
InAuction == (AuctionPcs \ {"exists"}) \cup {"bypass"}

Routes(c) == c.pc \notin ClaimPcs
Auctions(c) == c.pc \in InAuction

\* Nothing refers to a lead before it is ingested.
UnlistedUnknown ==
  \A l \in Leads : ~lead[l].listed =>
    /\ lead[l].owner = NONE /\ ~AssignmentExists(l)
    /\ \A c \in calls : c.lead # l
    /\ \A d \in claim : d.lead # l

\* Until a lead has an assignment the call of its ingest is the only one that may
\* assign it, and no later call gets into an auction.
OneRouter ==
  \A c, d \in calls :
    c.lead = d.lead /\ Routes(c) /\ Routes(d) /\ ~AssignmentExists(c.lead) => c = d

OneAuction == \A c, d \in calls : c.lead = d.lead /\ Auctions(c) /\ Auctions(d) => c = d

AuctionComesFirst ==
  \A c \in calls : Auctions(c) /\ ~SmartMatched(c.lead) => ~AssignmentExists(c.lead)

\* A call that is about to write an agent has one.
AgentChosen ==
  \A c \in calls : c.pc \in {"holding", "losers", "dedupe", "insert"} => c.agent \in Agents

\* What a routing transaction established under its locks stays so, and it is alone.
HoldsFreeLead ==
  /\ \A c \in calls : c.pc = "holding" => lead[c.lead].owner = NONE /\ ~lead[c.lead].gone
  /\ \A c, d \in calls : c.pc = "holding" /\ d.pc = "holding" => c = d

HoldsCapacity ==
  \A c \in calls : c.pc = "holding" => Cardinality(Routed(c.agent)) < Capacity[c.agent]

SmartMatchedIsGone == \A l \in Leads : SmartMatched(l) => lead[l].gone /\ l \in Subscribed

\* The claims an auction has not settled yet are those of its lead, and still pending.
SeenPending ==
  \A c \in calls : \A d \in c.seen :
    d \in claim /\ d.lead = c.lead /\ d.status = "pending" /\ c.pc \in {"rank", "losers", "expire"}

\* Once a claim has won, the auction of the lead does nothing but end.
WonEndsAuction ==
  \A d \in claim, c \in calls :
    /\ d.status = "won" /\ d.lead = c.lead /\ Routes(c)
    /\ Auctions(c) \/ ~AssignmentExists(c.lead)
    => c.pc = "losers"

RoutingInv ==
  /\ Shaped /\ UnlistedUnknown /\ OneRouter /\ OneAuction /\ AuctionComesFirst /\ AgentChosen
  /\ HoldsFreeLead /\ SmartMatchedIsGone /\ SeenPending /\ WonEndsAuction
  /\ OwnerHoldsTheAssignment /\ WonClaimIsAssigned

-------------------------------------------------------------------------------
(* What the steps do.                                                        *)

\* Calls end, and those that had told a claim it won are recorded.
CallsEnd ==
  /\ UNCHANGED << lead, assignment, claim >>
  /\ calls' \subseteq calls
  /\ failed \subseteq failed' /\ failed' \subseteq Leads
  /\ \A c \in calls : c \notin calls' /\ c.pc = "losers" => c.lead \in failed'

\* A call goes on from c to d, and writes nothing.
CallGoesOn(c, d) ==
  /\ UNCHANGED << lead, assignment, claim, failed >>
  /\ c \in calls /\ d \in CallShape /\ d.lead = c.lead
  /\ calls' = (calls \ {c}) \cup {d}
  /\ c.pc # "losers" /\ d.pc # "losers"
  /\ Routes(d) <=> Routes(c)
  /\ Auctions(d) => Auctions(c) \/ ~AssignmentExists(c.lead)
  /\ d.pc = "holding" =>
       /\ ~Locked /\ d.agent \in Agents /\ d.agent \in Eligible(d.lead)
       /\ lead[d.lead].owner = NONE /\ ~lead[d.lead].gone
  /\ ~Routes(d) => d.agent = c.agent
  /\ d.seen # {} => d.pc \in {"rank", "expire"} /\ d.seen \in {c.seen, PendingClaims(c.lead)}

\* A call assigns its lead and ends.
CallAssigns(c, via) ==
  /\ Assign(c.lead, c.agent, via)
  /\ c \in calls /\ calls' = calls \ {c}
  /\ \/ via = "routing" /\ c.pc = "holding"
     \/ via = "auction" /\ c.pc = "losers" /\ RowFree(c.lead)
  /\ UNCHANGED << claim, failed >>

\* An auction settles the claim x and goes on from c to d.
CallSettles(c, d, x, status) ==
  /\ UNCHANGED << lead, assignment, failed >>
  /\ c \in calls /\ d \in CallShape /\ d.lead = c.lead
  /\ calls' = (calls \ {c}) \cup {d}
  /\ x \in c.seen /\ d.seen = c.seen \ {x}
  /\ Settled(c, x, status)
  /\ \/ c.pc = "rank" /\ d.pc = "losers" /\ status = "won" /\ d.agent = x.agent
     \/ c.pc = "losers" /\ d.pc = "losers" /\ status = "lost" /\ d.agent = c.agent
     \/ c.pc = "expire" /\ d.pc = "expire" /\ status = "expired"

\* A call starts.
CallStarts(c) ==
  /\ UNCHANGED << assignment, claim, failed >>
  /\ c \in CallShape /\ calls' = calls \cup {c} /\ c.seen = {}
  /\ \/ \E l \in Leads : c.lead = l /\ ~lead[l].listed /\ c.pc = "pre"
                           /\ lead' = [lead EXCEPT ![l].listed = TRUE]
     \/ UNCHANGED lead /\ lead[c.lead].listed /\ c.pc = "dedupe" /\ c.agent \in Agents
     \/ UNCHANGED lead /\ AssignmentExists(c.lead) /\ c.pc = "pre"

Writes ==
  \/ \E c \in calls : InsertClaim(c)
  \/ \E a \in assignment : AcceptAssignment(a) \/ \E p \in Pods : DeclineAssignment(a, p)
  \/ \E l \in Leads : LeaveMarket(l)
  \/ \E l \in Leads, a \in Agents : SmartMatchDelivers(l, a)

\* The columns of a call.
LEMMA CallColumns ==
  ASSUME NEW c \in CallShape
  PROVE  /\ c.lead \in Leads /\ c.pod \in Pods /\ c.pc \in AllPcs
         /\ c.agent \in Agents \cup {NONE} /\ c.seen \subseteq ClaimRow
BY DEF CallShape

\* A step of a call is one of these.
LEMMA StepEffects ==
  ASSUME RoutingInv, NEW c \in calls, Step(c) \/ QueryFails(c)
  PROVE  \/ CallsEnd
         \/ \E d : CallGoesOn(c, d)
         \/ \E via : CallAssigns(c, via)
         \/ \E d, x, status : CallSettles(c, d, x, status)
         \/ InsertClaim(c)
<1>. DEFINE Effect ==
              \/ CallsEnd
              \/ \E d : CallGoesOn(c, d)
              \/ \E via : CallAssigns(c, via)
              \/ \E d, x, status : CallSettles(c, d, x, status)
              \/ InsertClaim(c)
            same == UNCHANGED << lead, assignment, claim, failed >>
<1>. SUFFICES Effect OBVIOUS
<1>1. c \in CallShape /\ failed \subseteq Leads /\ claim \subseteq ClaimRow
  BY DEF RoutingInv, Shaped
<1>2. c.lead \in Leads /\ c.seen \subseteq ClaimRow /\ PendingClaims(c.lead) \subseteq ClaimRow
  BY <1>1, CallColumns DEF PendingClaims
<1>3. /\ c.pc \notin {"rank", "losers", "expire"} => c.seen = {}
      /\ \A x \in c.seen : x \in claim
  BY DEF RoutingInv, SeenPending
<1>4. ASSUME same, Return(c), c.pc # "losers" PROVE Effect
  <2>1. calls' = calls \ {c} BY <1>4 DEF Return
  <2>. QED BY <1>1, <1>4, <2>1 DEF CallsEnd
<1>5. ASSUME NEW pc \in AllPcs, same, Goto(c, pc), c.pc # "losers", pc # "losers", pc # "holding",
             pc \in ClaimPcs <=> c.pc \in ClaimPcs,
             pc \in InAuction => c.pc \in InAuction \/ ~AssignmentExists(c.lead),
             c.seen # {} => pc \in {"rank", "expire"}
      PROVE  Effect
  <2>. DEFINE d == [c EXCEPT !.pc = pc]
  <2>1. /\ d \in CallShape /\ d.lead = c.lead /\ d.pc = pc
        /\ d.agent = c.agent /\ d.seen = c.seen
    BY <1>1 DEF CallShape
  <2>2. calls' = (calls \ {c}) \cup {d} BY <1>5 DEF Goto
  <2>. HIDE DEF d
  <2>3. CallGoesOn(c, d) BY <1>5, <2>1, <2>2 DEF CallGoesOn, Routes, Auctions
  <2>. QED BY <2>3
<1>. HIDE DEF Effect
<1>6. CASE PreCheck(c)
  <2>1. same /\ c.pc \in {"pre", "bypass"} BY <1>6 DEF PreCheck
  <2>2. \/ Return(c) \/ Goto(c, "exists") \/ Goto(c, "tx") BY <1>6 DEF PreCheck
  <2>. QED
    BY <1>3, <1>4, <1>5, <2>1, <2>2
    DEF AllPcs, RoutePcs, AuctionPcs, ClaimPcs, InAuction
<1>7. CASE RouteChoose(c)
  <2>1. same /\ c.pc = "tx" /\ ~Locked BY <1>7 DEF RouteChoose, MayRoute
  <2>2. CASE Return(c) BY <1>4, <2>1, <2>2
  <2>3. CASE ~Return(c)
    <3>1. PICK a \in Agents :
            /\ ~lead[c.lead].gone /\ lead[c.lead].owner = NONE /\ IsBestAgent(c.lead, a)
            /\ calls' = (calls \ {c}) \cup {[c EXCEPT !.pc = "holding", !.agent = a]}
      BY <1>7, <2>3 DEF RouteChoose
    <3>. DEFINE d == [c EXCEPT !.pc = "holding", !.agent = a]
    <3>2. /\ d \in CallShape /\ d.lead = c.lead /\ d.pc = "holding"
          /\ d.agent = a /\ d.seen = c.seen
      BY <1>1 DEF CallShape, AllPcs, RoutePcs
    <3>3. calls' = (calls \ {c}) \cup {d} BY <3>1
    <3>. HIDE DEF d
    <3>4. d.seen = {} BY <1>3, <2>1, <3>2
    <3>5. a \in Eligible(c.lead) BY <3>1 DEF IsBestAgent
    <3>6. CallGoesOn(c, d)
      BY <2>1, <3>1, <3>2, <3>3, <3>4, <3>5
      DEF CallGoesOn, Routes, Auctions, InAuction, AuctionPcs, ClaimPcs
    <3>. QED BY <3>6 DEF Effect
  <2>. QED BY <2>2, <2>3
<1>8. CASE RouteCommit(c)
  BY <1>8 DEF RouteCommit, CallAssigns, Return, Effect
<1>9. CASE OpenCheck(c)
  <2>1. same /\ c.pc = "exists" BY <1>9 DEF OpenCheck
  <2>2. Return(c) \/ (Goto(c, "mark") /\ ~AssignmentExists(c.lead)) BY <1>9 DEF OpenCheck
  <2>. QED BY <1>3, <1>4, <1>5, <2>1, <2>2 DEF AllPcs, AuctionPcs, ClaimPcs
<1>10. CASE OpenMark(c)
  <2>1. same /\ c.pc = "mark" BY <1>10 DEF OpenMark
  <2>2. Return(c) \/ Goto(c, "timer") BY <1>10 DEF OpenMark
  <2>. QED BY <1>3, <1>4, <1>5, <2>1, <2>2 DEF AllPcs, AuctionPcs, ClaimPcs, InAuction
<1>11. CASE ResolveCheck(c)
  <2>1. same /\ c.pc = "timer" BY <1>11 DEF ResolveCheck
  <2>2. Return(c) \/ Goto(c, "list") BY <1>11 DEF ResolveCheck
  <2>. QED BY <1>3, <1>4, <1>5, <2>1, <2>2 DEF AllPcs, AuctionPcs, ClaimPcs, InAuction
<1>12. CASE ResolveList(c)
  <2>1. same /\ c.pc = "list" BY <1>12 DEF ResolveList
  <2>2. CASE Goto(c, "bypass")
    BY <1>3, <1>5, <2>1, <2>2 DEF AllPcs, RoutePcs, AuctionPcs, ClaimPcs, InAuction
  <2>3. CASE ~Goto(c, "bypass")
    <3>. DEFINE d == [c EXCEPT !.pc = "rank", !.seen = PendingClaims(c.lead)]
    <3>1. calls' = (calls \ {c}) \cup {d} BY <1>12, <2>3 DEF ResolveList
    <3>2. /\ d \in CallShape /\ d.lead = c.lead /\ d.pc = "rank"
          /\ d.agent = c.agent /\ d.seen = PendingClaims(c.lead)
      BY <1>1, <1>2 DEF CallShape, AllPcs, AuctionPcs
    <3>. HIDE DEF d
    <3>3. CallGoesOn(c, d)
      BY <2>1, <3>1, <3>2
      DEF CallGoesOn, Routes, Auctions, InAuction, AuctionPcs, ClaimPcs
    <3>. QED BY <3>3 DEF Effect
  <2>. QED BY <2>2, <2>3
<1>13. CASE ResolveRank(c)
  <2>1. UNCHANGED << lead, assignment, failed >> /\ c.pc = "rank" BY <1>13 DEF ResolveRank
  <2>2. CASE Goto(c, "expire") /\ UNCHANGED claim
    BY <1>5, <2>1, <2>2 DEF AllPcs, AuctionPcs, ClaimPcs, InAuction
  <2>3. CASE ~(Goto(c, "expire") /\ UNCHANGED claim)
    <3>1. PICK x \in c.seen :
            /\ Settled(c, x, "won")
            /\ calls' = (calls \ {c}) \cup
                          {[c EXCEPT !.pc = "losers", !.agent = x.agent, !.seen = c.seen \ {x}]}
      BY <1>13, <2>3 DEF ResolveRank
    <3>. DEFINE d == [c EXCEPT !.pc = "losers", !.agent = x.agent, !.seen = c.seen \ {x}]
    <3>2. x \in ClaimRow /\ x.agent \in Agents BY <1>2, <3>1 DEF ClaimRow
    <3>3. /\ d \in CallShape /\ d.lead = c.lead /\ d.pc = "losers"
          /\ d.agent = x.agent /\ d.seen = c.seen \ {x}
      <4>1. c.seen \ {x} \in SUBSET ClaimRow BY <1>2
      <4>. QED BY <1>1, <3>2, <4>1 DEF CallShape, AllPcs, AuctionPcs
    <3>4. calls' = (calls \ {c}) \cup {d} BY <3>1
    <3>. HIDE DEF d
    <3>5. CallSettles(c, d, x, "won") BY <2>1, <3>1, <3>3, <3>4 DEF CallSettles
    <3>. QED BY <3>5 DEF Effect
  <2>. QED BY <2>2, <2>3
<1>14. CASE MarkClaim(c)
  <2>. DEFINE status == IF c.pc = "losers" THEN "lost" ELSE "expired"
  <2>1. UNCHANGED << lead, assignment, failed >> /\ c.pc \in {"losers", "expire"}
    BY <1>14 DEF MarkClaim
  <2>2. PICK x \in c.seen :
          /\ Settled(c, x, status)
          /\ calls' = (calls \ {c}) \cup {[c EXCEPT !.seen = c.seen \ {x}]}
    BY <1>14 DEF MarkClaim
  <2>. DEFINE d == [c EXCEPT !.seen = c.seen \ {x}]
  <2>3. /\ d \in CallShape /\ d.lead = c.lead /\ d.pc = c.pc
        /\ d.agent = c.agent /\ d.seen = c.seen \ {x}
    <3>1. c.seen \ {x} \in SUBSET ClaimRow BY <1>2
    <3>. QED BY <1>1, <3>1 DEF CallShape
  <2>4. calls' = (calls \ {c}) \cup {d} BY <2>2
  <2>. HIDE DEF d
  <2>5. CallSettles(c, d, x, status) BY <2>1, <2>2, <2>3, <2>4 DEF CallSettles
  <2>. HIDE DEF status
  <2>. QED BY <2>5 DEF Effect
<1>15. CASE ResolveExpired(c)
  <2>1. same /\ c.pc = "expire" /\ c.seen = {} /\ Goto(c, "bypass") BY <1>15 DEF ResolveExpired
  <2>. QED BY <1>5, <2>1 DEF AllPcs, RoutePcs, AuctionPcs, ClaimPcs, InAuction
<1>16. CASE ResolveAward(c)
  BY <1>16 DEF ResolveAward, CallAssigns, Return, Effect
<1>17. CASE DedupeClaim(c)
  <2>1. same /\ c.pc = "dedupe" /\ (Return(c) \/ Goto(c, "insert")) BY <1>17 DEF DedupeClaim
  <2>. QED BY <1>3, <1>4, <1>5, <2>1 DEF AllPcs, RoutePcs, AuctionPcs, ClaimPcs, InAuction
<1>18. CASE InsertClaim(c) BY <1>18 DEF Effect
<1>19. CASE QueryFails(c)
  <2>1. calls' = calls \ {c} BY <1>19 DEF QueryFails, Return
  <2>2. CallsEnd BY <1>1, <1>2, <1>19, <2>1 DEF QueryFails, CallsEnd
  <2>. QED BY <2>2 DEF Effect
<1>. QED
  BY <1>6, <1>7, <1>8, <1>9, <1>10, <1>11, <1>12, <1>13, <1>14, <1>15, <1>16, <1>17,
     <1>18, <1>19 DEF Step

\* And so is every other step.
LEMMA RoutingEffects ==
  ASSUME RoutingInv, [Next]_vars
  PROVE  \/ CallsEnd
         \/ \E c \in calls : \E d : CallGoesOn(c, d)
         \/ \E c \in calls : \E via : CallAssigns(c, via)
         \/ \E c \in calls : \E d, x, status : CallSettles(c, d, x, status)
         \/ \E c : CallStarts(c)
         \/ Writes
<1>. DEFINE Effect ==
              \/ CallsEnd
              \/ \E c \in calls : \E d : CallGoesOn(c, d)
              \/ \E c \in calls : \E via : CallAssigns(c, via)
              \/ \E c \in calls : \E d, x, status : CallSettles(c, d, x, status)
              \/ \E c : CallStarts(c)
              \/ Writes
<1>. SUFFICES Effect OBVIOUS
<1>0. calls \subseteq CallShape /\ failed \subseteq Leads BY DEF RoutingInv, Shaped
<1>1. ASSUME NEW c \in calls, Step(c) \/ QueryFails(c) PROVE Effect
  BY <1>1, StepEffects DEF Writes
<1>2. ASSUME NEW l \in Leads, LeaveMarket(l) PROVE Effect BY <1>2 DEF Writes
<1>3. ASSUME NEW l \in Leads, NEW p \in Pods, Ingest(l, p) PROVE Effect
  <2>. DEFINE c == Call(l, p, "pre")
  <2>1. c \in CallShape /\ c.lead = l /\ c.pc = "pre" /\ c.seen = {}
    BY DEF Call, CallShape, AllPcs, RoutePcs
  <2>2. calls' = calls \cup {c} BY <1>3 DEF Ingest
  <2>. HIDE DEF c
  <2>3. CallStarts(c) BY <1>3, <2>1, <2>2 DEF Ingest, CallStarts
  <2>. QED BY <2>3
<1>4. ASSUME NEW l \in Leads, NEW a \in Agents, SmartMatchDelivers(l, a) PROVE Effect
  BY <1>4 DEF Writes
<1>5. ASSUME NEW l \in Leads, NEW a \in Agents, NEW p \in Pods, StartClaim(l, a, p) PROVE Effect
  <2>. DEFINE c == [Call(l, p, "dedupe") EXCEPT !.agent = a]
  <2>1. c \in CallShape /\ c.lead = l /\ c.pc = "dedupe" /\ c.seen = {} /\ c.agent = a
    BY DEF Call, CallShape, AllPcs, ClaimPcs
  <2>2. calls' = calls \cup {c} BY <1>5 DEF StartClaim
  <2>. HIDE DEF c
  <2>3. CallStarts(c) BY <1>5, <2>1, <2>2 DEF StartClaim, CallStarts
  <2>. QED BY <2>3
<1>6. ASSUME NEW a \in assignment, AcceptAssignment(a) PROVE Effect BY <1>6 DEF Writes
<1>7. ASSUME NEW a \in assignment, NEW p \in Pods, DeclineAssignment(a, p) PROVE Effect
  BY <1>7 DEF Writes
<1>8. ASSUME NEW a \in assignment, NEW p \in Pods, DeclineAgain(a, p) PROVE Effect
  <2>. DEFINE c == Call(a.lead, p, "pre")
  <2>1. a.lead \in Leads BY DEF RoutingInv, Shaped, AssignmentRow
  <2>2. c \in CallShape /\ c.lead = a.lead /\ c.pc = "pre" /\ c.seen = {}
    BY <2>1 DEF Call, CallShape, AllPcs, RoutePcs
  <2>3. calls' = calls \cup {c} BY <1>8 DEF DeclineAgain
  <2>4. AssignmentExists(a.lead) BY DEF AssignmentExists, AssignmentsOf
  <2>. HIDE DEF c
  <2>5. CallStarts(c) BY <1>8, <2>2, <2>3, <2>4 DEF DeclineAgain, CallStarts
  <2>. QED BY <2>5
<1>9. ASSUME NEW p \in Pods, Crash(p) PROVE Effect
  <2>1. /\ UNCHANGED << lead, assignment, claim >> /\ calls' \subseteq calls
        /\ failed' = failed \cup {c.lead : c \in calls \ calls'}
    BY <1>9 DEF Crash
  <2>2. \A c \in calls : c.lead \in Leads BY <1>0, CallColumns
  <2>3. CallsEnd BY <1>0, <2>1, <2>2 DEF CallsEnd
  <2>. QED BY <2>3
<1>10. ASSUME UNCHANGED vars PROVE Effect BY <1>0, <1>10 DEF vars, CallsEnd
<1>. HIDE DEF Effect
<1>. QED
  BY <1>1, <1>2, <1>3, <1>4, <1>5, <1>6, <1>7, <1>8, <1>9, <1>10 DEF Next

-------------------------------------------------------------------------------
(* Every kind of step keeps the invariant.                                   *)

\* While no assignment is written, everything said of assignments stays true.
LEMMA SameAssignments ==
  ASSUME assignment' = assignment
  PROVE  \A l : /\ AssignmentsOf(l)' = AssignmentsOf(l)
                /\ AssignmentExists(l)' <=> AssignmentExists(l)
                /\ SmartMatched(l)' <=> SmartMatched(l)
                /\ LiveAssignments(l)' = LiveAssignments(l)
BY DEF AssignmentsOf, AssignmentExists, SmartMatched, LiveAssignments

LEMMA EndKeepsInv ==
  ASSUME RoutingInv, CallsEnd
  PROVE  RoutingInv'
<1>1. /\ UNCHANGED << lead, assignment, claim >> /\ calls' \subseteq calls
      /\ failed \subseteq failed' /\ failed' \subseteq Leads
      /\ \A c \in calls : c \notin calls' /\ c.pc = "losers" => c.lead \in failed'
  BY DEF CallsEnd
<1>2. \A l : /\ AssignmentsOf(l)' = AssignmentsOf(l)
             /\ AssignmentExists(l)' <=> AssignmentExists(l)
             /\ SmartMatched(l)' <=> SmartMatched(l)
             /\ LiveAssignments(l)' = LiveAssignments(l)
  BY <1>1, SameAssignments
<1>. USE DEF RoutingInv
<1>3. Shaped' BY <1>1 DEF Shaped
<1>4. UnlistedUnknown' BY <1>1, <1>2 DEF UnlistedUnknown
<1>5. OneRouter' BY <1>1, <1>2 DEF OneRouter
<1>6. OneAuction' BY <1>1 DEF OneAuction
<1>7. AuctionComesFirst' BY <1>1, <1>2 DEF AuctionComesFirst
<1>8. AgentChosen' BY <1>1 DEF AgentChosen
<1>9. HoldsFreeLead' BY <1>1 DEF HoldsFreeLead
<1>10. SmartMatchedIsGone' BY <1>1, <1>2 DEF SmartMatchedIsGone
<1>11. SeenPending' BY <1>1 DEF SeenPending
<1>12. WonEndsAuction' BY <1>1, <1>2 DEF WonEndsAuction
<1>13. OwnerHoldsTheAssignment' BY <1>1, <1>2 DEF OwnerHoldsTheAssignment
<1>14. WonClaimIsAssigned'
  <2>1. ASSUME NEW x \in claim, x.status = "won"
        PROVE  \/ x.lead \in failed'
               \/ \E a \in AssignmentsOf(x.lead) : a.agent = x.agent /\ a.via = "auction"
               \/ \E e \in calls' : e.pc = "losers" /\ e.lead = x.lead /\ e.agent = x.agent
    BY <1>1, <2>1 DEF WonClaimIsAssigned
  <2>. QED BY <1>1, <1>2, <2>1 DEF WonClaimIsAssigned
<1>. QED
  BY <1>3, <1>4, <1>5, <1>6, <1>7, <1>8, <1>9, <1>10, <1>11, <1>12, <1>13, <1>14

LEMMA GoingOnKeepsInv ==
  ASSUME RoutingInv, NEW c, NEW d, CallGoesOn(c, d)
  PROVE  RoutingInv'
<1>1. /\ UNCHANGED << lead, assignment, claim, failed >>
      /\ c \in calls /\ d \in CallShape /\ d.lead = c.lead
      /\ calls' = (calls \ {c}) \cup {d}
      /\ c.pc # "losers" /\ d.pc # "losers"
      /\ Routes(d) <=> Routes(c)
      /\ Auctions(d) => Auctions(c) \/ ~AssignmentExists(c.lead)
  BY DEF CallGoesOn
<1>2. \A l : /\ AssignmentsOf(l)' = AssignmentsOf(l)
             /\ AssignmentExists(l)' <=> AssignmentExists(l)
             /\ SmartMatched(l)' <=> SmartMatched(l)
             /\ LiveAssignments(l)' = LiveAssignments(l)
  BY <1>1, SameAssignments
<1>0. \A e : Auctions(e) => Routes(e)
  BY DEF Auctions, Routes, InAuction, AuctionPcs, ClaimPcs
<1>. USE DEF RoutingInv
<1>3. Shaped' BY <1>1 DEF Shaped
<1>4. UnlistedUnknown' BY <1>1, <1>2 DEF UnlistedUnknown
<1>5. OneRouter' BY <1>1, <1>2 DEF OneRouter
<1>6. OneAuction'
  <2>1. ASSUME NEW e \in calls, e # c, e.lead = c.lead, Auctions(d), Auctions(e) PROVE FALSE
    <3>1. CASE Auctions(c) BY <1>1, <2>1, <3>1 DEF OneAuction
    <3>2. CASE ~AssignmentExists(c.lead) BY <1>0, <1>1, <2>1, <3>2 DEF OneRouter
    <3>. QED BY <1>1, <2>1, <3>1, <3>2
  <2>. QED BY <1>1, <2>1 DEF OneAuction
<1>7. AuctionComesFirst' BY <1>1, <1>2 DEF AuctionComesFirst
<1>8. AgentChosen'
  <2>1. d.pc = "holding" => d.agent \in Agents BY DEF CallGoesOn
  <2>2. ~Routes(d) => d.agent = c.agent BY DEF CallGoesOn
  <2>3. ~Routes(c) => c.pc \in {"dedupe", "insert"} BY DEF Routes, ClaimPcs
  <2>4. ~Routes(d) => d.agent \in Agents BY <1>1, <2>2, <2>3 DEF AgentChosen
  <2>5. d.pc \in {"dedupe", "insert"} => ~Routes(d) BY DEF Routes, ClaimPcs
  <2>. QED BY <1>1, <2>1, <2>4, <2>5 DEF AgentChosen
<1>9. HoldsFreeLead'
  <2>1. d.pc = "holding" => /\ lead[d.lead].owner = NONE /\ ~lead[d.lead].gone
                            /\ \A e \in calls : e.pc # "holding"
    BY DEF CallGoesOn, Locked
  <2>. QED BY <1>1, <2>1 DEF HoldsFreeLead
<1>10. SmartMatchedIsGone' BY <1>1, <1>2 DEF SmartMatchedIsGone
<1>11. SeenPending'
  <2>1. d.seen # {} => d.pc \in {"rank", "expire"} /\ d.seen \in {c.seen, PendingClaims(c.lead)}
    BY DEF CallGoesOn
  <2>2. \A x \in d.seen : x \in claim /\ x.lead = c.lead /\ x.status = "pending"
    BY <1>1, <2>1 DEF SeenPending, PendingClaims
  <2>. QED BY <1>1, <2>1, <2>2 DEF SeenPending
<1>12. WonEndsAuction'
  <2>1. ASSUME NEW x \in claim, x.status = "won", x.lead = c.lead, Routes(d),
               Auctions(d) \/ ~AssignmentExists(c.lead)
        PROVE  FALSE
    BY <1>1, <2>1 DEF WonEndsAuction
  <2>. QED BY <1>1, <1>2, <2>1 DEF WonEndsAuction
<1>13. OwnerHoldsTheAssignment' BY <1>1, <1>2 DEF OwnerHoldsTheAssignment
<1>14. WonClaimIsAssigned'
  <2>1. ASSUME NEW x \in claim, x.status = "won"
        PROVE  \/ x.lead \in failed'
               \/ \E a \in AssignmentsOf(x.lead) : a.agent = x.agent /\ a.via = "auction"
               \/ \E e \in calls' : e.pc = "losers" /\ e.lead = x.lead /\ e.agent = x.agent
    BY <1>1, <2>1 DEF WonClaimIsAssigned
  <2>. QED BY <1>1, <1>2, <2>1 DEF WonClaimIsAssigned
<1>. QED
  BY <1>3, <1>4, <1>5, <1>6, <1>7, <1>8, <1>9, <1>10, <1>11, <1>12, <1>13, <1>14

\* A new row of lead_assignments, and what it leaves alone.
LEMMA NewAssignment ==
  ASSUME NEW n, assignment' = assignment \cup {n}, n.status = "assigned"
  PROVE  /\ \A l : AssignmentsOf(l)' = AssignmentsOf(l) \cup (IF n.lead = l THEN {n} ELSE {})
         /\ \A l : AssignmentExists(l)' <=> AssignmentExists(l) \/ n.lead = l
         /\ \A l : SmartMatched(l)' <=> SmartMatched(l) \/ (n.lead = l /\ n.via = "smartmatch")
         /\ \A l : LiveAssignments(l)' = LiveAssignments(l) \cup (IF n.lead = l THEN {n} ELSE {})
<1>1. \A l : AssignmentsOf(l)' = AssignmentsOf(l) \cup (IF n.lead = l THEN {n} ELSE {})
  BY DEF AssignmentsOf
<1>2. \A l : AssignmentExists(l)' <=> AssignmentExists(l) \/ n.lead = l
  BY <1>1 DEF AssignmentExists
<1>3. \A l : SmartMatched(l)' <=> SmartMatched(l) \/ (n.lead = l /\ n.via = "smartmatch")
  BY <1>1 DEF SmartMatched
<1>4. \A l : LiveAssignments(l)' = LiveAssignments(l) \cup (IF n.lead = l THEN {n} ELSE {})
  BY <1>1 DEF LiveAssignments
<1>. QED BY <1>1, <1>2, <1>3, <1>4

\* The row that Assign and Smart Match insert.
LEMMA AssignmentRowTyped ==
  ASSUME Shaped, NEW l \in Leads, NEW a \in Agents,
         NEW via \in {"routing", "auction", "smartmatch"},
         NEW n, n = [id |-> Cardinality(assignment) + 1, lead |-> l, agent |-> a,
                     status |-> "assigned", via |-> via]
  PROVE  /\ n \in AssignmentRow /\ n.lead = l /\ n.agent = a /\ n.status = "assigned"
         /\ n.via = via
         /\ IsFiniteSet(assignment \cup {n})
<1>1. Cardinality(assignment) \in Nat BY FS_CardinalityType DEF Shaped
<1>2. Cardinality(assignment) + 1 \in Nat BY <1>1
<1>3. IsFiniteSet(assignment \cup {n}) BY FS_AddElement DEF Shaped
<1>. QED BY <1>2, <1>3 DEF AssignmentRow

LEMMA AssignKeepsInv ==
  ASSUME RoutingInv, NEW c, NEW via, CallAssigns(c, via)
  PROVE  RoutingInv'
<1>. DEFINE n == [id |-> Cardinality(assignment) + 1, lead |-> c.lead, agent |-> c.agent,
                  status |-> "assigned", via |-> via]
<1>1. /\ c \in calls /\ calls' = calls \ {c}
      /\ UNCHANGED << claim, failed >>
      /\ lead' = [lead EXCEPT ![c.lead].owner = c.agent]
      /\ assignment' = assignment \cup {n}
  BY DEF CallAssigns, Assign
<1>2. \/ via = "routing" /\ c.pc = "holding"
      \/ via = "auction" /\ c.pc = "losers" /\ RowFree(c.lead)
  BY DEF CallAssigns
<1>3. c \in CallShape /\ c.lead \in Leads /\ c.agent \in Agents
  BY <1>1, <1>2, CallColumns DEF RoutingInv, Shaped, AgentChosen
<1>4. Shaped BY DEF RoutingInv
<1>5. /\ n \in AssignmentRow /\ n.lead = c.lead /\ n.agent = c.agent /\ n.status = "assigned"
      /\ n.via = via
      /\ IsFiniteSet(assignment \cup {n})
  BY <1>2, <1>3, <1>4, AssignmentRowTyped
<1>. HIDE DEF n
<1>6. /\ \A l : AssignmentsOf(l)' = AssignmentsOf(l) \cup (IF n.lead = l THEN {n} ELSE {})
      /\ \A l : AssignmentExists(l)' <=> AssignmentExists(l) \/ n.lead = l
      /\ \A l : SmartMatched(l)' <=> SmartMatched(l) \/ (n.lead = l /\ n.via = "smartmatch")
      /\ \A l : LiveAssignments(l)' = LiveAssignments(l) \cup (IF n.lead = l THEN {n} ELSE {})
  BY <1>1, <1>5, NewAssignment
<1>7. /\ \A l : AssignmentExists(l)' <=> AssignmentExists(l) \/ l = c.lead
      /\ \A l : SmartMatched(l)' <=> SmartMatched(l)
      /\ \A l : l # c.lead => LiveAssignments(l)' = LiveAssignments(l)
  BY <1>2, <1>5, <1>6
<1>8. /\ \A l \in Leads : lead'[l].listed = lead[l].listed /\ lead'[l].gone = lead[l].gone
      /\ \A l \in Leads : l # c.lead => lead'[l].owner = lead[l].owner
      /\ lead'[c.lead].owner = c.agent
  BY <1>1, <1>3, <1>4 DEF Shaped
<1>9. Auctions(c) <=> via = "auction"
  BY <1>2 DEF Auctions, InAuction, AuctionPcs
<1>10. Routes(c) BY <1>2 DEF Routes, ClaimPcs
<1>0. \A e : Auctions(e) => Routes(e)
  BY DEF Auctions, Routes, InAuction, AuctionPcs, ClaimPcs
<1>. USE DEF RoutingInv
<1>11. Shaped' BY <1>1, <1>3, <1>5 DEF Shaped
<1>12. UnlistedUnknown' BY <1>1, <1>3, <1>7, <1>8 DEF UnlistedUnknown
<1>13. OneRouter' BY <1>1, <1>7 DEF OneRouter
<1>14. OneAuction' BY <1>1 DEF OneAuction
<1>15. AuctionComesFirst'
  <2>1. ASSUME NEW e \in calls, e # c, e.lead = c.lead, Auctions(e), ~SmartMatched(c.lead)
        PROVE  FALSE
    <3>1. ~AssignmentExists(c.lead) BY <2>1 DEF AuctionComesFirst
    <3>. QED BY <1>0, <1>1, <1>10, <2>1, <3>1 DEF OneRouter
  <2>. QED BY <1>1, <1>7, <2>1 DEF AuctionComesFirst
<1>16. AgentChosen' BY <1>1 DEF AgentChosen
<1>17. HoldsFreeLead'
  <2>1. ASSUME NEW e \in calls, e # c, e.pc = "holding" PROVE e.lead # c.lead
    BY <1>1, <1>2, <2>1 DEF HoldsFreeLead, RowFree
  <2>2. \A e \in calls : e.lead \in Leads BY CallColumns DEF Shaped
  <2>. QED BY <1>1, <1>8, <2>1, <2>2 DEF HoldsFreeLead
<1>18. SmartMatchedIsGone' BY <1>7, <1>8 DEF SmartMatchedIsGone
<1>19. SeenPending' BY <1>1 DEF SeenPending
<1>20. WonEndsAuction' BY <1>1, <1>7 DEF WonEndsAuction
<1>21. OwnerHoldsTheAssignment'
  <2>1. ASSUME ~SmartMatched(c.lead) PROVE LiveAssignments(c.lead) = {}
    <3>1. CASE via = "routing"
      BY <1>1, <1>2, <1>3, <2>1, <3>1 DEF HoldsFreeLead, OwnerHoldsTheAssignment
    <3>2. CASE via = "auction"
      BY <1>1, <1>9, <2>1, <3>2
      DEF AuctionComesFirst, AssignmentExists, LiveAssignments
    <3>. QED BY <1>2, <3>1, <3>2
  <2>2. ~SmartMatched(c.lead) => LiveAssignments(c.lead)' = {n} /\ n.agent = lead'[c.lead].owner
    BY <1>5, <1>6, <1>8, <2>1
  <2>3. lead'[c.lead].owner # NONE BY <1>3, <1>8, RoutingAssumption
  <2>4. n \in assignment' BY <1>1
  <2>5. ASSUME NEW l \in Leads, ~SmartMatched(l)'
        PROVE  IF lead'[l].owner = NONE THEN LiveAssignments(l)' = {}
               ELSE \E a \in assignment' : LiveAssignments(l)' = {a} /\ a.agent = lead'[l].owner
    <3>1. CASE l = c.lead BY <1>7, <2>2, <2>3, <2>4, <2>5, <3>1
    <3>2. CASE l # c.lead BY <1>1, <1>7, <1>8, <2>5, <3>2 DEF OwnerHoldsTheAssignment
    <3>. QED BY <3>1, <3>2
  <2>. QED BY <2>5 DEF OwnerHoldsTheAssignment
<1>22. WonClaimIsAssigned'
  <2>1. ASSUME NEW x \in claim, x.status = "won"
        PROVE  \/ x.lead \in failed
               \/ \E a \in AssignmentsOf(x.lead)' : a.agent = x.agent /\ a.via = "auction"
               \/ \E e \in calls' : e.pc = "losers" /\ e.lead = x.lead /\ e.agent = x.agent
    <3>1. CASE \E a \in AssignmentsOf(x.lead) : a.agent = x.agent /\ a.via = "auction"
      BY <1>6, <3>1
    <3>2. CASE c.pc = "losers" /\ c.lead = x.lead /\ c.agent = x.agent
      BY <1>2, <1>5, <1>6, <3>2
    <3>. QED BY <1>1, <2>1, <3>1, <3>2 DEF WonClaimIsAssigned
  <2>. QED BY <1>1, <2>1 DEF WonClaimIsAssigned
<1>. QED
  BY <1>11, <1>12, <1>13, <1>14, <1>15, <1>16, <1>17, <1>18, <1>19, <1>20, <1>21, <1>22

LEMMA SettlingKeepsInv ==
  ASSUME RoutingInv, NEW c, NEW d, NEW x, NEW status, CallSettles(c, d, x, status)
  PROVE  RoutingInv'
<1>. DEFINE y == [x EXCEPT !.status = status]
<1>1. /\ UNCHANGED << lead, assignment, failed >>
      /\ c \in calls /\ d \in CallShape /\ d.lead = c.lead
      /\ calls' = (calls \ {c}) \cup {d}
      /\ x \in c.seen /\ d.seen = c.seen \ {x}
      /\ claim' = (claim \ {x}) \cup {y}
  BY DEF CallSettles, Settled
<1>2. \/ c.pc = "rank" /\ d.pc = "losers" /\ status = "won" /\ d.agent = x.agent
      \/ c.pc = "losers" /\ d.pc = "losers" /\ status = "lost" /\ d.agent = c.agent
      \/ c.pc = "expire" /\ d.pc = "expire" /\ status = "expired"
  BY DEF CallSettles
<1>3. c \in CallShape /\ c.lead \in Leads BY <1>1, CallColumns DEF RoutingInv, Shaped
<1>4. x \in claim /\ x.lead = c.lead /\ x.status = "pending" BY <1>1 DEF RoutingInv, SeenPending
<1>5. /\ y \in ClaimRow /\ y.lead = c.lead /\ y.agent = x.agent /\ y.status = status
      /\ x.agent \in Agents
  <2>1. x \in ClaimRow BY <1>4 DEF RoutingInv, Shaped
  <2>. QED BY <1>2, <1>4, <2>1 DEF ClaimRow
<1>6. IsFiniteSet(claim')
  <2>1. IsFiniteSet(claim \ {x}) BY FS_RemoveElement DEF RoutingInv, Shaped
  <2>. QED BY <1>1, <2>1, FS_AddElement
<1>. HIDE DEF y
<1>7. \A l : /\ AssignmentsOf(l)' = AssignmentsOf(l)
             /\ AssignmentExists(l)' <=> AssignmentExists(l)
             /\ SmartMatched(l)' <=> SmartMatched(l)
             /\ LiveAssignments(l)' = LiveAssignments(l)
  BY <1>1, SameAssignments
<1>8. Auctions(c) /\ Auctions(d) BY <1>2 DEF Auctions, InAuction, AuctionPcs
<1>0. \A e : Auctions(e) => Routes(e)
  BY DEF Auctions, Routes, InAuction, AuctionPcs, ClaimPcs
<1>. USE DEF RoutingInv
<1>9. ASSUME NEW e \in calls, e # c, e.lead = c.lead
      PROVE  ~Auctions(e) /\ (Routes(e) => AssignmentExists(c.lead))
  BY <1>0, <1>1, <1>8, <1>9 DEF OneRouter, OneAuction
<1>10. \A z \in claim : z.status = "won" /\ z.lead = c.lead => c.pc = "losers"
  BY <1>0, <1>1, <1>8 DEF WonEndsAuction
<1>11. Shaped' BY <1>1, <1>5, <1>6 DEF Shaped
<1>12. UnlistedUnknown' BY <1>1, <1>5, <1>7 DEF UnlistedUnknown
<1>13. OneRouter' BY <1>0, <1>1, <1>7, <1>8 DEF OneRouter
<1>14. OneAuction' BY <1>1, <1>9 DEF OneAuction
<1>15. AuctionComesFirst' BY <1>1, <1>7, <1>8 DEF AuctionComesFirst
<1>16. AgentChosen' BY <1>1, <1>2, <1>5 DEF AgentChosen
<1>17. HoldsFreeLead' BY <1>1, <1>2 DEF HoldsFreeLead
<1>18. SmartMatchedIsGone' BY <1>1, <1>7 DEF SmartMatchedIsGone
<1>19. SeenPending'
  <2>1. ASSUME NEW e \in calls, e # c, NEW z \in e.seen PROVE z # x
    <3>1. Auctions(e) BY <2>1 DEF SeenPending, Auctions, InAuction, AuctionPcs
    <3>2. e.lead # c.lead BY <1>9, <2>1, <3>1
    <3>. QED BY <1>4, <2>1, <3>2 DEF SeenPending
  <2>2. \A e \in calls : \A z \in e.seen :
          /\ z \in claim /\ z.lead = e.lead /\ z.status = "pending"
          /\ e.pc \in {"rank", "losers", "expire"}
    BY DEF SeenPending
  <2>. QED BY <1>1, <1>2, <2>1, <2>2 DEF SeenPending
<1>20. WonEndsAuction'
  <2>1. ASSUME NEW z \in claim', NEW e \in calls', z.status = "won", z.lead = e.lead, Routes(e),
               Auctions(e) \/ ~AssignmentExists(e.lead)
        PROVE  e.pc = "losers"
    <3>1. CASE e = d
      <4>1. CASE z = y BY <1>2, <1>5, <2>1, <3>1, <4>1
      <4>2. CASE z \in claim BY <1>1, <1>2, <1>10, <2>1, <3>1, <4>2
      <4>. QED BY <1>1, <4>1, <4>2
    <3>2. CASE e \in calls /\ e # c /\ z = y BY <1>5, <1>9, <2>1, <3>2
    <3>3. CASE e \in calls /\ z \in claim BY <2>1, <3>3 DEF WonEndsAuction
    <3>. QED BY <1>1, <3>1, <3>2, <3>3
  <2>. QED BY <1>7, <2>1 DEF WonEndsAuction
<1>21. OwnerHoldsTheAssignment' BY <1>1, <1>7 DEF OwnerHoldsTheAssignment
<1>22. WonClaimIsAssigned'
  <2>1. ASSUME NEW z \in claim', z.status = "won"
        PROVE  \/ z.lead \in failed
               \/ \E a \in AssignmentsOf(z.lead) : a.agent = z.agent /\ a.via = "auction"
               \/ \E e \in calls' : e.pc = "losers" /\ e.lead = z.lead /\ e.agent = z.agent
    <3>1. CASE z = y BY <1>1, <1>2, <1>5, <2>1, <3>1
    <3>2. CASE z \in claim BY <1>1, <1>2, <2>1, <3>2 DEF WonClaimIsAssigned
    <3>. QED BY <1>1, <3>1, <3>2
  <2>2. ASSUME NEW z \in claim', z.status = "won",
               NEW w \in claim', w.status = "won", w.lead = z.lead
        PROVE  w = z
    <3>1. CASE z \in claim /\ w \in claim BY <2>2, <3>1 DEF WonClaimIsAssigned
    <3>2. CASE z = y /\ w = y BY <3>2
    <3>3. CASE z = y /\ w \in claim BY <1>2, <1>5, <1>10, <2>2, <3>3
    <3>4. CASE z \in claim /\ w = y BY <1>2, <1>5, <1>10, <2>2, <3>4
    <3>. QED BY <1>1, <3>1, <3>2, <3>3, <3>4
  <2>. QED BY <1>1, <1>7, <2>1, <2>2 DEF WonClaimIsAssigned
<1>. QED
  BY <1>11, <1>12, <1>13, <1>14, <1>15, <1>16, <1>17, <1>18, <1>19, <1>20, <1>21, <1>22

LEMMA StartKeepsInv ==
  ASSUME RoutingInv, NEW c, CallStarts(c)
  PROVE  RoutingInv'
<1>1. /\ UNCHANGED << assignment, claim, failed >>
      /\ c \in CallShape /\ calls' = calls \cup {c} /\ c.seen = {}
  BY DEF CallStarts
<1>2. \/ c.pc = "pre" /\ \A e \in calls : e.lead # c.lead
      \/ c.pc = "dedupe" /\ c.agent \in Agents
      \/ c.pc = "pre" /\ AssignmentExists(c.lead)
  BY DEF CallStarts, RoutingInv, UnlistedUnknown
<1>3. c.lead \in Leads BY <1>1, CallColumns
<1>4. /\ lead' \in [Leads -> [listed : BOOLEAN, gone : BOOLEAN, owner : Agents \cup {NONE}]]
      /\ \A l \in Leads : lead'[l].gone = lead[l].gone /\ lead'[l].owner = lead[l].owner
      /\ \A l \in Leads : lead[l].listed => lead'[l].listed
      /\ lead'[c.lead].listed
  <2>1. \/ lead' = [lead EXCEPT ![c.lead].listed = TRUE]
        \/ lead' = lead /\ lead[c.lead].listed
    BY <1>3 DEF CallStarts, RoutingInv, UnlistedUnknown
  <2>2. lead \in [Leads -> [listed : BOOLEAN, gone : BOOLEAN, owner : Agents \cup {NONE}]]
    BY DEF RoutingInv, Shaped
  <2>3. CASE lead' = lead /\ lead[c.lead].listed BY <2>2, <2>3
  <2>4. CASE lead' = [lead EXCEPT ![c.lead].listed = TRUE]
    <3>. DEFINE row == [lead[c.lead] EXCEPT !.listed = TRUE]
    <3>1. /\ row \in [listed : BOOLEAN, gone : BOOLEAN, owner : Agents \cup {NONE}]
          /\ row.listed /\ row.gone = lead[c.lead].gone /\ row.owner = lead[c.lead].owner
      BY <1>3, <2>2
    <3>2. lead' = [lead EXCEPT ![c.lead] = row] BY <2>4
    <3>. HIDE DEF row
    <3>. QED BY <1>3, <2>2, <3>1, <3>2
  <2>. QED BY <2>1, <2>3, <2>4
<1>5. \A l : /\ AssignmentsOf(l)' = AssignmentsOf(l)
             /\ AssignmentExists(l)' <=> AssignmentExists(l)
             /\ SmartMatched(l)' <=> SmartMatched(l)
             /\ LiveAssignments(l)' = LiveAssignments(l)
  BY <1>1, SameAssignments
<1>6. ~Auctions(c) BY <1>2 DEF Auctions, InAuction, AuctionPcs
<1>7. c.pc = "dedupe" => ~Routes(c) BY DEF Routes, ClaimPcs
<1>. USE DEF RoutingInv
<1>8. \A e \in calls : e.lead \in Leads BY CallColumns DEF Shaped
<1>9. Shaped' BY <1>1, <1>4 DEF Shaped
<1>10. UnlistedUnknown' BY <1>1, <1>4, <1>5 DEF UnlistedUnknown
<1>11. OneRouter' BY <1>1, <1>2, <1>5, <1>7 DEF OneRouter
<1>12. OneAuction' BY <1>1, <1>6 DEF OneAuction
<1>13. AuctionComesFirst' BY <1>1, <1>5, <1>6 DEF AuctionComesFirst
<1>14. AgentChosen' BY <1>1, <1>2 DEF AgentChosen
<1>15. HoldsFreeLead' BY <1>1, <1>2, <1>4, <1>8 DEF HoldsFreeLead
<1>16. SmartMatchedIsGone' BY <1>4, <1>5 DEF SmartMatchedIsGone
<1>17. SeenPending' BY <1>1 DEF SeenPending
<1>18. WonEndsAuction'
  <2>1. ASSUME NEW x \in claim, x.status = "won", x.lead = c.lead, Routes(c)
        PROVE  AssignmentExists(c.lead)
    <3>1. CASE AssignmentExists(c.lead) BY <3>1
    <3>2. CASE ~AssignmentExists(c.lead)
      <4>1. lead'[c.lead].listed /\ ~lead[c.lead].listed
        BY <1>4, <1>7, <2>1, <3>2 DEF CallStarts
      <4>. QED BY <1>3, <2>1, <4>1 DEF UnlistedUnknown
    <3>. QED BY <3>1, <3>2
  <2>. QED BY <1>1, <1>5, <1>6, <2>1 DEF WonEndsAuction
<1>19. OwnerHoldsTheAssignment' BY <1>1, <1>4, <1>5 DEF OwnerHoldsTheAssignment
<1>20. WonClaimIsAssigned' BY <1>1, <1>5 DEF WonClaimIsAssigned
<1>. QED
  BY <1>9, <1>10, <1>11, <1>12, <1>13, <1>14, <1>15, <1>16, <1>17, <1>18, <1>19, <1>20

LEMMA InsertKeepsInv ==
  ASSUME RoutingInv, NEW c \in calls, InsertClaim(c)
  PROVE  RoutingInv'
<1>. DEFINE n == [id |-> Cardinality(claim) + 1, lead |-> c.lead, agent |-> c.agent,
                  status |-> "pending"]
<1>1. /\ UNCHANGED << lead, assignment, failed >>
      /\ c.pc = "insert" /\ calls' = calls \ {c} /\ claim' = claim \cup {n}
  BY DEF InsertClaim, Return
<1>2. c.lead \in Leads /\ c.agent \in Agents
  BY <1>1, CallColumns DEF RoutingInv, Shaped, AgentChosen
<1>3. n \in ClaimRow /\ n.lead = c.lead /\ n.status = "pending"
  <2>1. Cardinality(claim) \in Nat BY FS_CardinalityType DEF RoutingInv, Shaped
  <2>. QED BY <1>2, <2>1 DEF ClaimRow
<1>4. IsFiniteSet(claim \cup {n}) BY FS_AddElement DEF RoutingInv, Shaped
<1>. HIDE DEF n
<1>5. \A l : /\ AssignmentsOf(l)' = AssignmentsOf(l)
             /\ AssignmentExists(l)' <=> AssignmentExists(l)
             /\ SmartMatched(l)' <=> SmartMatched(l)
             /\ LiveAssignments(l)' = LiveAssignments(l)
  BY <1>1, SameAssignments
<1>. USE DEF RoutingInv
<1>6. Shaped' BY <1>1, <1>3, <1>4 DEF Shaped
<1>7. UnlistedUnknown' BY <1>1, <1>3, <1>5 DEF UnlistedUnknown
<1>8. OneRouter' BY <1>1, <1>5 DEF OneRouter
<1>9. OneAuction' BY <1>1 DEF OneAuction
<1>10. AuctionComesFirst' BY <1>1, <1>5 DEF AuctionComesFirst
<1>11. AgentChosen' BY <1>1 DEF AgentChosen
<1>12. HoldsFreeLead' BY <1>1 DEF HoldsFreeLead
<1>13. SmartMatchedIsGone' BY <1>1, <1>5 DEF SmartMatchedIsGone
<1>14. SeenPending' BY <1>1 DEF SeenPending
<1>15. WonEndsAuction' BY <1>1, <1>3, <1>5 DEF WonEndsAuction
<1>16. OwnerHoldsTheAssignment' BY <1>1, <1>5 DEF OwnerHoldsTheAssignment
<1>17. WonClaimIsAssigned'
  <2>1. ASSUME NEW x \in claim, x.status = "won"
        PROVE  \/ x.lead \in failed
               \/ \E a \in AssignmentsOf(x.lead) : a.agent = x.agent /\ a.via = "auction"
               \/ \E e \in calls' : e.pc = "losers" /\ e.lead = x.lead /\ e.agent = x.agent
    BY <1>1, <2>1 DEF WonClaimIsAssigned
  <2>2. \A x \in claim' : x.status = "won" => x \in claim BY <1>1, <1>3
  <2>. QED BY <1>1, <1>5, <2>1, <2>2 DEF WonClaimIsAssigned
<1>. QED
  BY <1>6, <1>7, <1>8, <1>9, <1>10, <1>11, <1>12, <1>13, <1>14, <1>15, <1>16, <1>17

\* An answered row of lead_assignments, and what it leaves alone.
LEMMA AnsweredAssignment ==
  ASSUME Shaped, NEW a \in assignment, NEW status \in {"accepted", "declined"},
         MayAnswer(a), Answered(a, status)
  PROVE  /\ a.lead \in Leads /\ a.agent \in Agents /\ a \in LiveAssignments(a.lead)
         /\ assignment' \subseteq AssignmentRow /\ IsFiniteSet(assignment')
         /\ \A l : AssignmentExists(l)' <=> AssignmentExists(l)
         /\ \A l : SmartMatched(l)' <=> SmartMatched(l)
         /\ \A l, u, via : (\E b \in AssignmentsOf(l)' : b.agent = u /\ b.via = via)
                             <=> (\E b \in AssignmentsOf(l) : b.agent = u /\ b.via = via)
         /\ \A l : l # a.lead => LiveAssignments(l)' = LiveAssignments(l)
         /\ \A l : \A b \in LiveAssignments(l)' :
              \E r \in LiveAssignments(l) : r.agent = b.agent /\ r.via = b.via
         /\ status = "declined" => LiveAssignments(a.lead)' = LiveAssignments(a.lead) \ {a}
         /\ status = "accepted" =>
              \E b \in assignment' :
                /\ LiveAssignments(a.lead)' = (LiveAssignments(a.lead) \ {a}) \cup {b}
                /\ b.agent = a.agent /\ b.status = "accepted"
<1>. DEFINE b == [a EXCEPT !.status = status]
<1>1. a \in AssignmentRow /\ a.status = "assigned" BY DEF Shaped, MayAnswer
<1>2. /\ b \in AssignmentRow /\ b.lead = a.lead /\ b.agent = a.agent /\ b.via = a.via
      /\ b.status = status
      /\ a.lead \in Leads /\ a.agent \in Agents
  BY <1>1 DEF AssignmentRow
<1>3. assignment' = (assignment \ {a}) \cup {b} BY DEF Answered
<1>. HIDE DEF b
<1>4. assignment' \subseteq AssignmentRow BY <1>2, <1>3 DEF Shaped
<1>5. IsFiniteSet(assignment')
  <2>1. IsFiniteSet(assignment \ {a}) BY FS_RemoveElement DEF Shaped
  <2>. QED BY <1>3, <2>1, FS_AddElement
<1>6. \A l, u, via : (\E r \in AssignmentsOf(l)' : r.agent = u /\ r.via = via)
                       <=> (\E r \in AssignmentsOf(l) : r.agent = u /\ r.via = via)
  BY <1>2, <1>3 DEF AssignmentsOf
<1>7. \A l : SmartMatched(l)' <=> SmartMatched(l) BY <1>2, <1>3 DEF SmartMatched, AssignmentsOf
<1>8. \A l : AssignmentExists(l)' <=> AssignmentExists(l)
  BY <1>2, <1>3 DEF AssignmentExists, AssignmentsOf
<1>9. \A l : l # a.lead => LiveAssignments(l)' = LiveAssignments(l)
  BY <1>2, <1>3 DEF LiveAssignments, AssignmentsOf
<1>10. status = "declined" => LiveAssignments(a.lead)' = LiveAssignments(a.lead) \ {a}
  BY <1>2, <1>3 DEF LiveAssignments, AssignmentsOf
<1>11. status = "accepted" =>
         LiveAssignments(a.lead)' = (LiveAssignments(a.lead) \ {a}) \cup {b}
  BY <1>2, <1>3 DEF LiveAssignments, AssignmentsOf
<1>12. a \in LiveAssignments(a.lead) BY <1>1 DEF LiveAssignments, AssignmentsOf
<1>13. status = "accepted" =>
         \E r \in assignment' :
           /\ LiveAssignments(a.lead)' = (LiveAssignments(a.lead) \ {a}) \cup {r}
           /\ r.agent = a.agent /\ r.status = "accepted"
  BY <1>2, <1>3, <1>11
<1>14. \A l : \A r \in LiveAssignments(l)' :
         \E q \in LiveAssignments(l) : q.agent = r.agent /\ q.via = r.via
  BY <1>1, <1>2, <1>3 DEF LiveAssignments, AssignmentsOf
<1>. QED
  BY <1>2, <1>4, <1>5, <1>6, <1>7, <1>8, <1>9, <1>10, <1>12, <1>13, <1>14

\* The owner of a lead whose assignment is open has that assignment and no other.
LEMMA OnlyLive ==
  ASSUME OwnerHoldsTheAssignment, NEW l \in Leads, ~SmartMatched(l),
         NEW a \in LiveAssignments(l)
  PROVE  /\ LiveAssignments(l) = {a} /\ lead[l].owner = a.agent /\ lead[l].owner # NONE
BY DEF OwnerHoldsTheAssignment

LEMMA AcceptKeepsInv ==
  ASSUME RoutingInv, NEW a \in assignment, AcceptAssignment(a)
  PROVE  RoutingInv'
<1>1. MayAnswer(a) /\ Answered(a, "accepted") /\ UNCHANGED << lead, claim, calls, failed >>
  BY DEF AcceptAssignment
<1>. USE DEF RoutingInv
<1>2. /\ a.lead \in Leads /\ a.agent \in Agents /\ a \in LiveAssignments(a.lead)
      /\ assignment' \subseteq AssignmentRow /\ IsFiniteSet(assignment')
      /\ \A l : AssignmentExists(l)' <=> AssignmentExists(l)
      /\ \A l : SmartMatched(l)' <=> SmartMatched(l)
      /\ \A l, u, via : (\E b \in AssignmentsOf(l)' : b.agent = u /\ b.via = via)
                          <=> (\E b \in AssignmentsOf(l) : b.agent = u /\ b.via = via)
      /\ \A l : l # a.lead => LiveAssignments(l)' = LiveAssignments(l)
      /\ \E b \in assignment' :
           /\ LiveAssignments(a.lead)' = (LiveAssignments(a.lead) \ {a}) \cup {b}
           /\ b.agent = a.agent /\ b.status = "accepted"
  BY <1>1, AnsweredAssignment
<1>3. Shaped' BY <1>1, <1>2 DEF Shaped
<1>4. UnlistedUnknown' BY <1>1, <1>2 DEF UnlistedUnknown
<1>5. OneRouter' BY <1>1, <1>2 DEF OneRouter
<1>6. OneAuction' BY <1>1 DEF OneAuction
<1>7. AuctionComesFirst' BY <1>1, <1>2 DEF AuctionComesFirst
<1>8. AgentChosen' BY <1>1 DEF AgentChosen
<1>9. HoldsFreeLead' BY <1>1 DEF HoldsFreeLead
<1>10. SmartMatchedIsGone' BY <1>1, <1>2 DEF SmartMatchedIsGone
<1>11. SeenPending' BY <1>1 DEF SeenPending
<1>12. WonEndsAuction' BY <1>1, <1>2 DEF WonEndsAuction
<1>13. OwnerHoldsTheAssignment'
  <2>1. ASSUME NEW l \in Leads, ~SmartMatched(l)'
        PROVE  IF lead'[l].owner = NONE THEN LiveAssignments(l)' = {}
               ELSE \E b \in assignment' : LiveAssignments(l)' = {b} /\ b.agent = lead'[l].owner
    <3>1. CASE l = a.lead
      <4>1. /\ LiveAssignments(l) = {a} /\ lead[l].owner = a.agent /\ lead[l].owner # NONE
        BY <1>2, <2>1, <3>1, OnlyLive
      <4>. QED BY <1>1, <1>2, <3>1, <4>1
    <3>2. CASE l # a.lead /\ lead[l].owner = NONE
      BY <1>1, <1>2, <2>1, <3>2 DEF OwnerHoldsTheAssignment
    <3>3. CASE l # a.lead /\ lead[l].owner # NONE
      <4>1. PICK b \in assignment : LiveAssignments(l) = {b} /\ b.agent = lead[l].owner
        BY <1>2, <2>1, <3>3 DEF OwnerHoldsTheAssignment
      <4>2. b \in assignment'
        BY <1>2, <3>3, <4>1 DEF LiveAssignments, AssignmentsOf
      <4>. QED BY <1>1, <1>2, <3>3, <4>1, <4>2
    <3>. QED BY <3>1, <3>2, <3>3
  <2>. QED BY <2>1 DEF OwnerHoldsTheAssignment
<1>14. WonClaimIsAssigned' BY <1>1, <1>2 DEF WonClaimIsAssigned
<1>. QED
  BY <1>3, <1>4, <1>5, <1>6, <1>7, <1>8, <1>9, <1>10, <1>11, <1>12, <1>13, <1>14

\* The declined lead is free, and the call that routes it again starts.
LEMMA DeclineKeepsInv ==
  ASSUME RoutingInv, NEW a \in assignment, NEW p \in Pods, DeclineAssignment(a, p)
  PROVE  RoutingInv'
<1>. DEFINE c == Call(a.lead, p, "pre")
<1>1. /\ MayAnswer(a) /\ Answered(a, "declined")
      /\ lead' = [lead EXCEPT ![a.lead].owner = NONE]
      /\ calls' = calls \cup {c} /\ UNCHANGED << claim, failed >>
  BY DEF DeclineAssignment
<1>. USE DEF RoutingInv
<1>2. /\ a.lead \in Leads /\ a.agent \in Agents /\ a \in LiveAssignments(a.lead)
      /\ assignment' \subseteq AssignmentRow /\ IsFiniteSet(assignment')
      /\ \A l : AssignmentExists(l)' <=> AssignmentExists(l)
      /\ \A l : SmartMatched(l)' <=> SmartMatched(l)
      /\ \A l, u, via : (\E b \in AssignmentsOf(l)' : b.agent = u /\ b.via = via)
                          <=> (\E b \in AssignmentsOf(l) : b.agent = u /\ b.via = via)
      /\ \A l : l # a.lead => LiveAssignments(l)' = LiveAssignments(l)
      /\ LiveAssignments(a.lead)' = LiveAssignments(a.lead) \ {a}
  BY <1>1, AnsweredAssignment
<1>3. c \in CallShape /\ c.lead = a.lead /\ c.pc = "pre" /\ c.seen = {}
  BY <1>2 DEF Call, CallShape, AllPcs, RoutePcs
<1>. HIDE DEF c
<1>4. AssignmentExists(a.lead) /\ ~Auctions(c)
  BY <1>3 DEF AssignmentExists, AssignmentsOf, Auctions, InAuction, AuctionPcs
<1>5. /\ lead' \in [Leads -> [listed : BOOLEAN, gone : BOOLEAN, owner : Agents \cup {NONE}]]
      /\ \A l \in Leads : lead'[l].listed = lead[l].listed /\ lead'[l].gone = lead[l].gone
      /\ \A l \in Leads : l # a.lead => lead'[l].owner = lead[l].owner
      /\ lead'[a.lead].owner = NONE
  <2>. DEFINE row == [lead[a.lead] EXCEPT !.owner = NONE]
  <2>1. /\ row \in [listed : BOOLEAN, gone : BOOLEAN, owner : Agents \cup {NONE}]
        /\ row.listed = lead[a.lead].listed /\ row.gone = lead[a.lead].gone /\ row.owner = NONE
    BY <1>2 DEF Shaped
  <2>2. lead' = [lead EXCEPT ![a.lead] = row] BY <1>1
  <2>. HIDE DEF row
  <2>. QED BY <1>2, <2>1, <2>2 DEF Shaped
<1>6. \A e \in calls : e.lead \in Leads BY CallColumns DEF Shaped
<1>7. Shaped' BY <1>1, <1>2, <1>3, <1>5 DEF Shaped
<1>8. UnlistedUnknown' BY <1>1, <1>2, <1>3, <1>4, <1>5 DEF UnlistedUnknown
<1>9. OneRouter' BY <1>1, <1>2, <1>3, <1>4 DEF OneRouter
<1>10. OneAuction' BY <1>1, <1>4 DEF OneAuction
<1>11. AuctionComesFirst' BY <1>1, <1>2, <1>4 DEF AuctionComesFirst
<1>12. AgentChosen' BY <1>1, <1>3 DEF AgentChosen
<1>13. HoldsFreeLead' BY <1>1, <1>3, <1>5, <1>6 DEF HoldsFreeLead
<1>14. SmartMatchedIsGone' BY <1>2, <1>5 DEF SmartMatchedIsGone
<1>15. SeenPending' BY <1>1, <1>3 DEF SeenPending
<1>16. WonEndsAuction' BY <1>1, <1>2, <1>3, <1>4 DEF WonEndsAuction
<1>17. OwnerHoldsTheAssignment'
  <2>1. ASSUME NEW l \in Leads, ~SmartMatched(l)'
        PROVE  IF lead'[l].owner = NONE THEN LiveAssignments(l)' = {}
               ELSE \E b \in assignment' : LiveAssignments(l)' = {b} /\ b.agent = lead'[l].owner
    <3>1. CASE l = a.lead
      <4>1. LiveAssignments(l) = {a} BY <1>2, <2>1, <3>1, OnlyLive
      <4>. QED BY <1>2, <1>5, <3>1, <4>1
    <3>2. CASE l # a.lead /\ lead[l].owner = NONE
      BY <1>2, <1>5, <2>1, <3>2 DEF OwnerHoldsTheAssignment
    <3>3. CASE l # a.lead /\ lead[l].owner # NONE
      <4>1. PICK b \in assignment : LiveAssignments(l) = {b} /\ b.agent = lead[l].owner
        BY <1>2, <2>1, <3>3 DEF OwnerHoldsTheAssignment
      <4>2. b \in assignment'
        BY <1>2, <3>3, <4>1 DEF LiveAssignments, AssignmentsOf
      <4>. QED BY <1>2, <1>5, <3>3, <4>1, <4>2
    <3>. QED BY <3>1, <3>2, <3>3
  <2>. QED BY <2>1 DEF OwnerHoldsTheAssignment
<1>18. WonClaimIsAssigned'
  <2>1. ASSUME NEW x \in claim, x.status = "won"
        PROVE  \/ x.lead \in failed
               \/ \E b \in AssignmentsOf(x.lead)' : b.agent = x.agent /\ b.via = "auction"
               \/ \E e \in calls' : e.pc = "losers" /\ e.lead = x.lead /\ e.agent = x.agent
    <3>1. CASE \E b \in AssignmentsOf(x.lead) : b.agent = x.agent /\ b.via = "auction"
      BY <1>2, <3>1
    <3>. QED BY <1>1, <2>1, <3>1 DEF WonClaimIsAssigned
  <2>. QED BY <1>1, <2>1 DEF WonClaimIsAssigned
<1>. QED
  BY <1>7, <1>8, <1>9, <1>10, <1>11, <1>12, <1>13, <1>14, <1>15, <1>16, <1>17, <1>18

LEMMA LeaveKeepsInv ==
  ASSUME RoutingInv, NEW l \in Leads, LeaveMarket(l)
  PROVE  RoutingInv'
<1>1. /\ UNCHANGED << assignment, claim, calls, failed >> /\ RowFree(l)
      /\ lead' = [lead EXCEPT ![l].gone = TRUE]
  BY DEF LeaveMarket
<1>2. \A k : /\ AssignmentsOf(k)' = AssignmentsOf(k)
             /\ AssignmentExists(k)' <=> AssignmentExists(k)
             /\ SmartMatched(k)' <=> SmartMatched(k)
             /\ LiveAssignments(k)' = LiveAssignments(k)
  BY <1>1, SameAssignments
<1>. USE DEF RoutingInv
<1>3. /\ lead' \in [Leads -> [listed : BOOLEAN, gone : BOOLEAN, owner : Agents \cup {NONE}]]
      /\ \A k \in Leads : lead'[k].listed = lead[k].listed /\ lead'[k].owner = lead[k].owner
      /\ \A k \in Leads : k # l => lead'[k].gone = lead[k].gone
      /\ lead'[l].gone
  <2>. DEFINE row == [lead[l] EXCEPT !.gone = TRUE]
  <2>1. /\ row \in [listed : BOOLEAN, gone : BOOLEAN, owner : Agents \cup {NONE}]
        /\ row.listed = lead[l].listed /\ row.gone /\ row.owner = lead[l].owner
    BY DEF Shaped
  <2>2. lead' = [lead EXCEPT ![l] = row] BY <1>1
  <2>. HIDE DEF row
  <2>. QED BY <2>1, <2>2 DEF Shaped
<1>4. \A e \in calls : e.lead \in Leads BY CallColumns DEF Shaped
<1>5. Shaped' BY <1>1, <1>3 DEF Shaped
<1>6. UnlistedUnknown' BY <1>1, <1>2, <1>3 DEF UnlistedUnknown
<1>7. OneRouter' BY <1>1, <1>2 DEF OneRouter
<1>8. OneAuction' BY <1>1 DEF OneAuction
<1>9. AuctionComesFirst' BY <1>1, <1>2 DEF AuctionComesFirst
<1>10. AgentChosen' BY <1>1 DEF AgentChosen
<1>11. HoldsFreeLead' BY <1>1, <1>3, <1>4 DEF HoldsFreeLead, RowFree
<1>12. SmartMatchedIsGone' BY <1>2, <1>3 DEF SmartMatchedIsGone
<1>13. SeenPending' BY <1>1 DEF SeenPending
<1>14. WonEndsAuction' BY <1>1, <1>2 DEF WonEndsAuction
<1>15. OwnerHoldsTheAssignment' BY <1>1, <1>2, <1>3 DEF OwnerHoldsTheAssignment
<1>16. WonClaimIsAssigned' BY <1>1, <1>2 DEF WonClaimIsAssigned
<1>. QED
  BY <1>5, <1>6, <1>7, <1>8, <1>9, <1>10, <1>11, <1>12, <1>13, <1>14, <1>15, <1>16

LEMMA SmartMatchKeepsInv ==
  ASSUME RoutingInv, NEW l \in Leads, NEW a \in Agents, SmartMatchDelivers(l, a)
  PROVE  RoutingInv'
<1>. DEFINE n == [id |-> Cardinality(assignment) + 1, lead |-> l, agent |-> a,
                  status |-> "assigned", via |-> "smartmatch"]
<1>1. /\ UNCHANGED << claim, calls, failed >> /\ RowFree(l) /\ l \in Subscribed /\ lead[l].listed
      /\ lead' = [lead EXCEPT ![l].owner = a, ![l].gone = TRUE]
      /\ assignment' = assignment \cup {n}
  BY DEF SmartMatchDelivers
<1>. USE DEF RoutingInv
<1>2. /\ n \in AssignmentRow /\ n.lead = l /\ n.agent = a /\ n.status = "assigned"
      /\ n.via = "smartmatch"
      /\ IsFiniteSet(assignment \cup {n})
  BY AssignmentRowTyped
<1>. HIDE DEF n
<1>3. /\ \A k : AssignmentsOf(k)' = AssignmentsOf(k) \cup (IF n.lead = k THEN {n} ELSE {})
      /\ \A k : AssignmentExists(k)' <=> AssignmentExists(k) \/ n.lead = k
      /\ \A k : SmartMatched(k)' <=> SmartMatched(k) \/ (n.lead = k /\ n.via = "smartmatch")
      /\ \A k : LiveAssignments(k)' = LiveAssignments(k) \cup (IF n.lead = k THEN {n} ELSE {})
  BY <1>1, <1>2, NewAssignment
<1>4. /\ \A k : AssignmentExists(k)' <=> AssignmentExists(k) \/ k = l
      /\ \A k : SmartMatched(k)' <=> SmartMatched(k) \/ k = l
      /\ \A k : k # l => LiveAssignments(k)' = LiveAssignments(k)
  BY <1>2, <1>3
<1>5. /\ lead' \in [Leads -> [listed : BOOLEAN, gone : BOOLEAN, owner : Agents \cup {NONE}]]
      /\ \A k \in Leads : k # l => lead'[k] = lead[k]
      /\ lead'[l].listed /\ lead'[l].gone
  <2>. DEFINE row == [lead[l] EXCEPT !.owner = a, !.gone = TRUE]
  <2>1. /\ row \in [listed : BOOLEAN, gone : BOOLEAN, owner : Agents \cup {NONE}]
        /\ row.listed = lead[l].listed /\ row.gone
    BY DEF Shaped
  <2>2. lead' = [lead EXCEPT ![l] = row] BY <1>1
  <2>. HIDE DEF row
  <2>. QED BY <1>1, <2>1, <2>2 DEF Shaped
<1>6. \A e \in calls : e.lead \in Leads BY CallColumns DEF Shaped
<1>7. Shaped' BY <1>1, <1>2, <1>5 DEF Shaped
<1>8. UnlistedUnknown' BY <1>1, <1>4, <1>5 DEF UnlistedUnknown
<1>9. OneRouter' BY <1>1, <1>4 DEF OneRouter
<1>10. OneAuction' BY <1>1 DEF OneAuction
<1>11. AuctionComesFirst' BY <1>1, <1>4 DEF AuctionComesFirst
<1>12. AgentChosen' BY <1>1 DEF AgentChosen
<1>13. HoldsFreeLead' BY <1>1, <1>5, <1>6 DEF HoldsFreeLead, RowFree
<1>14. SmartMatchedIsGone' BY <1>1, <1>4, <1>5 DEF SmartMatchedIsGone
<1>15. SeenPending' BY <1>1 DEF SeenPending
<1>16. WonEndsAuction' BY <1>1, <1>4 DEF WonEndsAuction
<1>17. OwnerHoldsTheAssignment'
  <2>1. ASSUME NEW k \in Leads, ~SmartMatched(k)'
        PROVE  IF lead'[k].owner = NONE THEN LiveAssignments(k)' = {}
               ELSE \E b \in assignment' : LiveAssignments(k)' = {b} /\ b.agent = lead'[k].owner
    BY <1>1, <1>4, <1>5, <2>1 DEF OwnerHoldsTheAssignment
  <2>. QED BY <2>1 DEF OwnerHoldsTheAssignment
<1>18. WonClaimIsAssigned'
  <2>1. \A k : AssignmentsOf(k) \subseteq AssignmentsOf(k)' BY <1>3
  <2>. QED BY <1>1, <2>1 DEF WonClaimIsAssigned
<1>. QED
  BY <1>7, <1>8, <1>9, <1>10, <1>11, <1>12, <1>13, <1>14, <1>15, <1>16, <1>17, <1>18

-------------------------------------------------------------------------------
(* The theorems.                                                             *)

LEMMA RoutingInvInit == Init => RoutingInv
<1>. SUFFICES ASSUME Init PROVE RoutingInv OBVIOUS
<1>1. /\ lead = [l \in Leads |-> [listed |-> FALSE, gone |-> FALSE, owner |-> NONE]]
      /\ assignment = {} /\ claim = {} /\ calls = {} /\ failed = {}
  BY DEF Init
<1>2. Shaped BY <1>1, FS_EmptySet DEF Shaped
<1>3. \A l : AssignmentsOf(l) = {} BY <1>1 DEF AssignmentsOf
<1>4. OwnerHoldsTheAssignment BY <1>1, <1>3 DEF OwnerHoldsTheAssignment, LiveAssignments
<1>5. WonClaimIsAssigned BY <1>1 DEF WonClaimIsAssigned
<1>6. UnlistedUnknown BY <1>1, <1>3 DEF UnlistedUnknown, AssignmentExists
<1>7. SmartMatchedIsGone BY <1>3 DEF SmartMatchedIsGone, SmartMatched
<1>8. /\ OneRouter /\ OneAuction /\ AuctionComesFirst /\ AgentChosen /\ HoldsFreeLead
      /\ SeenPending /\ WonEndsAuction
  BY <1>1
  DEF OneRouter, OneAuction, AuctionComesFirst, AgentChosen, HoldsFreeLead, SeenPending,
      WonEndsAuction
<1>. QED BY <1>2, <1>4, <1>5, <1>6, <1>7, <1>8 DEF RoutingInv

LEMMA RoutingInvStep == RoutingInv /\ [Next]_vars => RoutingInv'
<1>. SUFFICES ASSUME RoutingInv, [Next]_vars PROVE RoutingInv' OBVIOUS
<1>1. Writes => RoutingInv'
  BY InsertKeepsInv, AcceptKeepsInv, DeclineKeepsInv, LeaveKeepsInv, SmartMatchKeepsInv
  DEF Writes
<1>. QED
  BY <1>1, RoutingEffects, EndKeepsInv, GoingOnKeepsInv, AssignKeepsInv, SettlingKeepsInv,
     StartKeepsInv

LEMMA RoutingInvariant == Spec => []RoutingInv
BY RoutingInvInit, RoutingInvStep, PTL DEF Spec

\* The markers of every pod name leads.
MarkersTyped == marker \in [Pods -> SUBSET Leads]

LEMMA MarkersStep == RoutingInv /\ MarkersTyped /\ [Next]_vars => MarkersTyped'
<1>. SUFFICES ASSUME RoutingInv, MarkersTyped, [Next]_vars PROVE MarkersTyped' OBVIOUS
<1>1. ASSUME NEW c \in calls
      PROVE  /\ marker' = [marker EXCEPT ![c.pod] = @ \cup {c.lead}] => MarkersTyped'
             /\ ClearOpen(c) => MarkersTyped'
  <2>1. c.pod \in Pods /\ c.lead \in Leads BY CallColumns DEF RoutingInv, Shaped
  <2>. QED BY <2>1 DEF MarkersTyped, ClearOpen
<1>2. ASSUME NEW p \in Pods PROVE marker' = [marker EXCEPT ![p] = {}] => MarkersTyped'
  BY DEF MarkersTyped
<1>3. UNCHANGED marker => MarkersTyped' BY DEF MarkersTyped
<1>4. ASSUME NEW c \in calls, Step(c) PROVE MarkersTyped'
  BY <1>1, <1>3, <1>4
  DEF Step, PreCheck, RouteChoose, RouteCommit, OpenCheck, OpenMark, ResolveCheck, ResolveList,
      ResolveRank, MarkClaim, ResolveExpired, ResolveAward, DedupeClaim, InsertClaim
<1>5. ASSUME NEW c \in calls, QueryFails(c) PROVE MarkersTyped' BY <1>3, <1>5 DEF QueryFails
<1>6. ASSUME NEW p \in Pods, Crash(p) PROVE MarkersTyped' BY <1>2, <1>6 DEF Crash
<1>. QED
  BY <1>3, <1>4, <1>5, <1>6
  DEF Next, vars, LeaveMarket, Ingest, SmartMatchDelivers, StartClaim, AcceptAssignment,
      DeclineAssignment, DeclineAgain

\* Every variable of the router and of the auctions keeps its type, and one routing
\* transaction of the organization runs at a time (pg_advisory_xact_lock).
THEOREM RoutingTypeCorrect == Spec => []TypeOK
<1>1. Init => MarkersTyped BY DEF Init, MarkersTyped
<1>2. Spec => []MarkersTyped BY <1>1, MarkersStep, RoutingInvariant, PTL DEF Spec
<1>3. RoutingInv /\ MarkersTyped => TypeOK
  <2>. SUFFICES ASSUME RoutingInv, MarkersTyped PROVE TypeOK OBVIOUS
  <2>1. ASSUME NEW c \in calls PROVE c \in CallRow
    <3>1. c \in CallShape BY DEF RoutingInv, Shaped
    <3>2. c.seen \in SUBSET claim BY DEF RoutingInv, SeenPending
    <3>. QED BY <3>1, <3>2 DEF CallShape, CallRow
  <2>. QED BY <2>1 DEF RoutingInv, Shaped, MarkersTyped, HoldsFreeLead, TypeOK
<1>. QED BY <1>2, <1>3, RoutingInvariant, PTL

\* The owner of a lead and its assignment rows never part, whatever routing, auctions,
\* crashes and late answers do, until Smart Match writes both.
THEOREM RoutingKeepsOwner == Spec => []OwnerHoldsTheAssignment
<1>1. RoutingInv => OwnerHoldsTheAssignment BY DEF RoutingInv
<1>. QED BY <1>1, RoutingInvariant, PTL

\* An agent who was told a claim won has the assignment, is about to get it, or lost it
\* to a crash or a failed query; and nobody else was told so.
THEOREM RoutingHonoursWins == Spec => []WonClaimIsAssigned
<1>1. RoutingInv => WonClaimIsAssigned BY DEF RoutingInv
<1>. QED BY <1>1, RoutingInvariant, PTL

-------------------------------------------------------------------------------
(* Capacity.                                                                 *)

CapacityInv == RoutedWithinCapacity /\ HoldsCapacity

\* What routing gave an agent is finite, and counted in the agent's open leads.
LEMMA RoutedCounted ==
  ASSUME NEW a
  PROVE  /\ Cardinality(Routed(a)) \in Nat /\ Cardinality(OpenLeads(a)) \in Nat
         /\ Cardinality(Routed(a)) <= Cardinality(OpenLeads(a))
         /\ IsFiniteSet(Routed(a)) /\ IsFiniteSet(OpenLeads(a))
<1>1. Routed(a) \subseteq OpenLeads(a) /\ OpenLeads(a) \subseteq Leads BY DEF Routed, OpenLeads
<1>2. IsFiniteSet(OpenLeads(a)) BY <1>1, FS_Subset, RoutingAssumption
<1>3. IsFiniteSet(Routed(a)) /\ Cardinality(Routed(a)) <= Cardinality(OpenLeads(a))
  BY <1>1, <1>2, FS_Subset
<1>. QED BY <1>2, <1>3, FS_CardinalityType

\* A step after which no agent holds a routed lead they did not hold before keeps the bound.
LEMMA ShrinkKeepsCapacity ==
  ASSUME CapacityInv, AgentChosen',
         \A a \in Agents : Routed(a)' \subseteq Routed(a),
         \A c \in calls' : c.pc = "holding" =>
           c \in calls \/ Cardinality(Routed(c.agent)) < Capacity[c.agent]
  PROVE  CapacityInv'
<1>1. ASSUME NEW a \in Agents
      PROVE  /\ Cardinality(Routed(a)') <= Cardinality(Routed(a))
             /\ Cardinality(Routed(a)') \in Nat /\ Cardinality(Routed(a)) \in Nat
             /\ Capacity[a] \in Nat
  <2>1. IsFiniteSet(Routed(a)) BY RoutedCounted
  <2>2. Cardinality(Routed(a)') <= Cardinality(Routed(a)) /\ IsFiniteSet(Routed(a)')
    BY <2>1, FS_Subset
  <2>. QED BY <2>1, <2>2, FS_CardinalityType, RoutingAssumption
<1>2. RoutedWithinCapacity' BY <1>1 DEF CapacityInv, RoutedWithinCapacity
<1>3. HoldsCapacity'
  <2>1. ASSUME NEW c \in calls', c.pc = "holding"
        PROVE  Cardinality(Routed(c.agent)') < Capacity[c.agent]
    <3>1. c.agent \in Agents BY <2>1 DEF AgentChosen
    <3>2. Cardinality(Routed(c.agent)) < Capacity[c.agent]
      BY <2>1 DEF CapacityInv, HoldsCapacity
    <3>. QED BY <1>1, <3>1, <3>2
  <2>2. ASSUME NEW c \in calls' PROVE (Routed(c.agent))' = Routed(c.agent)' OBVIOUS
  <2>. QED BY <2>1 DEF HoldsCapacity
<1>. QED BY <1>2, <1>3 DEF CapacityInv

\* Routed(a) has no new lead when no lead is newly owned and no live row is new.
LEMMA RoutedShrinks ==
  ASSUME \A l \in Leads : lead'[l].owner \in Agents /\ ~lead'[l].gone =>
           /\ lead[l].owner = lead'[l].owner /\ ~lead[l].gone
           /\ \A b \in LiveAssignments(l)' : b.via = "routing" =>
                \E r \in LiveAssignments(l) : r.agent = b.agent /\ r.via = b.via
  PROVE  \A a \in Agents : Routed(a)' \subseteq Routed(a)
BY DEF Routed, OpenLeads

LEMMA CapacityStep ==
  ASSUME RoutingInv, RoutingInv', CapacityInv, [Next]_vars
  PROVE  CapacityInv'
<1>. DEFINE shrinks ==
       \A l \in Leads : lead'[l].owner \in Agents /\ ~lead'[l].gone =>
         /\ lead[l].owner = lead'[l].owner /\ ~lead[l].gone
         /\ \A b \in LiveAssignments(l)' : b.via = "routing" =>
              \E r \in LiveAssignments(l) : r.agent = b.agent /\ r.via = b.via
<1>1. AgentChosen' /\ AgentChosen BY DEF RoutingInv
<1>2. ASSUME shrinks,
             \A c \in calls' : c.pc = "holding" =>
               c \in calls \/ Cardinality(Routed(c.agent)) < Capacity[c.agent]
      PROVE  CapacityInv'
  BY <1>1, <1>2, RoutedShrinks, ShrinkKeepsCapacity
<1>3. ASSUME assignment' = assignment,
             \A l \in Leads : lead'[l].owner = lead[l].owner /\ (lead[l].gone => lead'[l].gone)
      PROVE  shrinks
  BY <1>3, SameAssignments
<1>. HIDE DEF shrinks
<1>4. CASE CallsEnd
  <2>1. shrinks BY <1>3, <1>4 DEF CallsEnd
  <2>. QED BY <1>2, <1>4, <2>1 DEF CallsEnd
<1>5. ASSUME NEW c \in calls, NEW d, CallGoesOn(c, d) PROVE CapacityInv'
  <2>1. shrinks BY <1>3, <1>5 DEF CallGoesOn
  <2>2. calls' = (calls \ {c}) \cup {d} BY <1>5 DEF CallGoesOn
  <2>3. ASSUME d.pc = "holding" PROVE Cardinality(Routed(d.agent)) < Capacity[d.agent]
    <3>1. d.agent \in Agents /\ Cardinality(OpenLeads(d.agent)) < Capacity[d.agent]
      BY <1>5, <2>3 DEF CallGoesOn, Eligible
    <3>2. Capacity[d.agent] \in Nat BY <3>1, RoutingAssumption
    <3>. QED BY <3>1, <3>2, RoutedCounted
  <2>. QED BY <1>2, <2>1, <2>2, <2>3
<1>6. ASSUME NEW c \in calls, NEW via, CallAssigns(c, via) PROVE CapacityInv'
  <2>. DEFINE n == [id |-> Cardinality(assignment) + 1, lead |-> c.lead, agent |-> c.agent,
                    status |-> "assigned", via |-> via]
  <2>1. /\ calls' = calls \ {c} /\ lead' = [lead EXCEPT ![c.lead].owner = c.agent]
        /\ assignment' = assignment \cup {n}
        /\ \/ via = "routing" /\ c.pc = "holding"
           \/ via = "auction" /\ c.pc = "losers"
    BY <1>6 DEF CallAssigns, Assign
  <2>2. n.lead = c.lead /\ n.agent = c.agent /\ n.via = via /\ n.status = "assigned" OBVIOUS
  <2>. HIDE DEF n
  <2>3. c.lead \in Leads /\ c.agent \in Agents
    BY <1>1, <2>1, CallColumns DEF RoutingInv, Shaped, AgentChosen
  <2>4. /\ \A l \in Leads : lead'[l].gone = lead[l].gone
        /\ \A l \in Leads : l # c.lead => lead'[l].owner = lead[l].owner
        /\ lead'[c.lead].owner = c.agent
    BY <2>1, <2>3 DEF RoutingInv, Shaped
  <2>5. \A l : LiveAssignments(l)' = LiveAssignments(l) \cup (IF n.lead = l THEN {n} ELSE {})
    BY <2>1, <2>2, NewAssignment
  <2>6. lead[c.lead].gone \/ LiveAssignments(c.lead) = {}
    <3>1. CASE SmartMatched(c.lead) BY <2>3, <3>1 DEF RoutingInv, SmartMatchedIsGone
    <3>2. CASE ~SmartMatched(c.lead) /\ c.pc = "holding"
      BY <2>3, <3>2 DEF RoutingInv, HoldsFreeLead, OwnerHoldsTheAssignment
    <3>3. CASE ~SmartMatched(c.lead) /\ c.pc = "losers"
      BY <3>3 DEF RoutingInv, AuctionComesFirst, Auctions, InAuction, AuctionPcs,
                  AssignmentExists, LiveAssignments
    <3>. QED BY <2>1, <3>1, <3>2, <3>3
  <2>7. CASE via = "auction"
    <3>1. ASSUME NEW l \in Leads, lead'[l].owner \in Agents, ~lead'[l].gone,
                 NEW a \in Agents, NEW b \in LiveAssignments(l)', lead'[l].owner = a,
                 b.agent = a, b.via = "routing"
          PROVE  l \in Routed(a)
      <4>1. b # n BY <2>2, <2>7, <3>1
      <4>2. b \in LiveAssignments(l) BY <2>5, <3>1, <4>1
      <4>3. l # c.lead BY <2>4, <2>6, <3>1, <4>2
      <4>. QED BY <2>4, <3>1, <4>2, <4>3 DEF Routed, OpenLeads
    <3>2. \A a \in Agents : Routed(a)' \subseteq Routed(a) BY <3>1 DEF Routed, OpenLeads
    <3>. QED BY <1>1, <2>1, <3>2, ShrinkKeepsCapacity
  <2>8. CASE via = "routing"
    <3>1. \A e \in calls' : e.pc # "holding" BY <2>1, <2>8 DEF RoutingInv, HoldsFreeLead
    <3>2. ASSUME NEW a \in Agents, NEW l \in Routed(a)'
          PROVE  l \in Routed(a) \/ (l = c.lead /\ a = c.agent)
      <4>1. /\ l \in Leads /\ lead'[l].owner = a /\ ~lead'[l].gone
            /\ \E b \in LiveAssignments(l)' : b.agent = a /\ b.via = "routing"
        BY <3>2 DEF Routed, OpenLeads
      <4>2. CASE l = c.lead BY <2>4, <4>1, <4>2
      <4>3. CASE l # c.lead
        BY <2>2, <2>4, <2>5, <4>1, <4>3 DEF Routed, OpenLeads
      <4>. QED BY <4>2, <4>3
    <3>3. ASSUME NEW a \in Agents PROVE Cardinality(Routed(a)') <= Capacity[a]
      <4>1. /\ IsFiniteSet(Routed(a)) /\ Cardinality(Routed(a)) \in Nat /\ Capacity[a] \in Nat
            /\ Cardinality(Routed(a)) <= Capacity[a]
        BY RoutedCounted, RoutingAssumption DEF CapacityInv, RoutedWithinCapacity
      <4>2. CASE a # c.agent
        <5>1. Routed(a)' \subseteq Routed(a) BY <3>2, <4>2
        <5>2. Cardinality(Routed(a)') <= Cardinality(Routed(a)) /\ IsFiniteSet(Routed(a)')
          BY <4>1, <5>1, FS_Subset
        <5>3. Cardinality(Routed(a)') \in Nat BY <5>2, FS_CardinalityType
        <5>. QED BY <4>1, <5>2, <5>3
      <4>3. CASE a = c.agent
        <5>1. Cardinality(Routed(a)) < Capacity[a]
          BY <2>1, <2>8, <4>3 DEF CapacityInv, HoldsCapacity
        <5>2. Routed(a)' \subseteq Routed(a) \cup {c.lead} BY <3>2
        <5>3. /\ IsFiniteSet(Routed(a) \cup {c.lead})
              /\ Cardinality(Routed(a) \cup {c.lead}) <= Cardinality(Routed(a)) + 1
          BY <4>1, FS_AddElement
        <5>4. /\ Cardinality(Routed(a)') <= Cardinality(Routed(a) \cup {c.lead})
              /\ IsFiniteSet(Routed(a)')
          BY <5>2, <5>3, FS_Subset
        <5>5. /\ Cardinality(Routed(a)') \in Nat
              /\ Cardinality(Routed(a) \cup {c.lead}) \in Nat
          BY <5>3, <5>4, FS_CardinalityType
        <5>. QED BY <4>1, <5>1, <5>3, <5>4, <5>5
      <4>. QED BY <4>2, <4>3
    <3>4. RoutedWithinCapacity' BY <3>3 DEF RoutedWithinCapacity
    <3>5. HoldsCapacity' BY <3>1 DEF HoldsCapacity
    <3>. QED BY <3>4, <3>5 DEF CapacityInv
  <2>. QED BY <2>1, <2>7, <2>8
<1>7. ASSUME NEW c \in calls, NEW d, NEW x, NEW status, CallSettles(c, d, x, status)
      PROVE  CapacityInv'
  <2>1. shrinks BY <1>3, <1>7 DEF CallSettles
  <2>2. calls' = (calls \ {c}) \cup {d} /\ d.pc # "holding" BY <1>7 DEF CallSettles
  <2>. QED BY <1>2, <2>1, <2>2
<1>8. ASSUME NEW c, CallStarts(c) PROVE CapacityInv'
  <2>1. calls' = calls \cup {c} /\ c.pc # "holding" /\ assignment' = assignment
    BY <1>8 DEF CallStarts
  <2>2. \A l \in Leads : lead'[l].owner = lead[l].owner /\ lead'[l].gone = lead[l].gone
    BY <1>8 DEF CallStarts, RoutingInv, Shaped
  <2>3. shrinks BY <1>3, <2>1, <2>2
  <2>. QED BY <1>2, <2>1, <2>3
<1>9. ASSUME NEW c \in calls, InsertClaim(c) PROVE CapacityInv'
  <2>1. shrinks BY <1>3, <1>9 DEF InsertClaim
  <2>. QED BY <1>2, <1>9, <2>1 DEF InsertClaim, Return
<1>10. ASSUME NEW a \in assignment, AcceptAssignment(a) PROVE CapacityInv'
  <2>1. shrinks BY <1>10, AnsweredAssignment DEF AcceptAssignment, RoutingInv, shrinks
  <2>. QED BY <1>2, <1>10, <2>1 DEF AcceptAssignment
<1>11. ASSUME NEW a \in assignment, NEW p \in Pods, DeclineAssignment(a, p) PROVE CapacityInv'
  <2>1. /\ lead' = [lead EXCEPT ![a.lead].owner = NONE] /\ a.lead \in Leads
        /\ calls' = calls \cup {Call(a.lead, p, "pre")}
        /\ \A l : \A b \in LiveAssignments(l)' :
             \E r \in LiveAssignments(l) : r.agent = b.agent /\ r.via = b.via
    BY <1>11, AnsweredAssignment DEF DeclineAssignment, RoutingInv
  <2>2. /\ \A l \in Leads : l # a.lead => lead'[l] = lead[l]
        /\ lead'[a.lead].owner = NONE
    BY <2>1 DEF RoutingInv, Shaped
  <2>3. shrinks BY <2>1, <2>2, RoutingAssumption DEF shrinks
  <2>4. Call(a.lead, p, "pre").pc # "holding" BY DEF Call
  <2>. QED BY <1>2, <2>1, <2>3, <2>4
<1>12. ASSUME NEW l \in Leads, LeaveMarket(l) PROVE CapacityInv'
  <2>1. /\ lead' = [lead EXCEPT ![l].gone = TRUE] /\ UNCHANGED << assignment, calls >>
    BY <1>12 DEF LeaveMarket
  <2>2. \A k \in Leads : lead'[k].owner = lead[k].owner /\ (lead[k].gone => lead'[k].gone)
    BY <2>1 DEF RoutingInv, Shaped
  <2>3. shrinks BY <1>3, <2>1, <2>2
  <2>. QED BY <1>2, <2>1, <2>3
<1>13. ASSUME NEW l \in Leads, NEW a \in Agents, SmartMatchDelivers(l, a) PROVE CapacityInv'
  <2>. DEFINE n == [id |-> Cardinality(assignment) + 1, lead |-> l, agent |-> a,
                    status |-> "assigned", via |-> "smartmatch"]
  <2>1. /\ UNCHANGED calls /\ lead' = [lead EXCEPT ![l].owner = a, ![l].gone = TRUE]
        /\ assignment' = assignment \cup {n}
    BY <1>13 DEF SmartMatchDelivers
  <2>2. n.lead = l /\ n.status = "assigned" OBVIOUS
  <2>. HIDE DEF n
  <2>3. \A k \in Leads : k # l => lead'[k] = lead[k] BY <2>1 DEF RoutingInv, Shaped
  <2>4. lead'[l].gone BY <2>1 DEF RoutingInv, Shaped
  <2>5. \A k : LiveAssignments(k)' = LiveAssignments(k) \cup (IF n.lead = k THEN {n} ELSE {})
    BY <2>1, <2>2, NewAssignment
  <2>6. shrinks BY <2>2, <2>3, <2>4, <2>5 DEF shrinks
  <2>. QED BY <1>2, <2>1, <2>6
<1>. QED
  BY <1>4, <1>5, <1>6, <1>7, <1>8, <1>9, <1>10, <1>11, <1>12, <1>13, RoutingEffects DEF Writes

\* What routing itself assigns never passes an agent's capacity, for any number of
\* ingests at the same time: the agents are counted under the advisory lock.
THEOREM RoutingWithinCapacity == Spec => []RoutedWithinCapacity
<1>1. Init => CapacityInv
  <2>. SUFFICES ASSUME Init PROVE CapacityInv OBVIOUS
  <2>1. \A a : Routed(a) = {} BY DEF Init, Routed, LiveAssignments, AssignmentsOf
  <2>2. \A a \in Agents : Capacity[a] \in Nat BY RoutingAssumption
  <2>3. Cardinality({}) = 0 BY FS_EmptySet
  <2>4. \A a \in Agents : Cardinality(Routed(a)) <= Capacity[a] BY <2>1, <2>2, <2>3
  <2>. QED BY <2>4 DEF Init, CapacityInv, RoutedWithinCapacity, HoldsCapacity
<1>2. RoutingInv /\ RoutingInv' /\ CapacityInv /\ [Next]_vars => CapacityInv' BY CapacityStep
<1>3. CapacityInv => RoutedWithinCapacity BY DEF CapacityInv
<1>. QED BY <1>1, <1>2, <1>3, RoutingInvariant, PTL DEF Spec

-------------------------------------------------------------------------------
(* Routing implements LeadOwnership.                                         *)

Unmatched == Leads \ Subscribed
Offers == [l \in Unmatched |-> Offered(l)]

\* The abstract state does not move when no offer of a lead outside Smart Match does.
LEMMA OffersStay ==
  ASSUME \A l \in Unmatched : /\ lead'[l].owner = lead[l].owner
                              /\ LiveAssignments(l)' = LiveAssignments(l)
  PROVE  Offers' = Offers
<1>1. \A l \in Unmatched : Offered(l)' = Offered(l) BY DEF Offered
<1>. QED BY <1>1 DEF Offers

\* It moves at one lead when that one's offer does.
LEMMA OfferMoves ==
  ASSUME NEW k \in Unmatched,
         \A l \in Unmatched : l # k => /\ lead'[l].owner = lead[l].owner
                                       /\ LiveAssignments(l)' = LiveAssignments(l)
  PROVE  /\ Offers' = [Offers EXCEPT ![k] = Offered(k)']
         /\ Offers[k] = Offered(k)
<1>1. \A l \in Unmatched : l # k => Offered(l)' = Offered(l) BY DEF Offered
<1>2. Offers' = [l \in Unmatched |-> Offered(l)'] BY DEF Offers, Unmatched
<1>. QED BY <1>1, <1>2 DEF Offers

LEMMA OwnershipStep ==
  ASSUME RoutingInv, RoutingInv', [Next]_vars
  PROVE  [Ownership!Next]_Offers
<1>. DEFINE Allowed == Ownership!Next \/ Offers' = Offers
<1>. SUFFICES Allowed OBVIOUS
<1>. USE DEF RoutingInv
<1>1. \A l \in Unmatched : l \in Leads /\ ~SmartMatched(l)
  BY DEF SmartMatchedIsGone, Unmatched
<1>2. ASSUME assignment' = assignment, \A l \in Leads : lead'[l].owner = lead[l].owner
      PROVE  Allowed
  BY <1>1, <1>2, SameAssignments, OffersStay
<1>3. ASSUME NEW k,
             \A l \in Leads : l # k => /\ lead'[l].owner = lead[l].owner
                                       /\ LiveAssignments(l)' = LiveAssignments(l),
             k \notin Unmatched
      PROVE  Allowed
  BY <1>1, <1>3, OffersStay
<1>. HIDE DEF Allowed
<1>4. CASE CallsEnd BY <1>2, <1>4 DEF CallsEnd
<1>5. ASSUME NEW c \in calls, NEW d, CallGoesOn(c, d) PROVE Allowed
  BY <1>2, <1>5 DEF CallGoesOn
<1>6. ASSUME NEW c \in calls, NEW via, CallAssigns(c, via) PROVE Allowed
  <2>. DEFINE n == [id |-> Cardinality(assignment) + 1, lead |-> c.lead, agent |-> c.agent,
                    status |-> "assigned", via |-> via]
  <2>1. /\ lead' = [lead EXCEPT ![c.lead].owner = c.agent]
        /\ assignment' = assignment \cup {n}
        /\ \/ via = "routing" /\ c.pc = "holding"
           \/ via = "auction" /\ c.pc = "losers"
    BY <1>6 DEF CallAssigns, Assign
  <2>2. n.lead = c.lead /\ n.agent = c.agent /\ n.status = "assigned" OBVIOUS
  <2>. HIDE DEF n
  <2>3. c.lead \in Leads /\ c.agent \in Agents
    BY <2>1, CallColumns DEF Shaped, AgentChosen
  <2>4. /\ \A l \in Leads : l # c.lead => lead'[l].owner = lead[l].owner
        /\ lead'[c.lead].owner = c.agent
    BY <2>1, <2>3 DEF Shaped
  <2>5. \A l : LiveAssignments(l)' = LiveAssignments(l) \cup (IF n.lead = l THEN {n} ELSE {})
    BY <2>1, <2>2, NewAssignment
  <2>6. \A l \in Leads : l # c.lead => LiveAssignments(l)' = LiveAssignments(l) BY <2>2, <2>5
  <2>7. CASE c.lead \notin Unmatched BY <1>3, <2>4, <2>6, <2>7
  <2>8. CASE c.lead \in Unmatched
    <3>1. LiveAssignments(c.lead) = {}
      BY <1>1, <2>1, <2>8
      DEF HoldsFreeLead, OwnerHoldsTheAssignment, AuctionComesFirst, Auctions, InAuction,
          AuctionPcs, AssignmentExists, LiveAssignments
    <3>2. lead[c.lead].owner = NONE BY <1>1, <2>3, <2>8, <3>1 DEF OwnerHoldsTheAssignment
    <3>3. Offered(c.lead) = [agent |-> NONE, accepted |-> FALSE] BY <3>1, <3>2 DEF Offered
    <3>4. LiveAssignments(c.lead)' = {n} BY <2>2, <2>5, <3>1
    <3>5. Offered(c.lead)' = [agent |-> c.agent, accepted |-> FALSE]
      <4>1. ~\E a \in LiveAssignments(c.lead)' : a.status = "accepted" BY <2>2, <3>4
      <4>. QED BY <2>4, <4>1 DEF Offered
    <3>6. /\ Offers' = [Offers EXCEPT ![c.lead] = Offered(c.lead)']
          /\ Offers[c.lead] = Offered(c.lead)
      BY <1>1, <2>4, <2>6, <2>8, OfferMoves
    <3>7. Ownership!Offer(c.lead, c.agent)
      BY <3>3, <3>5, <3>6 DEF Ownership!Offer, Ownership!Free, Offers, Unmatched
    <3>. QED BY <2>3, <2>8, <3>7 DEF Ownership!Next, Unmatched, Allowed
  <2>. QED BY <2>7, <2>8
<1>7. ASSUME NEW c \in calls, NEW d, NEW x, NEW status, CallSettles(c, d, x, status)
      PROVE  Allowed
  BY <1>2, <1>7 DEF CallSettles
<1>8. ASSUME NEW c, CallStarts(c) PROVE Allowed
  <2>1. assignment' = assignment BY <1>8 DEF CallStarts
  <2>2. \A l \in Leads : lead'[l].owner = lead[l].owner BY <1>8 DEF CallStarts, Shaped
  <2>. QED BY <1>2, <2>1, <2>2
<1>9. ASSUME NEW c \in calls, InsertClaim(c) PROVE Allowed BY <1>2, <1>9 DEF InsertClaim
<1>10. ASSUME NEW a \in assignment, AcceptAssignment(a) PROVE Allowed
  <2>1. /\ UNCHANGED lead /\ a.lead \in Leads /\ a.agent \in Agents
        /\ a \in LiveAssignments(a.lead)
        /\ \A l : l # a.lead => LiveAssignments(l)' = LiveAssignments(l)
        /\ \E b \in assignment' :
             /\ LiveAssignments(a.lead)' = (LiveAssignments(a.lead) \ {a}) \cup {b}
             /\ b.agent = a.agent /\ b.status = "accepted"
    BY <1>10, AnsweredAssignment DEF AcceptAssignment
  <2>2. CASE a.lead \notin Unmatched BY <1>3, <2>1, <2>2
  <2>3. CASE a.lead \in Unmatched
    <3>1. lead[a.lead].owner # NONE BY <1>1, <2>1, <2>3, OnlyLive
    <3>2. \E b \in LiveAssignments(a.lead)' : b.status = "accepted" BY <2>1
    <3>3. Offered(a.lead)' = [Offered(a.lead) EXCEPT !.accepted = TRUE]
      <4>1. (\E b \in LiveAssignments(a.lead)' : b.status = "accepted") = TRUE BY <3>2
      <4>2. Offered(a.lead)' = [agent |-> lead[a.lead].owner, accepted |-> TRUE]
        BY <2>1, <4>1 DEF Offered
      <4>3. PICK q : Offered(a.lead) = [agent |-> lead[a.lead].owner, accepted |-> q]
        BY DEF Offered
      <4>4. ASSUME NEW o, NEW t
            PROVE  [[agent |-> o, accepted |-> q] EXCEPT !.accepted = t]
                     = [agent |-> o, accepted |-> t]
        OBVIOUS
      <4>. QED BY <4>2, <4>3, <4>4, Zenon
    <3>4. /\ Offers' = [Offers EXCEPT ![a.lead] = Offered(a.lead)']
          /\ Offers[a.lead] = Offered(a.lead)
      BY <2>1, <2>3, OfferMoves
    <3>5. Offers[a.lead].agent # NONE BY <3>1, <3>4 DEF Offered
    <3>6. Ownership!Accept(a.lead)
      BY <3>3, <3>4, <3>5 DEF Ownership!Accept, Offers, Unmatched
    <3>. QED BY <2>3, <3>6 DEF Ownership!Next, Unmatched, Allowed
  <2>. QED BY <2>2, <2>3
<1>11. ASSUME NEW a \in assignment, NEW p \in Pods, DeclineAssignment(a, p) PROVE Allowed
  <2>1. /\ lead' = [lead EXCEPT ![a.lead].owner = NONE] /\ a.lead \in Leads
        /\ a.status = "assigned" /\ a \in LiveAssignments(a.lead)
        /\ \A l : l # a.lead => LiveAssignments(l)' = LiveAssignments(l)
        /\ LiveAssignments(a.lead)' = LiveAssignments(a.lead) \ {a}
    BY <1>11, AnsweredAssignment DEF DeclineAssignment, MayAnswer
  <2>2. /\ \A l \in Leads : l # a.lead => lead'[l].owner = lead[l].owner
        /\ lead'[a.lead].owner = NONE
    BY <2>1 DEF Shaped
  <2>3. CASE a.lead \notin Unmatched BY <1>3, <2>1, <2>2, <2>3
  <2>4. CASE a.lead \in Unmatched
    <3>1. /\ LiveAssignments(a.lead) = {a} /\ lead[a.lead].owner # NONE
      BY <1>1, <2>1, <2>4, OnlyLive
    <3>2. Offered(a.lead).agent # NONE /\ ~Offered(a.lead).accepted BY <2>1, <3>1 DEF Offered
    <3>3. Offered(a.lead)' = [agent |-> NONE, accepted |-> FALSE]
      <4>1. LiveAssignments(a.lead)' = {} BY <2>1, <3>1
      <4>. QED BY <2>2, <4>1 DEF Offered
    <3>4. /\ Offers' = [Offers EXCEPT ![a.lead] = Offered(a.lead)']
          /\ Offers[a.lead] = Offered(a.lead)
      BY <1>1, <2>1, <2>2, <2>4, OfferMoves
    <3>5. Ownership!Decline(a.lead)
      BY <3>2, <3>3, <3>4 DEF Ownership!Decline, Ownership!Free, Offers, Unmatched
    <3>. QED BY <2>4, <3>5 DEF Ownership!Next, Unmatched, Allowed
  <2>. QED BY <2>3, <2>4
<1>12. ASSUME NEW l \in Leads, LeaveMarket(l) PROVE Allowed
  <2>1. assignment' = assignment BY <1>12 DEF LeaveMarket
  <2>2. \A k \in Leads : lead'[k].owner = lead[k].owner BY <1>12 DEF LeaveMarket, Shaped
  <2>. QED BY <1>2, <2>1, <2>2
<1>13. ASSUME NEW l \in Leads, NEW a \in Agents, SmartMatchDelivers(l, a) PROVE Allowed
  <2>. DEFINE n == [id |-> Cardinality(assignment) + 1, lead |-> l, agent |-> a,
                    status |-> "assigned", via |-> "smartmatch"]
  <2>1. /\ l \in Subscribed /\ lead' = [lead EXCEPT ![l].owner = a, ![l].gone = TRUE]
        /\ assignment' = assignment \cup {n}
    BY <1>13 DEF SmartMatchDelivers
  <2>2. n.lead = l /\ n.status = "assigned" OBVIOUS
  <2>. HIDE DEF n
  <2>3. \A k \in Leads : k # l => lead'[k] = lead[k] BY <2>1 DEF Shaped
  <2>4. \A k : LiveAssignments(k)' = LiveAssignments(k) \cup (IF n.lead = k THEN {n} ELSE {})
    BY <2>1, <2>2, NewAssignment
  <2>5. \A k \in Leads : k # l => LiveAssignments(k)' = LiveAssignments(k) BY <2>2, <2>4
  <2>6. l \notin Unmatched BY <2>1 DEF Unmatched
  <2>. QED BY <1>3, <2>3, <2>5, <2>6
<1>. QED
  BY <1>4, <1>5, <1>6, <1>7, <1>8, <1>9, <1>10, <1>11, <1>12, <1>13, RoutingEffects DEF Writes

\* Whatever finds an agent for a lead, the agents see LeadOwnership: a lead that no Smart
\* Match subscription wants is offered to one agent at a time, who alone answers.
THEOREM RoutingImplementsOwnership == Spec => ImplementsOwnership
<1>1. Init => Ownership!Init
  <2>. SUFFICES ASSUME Init PROVE Ownership!Init OBVIOUS
  <2>1. \A l \in Unmatched : Offered(l) = [agent |-> NONE, accepted |-> FALSE]
    BY DEF Init, Offered, LiveAssignments, AssignmentsOf, Unmatched
  <2>. QED BY <2>1 DEF Ownership!Init, Ownership!Free, Unmatched
<1>2. RoutingInv /\ RoutingInv' /\ [Next]_vars => [Ownership!Next]_Offers BY OwnershipStep
<1>. QED
  BY <1>1, <1>2, RoutingInvariant, PTL
  DEF Spec, ImplementsOwnership, Ownership!Spec, Offers, Unmatched

=================================================================================
