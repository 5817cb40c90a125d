---------------------------- MODULE SmartMatchProofs ----------------------------
(*****************************************************************************)
(* Proofs about SmartMatch: for any leads, subscriptions, quotas, filters    *)
(* and numbers of deliveries at a time, beside any purchases, routings,      *)
(* removals, rechecks and resets.                                            *)
(*****************************************************************************)
EXTENDS SmartMatch, FiniteSetTheorems, WellFoundedInduction, TLAPS

-------------------------------------------------------------------------------
(* The inductive invariant.                                                  *)

CallRecord == [pc : {"none", "read", "list", "deliver", "done"}, winner : Subs \cup {NONE}]

\* What is said of one row of call.
CallOK(l, r) ==
  /\ r \in CallRecord
  /\ r.pc = "deliver" <=> r.winner # NONE
  /\ r.pc = "deliver" => l \in Fits[r.winner]

\* TypeOK, with what it says of call row by row.
Typed ==
  /\ lead \in [Leads -> LeadRow]
  /\ orders \subseteq [lead : Leads, user : Buyers, status : {"completed", "completed_smartmatch"}]
  /\ sub \in [Subs -> [status : {"none", "active", "cancelled"}, delivered : Nat, due : BOOLEAN]]
  /\ stale \subseteq Subs /\ overtaken \subseteq Leads
  /\ call \in [Leads -> CallRecord]
  /\ \A l \in Leads : CallOK(l, call[l])

\* The delivery of a lead starts with the lead.
FreshCall == \A l \in Leads : ~lead[l].listed => call[l].pc = "none"

\* A lead that was delivered is not delivered again.
DeliveredOnce ==
  \A o \in orders : o.status = "completed_smartmatch" => call[o.lead].pc = "done"

\* A delivery that goes on although the lead has an order was overtaken.
OrderOvertakes ==
  \A o \in orders : call[o.lead].pc \in {"list", "deliver"} => o.lead \in overtaken

SalesInv ==
  /\ FreshCall /\ DeliveredOnce /\ OrderOvertakes
  /\ NoHalfDelivery /\ SoldTwiceOnlyWhenOvertaken

\* Only subscriptions with a quota are picked, and the deliveries are few.
WinnerHasQuota == \A l \in Leads : call[l].pc = "deliver" => Quota[call[l].winner] > 0
RunningBounded == Cardinality(Running) <= MaxIngests

QuotaInv == WinnerHasQuota /\ RunningBounded /\ QuotaOvershootBounded

-------------------------------------------------------------------------------
(* The choice of a subscription.                                             *)

LEMMA RemainingNat ==
  ASSUME Typed, NEW s \in Subs
  PROVE  /\ RemainingQuota(s) \in Nat
         /\ RemainingQuota(s) > 0 => sub[s].delivered < Quota[s]
<1>1. sub[s].delivered \in Nat /\ Quota[s] \in Nat BY SmartMatchAssumption DEF Typed
<1>. QED BY <1>1 DEF RemainingQuota

\* Better is a total order of the subscriptions.
LEMMA BetterOrders ==
  ASSUME Typed
  PROVE  /\ \A s, t \in Subs : Better(s, t) \/ Better(t, s)
         /\ \A s, t \in Subs : Better(s, t) /\ Better(t, s) => s = t
         /\ \A s, t, u \in Subs : Better(s, t) /\ Better(t, u) => Better(s, u)
<1>1. \A s \in Subs : s \in Nat /\ RemainingQuota(s) \in Nat
  BY RemainingNat, SmartMatchAssumption
<1>. QED BY <1>1 DEF Better

\* pickBestSubscription returns one of the matches, the best of them, if there is any.
LEMMA BestExists ==
  ASSUME Typed, NEW l \in Leads, MatchesOf(l) # {}
  PROVE  /\ PickBestSubscription(l) \in MatchesOf(l)
         /\ \A t \in MatchesOf(l) : Better(PickBestSubscription(l), t)
<1>. DEFINE M == MatchesOf(l)
            Above(s) == {t \in M : Better(t, s)}
            R == StrictSubsetOrdering(M)
            U == {A \in SUBSET M : \E s \in M : A = Above(s)}
<1>1. M \subseteq Subs /\ M # {} BY DEF MatchesOf
<1>2. IsFiniteSet(M) BY <1>1, FS_Subset, SmartMatchAssumption
<1>. HIDE DEF M
<1>3. IsWellFoundedOn(R, SUBSET M)
  <2>1. FiniteSubsetsOf(M) = SUBSET M BY <1>2, FS_FiniteSubsetsOfFinite
  <2>. QED BY <2>1, FS_StrictSubsetOrderingWellFounded
<1>4. PICK A \in U : \A B \in U : ~(<< B, A >> \in R)
  <2>1. U \subseteq SUBSET M OBVIOUS
  <2>2. U # {} BY <1>1
  <2>. HIDE DEF R, U
  <2>. QED BY <1>3, <2>1, <2>2, WFMin
<1>5. PICK s \in M : A = Above(s) OBVIOUS
<1>6. ASSUME NEW t \in M, ~Better(s, t) PROVE FALSE
  <2>1. Better(t, s) /\ s \in Subs /\ t \in Subs BY <1>1, <1>6, BetterOrders
  <2>2. Above(t) \subseteq Above(s) BY <1>1, <2>1, BetterOrders
  <2>3. s \in Above(s) /\ s \notin Above(t) BY <1>1, <1>6, BetterOrders
  <2>4. Above(t) \in U OBVIOUS
  <2>5. << Above(t), A >> \in R BY <1>5, <2>2, <2>3 DEF StrictSubsetOrdering
  <2>. QED BY <1>4, <2>4, <2>5
<1>7. \E b \in M : \A t \in M : Better(b, t) BY <1>6
<1>8. PickBestSubscription(l) = CHOOSE b \in M : \A t \in M : Better(b, t)
  BY DEF PickBestSubscription, M
<1>. QED BY <1>7, <1>8 DEF M

-------------------------------------------------------------------------------
(* Types.                                                                    *)

\* The choice that a step of call makes.
LEMMA CallUpdate ==
  ASSUME Typed, NEW l \in Leads, NEW r, CallOK(l, r), call' = [call EXCEPT ![l] = r]
  PROVE  /\ call' \in [Leads -> CallRecord]
         /\ \A k \in Leads : CallOK(k, call'[k])
         /\ \A k \in Leads : k # l => call'[k] = call[k]
         /\ call'[l] = r
<1>1. call \in [Leads -> CallRecord] /\ \A k \in Leads : CallOK(k, call[k])
  BY DEF Typed
<1>2. r \in CallRecord BY DEF CallOK
<1>. QED BY <1>1, <1>2

LEMMA RowOfLead ==
  ASSUME Typed, NEW l \in Leads, NEW r \in LeadRow, lead' = [lead EXCEPT ![l] = r]
  PROVE  /\ lead' \in [Leads -> LeadRow]
         /\ \A k \in Leads : k # l => lead'[k] = lead[k]
         /\ lead'[l] = r
BY DEF Typed

-------------------------------------------------------------------------------
(* What the steps do.                                                        *)

\* No order, no delivery and no sale is touched; counters may be reset.
Aside ==
  /\ UNCHANGED << orders, call, overtaken >>
  /\ \A l \in Leads : /\ lead'[l].listed = lead[l].listed /\ lead'[l].sold = lead[l].sold
                      /\ lead'[l].purchasedBy = lead[l].purchasedBy
  /\ \A s \in Subs : sub'[s].delivered \in {sub[s].delivered, 0}

\* The delivery of l goes on to r, or ends.
CallMoves(l, r) ==
  /\ UNCHANGED << lead, orders, sub, overtaken >>
  /\ \A k \in Leads : k # l => call'[k] = call[k]
  /\ call'[l] = r /\ call[l].pc \in {"read", "list", "deliver"}
  /\ \/ r.pc = "done"
     \/ call[l].pc = "read" /\ r.pc = "list" /\ ~lead[l].sold
     \/ call[l].pc = "list" /\ r.pc = "deliver" /\ r.winner \in Subs
                           /\ sub[r.winner].delivered < Quota[r.winner]

\* The delivery of l starts.
CallBegins(l) ==
  /\ UNCHANGED << orders, sub, overtaken >>
  /\ ~lead[l].listed /\ Cardinality(Running) < MaxIngests
  /\ \A k \in Leads : /\ k # l => lead'[k].listed = lead[k].listed /\ call'[k] = call[k]
                      /\ lead'[k].sold = lead[k].sold
                      /\ lead'[k].purchasedBy = lead[k].purchasedBy
  /\ lead'[l].listed /\ call'[l].pc = "read"

\* Somebody gets an order for l, and l is theirs.
Sells(l, u, status) ==
  /\ orders' = orders \cup {[lead |-> l, user |-> u, status |-> status]}
  /\ \A k \in Leads : /\ lead'[k].listed = lead[k].listed
                      /\ k # l => /\ lead'[k].sold = lead[k].sold
                                  /\ lead'[k].purchasedBy = lead[k].purchasedBy
  /\ lead'[l].sold /\ lead'[l].purchasedBy = u

\* Smart Match delivers l for its winner s.
Delivers(l, s) ==
  /\ Sells(l, AgentOf[s], "completed_smartmatch")
  /\ s \in Subs /\ call[l] = [pc |-> "deliver", winner |-> s]
  /\ \A k \in Leads : k # l => call'[k] = call[k]
  /\ call'[l] = Ended
  /\ \A t \in Subs : sub'[t].delivered = sub[t].delivered + (IF t = s THEN 1 ELSE 0)
  /\ UNCHANGED overtaken

\* The marketplace sells l to u.
Buys(l, u) ==
  /\ Sells(l, u, "completed")
  /\ lead[l].listed /\ ~lead[l].sold
  /\ UNCHANGED << call, sub >>
  /\ overtaken' = IF call[l].pc \in {"list", "deliver"} THEN overtaken \cup {l} ELSE overtaken

LEMMA CallEffects ==
  ASSUME Typed, FreshCall, NEW l \in Leads
  PROVE  /\ Ingest(l) => Typed' /\ CallBegins(l)
         /\ ReadLead(l) \/ PickSubscription(l) \/ Lose(l) => Typed' /\ \E r : CallMoves(l, r)
<1>. USE DEF Typed
<1>0. lead[l] \in LeadRow /\ CallOK(l, call[l]) OBVIOUS
<1>1. CallOK(l, Ended) BY DEF CallOK, CallRecord, Ended
<1>2. ASSUME Ingest(l) PROVE Typed' /\ CallBegins(l)
  <2>. DEFINE r == [call[l] EXCEPT !.pc = "read"]
              row == [lead[l] EXCEPT !.listed = TRUE]
  <2>1. call' = [call EXCEPT ![l] = r] /\ lead' = [lead EXCEPT ![l] = row] BY <1>2 DEF Ingest
  <2>2. call[l].pc = "none" BY <1>2 DEF Ingest, FreshCall
  <2>3. CallOK(l, r) /\ r.pc = "read" BY <1>0, <2>2 DEF CallOK, CallRecord
  <2>4. /\ row \in LeadRow /\ row.listed /\ row.sold = lead[l].sold
        /\ row.purchasedBy = lead[l].purchasedBy
    BY <1>0 DEF LeadRow
  <2>. HIDE DEF r, row
  <2>5. /\ call' \in [Leads -> CallRecord] /\ \A k \in Leads : CallOK(k, call'[k])
        /\ \A k \in Leads : k # l => call'[k] = call[k]
        /\ call'[l] = r
    BY <2>1, <2>3, CallUpdate
  <2>6. /\ lead' \in [Leads -> LeadRow] /\ \A k \in Leads : k # l => lead'[k] = lead[k]
        /\ lead'[l] = row
    BY <2>1, <2>4, RowOfLead
  <2>7. Typed' BY <1>2, <2>5, <2>6 DEF Ingest
  <2>8. CallBegins(l) BY <1>2, <2>3, <2>4, <2>5, <2>6 DEF Ingest, CallBegins
  <2>. QED BY <2>7, <2>8
<1>3. ASSUME NEW r, CallOK(l, r), call' = [call EXCEPT ![l] = r],
             UNCHANGED << lead, orders, sub, stale, overtaken >>,
             call[l].pc \in {"read", "list", "deliver"},
             \/ r.pc = "done"
             \/ call[l].pc = "read" /\ r.pc = "list" /\ ~lead[l].sold
             \/ call[l].pc = "list" /\ r.pc = "deliver" /\ r.winner \in Subs
                                   /\ sub[r.winner].delivered < Quota[r.winner]
      PROVE  Typed' /\ \E q : CallMoves(l, q)
  <2>1. /\ call' \in [Leads -> CallRecord] /\ \A k \in Leads : CallOK(k, call'[k])
        /\ \A k \in Leads : k # l => call'[k] = call[k]
        /\ call'[l] = r
    BY <1>3, CallUpdate
  <2>2. Typed' BY <1>3, <2>1
  <2>3. CallMoves(l, r) BY <1>3, <2>1 DEF CallMoves
  <2>. QED BY <2>2, <2>3
<1>4. Ended.pc = "done" BY DEF Ended
<1>5. ASSUME ReadLead(l) PROVE Typed' /\ \E r : CallMoves(l, r)
  <2>. DEFINE r == [call[l] EXCEPT !.pc = "list"]
  <2>1. call[l].pc = "read" /\ UNCHANGED << lead, orders, sub, stale, overtaken >>
    BY <1>5 DEF ReadLead
  <2>2. \/ call' = [call EXCEPT ![l] = Ended]
        \/ call' = [call EXCEPT ![l] = r] /\ ~lead[l].sold
    BY <1>5 DEF ReadLead, Gone
  <2>3. CallOK(l, r) /\ r.pc = "list" BY <1>0, <2>1 DEF CallOK, CallRecord
  <2>. HIDE DEF r
  <2>. QED BY <1>1, <1>3, <1>4, <2>1, <2>2, <2>3
<1>6. ASSUME PickSubscription(l) PROVE Typed' /\ \E r : CallMoves(l, r)
  <2>1. call[l].pc = "list" /\ UNCHANGED << lead, orders, sub, stale, overtaken >>
    BY <1>6 DEF PickSubscription
  <2>2. CASE MatchesOf(l) = {}
    <3>1. call' = [call EXCEPT ![l] = Ended] BY <1>6, <2>2 DEF PickSubscription
    <3>. QED BY <1>1, <1>3, <1>4, <2>1, <3>1
  <2>3. CASE MatchesOf(l) # {}
    <3>. DEFINE s == PickBestSubscription(l)
                r == [pc |-> "deliver", winner |-> s]
    <3>1. call' = [call EXCEPT ![l] = r] BY <1>6, <2>3 DEF PickSubscription
    <3>2. s \in MatchesOf(l) BY <2>3, BestExists
    <3>. HIDE DEF s
    <3>3. s \in Subs /\ l \in Fits[s] /\ RemainingQuota(s) > 0 /\ s # NONE
      BY <3>2, SmartMatchAssumption DEF MatchesOf
    <3>4. sub[s].delivered < Quota[s] BY <3>3, RemainingNat
    <3>5. CallOK(l, r) /\ r.pc = "deliver" /\ r.winner = s
      BY <3>3 DEF CallOK, CallRecord
    <3>. HIDE DEF r
    <3>. QED BY <1>3, <2>1, <3>1, <3>3, <3>4, <3>5
  <2>. QED BY <2>2, <2>3
<1>7. ASSUME Lose(l) PROVE Typed' /\ \E r : CallMoves(l, r)
  BY <1>1, <1>3, <1>4, <1>7 DEF Lose
<1>. QED BY <1>2, <1>5, <1>6, <1>7

LEMMA SaleEffects ==
  ASSUME Typed, NEW l \in Leads
  PROVE  /\ Deliver(l) => Typed' /\ \E s : Delivers(l, s)
         /\ \A u \in Buyers : PurchaseLead(l, u) => Typed' /\ Buys(l, u)
<1>. USE DEF Typed
<1>0. lead[l] \in LeadRow /\ CallOK(l, call[l]) OBVIOUS
<1>1. ASSUME Deliver(l) PROVE Typed' /\ \E s : Delivers(l, s)
  <2>. DEFINE s == call[l].winner
              row == Delivered(l, s)
              o == [lead |-> l, user |-> AgentOf[s], status |-> "completed_smartmatch"]
  <2>1. /\ call[l].pc = "deliver" /\ orders' = orders \cup {o}
        /\ lead' = [lead EXCEPT ![l] = row] /\ sub' = [sub EXCEPT ![s].delivered = @ + 1]
        /\ call' = [call EXCEPT ![l] = Ended] /\ UNCHANGED << stale, overtaken >>
    BY <1>1 DEF Deliver
  <2>2. s \in Subs /\ call[l] = [pc |-> "deliver", winner |-> s]
    BY <1>0, <2>1 DEF CallOK, CallRecord
  <2>3. AgentOf[s] \in Buyers BY <2>2, SmartMatchAssumption
  <2>4. /\ row \in LeadRow /\ row.listed = lead[l].listed /\ row.sold
        /\ row.purchasedBy = AgentOf[s]
    BY <1>0, <2>3 DEF LeadRow, Delivered
  <2>5. o \in [lead : Leads, user : Buyers, status : {"completed", "completed_smartmatch"}]
    BY <2>3
  <2>6. /\ sub' \in [Subs -> [status : {"none", "active", "cancelled"}, delivered : Nat,
                              due : BOOLEAN]]
        /\ \A t \in Subs : sub'[t].delivered = sub[t].delivered + (IF t = s THEN 1 ELSE 0)
    <3>. DEFINE q == [sub[s] EXCEPT !.delivered = @ + 1]
    <3>1. /\ q \in [status : {"none", "active", "cancelled"}, delivered : Nat, due : BOOLEAN]
          /\ q.delivered = sub[s].delivered + 1
      BY <2>2
    <3>2. sub' = [sub EXCEPT ![s] = q] BY <2>1
    <3>. HIDE DEF q, s
    <3>3. \A t \in Subs : sub[t].delivered \in Nat OBVIOUS
    <3>. QED BY <2>2, <3>1, <3>2, <3>3
  <2>7. CallOK(l, Ended) BY DEF CallOK, CallRecord, Ended
  <2>8. /\ call' \in [Leads -> CallRecord] /\ \A k \in Leads : CallOK(k, call'[k])
        /\ \A k \in Leads : k # l => call'[k] = call[k]
        /\ call'[l] = Ended
    BY <2>1, <2>7, CallUpdate
  <2>. HIDE DEF row, s
  <2>9. /\ lead' \in [Leads -> LeadRow] /\ \A k \in Leads : k # l => lead'[k] = lead[k]
        /\ lead'[l] = row
    BY <2>1, <2>4, RowOfLead
  <2>10. orders' = orders \cup
           {[lead |-> l, user |-> AgentOf[s], status |-> "completed_smartmatch"]}
    BY <2>1
  <2>. HIDE DEF o
  <2>11. Typed' BY <2>1, <2>5, <2>6, <2>8, <2>9
  <2>12. Sells(l, AgentOf[s], "completed_smartmatch")
    BY <2>4, <2>9, <2>10 DEF Sells
  <2>13. Delivers(l, s) BY <2>1, <2>2, <2>6, <2>8, <2>12 DEF Delivers
  <2>. QED BY <2>11, <2>13
<1>2. ASSUME NEW u \in Buyers, PurchaseLead(l, u) PROVE Typed' /\ Buys(l, u)
  <2>. DEFINE row == [lead[l] EXCEPT !.sold = TRUE, !.purchasedBy = u]
              o == [lead |-> l, user |-> u, status |-> "completed"]
  <2>1. lead' = [lead EXCEPT ![l] = row]
    BY <1>2 DEF PurchaseLead
  <2>2. /\ row \in LeadRow /\ row.listed = lead[l].listed /\ row.sold /\ row.purchasedBy = u
    BY <1>0 DEF LeadRow
  <2>. HIDE DEF row
  <2>3. /\ lead' \in [Leads -> LeadRow] /\ \A k \in Leads : k # l => lead'[k] = lead[k]
        /\ lead'[l] = row
    BY <2>1, <2>2, RowOfLead
  <2>4. Sells(l, u, "completed") BY <1>2, <2>2, <2>3 DEF PurchaseLead, Sells
  <2>5. Buys(l, u) BY <1>2, <2>4 DEF PurchaseLead, Buys
  <2>6. o \in [lead : Leads, user : Buyers, status : {"completed", "completed_smartmatch"}]
    OBVIOUS
  <2>7. /\ orders' = orders \cup {o} /\ UNCHANGED << sub, call, stale >>
        /\ overtaken' \subseteq overtaken \cup {l}
    BY <1>2 DEF PurchaseLead
  <2>. HIDE DEF o
  <2>8. Typed' BY <2>3, <2>6, <2>7
  <2>. QED BY <2>5, <2>8
<1>. QED BY <1>1, <1>2

LEMMA AsideEffects ==
  ASSUME Typed
  PROVE  /\ \A l \in Leads, u \in Buyers : Route(l, u) => Typed' /\ Aside
         /\ \A l \in Leads : RemoveLead(l) \/ DncRecheck(l) => Typed' /\ Aside
         /\ \A s \in Subs : CreateSubscription(s) \/ CancelSubscription(s) \/ CycleElapses(s)
                              \/ ResetCycle(s) => Typed' /\ Aside
         /\ SelectStale \/ ResetDies \/ UNCHANGED vars => Typed' /\ Aside
<1>. USE DEF Typed
<1>1. ASSUME NEW l \in Leads, NEW r \in LeadRow, lead' = [lead EXCEPT ![l] = r],
             UNCHANGED << orders, sub, call, stale, overtaken >>,
             r.listed = lead[l].listed, r.sold = lead[l].sold,
             r.purchasedBy = lead[l].purchasedBy
      PROVE  Typed' /\ Aside
  <2>1. /\ lead' \in [Leads -> LeadRow] /\ \A k \in Leads : k # l => lead'[k] = lead[k]
        /\ lead'[l] = r
    BY <1>1, RowOfLead
  <2>. QED BY <1>1, <2>1 DEF Aside
<1>2. ASSUME NEW l \in Leads, NEW u \in Buyers, Route(l, u) PROVE Typed' /\ Aside
  <2>. DEFINE r == [lead[l] EXCEPT !.assignedTo = u]
  <2>1. lead' = [lead EXCEPT ![l] = r] /\ UNCHANGED << orders, sub, call, stale, overtaken >>
    BY <1>2 DEF Route
  <2>2. /\ r \in LeadRow /\ r.listed = lead[l].listed /\ r.sold = lead[l].sold
        /\ r.purchasedBy = lead[l].purchasedBy
    BY DEF LeadRow
  <2>. HIDE DEF r
  <2>. QED BY <1>1, <2>1, <2>2
<1>3. ASSUME NEW l \in Leads, RemoveLead(l) PROVE Typed' /\ Aside
  <2>. DEFINE r == [lead[l] EXCEPT !.removed = TRUE]
  <2>1. lead' = [lead EXCEPT ![l] = r] /\ UNCHANGED << orders, sub, call, stale, overtaken >>
    BY <1>3 DEF RemoveLead
  <2>2. /\ r \in LeadRow /\ r.listed = lead[l].listed /\ r.sold = lead[l].sold
        /\ r.purchasedBy = lead[l].purchasedBy
    BY DEF LeadRow
  <2>. HIDE DEF r
  <2>. QED BY <1>1, <2>1, <2>2
<1>4. ASSUME NEW l \in Leads, DncRecheck(l) PROVE Typed' /\ Aside
  <2>. DEFINE r == [lead[l] EXCEPT !.dncFlagged = ~@]
  <2>1. lead' = [lead EXCEPT ![l] = r] /\ UNCHANGED << orders, sub, call, stale, overtaken >>
    BY <1>4 DEF DncRecheck
  <2>2. /\ r \in LeadRow /\ r.listed = lead[l].listed /\ r.sold = lead[l].sold
        /\ r.purchasedBy = lead[l].purchasedBy
    BY DEF LeadRow
  <2>. HIDE DEF r
  <2>. QED BY <1>1, <2>1, <2>2
<1>. DEFINE SubRow == [status : {"none", "active", "cancelled"}, delivered : Nat, due : BOOLEAN]
<1>5. ASSUME NEW s \in Subs, NEW r \in SubRow, sub' = [sub EXCEPT ![s] = r],
             r.delivered \in {sub[s].delivered, 0}, stale' \subseteq stale,
             UNCHANGED << lead, orders, call, overtaken >>
      PROVE  Typed' /\ Aside
  <2>1. sub' \in [Subs -> SubRow] /\ \A t \in Subs : t # s => sub'[t] = sub[t] BY <1>5
  <2>2. sub'[s] = r BY <1>5
  <2>. QED BY <1>5, <2>1, <2>2 DEF Aside
<1>6. ASSUME NEW s \in Subs, CreateSubscription(s) PROVE Typed' /\ Aside
  <2>. DEFINE r == [sub[s] EXCEPT !.status = "active"]
  <2>1. sub' = [sub EXCEPT ![s] = r] /\ UNCHANGED << lead, orders, call, stale, overtaken >>
    BY <1>6 DEF CreateSubscription
  <2>2. r \in SubRow /\ r.delivered = sub[s].delivered OBVIOUS
  <2>. HIDE DEF r, SubRow
  <2>. QED BY <1>5, <2>1, <2>2
<1>7. ASSUME NEW s \in Subs, CancelSubscription(s) PROVE Typed' /\ Aside
  <2>. DEFINE r == [sub[s] EXCEPT !.status = "cancelled"]
  <2>1. sub' = [sub EXCEPT ![s] = r] /\ UNCHANGED << lead, orders, call, stale, overtaken >>
    BY <1>7 DEF CancelSubscription
  <2>2. r \in SubRow /\ r.delivered = sub[s].delivered OBVIOUS
  <2>. HIDE DEF r, SubRow
  <2>. QED BY <1>5, <2>1, <2>2
<1>8. ASSUME NEW s \in Subs, CycleElapses(s) PROVE Typed' /\ Aside
  <2>. DEFINE r == [sub[s] EXCEPT !.due = TRUE]
  <2>1. sub' = [sub EXCEPT ![s] = r] /\ UNCHANGED << lead, orders, call, stale, overtaken >>
    BY <1>8 DEF CycleElapses
  <2>2. r \in SubRow /\ r.delivered = sub[s].delivered OBVIOUS
  <2>. HIDE DEF r, SubRow
  <2>. QED BY <1>5, <2>1, <2>2
<1>9. ASSUME NEW s \in Subs, ResetCycle(s) PROVE Typed' /\ Aside
  <2>. DEFINE r == Rolled(s)
  <2>1. /\ sub' = [sub EXCEPT ![s] = r] /\ stale' \subseteq stale
        /\ UNCHANGED << lead, orders, call, overtaken >>
    BY <1>9 DEF ResetCycle
  <2>2. r \in SubRow /\ r.delivered = 0 BY DEF Rolled
  <2>. HIDE DEF r, SubRow
  <2>. QED BY <1>5, <2>1, <2>2
<1>10. ASSUME stale' \subseteq Subs, UNCHANGED << lead, orders, sub, call, overtaken >>
       PROVE  Typed' /\ Aside
  BY <1>10 DEF Aside
<1>11. ASSUME SelectStale \/ ResetDies \/ UNCHANGED vars PROVE Typed' /\ Aside
  BY <1>10, <1>11 DEF SelectStale, ResetDies, vars
<1>. QED BY <1>2, <1>3, <1>4, <1>6, <1>7, <1>8, <1>9, <1>11

\* Every step is of one of these kinds.
LEMMA SmartMatchEffects ==
  ASSUME Typed, FreshCall, [Next]_vars
  PROVE  /\ Typed'
         /\ \/ Aside
            \/ \E l \in Leads : CallBegins(l)
            \/ \E l \in Leads : \E r : CallMoves(l, r)
            \/ \E l \in Leads : \E s : Delivers(l, s)
            \/ \E l \in Leads, u \in Buyers : Buys(l, u)
BY CallEffects, SaleEffects, AsideEffects DEF Next

-------------------------------------------------------------------------------
(* Sales.                                                                    *)

\* A sale to u adds an order, of a kind that the lead did not have.
LEMMA SaleKeepsOrders ==
  ASSUME Typed, NoHalfDelivery, NEW l \in Leads, NEW u, NEW status, Sells(l, u, status),
         \A o \in orders : o.lead = l => o.status # status
  PROVE  NoHalfDelivery'
<1>. DEFINE n == [lead |-> l, user |-> u, status |-> status]
<1>1. /\ orders' = orders \cup {n} /\ n.lead = l /\ n.user = u /\ n.status = status
      /\ \A k \in Leads : k # l => /\ lead'[k].sold = lead[k].sold
                                   /\ lead'[k].purchasedBy = lead[k].purchasedBy
      /\ lead'[l].sold /\ lead'[l].purchasedBy = u
  BY DEF Sells
<1>. HIDE DEF n
<1>2. ASSUME NEW k \in Leads PROVE lead'[k].sold <=> \E o \in orders' : o.lead = k
  BY <1>1 DEF NoHalfDelivery
<1>3. ASSUME NEW k \in Leads, lead'[k].sold
      PROVE  \E o \in orders' : o.lead = k /\ o.user = lead'[k].purchasedBy
  BY <1>1, <1>3 DEF NoHalfDelivery
<1>4. ASSUME NEW k \in Leads, NEW o \in orders', NEW q \in orders',
             o.lead = k, q.lead = k, o.status = q.status
      PROVE  o = q
  BY <1>1, <1>4 DEF NoHalfDelivery
<1>. QED BY <1>2, <1>3, <1>4 DEF NoHalfDelivery

LEMMA SalesStep ==
  ASSUME Typed, SalesInv, [Next]_vars
  PROVE  SalesInv'
<1>. USE DEF SalesInv
<1>0. Typed' BY SmartMatchEffects
<1>1. \A o \in orders : o.lead \in Leads BY DEF Typed
<1>2. CASE Aside
  <2>1. NoHalfDelivery' BY <1>2 DEF Aside, NoHalfDelivery
  <2>. QED
    BY <1>2, <2>1
    DEF Aside, FreshCall, DeliveredOnce, OrderOvertakes, SoldTwiceOnlyWhenOvertaken
<1>3. ASSUME NEW l \in Leads, CallBegins(l) PROVE SalesInv'
  <2>1. /\ call[l].pc = "none" /\ call'[l].pc = "read" /\ lead'[l].listed
        /\ \A k \in Leads : /\ k # l => lead'[k].listed = lead[k].listed /\ call'[k] = call[k]
                            /\ lead'[k].sold = lead[k].sold
                            /\ lead'[k].purchasedBy = lead[k].purchasedBy
        /\ UNCHANGED << orders, overtaken >>
    BY <1>3 DEF CallBegins, FreshCall
  <2>2. FreshCall' BY <2>1 DEF FreshCall
  <2>3. DeliveredOnce' BY <1>1, <2>1 DEF DeliveredOnce
  <2>4. OrderOvertakes' BY <1>1, <2>1 DEF OrderOvertakes
  <2>5. NoHalfDelivery' BY <2>1 DEF NoHalfDelivery
  <2>6. SoldTwiceOnlyWhenOvertaken' BY <2>1 DEF SoldTwiceOnlyWhenOvertaken
  <2>. QED BY <2>2, <2>3, <2>4, <2>5, <2>6
<1>4. ASSUME NEW l \in Leads, NEW r, CallMoves(l, r) PROVE SalesInv'
  <2>1. /\ \A k \in Leads : k # l => call'[k] = call[k]
        /\ call'[l] = r /\ call[l].pc \in {"read", "list", "deliver"}
        /\ UNCHANGED << lead, orders, overtaken >>
    BY <1>4 DEF CallMoves
  <2>2. FreshCall' BY <2>1 DEF FreshCall
  <2>3. DeliveredOnce' BY <1>1, <2>1 DEF DeliveredOnce
  <2>4. OrderOvertakes'
    <3>1. ASSUME NEW o \in orders, o.lead = l, r.pc \in {"list", "deliver"} PROVE l \in overtaken
      <4>1. lead[l].sold BY <3>1 DEF NoHalfDelivery
      <4>2. call[l].pc = "list" BY <1>4, <3>1, <4>1 DEF CallMoves
      <4>. QED BY <3>1, <4>2 DEF OrderOvertakes
    <3>. QED BY <1>1, <2>1, <3>1 DEF OrderOvertakes
  <2>5. NoHalfDelivery' BY <2>1 DEF NoHalfDelivery
  <2>6. SoldTwiceOnlyWhenOvertaken' BY <2>1 DEF SoldTwiceOnlyWhenOvertaken
  <2>. QED BY <2>2, <2>3, <2>4, <2>5, <2>6
<1>5. ASSUME NEW l \in Leads, NEW s, Delivers(l, s) PROVE SalesInv'
  <2>. DEFINE n == [lead |-> l, user |-> AgentOf[s], status |-> "completed_smartmatch"]
  <2>1. /\ orders' = orders \cup {n} /\ n.lead = l /\ n.status = "completed_smartmatch"
        /\ \A k \in Leads : lead'[k].listed = lead[k].listed
        /\ call[l].pc = "deliver" /\ call'[l].pc = "done"
        /\ \A k \in Leads : k # l => call'[k] = call[k]
        /\ UNCHANGED overtaken
    BY <1>5 DEF Delivers, Sells, Ended
  <2>. HIDE DEF n
  <2>2. FreshCall' BY <2>1 DEF FreshCall
  <2>3. DeliveredOnce' BY <1>1, <2>1 DEF DeliveredOnce
  <2>4. OrderOvertakes' BY <1>1, <2>1 DEF OrderOvertakes
  <2>5. NoHalfDelivery'
    <3>1. \A o \in orders : o.lead = l => o.status # "completed_smartmatch"
      BY <2>1 DEF DeliveredOnce
    <3>. QED BY <1>5, <3>1, SaleKeepsOrders DEF Delivers
  <2>6. SoldTwiceOnlyWhenOvertaken'
    <3>1. \A o \in orders : o.lead = l => l \in overtaken BY <2>1 DEF OrderOvertakes
    <3>. QED BY <2>1, <3>1 DEF SoldTwiceOnlyWhenOvertaken
  <2>. QED BY <2>2, <2>3, <2>4, <2>5, <2>6
<1>6. ASSUME NEW l \in Leads, NEW u \in Buyers, Buys(l, u) PROVE SalesInv'
  <2>. DEFINE n == [lead |-> l, user |-> u, status |-> "completed"]
  <2>1. /\ orders' = orders \cup {n} /\ n.lead = l /\ n.status = "completed"
        /\ \A k \in Leads : lead'[k].listed = lead[k].listed
        /\ ~lead[l].sold /\ UNCHANGED call
        /\ overtaken \subseteq overtaken'
        /\ call[l].pc \in {"list", "deliver"} => l \in overtaken'
    BY <1>6 DEF Buys, Sells
  <2>. HIDE DEF n
  <2>2. \A o \in orders : o.lead # l BY <2>1 DEF NoHalfDelivery
  <2>3. FreshCall' BY <2>1 DEF FreshCall
  <2>4. DeliveredOnce' BY <2>1 DEF DeliveredOnce
  <2>5. OrderOvertakes' BY <2>1 DEF OrderOvertakes
  <2>6. NoHalfDelivery' BY <1>6, <2>2, SaleKeepsOrders DEF Buys
  <2>7. SoldTwiceOnlyWhenOvertaken' BY <2>1, <2>2 DEF SoldTwiceOnlyWhenOvertaken
  <2>. QED BY <2>3, <2>4, <2>5, <2>6, <2>7
<1>. QED BY <1>2, <1>3, <1>4, <1>5, <1>6, SmartMatchEffects

-------------------------------------------------------------------------------
(* Quotas.                                                                   *)

\* The deliveries of a subscription are some of the deliveries.
LEMMA InFlightCounted ==
  ASSUME NEW s
  PROVE  /\ IsFiniteSet(Running) /\ IsFiniteSet(InFlight(s))
         /\ Cardinality(Running) \in Nat /\ Cardinality(InFlight(s)) \in Nat
         /\ Cardinality(InFlight(s)) <= Cardinality(Running)
<1>1. InFlight(s) \subseteq Running /\ Running \subseteq Leads BY DEF InFlight, Running
<1>2. IsFiniteSet(Running) BY <1>1, FS_Subset, SmartMatchAssumption
<1>3. IsFiniteSet(InFlight(s)) /\ Cardinality(InFlight(s)) <= Cardinality(Running)
  BY <1>1, <1>2, FS_Subset
<1>. QED BY <1>2, <1>3, FS_CardinalityType

\* So they are at most MaxIngests, and a step that ends some leaves no more.
LEMMA InFlightBounded ==
  ASSUME RunningBounded, NEW s
  PROVE  /\ Cardinality(InFlight(s)) <= MaxIngests
         /\ \A S : S \subseteq InFlight(s) =>
              Cardinality(S) \in Nat /\ Cardinality(S) <= Cardinality(InFlight(s))
<1>1. Cardinality(InFlight(s)) <= MaxIngests
  BY InFlightCounted, SmartMatchAssumption DEF RunningBounded
<1>2. ASSUME NEW S, S \subseteq InFlight(s)
      PROVE  Cardinality(S) \in Nat /\ Cardinality(S) <= Cardinality(InFlight(s))
  BY <1>2, InFlightCounted, FS_Subset, FS_CardinalityType
<1>. QED BY <1>1, <1>2

LEMMA QuotaStep ==
  ASSUME Typed, FreshCall, QuotaInv, [Next]_vars
  PROVE  QuotaInv'
<1>. USE DEF QuotaInv
<1>0. /\ \A s \in Subs : sub[s].delivered \in Nat /\ Quota[s] \in Nat
      /\ \A s \in Subs : sub'[s].delivered \in Nat
      /\ MaxIngests \in Nat \ {0} /\ IsFiniteSet(Running) /\ Cardinality(Running) \in Nat
      /\ \A s : Cardinality(InFlight(s)) \in Nat
      /\ Typed'
  BY SmartMatchEffects, InFlightCounted, SmartMatchAssumption DEF Typed
<1>1. \A s \in Subs :
        sub[s].delivered + Cardinality(InFlight(s)) <= Quota[s] + MaxIngests - 1
  BY DEF QuotaOvershootBounded
<1>2. ASSUME Running' \subseteq Running PROVE RunningBounded'
  <2>1. Cardinality(Running') <= Cardinality(Running) /\ IsFiniteSet(Running')
    BY <1>0, <1>2, FS_Subset
  <2>2. Cardinality(Running') \in Nat BY <2>1, FS_CardinalityType
  <2>3. Cardinality(Running') <= MaxIngests BY <1>0, <2>1, <2>2 DEF RunningBounded
  <2>. QED BY <2>3 DEF RunningBounded
<1>3. ASSUME NEW s \in Subs, InFlight(s)' \subseteq InFlight(s),
             sub'[s].delivered = sub[s].delivered
      PROVE  sub'[s].delivered + Cardinality(InFlight(s)') <= Quota[s] + MaxIngests - 1
  <2>. DEFINE a == Cardinality(InFlight(s)')
              b == Cardinality(InFlight(s))
  <2>1. a \in Nat /\ b \in Nat /\ a <= b BY <1>0, <1>3, InFlightBounded
  <2>2. sub[s].delivered + b <= Quota[s] + MaxIngests - 1 BY <1>1
  <2>. HIDE DEF a, b
  <2>3. sub'[s].delivered + a <= Quota[s] + MaxIngests - 1 BY <1>0, <1>3, <2>1, <2>2
  <2>. QED BY <2>3 DEF a
<1>4. CASE Aside
  <2>1. Running' = Running /\ (\A s : InFlight(s)' = InFlight(s)) /\ call' = call
    BY <1>4 DEF Aside, Running, InFlight
  <2>2. WinnerHasQuota' BY <2>1 DEF WinnerHasQuota
  <2>3. ASSUME NEW s \in Subs
        PROVE  sub'[s].delivered + Cardinality(InFlight(s)') <= Quota[s] + MaxIngests - 1
    <3>1. CASE sub'[s].delivered = sub[s].delivered BY <1>3, <2>1, <3>1
    <3>2. CASE sub'[s].delivered = 0 /\ InFlight(s) = {}
      <4>1. Cardinality(InFlight(s)') = 0 BY <2>1, <3>2, FS_EmptySet
      <4>. QED BY <1>0, <3>2, <4>1
    <3>3. CASE sub'[s].delivered = 0 /\ InFlight(s) # {}
      <4>1. Quota[s] > 0 BY <3>3 DEF WinnerHasQuota, InFlight
      <4>2. Cardinality(InFlight(s)') <= MaxIngests BY <2>1, InFlightBounded
      <4>3. Cardinality(InFlight(s)') \in Nat BY <1>0, <2>1
      <4>. QED BY <1>0, <3>3, <4>1, <4>2, <4>3
    <3>. QED BY <1>4, <3>1, <3>2, <3>3 DEF Aside
  <2>4. QuotaOvershootBounded' BY <2>3 DEF QuotaOvershootBounded
  <2>. QED BY <1>2, <2>1, <2>2, <2>4
<1>5. ASSUME NEW l \in Leads, CallBegins(l) PROVE QuotaInv'
  <2>1. /\ call'[l].pc = "read" /\ \A k \in Leads : k # l => call'[k] = call[k]
        /\ UNCHANGED sub /\ Cardinality(Running) < MaxIngests
    BY <1>5 DEF CallBegins
  <2>2. Running' \subseteq Running \cup {l} BY <2>1 DEF Running
  <2>3. \A s \in Subs : InFlight(s)' \subseteq InFlight(s) BY <2>1 DEF InFlight
  <2>4. RunningBounded'
    <3>1. /\ IsFiniteSet(Running \cup {l})
          /\ Cardinality(Running \cup {l}) <= Cardinality(Running) + 1
      <4>1. IsFiniteSet(Running) /\ Cardinality(Running) \in Nat BY <1>0
      <4>2. Cardinality(Running \cup {l}) \in {Cardinality(Running), Cardinality(Running) + 1}
        BY <4>1, FS_AddElement
      <4>3. IsFiniteSet(Running \cup {l}) BY <4>1, FS_AddElement
      <4>. HIDE DEF Running
      <4>. QED BY <4>1, <4>2, <4>3
    <3>2. Cardinality(Running') <= Cardinality(Running \cup {l}) /\ IsFiniteSet(Running')
      BY <2>2, <3>1, FS_Subset
    <3>3. Cardinality(Running') \in Nat /\ Cardinality(Running \cup {l}) \in Nat
      BY <3>1, <3>2, FS_CardinalityType
    <3>4. Cardinality(Running') <= MaxIngests BY <1>0, <2>1, <3>1, <3>2, <3>3
    <3>. QED BY <3>4 DEF RunningBounded
  <2>5. WinnerHasQuota' BY <2>1 DEF WinnerHasQuota
  <2>6. \A s \in Subs : sub'[s].delivered + Cardinality(InFlight(s)') <= Quota[s] + MaxIngests - 1
    BY <1>3, <2>1, <2>3
  <2>7. QuotaOvershootBounded' BY <2>6 DEF QuotaOvershootBounded
  <2>. QED BY <2>4, <2>5, <2>7
<1>6. ASSUME NEW l \in Leads, NEW r, CallMoves(l, r) PROVE QuotaInv'
  <2>1. /\ \A k \in Leads : k # l => call'[k] = call[k]
        /\ call'[l] = r /\ call[l].pc \in {"read", "list", "deliver"} /\ UNCHANGED sub
    BY <1>6 DEF CallMoves
  <2>2. r.pc = "deliver" => r.winner \in Subs /\ sub[r.winner].delivered < Quota[r.winner]
    BY <1>6 DEF CallMoves
  <2>3. Running' \subseteq Running BY <2>1 DEF Running
  <2>4. RunningBounded' BY <1>2, <2>3
  <2>5. WinnerHasQuota'
    <3>1. r.pc = "deliver" => Quota[r.winner] > 0 BY <1>0, <2>2
    <3>. QED BY <2>1, <3>1 DEF WinnerHasQuota
  <2>6. ASSUME NEW s \in Subs
        PROVE  sub'[s].delivered + Cardinality(InFlight(s)') <= Quota[s] + MaxIngests - 1
    <3>1. CASE r.pc = "deliver" /\ r.winner = s
      <4>. DEFINE a == Cardinality(InFlight(s)')
      <4>1. InFlight(s)' \subseteq Running BY <2>1 DEF InFlight, Running
      <4>2. a <= Cardinality(Running) /\ IsFiniteSet(InFlight(s)') BY <1>0, <4>1, FS_Subset
      <4>3. a \in Nat BY <4>2, FS_CardinalityType
      <4>. HIDE DEF a
      <4>4. sub'[s].delivered + a <= Quota[s] + MaxIngests - 1
        BY <1>0, <2>1, <2>2, <3>1, <4>2, <4>3 DEF RunningBounded
      <4>. QED BY <4>4 DEF a
    <3>2. CASE ~(r.pc = "deliver" /\ r.winner = s)
      <4>1. InFlight(s)' \subseteq InFlight(s) BY <2>1, <3>2 DEF InFlight
      <4>. QED BY <1>3, <2>1, <4>1
    <3>. QED BY <3>1, <3>2
  <2>7. QuotaOvershootBounded' BY <2>6 DEF QuotaOvershootBounded
  <2>. QED BY <2>4, <2>5, <2>7
<1>7. ASSUME NEW l \in Leads, NEW s, Delivers(l, s) PROVE QuotaInv'
  <2>1. /\ s \in Subs /\ call[l].pc = "deliver" /\ call[l].winner = s
        /\ \A k \in Leads : k # l => call'[k] = call[k]
        /\ call'[l].pc = "done"
        /\ \A t \in Subs : sub'[t].delivered = sub[t].delivered + (IF t = s THEN 1 ELSE 0)
    BY <1>7 DEF Delivers, Ended
  <2>2. Running' \subseteq Running BY <2>1 DEF Running
  <2>3. RunningBounded' BY <1>2, <2>2
  <2>4. WinnerHasQuota' BY <2>1 DEF WinnerHasQuota
  <2>5. ASSUME NEW t \in Subs
        PROVE  sub'[t].delivered + Cardinality(InFlight(t)') <= Quota[t] + MaxIngests - 1
    <3>1. CASE t = s
      <4>. DEFINE a == Cardinality(InFlight(s)')
                  b == Cardinality(InFlight(s))
      <4>1. InFlight(s)' = InFlight(s) \ {l} /\ l \in InFlight(s) BY <2>1 DEF InFlight
      <4>2. IsFiniteSet(InFlight(s)) BY InFlightCounted
      <4>3. a = b - 1 BY <4>1, <4>2, FS_RemoveElement
      <4>4. b \in Nat BY <1>0
      <4>5. sub[s].delivered + b <= Quota[s] + MaxIngests - 1 BY <1>1, <2>1
      <4>6. sub'[s].delivered = sub[s].delivered + 1 BY <2>1
      <4>. HIDE DEF a, b
      <4>7. sub'[s].delivered + a <= Quota[s] + MaxIngests - 1
        BY <1>0, <2>1, <4>3, <4>4, <4>5, <4>6
      <4>. QED BY <3>1, <4>7 DEF a
    <3>2. CASE t # s
      <4>1. InFlight(t)' \subseteq InFlight(t) BY <2>1 DEF InFlight
      <4>2. sub'[t].delivered = sub[t].delivered BY <1>0, <2>1, <3>2
      <4>. QED BY <1>3, <4>1, <4>2
    <3>. QED BY <3>1, <3>2
  <2>6. QuotaOvershootBounded' BY <2>5 DEF QuotaOvershootBounded
  <2>. QED BY <2>3, <2>4, <2>6
<1>8. ASSUME NEW l \in Leads, NEW u \in Buyers, Buys(l, u) PROVE QuotaInv'
  <2>1. UNCHANGED << call, sub >> BY <1>8 DEF Buys
  <2>. QED
    BY <2>1
    DEF WinnerHasQuota, RunningBounded, QuotaOvershootBounded, Running, InFlight
<1>. HIDE DEF QuotaInv
<1>. QED BY <1>4, <1>5, <1>6, <1>7, <1>8, SmartMatchEffects

-------------------------------------------------------------------------------
(* The theorems.                                                             *)

SmartMatchInv == Typed /\ SalesInv /\ QuotaInv

LEMMA SmartMatchInvariant == Spec => []SmartMatchInv
<1>1. Init => SmartMatchInv
  <2>. SUFFICES ASSUME Init PROVE SmartMatchInv OBVIOUS
  <2>1. Typed
    BY SmartMatchAssumption DEF Init, Typed, LeadRow, CallRecord, CallOK
  <2>2. SalesInv
    BY DEF Init, SalesInv, FreshCall, DeliveredOnce, OrderOvertakes, NoHalfDelivery,
           SoldTwiceOnlyWhenOvertaken
  <2>3. Running = {} /\ \A s : InFlight(s) = {} BY DEF Init, Running, InFlight
  <2>4. Cardinality({}) = 0 BY FS_EmptySet
  <2>5. WinnerHasQuota BY DEF Init, WinnerHasQuota
  <2>6. RunningBounded BY <2>3, <2>4, SmartMatchAssumption DEF RunningBounded
  <2>7. ASSUME NEW s \in Subs
        PROVE  sub[s].delivered + Cardinality(InFlight(s)) <= Quota[s] + MaxIngests - 1
    <3>1. sub[s].delivered = 0 /\ Cardinality(InFlight(s)) = 0 BY <2>3, <2>4 DEF Init
    <3>2. Quota[s] \in Nat /\ MaxIngests \in Nat \ {0} BY SmartMatchAssumption
    <3>. QED BY <3>1, <3>2
  <2>. QED BY <2>1, <2>2, <2>5, <2>6, <2>7 DEF SmartMatchInv, QuotaInv, QuotaOvershootBounded
<1>2. SmartMatchInv /\ [Next]_vars => SmartMatchInv'
  <2>. SUFFICES ASSUME SmartMatchInv, [Next]_vars PROVE SmartMatchInv' OBVIOUS
  <2>1. Typed /\ SalesInv /\ QuotaInv /\ FreshCall BY DEF SmartMatchInv, SalesInv
  <2>. QED BY <2>1, SmartMatchEffects, SalesStep, QuotaStep DEF SmartMatchInv
<1>. QED BY <1>1, <1>2, PTL DEF Spec

\* Every variable of Smart Match keeps its type, and a delivery that is about to write
\* has picked a subscription whose filter the lead satisfies.
THEOREM SmartMatchTypeCorrect == Spec => []TypeOK
<1>1. SmartMatchInv => TypeOK BY DEF SmartMatchInv, Typed, TypeOK, CallRecord, CallOK
<1>. QED BY <1>1, SmartMatchInvariant, PTL

\* A lead is off the market exactly when it has an order, its buyer is one of those who
\* have, and no order is repeated: the three writes of a delivery never leak in part.
THEOREM SmartMatchIsWhole == Spec => []NoHalfDelivery
<1>1. SmartMatchInv => NoHalfDelivery BY DEF SmartMatchInv, SalesInv
<1>. QED BY <1>1, SmartMatchInvariant, PTL

\* A lead is sold twice only if the marketplace sold it after the delivery had read it.
THEOREM SmartMatchSellsTwiceOnlyOvertaken == Spec => []SoldTwiceOnlyWhenOvertaken
<1>1. SmartMatchInv => SoldTwiceOnlyWhenOvertaken BY DEF SmartMatchInv, SalesInv
<1>. QED BY <1>1, SmartMatchInvariant, PTL

\* However many deliveries run at a time, the quota of a subscription is passed by fewer
\* than that, in every cycle.
THEOREM SmartMatchOvershootBounded == Spec => []QuotaOvershootBounded
<1>1. SmartMatchInv => QuotaOvershootBounded BY DEF SmartMatchInv, QuotaInv
<1>. QED BY <1>1, SmartMatchInvariant, PTL

================================================================================
