----------------------------- MODULE LeadMarketProofs ----------------------------
(*****************************************************************************)
(* Proofs about LeadMarket, OutcomeReports and PurchaseLocks, for any users, *)
(* leads, vendors and orgs, any prices and any revenue share.  In five       *)
(* parts: types and ownership, the dispute ledger, the books, the reports of *)
(* outcomes, and the row locks of PurchaseLocks.                             *)
(*****************************************************************************)
EXTENDS OutcomeReports, PurchaseLocks, SumProofs

-------------------------------------------------------------------------------
(* The arithmetic of the revenue share.                                      *)

\* The vendor's share of a price is a number of cents.
LEMMA VendorCentsNat ==
  ASSUME NEW cents \in Nat
  PROVE  VendorCents(cents) \in Nat
<1>1. cents * ShareNum \in Nat BY ShareAssumption
<1>2. ShareDen \in Nat /\ ShareDen > 0 BY ShareAssumption
<1>. DEFINE x == cents * ShareNum
<1>. HIDE DEF x
<1>3. x \in Nat => x \div ShareDen \in Nat BY <1>2
<1>. QED BY <1>1, <1>3 DEF VendorCents, x

\* A refund is between 0 and the price of its order.
LEMMA ClampRefundBounds ==
  ASSUME NEW requested \in Nat, NEW price \in Nat
  PROVE  /\ ClampRefundCents(requested, price) \in Nat
         /\ ClampRefundCents(requested, price) <= price
BY DEF ClampRefundCents

-------------------------------------------------------------------------------
(* Batches.                                                                  *)

\* A batch: a sequence of leads, not empty, each lead at most once.
IsBatch(batch) ==
  /\ batch \in Seq(Leads)
  /\ Len(batch) >= 1
  /\ \A i, j \in 1..Len(batch) : batch[i] = batch[j] => i = j

\* Ascending ids do not repeat, so what purchaseLeads makes of a request is a batch.
LEMMA BatchFacts ==
  ASSUME NEW batch \in Batches
  PROVE  IsBatch(batch)
<1>1. PICK n \in 1..MaxBatch : batch \in [1..n -> Leads]
  BY DEF Batches
<1>2. n \in Nat /\ n >= 1 BY <1>1, MarketAssumption
<1>3. batch \in Seq(Leads) /\ Len(batch) = n BY <1>1, <1>2
<1>4. \A i \in 1..(n - 1) : batch[i] < batch[i + 1] BY <1>3 DEF Batches
<1>5. \A i \in 1..n : batch[i] \in Nat BY <1>1, MarketAssumption
<1>6. ASSUME NEW i \in 1..n, NEW j \in 1..n, i < j PROVE batch[i] < batch[j]
  <2>. DEFINE T == {k \in Nat : i + (k + 1) <= n => batch[i] < batch[i + (k + 1)]}
  <2>1. 0 \in T BY <1>2, <1>4
  <2>2. ASSUME NEW k \in Nat, k \in T PROVE k + 1 \in T
    <3>1. SUFFICES ASSUME i + ((k + 1) + 1) <= n PROVE batch[i] < batch[i + ((k + 1) + 1)]
      OBVIOUS
    <3>. DEFINE m == i + (k + 1)
    <3>2. m \in 1..(n - 1) /\ m + 1 = i + ((k + 1) + 1) /\ m + 1 \in 1..n
      BY <1>2, <3>1
    <3>3. batch[i] < batch[m] BY <2>2, <1>2, <3>1
    <3>. HIDE DEF m
    <3>4. batch[m] < batch[m + 1] BY <1>4, <3>2
    <3>5. batch[m] \in Nat /\ batch[i] \in Nat /\ batch[m + 1] \in Nat
      BY <1>2, <1>5, <3>2
    <3>. QED BY <3>2, <3>3, <3>4, <3>5
  <2>. HIDE DEF T
  <2>3. Nat \subseteq T BY <2>1, <2>2, Induction
  <2>. DEFINE k == j - i - 1
  <2>4. k \in Nat /\ i + (k + 1) = j /\ j <= n BY <1>2, <1>6
  <2>. HIDE DEF k
  <2>. QED BY <2>3, <2>4 DEF T
<1>7. \A i, j \in 1..n : batch[i] = batch[j] => i = j
  <2>. SUFFICES ASSUME NEW i \in 1..n, NEW j \in 1..n, i # j PROVE batch[i] # batch[j]
    OBVIOUS
  <2>1. i < j \/ j < i BY <1>2
  <2>. QED BY <1>5, <1>6, <2>1
<1>. QED BY <1>2, <1>3, <1>7 DEF IsBatch

\* A single purchase is a batch of one.
LEMMA SingleBatch ==
  ASSUME NEW l \in Leads
  PROVE  IsBatch(<< l >>)
BY DEF IsBatch

\* Every entry of a batch is a lead, with a price and a vendor.
LEMMA BatchRows ==
  ASSUME NEW batch, IsBatch(batch)
  PROVE  /\ Len(batch) \in Nat
         /\ \A i \in 1..Len(batch) : /\ batch[i] \in Leads
                                    /\ Price[batch[i]] \in Nat
                                    /\ VendorOf[batch[i]] \in Vendors
<1>1. batch \in Seq(Leads) BY DEF IsBatch
<1>2. Len(batch) \in Nat BY <1>1
<1>3. \A i \in 1..Len(batch) : batch[i] \in Leads BY <1>1
<1>. QED BY <1>2, <1>3, MarketAssumption

\* The wallet is debited a number of cents.
LEMMA BatchPriceNat ==
  ASSUME NEW batch, IsBatch(batch)
  PROVE  BatchPrice(batch) \in Nat
<1>. DEFINE s == [i \in 1..Len(batch) |-> Price[batch[i]]]
<1>1. s \in Seq(Nat)
  <2>1. Len(batch) \in Nat /\ \A i \in 1..Len(batch) : Price[batch[i]] \in Nat
    BY BatchRows
  <2>. QED BY <2>1
<1>. HIDE DEF s
<1>2. Total(s) \in Nat BY <1>1, TotalNat
<1>. QED BY <1>2 DEF BatchPrice, s

\* A vendor is credited a number of cents.
LEMMA BatchCreditNat ==
  ASSUME NEW batch, IsBatch(batch), NEW v
  PROVE  BatchCredit(batch, v) \in Nat
<1>. DEFINE s == [i \in 1..Len(batch) |->
                    IF VendorOf[batch[i]] = v THEN VendorCents(Price[batch[i]]) ELSE 0]
<1>1. s \in Seq(Nat)
  <2>1. Len(batch) \in Nat /\ \A i \in 1..Len(batch) : Price[batch[i]] \in Nat
    BY BatchRows
  <2>2. \A i \in 1..Len(batch) : VendorCents(Price[batch[i]]) \in Nat
    BY <2>1, VendorCentsNat
  <2>. QED BY <2>1, <2>2
<1>. HIDE DEF s
<1>2. Total(s) \in Nat BY <1>1, TotalNat
<1>. QED BY <1>2 DEF BatchCredit, s

-------------------------------------------------------------------------------
(* Type correctness.                                                         *)

\* An entry of a typed sequence.
LEMMA EntryTyped ==
  ASSUME NEW S, NEW s \in Seq(S), NEW i \in 1..Len(s)
  PROVE  s[i] \in S
OBVIOUS

\* Two typed sequences make one typed sequence.
LEMMA ConcatTyped ==
  ASSUME NEW S, NEW s \in Seq(S), NEW t \in Seq(S)
  PROVE  s \o t \in Seq(S) /\ Len(s \o t) = Len(s) + Len(t)
OBVIOUS

\* The entries of two sequences put together.
LEMMA ConcatEntries ==
  ASSUME NEW S, NEW s \in Seq(S), NEW t \in Seq(S)
  PROVE  /\ \A i \in 1..Len(s) : (s \o t)[i] = s[i]
         /\ \A i \in 1..Len(t) : (s \o t)[Len(s) + i] = t[i]
OBVIOUS

\* A typed sequence with an entry replaced.
LEMMA UpdateTyped ==
  ASSUME NEW S, NEW s \in Seq(S), NEW i \in 1..Len(s), NEW x \in S
  PROVE  [s EXCEPT ![i] = x] \in Seq(S) /\ Len([s EXCEPT ![i] = x]) = Len(s)
OBVIOUS

\* The types hold initially.
LEMMA TypeInit == Init => TypeOK
<1>. SUFFICES ASSUME Init PROVE TypeOK OBVIOUS
<1>1. Len(<< >>) = 0 OBVIOUS
<1>2. /\ vendorBalances \in [Vendors -> BalanceRow] /\ referrals \in [Users -> ReferralSlot]
      /\ leads \in [Leads -> LeadColumns]
  BY DEF Init, BalanceRow, ReferralSlot, LeadColumns
<1>3. /\ balance \in [Users -> Nat] /\ payouts \in [Vendors -> Nat]
      /\ spendCaps \in [Members -> CapValues \cup {NULL}]
      /\ rewardTasks \subseteq Users /\ month \in Nat
  BY DEF Init
<1>4. /\ orders \in Seq(OrderRow) /\ disputes \in Seq(DisputeRow) /\ ledger \in Seq(LedgerRow)
      /\ sessions \in Seq(SessionRow)
      /\ Len(disputes) = Len(orders) /\ Len(ledger) = Len(orders)
  BY <1>1 DEF Init
<1>. QED BY <1>2, <1>3, <1>4 DEF TypeOK

\* A purchase of any batch keeps the types; the wallet it writes is the one it
\* checked.
LEMMA PurchaseKeepsTypes ==
  ASSUME TypeOK, NEW u \in Users, NEW batch, IsBatch(batch), Purchase(u, batch)
  PROVE  TypeOK'
<1>1. balance' \in [Users -> Nat]
  <2>1. balance[u] \in Nat /\ BatchPrice(batch) \in Nat /\ balance[u] >= BatchPrice(batch)
    BY BatchPriceNat DEF TypeOK, Purchase, CanPurchase
  <2>2. balance[u] - BatchPrice(batch) \in Nat BY <2>1
  <2>. QED BY <2>2 DEF TypeOK, Purchase, RecordPurchase
<1>2. leads' \in [Leads -> LeadColumns]
  <2>1. \A l \in Leads : leads[l] \in LeadColumns BY DEF TypeOK
  <2>2. \A l \in Leads : [leads[l] EXCEPT !.sold = TRUE, !.purchasedBy = u] \in LeadColumns
    BY <2>1 DEF LeadColumns
  <2>. QED BY <2>1, <2>2 DEF Purchase, RecordPurchase
<1>. DEFINE newOrders == [i \in 1..Len(batch) |->
                            [userId |-> u, leadId |-> batch[i], price |-> Price[batch[i]],
                             status |-> "completed", month |-> month]]
            newDisputes == [i \in 1..Len(batch) |-> [status |-> "none", refundCents |-> 0]]
            newLedger == [i \in 1..Len(batch) |->
                            [sale |-> VendorCents(Price[batch[i]]), refund |-> 0]]
<1>3. newOrders \in Seq(OrderRow) /\ Len(newOrders) = Len(batch)
  <2>1. \A i \in 1..Len(batch) : newOrders[i] \in OrderRow
    BY BatchRows DEF OrderRow, TypeOK
  <2>. QED BY <2>1, BatchRows
<1>4. newDisputes \in Seq(DisputeRow) /\ Len(newDisputes) = Len(batch)
  BY BatchRows DEF DisputeRow
<1>5. newLedger \in Seq(LedgerRow) /\ Len(newLedger) = Len(batch)
  <2>1. \A i \in 1..Len(batch) : VendorCents(Price[batch[i]]) \in Nat
    BY BatchRows, VendorCentsNat
  <2>. QED BY <2>1, BatchRows DEF LedgerRow
<1>6. /\ orders' = orders \o newOrders
      /\ disputes' = disputes \o newDisputes
      /\ ledger' = ledger \o newLedger
  BY DEF Purchase, RecordPurchase
<1>. HIDE DEF newOrders, newDisputes, newLedger
<1>7. /\ orders' \in Seq(OrderRow)
      /\ disputes' \in Seq(DisputeRow)
      /\ ledger' \in Seq(LedgerRow)
      /\ Len(disputes') = Len(orders') /\ Len(ledger') = Len(orders')
  <2>1. /\ orders \in Seq(OrderRow) /\ disputes \in Seq(DisputeRow)
        /\ ledger \in Seq(LedgerRow)
        /\ Len(disputes) = Len(orders) /\ Len(ledger) = Len(orders)
    BY DEF TypeOK
  <2>2. orders' \in Seq(OrderRow) /\ Len(orders') = Len(orders) + Len(batch)
    BY <1>3, <1>6, <2>1, ConcatTyped
  <2>3. disputes' \in Seq(DisputeRow) /\ Len(disputes') = Len(orders) + Len(batch)
    <3>1. disputes' \in Seq(DisputeRow) /\ Len(disputes') = Len(disputes) + Len(newDisputes)
      BY <1>4, <1>6, <2>1, ConcatTyped
    <3>. QED BY <1>4, <2>1, <3>1
  <2>4. ledger' \in Seq(LedgerRow) /\ Len(ledger') = Len(orders) + Len(batch)
    <3>1. ledger' \in Seq(LedgerRow) /\ Len(ledger') = Len(ledger) + Len(newLedger)
      BY <1>5, <1>6, <2>1, ConcatTyped
    <3>. QED BY <1>5, <2>1, <3>1
  <2>. QED BY <2>2, <2>3, <2>4
<1>8. vendorBalances' \in [Vendors -> BalanceRow]
  <2>1. \A v \in Vendors : BatchCredit(batch, v) \in Nat BY BatchCreditNat
  <2>2. \A v \in Vendors : vendorBalances[v] \in BalanceRow BY DEF TypeOK
  <2>3. \A v \in Vendors :
          [vendorBalances[v] EXCEPT !.pendingCents = @ + BatchCredit(batch, v)] \in BalanceRow
    BY <2>1, <2>2 DEF BalanceRow
  <2>. QED BY <2>3 DEF Purchase, RecordPurchase
<1>9. rewardTasks' \subseteq Users BY DEF TypeOK, Purchase, RecordPurchase
<1>. QED BY <1>1, <1>2, <1>7, <1>8, <1>9 DEF TypeOK, Purchase, RecordPurchase

\* An approval keeps the types: the refund it pays is a number of cents, and
\* planVendorDebit takes from pendingCents only what is there.
LEMMA ApprovalKeepsTypes ==
  ASSUME TypeOK, NEW o \in 1..Len(orders), NEW requested \in Refunds,
         ApproveDispute(o, requested)
  PROVE  TypeOK'
<1>. DEFINE refund == ClampRefundCents(requested, orders[o].price)
            debit == VendorDebit(refund)
            u == orders[o].userId
            v == VendorOf[orders[o].leadId]
<1>1. orders[o] \in OrderRow /\ orders[o].price \in Nat /\ u \in Users /\ v \in Vendors
  <2>1. orders[o] \in OrderRow BY DEF TypeOK
  <2>. QED BY <2>1, MarketAssumption DEF OrderRow
<1>2. refund \in Nat
  <2>1. requested \in Nat BY MarketAssumption
  <2>. QED BY <1>1, <2>1, ClampRefundBounds
<1>3. debit \in Nat BY <1>2, VendorCentsNat DEF VendorDebit
<1>4. /\ disputes' = [disputes EXCEPT ![o] = [status |-> "approved", refundCents |-> refund]]
      /\ balance' = [balance EXCEPT ![u] = balance[u] + refund]
      /\ vendorBalances' = [vendorBalances EXCEPT ![v] =
                              PlanVendorDebit(debit, vendorBalances[v])]
      /\ ledger' = [ledger EXCEPT ![o] = [ledger[o] EXCEPT !.refund = debit]]
      /\ orders' = [orders EXCEPT ![o] = [orders[o] EXCEPT !.status =
                                           StatusAfterRefund(orders[o], refund)]]
      /\ UNCHANGED << leads, payouts, sessions, referrals, rewardTasks, spendCaps, month >>
  BY DEF ApproveDispute, RecordApproval
<1>. HIDE DEF refund, debit, u, v
<1>5. o \in 1..Len(disputes) /\ o \in 1..Len(ledger) BY DEF TypeOK
<1>6. balance' \in [Users -> Nat] BY <1>1, <1>2, <1>4 DEF TypeOK
<1>7. disputes' \in Seq(DisputeRow) /\ Len(disputes') = Len(disputes)
  <2>1. [status |-> "approved", refundCents |-> refund] \in DisputeRow
    BY <1>2 DEF DisputeRow
  <2>. QED BY <1>4, <1>5, <2>1, UpdateTyped DEF TypeOK
<1>8. ledger' \in Seq(LedgerRow) /\ Len(ledger') = Len(ledger)
  <2>1. ledger[o] \in LedgerRow BY <1>5, EntryTyped DEF TypeOK
  <2>2. [ledger[o] EXCEPT !.refund = debit] \in LedgerRow BY <1>3, <2>1 DEF LedgerRow
  <2>. QED BY <1>4, <1>5, <2>2, UpdateTyped DEF TypeOK
<1>9. orders' \in Seq(OrderRow) /\ Len(orders') = Len(orders)
  <2>1. StatusAfterRefund(orders[o], refund) \in {"completed", "refunded"}
    BY <1>1 DEF StatusAfterRefund, OrderRow
  <2>2. [orders[o] EXCEPT !.status = StatusAfterRefund(orders[o], refund)] \in OrderRow
    BY <1>1, <2>1 DEF OrderRow
  <2>. QED BY <1>4, <2>2, UpdateTyped DEF TypeOK
<1>10. vendorBalances' \in [Vendors -> BalanceRow]
  <2>1. vendorBalances[v] \in BalanceRow BY <1>1 DEF TypeOK
  <2>2. PlanVendorDebit(debit, vendorBalances[v]) \in BalanceRow
    <3>. DEFINE b == vendorBalances[v]
    <3>1. b.pendingCents \in Nat /\ b.paidCents \in Int BY <2>1 DEF BalanceRow
    <3>2. CASE debit <= b.pendingCents
      <4>1. b.pendingCents - debit \in Nat BY <1>3, <3>1, <3>2
      <4>. QED BY <2>1, <3>2, <4>1 DEF PlanVendorDebit, BalanceRow
    <3>3. CASE ~(debit <= b.pendingCents)
      <4>1. b.paidCents - (debit - b.pendingCents) \in Int BY <1>3, <3>1
      <4>. QED BY <3>3, <4>1 DEF PlanVendorDebit, BalanceRow
    <3>. QED BY <3>2, <3>3
  <2>. QED BY <1>1, <1>4, <2>2 DEF TypeOK
<1>. QED BY <1>4, <1>6, <1>7, <1>8, <1>9, <1>10 DEF TypeOK

\* A sweep keeps the types.
LEMMA SweepKeepsTypes ==
  ASSUME TypeOK, NEW swept \in SUBSET Vendors, SweepVendorPayouts(swept)
  PROVE  TypeOK'
<1>1. \A v \in Vendors : vendorBalances[v] \in BalanceRow /\ payouts[v] \in Nat
  BY DEF TypeOK
<1>2. \A v \in Vendors : /\ PaidOut(vendorBalances[v]) \in BalanceRow
                         /\ payouts[v] + vendorBalances[v].pendingCents \in Nat
  BY <1>1 DEF BalanceRow, PaidOut
<1>3. /\ vendorBalances' \in [Vendors -> BalanceRow]
      /\ payouts' \in [Vendors -> Nat]
  BY <1>1, <1>2 DEF SweepVendorPayouts, RecordPayouts
<1>. QED BY <1>3 DEF TypeOK, SweepVendorPayouts, RecordPayouts

\* Every step keeps the types.
LEMMA TypeStep == TypeOK /\ [Next]_vars => TypeOK'
<1>. SUFFICES ASSUME TypeOK, [Next]_vars PROVE TypeOK'
  OBVIOUS
<1>1. ASSUME NEW u \in Payers, NEW amount \in TopUps, CreateStripeSession(u, amount)
      PROVE  TypeOK'
  <2>1. [userId |-> u, amount |-> amount, status |-> "pending"] \in SessionRow
    BY MarketAssumption DEF SessionRow
  <2>2. sessions' \in Seq(SessionRow) BY <1>1, <2>1 DEF TypeOK, CreateStripeSession
  <2>. QED BY <1>1, <2>2 DEF TypeOK, CreateStripeSession
<1>2. ASSUME NEW s \in 1..Len(sessions), CreditUserFromStripe(s)
      PROVE  TypeOK'
  <2>1. sessions[s] \in SessionRow BY EntryTyped DEF TypeOK
  <2>2. [sessions[s] EXCEPT !.status = "completed"] \in SessionRow BY <2>1 DEF SessionRow
  <2>3. sessions' \in Seq(SessionRow)
    BY <1>2, <2>2, UpdateTyped DEF TypeOK, CreditUserFromStripe
  <2>4. balance' \in [Users -> Nat]
    BY <1>2, <2>1 DEF TypeOK, CreditUserFromStripe, SessionRow
  <2>. QED BY <1>2, <2>3, <2>4 DEF TypeOK, CreditUserFromStripe
<1>3. ASSUME NEW u \in Users, NEW l \in Leads, PurchaseLead(u, l) PROVE TypeOK'
  BY <1>3, SingleBatch, PurchaseKeepsTypes DEF PurchaseLead
<1>4. ASSUME NEW u \in Users, NEW batch \in Batches, PurchaseLeads(u, batch) PROVE TypeOK'
  BY <1>4, BatchFacts, PurchaseKeepsTypes DEF PurchaseLeads
<1>5. ASSUME NEW u \in Referrers, GetOrCreateReferralCode(u) PROVE TypeOK'
  <2>1. referrals' \in [Users -> ReferralSlot]
    <3>1. u \in Users BY MarketAssumption
    <3>2. referrals[u] \in ReferralSlot BY <3>1 DEF TypeOK
    <3>3. [referrals[u] EXCEPT !.status = "pending"] \in ReferralSlot
      BY <3>2 DEF ReferralSlot
    <3>. QED BY <1>5, <3>1, <3>3 DEF TypeOK, GetOrCreateReferralCode
  <2>. QED BY <1>5, <2>1 DEF TypeOK, GetOrCreateReferralCode
<1>6. ASSUME NEW r \in Users, NEW u \in Users, RedeemReferralCode(r, u) PROVE TypeOK'
  <2>1. referrals' \in [Users -> ReferralSlot]
    BY <1>6 DEF TypeOK, RedeemReferralCode, ReferralSlot
  <2>. QED BY <1>6, <2>1 DEF TypeOK, RedeemReferralCode
<1>7. ASSUME NEW u \in Users, RewardReferral(u) PROVE TypeOK'
  <2>1. balance' \in [Users -> Nat]
    BY <1>7, MarketAssumption DEF TypeOK, RewardReferral, PayRewards
  <2>2. referrals' \in [Users -> ReferralSlot]
    BY <1>7 DEF TypeOK, RewardReferral, PayRewards, ReferralSlot
  <2>. QED BY <1>7, <2>1, <2>2 DEF TypeOK, RewardReferral, PayRewards
<1>8. ASSUME NEW lost \in SUBSET rewardTasks, LoseRewardTasks(lost) PROVE TypeOK'
  BY <1>8 DEF TypeOK, LoseRewardTasks
<1>9. ASSUME NEW o \in 1..Len(orders), NEW status \in {"open", "denied"},
             disputes' = [disputes EXCEPT ![o].status = status]
      PROVE  disputes' \in Seq(DisputeRow) /\ Len(disputes') = Len(disputes)
  <2>1. o \in 1..Len(disputes) BY DEF TypeOK
  <2>2. disputes[o] \in DisputeRow BY <2>1, EntryTyped DEF TypeOK
  <2>3. [disputes[o] EXCEPT !.status = status] \in DisputeRow BY <2>2 DEF DisputeRow
  <2>. QED BY <1>9, <2>1, <2>3, UpdateTyped DEF TypeOK
<1>10. ASSUME NEW o \in 1..Len(orders), CreateDispute(o) PROVE TypeOK'
  BY <1>9, <1>10 DEF TypeOK, CreateDispute
<1>11. ASSUME NEW o \in 1..Len(orders), NEW requested \in Refunds,
              ApproveDispute(o, requested)
       PROVE  TypeOK'
  BY <1>11, ApprovalKeepsTypes
<1>12. ASSUME NEW o \in 1..Len(orders), DenyDispute(o) PROVE TypeOK'
  BY <1>9, <1>12 DEF TypeOK, DenyDispute
<1>13. ASSUME NEW swept \in SUBSET Vendors, SweepVendorPayouts(swept) PROVE TypeOK'
  BY <1>13, SweepKeepsTypes
<1>14. ASSUME NEW l \in Moderated, NEW flagged \in BOOLEAN, FlagLead(l, flagged)
       PROVE  TypeOK'
  <2>1. l \in Leads /\ leads[l] \in LeadColumns BY MarketAssumption DEF TypeOK
  <2>2. [leads[l] EXCEPT !.flagged = flagged] \in LeadColumns BY <2>1 DEF LeadColumns
  <2>3. leads' \in [Leads -> LeadColumns] BY <1>14, <2>1, <2>2 DEF TypeOK, FlagLead
  <2>. QED BY <1>14, <2>3 DEF TypeOK, FlagLead
<1>15. ASSUME NEW l \in Moderated, RemoveLead(l) PROVE TypeOK'
  <2>1. l \in Leads /\ leads[l] \in LeadColumns BY MarketAssumption DEF TypeOK
  <2>2. [leads[l] EXCEPT !.removed = TRUE] \in LeadColumns BY <2>1 DEF LeadColumns
  <2>3. leads' \in [Leads -> LeadColumns] BY <1>15, <2>1, <2>2 DEF TypeOK, RemoveLead
  <2>. QED BY <1>15, <2>3 DEF TypeOK, RemoveLead
<1>16. ASSUME NEW m \in Members, NEW cap \in CapValues \cup {NULL}, SetMemberSpendCap(m, cap)
       PROVE  TypeOK'
  BY <1>16 DEF TypeOK, SetMemberSpendCap
<1>17. CASE NextMonth
  BY <1>17 DEF TypeOK, NextMonth
<1>18. CASE UNCHANGED vars
  BY <1>18 DEF TypeOK, vars
<1>. QED
  BY <1>1, <1>2, <1>3, <1>4, <1>5, <1>6, <1>7, <1>8, <1>10, <1>11, <1>12,
     <1>13, <1>14, <1>15, <1>16, <1>17, <1>18 DEF Next

\* Every column keeps its type.  In particular no wallet and no pending balance is
\* ever negative: each debit takes what the same transaction checked is there.
THEOREM MarketTypeCorrect == Spec => []TypeOK
BY TypeInit, TypeStep, PTL DEF Spec

-------------------------------------------------------------------------------
(* Leads sell once.                                                          *)

\* A step that leaves the leads and the buyers of the orders, and the sale of the
\* leads, as they are.
SalesUnchanged ==
  /\ Len(orders') = Len(orders)
  /\ \A o \in 1..Len(orders) : /\ orders'[o].leadId = orders[o].leadId
                              /\ orders'[o].userId = orders[o].userId
  /\ \A l \in Leads : /\ leads'[l].sold = leads[l].sold
                      /\ leads'[l].purchasedBy = leads[l].purchasedBy

\* Every step that is not a purchase leaves them as they are.
LEMMA OtherSteps ==
  ASSUME TypeOK, [Next]_vars
  PROVE  \/ SalesUnchanged /\ rewardTasks' \subseteq rewardTasks
         \/ \E u \in Users : \E batch : IsBatch(batch) /\ Purchase(u, batch)
<1>. DEFINE same == SalesUnchanged /\ rewardTasks' \subseteq rewardTasks
<1>1. ASSUME UNCHANGED << orders, leads, rewardTasks >> PROVE same
  BY <1>1 DEF SalesUnchanged
<1>2. ASSUME UNCHANGED << orders, leads >>, rewardTasks' \subseteq rewardTasks PROVE same
  BY <1>2 DEF SalesUnchanged
<1>3. ASSUME NEW u \in Users, NEW l \in Leads, PurchaseLead(u, l)
      PROVE  \E x \in Users : \E batch : IsBatch(batch) /\ Purchase(x, batch)
  BY <1>3, SingleBatch DEF PurchaseLead
<1>4. ASSUME NEW u \in Users, NEW batch \in Batches, PurchaseLeads(u, batch)
      PROVE  \E x \in Users : \E b : IsBatch(b) /\ Purchase(x, b)
  BY <1>4, BatchFacts DEF PurchaseLeads
<1>5. ASSUME NEW o \in 1..Len(orders), NEW requested \in Refunds,
             ApproveDispute(o, requested)
      PROVE  same
  <2>1. orders' = [orders EXCEPT ![o] = [orders[o] EXCEPT !.status =
                     StatusAfterRefund(orders[o], ClampRefundCents(requested, orders[o].price))]]
    BY <1>5 DEF ApproveDispute, RecordApproval
  <2>2. UNCHANGED << leads, rewardTasks >> BY <1>5 DEF ApproveDispute, RecordApproval
  <2>3. \A p \in 1..Len(orders) : orders[p] \in OrderRow BY EntryTyped DEF TypeOK
  <2>4. Len(orders') = Len(orders) BY <2>1 DEF TypeOK
  <2>5. \A p \in 1..Len(orders) : /\ orders'[p].leadId = orders[p].leadId
                                /\ orders'[p].userId = orders[p].userId
    BY <2>1, <2>3 DEF TypeOK, OrderRow
  <2>. QED BY <2>2, <2>4, <2>5 DEF SalesUnchanged
<1>6. ASSUME NEW l \in Moderated, NEW flagged \in BOOLEAN, FlagLead(l, flagged)
      PROVE  same
  <2>1. \A k \in Leads : leads[k] \in LeadColumns BY DEF TypeOK
  <2>2. \A k \in Leads : /\ leads'[k].sold = leads[k].sold
                        /\ leads'[k].purchasedBy = leads[k].purchasedBy
    BY <1>6, <2>1 DEF FlagLead, TypeOK, LeadColumns
  <2>. QED BY <1>6, <2>2 DEF FlagLead, SalesUnchanged
<1>7. ASSUME NEW l \in Moderated, RemoveLead(l)
      PROVE  same
  <2>1. \A k \in Leads : leads[k] \in LeadColumns BY DEF TypeOK
  <2>2. \A k \in Leads : /\ leads'[k].sold = leads[k].sold
                        /\ leads'[k].purchasedBy = leads[k].purchasedBy
    BY <1>7, <2>1 DEF RemoveLead, TypeOK, LeadColumns
  <2>. QED BY <1>7, <2>2 DEF RemoveLead, SalesUnchanged
<1>8. ASSUME NEW u \in Users, RewardReferral(u) PROVE same
  <2>1. UNCHANGED << orders, leads >> /\ rewardTasks' \subseteq rewardTasks
    BY <1>8 DEF RewardReferral, PayRewards
  <2>. QED BY <1>2, <2>1
<1>9. ASSUME NEW lost \in SUBSET rewardTasks, LoseRewardTasks(lost) PROVE same
  <2>1. UNCHANGED << orders, leads >> /\ rewardTasks' \subseteq rewardTasks
    BY <1>9 DEF LoseRewardTasks
  <2>. QED BY <1>2, <2>1
<1>10. ASSUME NEW swept \in SUBSET Vendors, SweepVendorPayouts(swept) PROVE same
  BY <1>1, <1>10 DEF SweepVendorPayouts, RecordPayouts
<1>11. ASSUME NEW u \in Payers, NEW amount \in TopUps, CreateStripeSession(u, amount) PROVE same
  BY <1>1, <1>11 DEF CreateStripeSession
<1>12. ASSUME NEW s \in 1..Len(sessions), CreditUserFromStripe(s) PROVE same
  BY <1>1, <1>12 DEF CreditUserFromStripe
<1>13. ASSUME NEW u \in Referrers, GetOrCreateReferralCode(u) PROVE same
  BY <1>1, <1>13 DEF GetOrCreateReferralCode
<1>14. ASSUME NEW r \in Users, NEW u \in Users, RedeemReferralCode(r, u) PROVE same
  BY <1>1, <1>14 DEF RedeemReferralCode
<1>15. ASSUME NEW o \in 1..Len(orders), CreateDispute(o) PROVE same
  BY <1>1, <1>15 DEF CreateDispute
<1>16. ASSUME NEW o \in 1..Len(orders), DenyDispute(o) PROVE same
  BY <1>1, <1>16 DEF DenyDispute
<1>17. ASSUME NEW m \in Members, NEW cap \in CapValues \cup {NULL}, SetMemberSpendCap(m, cap)
       PROVE  same
  BY <1>1, <1>17 DEF SetMemberSpendCap
<1>18. ASSUME NextMonth PROVE same BY <1>1, <1>18 DEF NextMonth
<1>19. ASSUME UNCHANGED vars PROVE same BY <1>1, <1>19 DEF vars
<1>. HIDE DEF same
<1>20. same => SalesUnchanged /\ rewardTasks' \subseteq rewardTasks BY DEF same
<1>. QED
  BY <1>3, <1>4, <1>5, <1>6, <1>7, <1>8, <1>9, <1>10, <1>11, <1>12, <1>13, <1>14,
     <1>15, <1>16, <1>17, <1>18, <1>19, <1>20 DEF Next

\* What a purchase appends: orders of the buyer for the leads of the batch, none of
\* which was sold, and all of which are now sold to the buyer.
LEMMA PurchaseAppends ==
  ASSUME TypeOK, NEW u \in Users, NEW batch, IsBatch(batch), Purchase(u, batch)
  PROVE  /\ Len(orders') = Len(orders) + Len(batch)
         /\ \A o \in 1..Len(orders) : orders'[o] = orders[o]
         /\ \A i \in 1..Len(batch) : /\ orders'[Len(orders) + i].leadId = batch[i]
                                    /\ orders'[Len(orders) + i].userId = u
                                    /\ batch[i] \in Leads
                                    /\ ~leads[batch[i]].sold
         /\ \A l \in Leads : IF l \in InBatch(batch)
                             THEN leads'[l].sold /\ leads'[l].purchasedBy = u
                             ELSE leads'[l] = leads[l]
         /\ rewardTasks' = rewardTasks \cup {u}
<1>. DEFINE new == [i \in 1..Len(batch) |->
                      [userId |-> u, leadId |-> batch[i], price |-> Price[batch[i]],
                       status |-> "completed", month |-> month]]
<1>1. /\ orders' = orders \o new
      /\ leads' = [l \in Leads |-> IF l \in InBatch(batch)
                                   THEN [leads[l] EXCEPT !.sold = TRUE, !.purchasedBy = u]
                                   ELSE leads[l]]
      /\ rewardTasks' = rewardTasks \cup {u}
      /\ \A l \in InBatch(batch) : ~leads[l].sold
  BY DEF Purchase, RecordPurchase, CanPurchase, Available
<1>2. orders \in Seq(OrderRow) /\ Len(orders) \in Nat BY DEF TypeOK
<1>3. new \in Seq(OrderRow) /\ Len(new) = Len(batch) /\ Len(batch) \in Nat
  <2>1. \A i \in 1..Len(batch) : new[i] \in OrderRow
    BY BatchRows DEF OrderRow, TypeOK
  <2>. QED BY <2>1, BatchRows
<1>4. \A i \in 1..Len(batch) : new[i].leadId = batch[i] /\ new[i].userId = u
  OBVIOUS
<1>. HIDE DEF new
<1>5. /\ Len(orders') = Len(orders) + Len(batch)
      /\ \A o \in 1..Len(orders) : orders'[o] = orders[o]
      /\ \A i \in 1..Len(batch) : orders'[Len(orders) + i] = new[i]
  <2>1. Len(orders') = Len(orders) + Len(new)
    BY <1>1, <1>2, <1>3, ConcatTyped
  <2>2. /\ \A o \in 1..Len(orders) : (orders \o new)[o] = orders[o]
        /\ \A i \in 1..Len(new) : (orders \o new)[Len(orders) + i] = new[i]
    BY <1>2, <1>3, ConcatEntries
  <2>. QED BY <1>1, <1>3, <2>1, <2>2
<1>6. \A i \in 1..Len(batch) : batch[i] \in Leads /\ ~leads[batch[i]].sold
  BY <1>1, BatchRows DEF InBatch
<1>7. \A l \in Leads : leads[l] \in LeadColumns BY DEF TypeOK
<1>8. \A l \in Leads : IF l \in InBatch(batch)
                       THEN leads'[l].sold /\ leads'[l].purchasedBy = u
                       ELSE leads'[l] = leads[l]
  BY <1>1, <1>7 DEF LeadColumns
<1>. QED BY <1>1, <1>4, <1>5, <1>6, <1>8

\* Nothing is sold initially.
LEMMA SoldOnceInit == Init => LeadSoldOnce
<1>. SUFFICES ASSUME Init PROVE LeadSoldOnce OBVIOUS
<1>1. Len(orders) = 0 BY DEF Init
<1>2. \A l \in Leads : ~leads[l].sold BY DEF Init
<1>. QED BY <1>1, <1>2 DEF LeadSoldOnce

\* A lead has at most one order: an order already there was for a sold lead, a new
\* one is for a lead that was not, and the leads of one batch differ.
LEMMA SoldOnceStep == TypeOK /\ LeadSoldOnce /\ [Next]_vars => LeadSoldOnce'
<1>. SUFFICES ASSUME TypeOK, LeadSoldOnce, [Next]_vars PROVE LeadSoldOnce'
  OBVIOUS
<1>1. \A o \in 1..Len(orders) : orders[o].leadId \in Leads
  <2>1. \A o \in 1..Len(orders) : orders[o] \in OrderRow BY EntryTyped DEF TypeOK
  <2>. QED BY <2>1 DEF OrderRow
<1>2. CASE SalesUnchanged
  BY <1>1, <1>2 DEF SalesUnchanged, LeadSoldOnce
<1>3. ASSUME NEW u \in Users, NEW batch, IsBatch(batch), Purchase(u, batch)
      PROVE  LeadSoldOnce'
  <2>. DEFINE n == Len(orders)
  <2>1. n \in Nat /\ Len(batch) \in Nat BY BatchRows, <1>3 DEF TypeOK
  <2>2. /\ Len(orders') = n + Len(batch)
        /\ \A o \in 1..n : orders'[o] = orders[o]
        /\ \A i \in 1..Len(batch) : /\ orders'[n + i].leadId = batch[i]
                                   /\ orders'[n + i].userId = u
                                   /\ batch[i] \in Leads
                                   /\ ~leads[batch[i]].sold
        /\ \A l \in Leads : IF l \in InBatch(batch)
                            THEN leads'[l].sold /\ leads'[l].purchasedBy = u
                            ELSE leads'[l] = leads[l]
    BY <1>3, PurchaseAppends
  <2>3. \A i \in 1..Len(batch) : batch[i] \in InBatch(batch) BY DEF InBatch
  <2>4. \A o \in 1..n : orders[o].leadId \notin InBatch(batch)
    <3>1. \A l \in InBatch(batch) : ~leads[l].sold BY <2>2 DEF InBatch
    <3>2. \A o \in 1..n : leads[orders[o].leadId].sold BY DEF LeadSoldOnce
    <3>. QED BY <3>1, <3>2
  <2>. HIDE DEF n
  <2>5. ASSUME NEW o \in 1..Len(orders')
        PROVE  o \in 1..n \/ (o - n \in 1..Len(batch) /\ o = n + (o - n))
    BY <2>1, <2>2
  <2>6. \A o, p \in 1..Len(orders') : orders'[o].leadId = orders'[p].leadId => o = p
    <3>. SUFFICES ASSUME NEW o \in 1..Len(orders'), NEW p \in 1..Len(orders'),
                         orders'[o].leadId = orders'[p].leadId
                  PROVE  o = p
      OBVIOUS
    <3>1. CASE o \in 1..n /\ p \in 1..n
      BY <2>2, <3>1 DEF LeadSoldOnce, n
    <3>2. CASE o \in 1..n /\ p - n \in 1..Len(batch) /\ p = n + (p - n)
      BY <2>2, <2>3, <2>4, <3>2
    <3>3. CASE p \in 1..n /\ o - n \in 1..Len(batch) /\ o = n + (o - n)
      BY <2>2, <2>3, <2>4, <3>3
    <3>4. CASE /\ o - n \in 1..Len(batch) /\ o = n + (o - n)
               /\ p - n \in 1..Len(batch) /\ p = n + (p - n)
      <4>1. batch[o - n] = batch[p - n] BY <2>2, <3>4
      <4>2. o - n = p - n BY <1>3, <3>4, <4>1 DEF IsBatch
      <4>. QED BY <3>4, <4>2
    <3>. QED BY <2>5, <3>1, <3>2, <3>3, <3>4
  <2>7. ASSUME NEW o \in 1..Len(orders')
        PROVE  /\ leads'[orders'[o].leadId].sold
               /\ leads'[orders'[o].leadId].purchasedBy = orders'[o].userId
    <3>1. CASE o \in 1..n
      BY <1>1, <2>2, <2>4, <3>1 DEF LeadSoldOnce, n
    <3>2. CASE o - n \in 1..Len(batch) /\ o = n + (o - n)
      BY <2>2, <2>3, <3>2
    <3>. QED BY <2>5, <3>1, <3>2
  <2>8. ASSUME NEW l \in Leads, leads'[l].sold
        PROVE  \E o \in 1..Len(orders') : orders'[o].leadId = l
    <3>1. CASE l \in InBatch(batch)
      <4>1. PICK i \in 1..Len(batch) : l = batch[i] BY <3>1 DEF InBatch
      <4>2. n + i \in 1..Len(orders') BY <2>1, <2>2
      <4>. QED BY <2>2, <4>1, <4>2
    <3>2. CASE l \notin InBatch(batch)
      <4>1. leads[l].sold BY <2>2, <2>8, <3>2
      <4>2. PICK o \in 1..n : orders[o].leadId = l BY <4>1 DEF LeadSoldOnce, n
      <4>3. o \in 1..Len(orders') BY <2>1, <2>2
      <4>. QED BY <2>2, <4>2, <4>3
    <3>. QED BY <3>1, <3>2
  <2>. QED BY <2>6, <2>7, <2>8 DEF LeadSoldOnce
<1>. QED BY <1>2, <1>3, OtherSteps

\* A lead is never sold twice, alone or in a bulk order, for any number of buyers
\* and leads.
THEOREM MarketSellsOnce == Spec => []LeadSoldOnce
BY TypeInit, TypeStep, SoldOnceInit, SoldOnceStep, PTL DEF Spec

-------------------------------------------------------------------------------
(* Referrals.                                                                *)

\* u has bought a lead.
HasBought(u) == \E o \in 1..Len(orders) : orders[o].userId = u

\* The rows alone: nobody redeems two codes or its own.
RedemptionsSound ==
  /\ \A r, q \in Users : /\ referrals[r].referredUserId # NULL
                         /\ referrals[r].referredUserId = referrals[q].referredUserId
                         => r = q
  /\ \A r \in Users : referrals[r].referredUserId # r

\* The inductive invariant: whoever has a reward call outstanding has bought, and so
\* has whoever's row has paid out.
RewardsEarned ==
  /\ \A u \in rewardTasks : HasBought(u)
  /\ \A r \in Users : referrals[r].status = "rewarded" => HasBought(referrals[r].referredUserId)

\* The steps that write a referral row.
LEMMA ReferralSteps ==
  ASSUME TypeOK, [Next]_vars
  PROVE  \/ UNCHANGED referrals
         \/ \E u \in Users : GetOrCreateReferralCode(u)
         \/ \E r, u \in Users : RedeemReferralCode(r, u)
         \/ \E u \in Users : RewardReferral(u)
<1>. DEFINE same == UNCHANGED referrals
<1>1. ASSUME NEW u \in Users, NEW l \in Leads, PurchaseLead(u, l) PROVE same
  BY <1>1 DEF PurchaseLead, Purchase, RecordPurchase
<1>2. ASSUME NEW u \in Users, NEW batch \in Batches, PurchaseLeads(u, batch) PROVE same
  BY <1>2 DEF PurchaseLeads, Purchase, RecordPurchase
<1>3. ASSUME NEW u \in Payers, NEW amount \in TopUps, CreateStripeSession(u, amount) PROVE same
  BY <1>3 DEF CreateStripeSession
<1>4. ASSUME NEW s \in 1..Len(sessions), CreditUserFromStripe(s) PROVE same
  BY <1>4 DEF CreditUserFromStripe
<1>5. ASSUME NEW u \in Referrers, GetOrCreateReferralCode(u)
      PROVE  \E x \in Users : GetOrCreateReferralCode(x)
  BY <1>5, MarketAssumption
<1>6. ASSUME NEW lost \in SUBSET rewardTasks, LoseRewardTasks(lost) PROVE same
  BY <1>6 DEF LoseRewardTasks
<1>7. ASSUME NEW o \in 1..Len(orders), CreateDispute(o) PROVE same
  BY <1>7 DEF CreateDispute
<1>8. ASSUME NEW o \in 1..Len(orders), NEW requested \in Refunds,
             ApproveDispute(o, requested)
      PROVE  same
  BY <1>8 DEF ApproveDispute, RecordApproval
<1>9. ASSUME NEW o \in 1..Len(orders), DenyDispute(o) PROVE same
  BY <1>9 DEF DenyDispute
<1>10. ASSUME NEW swept \in SUBSET Vendors, SweepVendorPayouts(swept) PROVE same
  BY <1>10 DEF SweepVendorPayouts, RecordPayouts
<1>11. ASSUME NEW l \in Moderated, NEW flagged \in BOOLEAN, FlagLead(l, flagged) PROVE same
  BY <1>11 DEF FlagLead
<1>12. ASSUME NEW l \in Moderated, RemoveLead(l) PROVE same
  BY <1>12 DEF RemoveLead
<1>13. ASSUME NEW m \in Members, NEW cap \in CapValues \cup {NULL}, SetMemberSpendCap(m, cap)
       PROVE  same
  BY <1>13 DEF SetMemberSpendCap
<1>14. ASSUME NextMonth PROVE same BY <1>14 DEF NextMonth
<1>15. ASSUME UNCHANGED vars PROVE same BY <1>15 DEF vars
<1>. HIDE DEF same
<1>16. same => UNCHANGED referrals BY DEF same
<1>. QED
  BY <1>1, <1>2, <1>3, <1>4, <1>5, <1>6, <1>7, <1>8, <1>9, <1>10, <1>11, <1>12,
     <1>13, <1>14, <1>15, <1>16 DEF Next

\* Whoever has bought stays a buyer, and a reward call that is new is a buyer's.
LEMMA BuyersStay ==
  ASSUME TypeOK, [Next]_vars
  PROVE  /\ \A u : HasBought(u) => HasBought(u)'
         /\ \A u \in rewardTasks' : u \in rewardTasks \/ HasBought(u)'
<1>1. CASE SalesUnchanged /\ rewardTasks' \subseteq rewardTasks
  BY <1>1 DEF SalesUnchanged, HasBought
<1>2. ASSUME NEW x \in Users, NEW batch, IsBatch(batch), Purchase(x, batch)
      PROVE  /\ \A u : HasBought(u) => HasBought(u)'
             /\ \A u \in rewardTasks' : u \in rewardTasks \/ HasBought(u)'
  <2>. DEFINE n == Len(orders)
  <2>1. n \in Nat /\ Len(batch) \in Nat /\ Len(batch) >= 1
    BY <1>2, BatchRows DEF TypeOK, IsBatch
  <2>2. /\ Len(orders') = n + Len(batch)
        /\ \A o \in 1..n : orders'[o] = orders[o]
        /\ \A i \in 1..Len(batch) : orders'[n + i].userId = x
        /\ rewardTasks' = rewardTasks \cup {x}
    BY <1>2, PurchaseAppends
  <2>3. \A u : HasBought(u) => HasBought(u)'
    <3>1. \A o \in 1..n : o \in 1..Len(orders') BY <2>1, <2>2
    <3>. QED BY <2>2, <3>1 DEF HasBought
  <2>. HIDE DEF n
  <2>4. HasBought(x)'
    <3>1. n + 1 \in 1..Len(orders') /\ 1 \in 1..Len(batch) BY <2>1, <2>2
    <3>2. orders'[n + 1].userId = x BY <2>2, <3>1
    <3>. QED BY <3>1, <3>2 DEF HasBought
  <2>. QED BY <2>2, <2>3, <2>4
<1>. QED BY <1>1, <1>2, OtherSteps

LEMMA RedemptionsStep == TypeOK /\ RedemptionsSound /\ [Next]_vars => RedemptionsSound'
<1>. SUFFICES ASSUME TypeOK, RedemptionsSound, [Next]_vars PROVE RedemptionsSound'
  OBVIOUS
<1>1. \A r \in Users : referrals[r] \in ReferralSlot BY DEF TypeOK
<1>2. CASE \A r \in Users : referrals'[r].referredUserId = referrals[r].referredUserId
  BY <1>2 DEF RedemptionsSound
<1>3. CASE UNCHANGED referrals BY <1>2, <1>3
<1>4. ASSUME NEW u \in Users, GetOrCreateReferralCode(u) PROVE RedemptionsSound'
  <2>1. \A r \in Users : referrals'[r].referredUserId = referrals[r].referredUserId
    BY <1>1, <1>4 DEF GetOrCreateReferralCode, TypeOK, ReferralSlot
  <2>. QED BY <1>2, <2>1
<1>5. ASSUME NEW u \in Users, RewardReferral(u) PROVE RedemptionsSound'
  <2>1. \A r \in Users : referrals'[r].referredUserId = referrals[r].referredUserId
    BY <1>1, <1>5 DEF RewardReferral, PayRewards, ReferralSlot
  <2>. QED BY <1>2, <2>1
<1>6. ASSUME NEW r \in Users, NEW u \in Users, RedeemReferralCode(r, u)
      PROVE  RedemptionsSound'
  <2>1. /\ \A q \in Users : referrals[q].referredUserId # u
        /\ r # u
        /\ referrals'[r].referredUserId = u
        /\ \A q \in Users : q # r => referrals'[q] = referrals[q]
    BY <1>6 DEF RedeemReferralCode, HasRedeemed, TypeOK
  <2>. QED BY <2>1 DEF RedemptionsSound
<1>. QED BY <1>3, <1>4, <1>5, <1>6, ReferralSteps

LEMMA RewardsStep == TypeOK /\ RewardsEarned /\ [Next]_vars => RewardsEarned'
<1>. SUFFICES ASSUME TypeOK, RewardsEarned, [Next]_vars PROVE RewardsEarned'
  OBVIOUS
<1>1. \A r \in Users : referrals[r] \in ReferralSlot BY DEF TypeOK
<1>2. \A u \in rewardTasks' : HasBought(u)' BY BuyersStay DEF RewardsEarned
<1>3. \A r \in Users : referrals'[r].status = "rewarded" =>
        \/ referrals'[r] = referrals[r]
        \/ referrals'[r].referredUserId \in rewardTasks
  <2>1. CASE UNCHANGED referrals BY <2>1
  <2>2. ASSUME NEW u \in Users, GetOrCreateReferralCode(u), NEW r \in Users
        PROVE  referrals'[r].status = "rewarded" => referrals'[r] = referrals[r]
    <3>1. referrals' = [referrals EXCEPT ![u] = [referrals[u] EXCEPT !.status = "pending"]]
      BY <2>2 DEF GetOrCreateReferralCode
    <3>. QED BY <1>1, <3>1 DEF TypeOK, ReferralSlot
  <2>3. ASSUME NEW s \in Users, NEW u \in Users, RedeemReferralCode(s, u), NEW r \in Users
        PROVE  referrals'[r].status = "rewarded" => referrals'[r] = referrals[r]
    BY <2>3 DEF RedeemReferralCode, TypeOK
  <2>4. ASSUME NEW u \in Users, RewardReferral(u), NEW r \in Users
        PROVE  \/ referrals'[r] = referrals[r]
               \/ referrals'[r].referredUserId \in rewardTasks
    <3>1. CASE r \notin DueReferrals(u)
      BY <2>4, <3>1 DEF RewardReferral, PayRewards
    <3>2. CASE r \in DueReferrals(u)
      <4>1. referrals[r].referredUserId = u /\ u \in rewardTasks
        BY <2>4, <3>2 DEF DueReferrals, RewardReferral
      <4>2. referrals'[r] = [referrals[r] EXCEPT !.status = "rewarded"]
        BY <2>4, <3>2 DEF RewardReferral, PayRewards
      <4>. QED BY <1>1, <4>1, <4>2 DEF ReferralSlot
    <3>. QED BY <3>1, <3>2
  <2>. QED BY <2>1, <2>2, <2>3, <2>4, ReferralSteps
<1>4. ASSUME NEW r \in Users, referrals'[r].status = "rewarded", NEW u,
             u = referrals'[r].referredUserId
      PROVE  HasBought(u)'
  <2>1. CASE referrals'[r] = referrals[r]
    <3>1. HasBought(u) BY <1>4, <2>1 DEF RewardsEarned
    <3>. QED BY <3>1, BuyersStay
  <2>2. CASE referrals'[r].referredUserId \in rewardTasks
    <3>1. HasBought(u) BY <1>4, <2>2 DEF RewardsEarned
    <3>. QED BY <3>1, BuyersStay
  <2>. QED BY <1>3, <1>4, <2>1, <2>2
<1>5. \A r \in Users : referrals'[r].status = "rewarded" =>
                         HasBought(referrals[r].referredUserId)'
  BY <1>4 DEF HasBought
<1>. QED BY <1>2, <1>5 DEF RewardsEarned, HasBought

\* For any number of users and codes: nobody redeems two codes or its own, and a
\* code pays out only after the user who redeemed it has bought a lead.
THEOREM MarketReferralsSound == Spec => []ReferralsSound
<1>1. Init => RedemptionsSound /\ RewardsEarned
  BY MarketAssumption DEF Init, RedemptionsSound, RewardsEarned
<1>2. RedemptionsSound /\ RewardsEarned => ReferralsSound
  BY DEF RedemptionsSound, RewardsEarned, HasBought, ReferralsSound
<1>. QED BY TypeInit, TypeStep, RedemptionsStep, RewardsStep, <1>1, <1>2, PTL DEF Spec

-------------------------------------------------------------------------------
(*****************************************************************************)
(* The dispute ledger, for any numbers of orders, disputes and vendors, any  *)
(* prices, any refunds and any revenue share.                                *)
(*****************************************************************************)

-------------------------------------------------------------------------------
(* The floor of the revenue share.                                           *)

\* What the floor of a division is: the largest multiple that fits.
LEMMA FloorBounds ==
  ASSUME NEW x \in Nat, NEW d \in Nat, d > 0
  PROVE  /\ x \div d \in Int
         /\ (x \div d) * d <= x
         /\ x < (x \div d) * d + d
<1>1. x \div d \in Int OBVIOUS
<1>2. x = d * (x \div d) + (x % d) OBVIOUS
<1>3. x % d \in 0..(d - 1) OBVIOUS
<1>. QED BY <1>1, <1>2, <1>3

\* Multiples of a positive number are ordered as their factors.
LEMMA FactorsOrdered ==
  ASSUME NEW p \in Int, NEW q \in Int, NEW d \in Nat, d > 0, p * d < q * d
  PROVE  p < q
<1>1. SUFFICES ASSUME q <= p PROVE FALSE OBVIOUS
<1>2. p - q \in Nat BY <1>1
<1>3. (p - q) * d >= 0 BY <1>2
<1>4. (p - q) * d = p * d - q * d OBVIOUS
<1>. QED BY <1>3, <1>4

\* The vendor's share grows no faster than the price: flooring twice, at the sale
\* and at the refund, leaves the vendor at most what the buyer still pays.
LEMMA ShareGrowsSlower ==
  ASSUME NEW price \in Nat, NEW refund \in Nat, refund <= price
  PROVE  VendorCents(price) - VendorCents(refund) <= price - refund
<1>. DEFINE a == price * ShareNum
            b == refund * ShareNum
            rest == price - refund
            p == a \div ShareDen
            q == b \div ShareDen
<1>1. ShareNum \in Nat /\ ShareDen \in Nat /\ ShareDen > 0 /\ ShareNum <= ShareDen
  BY ShareAssumption
<1>2. a \in Nat /\ b \in Nat /\ rest \in Nat BY <1>1
<1>3. a = b + rest * ShareNum BY <1>1
<1>4. rest * ShareNum <= rest * ShareDen
  <2>. DEFINE gap == ShareDen - ShareNum
  <2>1. gap \in Nat /\ ShareDen = ShareNum + gap BY <1>1
  <2>2. rest * gap \in Nat BY <1>2, <2>1
  <2>3. rest * (ShareNum + gap) = rest * ShareNum + rest * gap BY <1>1, <1>2, <2>1
  <2>4. rest * ShareNum \in Nat BY <1>1, <1>2
  <2>. HIDE DEF gap, rest
  <2>. QED BY <2>1, <2>2, <2>3, <2>4
<1>5. p \in Int /\ p * ShareDen <= a BY <1>1, <1>2, FloorBounds
<1>6. q \in Int /\ b < q * ShareDen + ShareDen BY <1>1, <1>2, FloorBounds
<1>. HIDE DEF a, b, p, q, rest
<1>7. p * ShareDen < (q + 1 + rest) * ShareDen
  <2>1. (q + 1 + rest) * ShareDen = q * ShareDen + ShareDen + rest * ShareDen
    BY <1>1, <1>2, <1>6
  <2>2. /\ p * ShareDen \in Int /\ q * ShareDen \in Int /\ rest * ShareDen \in Int
        /\ rest * ShareNum \in Int
    BY <1>1, <1>2, <1>5, <1>6
  <2>. QED BY <1>1, <1>2, <1>3, <1>4, <1>5, <1>6, <2>1, <2>2
<1>8. p < q + 1 + rest BY <1>1, <1>2, <1>5, <1>6, <1>7, FactorsOrdered
<1>9. p - q <= price - refund BY <1>5, <1>6, <1>8 DEF rest
<1>10. VendorCents(refund) = q
  <2>1. CASE refund = 0
    <3>1. b = 0 BY <1>1, <2>1 DEF b
    <3>2. 0 \div ShareDen = 0 BY <1>1
    <3>. QED BY <2>1, <3>1, <3>2 DEF VendorCents, q
  <2>2. CASE refund > 0 BY <2>2 DEF VendorCents, b, q
  <2>. QED BY <2>1, <2>2
<1>11. VendorCents(price) = p
  <2>1. CASE price = 0
    <3>1. a = 0 BY <1>1, <2>1 DEF a
    <3>2. 0 \div ShareDen = 0 BY <1>1
    <3>. QED BY <2>1, <3>1, <3>2 DEF VendorCents, p
  <2>2. CASE price > 0 BY <2>2 DEF VendorCents, a, p
  <2>. QED BY <2>1, <2>2
<1>. QED BY <1>9, <1>10, <1>11

-------------------------------------------------------------------------------
(* The steps that write orders, disputes or ledger rows.                     *)

\* Every step leaves the three tables alone or is one of four operations.
LEMMA LedgerSteps ==
  ASSUME [Next]_vars
  PROVE  \/ UNCHANGED << orders, disputes, ledger >>
         \/ \E u \in Users : \E batch : IsBatch(batch) /\ Purchase(u, batch)
         \/ \E o \in 1..Len(orders) : CreateDispute(o)
         \/ \E o \in 1..Len(orders), requested \in Refunds : ApproveDispute(o, requested)
         \/ \E o \in 1..Len(orders) : DenyDispute(o)
<1>. DEFINE same == UNCHANGED << orders, disputes, ledger >>
<1>1. ASSUME NEW u \in Users, NEW l \in Leads, PurchaseLead(u, l)
      PROVE  \E x \in Users : \E batch : IsBatch(batch) /\ Purchase(x, batch)
  BY <1>1, SingleBatch DEF PurchaseLead
<1>2. ASSUME NEW u \in Users, NEW batch \in Batches, PurchaseLeads(u, batch)
      PROVE  \E x \in Users : \E b : IsBatch(b) /\ Purchase(x, b)
  BY <1>2, BatchFacts DEF PurchaseLeads
<1>3. ASSUME NEW u \in Payers, NEW amount \in TopUps, CreateStripeSession(u, amount) PROVE same
  BY <1>3 DEF CreateStripeSession
<1>4. ASSUME NEW s \in 1..Len(sessions), CreditUserFromStripe(s) PROVE same
  BY <1>4 DEF CreditUserFromStripe
<1>5. ASSUME NEW u \in Referrers, GetOrCreateReferralCode(u) PROVE same
  BY <1>5 DEF GetOrCreateReferralCode
<1>6. ASSUME NEW r \in Users, NEW u \in Users, RedeemReferralCode(r, u) PROVE same
  BY <1>6 DEF RedeemReferralCode
<1>7. ASSUME NEW u \in Users, RewardReferral(u) PROVE same
  BY <1>7 DEF RewardReferral, PayRewards
<1>8. ASSUME NEW lost \in SUBSET rewardTasks, LoseRewardTasks(lost) PROVE same
  BY <1>8 DEF LoseRewardTasks
<1>9. ASSUME NEW swept \in SUBSET Vendors, SweepVendorPayouts(swept) PROVE same
  BY <1>9 DEF SweepVendorPayouts, RecordPayouts
<1>10. ASSUME NEW l \in Moderated, NEW flagged \in BOOLEAN, FlagLead(l, flagged) PROVE same
  BY <1>10 DEF FlagLead
<1>11. ASSUME NEW l \in Moderated, RemoveLead(l) PROVE same
  BY <1>11 DEF RemoveLead
<1>12. ASSUME NEW m \in Members, NEW cap \in CapValues \cup {NULL}, SetMemberSpendCap(m, cap)
       PROVE  same
  BY <1>12 DEF SetMemberSpendCap
<1>13. ASSUME NextMonth PROVE same BY <1>13 DEF NextMonth
<1>14. ASSUME UNCHANGED vars PROVE same BY <1>14 DEF vars
<1>. HIDE DEF same
<1>15. same => UNCHANGED << orders, disputes, ledger >> BY DEF same
<1>. QED
  BY <1>1, <1>2, <1>3, <1>4, <1>5, <1>6, <1>7, <1>8, <1>9, <1>10, <1>11, <1>12,
     <1>13, <1>14, <1>15 DEF Next

\* What a purchase appends to the three tables: completed, undisputed orders whose
\* sale row holds the vendor's share of their price; no row already there changes.
LEMMA PurchaseAppendsRows ==
  ASSUME TypeOK, NEW u \in Users, NEW batch, IsBatch(batch), Purchase(u, batch)
  PROVE  /\ Len(orders') = Len(orders) + Len(batch)
         /\ \A o \in 1..Len(orders) : /\ orders'[o] = orders[o]
                                     /\ disputes'[o] = disputes[o]
                                     /\ ledger'[o] = ledger[o]
         /\ \A i \in 1..Len(batch) :
              LET o == Len(orders) + i
              IN  /\ orders'[o] \in OrderRow
                  /\ orders'[o].status = "completed"
                  /\ disputes'[o] = [status |-> "none", refundCents |-> 0]
                  /\ ledger'[o] = [sale |-> VendorCents(orders'[o].price), refund |-> 0]
<1>. DEFINE newOrders == [i \in 1..Len(batch) |->
                            [userId |-> u, leadId |-> batch[i], price |-> Price[batch[i]],
                             status |-> "completed", month |-> month]]
            newDisputes == [i \in 1..Len(batch) |-> [status |-> "none", refundCents |-> 0]]
            newLedger == [i \in 1..Len(batch) |->
                            [sale |-> VendorCents(Price[batch[i]]), refund |-> 0]]
<1>1. /\ orders' = orders \o newOrders
      /\ disputes' = disputes \o newDisputes
      /\ ledger' = ledger \o newLedger
  BY DEF Purchase, RecordPurchase
<1>2. /\ orders \in Seq(OrderRow) /\ disputes \in Seq(DisputeRow) /\ ledger \in Seq(LedgerRow)
      /\ Len(disputes) = Len(orders) /\ Len(ledger) = Len(orders)
  BY DEF TypeOK
<1>3. Len(batch) \in Nat BY BatchRows
<1>4. newOrders \in Seq(OrderRow) /\ Len(newOrders) = Len(batch)
  <2>1. \A i \in 1..Len(batch) : newOrders[i] \in OrderRow
    BY BatchRows DEF OrderRow, TypeOK
  <2>. QED BY <2>1, <1>3
<1>5. newDisputes \in Seq(DisputeRow) /\ Len(newDisputes) = Len(batch)
  BY <1>3 DEF DisputeRow
<1>6. newLedger \in Seq(LedgerRow) /\ Len(newLedger) = Len(batch)
  <2>1. \A i \in 1..Len(batch) : VendorCents(Price[batch[i]]) \in Nat
    BY BatchRows, VendorCentsNat
  <2>. QED BY <2>1, <1>3 DEF LedgerRow
<1>7. \A i \in 1..Len(batch) :
        /\ newOrders[i].status = "completed"
        /\ newDisputes[i] = [status |-> "none", refundCents |-> 0]
        /\ newLedger[i] = [sale |-> VendorCents(newOrders[i].price), refund |-> 0]
  OBVIOUS
<1>. HIDE DEF newOrders, newDisputes, newLedger
<1>8. /\ Len(orders') = Len(orders) + Len(batch)
      /\ \A o \in 1..Len(orders) : orders'[o] = orders[o]
      /\ \A i \in 1..Len(batch) : orders'[Len(orders) + i] = newOrders[i]
  <2>1. Len(orders') = Len(orders) + Len(newOrders)
    BY <1>1, <1>2, <1>4, ConcatTyped
  <2>2. /\ \A o \in 1..Len(orders) : (orders \o newOrders)[o] = orders[o]
        /\ \A i \in 1..Len(newOrders) : (orders \o newOrders)[Len(orders) + i] = newOrders[i]
    BY <1>2, <1>4, ConcatEntries
  <2>. QED BY <1>1, <1>4, <2>1, <2>2
<1>9. /\ \A o \in 1..Len(orders) : disputes'[o] = disputes[o]
      /\ \A i \in 1..Len(batch) : disputes'[Len(orders) + i] = newDisputes[i]
  <2>1. /\ \A o \in 1..Len(disputes) : (disputes \o newDisputes)[o] = disputes[o]
        /\ \A i \in 1..Len(newDisputes) :
             (disputes \o newDisputes)[Len(disputes) + i] = newDisputes[i]
    BY <1>2, <1>5, ConcatEntries
  <2>. QED BY <1>1, <1>2, <1>5, <2>1
<1>10. /\ \A o \in 1..Len(orders) : ledger'[o] = ledger[o]
       /\ \A i \in 1..Len(batch) : ledger'[Len(orders) + i] = newLedger[i]
  <2>1. /\ \A o \in 1..Len(ledger) : (ledger \o newLedger)[o] = ledger[o]
        /\ \A i \in 1..Len(newLedger) : (ledger \o newLedger)[Len(ledger) + i] = newLedger[i]
    BY <1>2, <1>6, ConcatEntries
  <2>. QED BY <1>1, <1>2, <1>6, <2>1
<1>11. \A i \in 1..Len(batch) : newOrders[i] \in OrderRow BY <1>4, EntryTyped
<1>. QED BY <1>7, <1>8, <1>9, <1>10, <1>11

\* What an approval writes, row by row.
LEMMA ApprovalRows ==
  ASSUME TypeOK, NEW o \in 1..Len(orders), NEW requested \in Refunds,
         ApproveDispute(o, requested)
  PROVE  LET refund == ClampRefundCents(requested, orders[o].price)
         IN  /\ Len(orders') = Len(orders)
             /\ disputes[o].status = "open"
             /\ orders'[o] = [orders[o] EXCEPT !.status = StatusAfterRefund(orders[o], refund)]
             /\ disputes'[o] = [status |-> "approved", refundCents |-> refund]
             /\ ledger'[o] = [ledger[o] EXCEPT !.refund = VendorDebit(refund)]
             /\ \A p \in 1..Len(orders) : p # o => /\ orders'[p] = orders[p]
                                                  /\ disputes'[p] = disputes[p]
                                                  /\ ledger'[p] = ledger[p]
<1>. DEFINE refund == ClampRefundCents(requested, orders[o].price)
<1>1. /\ disputes' = [disputes EXCEPT ![o] = [status |-> "approved", refundCents |-> refund]]
      /\ ledger' = [ledger EXCEPT ![o] = [ledger[o] EXCEPT !.refund = VendorDebit(refund)]]
      /\ orders' = [orders EXCEPT ![o] = [orders[o] EXCEPT !.status =
                                           StatusAfterRefund(orders[o], refund)]]
      /\ disputes[o].status = "open"
  BY DEF ApproveDispute, RecordApproval, IsOpen
<1>. HIDE DEF refund
<1>2. /\ orders \in Seq(OrderRow) /\ disputes \in Seq(DisputeRow) /\ ledger \in Seq(LedgerRow)
      /\ Len(disputes) = Len(orders) /\ Len(ledger) = Len(orders)
  BY DEF TypeOK
<1>3. Len(orders') = Len(orders) BY <1>1, <1>2
<1>4. \A p \in 1..Len(orders) :
        orders'[p] = IF p = o THEN [orders[o] EXCEPT !.status =
                                      StatusAfterRefund(orders[o], refund)]
                     ELSE orders[p]
  BY <1>1, <1>2
<1>5. \A p \in 1..Len(orders) :
        disputes'[p] = IF p = o THEN [status |-> "approved", refundCents |-> refund]
                       ELSE disputes[p]
  BY <1>1, <1>2
<1>6. \A p \in 1..Len(orders) :
        ledger'[p] = IF p = o THEN [ledger[o] EXCEPT !.refund = VendorDebit(refund)]
                     ELSE ledger[p]
  BY <1>1, <1>2
<1>. QED BY <1>1, <1>3, <1>4, <1>5, <1>6 DEF refund

\* Filing a dispute and denying it write the dispute's status and nothing else.
LEMMA FilingRows ==
  ASSUME TypeOK, NEW o \in 1..Len(orders), CreateDispute(o) \/ DenyDispute(o)
  PROVE  /\ UNCHANGED << orders, ledger >>
         /\ disputes[o].status \in {"none", "open"}
         /\ disputes'[o].status \in {"open", "denied"}
         /\ disputes'[o].refundCents = disputes[o].refundCents
         /\ \A p \in 1..Len(orders) : p # o => disputes'[p] = disputes[p]
<1>1. disputes \in Seq(DisputeRow) /\ Len(disputes) = Len(orders) BY DEF TypeOK
<1>2. disputes[o] \in DisputeRow BY <1>1
<1>3. /\ UNCHANGED << orders, ledger >>
      /\ disputes[o].status \in {"none", "open"}
      /\ \/ disputes' = [disputes EXCEPT ![o] = [disputes[o] EXCEPT !.status = "open"]]
         \/ disputes' = [disputes EXCEPT ![o] = [disputes[o] EXCEPT !.status = "denied"]]
  BY DEF CreateDispute, DenyDispute, IsOpen
<1>4. \/ disputes'[o] = [disputes[o] EXCEPT !.status = "open"]
      \/ disputes'[o] = [disputes[o] EXCEPT !.status = "denied"]
  BY <1>1, <1>3
<1>5. \A p \in 1..Len(orders) : p # o => disputes'[p] = disputes[p]
  BY <1>1, <1>3
<1>. QED BY <1>2, <1>3, <1>4, <1>5 DEF DisputeRow

-------------------------------------------------------------------------------
(* The inductive invariant: every order agrees with its dispute and its      *)
(* ledger rows.                                                              *)

\* The sale row is the vendor's share of the price and the refund row its share of
\* what the buyer was refunded; only an approval refunds, and never more than the
\* price; an order is marked refunded exactly when all of a price was.
RowsAgree(order, dispute, row) ==
  /\ row.sale = VendorCents(order.price)
  /\ row.refund = VendorCents(dispute.refundCents)
  /\ dispute.refundCents <= order.price
  /\ dispute.status # "approved" => dispute.refundCents = 0
  /\ order.status = "refunded" <=> /\ dispute.status = "approved"
                                   /\ dispute.refundCents = order.price
                                   /\ order.price > 0

DisputeBooks == \A o \in 1..Len(orders) : RowsAgree(orders[o], disputes[o], ledger[o])

\* The rows of an order have their types.
LEMMA RowTypes ==
  ASSUME TypeOK, NEW o \in 1..Len(orders)
  PROVE  orders[o] \in OrderRow /\ disputes[o] \in DisputeRow /\ ledger[o] \in LedgerRow
<1>1. o \in 1..Len(disputes) /\ o \in 1..Len(ledger) BY DEF TypeOK
<1>. QED BY <1>1, EntryTyped DEF TypeOK

LEMMA DisputeBooksInit == Init => DisputeBooks
<1>1. Init => Len(orders) = 0 BY DEF Init
<1>. QED BY <1>1 DEF DisputeBooks

\* The new orders of a purchase agree with their rows, and the old ones are kept.
LEMMA PurchaseKeepsBooks ==
  ASSUME TypeOK, DisputeBooks, NEW u \in Users, NEW batch, IsBatch(batch), Purchase(u, batch)
  PROVE  DisputeBooks'
<1>. DEFINE n == Len(orders)
<1>1. n \in Nat /\ Len(batch) \in Nat BY BatchRows DEF TypeOK
<1>2. /\ Len(orders') = n + Len(batch)
      /\ \A o \in 1..n : /\ orders'[o] = orders[o]
                         /\ disputes'[o] = disputes[o]
                         /\ ledger'[o] = ledger[o]
      /\ \A i \in 1..Len(batch) :
           /\ orders'[n + i] \in OrderRow
           /\ orders'[n + i].status = "completed"
           /\ disputes'[n + i] = [status |-> "none", refundCents |-> 0]
           /\ ledger'[n + i] = [sale |-> VendorCents(orders'[n + i].price), refund |-> 0]
  BY PurchaseAppendsRows
<1>3. SUFFICES ASSUME NEW o \in 1..Len(orders')
               PROVE  RowsAgree(orders'[o], disputes'[o], ledger'[o])
  BY DEF DisputeBooks
<1>4. CASE o \in 1..n BY <1>2, <1>4 DEF DisputeBooks
<1>5. CASE o \notin 1..n
  <2>1. PICK i \in 1..Len(batch) : o = n + i
    <3>1. o - n \in 1..Len(batch) /\ o = n + (o - n) BY <1>1, <1>2, <1>5
    <3>. QED BY <3>1
  <2>2. orders'[o].price \in Nat BY <1>2, <2>1 DEF OrderRow
  <2>3. VendorCents(0) = 0 BY DEF VendorCents
  <2>4. /\ orders'[o].status = "completed"
        /\ disputes'[o] = [status |-> "none", refundCents |-> 0]
        /\ ledger'[o] = [sale |-> VendorCents(orders'[o].price), refund |-> 0]
    BY <1>2, <2>1
  <2>5. /\ disputes'[o].status = "none" /\ disputes'[o].refundCents = 0
        /\ ledger'[o].sale = VendorCents(orders'[o].price) /\ ledger'[o].refund = 0
    BY <2>4
  <2>. QED BY <2>2, <2>3, <2>4, <2>5 DEF RowsAgree
<1>. QED BY <1>4, <1>5

\* The approved order agrees with the rows the approval writes.
LEMMA ApprovalKeepsBooks ==
  ASSUME TypeOK, DisputeBooks, NEW o \in 1..Len(orders), NEW requested \in Refunds,
         ApproveDispute(o, requested)
  PROVE  DisputeBooks'
<1>. DEFINE refund == ClampRefundCents(requested, orders[o].price)
<1>1. /\ Len(orders') = Len(orders)
      /\ disputes[o].status = "open"
      /\ orders'[o] = [orders[o] EXCEPT !.status = StatusAfterRefund(orders[o], refund)]
      /\ disputes'[o] = [status |-> "approved", refundCents |-> refund]
      /\ ledger'[o] = [ledger[o] EXCEPT !.refund = VendorDebit(refund)]
      /\ \A p \in 1..Len(orders) : p # o => /\ orders'[p] = orders[p]
                                           /\ disputes'[p] = disputes[p]
                                           /\ ledger'[p] = ledger[p]
  BY ApprovalRows
<1>2. orders[o] \in OrderRow /\ ledger[o] \in LedgerRow BY RowTypes
<1>3. orders[o].price \in Nat BY <1>2 DEF OrderRow
<1>4. refund \in Nat /\ refund <= orders[o].price
  BY <1>3, ClampRefundBounds, MarketAssumption
<1>. HIDE DEF refund
<1>5. RowsAgree(orders[o], disputes[o], ledger[o]) BY DEF DisputeBooks
<1>6. /\ orders'[o].price = orders[o].price
      /\ orders'[o].status = StatusAfterRefund(orders[o], refund)
      /\ ledger'[o].sale = ledger[o].sale
      /\ ledger'[o].refund = VendorCents(refund)
      /\ disputes'[o].status = "approved"
      /\ disputes'[o].refundCents = refund
  BY <1>1, <1>2 DEF OrderRow, LedgerRow, VendorDebit
<1>7. orders[o].status # "refunded" BY <1>1, <1>5 DEF RowsAgree
<1>8. orders'[o].status = "refunded" <=> (refund = orders[o].price /\ orders[o].price > 0)
  BY <1>3, <1>4, <1>6, <1>7 DEF StatusAfterRefund
<1>9. RowsAgree(orders'[o], disputes'[o], ledger'[o])
  BY <1>4, <1>5, <1>6, <1>8 DEF RowsAgree
<1>10. \A p \in 1..Len(orders) : p # o => RowsAgree(orders'[p], disputes'[p], ledger'[p])
  BY <1>1 DEF DisputeBooks
<1>. QED BY <1>1, <1>9, <1>10 DEF DisputeBooks

\* Filing or denying a dispute refunds nothing.
LEMMA FilingKeepsBooks ==
  ASSUME TypeOK, DisputeBooks, NEW o \in 1..Len(orders), CreateDispute(o) \/ DenyDispute(o)
  PROVE  DisputeBooks'
<1>1. /\ UNCHANGED << orders, ledger >>
      /\ disputes[o].status \in {"none", "open"}
      /\ disputes'[o].status \in {"open", "denied"}
      /\ disputes'[o].refundCents = disputes[o].refundCents
      /\ \A p \in 1..Len(orders) : p # o => disputes'[p] = disputes[p]
  BY FilingRows
<1>2. RowsAgree(orders[o], disputes[o], ledger[o]) BY DEF DisputeBooks
<1>3. RowsAgree(orders[o], disputes'[o], ledger[o]) BY <1>1, <1>2 DEF RowsAgree
<1>4. \A p \in 1..Len(orders) : p # o => RowsAgree(orders[p], disputes'[p], ledger[p])
  BY <1>1 DEF DisputeBooks
<1>. QED BY <1>1, <1>3, <1>4 DEF DisputeBooks

\* Every step keeps the orders, their disputes and their ledger rows in agreement.
LEMMA DisputeBooksStep == TypeOK /\ DisputeBooks /\ [Next]_vars => DisputeBooks'
<1>. SUFFICES ASSUME TypeOK, DisputeBooks, [Next]_vars PROVE DisputeBooks'
  OBVIOUS
<1>1. CASE UNCHANGED << orders, disputes, ledger >> BY <1>1 DEF DisputeBooks
<1>2. CASE \E u \in Users : \E batch : IsBatch(batch) /\ Purchase(u, batch)
  BY <1>2, PurchaseKeepsBooks
<1>3. CASE \E o \in 1..Len(orders), requested \in Refunds : ApproveDispute(o, requested)
  BY <1>3, ApprovalKeepsBooks
<1>4. CASE \E o \in 1..Len(orders) : CreateDispute(o) BY <1>4, FilingKeepsBooks
<1>5. CASE \E o \in 1..Len(orders) : DenyDispute(o) BY <1>5, FilingKeepsBooks
<1>. QED BY <1>1, <1>2, <1>3, <1>4, <1>5, LedgerSteps

\* An order is marked refunded exactly when an approval returned all of its price,
\* so a partial refund never frees headroom under a spend cap.
THEOREM MarketRefundsInFull == Spec => []RefundedIffFullyRefunded
<1>1. DisputeBooks => RefundedIffFullyRefunded
  BY DEF DisputeBooks, RowsAgree, RefundedIffFullyRefunded
<1>. QED BY TypeInit, TypeStep, DisputeBooksInit, DisputeBooksStep, <1>1, PTL DEF Spec

\* The platform never pays for an order, whatever the share, the price and the
\* refund: what the two floors leave to the vendor is no more than the buyer paid.
THEOREM MarketNeverPays == Spec => []PlatformNeverPays
<1>1. TypeOK /\ DisputeBooks => PlatformNeverPays
  <2>. SUFFICES ASSUME TypeOK, DisputeBooks, NEW o \in 1..Len(orders)
                PROVE  PlatformMargin(o) >= 0
    BY DEF PlatformNeverPays
  <2>. DEFINE price == orders[o].price
              refund == disputes[o].refundCents
  <2>1. price \in Nat /\ refund \in Nat BY RowTypes DEF OrderRow, DisputeRow
  <2>2. /\ ledger[o].sale = VendorCents(price) /\ ledger[o].refund = VendorCents(refund)
        /\ refund <= price
    BY DEF DisputeBooks, RowsAgree
  <2>3. VendorCents(price) \in Nat /\ VendorCents(refund) \in Nat
    BY <2>1, VendorCentsNat
  <2>4. PlatformMargin(o) = (price - refund) - (VendorCents(price) - VendorCents(refund))
    BY <2>2 DEF PlatformMargin
  <2>. HIDE DEF price, refund
  <2>5. VendorCents(price) - VendorCents(refund) <= price - refund
    BY <2>1, <2>2, ShareGrowsSlower
  <2>. QED BY <2>1, <2>3, <2>4, <2>5
<1>. QED BY TypeInit, TypeStep, DisputeBooksInit, DisputeBooksStep, <1>1, PTL DEF Spec

\* A resolved dispute is never written again: no purchase, later dispute or second
\* resolution touches its row or the ledger rows of its order.
THEOREM MarketDisputesFinal == Spec => DisputesAreFinal
<1>1. TypeOK /\ [Next]_vars =>
        [\A o \in 1..Len(orders) :
           disputes[o].status \in {"approved", "denied"} =>
             /\ disputes'[o] = disputes[o]
             /\ ledger'[o] = ledger[o]]_vars
  <2>. DEFINE final == \A o \in 1..Len(orders) :
                         disputes[o].status \in {"approved", "denied"} =>
                           disputes'[o] = disputes[o] /\ ledger'[o] = ledger[o]
  <2>. SUFFICES ASSUME TypeOK, [Next]_vars PROVE final
    OBVIOUS
  <2>1. CASE UNCHANGED << orders, disputes, ledger >> BY <2>1
  <2>2. ASSUME NEW u \in Users, NEW batch, IsBatch(batch), Purchase(u, batch)
        PROVE  final
    BY <2>2, PurchaseAppendsRows
  <2>3. ASSUME NEW o \in 1..Len(orders), NEW requested \in Refunds,
               ApproveDispute(o, requested)
        PROVE  final
    BY <2>3, ApprovalRows
  <2>4. ASSUME NEW o \in 1..Len(orders), CreateDispute(o) \/ DenyDispute(o)
        PROVE  final
    BY <2>4, FilingRows
  <2>. HIDE DEF final
  <2>. QED BY <2>1, <2>2, <2>3, <2>4, LedgerSteps
<1>. QED BY TypeInit, TypeStep, <1>1, PTL DEF Spec, DisputesAreFinal

-------------------------------------------------------------------------------
(*****************************************************************************)
(* The books: every wallet is what was topped up and rewarded minus what its *)
(* orders cost, and every vendor is owed or has kept what its orders earned. *)
(*****************************************************************************)

-------------------------------------------------------------------------------
(* Sums of rows.                                                             *)

\* Sequences with the same entries are the same.
LEMMA SameEntries ==
  ASSUME NEW s \in Seq(Int), NEW t \in Seq(Int), Len(s) = Len(t),
         \A i \in 1..Len(s) : s[i] = t[i]
  PROVE  s = t
OBVIOUS

\* A sum over rows to which others were appended.
LEMMA TotalJoin ==
  ASSUME NEW s \in Seq(Int), NEW r \in Seq(Int), NEW t \in Seq(Int),
         Len(t) = Len(s) + Len(r),
         \A i \in 1..Len(s) : t[i] = s[i],
         \A i \in 1..Len(r) : t[Len(s) + i] = r[i]
  PROVE  Total(t) = Total(s) + Total(r)
<1>1. /\ s \o r \in Seq(Int)
      /\ Len(s \o r) = Len(t)
      /\ \A i \in 1..Len(t) : (s \o r)[i] = t[i]
  <2>1. Len(s) \in Nat /\ Len(r) \in Nat OBVIOUS
  <2>2. /\ \A i \in 1..Len(s) : (s \o r)[i] = s[i]
        /\ \A i \in 1..Len(r) : (s \o r)[Len(s) + i] = r[i]
    BY ConcatEntries
  <2>3. ASSUME NEW i \in 1..Len(t) PROVE (s \o r)[i] = t[i]
    <3>1. CASE i <= Len(s) BY <2>1, <2>2, <3>1
    <3>2. CASE ~(i <= Len(s))
      <4>1. i - Len(s) \in 1..Len(r) /\ Len(s) + (i - Len(s)) = i BY <2>1, <3>2
      <4>. QED BY <2>2, <4>1
    <3>. QED BY <3>1, <3>2
  <2>. QED BY <2>3, ConcatTyped
<1>2. s \o r = t BY <1>1, SameEntries
<1>. QED BY <1>2, TotalConcat

\* The columns that are added up, as functions of the rows alone.
ToppedOf(rows, u) ==
  [s \in 1..Len(rows) |-> IF rows[s].userId = u /\ rows[s].status = "completed"
                          THEN rows[s].amount ELSE 0]

NetOf(rows, settled, u) ==
  [o \in 1..Len(rows) |-> IF rows[o].userId = u
                          THEN rows[o].price - settled[o].refundCents ELSE 0]

EarnedOf(rows, book, v) ==
  [o \in 1..Len(rows) |-> IF VendorOf[rows[o].leadId] = v
                          THEN book[o].sale - book[o].refund ELSE 0]

Rewarded(slots, u) == \E r \in Users : slots[r] = [status |-> "rewarded", referredUserId |-> u]

RewardIn(slots, u) ==
  (IF slots[u].status = "rewarded" THEN RewardCents ELSE 0) +
  (IF Rewarded(slots, u) THEN RewardCents ELSE 0)

LEMMA ToppedTyped ==
  ASSUME NEW rows \in Seq(SessionRow), NEW u
  PROVE  /\ ToppedOf(rows, u) \in Seq(Int) /\ Len(ToppedOf(rows, u)) = Len(rows)
         /\ Total(ToppedOf(rows, u)) \in Int
<1>. DEFINE t == ToppedOf(rows, u)
<1>1. \A s \in 1..Len(rows) : rows[s].amount \in Nat
  <2>1. \A s \in 1..Len(rows) : rows[s] \in SessionRow BY EntryTyped
  <2>. QED BY <2>1 DEF SessionRow
<1>2. t \in Seq(Int) /\ Len(t) = Len(rows)
  <2>1. Len(rows) \in Nat OBVIOUS
  <2>2. \A s \in 1..Len(rows) : t[s] \in Int BY <1>1 DEF ToppedOf
  <2>. QED BY <2>1, <2>2 DEF ToppedOf
<1>. QED BY <1>2, TotalInt

LEMMA NetTyped ==
  ASSUME NEW rows \in Seq(OrderRow), NEW settled \in Seq(DisputeRow),
         Len(settled) = Len(rows), NEW u
  PROVE  /\ NetOf(rows, settled, u) \in Seq(Int) /\ Len(NetOf(rows, settled, u)) = Len(rows)
         /\ Total(NetOf(rows, settled, u)) \in Int
<1>. DEFINE t == NetOf(rows, settled, u)
<1>1. \A o \in 1..Len(rows) : rows[o].price \in Nat /\ settled[o].refundCents \in Nat
  <2>1. \A o \in 1..Len(rows) : rows[o] \in OrderRow BY EntryTyped
  <2>2. \A o \in 1..Len(rows) : settled[o] \in DisputeRow BY EntryTyped
  <2>. QED BY <2>1, <2>2 DEF OrderRow, DisputeRow
<1>2. t \in Seq(Int) /\ Len(t) = Len(rows)
  <2>1. Len(rows) \in Nat OBVIOUS
  <2>2. \A o \in 1..Len(rows) : t[o] \in Int BY <1>1 DEF NetOf
  <2>. QED BY <2>1, <2>2 DEF NetOf
<1>. QED BY <1>2, TotalInt

LEMMA EarnedTyped ==
  ASSUME NEW rows \in Seq(OrderRow), NEW book \in Seq(LedgerRow),
         Len(book) = Len(rows), NEW v
  PROVE  /\ EarnedOf(rows, book, v) \in Seq(Int) /\ Len(EarnedOf(rows, book, v)) = Len(rows)
         /\ Total(EarnedOf(rows, book, v)) \in Int
<1>. DEFINE t == EarnedOf(rows, book, v)
<1>1. \A o \in 1..Len(rows) : book[o].sale \in Nat /\ book[o].refund \in Nat
  <2>1. \A o \in 1..Len(rows) : book[o] \in LedgerRow BY EntryTyped
  <2>. QED BY <2>1 DEF LedgerRow
<1>2. t \in Seq(Int) /\ Len(t) = Len(rows)
  <2>1. Len(rows) \in Nat OBVIOUS
  <2>2. \A o \in 1..Len(rows) : t[o] \in Int BY <1>1 DEF EarnedOf
  <2>. QED BY <2>1, <2>2 DEF EarnedOf
<1>. QED BY <1>2, TotalInt

-------------------------------------------------------------------------------
(* What the operations do to the sums.                                       *)

\* A session that was only opened tops nothing up.
LEMMA OpenedTopsNothing ==
  ASSUME NEW rows \in Seq(SessionRow), NEW row \in SessionRow, row.status = "pending", NEW u
  PROVE  Total(ToppedOf(Append(rows, row), u)) = Total(ToppedOf(rows, u))
<1>. DEFINE longer == Append(rows, row)
            s == ToppedOf(rows, u)
            t == ToppedOf(longer, u)
<1>1. /\ longer \in Seq(SessionRow) /\ Len(longer) = Len(rows) + 1 /\ Len(rows) \in Nat
      /\ \A i \in 1..Len(rows) : longer[i] = rows[i]
      /\ longer[Len(rows) + 1] = row
  OBVIOUS
<1>. HIDE DEF longer
<1>2. s \in Seq(Int) /\ Len(s) = Len(rows) /\ Total(s) \in Int BY ToppedTyped
<1>3. t \in Seq(Int) /\ Len(t) = Len(rows) + 1 BY <1>1, ToppedTyped
<1>4. \A i \in 1..Len(rows) : t[i] = s[i] BY <1>1 DEF ToppedOf
<1>5. t[Len(rows) + 1] = 0 BY <1>1 DEF ToppedOf
<1>. HIDE DEF s, t
<1>. DEFINE zero == << 0 >>
<1>6. zero \in Seq(Int) /\ Len(zero) = 1 /\ \A i \in 1..Len(zero) : zero[i] = 0
  OBVIOUS
<1>. HIDE DEF zero
<1>7. \A i \in 1..Len(zero) : t[Len(s) + i] = zero[i] BY <1>2, <1>5, <1>6
<1>8. Total(t) = Total(s) + Total(zero)
  <2>1. Len(t) = Len(s) + Len(zero) /\ \A i \in 1..Len(s) : t[i] = s[i]
    BY <1>2, <1>3, <1>4, <1>6
  <2>. QED BY <1>2, <1>3, <1>6, <1>7, <2>1, TotalJoin
<1>9. Total(zero) = 0 BY <1>6, TotalZeros
<1>. QED BY <1>2, <1>8, <1>9 DEF s, t, longer

\* A completed session tops up its user's wallet and no other.
LEMMA CompletedTopsUp ==
  ASSUME NEW rows \in Seq(SessionRow), NEW k \in 1..Len(rows), rows[k].status = "pending",
         NEW u
  PROVE  Total(ToppedOf([rows EXCEPT ![k].status = "completed"], u)) =
           Total(ToppedOf(rows, u)) + (IF rows[k].userId = u THEN rows[k].amount ELSE 0)
<1>. DEFINE after == [rows EXCEPT ![k] = [rows[k] EXCEPT !.status = "completed"]]
            s == ToppedOf(rows, u)
            t == ToppedOf(after, u)
            d == IF rows[k].userId = u THEN rows[k].amount ELSE 0
<1>1. rows[k] \in SessionRow BY EntryTyped
<1>2. [rows[k] EXCEPT !.status = "completed"] \in SessionRow BY <1>1 DEF SessionRow
<1>3. after \in Seq(SessionRow) /\ Len(after) = Len(rows) BY <1>2, UpdateTyped
<1>4. \A i \in 1..Len(rows) :
        after[i] = IF i = k THEN [rows[k] EXCEPT !.status = "completed"] ELSE rows[i]
  OBVIOUS
<1>5. /\ after[k].userId = rows[k].userId /\ after[k].amount = rows[k].amount
      /\ after[k].status = "completed"
  BY <1>1, <1>4 DEF SessionRow
<1>. HIDE DEF after
<1>6. s \in Seq(Int) /\ Len(s) = Len(rows) /\ Total(s) \in Int BY ToppedTyped
<1>7. t \in Seq(Int) /\ Len(t) = Len(rows) BY <1>3, ToppedTyped
<1>8. \A i \in 1..Len(rows) : i # k => t[i] = s[i] BY <1>3, <1>4 DEF ToppedOf
<1>9. t[k] = d /\ s[k] = 0 BY <1>3, <1>5 DEF ToppedOf
<1>10. d \in Int BY <1>1 DEF SessionRow
<1>. HIDE DEF s, t, d
<1>11. Total(t) = Total(s) + t[k] - s[k] BY <1>6, <1>7, <1>8, TotalUpdate
<1>12. Total(t) = Total(s) + d BY <1>6, <1>9, <1>10, <1>11
<1>13. after = [rows EXCEPT ![k].status = "completed"] BY DEF after
<1>. QED BY <1>12, <1>13 DEF s, t, d

\* Rows that pay out before and after a step are the same: so are the rewards.
LEMMA SameRewards ==
  ASSUME NEW old \in [Users -> ReferralSlot], NEW new \in [Users -> ReferralSlot],
         \A r \in Users : old[r].status = "rewarded" \/ new[r].status = "rewarded"
                            => new[r] = old[r]
  PROVE  \A u \in Users : RewardIn(new, u) = RewardIn(old, u)
<1>. SUFFICES ASSUME NEW u \in Users PROVE RewardIn(new, u) = RewardIn(old, u)
  OBVIOUS
<1>1. new[u].status = "rewarded" <=> old[u].status = "rewarded" OBVIOUS
<1>2. Rewarded(new, u) <=> Rewarded(old, u) BY DEF Rewarded
<1>. QED BY <1>1, <1>2 DEF RewardIn

\* A row that u redeemed pays its referrer and u once each, and nobody else.
LEMMA NewReward ==
  ASSUME NEW old \in [Users -> ReferralSlot], NEW new \in [Users -> ReferralSlot],
         NEW u \in Users, NEW r \in Users, r # u,
         old[r] = [status |-> "redeemed", referredUserId |-> u],
         \A q \in Users : old[q].referredUserId = u => q = r,
         new[r] = [status |-> "rewarded", referredUserId |-> u],
         \A q \in Users : q # r => new[q] = old[q]
  PROVE  \A x \in Users :
           RewardIn(new, x) = RewardIn(old, x) + (IF x \in {r, u} THEN RewardCents ELSE 0)
<1>. SUFFICES ASSUME NEW x \in Users
              PROVE  RewardIn(new, x) = RewardIn(old, x) + (IF x \in {r, u} THEN RewardCents ELSE 0)
  OBVIOUS
<1>1. RewardCents \in Nat BY MarketAssumption
<1>2. ~Rewarded(old, u) BY DEF Rewarded
<1>3. Rewarded(new, u) BY DEF Rewarded
<1>4. x # u => (Rewarded(new, x) <=> Rewarded(old, x))
  <2>. SUFFICES ASSUME x # u PROVE Rewarded(new, x) <=> Rewarded(old, x) OBVIOUS
  <2>1. ASSUME NEW q \in Users
        PROVE  new[q] = [status |-> "rewarded", referredUserId |-> x]
                 <=> old[q] = [status |-> "rewarded", referredUserId |-> x]
    OBVIOUS
  <2>. QED BY <2>1 DEF Rewarded
<1>5. CASE x = u
  <2>1. new[u] = old[u] BY DEF ReferralSlot
  <2>. QED BY <1>1, <1>2, <1>3, <1>5, <2>1 DEF RewardIn
<1>6. CASE x = r
  <2>1. old[x].status # "rewarded" /\ new[x].status = "rewarded" BY <1>6
  <2>. QED BY <1>1, <1>4, <1>6, <2>1 DEF RewardIn
<1>7. CASE x # u /\ x # r
  <2>1. new[x] = old[x] BY <1>7
  <2>. QED BY <1>1, <1>4, <1>7, <2>1 DEF RewardIn
<1>. QED BY <1>5, <1>6, <1>7

\* The buyer, the lead and the price of the orders a purchase appends.
LEMMA PurchaseAppendsSales ==
  ASSUME TypeOK, NEW u \in Users, NEW batch, IsBatch(batch), Purchase(u, batch)
  PROVE  \A i \in 1..Len(batch) :
           /\ orders'[Len(orders) + i].userId = u
           /\ orders'[Len(orders) + i].leadId = batch[i]
           /\ orders'[Len(orders) + i].price = Price[batch[i]]
<1>. DEFINE new == [i \in 1..Len(batch) |->
                      [userId |-> u, leadId |-> batch[i], price |-> Price[batch[i]],
                       status |-> "completed", month |-> month]]
<1>1. orders' = orders \o new BY DEF Purchase, RecordPurchase
<1>2. orders \in Seq(OrderRow) BY DEF TypeOK
<1>3. new \in Seq(OrderRow) /\ Len(new) = Len(batch)
  <2>1. \A i \in 1..Len(batch) : new[i] \in OrderRow
    BY BatchRows DEF OrderRow, TypeOK
  <2>. QED BY <2>1, BatchRows
<1>4. \A i \in 1..Len(batch) :
        new[i].userId = u /\ new[i].leadId = batch[i] /\ new[i].price = Price[batch[i]]
  OBVIOUS
<1>. HIDE DEF new
<1>5. \A i \in 1..Len(new) : (orders \o new)[Len(orders) + i] = new[i]
  BY <1>2, <1>3, ConcatEntries
<1>. QED BY <1>1, <1>3, <1>4, <1>5

\* A purchase adds the price of its batch to what the buyer paid, to nobody else's.
LEMMA PurchaseNet ==
  ASSUME TypeOK, TypeOK', NEW u \in Users, NEW batch, IsBatch(batch), Purchase(u, batch), NEW x
  PROVE  Total(NetOf(orders', disputes', x)) =
           Total(NetOf(orders, disputes, x)) + (IF x = u THEN BatchPrice(batch) ELSE 0)
<1>. DEFINE n == Len(orders)
            s == NetOf(orders, disputes, x)
            t == NetOf(orders', disputes', x)
            r == [i \in 1..Len(batch) |-> IF x = u THEN Price[batch[i]] ELSE 0]
<1>1. n \in Nat /\ Len(batch) \in Nat /\ \A i \in 1..Len(batch) : Price[batch[i]] \in Nat
  BY BatchRows DEF TypeOK
<1>2. /\ Len(orders') = n + Len(batch)
      /\ \A o \in 1..n : orders'[o] = orders[o] /\ disputes'[o] = disputes[o]
      /\ \A i \in 1..Len(batch) :
           disputes'[n + i] = [status |-> "none", refundCents |-> 0]
  BY PurchaseAppendsRows
<1>3. \A i \in 1..Len(batch) : orders'[n + i].userId = u /\ orders'[n + i].price = Price[batch[i]]
  BY PurchaseAppendsSales
<1>4. s \in Seq(Int) /\ Len(s) = n BY NetTyped DEF TypeOK
<1>5. t \in Seq(Int) /\ Len(t) = n + Len(batch) BY <1>2, NetTyped DEF TypeOK
<1>6. r \in Seq(Int) /\ Len(r) = Len(batch) BY <1>1
<1>7. \A o \in 1..n : t[o] = s[o]
  <2>1. \A o \in 1..n : o \in 1..Len(orders') BY <1>1, <1>2
  <2>. QED BY <1>2, <2>1 DEF NetOf
<1>8. \A i \in 1..Len(batch) : t[n + i] = r[i]
  <2>. SUFFICES ASSUME NEW i \in 1..Len(batch) PROVE t[n + i] = r[i] OBVIOUS
  <2>1. n + i \in 1..Len(orders') BY <1>1, <1>2
  <2>2. disputes'[n + i].refundCents = 0 BY <1>2
  <2>3. Price[batch[i]] - 0 = Price[batch[i]] BY <1>1
  <2>4. t[n + i] = IF orders'[n + i].userId = x
                   THEN orders'[n + i].price - disputes'[n + i].refundCents ELSE 0
    BY <2>1 DEF NetOf
  <2>. QED BY <1>3, <2>2, <2>3, <2>4
<1>9. Total(r) = IF x = u THEN BatchPrice(batch) ELSE 0
  <2>1. CASE x = u BY <2>1 DEF BatchPrice
  <2>2. CASE x # u
    <3>1. \A i \in 1..Len(r) : r[i] = 0 BY <2>2
    <3>. HIDE DEF r
    <3>. QED BY <1>6, <2>2, <3>1, TotalZeros
  <2>. QED BY <2>1, <2>2
<1>. HIDE DEF s, t, r
<1>10. Total(t) = Total(s) + Total(r)
  <2>1. /\ Len(t) = Len(s) + Len(r)
        /\ \A i \in 1..Len(s) : t[i] = s[i]
        /\ \A i \in 1..Len(r) : t[Len(s) + i] = r[i]
    BY <1>4, <1>5, <1>6, <1>7, <1>8
  <2>. QED BY <1>4, <1>5, <1>6, <2>1, TotalJoin
<1>. QED BY <1>9, <1>10 DEF s, t

\* A purchase adds its batch's credit to what a vendor earned.
LEMMA PurchaseEarned ==
  ASSUME TypeOK, TypeOK', NEW u \in Users, NEW batch, IsBatch(batch), Purchase(u, batch), NEW v
  PROVE  Total(EarnedOf(orders', ledger', v)) =
           Total(EarnedOf(orders, ledger, v)) + BatchCredit(batch, v)
<1>. DEFINE n == Len(orders)
            s == EarnedOf(orders, ledger, v)
            t == EarnedOf(orders', ledger', v)
            r == [i \in 1..Len(batch) |->
                    IF VendorOf[batch[i]] = v THEN VendorCents(Price[batch[i]]) ELSE 0]
<1>1. n \in Nat /\ Len(batch) \in Nat BY BatchRows DEF TypeOK
<1>2. /\ Len(orders') = n + Len(batch)
      /\ \A o \in 1..n : orders'[o] = orders[o] /\ ledger'[o] = ledger[o]
      /\ \A i \in 1..Len(batch) :
           ledger'[n + i] = [sale |-> VendorCents(orders'[n + i].price), refund |-> 0]
  BY PurchaseAppendsRows
<1>3. \A i \in 1..Len(batch) : orders'[n + i].leadId = batch[i] /\ orders'[n + i].price = Price[batch[i]]
  BY PurchaseAppendsSales
<1>4. s \in Seq(Int) /\ Len(s) = n BY EarnedTyped DEF TypeOK
<1>5. t \in Seq(Int) /\ Len(t) = n + Len(batch) BY <1>2, EarnedTyped DEF TypeOK
<1>6. \A i \in 1..Len(batch) : VendorCents(Price[batch[i]]) \in Nat
  BY BatchRows, VendorCentsNat
<1>7. r \in Seq(Int) /\ Len(r) = Len(batch) BY <1>1, <1>6
<1>8. \A o \in 1..n : t[o] = s[o]
  <2>1. \A o \in 1..n : o \in 1..Len(orders') BY <1>1, <1>2
  <2>. QED BY <1>2, <2>1 DEF EarnedOf
<1>9. \A i \in 1..Len(batch) : t[n + i] = r[i]
  <2>. SUFFICES ASSUME NEW i \in 1..Len(batch) PROVE t[n + i] = r[i] OBVIOUS
  <2>. DEFINE share == VendorCents(Price[batch[i]])
  <2>1. n + i \in 1..Len(orders') BY <1>1, <1>2
  <2>2. ledger'[n + i].sale = share /\ ledger'[n + i].refund = 0
    <3>1. ledger'[n + i] = [sale |-> VendorCents(orders'[n + i].price), refund |-> 0] BY <1>2
    <3>2. VendorCents(orders'[n + i].price) = share BY <1>3
    <3>. QED BY <3>1, <3>2
  <2>3. share \in Nat BY <1>6
  <2>4. t[n + i] = IF VendorOf[orders'[n + i].leadId] = v
                   THEN ledger'[n + i].sale - ledger'[n + i].refund ELSE 0
    BY <2>1 DEF EarnedOf
  <2>5. r[i] = IF VendorOf[batch[i]] = v THEN share ELSE 0 OBVIOUS
  <2>. HIDE DEF share, r
  <2>6. share - 0 = share BY <2>3
  <2>. QED BY <1>3, <2>2, <2>4, <2>5, <2>6
<1>10. Total(r) = BatchCredit(batch, v) BY DEF BatchCredit
<1>. HIDE DEF s, t, r
<1>11. Total(t) = Total(s) + Total(r)
  <2>1. /\ Len(t) = Len(s) + Len(r)
        /\ \A i \in 1..Len(s) : t[i] = s[i]
        /\ \A i \in 1..Len(r) : t[Len(s) + i] = r[i]
    BY <1>4, <1>5, <1>7, <1>8, <1>9
  <2>. QED BY <1>4, <1>5, <1>7, <2>1, TotalJoin
<1>. QED BY <1>10, <1>11 DEF s, t

\* An approval takes the refund off what the buyer of the order paid.
LEMMA ApprovalNet ==
  ASSUME TypeOK, TypeOK', DisputeBooks, NEW o \in 1..Len(orders), NEW requested \in Refunds,
         ApproveDispute(o, requested), NEW x
  PROVE  Total(NetOf(orders', disputes', x)) =
           Total(NetOf(orders, disputes, x)) -
             (IF x = orders[o].userId THEN ClampRefundCents(requested, orders[o].price) ELSE 0)
<1>. DEFINE refund == ClampRefundCents(requested, orders[o].price)
            s == NetOf(orders, disputes, x)
            t == NetOf(orders', disputes', x)
<1>1. /\ Len(orders') = Len(orders)
      /\ disputes[o].status = "open"
      /\ orders'[o] = [orders[o] EXCEPT !.status = StatusAfterRefund(orders[o], refund)]
      /\ disputes'[o] = [status |-> "approved", refundCents |-> refund]
      /\ \A p \in 1..Len(orders) : p # o => orders'[p] = orders[p] /\ disputes'[p] = disputes[p]
  BY ApprovalRows
<1>2. orders[o] \in OrderRow /\ orders[o].price \in Nat
  <2>1. orders[o] \in OrderRow BY RowTypes
  <2>. QED BY <2>1 DEF OrderRow
<1>3. refund \in Nat BY <1>2, ClampRefundBounds, MarketAssumption
<1>. HIDE DEF refund
<1>4. disputes[o].refundCents = 0 BY <1>1 DEF DisputeBooks, RowsAgree
<1>5. /\ orders'[o].userId = orders[o].userId /\ orders'[o].price = orders[o].price
      /\ disputes'[o].refundCents = refund
  BY <1>1, <1>2 DEF OrderRow
<1>6. s \in Seq(Int) /\ Len(s) = Len(orders) /\ Total(s) \in Int BY NetTyped DEF TypeOK
<1>7. t \in Seq(Int) /\ Len(t) = Len(orders) BY <1>1, NetTyped DEF TypeOK
<1>8. \A p \in 1..Len(orders) : p # o => t[p] = s[p] BY <1>1 DEF NetOf
<1>9. /\ s[o] = IF orders[o].userId = x THEN orders[o].price - 0 ELSE 0
      /\ t[o] = IF orders[o].userId = x THEN orders[o].price - refund ELSE 0
  BY <1>1, <1>4, <1>5 DEF NetOf
<1>. HIDE DEF s, t
<1>10. Total(t) = Total(s) + t[o] - s[o] BY <1>6, <1>7, <1>8, TotalUpdate
<1>11. Total(t) = Total(s) - (IF x = orders[o].userId THEN refund ELSE 0)
  <2>1. CASE x = orders[o].userId BY <1>2, <1>3, <1>6, <1>9, <1>10, <2>1
  <2>2. CASE x # orders[o].userId BY <1>6, <1>9, <1>10, <2>2
  <2>. QED BY <2>1, <2>2
<1>. QED BY <1>11 DEF s, t, refund

\* An approval takes the vendor's share of the refund off what the vendor earned.
LEMMA ApprovalEarned ==
  ASSUME TypeOK, TypeOK', DisputeBooks, NEW o \in 1..Len(orders), NEW requested \in Refunds,
         ApproveDispute(o, requested), NEW v
  PROVE  Total(EarnedOf(orders', ledger', v)) =
           Total(EarnedOf(orders, ledger, v)) -
             (IF v = VendorOf[orders[o].leadId]
              THEN VendorDebit(ClampRefundCents(requested, orders[o].price)) ELSE 0)
<1>. DEFINE debit == VendorDebit(ClampRefundCents(requested, orders[o].price))
            s == EarnedOf(orders, ledger, v)
            t == EarnedOf(orders', ledger', v)
<1>1. /\ Len(orders') = Len(orders)
      /\ disputes[o].status = "open"
      /\ ledger'[o] = [ledger[o] EXCEPT !.refund = debit]
      /\ \A p \in 1..Len(orders) : p # o => orders'[p] = orders[p] /\ ledger'[p] = ledger[p]
  BY ApprovalRows
<1>2. orders[o] \in OrderRow /\ ledger[o] \in LedgerRow /\ orders[o].price \in Nat
  <2>1. orders[o] \in OrderRow /\ ledger[o] \in LedgerRow BY RowTypes
  <2>. QED BY <2>1 DEF OrderRow
<1>3. orders'[o].leadId = orders[o].leadId
  <2>1. orders'[o] = [orders[o] EXCEPT !.status =
                 StatusAfterRefund(orders[o], ClampRefundCents(requested, orders[o].price))]
    BY ApprovalRows
  <2>. QED BY <1>2, <2>1 DEF OrderRow
<1>4. debit \in Nat
  <2>1. ClampRefundCents(requested, orders[o].price) \in Nat
    BY <1>2, ClampRefundBounds, MarketAssumption
  <2>. QED BY <2>1, VendorCentsNat DEF VendorDebit
<1>. HIDE DEF debit
<1>5. ledger[o].sale \in Nat /\ ledger[o].refund = 0
  <2>1. ledger[o].refund = VendorCents(disputes[o].refundCents) /\ disputes[o].refundCents = 0
    BY <1>1 DEF DisputeBooks, RowsAgree
  <2>. QED BY <1>2, <2>1 DEF LedgerRow, VendorCents
<1>6. ledger'[o].sale = ledger[o].sale /\ ledger'[o].refund = debit
  BY <1>1, <1>2 DEF LedgerRow
<1>7. s \in Seq(Int) /\ Len(s) = Len(orders) /\ Total(s) \in Int BY EarnedTyped DEF TypeOK
<1>8. t \in Seq(Int) /\ Len(t) = Len(orders) BY <1>1, EarnedTyped DEF TypeOK
<1>9. \A p \in 1..Len(orders) : p # o => t[p] = s[p] BY <1>1 DEF EarnedOf
<1>10. /\ s[o] = IF VendorOf[orders[o].leadId] = v THEN ledger[o].sale - 0 ELSE 0
       /\ t[o] = IF VendorOf[orders[o].leadId] = v THEN ledger[o].sale - debit ELSE 0
  BY <1>1, <1>3, <1>5, <1>6 DEF EarnedOf
<1>. HIDE DEF s, t
<1>11. Total(t) = Total(s) + t[o] - s[o] BY <1>7, <1>8, <1>9, TotalUpdate
<1>12. Total(t) = Total(s) - (IF v = VendorOf[orders[o].leadId] THEN debit ELSE 0)
  <2>1. CASE v = VendorOf[orders[o].leadId] BY <1>4, <1>5, <1>7, <1>10, <1>11, <2>1
  <2>2. CASE v # VendorOf[orders[o].leadId] BY <1>7, <1>10, <1>11, <2>2
  <2>. QED BY <2>1, <2>2
<1>. QED BY <1>12 DEF s, t, debit

-------------------------------------------------------------------------------
(* The wallets.                                                              *)

\* WalletConservation over the sums above.
WalletBooks ==
  \A u \in Users :
    balance[u] = Total(ToppedOf(sessions, u)) + RewardIn(referrals, u)
                   - Total(NetOf(orders, disputes, u))

LEMMA WalletsAreBooks == WalletBooks <=> WalletConservation
BY DEF WalletBooks, WalletConservation, ToppedOf, ToppedUp, RewardIn, Rewarded, RewardsOf,
       NetOf, NetPaid

\* What WalletBooks adds up are integers.
LEMMA WalletSumsTyped ==
  ASSUME TypeOK, NEW u \in Users
  PROVE  /\ balance[u] \in Int
         /\ Total(ToppedOf(sessions, u)) \in Int
         /\ RewardIn(referrals, u) \in Int
         /\ Total(NetOf(orders, disputes, u)) \in Int
<1>1. balance[u] \in Int BY DEF TypeOK
<1>2. Total(ToppedOf(sessions, u)) \in Int BY ToppedTyped DEF TypeOK
<1>3. RewardIn(referrals, u) \in Int BY MarketAssumption DEF RewardIn
<1>4. Total(NetOf(orders, disputes, u)) \in Int BY NetTyped DEF TypeOK
<1>. QED BY <1>1, <1>2, <1>3, <1>4

\* A top-up session: opened, nothing changes hands; completed, the wallet gets its
\* amount.
LEMMA SessionKeepsWallets ==
  ASSUME TypeOK, WalletBooks,
         \/ \E u \in Payers, amount \in TopUps : CreateStripeSession(u, amount)
         \/ \E s \in 1..Len(sessions) : CreditUserFromStripe(s)
  PROVE  WalletBooks'
<1>1. ASSUME NEW u \in Payers, NEW amount \in TopUps, CreateStripeSession(u, amount)
      PROVE  WalletBooks'
  <2>. DEFINE row == [userId |-> u, amount |-> amount, status |-> "pending"]
  <2>1. row \in SessionRow /\ row.status = "pending" BY MarketAssumption DEF SessionRow
  <2>2. sessions' = Append(sessions, row) /\ UNCHANGED << balance, referrals, orders, disputes >>
    BY <1>1 DEF CreateStripeSession
  <2>. HIDE DEF row
  <2>3. \A x : Total(ToppedOf(sessions', x)) = Total(ToppedOf(sessions, x))
    BY <2>1, <2>2, OpenedTopsNothing DEF TypeOK
  <2>. QED BY <2>2, <2>3 DEF WalletBooks
<1>2. ASSUME NEW s \in 1..Len(sessions), CreditUserFromStripe(s)
      PROVE  WalletBooks'
  <2>. DEFINE u == sessions[s].userId
              amount == sessions[s].amount
  <2>1. /\ sessions[s].status = "pending"
        /\ sessions' = [sessions EXCEPT ![s].status = "completed"]
        /\ balance' = [balance EXCEPT ![u] = balance[u] + amount]
        /\ UNCHANGED << referrals, orders, disputes >>
    BY <1>2 DEF CreditUserFromStripe
  <2>2. u \in Users /\ amount \in Nat
    <3>1. sessions[s] \in SessionRow BY EntryTyped DEF TypeOK
    <3>. QED BY <3>1 DEF SessionRow
  <2>3. \A x : Total(ToppedOf(sessions', x)) =
                 Total(ToppedOf(sessions, x)) + (IF u = x THEN amount ELSE 0)
    BY <2>1, CompletedTopsUp DEF TypeOK
  <2>. HIDE DEF u, amount
  <2>4. \A x \in Users : balance'[x] = balance[x] + (IF u = x THEN amount ELSE 0)
    <3>1. balance \in [Users -> Nat] BY DEF TypeOK
    <3>. QED BY <2>1, <2>2, <3>1
  <2>5. ASSUME NEW x \in Users
        PROVE  balance'[x] = Total(ToppedOf(sessions', x)) + RewardIn(referrals', x)
                               - Total(NetOf(orders', disputes', x))
    <3>1. balance[x] = Total(ToppedOf(sessions, x)) + RewardIn(referrals, x)
                         - Total(NetOf(orders, disputes, x))
      BY DEF WalletBooks
    <3>2. /\ Total(ToppedOf(sessions, x)) \in Int /\ RewardIn(referrals, x) \in Int
          /\ Total(NetOf(orders, disputes, x)) \in Int
      BY WalletSumsTyped
    <3>3. /\ RewardIn(referrals', x) = RewardIn(referrals, x)
          /\ Total(NetOf(orders', disputes', x)) = Total(NetOf(orders, disputes, x))
      BY <2>1
    <3>4. (IF u = x THEN amount ELSE 0) \in Int BY <2>2
    <3>5. balance'[x] = balance[x] + (IF u = x THEN amount ELSE 0) BY <2>4
    <3>6. Total(ToppedOf(sessions', x)) =
            Total(ToppedOf(sessions, x)) + (IF u = x THEN amount ELSE 0)
      BY <2>3
    <3>. QED BY <3>1, <3>2, <3>3, <3>4, <3>5, <3>6
  <2>. QED BY <2>5 DEF WalletBooks
<1>. QED BY <1>1, <1>2

\* A purchase takes from the wallet what its orders cost.
LEMMA PurchaseKeepsWallets ==
  ASSUME TypeOK, TypeOK', WalletBooks,
         NEW u \in Users, NEW batch, IsBatch(batch), Purchase(u, batch)
  PROVE  WalletBooks'
<1>. DEFINE price == BatchPrice(batch)
<1>1. /\ balance' = [balance EXCEPT ![u] = balance[u] - price]
      /\ UNCHANGED << sessions, referrals >>
  BY DEF Purchase, RecordPurchase
<1>2. price \in Nat BY BatchPriceNat
<1>3. \A x : Total(NetOf(orders', disputes', x)) =
               Total(NetOf(orders, disputes, x)) + (IF x = u THEN price ELSE 0)
  BY PurchaseNet
<1>. HIDE DEF price
<1>4. \A x \in Users : balance'[x] = balance[x] - (IF x = u THEN price ELSE 0)
  <2>1. balance \in [Users -> Nat] BY DEF TypeOK
  <2>. QED BY <1>1, <1>2, <2>1
<1>5. ASSUME NEW x \in Users
      PROVE  balance'[x] = Total(ToppedOf(sessions', x)) + RewardIn(referrals', x)
                             - Total(NetOf(orders', disputes', x))
  <2>1. balance[x] = Total(ToppedOf(sessions, x)) + RewardIn(referrals, x)
                       - Total(NetOf(orders, disputes, x))
    BY DEF WalletBooks
  <2>2. /\ Total(ToppedOf(sessions, x)) \in Int /\ RewardIn(referrals, x) \in Int
        /\ Total(NetOf(orders, disputes, x)) \in Int
    BY WalletSumsTyped
  <2>3. /\ RewardIn(referrals', x) = RewardIn(referrals, x)
        /\ Total(ToppedOf(sessions', x)) = Total(ToppedOf(sessions, x))
    BY <1>1
  <2>4. (IF x = u THEN price ELSE 0) \in Int BY <1>2
  <2>5. balance'[x] = balance[x] - (IF x = u THEN price ELSE 0) BY <1>4
  <2>6. Total(NetOf(orders', disputes', x)) =
          Total(NetOf(orders, disputes, x)) + (IF x = u THEN price ELSE 0)
    BY <1>3
  <2>. QED BY <2>1, <2>2, <2>3, <2>4, <2>5, <2>6
<1>. QED BY <1>5 DEF WalletBooks

\* An approval returns to the wallet what it takes off the cost of the order.
LEMMA ApprovalKeepsWallets ==
  ASSUME TypeOK, TypeOK', DisputeBooks, WalletBooks,
         NEW o \in 1..Len(orders), NEW requested \in Refunds, ApproveDispute(o, requested)
  PROVE  WalletBooks'
<1>. DEFINE refund == ClampRefundCents(requested, orders[o].price)
            u == orders[o].userId
<1>1. /\ balance' = [balance EXCEPT ![u] = balance[u] + refund]
      /\ UNCHANGED << sessions, referrals >>
  BY DEF ApproveDispute, RecordApproval
<1>2. u \in Users /\ refund \in Nat
  <2>1. orders[o] \in OrderRow BY RowTypes
  <2>2. u \in Users /\ orders[o].price \in Nat BY <2>1 DEF OrderRow
  <2>. QED BY <2>2, ClampRefundBounds, MarketAssumption
<1>3. \A x : Total(NetOf(orders', disputes', x)) =
               Total(NetOf(orders, disputes, x)) - (IF x = u THEN refund ELSE 0)
  BY ApprovalNet
<1>. HIDE DEF refund, u
<1>4. \A x \in Users : balance'[x] = balance[x] + (IF x = u THEN refund ELSE 0)
  <2>1. balance \in [Users -> Nat] BY DEF TypeOK
  <2>. QED BY <1>1, <1>2, <2>1
<1>5. ASSUME NEW x \in Users
      PROVE  balance'[x] = Total(ToppedOf(sessions', x)) + RewardIn(referrals', x)
                             - Total(NetOf(orders', disputes', x))
  <2>1. balance[x] = Total(ToppedOf(sessions, x)) + RewardIn(referrals, x)
                       - Total(NetOf(orders, disputes, x))
    BY DEF WalletBooks
  <2>2. /\ Total(ToppedOf(sessions, x)) \in Int /\ RewardIn(referrals, x) \in Int
        /\ Total(NetOf(orders, disputes, x)) \in Int
    BY WalletSumsTyped
  <2>3. /\ RewardIn(referrals', x) = RewardIn(referrals, x)
        /\ Total(ToppedOf(sessions', x)) = Total(ToppedOf(sessions, x))
    BY <1>1
  <2>4. (IF x = u THEN refund ELSE 0) \in Int BY <1>2
  <2>5. balance'[x] = balance[x] + (IF x = u THEN refund ELSE 0) BY <1>4
  <2>6. Total(NetOf(orders', disputes', x)) =
          Total(NetOf(orders, disputes, x)) - (IF x = u THEN refund ELSE 0)
    BY <1>3
  <2>. QED BY <2>1, <2>2, <2>3, <2>4, <2>5, <2>6
<1>. QED BY <1>5 DEF WalletBooks

\* Filing or denying a dispute refunds nothing.
LEMMA FilingKeepsWallets ==
  ASSUME TypeOK, WalletBooks, NEW o \in 1..Len(orders), CreateDispute(o) \/ DenyDispute(o)
  PROVE  WalletBooks'
<1>1. UNCHANGED << balance, sessions, referrals, orders >> BY DEF CreateDispute, DenyDispute
<1>2. \A p \in 1..Len(orders) : disputes'[p].refundCents = disputes[p].refundCents
  BY FilingRows
<1>3. \A x : NetOf(orders', disputes', x) = NetOf(orders, disputes, x)
  BY <1>1, <1>2 DEF NetOf
<1>. QED BY <1>1, <1>3 DEF WalletBooks

\* Asking for a code and redeeming one pay nothing.
LEMMA CodeKeepsWallets ==
  ASSUME TypeOK, TypeOK', RewardsEarned, WalletBooks,
         \/ \E u \in Users : GetOrCreateReferralCode(u)
         \/ \E r, u \in Users : RedeemReferralCode(r, u)
  PROVE  WalletBooks'
<1>1. UNCHANGED << balance, sessions, orders, disputes >>
  BY DEF GetOrCreateReferralCode, RedeemReferralCode
<1>2. \A q \in Users : referrals[q].status = "rewarded" \/ referrals'[q].status = "rewarded"
                         => referrals'[q] = referrals[q]
  <2>0. referrals \in [Users -> ReferralSlot] BY DEF TypeOK
  <2>1. ASSUME NEW u \in Users, GetOrCreateReferralCode(u), NEW q \in Users
        PROVE  referrals[q].status = "rewarded" \/ referrals'[q].status = "rewarded"
                 => referrals'[q] = referrals[q]
    <3>1. /\ referrals[u].status = "none"
          /\ referrals' = [referrals EXCEPT ![u] = [referrals[u] EXCEPT !.status = "pending"]]
      BY <2>1 DEF GetOrCreateReferralCode
    <3>2. referrals[u] \in ReferralSlot BY <2>0
    <3>3. CASE q = u
      <4>1. referrals'[q] = [referrals[u] EXCEPT !.status = "pending"] BY <2>0, <3>1, <3>3
      <4>2. referrals'[q].status = "pending" BY <3>2, <4>1 DEF ReferralSlot
      <4>. QED BY <3>1, <3>3, <4>2
    <3>4. CASE q # u BY <2>0, <3>1, <3>4
    <3>. QED BY <3>3, <3>4
  <2>2. ASSUME NEW r \in Users, NEW u \in Users, RedeemReferralCode(r, u), NEW q \in Users
        PROVE  referrals[q].status = "rewarded" \/ referrals'[q].status = "rewarded"
                 => referrals'[q] = referrals[q]
    <3>1. /\ referrals[r].referredUserId = NULL
          /\ referrals' = [referrals EXCEPT ![r] = [status |-> "redeemed", referredUserId |-> u]]
      BY <2>2 DEF RedeemReferralCode
    <3>2. referrals[r].status # "rewarded"
      <4>1. SUFFICES ASSUME HasBought(NULL) PROVE FALSE BY <3>1 DEF RewardsEarned
      <4>2. \A o \in 1..Len(orders) : orders[o] \in OrderRow BY RowTypes
      <4>. QED BY <4>1, <4>2, MarketAssumption DEF HasBought, OrderRow
    <3>3. CASE q = r BY <2>0, <3>1, <3>2, <3>3
    <3>4. CASE q # r BY <2>0, <3>1, <3>4
    <3>. QED BY <3>3, <3>4
  <2>. QED BY <2>1, <2>2
<1>3. \A x \in Users : RewardIn(referrals', x) = RewardIn(referrals, x)
  <2>1. referrals \in [Users -> ReferralSlot] /\ referrals' \in [Users -> ReferralSlot]
    BY DEF TypeOK
  <2>. QED BY <1>2, <2>1, SameRewards
<1>. QED BY <1>1, <1>3 DEF WalletBooks

\* A reward goes to the referrer and to the buyer, once each.
LEMMA RewardKeepsWallets ==
  ASSUME TypeOK, TypeOK', RedemptionsSound, WalletBooks, NEW u \in Users, RewardReferral(u)
  PROVE  WalletBooks'
<1>. DEFINE due == DueReferrals(u)
            gain(x) == IF due # {} /\ x \in due \cup {u} THEN RewardCents ELSE 0
<1>1. /\ balance' = [x \in Users |-> IF due # {} /\ x \in due \cup {u}
                                     THEN balance[x] + RewardCents ELSE balance[x]]
      /\ referrals' = [r \in Users |-> IF r \in due
                                       THEN [referrals[r] EXCEPT !.status = "rewarded"]
                                       ELSE referrals[r]]
      /\ UNCHANGED << sessions, orders, disputes >>
  BY DEF RewardReferral, PayRewards
<1>2. /\ RewardCents \in Nat
      /\ referrals \in [Users -> ReferralSlot] /\ referrals' \in [Users -> ReferralSlot]
      /\ balance \in [Users -> Nat]
  BY MarketAssumption DEF TypeOK
<1>3. \A r \in due : r \in Users /\ referrals[r] = [status |-> "redeemed", referredUserId |-> u]
  BY DEF DueReferrals
<1>4. \A x \in Users : balance'[x] = balance[x] + gain(x) BY <1>1, <1>2
<1>5. \A x \in Users : RewardIn(referrals', x) = RewardIn(referrals, x) + gain(x)
  <2>0. \A x \in Users : RewardIn(referrals, x) \in Int BY WalletSumsTyped
  <2>1. CASE due = {}
    <3>1. referrals' = referrals BY <1>1, <1>2, <2>1
    <3>2. \A x \in Users : gain(x) = 0 BY <2>1
    <3>. HIDE DEF gain
    <3>. QED BY <2>0, <3>1, <3>2
  <2>2. CASE due # {}
    <3>1. PICK r \in due : TRUE BY <2>2
    <3>2. r \in Users /\ referrals[r] = [status |-> "redeemed", referredUserId |-> u]
      BY <1>3, <3>1
    <3>3. referrals[r].referredUserId = u BY <3>2
    <3>4. u # NULL BY MarketAssumption
    <3>5. r # u BY <3>2, <3>3 DEF RedemptionsSound
    <3>6. \A q \in Users : referrals[q].referredUserId = u => q = r
      BY <3>2, <3>3, <3>4 DEF RedemptionsSound
    <3>7. due = {r}
      <4>1. \A q \in due : q = r BY <1>3, <3>6
      <4>. QED BY <3>1, <4>1
    <3>8. referrals'[r] = [status |-> "rewarded", referredUserId |-> u]
      BY <1>1, <3>2, <3>1
    <3>9. \A q \in Users : q # r => referrals'[q] = referrals[q] BY <1>1, <3>7
    <3>10. \A x \in Users : gain(x) = IF x \in {r, u} THEN RewardCents ELSE 0 BY <3>7
    <3>. HIDE DEF gain, due
    <3>11. \A x \in Users :
             RewardIn(referrals', x) = RewardIn(referrals, x) + (IF x \in {r, u} THEN RewardCents ELSE 0)
      BY <1>2, <3>2, <3>5, <3>6, <3>8, <3>9, NewReward
    <3>. QED BY <3>10, <3>11
  <2>. QED BY <2>1, <2>2
<1>6. \A x : gain(x) \in Int BY <1>2
<1>. HIDE DEF gain
<1>7. ASSUME NEW x \in Users
      PROVE  balance'[x] = Total(ToppedOf(sessions', x)) + RewardIn(referrals', x)
                             - Total(NetOf(orders', disputes', x))
  <2>1. balance[x] = Total(ToppedOf(sessions, x)) + RewardIn(referrals, x)
                       - Total(NetOf(orders, disputes, x))
    BY DEF WalletBooks
  <2>2. /\ Total(ToppedOf(sessions, x)) \in Int /\ RewardIn(referrals, x) \in Int
        /\ Total(NetOf(orders, disputes, x)) \in Int
    BY WalletSumsTyped
  <2>3. /\ Total(NetOf(orders', disputes', x)) = Total(NetOf(orders, disputes, x))
        /\ Total(ToppedOf(sessions', x)) = Total(ToppedOf(sessions, x))
    BY <1>1
  <2>4. balance'[x] = balance[x] + gain(x) BY <1>4
  <2>5. RewardIn(referrals', x) = RewardIn(referrals, x) + gain(x) BY <1>5
  <2>6. gain(x) \in Int BY <1>6
  <2>. QED BY <2>1, <2>2, <2>3, <2>4, <2>5, <2>6
<1>. QED BY <1>7 DEF WalletBooks

\* Every step keeps the wallets in balance.
LEMMA WalletStep ==
  TypeOK /\ TypeOK' /\ DisputeBooks /\ RedemptionsSound /\ RewardsEarned
    /\ WalletBooks /\ [Next]_vars => WalletBooks'
<1>. SUFFICES ASSUME TypeOK, TypeOK', DisputeBooks, RedemptionsSound, RewardsEarned,
                     WalletBooks, [Next]_vars
              PROVE  WalletBooks'
  OBVIOUS
<1>1. ASSUME UNCHANGED << balance, sessions, referrals, orders, disputes >>
      PROVE  WalletBooks'
  BY <1>1 DEF WalletBooks
<1>2. ASSUME NEW u \in Users, NEW l \in Leads, PurchaseLead(u, l) PROVE WalletBooks'
  BY <1>2, SingleBatch, PurchaseKeepsWallets DEF PurchaseLead
<1>3. ASSUME NEW u \in Users, NEW batch \in Batches, PurchaseLeads(u, batch) PROVE WalletBooks'
  BY <1>3, BatchFacts, PurchaseKeepsWallets DEF PurchaseLeads
<1>4. ASSUME NEW u \in Payers, NEW amount \in TopUps, CreateStripeSession(u, amount)
      PROVE  WalletBooks'
  BY <1>4, SessionKeepsWallets
<1>5. ASSUME NEW s \in 1..Len(sessions), CreditUserFromStripe(s) PROVE WalletBooks'
  BY <1>5, SessionKeepsWallets
<1>6. ASSUME NEW u \in Referrers, GetOrCreateReferralCode(u) PROVE WalletBooks'
  BY <1>6, CodeKeepsWallets, MarketAssumption
<1>7. ASSUME NEW r \in Users, NEW u \in Users, RedeemReferralCode(r, u) PROVE WalletBooks'
  BY <1>7, CodeKeepsWallets
<1>8. ASSUME NEW u \in Users, RewardReferral(u) PROVE WalletBooks'
  BY <1>8, RewardKeepsWallets
<1>9. ASSUME NEW lost \in SUBSET rewardTasks, LoseRewardTasks(lost) PROVE WalletBooks'
  BY <1>1, <1>9 DEF LoseRewardTasks
<1>10. ASSUME NEW o \in 1..Len(orders), CreateDispute(o) PROVE WalletBooks'
  BY <1>10, FilingKeepsWallets
<1>11. ASSUME NEW o \in 1..Len(orders), NEW requested \in Refunds,
              ApproveDispute(o, requested)
       PROVE  WalletBooks'
  BY <1>11, ApprovalKeepsWallets
<1>12. ASSUME NEW o \in 1..Len(orders), DenyDispute(o) PROVE WalletBooks'
  BY <1>12, FilingKeepsWallets
<1>13. ASSUME NEW swept \in SUBSET Vendors, SweepVendorPayouts(swept) PROVE WalletBooks'
  BY <1>1, <1>13 DEF SweepVendorPayouts, RecordPayouts
<1>14. ASSUME NEW l \in Moderated, NEW flagged \in BOOLEAN, FlagLead(l, flagged)
       PROVE  WalletBooks'
  BY <1>1, <1>14 DEF FlagLead
<1>15. ASSUME NEW l \in Moderated, RemoveLead(l) PROVE WalletBooks'
  BY <1>1, <1>15 DEF RemoveLead
<1>16. ASSUME NEW m \in Members, NEW cap \in CapValues \cup {NULL}, SetMemberSpendCap(m, cap)
       PROVE  WalletBooks'
  BY <1>1, <1>16 DEF SetMemberSpendCap
<1>17. ASSUME NextMonth PROVE WalletBooks' BY <1>1, <1>17 DEF NextMonth
<1>18. ASSUME UNCHANGED vars PROVE WalletBooks' BY <1>1, <1>18 DEF vars
<1>. QED
  BY <1>2, <1>3, <1>4, <1>5, <1>6, <1>7, <1>8, <1>9, <1>10, <1>11, <1>12, <1>13,
     <1>14, <1>15, <1>16, <1>17, <1>18 DEF Next

\* The wallets are empty initially, and nothing was bought.
LEMMA WalletInit == Init => WalletBooks
<1>. SUFFICES ASSUME Init, NEW u \in Users
              PROVE  balance[u] = Total(ToppedOf(sessions, u)) + RewardIn(referrals, u)
                                    - Total(NetOf(orders, disputes, u))
  BY DEF WalletBooks
<1>1. /\ balance[u] = 0 /\ Len(sessions) = 0 /\ Len(orders) = 0 /\ TypeOK
      /\ \A r \in Users : referrals[r] = [status |-> "none", referredUserId |-> NULL]
  BY TypeInit DEF Init
<1>2. RewardIn(referrals, u) = 0 BY <1>1 DEF RewardIn, Rewarded
<1>3. Total(ToppedOf(sessions, u)) = 0
  <2>. DEFINE t == ToppedOf(sessions, u)
  <2>1. t \in Seq(Int) /\ Len(t) = 0 BY <1>1, ToppedTyped DEF TypeOK
  <2>. HIDE DEF t
  <2>2. \A i \in 1..Len(t) : t[i] = 0 BY <2>1
  <2>3. Total(t) = 0 BY <2>1, <2>2, TotalZeros
  <2>. QED BY <2>3 DEF t
<1>4. Total(NetOf(orders, disputes, u)) = 0
  <2>. DEFINE t == NetOf(orders, disputes, u)
  <2>1. t \in Seq(Int) /\ Len(t) = 0 BY <1>1, NetTyped DEF TypeOK
  <2>. HIDE DEF t
  <2>2. \A i \in 1..Len(t) : t[i] = 0 BY <2>1
  <2>3. Total(t) = 0 BY <2>1, <2>2, TotalZeros
  <2>. QED BY <2>3 DEF t
<1>. QED BY <1>1, <1>2, <1>3, <1>4

\* For any numbers of users, sessions, orders, disputes and codes, a wallet is what
\* was topped up and rewarded minus what its orders cost net of refunds.
THEOREM MarketWalletsConserved == Spec => []WalletConservation
<1>1. Init => RedemptionsSound /\ RewardsEarned
  BY MarketAssumption DEF Init, RedemptionsSound, RewardsEarned
<1>. QED
  BY TypeInit, TypeStep, DisputeBooksInit, DisputeBooksStep, RedemptionsStep, RewardsStep,
     WalletInit, WalletStep, WalletsAreBooks, <1>1, PTL DEF Spec

-------------------------------------------------------------------------------
(* The vendors.                                                              *)

\* VendorBooksBalance over the sum above.
VendorBooks ==
  \A v \in Vendors :
    vendorBalances[v].pendingCents + vendorBalances[v].paidCents =
      Total(EarnedOf(orders, ledger, v))

LEMMA VendorsAreBooks == VendorBooks <=> VendorBooksBalance
BY DEF VendorBooks, VendorBooksBalance, EarnedOf, Earned

\* The columns of a vendor's row.
LEMMA VendorRowTyped ==
  ASSUME TypeOK, NEW v \in Vendors
  PROVE  /\ vendorBalances[v] \in BalanceRow
         /\ vendorBalances[v].pendingCents \in Nat /\ vendorBalances[v].paidCents \in Int
         /\ payouts[v] \in Nat
<1>1. vendorBalances[v] \in BalanceRow /\ payouts[v] \in Nat BY DEF TypeOK
<1>. QED BY <1>1 DEF BalanceRow

\* A sale adds the vendor's share to its pending balance.
LEMMA PurchaseVendorRow ==
  ASSUME TypeOK, NEW u \in Users, NEW batch, IsBatch(batch), Purchase(u, batch),
         NEW v \in Vendors
  PROVE  /\ vendorBalances'[v].pendingCents =
              vendorBalances[v].pendingCents + BatchCredit(batch, v)
         /\ vendorBalances'[v].paidCents = vendorBalances[v].paidCents
<1>1. vendorBalances'[v] =
        [vendorBalances[v] EXCEPT !.pendingCents =
           vendorBalances[v].pendingCents + BatchCredit(batch, v)]
  BY DEF Purchase, RecordPurchase
<1>. QED BY <1>1, VendorRowTyped DEF BalanceRow

\* The share of a refund is a number of cents.
LEMMA DebitNat ==
  ASSUME TypeOK, NEW o \in 1..Len(orders), NEW requested \in Refunds
  PROVE  VendorDebit(ClampRefundCents(requested, orders[o].price)) \in Nat
<1>1. orders[o] \in OrderRow BY RowTypes
<1>2. orders[o].price \in Nat BY <1>1 DEF OrderRow
<1>3. ClampRefundCents(requested, orders[o].price) \in Nat
  BY <1>2, ClampRefundBounds, MarketAssumption
<1>. QED BY <1>3, VendorCentsNat DEF VendorDebit

\* A refund takes the vendor's share of it from the row, out of what is pending first.
LEMMA ApprovalVendorRow ==
  ASSUME TypeOK, NEW o \in 1..Len(orders), NEW requested \in Refunds,
         ApproveDispute(o, requested), NEW v \in Vendors
  PROVE  /\ vendorBalances'[v].pendingCents + vendorBalances'[v].paidCents =
              vendorBalances[v].pendingCents + vendorBalances[v].paidCents -
                (IF v = VendorOf[orders[o].leadId]
                 THEN VendorDebit(ClampRefundCents(requested, orders[o].price)) ELSE 0)
         /\ vendorBalances'[v].pendingCents <= vendorBalances[v].pendingCents
         /\ \/ vendorBalances'[v].paidCents = vendorBalances[v].paidCents
            \/ vendorBalances'[v].pendingCents = 0
<1>. DEFINE debit == VendorDebit(ClampRefundCents(requested, orders[o].price))
            w == VendorOf[orders[o].leadId]
            b == vendorBalances[v]
<1>1. w \in Vendors /\ debit \in Nat
  <2>1. orders[o] \in OrderRow BY RowTypes
  <2>2. orders[o].leadId \in Leads BY <2>1 DEF OrderRow
  <2>. QED BY <2>2, DebitNat, MarketAssumption
<1>2. vendorBalances' = [vendorBalances EXCEPT ![w] = PlanVendorDebit(debit, vendorBalances[w])]
  BY DEF ApproveDispute, RecordApproval
<1>3. b \in BalanceRow /\ b.pendingCents \in Nat /\ b.paidCents \in Int BY VendorRowTyped
<1>. HIDE DEF debit, w
<1>4. CASE v = w
  <2>1. vendorBalances'[v] = PlanVendorDebit(debit, b) BY <1>1, <1>2, <1>4 DEF TypeOK
  <2>2. CASE debit <= b.pendingCents
    <3>1. vendorBalances'[v] = [b EXCEPT !.pendingCents = b.pendingCents - debit]
      BY <2>1, <2>2 DEF PlanVendorDebit
    <3>2. /\ vendorBalances'[v].pendingCents = b.pendingCents - debit
          /\ vendorBalances'[v].paidCents = b.paidCents
      BY <1>3, <3>1 DEF BalanceRow
    <3>. QED BY <1>1, <1>3, <1>4, <3>2 DEF debit, w
  <2>3. CASE ~(debit <= b.pendingCents)
    <3>1. /\ vendorBalances'[v].pendingCents = 0
          /\ vendorBalances'[v].paidCents = b.paidCents - (debit - b.pendingCents)
      BY <2>1, <2>3 DEF PlanVendorDebit
    <3>. QED BY <1>1, <1>3, <1>4, <3>1 DEF debit, w
  <2>. QED BY <2>2, <2>3
<1>5. CASE v # w
  <2>1. vendorBalances'[v] = b BY <1>2, <1>5 DEF TypeOK
  <2>. QED BY <1>3, <1>5, <2>1 DEF w
<1>. QED BY <1>4, <1>5

\* A sweep moves the pending balance of those it pays.
LEMMA SweepVendorRow ==
  ASSUME TypeOK, NEW swept \in SUBSET Vendors, SweepVendorPayouts(swept), NEW v \in Vendors
  PROVE  IF v \in swept
         THEN /\ vendorBalances'[v].pendingCents = 0
              /\ vendorBalances'[v].paidCents =
                   vendorBalances[v].paidCents + vendorBalances[v].pendingCents
              /\ payouts'[v] = payouts[v] + vendorBalances[v].pendingCents
         ELSE vendorBalances'[v] = vendorBalances[v] /\ payouts'[v] = payouts[v]
<1>1. /\ vendorBalances'[v] = IF v \in swept THEN PaidOut(vendorBalances[v]) ELSE vendorBalances[v]
      /\ payouts'[v] = IF v \in swept THEN payouts[v] + vendorBalances[v].pendingCents
                       ELSE payouts[v]
  BY DEF SweepVendorPayouts, RecordPayouts
<1>. QED BY <1>1 DEF PaidOut

\* The steps that write a vendor's rows.
LEMMA VendorSteps ==
  ASSUME TypeOK, [Next]_vars
  PROVE  \/ UNCHANGED << vendorBalances, payouts, orders, ledger >>
         \/ \E u \in Users : \E batch : IsBatch(batch) /\ Purchase(u, batch)
         \/ \E o \in 1..Len(orders), requested \in Refunds : ApproveDispute(o, requested)
         \/ \E swept \in SUBSET Vendors : SweepVendorPayouts(swept)
<1>. DEFINE same == UNCHANGED << vendorBalances, payouts, orders, ledger >>
<1>1. ASSUME NEW u \in Users, NEW l \in Leads, PurchaseLead(u, l)
      PROVE  \E x \in Users : \E batch : IsBatch(batch) /\ Purchase(x, batch)
  BY <1>1, SingleBatch DEF PurchaseLead
<1>2. ASSUME NEW u \in Users, NEW batch \in Batches, PurchaseLeads(u, batch)
      PROVE  \E x \in Users : \E b : IsBatch(b) /\ Purchase(x, b)
  BY <1>2, BatchFacts DEF PurchaseLeads
<1>3. ASSUME NEW u \in Payers, NEW amount \in TopUps, CreateStripeSession(u, amount) PROVE same
  BY <1>3 DEF CreateStripeSession
<1>4. ASSUME NEW s \in 1..Len(sessions), CreditUserFromStripe(s) PROVE same
  BY <1>4 DEF CreditUserFromStripe
<1>5. ASSUME NEW u \in Referrers, GetOrCreateReferralCode(u) PROVE same
  BY <1>5 DEF GetOrCreateReferralCode
<1>6. ASSUME NEW r \in Users, NEW u \in Users, RedeemReferralCode(r, u) PROVE same
  BY <1>6 DEF RedeemReferralCode
<1>7. ASSUME NEW u \in Users, RewardReferral(u) PROVE same
  BY <1>7 DEF RewardReferral, PayRewards
<1>8. ASSUME NEW lost \in SUBSET rewardTasks, LoseRewardTasks(lost) PROVE same
  BY <1>8 DEF LoseRewardTasks
<1>9. ASSUME NEW o \in 1..Len(orders), CreateDispute(o) PROVE same
  BY <1>9 DEF CreateDispute
<1>10. ASSUME NEW o \in 1..Len(orders), DenyDispute(o) PROVE same
  BY <1>10 DEF DenyDispute
<1>11. ASSUME NEW l \in Moderated, NEW flagged \in BOOLEAN, FlagLead(l, flagged) PROVE same
  BY <1>11 DEF FlagLead
<1>12. ASSUME NEW l \in Moderated, RemoveLead(l) PROVE same
  BY <1>12 DEF RemoveLead
<1>13. ASSUME NEW m \in Members, NEW cap \in CapValues \cup {NULL}, SetMemberSpendCap(m, cap)
       PROVE  same
  BY <1>13 DEF SetMemberSpendCap
<1>14. ASSUME NextMonth PROVE same BY <1>14 DEF NextMonth
<1>15. ASSUME UNCHANGED vars PROVE same BY <1>15 DEF vars
<1>. HIDE DEF same
<1>16. same => UNCHANGED << vendorBalances, payouts, orders, ledger >> BY DEF same
<1>. QED
  BY <1>1, <1>2, <1>3, <1>4, <1>5, <1>6, <1>7, <1>8, <1>9, <1>10, <1>11, <1>12,
     <1>13, <1>14, <1>15, <1>16 DEF Next

\* Every step keeps the vendors' books.
LEMMA VendorStep == TypeOK /\ TypeOK' /\ DisputeBooks /\ VendorBooks /\ [Next]_vars => VendorBooks'
<1>. SUFFICES ASSUME TypeOK, TypeOK', DisputeBooks, VendorBooks, [Next]_vars,
                     NEW v \in Vendors
              PROVE  vendorBalances'[v].pendingCents + vendorBalances'[v].paidCents =
                       Total(EarnedOf(orders', ledger', v))
  BY DEF VendorBooks
<1>. DEFINE ok == vendorBalances'[v].pendingCents + vendorBalances'[v].paidCents =
                    Total(EarnedOf(orders', ledger', v))
<1>1. vendorBalances[v].pendingCents + vendorBalances[v].paidCents =
        Total(EarnedOf(orders, ledger, v))
  BY DEF VendorBooks
<1>2. vendorBalances[v].pendingCents \in Nat /\ vendorBalances[v].paidCents \in Int
  BY VendorRowTyped
<1>3. ASSUME UNCHANGED << vendorBalances, payouts, orders, ledger >> PROVE ok BY <1>1, <1>3
<1>4. ASSUME NEW u \in Users, NEW batch, IsBatch(batch), Purchase(u, batch) PROVE ok
  <2>1. Total(EarnedOf(orders', ledger', v)) =
          Total(EarnedOf(orders, ledger, v)) + BatchCredit(batch, v)
    BY <1>4, PurchaseEarned
  <2>2. /\ vendorBalances'[v].pendingCents =
              vendorBalances[v].pendingCents + BatchCredit(batch, v)
        /\ vendorBalances'[v].paidCents = vendorBalances[v].paidCents
    BY <1>4, PurchaseVendorRow
  <2>3. BatchCredit(batch, v) \in Nat BY <1>4, BatchCreditNat
  <2>. QED BY <1>1, <1>2, <2>1, <2>2, <2>3
<1>5. ASSUME NEW o \in 1..Len(orders), NEW requested \in Refunds, ApproveDispute(o, requested)
      PROVE  ok
  <2>. DEFINE debit == IF v = VendorOf[orders[o].leadId]
                       THEN VendorDebit(ClampRefundCents(requested, orders[o].price)) ELSE 0
  <2>1. Total(EarnedOf(orders', ledger', v)) = Total(EarnedOf(orders, ledger, v)) - debit
    BY <1>5, ApprovalEarned
  <2>2. vendorBalances'[v].pendingCents + vendorBalances'[v].paidCents =
          vendorBalances[v].pendingCents + vendorBalances[v].paidCents - debit
    BY <1>5, ApprovalVendorRow
  <2>3. debit \in Nat BY DebitNat
  <2>. HIDE DEF debit
  <2>. QED BY <1>1, <1>2, <2>1, <2>2, <2>3
<1>6. ASSUME NEW swept \in SUBSET Vendors, SweepVendorPayouts(swept) PROVE ok
  <2>1. UNCHANGED << orders, ledger >> BY <1>6 DEF SweepVendorPayouts, RecordPayouts
  <2>2. CASE v \in swept
    <3>1. /\ vendorBalances'[v].pendingCents = 0
          /\ vendorBalances'[v].paidCents =
               vendorBalances[v].paidCents + vendorBalances[v].pendingCents
      BY <1>6, <2>2, SweepVendorRow
    <3>. QED BY <1>1, <1>2, <2>1, <3>1
  <2>3. CASE v \notin swept
    <3>1. vendorBalances'[v] = vendorBalances[v] BY <1>6, <2>3, SweepVendorRow
    <3>. QED BY <1>1, <2>1, <3>1
  <2>. QED BY <2>2, <2>3
<1>. HIDE DEF ok
<1>7. ok BY <1>3, <1>4, <1>5, <1>6, VendorSteps
<1>. QED BY <1>7 DEF ok

\* No vendor has earned anything initially.
LEMMA VendorInit == Init => VendorBooks
<1>. SUFFICES ASSUME Init, NEW v \in Vendors
              PROVE  vendorBalances[v].pendingCents + vendorBalances[v].paidCents =
                       Total(EarnedOf(orders, ledger, v))
  BY DEF VendorBooks
<1>1. /\ vendorBalances[v].pendingCents = 0 /\ vendorBalances[v].paidCents = 0
      /\ Len(orders) = 0 /\ TypeOK
  BY TypeInit DEF Init
<1>. DEFINE t == EarnedOf(orders, ledger, v)
<1>2. t \in Seq(Int) /\ Len(t) = 0 BY <1>1, EarnedTyped DEF TypeOK
<1>. HIDE DEF t
<1>3. \A i \in 1..Len(t) : t[i] = 0 BY <1>2
<1>4. Total(t) = 0 BY <1>2, <1>3, TotalZeros
<1>. QED BY <1>1, <1>4 DEF t

\* For any numbers of vendors and rows, what a vendor is owed and what it kept from
\* payouts is what its sale rows say less its refund rows.
THEOREM MarketVendorsBalanced == Spec => []VendorBooksBalance
BY TypeInit, TypeStep, DisputeBooksInit, DisputeBooksStep, VendorInit, VendorStep,
   VendorsAreBooks, PTL DEF Spec

-------------------------------------------------------------------------------
(* No vendor owes.                                                           *)

\* The share of a larger amount is not smaller: a floor is monotone.
LEMMA VendorCentsMonotone ==
  ASSUME NEW price \in Nat, NEW refund \in Nat, refund <= price
  PROVE  VendorCents(refund) <= VendorCents(price)
<1>. DEFINE a == price * ShareNum
            b == refund * ShareNum
            rest == price - refund
            p == a \div ShareDen
            q == b \div ShareDen
            more == rest * ShareNum
<1>1. ShareNum \in Nat /\ ShareDen \in Nat /\ ShareDen > 0 BY ShareAssumption
<1>2. a \in Nat /\ b \in Nat /\ more \in Nat
  <2>1. rest \in Nat OBVIOUS
  <2>2. a \in Nat /\ b \in Nat BY <1>1
  <2>. HIDE DEF rest
  <2>3. more \in Nat BY <1>1, <2>1
  <2>. QED BY <2>2, <2>3
<1>3. a = b + more BY <1>1
<1>4. p \in Int /\ a < p * ShareDen + ShareDen BY <1>1, <1>2, FloorBounds
<1>5. q \in Int /\ q * ShareDen <= b BY <1>1, <1>2, FloorBounds
<1>6. b <= a
  <2>. HIDE DEF a, b, more
  <2>. QED BY <1>2, <1>3
<1>. HIDE DEF a, b, p, q
<1>7. q * ShareDen < (p + 1) * ShareDen
  <2>1. (p + 1) * ShareDen = p * ShareDen + ShareDen BY <1>1, <1>4
  <2>2. p * ShareDen \in Int /\ q * ShareDen \in Int BY <1>1, <1>4, <1>5
  <2>. QED BY <1>1, <1>2, <1>4, <1>5, <1>6, <2>1, <2>2
<1>8. q < p + 1 BY <1>1, <1>4, <1>5, <1>7, FactorsOrdered
<1>9. q <= p BY <1>4, <1>5, <1>8
<1>10. /\ VendorCents(price) = IF price <= 0 THEN 0 ELSE p
       /\ VendorCents(refund) = IF refund <= 0 THEN 0 ELSE q
  BY DEF VendorCents, p, q, a, b
<1>11. VendorCents(price) \in Nat BY VendorCentsNat
<1>. QED BY <1>4, <1>5, <1>9, <1>10, <1>11

\* What a vendor is owed and what it kept are never negative together.
VendorsSolvent ==
  \A v \in Vendors : vendorBalances[v].pendingCents + vendorBalances[v].paidCents >= 0

LEMMA BooksSolvent == TypeOK /\ DisputeBooks /\ VendorBooks => VendorsSolvent
<1>. SUFFICES ASSUME TypeOK, DisputeBooks, VendorBooks, NEW v \in Vendors
              PROVE  Total(EarnedOf(orders, ledger, v)) >= 0
  BY DEF VendorBooks, VendorsSolvent
<1>. DEFINE t == EarnedOf(orders, ledger, v)
<1>1. t \in Seq(Int) /\ Len(t) = Len(orders) BY EarnedTyped DEF TypeOK
<1>2. ASSUME NEW o \in 1..Len(orders) PROVE t[o] \in Nat
  <2>1. /\ orders[o].price \in Nat /\ disputes[o].refundCents \in Nat
        /\ ledger[o].sale \in Nat /\ ledger[o].refund \in Nat
    BY RowTypes DEF OrderRow, DisputeRow, LedgerRow
  <2>2. /\ ledger[o].sale = VendorCents(orders[o].price)
        /\ ledger[o].refund = VendorCents(disputes[o].refundCents)
        /\ disputes[o].refundCents <= orders[o].price
    BY DEF DisputeBooks, RowsAgree
  <2>3. ledger[o].refund <= ledger[o].sale BY <2>1, <2>2, VendorCentsMonotone
  <2>4. ledger[o].sale - ledger[o].refund \in Nat BY <2>1, <2>3
  <2>. QED BY <2>4 DEF EarnedOf
<1>. HIDE DEF t
<1>3. t \in Seq(Nat) BY <1>1, <1>2
<1>4. Total(t) \in Nat BY <1>3, TotalNat
<1>. QED BY <1>4 DEF t

\* A refund reaches paidCents only when nothing is pending any more, and then the
\* books say that what is left of it is not negative.
LEMMA NeverOwesStep ==
  TypeOK /\ TypeOK' /\ VendorsSolvent' /\ VendorNeverOwes /\ [Next]_vars => VendorNeverOwes'
<1>. SUFFICES ASSUME TypeOK, TypeOK', VendorsSolvent', VendorNeverOwes, [Next]_vars,
                     NEW v \in Vendors
              PROVE  vendorBalances'[v].paidCents >= 0
  BY DEF VendorNeverOwes
<1>. DEFINE ok == vendorBalances'[v].paidCents >= 0
<1>1. /\ vendorBalances[v].paidCents >= 0
      /\ vendorBalances'[v].pendingCents + vendorBalances'[v].paidCents >= 0
  BY DEF VendorNeverOwes, VendorsSolvent
<1>2. vendorBalances[v].pendingCents \in Nat /\ vendorBalances[v].paidCents \in Int
  BY VendorRowTyped
<1>3. vendorBalances'[v].paidCents \in Int
  <2>1. vendorBalances'[v] \in BalanceRow BY DEF TypeOK
  <2>. QED BY <2>1 DEF BalanceRow
<1>4. ASSUME UNCHANGED << vendorBalances, payouts, orders, ledger >> PROVE ok BY <1>1, <1>4
<1>5. ASSUME NEW u \in Users, NEW batch, IsBatch(batch), Purchase(u, batch) PROVE ok
  BY <1>1, <1>5, PurchaseVendorRow
<1>6. ASSUME NEW o \in 1..Len(orders), NEW requested \in Refunds, ApproveDispute(o, requested)
      PROVE  ok
  <2>1. \/ vendorBalances'[v].paidCents = vendorBalances[v].paidCents
        \/ vendorBalances'[v].pendingCents = 0
    BY <1>6, ApprovalVendorRow
  <2>. QED BY <1>1, <1>3, <2>1
<1>7. ASSUME NEW swept \in SUBSET Vendors, SweepVendorPayouts(swept) PROVE ok
  <2>1. \/ vendorBalances'[v].paidCents =
             vendorBalances[v].paidCents + vendorBalances[v].pendingCents
        \/ vendorBalances'[v].paidCents = vendorBalances[v].paidCents
    BY <1>7, SweepVendorRow
  <2>. QED BY <1>1, <1>2, <2>1
<1>. HIDE DEF ok
<1>8. ok BY <1>4, <1>5, <1>6, <1>7, VendorSteps
<1>. QED BY <1>8 DEF ok

\* For any revenue share and any order of sales, sweeps and refunds, planVendorDebit
\* never has to drive paidCents below zero.
THEOREM MarketVendorsNeverOwe == Spec => []VendorNeverOwes
<1>1. Init => VendorNeverOwes BY DEF Init, VendorNeverOwes
<1>. QED
  BY TypeInit, TypeStep, DisputeBooksInit, DisputeBooksStep, VendorInit, VendorStep,
     BooksSolvent, NeverOwesStep, <1>1, PTL DEF Spec

-------------------------------------------------------------------------------
(* Payouts and sales.                                                        *)

SalesOf(rows, book, v) ==
  [o \in 1..Len(rows) |-> IF VendorOf[rows[o].leadId] = v THEN book[o].sale ELSE 0]

LEMMA SalesTyped ==
  ASSUME NEW rows \in Seq(OrderRow), NEW book \in Seq(LedgerRow),
         Len(book) = Len(rows), NEW v
  PROVE  /\ SalesOf(rows, book, v) \in Seq(Int) /\ Len(SalesOf(rows, book, v)) = Len(rows)
         /\ Total(SalesOf(rows, book, v)) \in Int
<1>. DEFINE t == SalesOf(rows, book, v)
<1>1. \A o \in 1..Len(rows) : book[o].sale \in Nat
  <2>1. \A o \in 1..Len(rows) : book[o] \in LedgerRow BY EntryTyped
  <2>. QED BY <2>1 DEF LedgerRow
<1>2. t \in Seq(Int) /\ Len(t) = Len(rows)
  <2>1. Len(rows) \in Nat OBVIOUS
  <2>2. \A o \in 1..Len(rows) : t[o] \in Int BY <1>1 DEF SalesOf
  <2>. QED BY <2>1, <2>2 DEF SalesOf
<1>. QED BY <1>2, TotalInt

\* A purchase adds its batch's credit to a vendor's sales.
LEMMA PurchaseSales ==
  ASSUME TypeOK, TypeOK', NEW u \in Users, NEW batch, IsBatch(batch), Purchase(u, batch), NEW v
  PROVE  Total(SalesOf(orders', ledger', v)) =
           Total(SalesOf(orders, ledger, v)) + BatchCredit(batch, v)
<1>. DEFINE n == Len(orders)
            s == SalesOf(orders, ledger, v)
            t == SalesOf(orders', ledger', v)
            r == [i \in 1..Len(batch) |->
                    IF VendorOf[batch[i]] = v THEN VendorCents(Price[batch[i]]) ELSE 0]
<1>1. n \in Nat /\ Len(batch) \in Nat BY BatchRows DEF TypeOK
<1>2. /\ Len(orders') = n + Len(batch)
      /\ \A o \in 1..n : orders'[o] = orders[o] /\ ledger'[o] = ledger[o]
      /\ \A i \in 1..Len(batch) :
           ledger'[n + i] = [sale |-> VendorCents(orders'[n + i].price), refund |-> 0]
  BY PurchaseAppendsRows
<1>3. \A i \in 1..Len(batch) : orders'[n + i].leadId = batch[i] /\ orders'[n + i].price = Price[batch[i]]
  BY PurchaseAppendsSales
<1>4. s \in Seq(Int) /\ Len(s) = n BY SalesTyped DEF TypeOK
<1>5. t \in Seq(Int) /\ Len(t) = n + Len(batch) BY <1>2, SalesTyped DEF TypeOK
<1>6. \A i \in 1..Len(batch) : VendorCents(Price[batch[i]]) \in Nat
  BY BatchRows, VendorCentsNat
<1>7. r \in Seq(Int) /\ Len(r) = Len(batch) BY <1>1, <1>6
<1>8. \A o \in 1..n : t[o] = s[o]
  <2>1. \A o \in 1..n : o \in 1..Len(orders') BY <1>1, <1>2
  <2>. QED BY <1>2, <2>1 DEF SalesOf
<1>9. \A i \in 1..Len(batch) : t[n + i] = r[i]
  <2>. SUFFICES ASSUME NEW i \in 1..Len(batch) PROVE t[n + i] = r[i] OBVIOUS
  <2>1. n + i \in 1..Len(orders') BY <1>1, <1>2
  <2>2. ledger'[n + i].sale = VendorCents(Price[batch[i]])
    <3>1. ledger'[n + i] = [sale |-> VendorCents(orders'[n + i].price), refund |-> 0] BY <1>2
    <3>2. VendorCents(orders'[n + i].price) = VendorCents(Price[batch[i]]) BY <1>3
    <3>. QED BY <3>1, <3>2
  <2>3. t[n + i] = IF VendorOf[orders'[n + i].leadId] = v THEN ledger'[n + i].sale ELSE 0
    BY <2>1 DEF SalesOf
  <2>. QED BY <1>3, <2>2, <2>3
<1>10. Total(r) = BatchCredit(batch, v) BY DEF BatchCredit
<1>. HIDE DEF s, t, r
<1>11. Total(t) = Total(s) + Total(r)
  <2>1. /\ Len(t) = Len(s) + Len(r)
        /\ \A i \in 1..Len(s) : t[i] = s[i]
        /\ \A i \in 1..Len(r) : t[Len(s) + i] = r[i]
    BY <1>4, <1>5, <1>7, <1>8, <1>9
  <2>. QED BY <1>4, <1>5, <1>7, <2>1, TotalJoin
<1>. QED BY <1>10, <1>11 DEF s, t

\* An approval leaves the sale rows alone.
LEMMA ApprovalSales ==
  ASSUME TypeOK, TypeOK', NEW o \in 1..Len(orders), NEW requested \in Refunds,
         ApproveDispute(o, requested), NEW v
  PROVE  Total(SalesOf(orders', ledger', v)) = Total(SalesOf(orders, ledger, v))
<1>. DEFINE s == SalesOf(orders, ledger, v)
            t == SalesOf(orders', ledger', v)
            refund == ClampRefundCents(requested, orders[o].price)
<1>1. /\ Len(orders') = Len(orders)
      /\ orders'[o] = [orders[o] EXCEPT !.status = StatusAfterRefund(orders[o], refund)]
      /\ ledger'[o] = [ledger[o] EXCEPT !.refund = VendorDebit(refund)]
      /\ \A p \in 1..Len(orders) : p # o => orders'[p] = orders[p] /\ ledger'[p] = ledger[p]
  BY ApprovalRows
<1>2. orders[o] \in OrderRow /\ ledger[o] \in LedgerRow BY RowTypes
<1>3. orders'[o].leadId = orders[o].leadId /\ ledger'[o].sale = ledger[o].sale
  BY <1>1, <1>2 DEF OrderRow, LedgerRow
<1>4. s \in Seq(Int) /\ Len(s) = Len(orders) BY SalesTyped DEF TypeOK
<1>5. t \in Seq(Int) /\ Len(t) = Len(orders) BY <1>1, SalesTyped DEF TypeOK
<1>6. \A p \in 1..Len(orders) : t[p] = s[p]
  <2>1. \A p \in 1..Len(orders) :
          orders'[p].leadId = orders[p].leadId /\ ledger'[p].sale = ledger[p].sale
    BY <1>1, <1>3
  <2>. QED BY <1>1, <2>1 DEF SalesOf
<1>. HIDE DEF s, t
<1>7. s = t BY <1>4, <1>5, <1>6, SameEntries
<1>. QED BY <1>7 DEF s, t

\* Nothing pending has been paid: both come out of the same sales.
PayoutBooks ==
  \A v \in Vendors :
    payouts[v] + vendorBalances[v].pendingCents <= Total(SalesOf(orders, ledger, v))

LEMMA PayoutBooksCover == TypeOK /\ PayoutBooks => PayoutsCoveredBySales
<1>. SUFFICES ASSUME TypeOK, PayoutBooks, NEW v \in Vendors
              PROVE  payouts[v] <= Total(SalesOf(orders, ledger, v))
  BY DEF PayoutsCoveredBySales, SalesOf
<1>1. payouts[v] + vendorBalances[v].pendingCents <= Total(SalesOf(orders, ledger, v))
  BY DEF PayoutBooks
<1>2. payouts[v] \in Nat /\ vendorBalances[v].pendingCents \in Nat BY VendorRowTyped
<1>3. Total(SalesOf(orders, ledger, v)) \in Int BY SalesTyped DEF TypeOK
<1>. QED BY <1>1, <1>2, <1>3

\* Every step keeps what was paid and is pending below the sales.
LEMMA PayoutStep == TypeOK /\ TypeOK' /\ PayoutBooks /\ [Next]_vars => PayoutBooks'
<1>. SUFFICES ASSUME TypeOK, TypeOK', PayoutBooks, [Next]_vars, NEW v \in Vendors
              PROVE  payouts'[v] + vendorBalances'[v].pendingCents <=
                       Total(SalesOf(orders', ledger', v))
  BY DEF PayoutBooks
<1>. DEFINE ok == payouts'[v] + vendorBalances'[v].pendingCents <=
                    Total(SalesOf(orders', ledger', v))
<1>1. payouts[v] + vendorBalances[v].pendingCents <= Total(SalesOf(orders, ledger, v))
  BY DEF PayoutBooks
<1>2. payouts[v] \in Nat /\ vendorBalances[v].pendingCents \in Nat BY VendorRowTyped
<1>3. Total(SalesOf(orders, ledger, v)) \in Int BY SalesTyped DEF TypeOK
<1>4. ASSUME UNCHANGED << vendorBalances, payouts, orders, ledger >> PROVE ok BY <1>1, <1>4
<1>5. ASSUME NEW u \in Users, NEW batch, IsBatch(batch), Purchase(u, batch) PROVE ok
  <2>1. Total(SalesOf(orders', ledger', v)) =
          Total(SalesOf(orders, ledger, v)) + BatchCredit(batch, v)
    BY <1>5, PurchaseSales
  <2>2. vendorBalances'[v].pendingCents =
          vendorBalances[v].pendingCents + BatchCredit(batch, v)
    BY <1>5, PurchaseVendorRow
  <2>3. BatchCredit(batch, v) \in Nat BY <1>5, BatchCreditNat
  <2>4. payouts' = payouts BY <1>5 DEF Purchase, RecordPurchase
  <2>. QED BY <1>1, <1>2, <1>3, <2>1, <2>2, <2>3, <2>4
<1>6. ASSUME NEW o \in 1..Len(orders), NEW requested \in Refunds, ApproveDispute(o, requested)
      PROVE  ok
  <2>1. Total(SalesOf(orders', ledger', v)) = Total(SalesOf(orders, ledger, v))
    BY <1>6, ApprovalSales
  <2>2. vendorBalances'[v].pendingCents <= vendorBalances[v].pendingCents
    BY <1>6, ApprovalVendorRow
  <2>3. payouts' = payouts BY <1>6 DEF ApproveDispute, RecordApproval
  <2>4. vendorBalances'[v].pendingCents \in Nat
    <3>1. vendorBalances'[v] \in BalanceRow BY DEF TypeOK
    <3>. QED BY <3>1 DEF BalanceRow
  <2>. QED BY <1>1, <1>2, <1>3, <2>1, <2>2, <2>3, <2>4
<1>7. ASSUME NEW swept \in SUBSET Vendors, SweepVendorPayouts(swept) PROVE ok
  <2>1. UNCHANGED << orders, ledger >> BY <1>7 DEF SweepVendorPayouts, RecordPayouts
  <2>2. CASE v \in swept
    <3>1. /\ vendorBalances'[v].pendingCents = 0
          /\ payouts'[v] = payouts[v] + vendorBalances[v].pendingCents
      BY <1>7, <2>2, SweepVendorRow
    <3>. QED BY <1>1, <1>2, <2>1, <3>1
  <2>3. CASE v \notin swept
    <3>1. vendorBalances'[v] = vendorBalances[v] /\ payouts'[v] = payouts[v]
      BY <1>7, <2>3, SweepVendorRow
    <3>. QED BY <1>1, <2>1, <3>1
  <2>. QED BY <2>2, <2>3
<1>. HIDE DEF ok
<1>8. ok BY <1>4, <1>5, <1>6, <1>7, VendorSteps
<1>. QED BY <1>8 DEF ok

LEMMA PayoutInit == Init => PayoutBooks
<1>. SUFFICES ASSUME Init, NEW v \in Vendors
              PROVE  payouts[v] + vendorBalances[v].pendingCents <=
                       Total(SalesOf(orders, ledger, v))
  BY DEF PayoutBooks
<1>1. payouts[v] = 0 /\ vendorBalances[v].pendingCents = 0 /\ Len(orders) = 0 /\ TypeOK
  BY TypeInit DEF Init
<1>. DEFINE t == SalesOf(orders, ledger, v)
<1>2. t \in Seq(Int) /\ Len(t) = 0 BY <1>1, SalesTyped DEF TypeOK
<1>. HIDE DEF t
<1>3. \A i \in 1..Len(t) : t[i] = 0 BY <1>2
<1>4. Total(t) = 0 BY <1>2, <1>3, TotalZeros
<1>. QED BY <1>1, <1>4 DEF t

\* For any order of sales, sweeps and refunds, no vendor is paid out more than its
\* sales earned.
THEOREM MarketPayoutsCovered == Spec => []PayoutsCoveredBySales
BY TypeInit, TypeStep, PayoutInit, PayoutStep, PayoutBooksCover, PTL DEF Spec

-------------------------------------------------------------------------------
(*****************************************************************************)
(* Outcome reports: the market composed with reportLeadOutcome, which runs   *)
(* outside any transaction and may die between its statements.               *)
(*****************************************************************************)

-------------------------------------------------------------------------------
(* What a step of the market does to orders that may be converted.           *)

ReportedRow ==
  [userId : Users, leadId : Leads, price : Nat,
   status : {"completed", "converted", "refunded"}, month : Nat]

ReportedTables ==
  /\ orders \in Seq(ReportedRow)
  /\ disputes \in Seq(DisputeRow)
  /\ Len(disputes) = Len(orders)
  /\ month \in Nat

\* The whole price of an order, and not nothing, was returned.
WasReturned(order, dispute) ==
  dispute.status = "approved" /\ dispute.refundCents = order.price /\ order.price > 0

\* A step of the market leaves an order and its dispute alone, files or denies the
\* dispute, or approves it and marks the order if all of a price is returned.
OrderSteps(o) ==
  \/ orders'[o] = orders[o] /\ disputes'[o] = disputes[o]
  \/ /\ orders'[o] = orders[o]
     /\ disputes[o].status # "approved" /\ disputes'[o].status # "approved"
  \/ /\ disputes[o].status # "approved" /\ disputes'[o].status = "approved"
     /\ orders'[o] = [orders[o] EXCEPT !.status =
                        IF WasReturned(orders[o], disputes'[o]) THEN "refunded" ELSE @]

\* What a step of the market does to the rows of orders.
RowSteps ==
  /\ Len(orders) <= Len(orders')
  /\ \A o \in 1..Len(orders) : OrderSteps(o)
  /\ \A o \in 1..Len(orders') : o \notin 1..Len(orders) =>
       orders'[o].status = "completed" /\ disputes'[o].status = "none"

LEMMA OrdersPurchased ==
  ASSUME ReportedTables, NEW u \in Users, NEW batch, IsBatch(batch), Purchase(u, batch)
  PROVE  ReportedTables' /\ RowSteps
<1>. DEFINE newOrders == [i \in 1..Len(batch) |->
                            [userId |-> u, leadId |-> batch[i], price |-> Price[batch[i]],
                             status |-> "completed", month |-> month]]
            newDisputes == [i \in 1..Len(batch) |-> [status |-> "none", refundCents |-> 0]]
            n == Len(orders)
<1>1. orders' = orders \o newOrders /\ disputes' = disputes \o newDisputes /\ month' = month
  BY DEF Purchase, RecordPurchase
<1>2. /\ orders \in Seq(ReportedRow) /\ disputes \in Seq(DisputeRow) /\ Len(disputes) = n
      /\ month \in Nat /\ n \in Nat
  BY DEF ReportedTables
<1>3. Len(batch) \in Nat BY BatchRows
<1>4. newOrders \in Seq(ReportedRow) /\ Len(newOrders) = Len(batch)
  <2>1. \A i \in 1..Len(batch) : newOrders[i] \in ReportedRow
    BY <1>2, BatchRows DEF ReportedRow
  <2>. QED BY <2>1, <1>3
<1>5. newDisputes \in Seq(DisputeRow) /\ Len(newDisputes) = Len(batch)
  BY <1>3 DEF DisputeRow
<1>6. \A i \in 1..Len(batch) :
        newOrders[i].status = "completed" /\ newDisputes[i].status = "none"
  OBVIOUS
<1>. HIDE DEF newOrders, newDisputes
<1>7. /\ orders' \in Seq(ReportedRow) /\ Len(orders') = n + Len(batch)
      /\ disputes' \in Seq(DisputeRow) /\ Len(disputes') = n + Len(batch)
  <2>1. orders' \in Seq(ReportedRow) /\ Len(orders') = Len(orders) + Len(newOrders)
    BY <1>1, <1>2, <1>4, ConcatTyped
  <2>2. disputes' \in Seq(DisputeRow) /\ Len(disputes') = Len(disputes) + Len(newDisputes)
    BY <1>1, <1>2, <1>5, ConcatTyped
  <2>. QED BY <1>2, <1>4, <1>5, <2>1, <2>2
<1>8. /\ \A o \in 1..n : orders'[o] = orders[o] /\ disputes'[o] = disputes[o]
      /\ \A i \in 1..Len(batch) : /\ orders'[n + i] = newOrders[i]
                                 /\ disputes'[n + i] = newDisputes[i]
  <2>1. /\ \A o \in 1..Len(orders) : (orders \o newOrders)[o] = orders[o]
        /\ \A i \in 1..Len(newOrders) : (orders \o newOrders)[Len(orders) + i] = newOrders[i]
    BY <1>2, <1>4, ConcatEntries
  <2>2. /\ \A o \in 1..Len(disputes) : (disputes \o newDisputes)[o] = disputes[o]
        /\ \A i \in 1..Len(newDisputes) :
             (disputes \o newDisputes)[Len(disputes) + i] = newDisputes[i]
    BY <1>2, <1>5, ConcatEntries
  <2>. QED BY <1>1, <1>2, <1>4, <1>5, <2>1, <2>2
<1>. HIDE DEF n
<1>9. ASSUME NEW o \in 1..Len(orders'), o \notin 1..n
      PROVE  orders'[o].status = "completed" /\ disputes'[o].status = "none"
  <2>1. o - n \in 1..Len(batch) /\ o = n + (o - n) BY <1>2, <1>3, <1>7, <1>9
  <2>2. PICK i \in 1..Len(batch) : o = n + i BY <2>1
  <2>. QED BY <1>6, <1>8, <2>2
<1>10. ReportedTables' BY <1>1, <1>2, <1>7 DEF ReportedTables
<1>11. RowSteps BY <1>2, <1>3, <1>7, <1>8, <1>9 DEF RowSteps, OrderSteps, n
<1>. QED BY <1>10, <1>11

LEMMA FilingKeepsRows ==
  ASSUME ReportedTables, NEW o \in 1..Len(orders), CreateDispute(o) \/ DenyDispute(o)
  PROVE  ReportedTables' /\ RowSteps
<1>1. /\ orders \in Seq(ReportedRow) /\ disputes \in Seq(DisputeRow)
      /\ Len(disputes) = Len(orders) /\ Len(orders) \in Nat
  BY DEF ReportedTables
<1>2. PICK st \in {"open", "denied"} :
        disputes' = [disputes EXCEPT ![o] = [disputes[o] EXCEPT !.status = st]]
  BY DEF CreateDispute, DenyDispute
<1>3. /\ UNCHANGED << orders, month >> /\ disputes[o].status \in {"none", "open"}
  BY DEF CreateDispute, DenyDispute, IsOpen
<1>4. disputes[o] \in DisputeRow BY <1>1, EntryTyped
<1>5. [disputes[o] EXCEPT !.status = st] \in DisputeRow BY <1>4 DEF DisputeRow
<1>6. [disputes[o] EXCEPT !.status = st].status = st BY <1>4 DEF DisputeRow
<1>. DEFINE row == [disputes[o] EXCEPT !.status = st]
<1>. HIDE DEF row
<1>7. /\ disputes' \in Seq(DisputeRow) /\ Len(disputes') = Len(orders)
      /\ disputes'[o] = row /\ \A p \in 1..Len(orders) : p # o => disputes'[p] = disputes[p]
  BY <1>1, <1>2, <1>5 DEF row
<1>8. disputes'[o].status # "approved" BY <1>6, <1>7 DEF row
<1>9. \A p \in 1..Len(orders) : OrderSteps(p) BY <1>3, <1>7, <1>8 DEF OrderSteps
<1>. QED BY <1>1, <1>3, <1>7, <1>9 DEF ReportedTables, RowSteps

LEMMA ApprovalKeepsRows ==
  ASSUME ReportedTables, NEW o \in 1..Len(orders), NEW requested \in Refunds,
         ApproveDispute(o, requested)
  PROVE  ReportedTables' /\ RowSteps
<1>. DEFINE refund == ClampRefundCents(requested, orders[o].price)
            dispute == [status |-> "approved", refundCents |-> refund]
            order == [orders[o] EXCEPT !.status = StatusAfterRefund(orders[o], refund)]
<1>1. /\ orders \in Seq(ReportedRow) /\ disputes \in Seq(DisputeRow)
      /\ Len(disputes) = Len(orders) /\ Len(orders) \in Nat
  BY DEF ReportedTables
<1>2. /\ disputes' = [disputes EXCEPT ![o] = dispute] /\ orders' = [orders EXCEPT ![o] = order]
      /\ month' = month /\ disputes[o].status = "open"
  BY DEF ApproveDispute, RecordApproval, IsOpen
<1>3. orders[o] \in ReportedRow /\ orders[o].price \in Nat
  <2>1. orders[o] \in ReportedRow BY <1>1
  <2>. QED BY <2>1 DEF ReportedRow
<1>4. refund \in Nat BY <1>3, ClampRefundBounds, MarketAssumption
<1>5. dispute \in DisputeRow /\ dispute.status = "approved" /\ dispute.refundCents = refund
  BY <1>4 DEF DisputeRow
<1>6. order = [orders[o] EXCEPT !.status =
                 IF WasReturned(orders[o], dispute) THEN "refunded" ELSE @]
  <2>1. WasReturned(orders[o], dispute) <=> refund > 0 /\ refund = orders[o].price
    BY <1>3, <1>5 DEF WasReturned
  <2>. QED BY <2>1 DEF StatusAfterRefund
<1>7. order \in ReportedRow
  <2>1. StatusAfterRefund(orders[o], refund) \in {"completed", "converted", "refunded"}
    BY <1>3 DEF StatusAfterRefund, ReportedRow
  <2>. QED BY <1>3, <2>1 DEF ReportedRow
<1>. HIDE DEF dispute, order
<1>8. /\ disputes' \in Seq(DisputeRow) /\ Len(disputes') = Len(orders)
      /\ disputes'[o] = dispute /\ \A p \in 1..Len(orders) : p # o => disputes'[p] = disputes[p]
  BY <1>1, <1>2, <1>5
<1>9. /\ orders' \in Seq(ReportedRow) /\ Len(orders') = Len(orders)
      /\ orders'[o] = order /\ \A p \in 1..Len(orders) : p # o => orders'[p] = orders[p]
  BY <1>1, <1>2, <1>7
<1>10. OrderSteps(o)
  BY <1>2, <1>5, <1>6, <1>8, <1>9 DEF OrderSteps
<1>11. \A p \in 1..Len(orders) : OrderSteps(p) BY <1>8, <1>9, <1>10 DEF OrderSteps
<1>. QED BY <1>1, <1>2, <1>8, <1>9, <1>11 DEF ReportedTables, RowSteps

LEMMA MarketRows ==
  ASSUME ReportedTables, [Next]_vars
  PROVE  ReportedTables' /\ RowSteps
<1>1. month' \in Nat
  <2>1. \A u, batch : Purchase(u, batch) => month' = month BY DEF Purchase, RecordPurchase
  <2>2. \A o, requested : ApproveDispute(o, requested) => month' = month
    BY DEF ApproveDispute, RecordApproval
  <2>3. \A u : RewardReferral(u) => month' = month BY DEF RewardReferral, PayRewards
  <2>4. \A swept : SweepVendorPayouts(swept) => month' = month
    BY DEF SweepVendorPayouts, RecordPayouts
  <2>5. NextMonth \/ month' = month
    BY <2>1, <2>2, <2>3, <2>4
    DEF Next, vars, CreateStripeSession, CreditUserFromStripe, PurchaseLead, PurchaseLeads,
        GetOrCreateReferralCode, RedeemReferralCode, LoseRewardTasks, CreateDispute,
        DenyDispute, FlagLead, RemoveLead, SetMemberSpendCap
  <2>. QED BY <2>5 DEF ReportedTables, NextMonth
<1>. DEFINE Effect == ReportedTables' /\ RowSteps
<1>. SUFFICES Effect OBVIOUS
<1>2. ASSUME UNCHANGED << orders, disputes, ledger >> PROVE Effect
  <2>1. ReportedTables' BY <1>1, <1>2 DEF ReportedTables
  <2>2. Len(orders) \in Nat BY DEF ReportedTables
  <2>. QED BY <1>2, <2>1, <2>2 DEF RowSteps, OrderSteps
<1>3. ASSUME NEW u \in Users, NEW batch, IsBatch(batch), Purchase(u, batch) PROVE Effect
  BY <1>3, OrdersPurchased
<1>4. ASSUME NEW o \in 1..Len(orders), CreateDispute(o) \/ DenyDispute(o) PROVE Effect
  BY <1>4, FilingKeepsRows
<1>5. ASSUME NEW o \in 1..Len(orders), NEW requested \in Refunds, ApproveDispute(o, requested)
      PROVE  Effect
  BY <1>5, ApprovalKeepsRows
<1>. HIDE DEF Effect
<1>. QED BY <1>2, <1>3, <1>4, <1>5, LedgerSteps

-------------------------------------------------------------------------------
(* Outcome reports: the inductive invariant.                                 *)

ReportRow == [order : 1..Len(orders), outcome : Outcomes,
              read : {"completed", "converted"}, pc : {"read", "upserted"}]

\* What ReportsTypeOK says, and of the market as much as it takes.
ReportsTyped ==
  /\ ReportedTables
  /\ DOMAIN outcomes \subseteq 1..Len(orders)
  /\ \A o \in DOMAIN outcomes : outcomes[o] \in Outcomes
  /\ reports \subseteq ReportRow
  /\ raced \subseteq 1..Len(orders)

\* An order that no report was overtaken on has one report in flight at most.
OneReport == \A r, s \in reports : r.order = s.order /\ r.order \notin raced => r = s

\* Such a report read what the order still is, and stands where it believes to be.
ReportTrue ==
  \A r \in reports : r.order \notin raced =>
    /\ orders[r.order].status = r.read
    /\ r.pc = "read" => (r.read = "converted" <=> OutcomeOf(r.order) = "closed")
    /\ r.pc = "upserted" => OutcomeOf(r.order) = r.outcome

ReportsInv ==
  ReportsTyped /\ OneReport /\ ReportTrue /\ ConvertedMatchesOutcome /\ RefundSurvivesReports

LEMMA ReportReadStep ==
  ASSUME ReportsInv, NEW o \in 1..Len(orders), NEW outcome \in Outcomes, ReportRead(o, outcome)
  PROVE  ReportsInv'
<1>. DEFINE rec == [order |-> o, outcome |-> outcome, read |-> orders[o].status, pc |-> "read"]
<1>. USE DEF ReportsInv
<1>1. /\ orders[o].status # "refunded" /\ reports' = reports \cup {rec}
      /\ raced' = IF o \in Reported THEN raced \cup {o} ELSE raced
      /\ UNCHANGED << orders, disputes, month, outcomes >>
  BY DEF ReportRead, Reportable, vars
<1>2. rec.order = o /\ rec.read = orders[o].status /\ rec.pc = "read" OBVIOUS
<1>3. rec \in ReportRow
  <2>1. orders[o] \in ReportedRow BY DEF ReportsTyped, ReportedTables
  <2>2. orders[o].status \in {"completed", "converted"} BY <1>1, <2>1 DEF ReportedRow
  <2>. QED BY <2>2 DEF ReportRow
<1>. HIDE DEF rec
<1>4. raced \subseteq raced' /\ raced' \subseteq raced \cup {o} BY <1>1
<1>5. Reported' = Reported \cup {o} BY <1>1, <1>2 DEF Reported
<1>6. ReportsTyped'
  <2>1. ReportedTables' BY <1>1 DEF ReportsTyped, ReportedTables
  <2>. QED BY <1>1, <1>3, <1>4, <2>1 DEF ReportsTyped, ReportRow
<1>7. OneReport'
  <2>1. o \notin raced' => \A r \in reports : r.order # o BY <1>1 DEF Reported
  <2>. QED BY <1>1, <1>2, <1>4, <2>1 DEF OneReport
<1>8. \A q : OutcomeOf(q)' = OutcomeOf(q) BY <1>1 DEF OutcomeOf
<1>9. ReportTrue'
  <2>1. ASSUME o \notin raced'
        PROVE  rec.read = "converted" <=> OutcomeOf(o) = "closed"
    <3>1. o \notin raced /\ o \notin Reported BY <1>1, <2>1
    <3>. QED BY <1>1, <1>2, <3>1 DEF ConvertedMatchesOutcome
  <2>. QED BY <1>1, <1>2, <1>4, <1>8, <2>1 DEF ReportTrue
<1>10. ConvertedMatchesOutcome'
  BY <1>1, <1>4, <1>5, <1>8 DEF ConvertedMatchesOutcome
<1>11. RefundSurvivesReports' BY <1>1, <1>4 DEF RefundSurvivesReports
<1>. QED BY <1>6, <1>7, <1>9, <1>10, <1>11

LEMMA ReportUpsertStep ==
  ASSUME ReportsInv, NEW r \in reports, ReportUpsert(r)
  PROVE  ReportsInv'
<1>. DEFINE rec == [r EXCEPT !.pc = "upserted"]
            o == r.order
<1>. USE DEF ReportsInv
<1>1. /\ r.pc = "read" /\ reports' = (reports \ {r}) \cup {rec}
      /\ outcomes' = [q \in DOMAIN outcomes \cup {o} |-> IF q = o THEN r.outcome ELSE outcomes[q]]
      /\ UNCHANGED << orders, disputes, month, raced >>
  BY DEF ReportUpsert, vars
<1>2. r \in ReportRow /\ o \in 1..Len(orders) /\ r.outcome \in Outcomes
  BY DEF ReportsTyped, ReportRow
<1>3. /\ rec \in ReportRow /\ rec.order = o /\ rec.read = r.read /\ rec.outcome = r.outcome
      /\ rec.pc = "upserted"
  BY <1>2 DEF ReportRow
<1>. HIDE DEF rec, o
<1>4. Reported' = Reported BY <1>1, <1>3 DEF Reported, o
<1>5. /\ \A q : OutcomeOf(q)' = IF q = o THEN r.outcome ELSE OutcomeOf(q)
      /\ DOMAIN outcomes' = DOMAIN outcomes \cup {o}
  BY <1>1 DEF OutcomeOf
<1>6. ReportsTyped'
  <2>1. ReportedTables' BY <1>1 DEF ReportsTyped, ReportedTables
  <2>2. \A q \in DOMAIN outcomes' : outcomes'[q] \in Outcomes BY <1>1, <1>2 DEF ReportsTyped
  <2>. QED BY <1>1, <1>2, <1>3, <1>5, <2>1, <2>2 DEF ReportsTyped, ReportRow
<1>7. OneReport'
  BY <1>1, <1>3 DEF OneReport, o
<1>8. ReportTrue'
  <2>1. ASSUME NEW s \in reports', s.order \notin raced
        PROVE  /\ orders[s.order].status = s.read
               /\ s.pc = "read" => (s.read = "converted" <=> OutcomeOf(s.order)' = "closed")
               /\ s.pc = "upserted" => OutcomeOf(s.order)' = s.outcome
    <3>1. CASE s = rec BY <1>3, <1>5, <2>1, <3>1 DEF ReportTrue, o
    <3>2. CASE s # rec
      <4>1. s \in reports /\ s # r BY <1>1, <3>2
      <4>2. s.order # o BY <2>1, <4>1 DEF OneReport, o
      <4>. QED BY <1>5, <2>1, <4>1, <4>2 DEF ReportTrue
    <3>. QED BY <3>1, <3>2
  <2>. QED BY <1>1, <2>1 DEF ReportTrue
<1>9. ConvertedMatchesOutcome'
  <2>1. o \in Reported BY DEF Reported, o
  <2>. QED BY <1>1, <1>4, <1>5, <2>1 DEF ConvertedMatchesOutcome
<1>10. RefundSurvivesReports' BY <1>1 DEF RefundSurvivesReports
<1>. QED BY <1>6, <1>7, <1>8, <1>9, <1>10

LEMMA ReportUpdateStep ==
  ASSUME ReportsInv, NEW r \in reports, ReportUpdateStatus(r)
  PROVE  ReportsInv'
<1>. DEFINE o == r.order
            row == [orders[o] EXCEPT !.status = StatusAfterReport(r, orders[o].status)]
<1>. USE DEF ReportsInv
<1>1. /\ r.pc = "upserted" /\ reports' = reports \ {r}
      /\ orders' = [orders EXCEPT ![o] = row]
      /\ UNCHANGED << disputes, month, outcomes, raced >>
  BY DEF ReportUpdateStatus
<1>2. r \in ReportRow /\ o \in 1..Len(orders) /\ r.outcome \in Outcomes
      /\ r.read \in {"completed", "converted"}
  BY DEF ReportsTyped, ReportRow
<1>3. orders[o] \in ReportedRow BY <1>2 DEF ReportsTyped, ReportedTables
<1>4. StatusAfterReport(r, orders[o].status) \in {"completed", "converted", "refunded"}
  BY <1>3 DEF StatusAfterReport, ReportedRow
<1>5. /\ row \in ReportedRow /\ row.price = orders[o].price
      /\ row.status = StatusAfterReport(r, orders[o].status)
  BY <1>3, <1>4 DEF ReportedRow
<1>. HIDE DEF o, row
<1>6. /\ orders' \in Seq(ReportedRow) /\ Len(orders') = Len(orders)
      /\ orders'[o] = row /\ \A p \in 1..Len(orders) : p # o => orders'[p] = orders[p]
  BY <1>1, <1>2, <1>5 DEF ReportsTyped, ReportedTables
<1>7. \A q : OutcomeOf(q)' = OutcomeOf(q) BY <1>1 DEF OutcomeOf
<1>8. ReportsTyped'
  <2>1. ReportedTables' BY <1>1, <1>6 DEF ReportsTyped, ReportedTables
  <2>. QED BY <1>1, <1>6, <2>1 DEF ReportsTyped, ReportRow
<1>9. OneReport' BY <1>1 DEF OneReport
<1>10. ReportTrue'
  <2>1. ASSUME NEW s \in reports', s.order \notin raced
        PROVE  s \in reports /\ orders'[s.order] = orders[s.order]
    <3>1. s \in reports /\ s # r /\ s.order \in 1..Len(orders)
      BY <1>1, <2>1 DEF ReportsTyped, ReportRow
    <3>2. s.order # o BY <2>1, <3>1 DEF OneReport, o
    <3>. QED BY <1>6, <3>1, <3>2
  <2>. QED BY <1>1, <1>7, <2>1 DEF ReportTrue
<1>11. o \notin raced =>
         /\ orders[o].status = r.read /\ OutcomeOf(o) = r.outcome
         /\ row.status = IF r.outcome = "closed" THEN "converted" ELSE "completed"
  <2>1. o \notin raced => orders[o].status = r.read /\ OutcomeOf(o) = r.outcome
    BY <1>1 DEF ReportTrue, o
  <2>2. row.status = StatusAfterReport(r, orders[o].status) BY <1>5
  <2>. QED BY <1>2, <2>1, <2>2 DEF StatusAfterReport
<1>12. ConvertedMatchesOutcome'
  <2>1. ASSUME NEW p \in 1..Len(orders), p \notin raced, p \notin Reported',
               orders'[p].status # "refunded"
        PROVE  orders'[p].status = "converted" <=> OutcomeOf(p) = "closed"
    <3>1. CASE p = o BY <1>6, <1>11, <2>1, <3>1
    <3>2. CASE p # o
      <4>1. p \notin Reported BY <1>1, <2>1, <3>2 DEF Reported, o
      <4>. QED BY <1>6, <2>1, <3>2, <4>1 DEF ConvertedMatchesOutcome
    <3>. QED BY <3>1, <3>2
  <2>. QED BY <1>1, <1>6, <1>7, <2>1 DEF ConvertedMatchesOutcome
<1>13. RefundSurvivesReports'
  <2>1. ASSUME NEW p \in 1..Len(orders), p \notin raced
        PROVE  /\ orders'[p].price = orders[p].price
               /\ orders'[p].status = "refunded" <=> orders[p].status = "refunded"
    BY <1>2, <1>5, <1>6, <1>11, <2>1
  <2>. QED BY <1>1, <1>6, <2>1 DEF RefundSurvivesReports
<1>. QED BY <1>8, <1>9, <1>10, <1>12, <1>13

LEMMA ReportLostStep ==
  ASSUME ReportsInv, NEW r \in reports, ReportLost(r)
  PROVE  ReportsInv'
<1>. USE DEF ReportsInv
<1>1. /\ reports' = reports \ {r}
      /\ raced' = IF r.pc = "upserted" THEN raced \cup {r.order} ELSE raced
      /\ UNCHANGED << orders, disputes, month, outcomes >>
  BY DEF ReportLost, vars
<1>2. r.order \in 1..Len(orders) /\ r.pc \in {"read", "upserted"}
  BY DEF ReportsTyped, ReportRow
<1>3. raced \subseteq raced' BY <1>1
<1>4. ReportsTyped'
  <2>1. ReportedTables' BY <1>1 DEF ReportsTyped, ReportedTables
  <2>. QED BY <1>1, <1>2, <2>1 DEF ReportsTyped, ReportRow
<1>5. \A q : OutcomeOf(q)' = OutcomeOf(q) BY <1>1 DEF OutcomeOf
<1>6. OneReport' BY <1>1, <1>3 DEF OneReport
<1>7. ReportTrue' BY <1>1, <1>3, <1>5 DEF ReportTrue
<1>8. ConvertedMatchesOutcome'
  <2>1. ASSUME NEW p \in 1..Len(orders), p \notin raced', p \notin Reported',
               orders[p].status # "refunded"
        PROVE  orders[p].status = "converted" <=> OutcomeOf(p) = "closed"
    <3>1. CASE p = r.order
      <4>1. r.pc = "read" /\ p \notin raced BY <1>1, <1>2, <2>1, <3>1
      <4>. QED BY <3>1, <4>1 DEF ReportTrue
    <3>2. CASE p # r.order
      <4>1. p \notin Reported /\ p \notin raced BY <1>1, <1>3, <2>1, <3>2 DEF Reported
      <4>. QED BY <2>1, <4>1 DEF ConvertedMatchesOutcome
    <3>. QED BY <3>1, <3>2
  <2>. QED BY <1>1, <1>5, <2>1 DEF ConvertedMatchesOutcome
<1>9. RefundSurvivesReports' BY <1>1, <1>3 DEF RefundSurvivesReports
<1>. QED BY <1>4, <1>6, <1>7, <1>8, <1>9

LEMMA ReportedMarketStep ==
  ASSUME ReportsInv, MarketStep \/ UNCHANGED orVars
  PROVE  ReportsInv'
<1>. USE DEF ReportsInv
<1>1. /\ [Next]_vars /\ UNCHANGED << outcomes, reports >> /\ raced \subseteq raced'
      /\ raced' \subseteq raced \cup Reported
      /\ \A o \in Reported : o \notin raced' => orders'[o] = orders[o]
  BY DEF MarketStep, orVars, reportVars, vars
<1>2. ReportedTables' /\ RowSteps BY <1>1, MarketRows DEF ReportsTyped
<1>3. Len(orders) \in Nat /\ Len(orders') \in Nat /\ Len(orders) <= Len(orders')
  BY <1>2 DEF RowSteps, ReportsTyped, ReportedTables
<1>4. 1..Len(orders) \subseteq 1..Len(orders') BY <1>3
<1>5. Reported \subseteq 1..Len(orders) /\ Reported' = Reported
  BY <1>1 DEF Reported, ReportsTyped, ReportRow
<1>6. ReportsTyped'
  <2>1. reports' \subseteq ReportRow' BY <1>1, <1>4 DEF ReportsTyped, ReportRow
  <2>. QED BY <1>1, <1>2, <1>4, <1>5, <2>1 DEF ReportsTyped
<1>7. OneReport' BY <1>1 DEF OneReport
<1>8. \A q : OutcomeOf(q)' = OutcomeOf(q) BY <1>1 DEF OutcomeOf
<1>9. ReportTrue' BY <1>1, <1>8 DEF ReportTrue, Reported
<1>10. \A o \in 1..Len(orders) : orders[o] \in ReportedRow /\ disputes[o] \in DisputeRow
  BY DEF ReportsTyped, ReportedTables
<1>11. ASSUME NEW o \in 1..Len(orders)
       PROVE  /\ orders'[o].price = orders[o].price
              /\ orders'[o].status = orders[o].status \/ orders'[o].status = "refunded"
  BY <1>2, <1>10 DEF RowSteps, OrderSteps, ReportedRow
<1>12. ConvertedMatchesOutcome'
  <2>1. ASSUME NEW o \in 1..Len(orders'), o \notin raced', o \notin Reported,
               orders'[o].status # "refunded"
        PROVE  orders'[o].status = "converted" <=> OutcomeOf(o) = "closed"
    <3>1. CASE o \in 1..Len(orders) BY <1>1, <1>11, <2>1, <3>1 DEF ConvertedMatchesOutcome
    <3>2. CASE o \notin 1..Len(orders)
      <4>1. orders'[o].status = "completed" BY <1>2, <3>2 DEF RowSteps
      <4>2. OutcomeOf(o) = "none" BY <3>2 DEF OutcomeOf, ReportsTyped
      <4>. QED BY <4>1, <4>2
    <3>. QED BY <3>1, <3>2
  <2>. QED BY <1>5, <1>8, <2>1 DEF ConvertedMatchesOutcome
<1>13. RefundSurvivesReports'
  <2>1. ASSUME NEW o \in 1..Len(orders'), o \notin raced'
        PROVE  orders'[o].status = "refunded" <=> WasReturned(orders'[o], disputes'[o])
    <3>1. CASE o \in 1..Len(orders)
      <4>1. orders[o].status = "refunded" <=> WasReturned(orders[o], disputes[o])
        BY <1>1, <2>1, <3>1 DEF RefundSurvivesReports, WasReturned
      <4>2. OrderSteps(o) BY <1>2, <3>1 DEF RowSteps
      <4>3. orders'[o].price = orders[o].price BY <1>11, <3>1
      <4>. QED BY <1>10, <3>1, <4>1, <4>2, <4>3 DEF OrderSteps, WasReturned, ReportedRow
    <3>2. CASE o \notin 1..Len(orders) BY <1>2, <3>2 DEF RowSteps, WasReturned
    <3>. QED BY <3>1, <3>2
  <2>. QED BY <2>1 DEF RefundSurvivesReports, WasReturned
<1>. QED BY <1>6, <1>7, <1>9, <1>12, <1>13

LEMMA ReportsInvariant == ReportsSpec => []ReportsInv
<1>1. ReportsInit => ReportsInv
  <2>. SUFFICES ASSUME ReportsInit PROVE ReportsInv OBVIOUS
  <2>1. /\ orders = << >> /\ disputes = << >> /\ month = 1
        /\ outcomes = << >> /\ reports = {} /\ raced = {}
    BY DEF ReportsInit, Init
  <2>2. Len(<< >>) = 0 /\ DOMAIN << >> = {} /\ 1..0 = {} OBVIOUS
  <2>3. ReportsTyped BY <2>1, <2>2 DEF ReportsTyped, ReportedTables
  <2>. QED
    BY <2>1, <2>2, <2>3
    DEF ReportsInv, OneReport, ReportTrue, ConvertedMatchesOutcome, RefundSurvivesReports
<1>2. ReportsInv /\ [ReportsNext]_orVars => ReportsInv'
  BY ReportReadStep, ReportUpsertStep, ReportUpdateStep, ReportLostStep, ReportedMarketStep
  DEF ReportsNext, ReportStep
<1>. QED BY <1>1, <1>2, PTL DEF ReportsSpec

\* Reports, refunds, purchases and crashes in any order: a status is completed, converted
\* or refunded, and a report in flight never read "refunded".
THEOREM ReportsTypeCorrect == ReportsSpec => []ReportsTypeOK
<1>1. ReportsInv => ReportsTypeOK
  BY DEF ReportsInv, ReportsTyped, ReportedTables, ReportedRow, ReportRow, ReportsTypeOK
<1>. QED BY <1>1, ReportsInvariant, PTL

\* reportLeadOutcome keeps orders.status and lead_outcomes in step, without a transaction,
\* on every order on which no report was overtaken or died half-way.
THEOREM ReportsMatchOutcomes == ReportsSpec => []ConvertedMatchesOutcome
<1>1. ReportsInv => ConvertedMatchesOutcome BY DEF ReportsInv
<1>. QED BY <1>1, ReportsInvariant, PTL

\* The guard on refunded orders suffices, but for a refund that comes between the guard
\* and the update: no other refund is ever clobbered, and none is invented.
THEOREM ReportsKeepRefunds == ReportsSpec => []RefundSurvivesReports
<1>1. ReportsInv => RefundSurvivesReports BY DEF ReportsInv
<1>. QED BY <1>1, ReportsInvariant, PTL

-------------------------------------------------------------------------------
(* Outcome reports: the spend caps, with the conversions that free headroom. *)

\* A report may take the label of a refund away but never puts one on.
RefundsPaid ==
  \A o \in 1..Len(orders) :
    orders[o].status = "refunded" => WasReturned(orders[o], disputes[o])

CapsTyped == spendCaps \in [Members -> Nat \cup {NULL}]

CapsInv == ReportsInv /\ RefundsPaid /\ CapsTyped

\* Only an admin of the org writes a cap.
LEMMA CapsStep ==
  ASSUME CapsTyped, [Next]_vars
  PROVE  CapsTyped'
<1>1. \A u, batch : Purchase(u, batch) => spendCaps' = spendCaps BY DEF Purchase, RecordPurchase
<1>2. \A o, requested : ApproveDispute(o, requested) => spendCaps' = spendCaps
  BY DEF ApproveDispute, RecordApproval
<1>3. \A u : RewardReferral(u) => spendCaps' = spendCaps BY DEF RewardReferral, PayRewards
<1>4. \A swept : SweepVendorPayouts(swept) => spendCaps' = spendCaps
  BY DEF SweepVendorPayouts, RecordPayouts
<1>5. \/ spendCaps' = spendCaps
      \/ \E m \in Members, cap \in CapValues \cup {NULL} : SetMemberSpendCap(m, cap)
  BY <1>1, <1>2, <1>3, <1>4
  DEF Next, vars, CreateStripeSession, CreditUserFromStripe, PurchaseLead, PurchaseLeads,
      GetOrCreateReferralCode, RedeemReferralCode, LoseRewardTasks, CreateDispute,
      DenyDispute, FlagLead, RemoveLead, NextMonth
<1>6. ASSUME NEW m \in Members, NEW cap \in CapValues \cup {NULL}, SetMemberSpendCap(m, cap)
      PROVE  CapsTyped'
  <2>1. cap \in Nat \cup {NULL} BY MarketAssumption
  <2>. QED BY <1>6, <2>1 DEF CapsTyped, SetMemberSpendCap
<1>. QED BY <1>5, <1>6 DEF CapsTyped

\* An order gets the label of a refund only with its whole price given back.
LEMMA RefundsPaidStep ==
  ASSUME ReportsInv, RefundsPaid, [ReportsNext]_orVars
  PROVE  RefundsPaid'
<1>. USE DEF ReportsInv
<1>1. ASSUME [Next]_vars PROVE RefundsPaid'
  <2>1. RowSteps BY <1>1, MarketRows DEF ReportsTyped
  <2>2. \A o \in 1..Len(orders) : orders[o] \in ReportedRow BY DEF ReportsTyped, ReportedTables
  <2>3. ASSUME NEW o \in 1..Len(orders'), orders'[o].status = "refunded"
        PROVE  WasReturned(orders'[o], disputes'[o])
    <3>1. o \in 1..Len(orders) /\ OrderSteps(o) BY <2>1, <2>3 DEF RowSteps
    <3>2. orders[o] \in ReportedRow BY <2>2, <3>1
    <3>3. orders[o].status = "refunded" => WasReturned(orders[o], disputes[o])
      BY <3>1 DEF RefundsPaid
    <3>4. CASE orders'[o] = orders[o] /\ disputes'[o] = disputes[o] BY <2>3, <3>3, <3>4
    <3>5. CASE orders'[o] = orders[o] /\ disputes[o].status # "approved"
      BY <2>3, <3>3, <3>5 DEF WasReturned
    <3>6. CASE /\ disputes[o].status # "approved" /\ disputes'[o].status = "approved"
               /\ orders'[o] = [orders[o] EXCEPT !.status =
                                  IF WasReturned(orders[o], disputes'[o]) THEN "refunded" ELSE @]
      <4>1. orders[o].status # "refunded" BY <3>3, <3>6 DEF WasReturned
      <4>2. orders'[o].price = orders[o].price BY <3>2, <3>6 DEF ReportedRow
      <4>3. WasReturned(orders[o], disputes'[o]) BY <2>3, <3>2, <3>6, <4>1 DEF ReportedRow
      <4>. QED BY <4>2, <4>3 DEF WasReturned
    <3>. QED BY <3>1, <3>4, <3>5, <3>6 DEF OrderSteps
  <2>. QED BY <2>3 DEF RefundsPaid
<1>2. ASSUME NEW r \in reports, ReportUpdateStatus(r) PROVE RefundsPaid'
  <2>. DEFINE row == [orders[r.order] EXCEPT !.status = StatusAfterReport(r, orders[r.order].status)]
  <2>1. orders' = [orders EXCEPT ![r.order] = row] /\ disputes' = disputes
    BY <1>2 DEF ReportUpdateStatus
  <2>2. r.order \in 1..Len(orders) /\ orders \in Seq(ReportedRow)
    BY DEF ReportsTyped, ReportRow, ReportedTables
  <2>3. orders[r.order] \in ReportedRow BY <2>2
  <2>4. /\ row.price = orders[r.order].price
        /\ row.status = StatusAfterReport(r, orders[r.order].status)
    BY <2>3 DEF ReportedRow
  <2>5. row.status = "refunded" => orders[r.order].status = "refunded"
    BY <2>4 DEF StatusAfterReport
  <2>. HIDE DEF row
  <2>6. /\ Len(orders') = Len(orders) /\ orders'[r.order] = row
        /\ \A p \in 1..Len(orders) : p # r.order => orders'[p] = orders[p]
    BY <2>1, <2>2
  <2>7. ASSUME NEW o \in 1..Len(orders), orders'[o].status = "refunded"
        PROVE  WasReturned(orders'[o], disputes[o])
    <3>1. orders[o].status = "refunded" /\ orders'[o].price = orders[o].price
      BY <2>2, <2>4, <2>5, <2>6, <2>7
    <3>. QED BY <3>1 DEF RefundsPaid, WasReturned
  <2>. QED BY <2>1, <2>6, <2>7 DEF RefundsPaid
<1>3. [Next]_vars \/ \E r \in reports : ReportUpdateStatus(r)
  <2>1. ASSUME ReportStep PROVE UNCHANGED vars \/ \E r \in reports : ReportUpdateStatus(r)
    BY <2>1 DEF ReportStep, ReportRead, ReportUpsert, ReportLost
  <2>2. MarketStep => Next BY DEF MarketStep
  <2>3. UNCHANGED orVars => UNCHANGED vars BY DEF orVars
  <2>. QED BY <2>1, <2>2, <2>3 DEF ReportsNext
<1>. QED BY <1>1, <1>2, <1>3

LEMMA CapsInvariant == ReportsSpec => []CapsInv
<1>1. ReportsInit => RefundsPaid /\ CapsTyped
  <2>1. CapValues \subseteq Nat BY MarketAssumption
  <2>2. Init => CapsTyped BY <2>1 DEF Init, CapsTyped
  <2>3. Init => RefundsPaid BY DEF Init, RefundsPaid
  <2>. QED BY <2>2, <2>3 DEF ReportsInit
<1>2. ReportsInv /\ RefundsPaid /\ CapsTyped /\ [ReportsNext]_orVars => RefundsPaid' /\ CapsTyped'
  <2>. SUFFICES ASSUME ReportsInv, RefundsPaid, CapsTyped, [ReportsNext]_orVars
       PROVE  RefundsPaid' /\ CapsTyped'
    OBVIOUS
  <2>1. [Next]_vars \/ spendCaps' = spendCaps
    BY DEF ReportsNext, ReportStep, MarketStep, ReportRead, ReportUpsert, ReportUpdateStatus,
           ReportLost, orVars, vars
  <2>2. CapsTyped' BY <2>1, CapsStep DEF CapsTyped
  <2>. QED BY <2>2, RefundsPaidStep
<1>. QED BY <1>1, <1>2, ReportsInvariant, PTL DEF ReportsSpec, CapsInv

\* What SpendCapUnlessConverted adds up, for rows of orders that may be converted.
LEMMA KeptSpendTyped ==
  ASSUME NEW rows \in Seq(ReportedRow), NEW resolutions, NEW u
  PROVE  /\ KeptSpend(rows, resolutions, u) \in Seq(Int)
         /\ Len(KeptSpend(rows, resolutions, u)) = Len(rows)
<1>1. \A o \in 1..Len(rows) : rows[o].price \in Int
  <2>1. \A o \in 1..Len(rows) : rows[o] \in ReportedRow OBVIOUS
  <2>. QED BY <2>1 DEF ReportedRow
<1>. QED BY <1>1 DEF KeptSpend

\* The cap is checked against no less: what is neither converted nor given back in full
\* is still "completed".
LEMMA KeptSpendIsCounted ==
  ASSUME ReportedTables, RefundsPaid, NEW u
  PROVE  /\ Spend(u) \in Seq(Int)
         /\ Total(KeptSpend(orders, disputes, u)) <= Total(Spend(u))
<1>. DEFINE s == KeptSpend(orders, disputes, u)
            t == Spend(u)
<1>1. orders \in Seq(ReportedRow) /\ Len(orders) \in Nat BY DEF ReportedTables
<1>2. \A o \in 1..Len(orders) : /\ orders[o].price \in Nat
                               /\ orders[o].status \in {"completed", "converted", "refunded"}
  <2>1. \A o \in 1..Len(orders) : orders[o] \in ReportedRow BY <1>1
  <2>. QED BY <2>1 DEF ReportedRow
<1>3. s \in Seq(Int) /\ Len(s) = Len(orders) BY <1>1, KeptSpendTyped
<1>4. t \in Seq(Int) /\ Len(t) = Len(orders) BY <1>1, <1>2 DEF Spend
<1>5. ASSUME NEW o \in 1..Len(orders) PROVE s[o] <= t[o]
  <2>1. CASE orders[o].status = "completed" BY <1>2, <2>1 DEF KeptSpend, Spend
  <2>2. CASE orders[o].status = "converted" BY <1>2, <2>2 DEF KeptSpend, Spend
  <2>3. CASE orders[o].status = "refunded"
    <3>1. disputes[o].refundCents = orders[o].price BY <2>3 DEF RefundsPaid, WasReturned
    <3>2. ~(disputes[o].refundCents < orders[o].price) BY <1>2, <3>1
    <3>. QED BY <1>2, <3>2 DEF KeptSpend, Spend
  <2>. QED BY <1>2, <2>1, <2>2, <2>3
<1>. HIDE DEF s, t
<1>6. Total(s) <= Total(t) BY <1>3, <1>4, <1>5, TotalMonotone
<1>. QED BY <1>4, <1>6 DEF s, t

\* The orders a purchase appends are the buyer's, of this month, paid and kept.
LEMMA OrdersAppended ==
  ASSUME ReportedTables, NEW u \in Users, NEW batch, IsBatch(batch), Purchase(u, batch)
  PROVE  /\ Len(orders') = Len(orders) + Len(batch)
         /\ \A o \in 1..Len(orders) : orders'[o] = orders[o] /\ disputes'[o] = disputes[o]
         /\ \A i \in 1..Len(batch) :
              LET order == orders'[Len(orders) + i]
              IN  /\ order.userId = u /\ order.price = Price[batch[i]]
                  /\ order.status = "completed" /\ order.month = month
                  /\ disputes'[Len(orders) + i].refundCents = 0
<1>. DEFINE newOrders == [i \in 1..Len(batch) |->
                            [userId |-> u, leadId |-> batch[i], price |-> Price[batch[i]],
                             status |-> "completed", month |-> month]]
            newDisputes == [i \in 1..Len(batch) |-> [status |-> "none", refundCents |-> 0]]
<1>1. orders' = orders \o newOrders /\ disputes' = disputes \o newDisputes
  BY DEF Purchase, RecordPurchase
<1>2. /\ orders \in Seq(ReportedRow) /\ disputes \in Seq(DisputeRow)
      /\ Len(disputes) = Len(orders) /\ month \in Nat /\ Len(batch) \in Nat
  BY BatchRows DEF ReportedTables
<1>3. newOrders \in Seq(ReportedRow) /\ Len(newOrders) = Len(batch)
  <2>1. \A i \in 1..Len(batch) : newOrders[i] \in ReportedRow
    BY <1>2, BatchRows DEF ReportedRow
  <2>. QED BY <2>1, <1>2
<1>4. newDisputes \in Seq(DisputeRow) /\ Len(newDisputes) = Len(batch)
  BY <1>2 DEF DisputeRow
<1>5. \A i \in 1..Len(batch) :
        /\ newOrders[i].userId = u /\ newOrders[i].price = Price[batch[i]]
        /\ newOrders[i].status = "completed" /\ newOrders[i].month = month
        /\ newDisputes[i].refundCents = 0
  OBVIOUS
<1>. HIDE DEF newOrders, newDisputes
<1>6. /\ Len(orders') = Len(orders) + Len(newOrders)
      /\ \A o \in 1..Len(orders) : orders'[o] = orders[o]
      /\ \A i \in 1..Len(newOrders) : orders'[Len(orders) + i] = newOrders[i]
  <2>1. Len(orders \o newOrders) = Len(orders) + Len(newOrders) BY <1>2, <1>3, ConcatTyped
  <2>2. /\ \A o \in 1..Len(orders) : (orders \o newOrders)[o] = orders[o]
        /\ \A i \in 1..Len(newOrders) : (orders \o newOrders)[Len(orders) + i] = newOrders[i]
    BY <1>2, <1>3, ConcatEntries
  <2>. QED BY <1>1, <2>1, <2>2
<1>7. /\ \A o \in 1..Len(disputes) : disputes'[o] = disputes[o]
      /\ \A i \in 1..Len(newDisputes) : disputes'[Len(disputes) + i] = newDisputes[i]
  BY <1>1, <1>2, <1>4, ConcatEntries
<1>8. \A o \in 1..Len(orders) : disputes'[o] = disputes[o] BY <1>2, <1>7
<1>9. \A i \in 1..Len(batch) : /\ orders'[Len(orders) + i] = newOrders[i]
                              /\ disputes'[Len(orders) + i] = newDisputes[i]
  BY <1>2, <1>3, <1>4, <1>6, <1>7
<1>10. Len(orders') = Len(orders) + Len(batch) BY <1>3, <1>6
<1>11. ASSUME NEW i \in 1..Len(batch)
       PROVE  LET order == orders'[Len(orders) + i]
              IN  /\ order.userId = u /\ order.price = Price[batch[i]]
                  /\ order.status = "completed" /\ order.month = month
                  /\ disputes'[Len(orders) + i].refundCents = 0
  BY <1>5, <1>9
<1>12. \A o \in 1..Len(orders) : orders'[o] = orders[o] /\ disputes'[o] = disputes[o]
  BY <1>6, <1>8
<1>. QED BY <1>10, <1>11, <1>12

\* After a purchase the buyer has kept at most what the cap was checked against.
LEMMA PurchaseKeptSpend ==
  ASSUME ReportedTables, RefundsPaid, NEW u \in Users, NEW batch, IsBatch(batch),
         Purchase(u, batch)
  PROVE  /\ orders'[Len(orders')].userId = u
         /\ Total(KeptSpend(orders', disputes', u)) <= Total(Spend(u)) + BatchPrice(batch)
         /\ Total(KeptSpend(orders', disputes', u)) \in Int
         /\ Total(Spend(u)) + BatchPrice(batch) \in Int
<1>. DEFINE n == Len(orders)
            s == KeptSpend(orders, disputes, u)
            t == KeptSpend(orders', disputes', u)
            r == [i \in 1..Len(batch) |-> Price[batch[i]]]
<1>1. /\ n \in Nat /\ Len(batch) \in Nat /\ Len(batch) >= 1
      /\ \A i \in 1..Len(batch) : Price[batch[i]] \in Nat
  BY BatchRows DEF ReportedTables, IsBatch
<1>2. /\ Len(orders') = n + Len(batch)
      /\ \A o \in 1..n : orders'[o] = orders[o] /\ disputes'[o] = disputes[o]
      /\ \A i \in 1..Len(batch) :
           /\ orders'[n + i].userId = u /\ orders'[n + i].price = Price[batch[i]]
           /\ orders'[n + i].status = "completed" /\ orders'[n + i].month = month
           /\ disputes'[n + i].refundCents = 0
  BY OrdersAppended
<1>3. orders \in Seq(ReportedRow) /\ orders' \in Seq(ReportedRow)
  BY OrdersPurchased DEF ReportedTables
<1>4. s \in Seq(Int) /\ Len(s) = n BY <1>3, KeptSpendTyped
<1>5. t \in Seq(Int) /\ Len(t) = n + Len(batch) BY <1>2, <1>3, KeptSpendTyped
<1>6. r \in Seq(Int) /\ Len(r) = Len(batch) BY <1>1
<1>7. \A o \in 1..n : t[o] = s[o]
  <2>1. \A o \in 1..n : o \in 1..Len(orders') BY <1>1, <1>2
  <2>. QED BY <1>2, <2>1 DEF KeptSpend
<1>8. ASSUME NEW i \in 1..Len(batch) PROVE t[n + i] = r[i]
  <2>. DEFINE row == orders'[n + i]
  <2>1. n + i \in 1..Len(orders') BY <1>1, <1>2
  <2>2. /\ row.userId = u /\ row.month = month /\ row.status # "converted"
        /\ row.price = Price[batch[i]] /\ disputes'[n + i].refundCents = 0
    BY <1>2
  <2>. HIDE DEF row
  <2>3. t[n + i] = IF /\ row.userId = u /\ row.month = month
                      /\ disputes'[n + i].refundCents < row.price
                      /\ row.status # "converted"
                   THEN row.price ELSE 0
    BY <2>1 DEF KeptSpend, row
  <2>. QED BY <1>1, <2>2, <2>3
<1>9. Total(r) = BatchPrice(batch) BY DEF BatchPrice
<1>10. orders'[Len(orders')].userId = u
  <2>1. Len(batch) \in 1..Len(batch) BY <1>1
  <2>. QED BY <1>2, <2>1
<1>. HIDE DEF s, t, r
<1>11. Total(t) = Total(s) + Total(r)
  <2>1. /\ Len(t) = Len(s) + Len(r)
        /\ \A i \in 1..Len(s) : t[i] = s[i]
        /\ \A i \in 1..Len(r) : t[Len(s) + i] = r[i]
    BY <1>4, <1>5, <1>6, <1>7, <1>8
  <2>. QED BY <1>4, <1>5, <1>6, <2>1, TotalJoin
<1>12. Spend(u) \in Seq(Int) /\ Total(s) <= Total(Spend(u)) BY KeptSpendIsCounted DEF s
<1>13. Total(s) \in Int /\ Total(r) \in Int /\ Total(Spend(u)) \in Int
  BY <1>4, <1>6, <1>12, TotalInt
<1>. QED BY <1>9, <1>10, <1>11, <1>12, <1>13 DEF t

\* Only a purchase appends orders, also among reports.
LEMMA AppendsByPurchase ==
  ASSUME ReportedTables, reports \subseteq ReportRow, [ReportsNext]_orVars,
         Len(orders') > Len(orders)
  PROVE  \E u \in Users : \E batch : IsBatch(batch) /\ Purchase(u, batch)
<1>1. /\ orders \in Seq(ReportedRow) /\ Len(orders) \in Nat BY DEF ReportedTables
<1>2. ASSUME Len(orders') = Len(orders) PROVE FALSE BY <1>1, <1>2
<1>3. ASSUME ReportStep PROVE FALSE
  <2>1. orders' = orders \/ \E r \in reports : ReportUpdateStatus(r)
    BY <1>3 DEF ReportStep, ReportRead, ReportUpsert, ReportLost, vars
  <2>2. ASSUME NEW r \in reports, ReportUpdateStatus(r) PROVE Len(orders') = Len(orders)
    <3>1. r.order \in 1..Len(orders) BY DEF ReportRow
    <3>2. orders' = [orders EXCEPT ![r.order].status = StatusAfterReport(r, @)]
      BY <2>2 DEF ReportUpdateStatus
    <3>. QED BY <1>1, <3>1, <3>2
  <2>. QED BY <1>2, <2>1, <2>2
<1>4. [Next]_vars
  <2>1. UNCHANGED orVars => UNCHANGED vars BY DEF orVars
  <2>. QED BY <1>3, <2>1 DEF ReportsNext, MarketStep
<1>5. ASSUME NEW o \in 1..Len(orders), NEW requested \in Refunds, ApproveDispute(o, requested)
      PROVE  FALSE
  <2>1. PICK st : orders' = [orders EXCEPT ![o].status = st]
    BY <1>5 DEF ApproveDispute, RecordApproval
  <2>2. Len(orders') = Len(orders) BY <1>1, <2>1
  <2>. QED BY <1>2, <2>2
<1>6. ASSUME NEW o \in 1..Len(orders), CreateDispute(o) \/ DenyDispute(o) PROVE FALSE
  BY <1>2, <1>6 DEF CreateDispute, DenyDispute
<1>. QED BY <1>2, <1>4, <1>5, <1>6, LedgerSteps

\* enforceSpendCapTx keeps every buyer within the tightest cap of its orgs, whatever is
\* bought, refunded and reported in whatever order, as long as the spend is taken without
\* the orders reported as closed, which the query of the cap leaves out.  What it counts,
\* the "completed" orders, is never less than that: an order is "refunded" only with its
\* whole price given back.
THEOREM ReportsKeepCaps == ReportsSpec => SpendCapUnlessConverted
<1>1. ASSUME CapsInv, [ReportsNext]_orVars, Len(orders') > Len(orders),
             NEW m \in Members, m[2] = orders'[Len(orders')].userId, spendCaps[m] # NULL
      PROVE  Total(KeptSpend(orders', disputes', m[2])) <= spendCaps[m]
  <2>1. /\ ReportedTables /\ RefundsPaid /\ reports \subseteq ReportRow
        /\ spendCaps \in [Members -> Nat \cup {NULL}]
    BY <1>1 DEF CapsInv, ReportsInv, ReportsTyped, CapsTyped
  <2>2. PICK u \in Users : \E batch : IsBatch(batch) /\ Purchase(u, batch)
    BY <1>1, <2>1, AppendsByPurchase
  <2>3. PICK batch : IsBatch(batch) /\ Purchase(u, batch) BY <2>2
  <2>4. /\ m[2] = u
        /\ Total(KeptSpend(orders', disputes', u)) <= Total(Spend(u)) + BatchPrice(batch)
        /\ Total(KeptSpend(orders', disputes', u)) \in Int
        /\ Total(Spend(u)) + BatchPrice(batch) \in Int
    BY <1>1, <2>1, <2>3, PurchaseKeptSpend
  <2>5. spendCaps[m] \in CapsOf(u) BY <1>1, <2>4 DEF CapsOf
  <2>6. Total(Spend(u)) + BatchPrice(batch) <= spendCaps[m]
    BY <2>3, <2>5 DEF Purchase, CanPurchase, WithinSpendCap
  <2>7. spendCaps[m] \in Int BY <1>1, <2>1
  <2>. QED BY <2>4, <2>6, <2>7
<1>2. CapsInv /\ [ReportsNext]_orVars =>
        [Len(orders') > Len(orders) =>
           LET u == orders'[Len(orders')].userId
           IN  \A m \in Members : m[2] = u /\ spendCaps[m] # NULL
                 => Total(KeptSpend(orders', disputes', u)) <= spendCaps[m]]_vars
  BY <1>1
<1>. QED BY <1>2, CapsInvariant, PTL DEF ReportsSpec, SpendCapUnlessConverted

-------------------------------------------------------------------------------
(*****************************************************************************)
(* Row locks: the transactions of PurchaseLocks, which lock their rows one   *)
(* by one and write at their commit, implement the atomic steps above.       *)
(*****************************************************************************)

-------------------------------------------------------------------------------
(* The inductive invariant.                                                  *)

\* What a connection may be serving.
PurchaseTx(u, batch) == [kind |-> "purchase", batch |-> batch, user |-> u]

ApproveTx(o, requested) == [kind |-> "approve", requested |-> requested, order |-> o]

RewardTx(r, u) == [kind |-> "reward", user |-> u, referrer |-> r]

SweepTx == [kind |-> "sweep"]

Requests ==
  {Idle, SweepTx}
    \cup {PurchaseTx(u, batch) : u \in Users, batch \in Batches}
    \cup {ApproveTx(o, requested) : o \in Nat, requested \in Refunds}
    \cup {RewardTx(r, u) : r \in Users, u \in Users}

Rows ==
  UNION {{LeadRow(l) : l \in Leads}, {UserRow(u) : u \in Users},
         {VendorRow(v) : v \in Vendors}, {ReferralRow(r) : r \in Users},
         {DisputeRowOf(o) : o \in Nat}, {OrderRowOf(o) : o \in Nat}}

LocksTyped ==
  /\ tx \in [Txs -> Requests]
  /\ todo \in [Txs -> Seq(Rows)]
  /\ held \in [Txs -> SUBSET Rows]
  /\ DOMAIN wallet = Txs /\ DOMAIN bal = Txs

\* No row is locked twice.
HeldOnce == \A s, t \in Txs : s # t => held[s] \cap held[t] = {}

\* Whoever serves nothing holds nothing.
IdleHoldsNothing(t) == tx[t] = Idle => todo[t] = << >> /\ held[t] = {}

\* What was read under a lock is still so.
ReadsCurrent(t) ==
  /\ DOMAIN wallet[t] = {u \in Users : UserRow(u) \in held[t]}
  /\ \A u \in Users : UserRow(u) \in held[t] => wallet[t][u] = balance[u]
  /\ DOMAIN bal[t] = {v \in Vendors : VendorRow(v) \in held[t]}
  /\ \A v \in Vendors : VendorRow(v) \in held[t] => bal[t][v] = vendorBalances[v]

\* The rows after the first k.
Rest(rows, k) == [i \in 1..(Len(rows) - k) |-> rows[k + i]]

\* t holds the first k of its rows and has the others still to lock.
Reached(t, rows, k) ==
  /\ k \in 0..Len(rows)
  /\ todo[t] = Rest(rows, k)
  /\ \A i \in 1..k : rows[i] \in held[t]

CanPay(u, cents) == balance[u] >= cents /\ WithinSpendCap(u, cents)

\* What a purchase has checked stays true: the leads once the last of them is locked,
\* the wallet and the cap once the buyer's row is.
PurchaseHolds(t) ==
  \A u \in Users, batch \in Batches : tx[t] = PurchaseTx(u, batch) =>
    \E k \in Nat :
      /\ Reached(t, PurchaseRows(u, batch), k)
      /\ k >= Len(batch) => \A l \in InBatch(batch) : Available(l)
      /\ k > Len(batch) => CanPay(u, BatchPrice(batch))

\* A dispute that was locked open stays open.
ApprovalHolds(t) ==
  \A o \in Nat, requested \in Refunds : tx[t] = ApproveTx(o, requested) =>
    /\ o \in 1..Len(orders) /\ disputes[o].status # "none"
    /\ \E k \in Nat : /\ Reached(t, ApproveRows(o, requested), k)
                      /\ k >= 1 => IsOpen(o)

\* A referral row that was locked unpaid stays so, and while it is unpaid its buyer's
\* call is outstanding.
RewardHolds(t) ==
  \A r, u \in Users : tx[t] = RewardTx(r, u) =>
    /\ referrals[r].status \in {"redeemed", "rewarded"} /\ referrals[r].referredUserId = u
    /\ referrals[r].status = "redeemed" => u \in rewardTasks
    /\ \E k \in Nat : /\ Reached(t, RewardRows(r, u), k)
                      /\ k >= 1 => referrals[r].status = "redeemed"

\* A sweep holds vendors it may pay.
SweepHolds(t) ==
  tx[t] = SweepTx =>
    /\ \A i \in 1..Len(todo[t]) : \E v \in Vendors : todo[t][i] = VendorRow(v)
    /\ \A row \in held[t] : \E v \in Vendors : row = VendorRow(v) /\ IsEligible(v)

Holds(t) ==
  /\ IdleHoldsNothing(t) /\ ReadsCurrent(t)
  /\ PurchaseHolds(t) /\ ApprovalHolds(t) /\ RewardHolds(t) /\ SweepHolds(t)

LocksInv ==
  /\ TypeOK /\ RedemptionsSound
  /\ LocksTyped /\ HeldOnce
  /\ \A t \in Txs : Holds(t)

-------------------------------------------------------------------------------
(* Rows and requests.                                                        *)

\* Rows of different tables differ, and so do rows of one table with different ids.
LEMMA RowsDiffer ==
  ASSUME NEW a, NEW b
  PROVE  /\ LeadRow(a) # UserRow(b) /\ LeadRow(a) # VendorRow(b) /\ LeadRow(a) # ReferralRow(b)
         /\ LeadRow(a) # DisputeRowOf(b) /\ LeadRow(a) # OrderRowOf(b)
         /\ UserRow(a) # VendorRow(b) /\ UserRow(a) # ReferralRow(b)
         /\ UserRow(a) # DisputeRowOf(b) /\ UserRow(a) # OrderRowOf(b)
         /\ VendorRow(a) # ReferralRow(b)
         /\ VendorRow(a) # DisputeRowOf(b) /\ VendorRow(a) # OrderRowOf(b)
         /\ ReferralRow(a) # DisputeRowOf(b) /\ ReferralRow(a) # OrderRowOf(b)
         /\ DisputeRowOf(a) # OrderRowOf(b)
         /\ LeadRow(a) = LeadRow(b) => a = b
         /\ UserRow(a) = UserRow(b) => a = b
         /\ VendorRow(a) = VendorRow(b) => a = b
         /\ ReferralRow(a) = ReferralRow(b) => a = b
         /\ DisputeRowOf(a) = DisputeRowOf(b) => a = b
BY DEF LeadRow, UserRow, VendorRow, ReferralRow, DisputeRowOf, OrderRowOf

\* The table and the id of a row.
LEMMA RowParts ==
  ASSUME NEW a
  PROVE  /\ LeadRow(a)[1] = "lead" /\ LeadRow(a)[2] = a
         /\ UserRow(a)[1] = "user" /\ UserRow(a)[2] = a
         /\ VendorRow(a)[1] = "vendor" /\ VendorRow(a)[2] = a
         /\ ReferralRow(a)[1] = "referral" /\ ReferralRow(a)[2] = a
         /\ DisputeRowOf(a)[1] = "dispute" /\ DisputeRowOf(a)[2] = a
         /\ OrderRowOf(a)[1] = "order"
BY DEF LeadRow, UserRow, VendorRow, ReferralRow, DisputeRowOf, OrderRowOf

\* A row that says "user" is the row of a user, and so on.
LEMMA RowOfTable ==
  ASSUME NEW row \in Rows
  PROVE  /\ row[1] = "user" <=> \E u \in Users : row = UserRow(u)
         /\ row[1] = "vendor" <=> \E v \in Vendors : row = VendorRow(v)
<1>1. \/ \E l \in Leads : row = LeadRow(l)
      \/ \E u \in Users : row = UserRow(u)
      \/ \E v \in Vendors : row = VendorRow(v)
      \/ \E r \in Users : row = ReferralRow(r)
      \/ \E o \in Nat : row = DisputeRowOf(o)
      \/ \E o \in Nat : row = OrderRowOf(o)
  BY DEF Rows
<1>. QED BY <1>1, RowParts

LEMMA RowsOf ==
  /\ \A l \in Leads : LeadRow(l) \in Rows
  /\ \A u \in Users : UserRow(u) \in Rows /\ ReferralRow(u) \in Rows
  /\ \A v \in Vendors : VendorRow(v) \in Rows
  /\ \A o \in Nat : DisputeRowOf(o) \in Rows /\ OrderRowOf(o) \in Rows
BY DEF Rows

\* The kinds of requests.
LEMMA RequestKinds ==
  /\ Idle.kind = "idle" /\ SweepTx.kind = "sweep"
  /\ \A u, batch : /\ PurchaseTx(u, batch).kind = "purchase"
                   /\ PurchaseTx(u, batch).user = u /\ PurchaseTx(u, batch).batch = batch
  /\ \A o, requested : /\ ApproveTx(o, requested).kind = "approve"
                       /\ ApproveTx(o, requested).order = o
                       /\ ApproveTx(o, requested).requested = requested
  /\ \A r, u : /\ RewardTx(r, u).kind = "reward"
               /\ RewardTx(r, u).user = u /\ RewardTx(r, u).referrer = r
BY DEF Idle, SweepTx, PurchaseTx, ApproveTx, RewardTx

LEMMA RequestCases ==
  ASSUME NEW x \in Requests
  PROVE  \/ x = Idle
         \/ \E u \in Users, batch \in Batches : x = PurchaseTx(u, batch)
         \/ \E o \in Nat, requested \in Refunds : x = ApproveTx(o, requested)
         \/ \E r \in Users, u \in Users : x = RewardTx(r, u)
         \/ x = SweepTx
BY DEF Requests

-------------------------------------------------------------------------------
(* What is left to lock.                                                     *)

LEMMA RestFacts ==
  ASSUME NEW rows \in Seq(Rows), NEW k \in 0..Len(rows)
  PROVE  /\ Rest(rows, k) \in Seq(Rows)
         /\ Rest(rows, k) = << >> <=> k = Len(rows)
         /\ k # Len(rows) => /\ k + 1 \in 1..Len(rows)
                             /\ Head(Rest(rows, k)) = rows[k + 1]
                             /\ Tail(Rest(rows, k)) = Rest(rows, k + 1)
<1>1. Len(rows) \in Nat /\ k \in Nat /\ Len(rows) - k \in Nat OBVIOUS
<1>2. \A i \in 1..(Len(rows) - k) : rows[k + i] \in Rows BY <1>1
<1>3. Rest(rows, k) \in Seq(Rows) /\ Len(Rest(rows, k)) = Len(rows) - k
  BY <1>1, <1>2 DEF Rest
<1>4. Rest(rows, k) = << >> <=> Len(Rest(rows, k)) = 0 BY <1>3
<1>5. ASSUME k # Len(rows)
      PROVE  /\ k + 1 \in 1..Len(rows)
             /\ Head(Rest(rows, k)) = rows[k + 1]
             /\ Tail(Rest(rows, k)) = Rest(rows, k + 1)
  <2>1. k + 1 \in 1..Len(rows) /\ Len(rows) - k >= 1 BY <1>1, <1>5
  <2>2. Head(Rest(rows, k)) = rows[k + 1] BY <1>1, <1>3, <2>1 DEF Rest
  <2>3. /\ Tail(Rest(rows, k)) \in Seq(Rows) /\ Len(Tail(Rest(rows, k))) = Len(rows) - k - 1
        /\ \A i \in 1..(Len(rows) - k - 1) : Tail(Rest(rows, k))[i] = Rest(rows, k)[i + 1]
    BY <1>1, <1>3, <2>1
  <2>4. \A i \in 1..(Len(rows) - k - 1) : Rest(rows, k)[i + 1] = rows[(k + 1) + i]
    <3>. SUFFICES ASSUME NEW i \in 1..(Len(rows) - k - 1)
                  PROVE  Rest(rows, k)[i + 1] = rows[(k + 1) + i]
      OBVIOUS
    <3>1. i + 1 \in 1..(Len(rows) - k) /\ k + (i + 1) = (k + 1) + i BY <1>1
    <3>. QED BY <3>1 DEF Rest
  <2>5. /\ Rest(rows, k + 1) \in Seq(Rows) /\ Len(Rest(rows, k + 1)) = Len(rows) - k - 1
        /\ \A i \in 1..(Len(rows) - k - 1) : Rest(rows, k + 1)[i] = rows[(k + 1) + i]
    <3>1. Len(rows) - (k + 1) = Len(rows) - k - 1 /\ Len(rows) - k - 1 \in Nat BY <1>1, <2>1
    <3>2. \A i \in 1..(Len(rows) - k - 1) : rows[(k + 1) + i] \in Rows
      <4>. SUFFICES ASSUME NEW i \in 1..(Len(rows) - k - 1) PROVE rows[(k + 1) + i] \in Rows
        OBVIOUS
      <4>1. (k + 1) + i \in 1..Len(rows) BY <1>1
      <4>. QED BY <4>1
    <3>. QED BY <3>1, <3>2 DEF Rest
  <2>. DEFINE x == Tail(Rest(rows, k))
              y == Rest(rows, k + 1)
  <2>. HIDE DEF x, y
  <2>6. x \in Seq(Rows) /\ y \in Seq(Rows) /\ Len(x) = Len(y) BY <2>3, <2>5 DEF x, y
  <2>7. \A i \in 1..Len(x) : x[i] = y[i] BY <2>3, <2>4, <2>5 DEF x, y
  <2>8. x = y BY <2>6, <2>7
  <2>. QED BY <2>1, <2>2, <2>8 DEF x, y
<1>. QED BY <1>1, <1>3, <1>4, <1>5

\* A purchase locks its leads first, then the buyer, and at the end it holds the rows of
\* all vendors it credits.
LEMMA PurchaseRowsAre ==
  ASSUME NEW u \in Users, NEW batch \in Batches
  PROVE  LET rows == PurchaseRows(u, batch)
             n == Len(batch)
         IN  /\ rows \in Seq(Rows) /\ Len(rows) = 2 * n + 1 /\ n \in Nat \ {0}
             /\ \A i \in 1..n : rows[i] = LeadRow(batch[i])
             /\ rows[n + 1] = UserRow(u)
             /\ \A i \in 1..n : rows[(n + 1) + i] = SaleRow(batch[i])
<1>. DEFINE n == Len(batch)
            a == [i \in 1..n |-> LeadRow(batch[i])]
            b == << UserRow(u) >>
            c == [i \in 1..n |-> SaleRow(batch[i])]
<1>1. IsBatch(batch) BY BatchFacts
<1>2. n \in Nat /\ n >= 1
  <2>1. n \in Nat BY <1>1, BatchRows
  <2>2. n >= 1 BY <1>1 DEF IsBatch
  <2>. QED BY <2>1, <2>2
<1>3. \A i \in 1..n : LeadRow(batch[i]) \in Rows /\ SaleRow(batch[i]) \in Rows
  BY <1>1, BatchRows, RowsOf DEF SaleRow
<1>4. a \in Seq(Rows) /\ Len(a) = n /\ c \in Seq(Rows) /\ Len(c) = n BY <1>2, <1>3
<1>5. b \in Seq(Rows) /\ Len(b) = 1 /\ b[1] = UserRow(u) BY RowsOf
<1>6. PurchaseRows(u, batch) = (a \o b) \o c BY DEF PurchaseRows
<1>7. /\ \A i \in 1..n : a[i] = LeadRow(batch[i])
      /\ \A i \in 1..n : c[i] = SaleRow(batch[i])
  OBVIOUS
<1>. HIDE DEF a, b, c, n
<1>8. /\ a \o b \in Seq(Rows) /\ Len(a \o b) = n + 1
      /\ \A i \in 1..n : (a \o b)[i] = LeadRow(batch[i])
      /\ (a \o b)[n + 1] = UserRow(u)
  <2>0. a \in Seq(Rows) /\ b \in Seq(Rows) BY <1>4, <1>5
  <2>1. a \o b \in Seq(Rows) /\ Len(a \o b) = Len(a) + Len(b) BY <2>0, ConcatTyped
  <2>2. /\ \A i \in 1..Len(a) : (a \o b)[i] = a[i]
        /\ \A i \in 1..Len(b) : (a \o b)[Len(a) + i] = b[i]
    BY <2>0, ConcatEntries
  <2>. QED BY <1>4, <1>5, <1>7, <2>1, <2>2
<1>. DEFINE ab == a \o b
<1>. HIDE DEF ab
<1>9. ab \in Seq(Rows) /\ Len(ab) = n + 1 BY <1>8 DEF ab
<1>10. ab \o c \in Seq(Rows) /\ Len(ab \o c) = Len(ab) + Len(c) BY <1>4, <1>9, ConcatTyped
<1>11. /\ \A i \in 1..Len(ab) : (ab \o c)[i] = ab[i]
       /\ \A i \in 1..Len(c) : (ab \o c)[Len(ab) + i] = c[i]
  BY <1>4, <1>9, ConcatEntries
<1>12. /\ \A i \in 1..n : (ab \o c)[i] = LeadRow(batch[i])
       /\ (ab \o c)[n + 1] = UserRow(u)
       /\ \A i \in 1..n : (ab \o c)[(n + 1) + i] = SaleRow(batch[i])
  <2>1. \A i \in 1..n : i \in 1..Len(ab) BY <1>2, <1>9
  <2>2. n + 1 \in 1..Len(ab) BY <1>2, <1>9
  <2>3. /\ \A i \in 1..n : ab[i] = LeadRow(batch[i])
        /\ ab[n + 1] = UserRow(u)
    BY <1>8 DEF ab
  <2>. QED BY <1>4, <1>7, <1>9, <1>11, <2>1, <2>2, <2>3
<1>13. Len(ab \o c) = 2 * n + 1 BY <1>2, <1>4, <1>9, <1>10
<1>. QED BY <1>2, <1>6, <1>10, <1>12, <1>13 DEF ab, n

LEMMA FourEntries ==
  ASSUME NEW S, NEW a \in S, NEW b \in S, NEW c \in S, NEW d \in S
  PROVE  LET s == (<< a, b >> \o << c >>) \o << d >>
         IN  s \in Seq(S) /\ Len(s) = 4 /\ s[1] = a /\ s[3] = c /\ s[4] = d
OBVIOUS

\* An approval locks the dispute first; when it credits the buyer or debits the vendor
\* it locks their rows too.
LEMMA ApproveRowsAre ==
  ASSUME TypeOK, NEW o \in 1..Len(orders), NEW requested \in Refunds
  PROVE  LET rows == ApproveRows(o, requested)
             refund == ClampRefundCents(requested, orders[o].price)
         IN  /\ rows \in Seq(Rows) /\ Len(rows) >= 1 /\ rows[1] = DisputeRowOf(o)
             /\ refund > 0 => \E i \in 1..Len(rows) : rows[i] = UserRow(orders[o].userId)
             /\ VendorDebit(refund) > 0 =>
                  \E i \in 1..Len(rows) : rows[i] = VendorRow(VendorOf[orders[o].leadId])
<1>. DEFINE rows == ApproveRows(o, requested)
            refund == ClampRefundCents(requested, orders[o].price)
            d == DisputeRowOf(o)
            f == OrderRowOf(o)
            u == UserRow(orders[o].userId)
            v == VendorRow(VendorOf[orders[o].leadId])
<1>1. d \in Rows /\ f \in Rows /\ u \in Rows /\ v \in Rows
  <2>1. o \in Nat BY DEF TypeOK
  <2>2. orders[o] \in OrderRow BY RowTypes
  <2>3. orders[o].userId \in Users /\ orders[o].leadId \in Leads BY <2>2 DEF OrderRow
  <2>. QED BY <2>1, <2>3, RowsOf, MarketAssumption
<1>2. rows = << d, f >> \o (IF refund > 0 THEN << u >> ELSE << >>)
                        \o (IF VendorDebit(refund) > 0 THEN << v >> ELSE << >>)
  BY DEF ApproveRows
<1>. HIDE DEF d, f, u, v, refund, rows
<1>3. CASE refund > 0 /\ VendorDebit(refund) > 0
  <2>1. rows = (<< d, f >> \o << u >>) \o << v >> BY <1>2, <1>3
  <2>2. rows \in Seq(Rows) /\ Len(rows) = 4 /\ rows[1] = d /\ rows[3] = u /\ rows[4] = v
    <3>. DEFINE four == (<< d, f >> \o << u >>) \o << v >>
    <3>1. four \in Seq(Rows) /\ Len(four) = 4 /\ four[1] = d /\ four[3] = u /\ four[4] = v
      BY <1>1, FourEntries
    <3>. HIDE DEF four
    <3>2. rows = four BY <2>1 DEF four
    <3>. QED BY <3>1, <3>2
  <2>3. 3 \in 1..Len(rows) /\ 4 \in 1..Len(rows) BY <2>2
  <2>. QED BY <2>2, <2>3 DEF rows, d, u, v, refund
<1>4. CASE refund > 0 /\ ~(VendorDebit(refund) > 0)
  <2>1. rows = (<< d, f >> \o << u >>) \o << >> BY <1>2, <1>4
  <2>2. rows \in Seq(Rows) /\ Len(rows) = 3 /\ rows[1] = d /\ rows[3] = u
    BY <1>1, <2>1
  <2>3. 3 \in 1..Len(rows) BY <2>2
  <2>. QED BY <1>4, <2>2, <2>3 DEF rows, d, u, refund
<1>5. CASE ~(refund > 0) /\ VendorDebit(refund) > 0
  <2>0. << d, f >> \o << >> = << d, f >> BY <1>1
  <2>1. rows = << d, f >> \o << v >> BY <1>2, <1>5, <2>0
  <2>2. << d, f >> \in Seq(Rows) /\ << v >> \in Seq(Rows) BY <1>1
  <2>3. rows \in Seq(Rows) /\ Len(rows) = 3 BY <2>1, <2>2
  <2>4. rows[1] = d BY <2>1, <2>2
  <2>5. rows[3] = v BY <2>1, <2>2
  <2>6. 3 \in 1..Len(rows) BY <2>3
  <2>. QED BY <1>5, <2>3, <2>4, <2>5, <2>6 DEF rows, d, v, refund
<1>6. CASE ~(refund > 0) /\ ~(VendorDebit(refund) > 0)
  <2>1. rows = << d, f >> BY <1>1, <1>2, <1>6
  <2>2. rows \in Seq(Rows) /\ Len(rows) = 2 /\ rows[1] = d BY <1>1, <2>1
  <2>. QED BY <1>6, <2>2 DEF rows, d, refund
<1>. QED BY <1>3, <1>4, <1>5, <1>6

\* A reward locks the referral row and then both wallets.
LEMMA RewardRowsAre ==
  ASSUME NEW r \in Users, NEW u \in Users
  PROVE  LET rows == RewardRows(r, u)
         IN  /\ rows \in Seq(Rows) /\ Len(rows) = 3 /\ rows[1] = ReferralRow(r)
             /\ \A x \in {r, u} : \E i \in 1..3 : rows[i] = UserRow(x)
<1>1. ReferralRow(r) \in Rows /\ UserRow(r) \in Rows /\ UserRow(u) \in Rows BY RowsOf
<1>2. PICK a \in {r, u}, b \in {r, u} :
        /\ RewardRows(r, u) = << ReferralRow(r), UserRow(a), UserRow(b) >>
        /\ {a, b} = {r, u}
  BY DEF RewardRows
<1>3. /\ RewardRows(r, u) \in Seq(Rows) /\ Len(RewardRows(r, u)) = 3
      /\ RewardRows(r, u)[1] = ReferralRow(r)
      /\ RewardRows(r, u)[2] = UserRow(a) /\ RewardRows(r, u)[3] = UserRow(b)
  BY <1>1, <1>2
<1>4. 2 \in 1..3 /\ 3 \in 1..3 OBVIOUS
<1>. QED BY <1>2, <1>3, <1>4

-------------------------------------------------------------------------------
(* What a commit does.                                                       *)

\* When nothing is left to lock, all rows are held.
LEMMA AllLocked ==
  ASSUME NEW t \in Txs, NEW rows \in Seq(Rows), NEW k, Reached(t, rows, k), todo[t] = << >>
  PROVE  k = Len(rows) /\ \A i \in 1..Len(rows) : rows[i] \in held[t]
<1>1. k \in 0..Len(rows) /\ Rest(rows, k) = << >> BY DEF Reached
<1>2. k = Len(rows) BY <1>1, RestFacts
<1>. QED BY <1>2 DEF Reached

\* The rows that a purchase writes are locked when it commits, and what it read of them
\* is still so.
LEMMA PurchaseCommits ==
  ASSUME LocksInv, NEW t \in Txs, NEW u \in Users, NEW batch \in Batches,
         tx[t] = PurchaseTx(u, batch), Commit(t)
  PROVE  /\ Purchase(u, batch)
         /\ UserRow(u) \in held[t]
         /\ \A i \in 1..Len(batch) : /\ LeadRow(batch[i]) \in held[t]
                                    /\ SaleRow(batch[i]) \in held[t]
<1>. DEFINE rows == PurchaseRows(u, batch)
            n == Len(batch)
<1>1. Holds(t) BY DEF LocksInv
<1>2. todo[t] = << >> BY DEF Commit
<1>3. PICK k \in Nat :
        /\ Reached(t, rows, k)
        /\ k >= n => \A l \in InBatch(batch) : Available(l)
        /\ k > n => CanPay(u, BatchPrice(batch))
  BY <1>1 DEF Holds, PurchaseHolds
<1>4. /\ rows \in Seq(Rows) /\ Len(rows) = 2 * n + 1 /\ n \in Nat \ {0}
      /\ \A i \in 1..n : rows[i] = LeadRow(batch[i])
      /\ rows[n + 1] = UserRow(u)
      /\ \A i \in 1..n : rows[(n + 1) + i] = SaleRow(batch[i])
  BY PurchaseRowsAre
<1>. HIDE DEF rows
<1>5. k = Len(rows) /\ \A i \in 1..Len(rows) : rows[i] \in held[t]
  BY <1>2, <1>3, <1>4, AllLocked
<1>6. UserRow(u) \in held[t]
  <2>1. n + 1 \in 1..Len(rows) BY <1>4
  <2>. QED BY <1>4, <1>5, <2>1
<1>7. \A i \in 1..n : LeadRow(batch[i]) \in held[t] /\ SaleRow(batch[i]) \in held[t]
  <2>1. \A i \in 1..n : i \in 1..Len(rows) /\ (n + 1) + i \in 1..Len(rows) BY <1>4
  <2>. QED BY <1>4, <1>5, <2>1
<1>8. CanPurchase(u, batch)
  <2>1. k >= n /\ k > n BY <1>4, <1>5
  <2>. QED BY <1>3, <2>1 DEF CanPurchase, CanPay
<1>9. RecordPurchase(u, batch, balance[u])
  <2>1. wallet[t][u] = balance[u] BY <1>1, <1>6 DEF Holds, ReadsCurrent
  <2>2. tx[t].kind = "purchase" /\ tx[t].user = u /\ tx[t].batch = batch BY RequestKinds
  <2>3. RecordPurchase(tx[t].user, tx[t].batch, wallet[t][tx[t].user]) BY <2>2 DEF Commit
  <2>. QED BY <2>1, <2>2, <2>3
<1>. QED BY <1>6, <1>7, <1>8, <1>9 DEF Purchase

LEMMA ApprovalCommits ==
  ASSUME LocksInv, NEW t \in Txs, NEW o \in Nat, NEW requested \in Refunds,
         tx[t] = ApproveTx(o, requested), Commit(t)
  PROVE  /\ o \in 1..Len(orders) /\ ApproveDispute(o, requested)
         /\ DisputeRowOf(o) \in held[t]
         /\ LET refund == ClampRefundCents(requested, orders[o].price)
            IN  /\ refund > 0 => UserRow(orders[o].userId) \in held[t]
                /\ VendorDebit(refund) > 0 => VendorRow(VendorOf[orders[o].leadId]) \in held[t]
<1>. DEFINE rows == ApproveRows(o, requested)
            refund == ClampRefundCents(requested, orders[o].price)
            u == orders[o].userId
            v == VendorOf[orders[o].leadId]
<1>1. Holds(t) /\ TypeOK BY DEF LocksInv
<1>2. todo[t] = << >> BY DEF Commit
<1>3. o \in 1..Len(orders)
  BY <1>1 DEF Holds, ApprovalHolds
<1>4. PICK k \in Nat : Reached(t, rows, k) /\ (k >= 1 => IsOpen(o))
  BY <1>1 DEF Holds, ApprovalHolds
<1>5. /\ rows \in Seq(Rows) /\ Len(rows) >= 1 /\ rows[1] = DisputeRowOf(o)
      /\ refund > 0 => \E i \in 1..Len(rows) : rows[i] = UserRow(u)
      /\ VendorDebit(refund) > 0 => \E i \in 1..Len(rows) : rows[i] = VendorRow(v)
  BY <1>1, <1>3, ApproveRowsAre
<1>. HIDE DEF rows
<1>6. k = Len(rows) /\ \A i \in 1..Len(rows) : rows[i] \in held[t]
  BY <1>2, <1>4, <1>5, AllLocked
<1>7. 1 \in 1..Len(rows) BY <1>5
<1>8. DisputeRowOf(o) \in held[t] /\ IsOpen(o) BY <1>4, <1>5, <1>6, <1>7
<1>9. u \in Users /\ v \in Vendors
  <2>1. orders[o] \in OrderRow BY <1>1, <1>3, RowTypes
  <2>2. orders[o].userId \in Users /\ orders[o].leadId \in Leads BY <2>1 DEF OrderRow
  <2>. QED BY <2>2, MarketAssumption
<1>10. /\ (IF u \in DOMAIN wallet[t] THEN wallet[t][u] ELSE balance[u]) = balance[u]
       /\ (IF v \in DOMAIN bal[t] THEN bal[t][v] ELSE vendorBalances[v]) = vendorBalances[v]
  <2>. HIDE DEF u, v
  <2>. QED BY <1>1, <1>9 DEF Holds, ReadsCurrent
<1>11. RecordApproval(o, requested, IF u \in DOMAIN wallet[t] THEN wallet[t][u] ELSE balance[u],
                      IF v \in DOMAIN bal[t] THEN bal[t][v] ELSE vendorBalances[v])
  <2>1. tx[t].kind = "approve" /\ tx[t].order = o /\ tx[t].requested = requested
    BY RequestKinds
  <2>. QED BY <2>1 DEF Commit
<1>12. RecordApproval(o, requested, balance[u], vendorBalances[v]) BY <1>10, <1>11
<1>. QED BY <1>3, <1>5, <1>6, <1>8, <1>12 DEF ApproveDispute

\* The row that a reward pays out is the only one that is due to its buyer.
LEMMA RewardCommits ==
  ASSUME LocksInv, NEW t \in Txs, NEW r \in Users, NEW u \in Users,
         tx[t] = RewardTx(r, u), Commit(t)
  PROVE  /\ RewardReferral(u) /\ DueReferrals(u) = {r}
         /\ ReferralRow(r) \in held[t] /\ UserRow(r) \in held[t] /\ UserRow(u) \in held[t]
<1>. DEFINE rows == RewardRows(r, u)
<1>1. Holds(t) /\ TypeOK /\ RedemptionsSound BY DEF LocksInv
<1>2. todo[t] = << >> BY DEF Commit
<1>3. /\ referrals[r].referredUserId = u
      /\ referrals[r].status = "redeemed" => u \in rewardTasks
  BY <1>1 DEF Holds, RewardHolds
<1>4. PICK k \in Nat : Reached(t, rows, k) /\ (k >= 1 => referrals[r].status = "redeemed")
  BY <1>1 DEF Holds, RewardHolds
<1>5. /\ rows \in Seq(Rows) /\ Len(rows) = 3 /\ rows[1] = ReferralRow(r)
      /\ \A x \in {r, u} : \E i \in 1..3 : rows[i] = UserRow(x)
  BY RewardRowsAre
<1>. HIDE DEF rows
<1>6. k = Len(rows) /\ \A i \in 1..Len(rows) : rows[i] \in held[t]
  BY <1>2, <1>4, <1>5, AllLocked
<1>7. /\ ReferralRow(r) \in held[t] /\ UserRow(r) \in held[t] /\ UserRow(u) \in held[t]
      /\ referrals[r].status = "redeemed"
  BY <1>4, <1>5, <1>6
<1>8. referrals[r] = [status |-> "redeemed", referredUserId |-> u]
  <2>1. referrals[r] \in ReferralSlot BY <1>1 DEF TypeOK
  <2>. QED BY <1>3, <1>7, <2>1 DEF ReferralSlot
<1>9. DueReferrals(u) = {r}
  <2>1. u # NULL BY MarketAssumption
  <2>2. \A q \in Users : referrals[q].referredUserId = u => q = r
    BY <1>1, <1>3, <2>1 DEF RedemptionsSound
  <2>. QED BY <1>8, <2>2 DEF DueReferrals
<1>10. PayRewards({r}, u, wallet[t])
  <2>1. tx[t].kind = "reward" /\ tx[t].user = u /\ tx[t].referrer = r BY RequestKinds
  <2>. QED BY <2>1 DEF Commit
<1>11. PayRewards({r}, u, balance)
  <2>1. wallet[t][r] = balance[r] /\ wallet[t][u] = balance[u]
    BY <1>1, <1>7 DEF Holds, ReadsCurrent
  <2>2. \A x \in Users : (IF {r} # {} /\ x \in {r} \cup {u} THEN wallet[t][x] + RewardCents ELSE balance[x])
                       = (IF {r} # {} /\ x \in {r} \cup {u} THEN balance[x] + RewardCents ELSE balance[x])
    BY <2>1
  <2>. QED BY <1>10, <2>2 DEF PayRewards
<1>. QED BY <1>3, <1>7, <1>9, <1>11 DEF RewardReferral

LEMMA SweepCommits ==
  ASSUME LocksInv, NEW t \in Txs, tx[t] = SweepTx, Commit(t)
  PROVE  \/ UNCHANGED vars
         \/ \E swept \in SUBSET Vendors :
              /\ SweepVendorPayouts(swept)
              /\ \A v \in swept : VendorRow(v) \in held[t]
<1>1. Holds(t) BY DEF LocksInv
<1>. DEFINE swept == DOMAIN bal[t]
<1>2. swept = {v \in Vendors : VendorRow(v) \in held[t]} BY <1>1 DEF Holds, ReadsCurrent
<1>3. IF swept = {} THEN UNCHANGED vars ELSE RecordPayouts(swept, bal[t])
  <2>1. tx[t].kind = "sweep" BY RequestKinds
  <2>. QED BY <2>1 DEF Commit
<1>4. \A v \in swept : IsEligible(v) /\ bal[t][v] = vendorBalances[v]
  <2>. SUFFICES ASSUME NEW v \in swept PROVE IsEligible(v) /\ bal[t][v] = vendorBalances[v]
    OBVIOUS
  <2>1. v \in Vendors /\ VendorRow(v) \in held[t] BY <1>2
  <2>2. PICK w \in Vendors : VendorRow(v) = VendorRow(w) /\ IsEligible(w)
    BY <1>1, <2>1 DEF Holds, SweepHolds
  <2>3. v = w BY <2>2, RowsDiffer
  <2>. QED BY <1>1, <2>1, <2>2, <2>3 DEF Holds, ReadsCurrent
<1>. HIDE DEF swept
<1>5. CASE swept # {}
  <2>1. RecordPayouts(swept, bal[t]) BY <1>3, <1>5
  <2>2. RecordPayouts(swept, vendorBalances)
    <3>1. \A v \in Vendors :
            /\ (IF v \in swept THEN payouts[v] + bal[t][v].pendingCents ELSE payouts[v])
                 = (IF v \in swept THEN payouts[v] + vendorBalances[v].pendingCents ELSE payouts[v])
            /\ (IF v \in swept THEN PaidOut(bal[t][v]) ELSE vendorBalances[v])
                 = (IF v \in swept THEN PaidOut(vendorBalances[v]) ELSE vendorBalances[v])
      BY <1>4
    <3>. QED BY <2>1, <3>1 DEF RecordPayouts
  <2>3. swept \in SUBSET Vendors /\ \A v \in swept : VendorRow(v) \in held[t] BY <1>2
  <2>. QED BY <1>4, <1>5, <2>2, <2>3 DEF SweepVendorPayouts
<1>. QED BY <1>3, <1>5

\* The call of a reward that ends without paying is lost; nothing else happens.
LEMMA Forgets ==
  ASSUME NEW t \in Txs, Forget(t)
  PROVE  \/ UNCHANGED vars
         \/ LastCall(t) /\ LoseRewardTasks({tx[t].user})
BY DEF Forget

\* Every step is a step of the market, or none.
LEMMA LockStepIsMarketStep ==
  ASSUME LocksInv, [LockNext]_allVars
  PROVE  [Next]_vars
<1>. DEFINE Effect == [Next]_vars
<1>. SUFFICES Effect OBVIOUS
<1>1. ASSUME UNCHANGED vars PROVE Effect BY <1>1
<1>2. ASSUME NEW t \in Txs, Request(t) PROVE UNCHANGED vars
  BY <1>2 DEF Request, BeginPurchase, BeginApproval, BeginReward, BeginSweep, Begin
<1>3. ASSUME NEW t \in Txs, LockRow(t) \/ SkipRow(t) PROVE UNCHANGED vars
  BY <1>3 DEF LockRow, SkipRow
<1>4. ASSUME NEW lost, LoseRewardTasks(lost) PROVE Effect
  BY <1>4 DEF Next, LoseRewardTasks
<1>5. ASSUME NEW t \in Txs, Reject(t) \/ DeadlockAbort(t) PROVE Effect
  <2>1. Forget(t) BY <1>5 DEF Reject, DeadlockAbort
  <2>. HIDE DEF Effect
  <2>. QED BY <1>1, <1>4, <2>1, Forgets
<1>6. ASSUME NEW t \in Txs, Commit(t) PROVE Effect
  <2>1. tx[t] \in Requests /\ tx[t] # Idle BY <1>6 DEF LocksInv, LocksTyped, Commit
  <2>2. ASSUME NEW u \in Users, NEW batch \in Batches, tx[t] = PurchaseTx(u, batch) PROVE Effect
    <3>1. PurchaseLeads(u, batch) BY <1>6, <2>2, PurchaseCommits DEF PurchaseLeads
    <3>. QED BY <3>1 DEF Next
  <2>3. ASSUME NEW o \in Nat, NEW requested \in Refunds, tx[t] = ApproveTx(o, requested)
        PROVE  Effect
    <3>1. o \in 1..Len(orders) /\ ApproveDispute(o, requested) BY <1>6, <2>3, ApprovalCommits
    <3>. QED BY <3>1 DEF Next
  <2>4. ASSUME NEW r \in Users, NEW u \in Users, tx[t] = RewardTx(r, u) PROVE Effect
    <3>1. RewardReferral(u) BY <1>6, <2>4, RewardCommits
    <3>. QED BY <3>1 DEF Next
  <2>5. ASSUME tx[t] = SweepTx PROVE Effect
    <3>1. \/ UNCHANGED vars
          \/ \E swept \in SUBSET Vendors : SweepVendorPayouts(swept)
      BY <1>6, <2>5, SweepCommits
    <3>. QED BY <3>1 DEF Next
  <2>. HIDE DEF Effect
  <2>. QED BY <2>1, <2>2, <2>3, <2>4, <2>5, RequestCases
<1>7. ASSUME NEW u \in Users, RewardNothing(u) PROVE Effect
  BY <1>7 DEF RewardNothing, Next
<1>8. ASSUME Statement PROVE Effect
  BY <1>8 DEF Statement, Next
<1>9. ASSUME Crash PROVE Effect
  <2>1. UNCHANGED vars \/ LoseRewardTasks(rewardTasks) BY <1>9 DEF Crash
  <2>. HIDE DEF Effect
  <2>. QED BY <1>1, <1>4, <2>1
<1>10. ASSUME UNCHANGED allVars PROVE UNCHANGED vars BY <1>10 DEF allVars
<1>. HIDE DEF Effect
<1>. QED BY <1>1, <1>2, <1>3, <1>5, <1>6, <1>7, <1>8, <1>9, <1>10 DEF LockNext, Advance

-------------------------------------------------------------------------------
(* What a step leaves to the transactions that hold other rows.              *)

\* A step that changes only what the rows in H protect.
OnlyTouches(H) ==
  /\ UNCHANGED spendCaps
  /\ Len(orders) <= Len(orders')
  /\ \A o \in 1..Len(orders) :
       /\ orders'[o].userId = orders[o].userId
       /\ orders'[o].leadId = orders[o].leadId
       /\ orders'[o].price = orders[o].price
       /\ disputes[o].status # "none" =>
            /\ disputes'[o].status # "none"
            /\ DisputeRowOf(o) \notin H => disputes'[o].status = disputes[o].status
  /\ \A u \in Users : UserRow(u) \notin H =>
       balance'[u] = balance[u] /\ Total(Spend(u)') = Total(Spend(u))
  /\ \A l \in Leads : LeadRow(l) \notin H => (Available(l) => Available(l)')
  /\ \A v \in Vendors : VendorRow(v) \notin H => vendorBalances'[v] = vendorBalances[v]
  /\ \A r, u \in Users :
       referrals[r].status \in {"redeemed", "rewarded"} /\ referrals[r].referredUserId = u =>
         /\ referrals'[r].status \in {"redeemed", "rewarded"}
         /\ referrals'[r].referredUserId = u
         /\ referrals[r].status = "rewarded" => referrals'[r].status = "rewarded"
         /\ ReferralRow(r) \notin H => referrals'[r].status = referrals[r].status

\* Whatever touches few rows touches more rows only.
LEMMA NothingTouched ==
  ASSUME TypeOK, UNCHANGED vars
  PROVE  OnlyTouches({})
<1>1. /\ UNCHANGED << balance, leads, orders, disputes, vendorBalances, referrals, spendCaps >>
      /\ UNCHANGED month
  BY DEF vars
<1>2. Len(orders) \in Nat BY DEF TypeOK
<1>3. \A l \in Leads : Available(l)' <=> Available(l) BY <1>1 DEF Available
<1>4. \A u \in Users : Spend(u)' = Spend(u) BY <1>1 DEF Spend
<1>. QED BY <1>1, <1>2, <1>3, <1>4 DEF OnlyTouches

\* Spend(u) of any rows.
SpendOf(rows, u) ==
  [o \in 1..Len(rows) |-> IF rows[o].userId = u /\ rows[o].status = "completed"
                             /\ rows[o].month = month
                          THEN rows[o].price ELSE 0]

\* A purchase leaves the spend of every other user as it is.
LEMMA PurchaseSpendsOwn ==
  ASSUME TypeOK, TypeOK', NEW u \in Users, NEW batch, IsBatch(batch), Purchase(u, batch),
         NEW x \in Users, x # u
  PROVE  Total(Spend(x)') = Total(Spend(x))
<1>. DEFINE n == Len(orders)
            s == Spend(x)
            t == SpendOf(orders', x)
            r == [i \in 1..Len(batch) |-> 0]
<1>1. n \in Nat /\ Len(batch) \in Nat BY BatchRows DEF TypeOK
<1>2. /\ Len(orders') = n + Len(batch)
      /\ \A o \in 1..n : orders'[o] = orders[o]
      /\ \A i \in 1..Len(batch) : orders'[n + i].userId = u
  BY PurchaseAppends
<1>3. s \in Seq(Int) /\ Len(s) = n
  <2>1. \A o \in 1..n : orders[o] \in OrderRow BY RowTypes
  <2>2. \A o \in 1..n : orders[o].price \in Int BY <2>1 DEF OrderRow
  <2>. QED BY <1>1, <2>2 DEF Spend
<1>4. t \in Seq(Int) /\ Len(t) = n + Len(batch)
  <2>1. \A o \in 1..Len(orders') : orders'[o] \in OrderRow BY DEF TypeOK
  <2>2. \A o \in 1..Len(orders') : orders'[o].price \in Int BY <2>1 DEF OrderRow
  <2>. QED BY <1>1, <1>2, <2>2 DEF SpendOf
<1>5. r \in Seq(Int) /\ Len(r) = Len(batch) /\ \A i \in 1..Len(r) : r[i] = 0 BY <1>1
<1>6. \A o \in 1..n : t[o] = s[o]
  <2>1. \A o \in 1..n : o \in 1..Len(orders') BY <1>1, <1>2
  <2>. QED BY <1>2, <2>1 DEF SpendOf, Spend
<1>7. \A i \in 1..Len(batch) : t[n + i] = 0
  <2>. SUFFICES ASSUME NEW i \in 1..Len(batch) PROVE t[n + i] = 0 OBVIOUS
  <2>1. n + i \in 1..Len(orders') BY <1>1, <1>2
  <2>2. t[n + i] = IF /\ orders'[n + i].userId = x /\ orders'[n + i].status = "completed"
                      /\ orders'[n + i].month = month
                   THEN orders'[n + i].price ELSE 0
    BY <2>1 DEF SpendOf
  <2>. QED BY <1>2, <2>2
<1>8. t = Spend(x)'
  <2>1. month' = month BY DEF Purchase, RecordPurchase
  <2>. QED BY <2>1 DEF SpendOf, Spend
<1>. HIDE DEF s, t, r
<1>9. Total(t) = Total(s) + Total(r)
  <2>1. /\ Len(t) = Len(s) + Len(r)
        /\ \A o \in 1..Len(s) : t[o] = s[o]
        /\ \A i \in 1..Len(r) : t[Len(s) + i] = r[i]
    BY <1>3, <1>4, <1>5, <1>6, <1>7
  <2>. QED BY <1>3, <1>4, <1>5, <2>1, TotalJoin
<1>10. Total(r) = 0 BY <1>5, TotalZeros
<1>11. Total(s) \in Int BY <1>3, TotalInt
<1>. QED BY <1>8, <1>9, <1>10, <1>11 DEF s

\* A vendor of none of the credited leads is credited nothing.
LEMMA NoCredit ==
  ASSUME NEW batch, IsBatch(batch), NEW v,
         \A i \in 1..Len(batch) : SaleRow(batch[i]) # VendorRow(v)
  PROVE  BatchCredit(batch, v) = 0
<1>. DEFINE s == [i \in 1..Len(batch) |->
                    IF VendorOf[batch[i]] = v THEN VendorCents(Price[batch[i]]) ELSE 0]
<1>1. /\ Len(batch) \in Nat
      /\ \A i \in 1..Len(batch) : VendorCents(Price[batch[i]]) \in Nat
  BY BatchRows, VendorCentsNat
<1>2. \A i \in 1..Len(batch) : s[i] = 0
  <2>. SUFFICES ASSUME NEW i \in 1..Len(batch), VendorOf[batch[i]] = v
                PROVE  VendorCents(Price[batch[i]]) = 0
    OBVIOUS
  <2>1. ~(VendorCents(Price[batch[i]]) > 0) BY DEF SaleRow
  <2>. QED BY <1>1, <2>1
<1>3. s \in Seq(Int) /\ Len(s) = Len(batch) BY <1>1
<1>. HIDE DEF s
<1>4. Total(s) = 0 BY <1>2, <1>3, TotalZeros
<1>. QED BY <1>4 DEF BatchCredit, s

LEMMA PurchaseTouches ==
  ASSUME TypeOK, TypeOK', NEW u \in Users, NEW batch, IsBatch(batch), Purchase(u, batch),
         NEW H, UserRow(u) \in H,
         \A i \in 1..Len(batch) : LeadRow(batch[i]) \in H /\ SaleRow(batch[i]) \in H
  PROVE  OnlyTouches(H)
<1>1. /\ Len(orders') = Len(orders) + Len(batch)
      /\ \A o \in 1..Len(orders) : orders'[o] = orders[o] /\ disputes'[o] = disputes[o]
  BY PurchaseAppendsRows
<1>2. Len(orders) \in Nat /\ Len(batch) \in Nat BY BatchRows DEF TypeOK
<1>3. UNCHANGED << spendCaps, referrals >> BY DEF Purchase, RecordPurchase
<1>4. ASSUME NEW x \in Users, UserRow(x) \notin H
      PROVE  balance'[x] = balance[x] /\ Total(Spend(x)') = Total(Spend(x))
  <2>1. x # u BY <1>4
  <2>2. balance'[x] = balance[x] BY <2>1 DEF Purchase, RecordPurchase, TypeOK
  <2>. QED BY <2>1, <2>2, PurchaseSpendsOwn
<1>5. ASSUME NEW l \in Leads, LeadRow(l) \notin H PROVE Available(l) => Available(l)'
  <2>1. l \notin InBatch(batch) BY <1>5 DEF InBatch
  <2>2. leads'[l] = leads[l] BY <2>1, PurchaseAppends
  <2>. QED BY <2>2 DEF Available
<1>6. ASSUME NEW v \in Vendors, VendorRow(v) \notin H PROVE vendorBalances'[v] = vendorBalances[v]
  <2>1. BatchCredit(batch, v) = 0 BY <1>6, NoCredit
  <2>2. vendorBalances'[v] = [vendorBalances[v] EXCEPT !.pendingCents =
                                vendorBalances[v].pendingCents + BatchCredit(batch, v)]
    BY DEF Purchase, RecordPurchase
  <2>3. vendorBalances[v] \in BalanceRow /\ vendorBalances[v].pendingCents \in Nat BY VendorRowTyped
  <2>. QED BY <2>1, <2>2, <2>3 DEF BalanceRow
<1>. QED BY <1>1, <1>2, <1>3, <1>4, <1>5, <1>6 DEF OnlyTouches

LEMMA ApprovalTouches ==
  ASSUME TypeOK, NEW o \in 1..Len(orders), NEW requested \in Refunds,
         ApproveDispute(o, requested),
         NEW H, DisputeRowOf(o) \in H,
         LET refund == ClampRefundCents(requested, orders[o].price)
         IN  /\ refund > 0 => UserRow(orders[o].userId) \in H
             /\ VendorDebit(refund) > 0 => VendorRow(VendorOf[orders[o].leadId]) \in H
  PROVE  OnlyTouches(H)
<1>. DEFINE refund == ClampRefundCents(requested, orders[o].price)
            debit == VendorDebit(refund)
            w == VendorOf[orders[o].leadId]
            b == orders[o].userId
<1>1. /\ Len(orders') = Len(orders)
      /\ orders'[o] = [orders[o] EXCEPT !.status = StatusAfterRefund(orders[o], refund)]
      /\ disputes'[o] = [status |-> "approved", refundCents |-> refund]
      /\ \A p \in 1..Len(orders) : p # o => orders'[p] = orders[p] /\ disputes'[p] = disputes[p]
  BY ApprovalRows
<1>2. orders[o] \in OrderRow /\ Len(orders) \in Nat BY RowTypes DEF TypeOK
<1>3. b \in Users /\ w \in Vendors /\ refund \in Nat /\ debit \in Nat
  <2>1. orders[o].userId \in Users /\ orders[o].leadId \in Leads /\ orders[o].price \in Nat
    BY <1>2 DEF OrderRow
  <2>2. refund \in Nat BY <2>1, ClampRefundBounds, MarketAssumption
  <2>. QED BY <2>1, <2>2, DebitNat, MarketAssumption
<1>4. /\ UNCHANGED << spendCaps, referrals, leads, month >>
      /\ balance' = [balance EXCEPT ![b] = balance[b] + refund]
      /\ vendorBalances' = [vendorBalances EXCEPT ![w] = PlanVendorDebit(debit, vendorBalances[w])]
  BY DEF ApproveDispute, RecordApproval
<1>5. /\ refund > 0 => UserRow(b) \in H
      /\ debit > 0 => VendorRow(w) \in H
  OBVIOUS
<1>. HIDE DEF refund, debit, w, b
<1>6. /\ orders'[o].userId = orders[o].userId /\ orders'[o].leadId = orders[o].leadId
      /\ orders'[o].price = orders[o].price /\ orders'[o].month = orders[o].month
      /\ orders'[o].status = StatusAfterRefund(orders[o], refund)
  BY <1>1, <1>2 DEF OrderRow
<1>7. ASSUME NEW x \in Users, UserRow(x) \notin H
      PROVE  balance'[x] = balance[x] /\ Total(Spend(x)') = Total(Spend(x))
  <2>1. CASE x # b
    <3>1. balance'[x] = balance[x] BY <1>4, <2>1 DEF TypeOK
    <3>2. Spend(x)' = Spend(x)
      BY <1>1, <1>4, <1>6, <2>1 DEF Spend, b
    <3>. QED BY <3>1, <3>2
  <2>2. CASE x = b
    <3>1. refund = 0 BY <1>3, <1>5, <1>7, <2>2
    <3>2. balance'[x] = balance[x]
      <4>1. balance[b] \in Nat BY <1>3 DEF TypeOK
      <4>. QED BY <1>3, <1>4, <2>2, <3>1, <4>1 DEF TypeOK
    <3>3. orders'[o].status = orders[o].status BY <1>6, <3>1 DEF StatusAfterRefund
    <3>4. Spend(x)' = Spend(x) BY <1>1, <1>4, <1>6, <3>3 DEF Spend
    <3>. QED BY <3>2, <3>4
  <2>. QED BY <2>1, <2>2
<1>8. ASSUME NEW v \in Vendors, VendorRow(v) \notin H PROVE vendorBalances'[v] = vendorBalances[v]
  <2>1. CASE v # w BY <1>4, <2>1 DEF TypeOK
  <2>2. CASE v = w
    <3>1. debit = 0 BY <1>3, <1>5, <1>8, <2>2
    <3>2. /\ vendorBalances[w] \in BalanceRow /\ vendorBalances[w].pendingCents \in Nat
          /\ 0 <= vendorBalances[w].pendingCents
          /\ vendorBalances[w].pendingCents - 0 = vendorBalances[w].pendingCents
      BY <1>3, VendorRowTyped
    <3>3. PlanVendorDebit(debit, vendorBalances[w]) = vendorBalances[w]
      BY <3>1, <3>2 DEF PlanVendorDebit, BalanceRow
    <3>. QED BY <1>4, <2>2, <3>3 DEF TypeOK
  <2>. QED BY <2>1, <2>2
<1>9. \A l \in Leads : Available(l) => Available(l)' BY <1>4 DEF Available
<1>10. disputes'[o].status = "approved" BY <1>1
<1>11. \A p \in 1..Len(orders) : /\ orders'[p].userId = orders[p].userId
                                 /\ orders'[p].leadId = orders[p].leadId
                                 /\ orders'[p].price = orders[p].price
  BY <1>1, <1>6
<1>12. \A p \in 1..Len(orders) : disputes[p].status # "none" =>
         /\ disputes'[p].status # "none"
         /\ DisputeRowOf(p) \notin H => disputes'[p].status = disputes[p].status
  BY <1>1, <1>10
<1>13. UNCHANGED spendCaps /\ UNCHANGED referrals /\ Len(orders) <= Len(orders')
  BY <1>1, <1>2, <1>4
<1>. QED BY <1>7, <1>8, <1>9, <1>11, <1>12, <1>13 DEF OnlyTouches

LEMMA RewardTouches ==
  ASSUME TypeOK, NEW u \in Users, RewardReferral(u),
         NEW H, \A r \in DueReferrals(u) : {ReferralRow(r), UserRow(r), UserRow(u)} \subseteq H
  PROVE  OnlyTouches(H)
<1>1. /\ UNCHANGED << leads, orders, disputes, vendorBalances, spendCaps, month >>
      /\ \A x \in Users : balance'[x] = IF DueReferrals(u) # {} /\ x \in DueReferrals(u) \cup {u}
                                        THEN balance[x] + RewardCents ELSE balance[x]
      /\ \A r \in Users : referrals'[r] = IF r \in DueReferrals(u)
                                          THEN [referrals[r] EXCEPT !.status = "rewarded"]
                                          ELSE referrals[r]
  BY DEF RewardReferral, PayRewards
<1>2. Len(orders) \in Nat /\ \A r \in Users : referrals[r] \in ReferralSlot BY DEF TypeOK
<1>3. \A x \in Users : UserRow(x) \notin H => balance'[x] = balance[x] BY <1>1
<1>4. \A x \in Users : Spend(x)' = Spend(x) BY <1>1 DEF Spend
<1>5. ASSUME NEW r \in Users, NEW x \in Users,
             referrals[r].status \in {"redeemed", "rewarded"}, referrals[r].referredUserId = x
      PROVE  /\ referrals'[r].status \in {"redeemed", "rewarded"}
             /\ referrals'[r].referredUserId = x
             /\ referrals[r].status = "rewarded" => referrals'[r].status = "rewarded"
             /\ ReferralRow(r) \notin H => referrals'[r].status = referrals[r].status
  <2>1. CASE r \notin DueReferrals(u) BY <1>1, <1>5, <2>1
  <2>2. CASE r \in DueReferrals(u)
    <3>1. referrals'[r] = [referrals[r] EXCEPT !.status = "rewarded"] BY <1>1, <2>2
    <3>2. referrals'[r].status = "rewarded" /\ referrals'[r].referredUserId = x
      BY <1>2, <1>5, <3>1 DEF ReferralSlot
    <3>. QED BY <2>2, <3>2
  <2>. QED BY <2>1, <2>2
<1>6. \A l \in Leads : Available(l) => Available(l)' BY <1>1 DEF Available
<1>. QED BY <1>1, <1>2, <1>3, <1>4, <1>5, <1>6 DEF OnlyTouches

LEMMA SweepTouches ==
  ASSUME TypeOK, NEW swept \in SUBSET Vendors, SweepVendorPayouts(swept),
         NEW H, \A v \in swept : VendorRow(v) \in H
  PROVE  OnlyTouches(H)
<1>1. UNCHANGED << balance, leads, orders, disputes, referrals, spendCaps, month >>
  BY DEF SweepVendorPayouts, RecordPayouts
<1>2. \A v \in Vendors : VendorRow(v) \notin H => vendorBalances'[v] = vendorBalances[v]
  BY DEF SweepVendorPayouts, RecordPayouts
<1>3. Len(orders) \in Nat BY DEF TypeOK
<1>4. \A x \in Users : Spend(x)' = Spend(x) BY <1>1 DEF Spend
<1>5. \A l \in Leads : Available(l) => Available(l)' BY <1>1 DEF Available
<1>. QED BY <1>1, <1>2, <1>3, <1>4, <1>5 DEF OnlyTouches

\* Calls that are lost.
LEMMA LossTouches ==
  ASSUME TypeOK, NEW lost, LoseRewardTasks(lost)
  PROVE  OnlyTouches({})
<1>1. UNCHANGED << balance, leads, orders, disputes, vendorBalances, referrals, spendCaps, month >>
  BY DEF LoseRewardTasks
<1>2. Len(orders) \in Nat BY DEF TypeOK
<1>3. \A l \in Leads : Available(l)' <=> Available(l) BY <1>1 DEF Available
<1>4. \A u \in Users : Spend(u)' = Spend(u) BY <1>1 DEF Spend
<1>. QED BY <1>1, <1>2, <1>3, <1>4 DEF OnlyTouches

\* A single statement waits for the rows it writes.
LEMMA StatementTouches ==
  ASSUME TypeOK, Statement
  PROVE  /\ \E H : (\A t \in Txs : held[t] \cap H = {}) /\ OnlyTouches(H)
         /\ UNCHANGED lockVars /\ UNCHANGED rewardTasks
<1>. DEFINE Effect == \E H : (\A t \in Txs : held[t] \cap H = {}) /\ OnlyTouches(H)
<1>1. Len(orders) \in Nat /\ \A r \in Users : referrals[r] \in ReferralSlot BY DEF TypeOK
<1>2. ASSUME NEW u \in Payers, NEW amount \in TopUps, CreateStripeSession(u, amount)
      PROVE  Effect /\ UNCHANGED rewardTasks
  <2>1. UNCHANGED << balance, leads, orders, disputes, vendorBalances, referrals, spendCaps, month,
                     rewardTasks >>
    BY <1>2 DEF CreateStripeSession
  <2>2. \A l \in Leads : Available(l)' <=> Available(l) BY <2>1 DEF Available
  <2>3. \A x \in Users : Spend(x)' = Spend(x) BY <2>1 DEF Spend
  <2>4. OnlyTouches({}) BY <1>1, <2>1, <2>2, <2>3 DEF OnlyTouches
  <2>. QED BY <2>1, <2>4
<1>3. ASSUME NEW s \in 1..Len(sessions), Free({UserRow(sessions[s].userId)}),
             CreditUserFromStripe(s)
      PROVE  Effect /\ UNCHANGED rewardTasks
  <2>1. UNCHANGED << leads, orders, disputes, vendorBalances, referrals, spendCaps, month,
                     rewardTasks >>
    BY <1>3 DEF CreditUserFromStripe
  <2>2. \A l \in Leads : Available(l)' <=> Available(l) BY <2>1 DEF Available
  <2>3. \A x \in Users : Spend(x)' = Spend(x) BY <2>1 DEF Spend
  <2>4. \A x \in Users : UserRow(x) \notin {UserRow(sessions[s].userId)} => balance'[x] = balance[x]
    BY <1>3 DEF CreditUserFromStripe, TypeOK
  <2>5. OnlyTouches({UserRow(sessions[s].userId)})
    BY <1>1, <2>1, <2>2, <2>3, <2>4 DEF OnlyTouches
  <2>. QED BY <1>3, <2>1, <2>5 DEF Free
<1>4. ASSUME NEW u \in Referrers, GetOrCreateReferralCode(u)
      PROVE  Effect /\ UNCHANGED rewardTasks
  <2>1. UNCHANGED << balance, leads, orders, disputes, vendorBalances, spendCaps, month,
                     rewardTasks >>
    BY <1>4 DEF GetOrCreateReferralCode
  <2>2. \A l \in Leads : Available(l)' <=> Available(l) BY <2>1 DEF Available
  <2>3. \A x \in Users : Spend(x)' = Spend(x) BY <2>1 DEF Spend
  <2>4. \A r \in Users : referrals[r].status \in {"redeemed", "rewarded"} =>
                           referrals'[r] = referrals[r]
    BY <1>4 DEF GetOrCreateReferralCode, TypeOK
  <2>5. OnlyTouches({}) BY <1>1, <2>1, <2>2, <2>3, <2>4 DEF OnlyTouches
  <2>. QED BY <2>1, <2>5
<1>5. ASSUME NEW r \in Users, NEW u \in Users, RedeemReferralCode(r, u)
      PROVE  Effect /\ UNCHANGED rewardTasks
  <2>1. UNCHANGED << balance, leads, orders, disputes, vendorBalances, spendCaps, month,
                     rewardTasks >>
    BY <1>5 DEF RedeemReferralCode
  <2>2. \A l \in Leads : Available(l)' <=> Available(l) BY <2>1 DEF Available
  <2>3. \A x \in Users : Spend(x)' = Spend(x) BY <2>1 DEF Spend
  <2>4. \A q, x \in Users : referrals[q].referredUserId = x => referrals'[q] = referrals[q]
    <3>1. NULL \notin Users BY MarketAssumption
    <3>. QED BY <1>5, <3>1 DEF RedeemReferralCode, TypeOK
  <2>5. OnlyTouches({}) BY <1>1, <2>1, <2>2, <2>3, <2>4 DEF OnlyTouches
  <2>. QED BY <2>1, <2>5
<1>6. ASSUME NEW o \in 1..Len(orders), CreateDispute(o)
      PROVE  Effect /\ UNCHANGED rewardTasks
  <2>1. UNCHANGED << balance, leads, orders, vendorBalances, referrals, spendCaps, month,
                     rewardTasks >>
    BY <1>6 DEF CreateDispute
  <2>2. \A l \in Leads : Available(l)' <=> Available(l) BY <2>1 DEF Available
  <2>3. \A x \in Users : Spend(x)' = Spend(x) BY <2>1 DEF Spend
  <2>4. \A p \in 1..Len(orders) : disputes[p].status # "none" => disputes'[p] = disputes[p]
    BY <1>6 DEF CreateDispute, TypeOK
  <2>5. OnlyTouches({}) BY <1>1, <2>1, <2>2, <2>3, <2>4 DEF OnlyTouches
  <2>. QED BY <2>1, <2>5
<1>7. ASSUME NEW o \in 1..Len(orders), Free({DisputeRowOf(o)}), DenyDispute(o)
      PROVE  Effect /\ UNCHANGED rewardTasks
  <2>1. UNCHANGED << balance, leads, orders, vendorBalances, referrals, spendCaps, month,
                     rewardTasks >>
    BY <1>7 DEF DenyDispute
  <2>2. \A l \in Leads : Available(l)' <=> Available(l) BY <2>1 DEF Available
  <2>3. \A x \in Users : Spend(x)' = Spend(x) BY <2>1 DEF Spend
  <2>4. /\ disputes'[o].status \in {"open", "denied"}
        /\ \A p \in 1..Len(orders) : p # o => disputes'[p] = disputes[p]
    BY <1>7, FilingRows
  <2>5. OnlyTouches({DisputeRowOf(o)}) BY <1>1, <2>1, <2>2, <2>3, <2>4 DEF OnlyTouches
  <2>. QED BY <1>7, <2>1, <2>5 DEF Free
<1>8. ASSUME NEW l \in Moderated, Free({LeadRow(l)}), RemoveLead(l)
      PROVE  Effect /\ UNCHANGED rewardTasks
  <2>1. UNCHANGED << balance, orders, disputes, vendorBalances, referrals, spendCaps, month,
                     rewardTasks >>
    BY <1>8 DEF RemoveLead
  <2>2. \A k \in Leads : LeadRow(k) \notin {LeadRow(l)} => leads'[k] = leads[k]
    BY <1>8 DEF RemoveLead, TypeOK
  <2>3. \A k \in Leads : LeadRow(k) \notin {LeadRow(l)} => (Available(k) => Available(k)')
    BY <2>2 DEF Available
  <2>4. \A x \in Users : Spend(x)' = Spend(x) BY <2>1 DEF Spend
  <2>5. OnlyTouches({LeadRow(l)}) BY <1>1, <2>1, <2>3, <2>4 DEF OnlyTouches
  <2>. QED BY <1>8, <2>1, <2>5 DEF Free
<1>. HIDE DEF Effect
<1>9. Effect /\ UNCHANGED rewardTasks
  BY <1>2, <1>3, <1>4, <1>5, <1>6, <1>7, <1>8 DEF Statement
<1>. QED BY <1>9 DEF Statement, Effect

-------------------------------------------------------------------------------
(* Transactions that another one's step leaves alone.                        *)

\* t serves what it served, holds what it held and has read what it had read.
StandsStill(t) ==
  /\ tx'[t] = tx[t] /\ todo'[t] = todo[t] /\ held'[t] = held[t]
  /\ wallet'[t] = wallet[t] /\ bal'[t] = bal[t]

\* A step loses no reward call that t still depends on.
KeepsCalls(t) ==
  \A r, u \in Users :
    tx[t] = RewardTx(r, u) /\ referrals[r].status = "redeemed" /\ referrals'[r].status = "redeemed"
      => (u \in rewardTasks => u \in rewardTasks')

\* What a transaction has checked of the rows it holds survives every step that touches
\* other rows.
LEMMA BystanderHolds ==
  ASSUME LocksInv, TypeOK', NEW t \in Txs, StandsStill(t), KeepsCalls(t),
         NEW H, held[t] \cap H = {}, OnlyTouches(H)
  PROVE  Holds(t)'
<1>1. Holds(t) /\ TypeOK BY DEF LocksInv
<1>2. \A row : row \in held[t] => row \notin H OBVIOUS
<1>3. \A rows, k : Reached(t, rows, k) =>
        /\ k \in 0..Len(rows) /\ todo'[t] = Rest(rows, k)
        /\ \A i \in 1..k : rows[i] \in held'[t]
  BY DEF Reached, StandsStill
<1>4. IdleHoldsNothing(t)' BY <1>1 DEF Holds, IdleHoldsNothing, StandsStill
<1>5. ReadsCurrent(t)'
  <2>1. \A u \in Users : UserRow(u) \in held[t] => balance'[u] = balance[u]
    BY <1>2 DEF OnlyTouches
  <2>2. \A v \in Vendors : VendorRow(v) \in held[t] => vendorBalances'[v] = vendorBalances[v]
    BY <1>2 DEF OnlyTouches
  <2>. QED BY <1>1, <2>1, <2>2 DEF Holds, ReadsCurrent, StandsStill
<1>6. PurchaseHolds(t)'
  <2>. SUFFICES ASSUME NEW u \in Users, NEW batch \in Batches, tx'[t] = PurchaseTx(u, batch)
                PROVE  \E k \in Nat :
                         /\ Reached(t, PurchaseRows(u, batch), k)'
                         /\ k >= Len(batch) => \A l \in InBatch(batch) : Available(l)'
                         /\ k > Len(batch) => CanPay(u, BatchPrice(batch))'
    BY DEF PurchaseHolds
  <2>. DEFINE rows == PurchaseRows(u, batch)
              n == Len(batch)
              cents == BatchPrice(batch)
  <2>1. PICK k \in Nat :
          /\ Reached(t, rows, k)
          /\ k >= n => \A l \in InBatch(batch) : Available(l)
          /\ k > n => CanPay(u, cents)
    BY <1>1 DEF Holds, PurchaseHolds, StandsStill
  <2>2. /\ n \in Nat \ {0} /\ rows[n + 1] = UserRow(u)
        /\ \A i \in 1..n : rows[i] = LeadRow(batch[i])
    BY PurchaseRowsAre
  <2>3. \A i \in 1..k : rows[i] \in held[t] BY <2>1 DEF Reached
  <2>4. Reached(t, rows, k)' BY <1>3, <2>1 DEF Reached
  <2>. HIDE DEF rows, cents
  <2>5. ASSUME k >= n, NEW l \in InBatch(batch) PROVE Available(l)'
    <3>1. PICK i \in 1..n : l = batch[i] BY DEF InBatch
    <3>2. LeadRow(l) \notin H BY <1>2, <2>2, <2>3, <2>5, <3>1
    <3>3. l \in Leads BY <3>1, BatchFacts, BatchRows
    <3>. QED BY <2>1, <2>5, <3>2, <3>3 DEF OnlyTouches
  <2>6. ASSUME k > n PROVE CanPay(u, cents)'
    <3>1. n + 1 \in 1..k BY <2>2, <2>6
    <3>2. UserRow(u) \notin H BY <1>2, <2>2, <2>3, <3>1
    <3>3. balance'[u] = balance[u] /\ Total(Spend(u)') = Total(Spend(u)) BY <3>2 DEF OnlyTouches
    <3>4. CapsOf(u)' = CapsOf(u) BY DEF CapsOf, OnlyTouches
    <3>5. balance[u] >= cents /\ \A cap \in CapsOf(u) : Total(Spend(u)) + cents <= cap
      BY <2>1, <2>6 DEF CanPay, WithinSpendCap
    <3>. HIDE DEF n
    <3>6. balance'[u] >= cents /\ \A cap \in CapsOf(u)' : Total(Spend(u)') + cents <= cap
      BY <3>3, <3>4, <3>5
    <3>. QED BY <3>6 DEF CanPay, WithinSpendCap
  <2>. QED BY <2>1, <2>4, <2>5, <2>6 DEF rows, cents
<1>7. ApprovalHolds(t)'
  <2>. SUFFICES ASSUME NEW o \in Nat, NEW requested \in Refunds, tx'[t] = ApproveTx(o, requested)
                PROVE  /\ o \in 1..Len(orders') /\ disputes'[o].status # "none"
                       /\ \E k \in Nat : /\ Reached(t, ApproveRows(o, requested), k)'
                                         /\ k >= 1 => IsOpen(o)'
    BY DEF ApprovalHolds
  <2>1. o \in 1..Len(orders) /\ disputes[o].status # "none"
    BY <1>1 DEF Holds, ApprovalHolds, StandsStill
  <2>2. PICK k \in Nat : Reached(t, ApproveRows(o, requested), k) /\ (k >= 1 => IsOpen(o))
    BY <1>1 DEF Holds, ApprovalHolds, StandsStill
  <2>3. Len(orders) \in Nat /\ Len(orders') \in Nat /\ Len(orders) <= Len(orders')
    BY <1>1 DEF OnlyTouches, TypeOK
  <2>4. o \in 1..Len(orders') /\ disputes'[o].status # "none"
    BY <2>1, <2>3 DEF OnlyTouches
  <2>5. ApproveRows(o, requested)' = ApproveRows(o, requested)
    BY <2>1 DEF OnlyTouches, ApproveRows
  <2>6. ApproveRows(o, requested)[1] = DisputeRowOf(o)
    BY <1>1, <2>1, ApproveRowsAre
  <2>7. Reached(t, ApproveRows(o, requested), k)'
    BY <1>3, <2>2, <2>5 DEF Reached
  <2>8. ASSUME k >= 1 PROVE IsOpen(o)'
    <3>1. DisputeRowOf(o) \in held[t]
      <4>1. 1 \in 1..k BY <2>8
      <4>. QED BY <2>2, <2>6, <4>1 DEF Reached
    <3>2. disputes'[o].status = disputes[o].status BY <1>2, <2>1, <3>1 DEF OnlyTouches
    <3>. QED BY <2>2, <2>8, <3>2 DEF IsOpen
  <2>. QED BY <2>4, <2>7, <2>8
<1>8. RewardHolds(t)'
  <2>. SUFFICES ASSUME NEW r \in Users, NEW u \in Users, tx'[t] = RewardTx(r, u)
                PROVE  /\ /\ referrals'[r].status \in {"redeemed", "rewarded"}
                          /\ referrals'[r].referredUserId = u
                       /\ referrals'[r].status = "redeemed" => u \in rewardTasks'
                       /\ \E k \in Nat : /\ Reached(t, RewardRows(r, u), k)'
                                         /\ k >= 1 => referrals'[r].status = "redeemed"
    BY DEF RewardHolds
  <2>1. tx[t] = RewardTx(r, u) BY DEF StandsStill
  <2>2. /\ referrals[r].status \in {"redeemed", "rewarded"} /\ referrals[r].referredUserId = u
        /\ referrals[r].status = "redeemed" => u \in rewardTasks
    BY <1>1, <2>1 DEF Holds, RewardHolds
  <2>3. PICK k \in Nat : /\ Reached(t, RewardRows(r, u), k)
                         /\ k >= 1 => referrals[r].status = "redeemed"
    BY <1>1, <2>1 DEF Holds, RewardHolds
  <2>4. /\ referrals'[r].status \in {"redeemed", "rewarded"}
        /\ referrals'[r].referredUserId = u
        /\ referrals[r].status = "rewarded" => referrals'[r].status = "rewarded"
        /\ ReferralRow(r) \notin H => referrals'[r].status = referrals[r].status
    BY <2>2 DEF OnlyTouches
  <2>5. referrals'[r].status = "redeemed" => u \in rewardTasks'
    BY <2>1, <2>2, <2>4 DEF KeepsCalls
  <2>6. Reached(t, RewardRows(r, u), k)' BY <1>3, <2>3 DEF Reached
  <2>7. ASSUME k >= 1 PROVE referrals'[r].status = "redeemed"
    <3>1. 1 \in 1..k BY <2>7
    <3>2. ReferralRow(r) \in held[t] BY <2>3, <3>1, RewardRowsAre DEF Reached
    <3>. QED BY <1>2, <2>3, <2>4, <2>7, <3>2
  <2>. QED BY <2>4, <2>5, <2>6, <2>7
<1>9. SweepHolds(t)'
  <2>. SUFFICES ASSUME tx'[t] = SweepTx
                PROVE  /\ \A i \in 1..Len(todo'[t]) : \E v \in Vendors : todo'[t][i] = VendorRow(v)
                       /\ \A row \in held'[t] : \E v \in Vendors : row = VendorRow(v) /\ IsEligible(v)'
    BY DEF SweepHolds
  <2>1. \A i \in 1..Len(todo[t]) : \E v \in Vendors : todo[t][i] = VendorRow(v)
    BY <1>1 DEF Holds, SweepHolds, StandsStill
  <2>2. ASSUME NEW row \in held[t]
        PROVE  \E v \in Vendors : row = VendorRow(v) /\ IsEligible(v)'
    <3>1. PICK v \in Vendors : row = VendorRow(v) /\ IsEligible(v)
      BY <1>1, <2>2 DEF Holds, SweepHolds, StandsStill
    <3>2. vendorBalances'[v] = vendorBalances[v] BY <1>2, <3>1 DEF OnlyTouches
    <3>3. IsEligible(v)' BY <3>1, <3>2 DEF IsEligible
    <3>. QED BY <3>1, <3>3
  <2>. QED BY <2>1, <2>2 DEF StandsStill
<1>. QED BY <1>4, <1>5, <1>6, <1>7, <1>8, <1>9 DEF Holds

-------------------------------------------------------------------------------
(* The steps of a transaction.                                               *)

\* Nothing of the rows is locked yet.
LEMMA RestZero ==
  ASSUME NEW rows \in Seq(Rows)
  PROVE  Rest(rows, 0) = rows
<1>. DEFINE x == Rest(rows, 0)
<1>1. Len(rows) \in Nat /\ \A i \in 1..Len(rows) : rows[i] \in Rows OBVIOUS
<1>2. \A i \in 1..Len(rows) : 0 + i = i OBVIOUS
<1>3. Len(rows) - 0 = Len(rows) BY <1>1
<1>4. x = [i \in 1..Len(rows) |-> rows[i]] BY <1>2, <1>3 DEF Rest
<1>. HIDE DEF x
<1>5. x \in Seq(Rows) /\ Len(x) = Len(rows) /\ \A i \in 1..Len(rows) : x[i] = rows[i]
  BY <1>1, <1>4
<1>6. x = rows BY <1>5
<1>. QED BY <1>6 DEF x

\* A connection that serves nothing satisfies what is asked of it.
LEMMA IdleHolds ==
  ASSUME NEW t \in Txs, tx'[t] = Idle, todo'[t] = << >>, held'[t] = {},
         wallet'[t] = << >>, bal'[t] = << >>
  PROVE  Holds(t)'
<1>1. IdleHoldsNothing(t)' BY DEF IdleHoldsNothing
<1>2. ReadsCurrent(t)' BY DEF ReadsCurrent
<1>3. PurchaseHolds(t)' BY RequestKinds DEF PurchaseHolds
<1>4. ApprovalHolds(t)' BY RequestKinds DEF ApprovalHolds
<1>5. RewardHolds(t)' BY RequestKinds DEF RewardHolds
<1>6. SweepHolds(t)' BY RequestKinds DEF SweepHolds
<1>. QED BY <1>1, <1>2, <1>3, <1>4, <1>5, <1>6 DEF Holds

\* Of the other demands on a transaction, only that of its own kind says anything.
LEMMA OneKind ==
  ASSUME NEW t \in Txs
  PROVE  /\ tx'[t].kind # "idle" => IdleHoldsNothing(t)'
         /\ tx'[t].kind # "purchase" => PurchaseHolds(t)'
         /\ tx'[t].kind # "approve" => ApprovalHolds(t)'
         /\ tx'[t].kind # "reward" => RewardHolds(t)'
         /\ tx'[t].kind # "sweep" => SweepHolds(t)'
<1>1. tx'[t].kind # "idle" => IdleHoldsNothing(t)' BY RequestKinds DEF IdleHoldsNothing
<1>2. tx'[t].kind # "purchase" => PurchaseHolds(t)' BY RequestKinds DEF PurchaseHolds
<1>3. tx'[t].kind # "approve" => ApprovalHolds(t)' BY RequestKinds DEF ApprovalHolds
<1>4. tx'[t].kind # "reward" => RewardHolds(t)' BY RequestKinds DEF RewardHolds
<1>5. tx'[t].kind # "sweep" => SweepHolds(t)' BY RequestKinds DEF SweepHolds
<1>. QED BY <1>1, <1>2, <1>3, <1>4, <1>5

\* A step of t that touches only rows t has locked leaves all others as they are.
LEMMA OthersHold ==
  ASSUME LocksInv, TypeOK', NEW t \in Txs,
         \A s \in Txs \ {t} : StandsStill(s) /\ KeepsCalls(s),
         NEW H \in SUBSET held[t], OnlyTouches(H)
  PROVE  \A s \in Txs \ {t} : Holds(s)'
<1>. SUFFICES ASSUME NEW s \in Txs \ {t} PROVE Holds(s)' OBVIOUS
<1>1. held[s] \cap H = {} BY DEF LocksInv, HeldOnce
<1>. QED BY <1>1, BystanderHolds

\* Equal requests ask for the same.
LEMMA SameRequest ==
  ASSUME NEW a, NEW b, NEW c, NEW d
  PROVE  /\ PurchaseTx(a, b) = PurchaseTx(c, d) => a = c /\ b = d
         /\ ApproveTx(a, b) = ApproveTx(c, d) => a = c /\ b = d
         /\ RewardTx(a, b) = RewardTx(c, d) => a = c /\ b = d
<1>1. PurchaseTx(a, b) = PurchaseTx(c, d) => a = c /\ b = d BY DEF PurchaseTx
<1>2. ApproveTx(a, b) = ApproveTx(c, d) => a = c /\ b = d BY DEF ApproveTx
<1>3. RewardTx(a, b) = RewardTx(c, d) => a = c /\ b = d BY DEF RewardTx
<1>. QED BY <1>1, <1>2, <1>3

\* The end of a transaction that touched only rows it had locked.
LEMMA EndHolds ==
  ASSUME LocksInv, TypeOK', NEW t \in Txs, End(t),
         \A s \in Txs \ {t} : KeepsCalls(s),
         NEW H \in SUBSET held[t], OnlyTouches(H)
  PROVE  LocksTyped' /\ HeldOnce' /\ \A s \in Txs : Holds(s)'
<1>1. LocksTyped /\ HeldOnce BY DEF LocksInv
<1>2. LocksTyped'
  <2>1. Idle \in Requests /\ << >> \in Seq(Rows) BY DEF Requests
  <2>. QED BY <1>1, <2>1 DEF LocksTyped, End
<1>3. /\ tx'[t] = Idle /\ todo'[t] = << >> /\ held'[t] = {}
      /\ wallet'[t] = << >> /\ bal'[t] = << >>
  BY <1>1 DEF LocksTyped, End
<1>4. \A s \in Txs \ {t} : StandsStill(s) BY <1>1 DEF LocksTyped, End, StandsStill
<1>5. HeldOnce' BY <1>1, <1>3, <1>4 DEF HeldOnce, StandsStill
<1>6. Holds(t)' BY <1>3, IdleHolds
<1>7. \A s \in Txs \ {t} : Holds(s)' BY <1>4, OthersHold
<1>. QED BY <1>2, <1>5, <1>6, <1>7

\* When no row changes nobody loses a call.
LEMMA CallsKept ==
  ASSUME UNCHANGED vars
  PROVE  \A s \in Txs : KeepsCalls(s)
BY DEF KeepsCalls, vars

\* A request: t has all its rows still to lock.
LEMMA BeginFacts ==
  ASSUME LocksInv, TypeOK', NEW t \in Txs, NEW request \in Requests, request # Idle,
         NEW rows \in Seq(Rows), Begin(t, request, rows)
  PROVE  /\ LocksTyped' /\ HeldOnce' /\ \A s \in Txs \ {t} : Holds(s)'
         /\ tx'[t] = request /\ todo'[t] = rows /\ held'[t] = {}
         /\ Reached(t, rows, 0)' /\ ReadsCurrent(t)'
<1>1. LocksTyped /\ HeldOnce /\ Holds(t) /\ TypeOK BY DEF LocksInv
<1>2. LocksTyped' BY <1>1 DEF LocksTyped, Begin
<1>3. tx'[t] = request /\ todo'[t] = rows BY <1>1 DEF LocksTyped, Begin
<1>4. held[t] = {} BY <1>1 DEF Holds, IdleHoldsNothing, Begin
<1>5. UNCHANGED vars /\ held' = held /\ wallet' = wallet /\ bal' = bal BY DEF Begin
<1>6. HeldOnce' BY <1>1, <1>5 DEF HeldOnce
<1>7. \A s \in Txs \ {t} : Holds(s)'
  <2>1. \A s \in Txs \ {t} : StandsStill(s) BY <1>1, <1>5 DEF LocksTyped, Begin, StandsStill
  <2>2. OnlyTouches({}) BY <1>1, <1>5, NothingTouched
  <2>. QED BY <1>5, <2>1, <2>2, CallsKept, OthersHold
<1>8. Reached(t, rows, 0)' BY <1>3, RestZero DEF Reached
<1>9. ReadsCurrent(t)' BY <1>1, <1>4, <1>5 DEF Holds, ReadsCurrent
<1>. QED BY <1>2, <1>3, <1>4, <1>5, <1>6, <1>7, <1>8, <1>9

LEMMA BeginPurchaseHolds ==
  ASSUME LocksInv, TypeOK', NEW t \in Txs, NEW u \in Users, NEW batch \in Batches,
         BeginPurchase(t, u, batch)
  PROVE  LocksTyped' /\ HeldOnce' /\ \A s \in Txs : Holds(s)'
<1>. DEFINE rows == PurchaseRows(u, batch)
<1>1. PurchaseTx(u, batch) \in Requests /\ PurchaseTx(u, batch) # Idle
  BY RequestKinds DEF Requests
<1>2. rows \in Seq(Rows) /\ Len(batch) \in Nat \ {0} BY PurchaseRowsAre
<1>3. Begin(t, PurchaseTx(u, batch), rows) BY DEF BeginPurchase, PurchaseTx
<1>4. /\ LocksTyped' /\ HeldOnce' /\ \A s \in Txs \ {t} : Holds(s)'
      /\ tx'[t] = PurchaseTx(u, batch) /\ Reached(t, rows, 0)' /\ ReadsCurrent(t)'
  BY <1>1, <1>2, <1>3, BeginFacts
<1>5. PurchaseHolds(t)'
  <2>. SUFFICES ASSUME NEW w \in Users, NEW b \in Batches, tx'[t] = PurchaseTx(w, b)
                PROVE  \E k \in Nat :
                         /\ Reached(t, PurchaseRows(w, b), k)'
                         /\ k >= Len(b) => \A l \in InBatch(b) : Available(l)'
                         /\ k > Len(b) => CanPay(w, BatchPrice(b))'
    BY DEF PurchaseHolds
  <2>1. w = u /\ b = batch BY <1>4, SameRequest
  <2>2. ~(0 >= Len(b)) /\ ~(0 > Len(b)) BY <1>2, <2>1
  <2>. QED BY <1>4, <2>1, <2>2
<1>6. Holds(t)' BY <1>4, <1>5, OneKind, RequestKinds DEF Holds
<1>. QED BY <1>4, <1>6

LEMMA BeginApprovalHolds ==
  ASSUME LocksInv, TypeOK', NEW t \in Txs, NEW o \in 1..Len(orders), NEW requested \in Refunds,
         disputes[o].status # "none", BeginApproval(t, o, requested)
  PROVE  LocksTyped' /\ HeldOnce' /\ \A s \in Txs : Holds(s)'
<1>0. TypeOK /\ o \in Nat BY DEF LocksInv, TypeOK
<1>1. ApproveTx(o, requested) \in Requests /\ ApproveTx(o, requested) # Idle
  BY <1>0, RequestKinds DEF Requests
<1>2. PICK rows \in Seq(Rows) : rows = ApproveRows(o, requested) BY <1>0, ApproveRowsAre
<1>3. Begin(t, ApproveTx(o, requested), rows) BY <1>2 DEF BeginApproval, ApproveTx
<1>4. /\ LocksTyped' /\ HeldOnce' /\ \A s \in Txs \ {t} : Holds(s)'
      /\ tx'[t] = ApproveTx(o, requested) /\ Reached(t, rows, 0)' /\ ReadsCurrent(t)'
  BY <1>1, <1>2, <1>3, BeginFacts
<1>5. orders' = orders /\ disputes' = disputes BY <1>3 DEF Begin, vars
<1>6. ApprovalHolds(t)'
  <2>. SUFFICES ASSUME NEW p \in Nat, NEW q \in Refunds, tx'[t] = ApproveTx(p, q)
                PROVE  /\ p \in 1..Len(orders') /\ disputes'[p].status # "none"
                       /\ \E k \in Nat : /\ Reached(t, ApproveRows(p, q), k)'
                                         /\ k >= 1 => IsOpen(p)'
    BY DEF ApprovalHolds
  <2>1. p = o /\ q = requested BY <1>4, SameRequest
  <2>2. ApproveRows(o, requested)' = rows BY <1>2, <1>5 DEF ApproveRows
  <2>3. Reached(t, ApproveRows(p, q), 0)' BY <1>4, <2>1, <2>2 DEF Reached
  <2>4. ~(0 >= 1) OBVIOUS
  <2>. QED BY <1>5, <2>1, <2>3, <2>4
<1>7. Holds(t)' BY <1>4, <1>6, OneKind, RequestKinds DEF Holds
<1>. QED BY <1>4, <1>7

LEMMA BeginRewardHolds ==
  ASSUME LocksInv, TypeOK', NEW t \in Txs, NEW r \in Users, NEW u \in Users,
         BeginReward(t, r, u)
  PROVE  LocksTyped' /\ HeldOnce' /\ \A s \in Txs : Holds(s)'
<1>. DEFINE rows == RewardRows(r, u)
<1>1. RewardTx(r, u) \in Requests /\ RewardTx(r, u) # Idle BY RequestKinds DEF Requests
<1>2. rows \in Seq(Rows) BY RewardRowsAre
<1>3. Begin(t, RewardTx(r, u), rows) BY DEF BeginReward, RewardTx
<1>4. /\ LocksTyped' /\ HeldOnce' /\ \A s \in Txs \ {t} : Holds(s)'
      /\ tx'[t] = RewardTx(r, u) /\ Reached(t, rows, 0)' /\ ReadsCurrent(t)'
  BY <1>1, <1>2, <1>3, BeginFacts
<1>5. /\ u \in rewardTasks' /\ referrals'[r].status = "redeemed"
      /\ referrals'[r].referredUserId = u
  BY <1>3 DEF BeginReward, DueReferrals, Begin, vars
<1>6. RewardHolds(t)'
  <2>. SUFFICES ASSUME NEW q \in Users, NEW w \in Users, tx'[t] = RewardTx(q, w)
                PROVE  /\ referrals'[q].status \in {"redeemed", "rewarded"}
                       /\ referrals'[q].referredUserId = w
                       /\ referrals'[q].status = "redeemed" => w \in rewardTasks'
                       /\ \E k \in Nat : /\ Reached(t, RewardRows(q, w), k)'
                                         /\ k >= 1 => referrals'[q].status = "redeemed"
    BY DEF RewardHolds
  <2>1. q = r /\ w = u BY <1>4, SameRequest
  <2>. QED BY <1>4, <1>5, <2>1
<1>7. Holds(t)' BY <1>4, <1>6, OneKind, RequestKinds DEF Holds
<1>. QED BY <1>4, <1>7

LEMMA BeginSweepHolds ==
  ASSUME LocksInv, TypeOK', NEW t \in Txs, BeginSweep(t)
  PROVE  LocksTyped' /\ HeldOnce' /\ \A s \in Txs : Holds(s)'
<1>. DEFINE swept == {v \in Vendors : IsEligible(v)}
<1>1. PICK s \in SweepOrders(swept) :
        Begin(t, [kind |-> "sweep"], [i \in DOMAIN s |-> VendorRow(s[i])])
  BY DEF BeginSweep
<1>. DEFINE rows == [i \in DOMAIN s |-> VendorRow(s[i])]
<1>2. Cardinality(swept) \in Nat
  <2>1. IsFiniteSet(swept) BY LocksAssumption, FS_Subset
  <2>. QED BY <2>1, FS_CardinalityType
<1>3. DOMAIN s = 1..Cardinality(swept) /\ \A i \in DOMAIN s : s[i] \in Vendors
  BY DEF SweepOrders
<1>4. rows \in Seq(Rows) /\ Len(rows) = Cardinality(swept)
  <2>. DEFINE n == Cardinality(swept)
  <2>1. rows = [i \in 1..n |-> VendorRow(s[i])] /\ \A i \in 1..n : VendorRow(s[i]) \in Rows
    BY <1>3, RowsOf
  <2>. HIDE DEF n
  <2>2. n \in Nat BY <1>2 DEF n
  <2>3. [i \in 1..n |-> VendorRow(s[i])] \in Seq(Rows)
        /\ Len([i \in 1..n |-> VendorRow(s[i])]) = n
    BY <2>1, <2>2
  <2>. QED BY <2>1, <2>3 DEF n
<1>5. SweepTx \in Requests /\ SweepTx # Idle BY RequestKinds DEF Requests
<1>6. Begin(t, SweepTx, rows) BY <1>1 DEF SweepTx
<1>7. \A i \in 1..Len(rows) : \E v \in Vendors : rows[i] = VendorRow(v) BY <1>3, <1>4
<1>. HIDE DEF rows
<1>8. /\ LocksTyped' /\ HeldOnce' /\ \A x \in Txs \ {t} : Holds(x)'
      /\ tx'[t] = SweepTx /\ todo'[t] = rows /\ held'[t] = {} /\ ReadsCurrent(t)'
  BY <1>4, <1>5, <1>6, BeginFacts
<1>9. SweepHolds(t)' BY <1>7, <1>8 DEF SweepHolds
<1>10. Holds(t)' BY <1>8, <1>9, OneKind, RequestKinds DEF Holds
<1>. QED BY <1>8, <1>10

\* What passing the check on a row says.
LEMMA PassesMeans ==
  ASSUME NEW t \in Txs, NEW row, Passes(t, row)
  PROVE  /\ \A l : row = LeadRow(l) /\ l = tx[t].batch[Len(tx[t].batch)] =>
                     \A x \in InBatch(tx[t].batch) : Available(x)
         /\ \A u : row = UserRow(u) /\ tx[t].kind = "purchase" =>
                     CanPay(u, BatchPrice(tx[t].batch))
         /\ \A o : row = DisputeRowOf(o) => IsOpen(o)
         /\ \A r : row = ReferralRow(r) => referrals[r].status = "redeemed"
<1>1. ASSUME NEW l, row = LeadRow(l), l = tx[t].batch[Len(tx[t].batch)]
      PROVE  \A x \in InBatch(tx[t].batch) : Available(x)
  BY <1>1, RowParts DEF Passes
<1>2. ASSUME NEW u, row = UserRow(u), tx[t].kind = "purchase"
      PROVE  CanPay(u, BatchPrice(tx[t].batch))
  BY <1>2, RowParts DEF Passes, CanPay
<1>3. ASSUME NEW o, row = DisputeRowOf(o) PROVE IsOpen(o)
  BY <1>3, RowParts DEF Passes
<1>4. ASSUME NEW r, row = ReferralRow(r) PROVE referrals[r].status = "redeemed"
  BY <1>4, RowParts DEF Passes
<1>. QED BY <1>1, <1>2, <1>3, <1>4

\* One more row is locked.
LEMMA ReachedNext ==
  ASSUME NEW t \in Txs, NEW rows \in Seq(Rows), NEW k \in Nat, Reached(t, rows, k),
         todo[t] # << >>, todo'[t] = Tail(todo[t]), Head(todo[t]) \in held'[t],
         held[t] \subseteq held'[t]
  PROVE  /\ k + 1 \in 1..Len(rows) /\ Head(todo[t]) = rows[k + 1]
         /\ Reached(t, rows, k + 1)'
<1>1. k \in 0..Len(rows) /\ todo[t] = Rest(rows, k) /\ \A i \in 1..k : rows[i] \in held[t]
  BY DEF Reached
<1>2. k # Len(rows) BY <1>1, RestFacts
<1>3. /\ k + 1 \in 1..Len(rows) /\ Head(todo[t]) = rows[k + 1]
      /\ todo'[t] = Rest(rows, k + 1)
  BY <1>1, <1>2, RestFacts
<1>4. \A i \in 1..(k + 1) : rows[i] \in held'[t]
  <2>. SUFFICES ASSUME NEW i \in 1..(k + 1) PROVE rows[i] \in held'[t] OBVIOUS
  <2>1. i \in 1..k \/ i = k + 1 OBVIOUS
  <2>. QED BY <1>1, <1>3, <2>1
<1>5. k + 1 \in 0..Len(rows) BY <1>3
<1>. QED BY <1>3, <1>4, <1>5 DEF Reached

\* What LockRow does whatever the request.
LEMMA LockRowFacts ==
  ASSUME LocksInv, TypeOK', NEW t \in Txs, LockRow(t)
  PROVE  /\ LocksTyped' /\ HeldOnce' /\ ReadsCurrent(t)' /\ \A s \in Txs \ {t} : Holds(s)'
         /\ tx' = tx /\ UNCHANGED vars
         /\ tx[t] # Idle /\ todo[t] # << >> /\ todo[t] \in Seq(Rows)
         /\ todo'[t] = Tail(todo[t]) /\ held'[t] = held[t] \cup {Head(todo[t])}
         /\ Passes(t, Head(todo[t]))
         /\ tx[t].kind = "sweep" => IsEligible(Head(todo[t])[2])
<1>. DEFINE row == Head(todo[t])
<1>1. LocksTyped /\ HeldOnce /\ Holds(t) /\ TypeOK BY DEF LocksInv
<1>2. /\ todo[t] # << >> /\ ~Blocked(t, row) /\ Passes(t, row)
      /\ tx[t].kind = "sweep" => IsEligible(row[2])
      /\ UNCHANGED vars /\ tx' = tx
  BY DEF LockRow
<1>3. todo[t] \in Seq(Rows) /\ row \in Rows /\ Tail(todo[t]) \in Seq(Rows)
  BY <1>1, <1>2 DEF LocksTyped
<1>4. tx[t] # Idle BY <1>1, <1>2 DEF Holds, IdleHoldsNothing
<1>5. /\ todo'[t] = Tail(todo[t]) /\ held'[t] = held[t] \cup {row}
      /\ \A s \in Txs \ {t} : todo'[s] = todo[s] /\ held'[s] = held[s]
  BY <1>1 DEF LocksTyped, LockRow, ForUpdate
<1>6. LocksTyped'
  <2>1. tx' \in [Txs -> Requests] BY <1>1, <1>2 DEF LocksTyped
  <2>2. todo' \in [Txs -> Seq(Rows)] BY <1>1, <1>3 DEF LocksTyped, LockRow
  <2>3. held' \in [Txs -> SUBSET Rows] BY <1>1, <1>3 DEF LocksTyped, LockRow, ForUpdate
  <2>4. DOMAIN wallet' = Txs /\ DOMAIN bal' = Txs BY <1>1 DEF LocksTyped, LockRow
  <2>. QED BY <2>1, <2>2, <2>3, <2>4 DEF LocksTyped
<1>7. HeldOnce'
  <2>1. \A s \in Txs \ {t} : row \notin held[s] BY <1>2 DEF Blocked
  <2>. HIDE DEF row
  <2>. QED BY <1>1, <1>5, <2>1 DEF HeldOnce
<1>8. \A s \in Txs \ {t} : Holds(s)'
  <2>1. \A s \in Txs \ {t} : wallet'[s] = wallet[s] /\ bal'[s] = bal[s]
    BY <1>1 DEF LocksTyped, LockRow
  <2>2. \A s \in Txs \ {t} : StandsStill(s) BY <1>2, <1>5, <2>1 DEF StandsStill
  <2>3. OnlyTouches({}) BY <1>1, <1>2, NothingTouched
  <2>. QED BY <1>2, <2>2, <2>3, CallsKept, OthersHold
<1>9. ReadsCurrent(t)'
  <2>1. /\ DOMAIN wallet[t] = {u \in Users : UserRow(u) \in held[t]}
        /\ \A u \in Users : UserRow(u) \in held[t] => wallet[t][u] = balance[u]
        /\ DOMAIN bal[t] = {v \in Vendors : VendorRow(v) \in held[t]}
        /\ \A v \in Vendors : VendorRow(v) \in held[t] => bal[t][v] = vendorBalances[v]
    BY <1>1 DEF Holds, ReadsCurrent
  <2>2. balance' = balance /\ vendorBalances' = vendorBalances BY <1>2 DEF vars
  <2>3. /\ row[1] = "user" => wallet'[t] = Extend(wallet[t], row[2], balance[row[2]])
        /\ row[1] # "user" => wallet'[t] = wallet[t]
        /\ row[1] = "vendor" => bal'[t] = Extend(bal[t], row[2], vendorBalances[row[2]])
        /\ row[1] # "vendor" => bal'[t] = bal[t]
    BY <1>1 DEF LocksTyped, LockRow
  <2>4. /\ row[1] = "user" <=> \E u \in Users : row = UserRow(u)
        /\ row[1] = "vendor" <=> \E v \in Vendors : row = VendorRow(v)
    BY <1>3, RowOfTable
  <2>. HIDE DEF row
  <2>5. /\ DOMAIN wallet'[t] = {u \in Users : UserRow(u) \in held'[t]}
        /\ \A u \in Users : UserRow(u) \in held'[t] => wallet'[t][u] = balance'[u]
    <3>1. CASE row[1] = "user"
      <4>1. PICK u \in Users : row = UserRow(u) BY <2>4, <3>1
      <4>2. row[2] = u BY <4>1, RowParts
      <4>3. wallet'[t] = Extend(wallet[t], u, balance[u]) BY <2>3, <3>1, <4>2
      <4>4. \A w \in Users : UserRow(w) \in held'[t] <=> w = u \/ UserRow(w) \in held[t]
        BY <1>5, <4>1, RowsDiffer
      <4>. QED BY <2>1, <2>2, <4>3, <4>4 DEF Extend
    <3>2. CASE row[1] # "user"
      <4>1. \A w \in Users : UserRow(w) \in held'[t] <=> UserRow(w) \in held[t]
        BY <1>5, <2>4, <3>2
      <4>. QED BY <2>1, <2>2, <2>3, <3>2, <4>1
    <3>. QED BY <3>1, <3>2
  <2>6. /\ DOMAIN bal'[t] = {v \in Vendors : VendorRow(v) \in held'[t]}
        /\ \A v \in Vendors : VendorRow(v) \in held'[t] => bal'[t][v] = vendorBalances'[v]
    <3>1. CASE row[1] = "vendor"
      <4>1. PICK v \in Vendors : row = VendorRow(v) BY <2>4, <3>1
      <4>2. row[2] = v BY <4>1, RowParts
      <4>3. bal'[t] = Extend(bal[t], v, vendorBalances[v]) BY <2>3, <3>1, <4>2
      <4>4. \A w \in Vendors : VendorRow(w) \in held'[t] <=> w = v \/ VendorRow(w) \in held[t]
        BY <1>5, <4>1, RowsDiffer
      <4>. QED BY <2>1, <2>2, <4>3, <4>4 DEF Extend
    <3>2. CASE row[1] # "vendor"
      <4>1. \A w \in Vendors : VendorRow(w) \in held'[t] <=> VendorRow(w) \in held[t]
        BY <1>5, <2>4, <3>2
      <4>. QED BY <2>1, <2>2, <2>3, <3>2, <4>1
    <3>. QED BY <3>1, <3>2
  <2>. QED BY <2>5, <2>6 DEF ReadsCurrent
<1>. HIDE DEF row
<1>10. Passes(t, row) /\ (tx[t].kind = "sweep" => IsEligible(row[2])) BY <1>2
<1>. QED BY <1>2, <1>3, <1>4, <1>5, <1>6, <1>7, <1>8, <1>9, <1>10 DEF row

LEMMA LockRowHolds ==
  ASSUME LocksInv, TypeOK', NEW t \in Txs, LockRow(t)
  PROVE  LocksTyped' /\ HeldOnce' /\ \A s \in Txs : Holds(s)'
<1>. DEFINE row == Head(todo[t])
<1>1. Holds(t) /\ TypeOK /\ tx[t] \in Requests BY DEF LocksInv, LocksTyped
<1>2. /\ LocksTyped' /\ HeldOnce' /\ ReadsCurrent(t)' /\ \A s \in Txs \ {t} : Holds(s)'
      /\ tx' = tx /\ UNCHANGED vars
      /\ tx[t] # Idle /\ todo[t] # << >> /\ todo[t] \in Seq(Rows)
      /\ todo'[t] = Tail(todo[t]) /\ held'[t] = held[t] \cup {row}
      /\ Passes(t, row)
      /\ tx[t].kind = "sweep" => IsEligible(row[2])
  BY LockRowFacts
<1>3. row \in held'[t] /\ held[t] \subseteq held'[t] BY <1>2
<1>4. /\ balance' = balance /\ orders' = orders /\ disputes' = disputes
      /\ referrals' = referrals /\ rewardTasks' = rewardTasks
      /\ vendorBalances' = vendorBalances
  BY <1>2 DEF vars
<1>5. \A l : Available(l)' <=> Available(l) BY <1>2 DEF vars, Available
<1>6. \A u, cents : CanPay(u, cents)' <=> CanPay(u, cents)
  BY <1>2 DEF vars, CanPay, WithinSpendCap, CapsOf, Spend
<1>. HIDE DEF row
<1>7. ASSUME NEW u \in Users, NEW batch \in Batches, tx[t] = PurchaseTx(u, batch)
      PROVE  Holds(t)'
  <2>. DEFINE rows == PurchaseRows(u, batch)
              n == Len(batch)
  <2>1. PICK k \in Nat :
          /\ Reached(t, rows, k)
          /\ k >= n => \A l \in InBatch(batch) : Available(l)
          /\ k > n => CanPay(u, BatchPrice(batch))
    BY <1>1, <1>7 DEF Holds, PurchaseHolds
  <2>2. /\ rows \in Seq(Rows) /\ n \in Nat \ {0} /\ rows[n + 1] = UserRow(u)
        /\ \A i \in 1..n : rows[i] = LeadRow(batch[i])
    BY PurchaseRowsAre
  <2>3. row = rows[k + 1] /\ Reached(t, rows, k + 1)'
    BY <1>2, <1>3, <2>1, <2>2, ReachedNext DEF row
  <2>4. /\ tx[t].batch = batch /\ tx[t].kind = "purchase" BY <1>7, RequestKinds
  <2>5. ASSUME k + 1 >= n, NEW l \in InBatch(batch) PROVE Available(l)
    <3>1. CASE k >= n BY <2>1, <2>5, <3>1
    <3>2. CASE ~(k >= n)
      <4>1. k + 1 = n /\ n \in 1..n BY <2>2, <2>5, <3>2
      <4>2. row = LeadRow(batch[n]) BY <2>2, <2>3, <4>1
      <4>3. \A x \in InBatch(tx[t].batch) : Available(x)
        BY <1>2, <2>4, <4>2, PassesMeans
      <4>. QED BY <2>4, <2>5, <4>3
    <3>. QED BY <3>1, <3>2
  <2>6. ASSUME k + 1 > n PROVE CanPay(u, BatchPrice(batch))
    <3>1. CASE k > n BY <2>1, <3>1
    <3>2. CASE ~(k > n)
      <4>1. k = n BY <2>2, <2>6, <3>2
      <4>2. row = UserRow(u) BY <2>2, <2>3, <4>1
      <4>. QED BY <1>2, <2>4, <4>2, PassesMeans
    <3>. QED BY <3>1, <3>2
  <2>. HIDE DEF rows
  <2>7. PurchaseHolds(t)'
    <3>. SUFFICES ASSUME NEW w \in Users, NEW b \in Batches, tx'[t] = PurchaseTx(w, b)
                  PROVE  \E j \in Nat :
                           /\ Reached(t, PurchaseRows(w, b), j)'
                           /\ j >= Len(b) => \A l \in InBatch(b) : Available(l)'
                           /\ j > Len(b) => CanPay(w, BatchPrice(b))'
      BY DEF PurchaseHolds
    <3>1. w = u /\ b = batch BY <1>2, <1>7, SameRequest
    <3>2. k + 1 \in Nat BY <2>1
    <3>3. Reached(t, PurchaseRows(w, b), k + 1)' BY <2>3, <3>1 DEF rows
    <3>4. k + 1 >= Len(b) => \A l \in InBatch(b) : Available(l)' BY <1>5, <2>5, <3>1
    <3>5. k + 1 > Len(b) => CanPay(w, BatchPrice(b))' BY <1>6, <2>6, <3>1
    <3>. QED BY <3>2, <3>3, <3>4, <3>5
  <2>8. tx'[t].kind = "purchase" BY <1>2, <2>4
  <2>. QED BY <1>2, <2>7, <2>8, OneKind DEF Holds
<1>8. ASSUME NEW o \in Nat, NEW requested \in Refunds, tx[t] = ApproveTx(o, requested)
      PROVE  Holds(t)'
  <2>1. o \in 1..Len(orders) /\ disputes[o].status # "none"
    BY <1>1, <1>8 DEF Holds, ApprovalHolds
  <2>2. PICK k \in Nat : Reached(t, ApproveRows(o, requested), k) /\ (k >= 1 => IsOpen(o))
    BY <1>1, <1>8 DEF Holds, ApprovalHolds
  <2>3. PICK rows \in Seq(Rows) : /\ rows = ApproveRows(o, requested)
                                  /\ rows[1] = DisputeRowOf(o)
    BY <1>1, <2>1, ApproveRowsAre
  <2>4. ApproveRows(o, requested)' = rows BY <1>4, <2>3 DEF ApproveRows
  <2>5. Reached(t, rows, k) BY <2>2, <2>3
  <2>6. row = rows[k + 1] /\ Reached(t, rows, k + 1)'
    BY <1>2, <1>3, <2>5, ReachedNext DEF row
  <2>7. IsOpen(o)
    <3>1. CASE k >= 1 BY <2>2, <3>1
    <3>2. CASE ~(k >= 1)
      <4>1. k + 1 = 1 BY <3>2
      <4>2. row = DisputeRowOf(o) BY <2>3, <2>6, <4>1
      <4>. QED BY <1>2, <4>2, PassesMeans
    <3>. QED BY <3>1, <3>2
  <2>8. ApprovalHolds(t)'
    <3>. SUFFICES ASSUME NEW p \in Nat, NEW q \in Refunds, tx'[t] = ApproveTx(p, q)
                  PROVE  /\ p \in 1..Len(orders') /\ disputes'[p].status # "none"
                         /\ \E j \in Nat : /\ Reached(t, ApproveRows(p, q), j)'
                                           /\ j >= 1 => IsOpen(p)'
      BY DEF ApprovalHolds
    <3>1. p = o /\ q = requested BY <1>2, <1>8, SameRequest
    <3>2. k + 1 \in Nat BY <2>2
    <3>3. Reached(t, ApproveRows(p, q), k + 1)' BY <2>4, <2>6, <3>1 DEF Reached
    <3>4. IsOpen(p)' BY <1>4, <2>7, <3>1 DEF IsOpen
    <3>. QED BY <1>4, <2>1, <3>1, <3>2, <3>3, <3>4
  <2>9. tx'[t].kind = "approve" BY <1>2, <1>8, RequestKinds
  <2>. QED BY <1>2, <2>8, <2>9, OneKind DEF Holds
<1>9. ASSUME NEW r \in Users, NEW u \in Users, tx[t] = RewardTx(r, u)
      PROVE  Holds(t)'
  <2>. DEFINE rows == RewardRows(r, u)
  <2>1. /\ referrals[r].status \in {"redeemed", "rewarded"} /\ referrals[r].referredUserId = u
        /\ referrals[r].status = "redeemed" => u \in rewardTasks
    BY <1>1, <1>9 DEF Holds, RewardHolds
  <2>2. PICK k \in Nat : Reached(t, rows, k) /\ (k >= 1 => referrals[r].status = "redeemed")
    BY <1>1, <1>9 DEF Holds, RewardHolds
  <2>3. rows \in Seq(Rows) /\ rows[1] = ReferralRow(r) BY RewardRowsAre
  <2>. HIDE DEF rows
  <2>4. row = rows[k + 1] /\ Reached(t, rows, k + 1)'
    BY <1>2, <1>3, <2>2, <2>3, ReachedNext DEF row
  <2>5. referrals[r].status = "redeemed"
    <3>1. CASE k >= 1 BY <2>2, <3>1
    <3>2. CASE ~(k >= 1)
      <4>1. k + 1 = 1 BY <3>2
      <4>2. row = ReferralRow(r) BY <2>3, <2>4, <4>1
      <4>. QED BY <1>2, <4>2, PassesMeans
    <3>. QED BY <3>1, <3>2
  <2>6. RewardHolds(t)'
    <3>. SUFFICES ASSUME NEW q \in Users, NEW w \in Users, tx'[t] = RewardTx(q, w)
                  PROVE  /\ referrals'[q].status \in {"redeemed", "rewarded"}
                         /\ referrals'[q].referredUserId = w
                         /\ referrals'[q].status = "redeemed" => w \in rewardTasks'
                         /\ \E j \in Nat : /\ Reached(t, RewardRows(q, w), j)'
                                           /\ j >= 1 => referrals'[q].status = "redeemed"
      BY DEF RewardHolds
    <3>1. q = r /\ w = u BY <1>2, <1>9, SameRequest
    <3>2. k + 1 \in Nat BY <2>2
    <3>3. Reached(t, RewardRows(q, w), k + 1)' BY <2>4, <3>1 DEF rows
    <3>. QED BY <1>4, <2>1, <2>5, <3>1, <3>2, <3>3
  <2>7. tx'[t].kind = "reward" BY <1>2, <1>9, RequestKinds
  <2>. QED BY <1>2, <2>6, <2>7, OneKind DEF Holds
<1>10. ASSUME tx[t] = SweepTx PROVE Holds(t)'
  <2>1. /\ \A i \in 1..Len(todo[t]) : \E v \in Vendors : todo[t][i] = VendorRow(v)
        /\ \A x \in held[t] : \E v \in Vendors : x = VendorRow(v) /\ IsEligible(v)
    BY <1>1, <1>10 DEF Holds, SweepHolds
  <2>2. Len(todo[t]) \in Nat \ {0} /\ row = todo[t][1] BY <1>2 DEF row
  <2>3. PICK v \in Vendors : row = VendorRow(v)
    <3>1. 1 \in 1..Len(todo[t]) BY <2>2
    <3>. QED BY <2>1, <2>2, <3>1
  <2>4. IsEligible(v)
    <3>1. row[2] = v /\ tx[t].kind = "sweep" BY <1>10, <2>3, RowParts, RequestKinds
    <3>. QED BY <1>2, <3>1
  <2>5. \A i \in 1..Len(todo'[t]) : \E w \in Vendors : todo'[t][i] = VendorRow(w)
    <3>. SUFFICES ASSUME NEW i \in 1..Len(todo'[t])
                  PROVE  \E w \in Vendors : todo'[t][i] = VendorRow(w)
      OBVIOUS
    <3>1. i + 1 \in 1..Len(todo[t]) /\ todo'[t][i] = todo[t][i + 1] BY <1>2, <2>2
    <3>. QED BY <2>1, <3>1
  <2>6. \A w \in Vendors : IsEligible(w)' <=> IsEligible(w) BY <1>4 DEF IsEligible
  <2>7. \A x \in held'[t] : \E w \in Vendors : x = VendorRow(w) /\ IsEligible(w)'
    BY <1>2, <2>1, <2>3, <2>4, <2>6
  <2>8. SweepHolds(t)' BY <2>5, <2>7 DEF SweepHolds
  <2>9. tx'[t].kind = "sweep" BY <1>2, <1>10, RequestKinds
  <2>. QED BY <1>2, <2>8, <2>9, OneKind DEF Holds
<1>11. Holds(t)' BY <1>1, <1>2, <1>7, <1>8, <1>9, <1>10, RequestCases
<1>. QED BY <1>2, <1>11

\* A sweep drops a row that is no longer eligible.
LEMMA SkipRowHolds ==
  ASSUME LocksInv, TypeOK', NEW t \in Txs, SkipRow(t)
  PROVE  LocksTyped' /\ HeldOnce' /\ \A s \in Txs : Holds(s)'
<1>1. LocksTyped /\ HeldOnce /\ Holds(t) /\ TypeOK BY DEF LocksInv
<1>2. /\ todo[t] # << >> /\ tx[t].kind = "sweep"
      /\ UNCHANGED << vars, tx, held, wallet, bal >>
  BY DEF SkipRow
<1>3. todo[t] \in Seq(Rows) BY <1>1 DEF LocksTyped
<1>4. /\ todo'[t] = Tail(todo[t])
      /\ \A s \in Txs \ {t} : todo'[s] = todo[s]
  BY <1>1 DEF LocksTyped, SkipRow
<1>5. LocksTyped' BY <1>1, <1>2, <1>3 DEF LocksTyped, SkipRow
<1>6. HeldOnce' BY <1>1, <1>2 DEF HeldOnce
<1>7. \A s \in Txs \ {t} : Holds(s)'
  <2>1. \A s \in Txs \ {t} : StandsStill(s) BY <1>2, <1>4 DEF StandsStill
  <2>2. OnlyTouches({}) BY <1>1, <1>2, NothingTouched
  <2>. QED BY <1>2, <2>1, <2>2, CallsKept, OthersHold
<1>8. tx[t] = SweepTx
  <2>1. tx[t] \in Requests BY <1>1 DEF LocksTyped
  <2>. QED BY <1>2, <2>1, RequestCases, RequestKinds
<1>9. /\ \A i \in 1..Len(todo[t]) : \E v \in Vendors : todo[t][i] = VendorRow(v)
      /\ \A x \in held[t] : \E v \in Vendors : x = VendorRow(v) /\ IsEligible(v)
  BY <1>1, <1>8 DEF Holds, SweepHolds
<1>10. \A i \in 1..Len(todo'[t]) : \E w \in Vendors : todo'[t][i] = VendorRow(w)
  <2>. SUFFICES ASSUME NEW i \in 1..Len(todo'[t])
                PROVE  \E w \in Vendors : todo'[t][i] = VendorRow(w)
    OBVIOUS
  <2>1. Len(todo[t]) \in Nat \ {0} BY <1>2, <1>3
  <2>2. i + 1 \in 1..Len(todo[t]) /\ todo'[t][i] = todo[t][i + 1] BY <1>3, <1>4, <2>1
  <2>. QED BY <1>9, <2>2
<1>11. \A w \in Vendors : IsEligible(w)' <=> IsEligible(w) BY <1>2 DEF IsEligible, vars
<1>12. SweepHolds(t)' BY <1>2, <1>9, <1>10, <1>11 DEF SweepHolds
<1>13. ReadsCurrent(t)' BY <1>1, <1>2 DEF Holds, ReadsCurrent, vars
<1>14. tx'[t].kind = "sweep" BY <1>2
<1>15. Holds(t)' BY <1>12, <1>13, <1>14, OneKind DEF Holds
<1>. QED BY <1>5, <1>6, <1>7, <1>15

\* A reward call that is forgotten was the last one for its buyer.
LEMMA ForgetHolds ==
  ASSUME LocksInv, TypeOK', NEW t \in Txs, Forget(t), End(t)
  PROVE  LocksTyped' /\ HeldOnce' /\ \A s \in Txs : Holds(s)'
<1>1. TypeOK BY DEF LocksInv
<1>2. {} \in SUBSET held[t] OBVIOUS
<1>3. CASE UNCHANGED vars
  <2>1. OnlyTouches({}) BY <1>1, <1>3, NothingTouched
  <2>2. \A s \in Txs \ {t} : KeepsCalls(s) BY <1>3, CallsKept
  <2>. QED BY <1>2, <2>1, <2>2, EndHolds
<1>4. CASE LastCall(t) /\ LoseRewardTasks({tx[t].user})
  <2>1. OnlyTouches({}) BY <1>1, <1>4, LossTouches
  <2>2. ASSUME NEW s \in Txs \ {t} PROVE KeepsCalls(s)
    <3>. SUFFICES ASSUME NEW r \in Users, NEW u \in Users, tx[s] = RewardTx(r, u),
                         u \in rewardTasks
                  PROVE  u \in rewardTasks'
      BY DEF KeepsCalls
    <3>1. tx[s].kind = "reward" /\ tx[s].user = u BY RequestKinds
    <3>2. u # tx[t].user BY <1>4, <3>1 DEF LastCall
    <3>. QED BY <1>4, <3>2 DEF LoseRewardTasks
  <2>. QED BY <1>2, <2>1, <2>2, EndHolds
<1>. QED BY <1>3, <1>4, Forgets

\* A step that leaves rewardTasks alone, or adds to it, loses no call.
LEMMA CallsGrow ==
  ASSUME rewardTasks \subseteq rewardTasks'
  PROVE  \A s \in Txs : KeepsCalls(s)
BY DEF KeepsCalls

LEMMA CommitHolds ==
  ASSUME LocksInv, TypeOK', NEW t \in Txs, Commit(t)
  PROVE  LocksTyped' /\ HeldOnce' /\ \A s \in Txs : Holds(s)'
<1>. DEFINE Goal == LocksTyped' /\ HeldOnce' /\ \A s \in Txs : Holds(s)'
<1>. SUFFICES Goal OBVIOUS
<1>1. TypeOK /\ RedemptionsSound /\ tx[t] \in Requests /\ tx[t] # Idle /\ End(t)
  BY DEF LocksInv, LocksTyped, Commit
<1>2. held[t] \in SUBSET held[t] /\ {} \in SUBSET held[t] OBVIOUS
<1>3. ASSUME NEW u \in Users, NEW batch \in Batches, tx[t] = PurchaseTx(u, batch) PROVE Goal
  <2>1. /\ Purchase(u, batch) /\ UserRow(u) \in held[t]
        /\ \A i \in 1..Len(batch) : /\ LeadRow(batch[i]) \in held[t]
                                    /\ SaleRow(batch[i]) \in held[t]
    BY <1>3, PurchaseCommits
  <2>2. IsBatch(batch) BY BatchFacts
  <2>3. OnlyTouches(held[t]) BY <1>1, <2>1, <2>2, PurchaseTouches
  <2>4. rewardTasks \subseteq rewardTasks' BY <2>1 DEF Purchase, RecordPurchase
  <2>. QED BY <1>1, <1>2, <2>3, <2>4, CallsGrow, EndHolds
<1>4. ASSUME NEW o \in Nat, NEW requested \in Refunds, tx[t] = ApproveTx(o, requested)
      PROVE  Goal
  <2>. DEFINE refund == ClampRefundCents(requested, orders[o].price)
  <2>1. /\ o \in 1..Len(orders) /\ ApproveDispute(o, requested) /\ DisputeRowOf(o) \in held[t]
        /\ refund > 0 => UserRow(orders[o].userId) \in held[t]
        /\ VendorDebit(refund) > 0 => VendorRow(VendorOf[orders[o].leadId]) \in held[t]
    BY <1>4, ApprovalCommits
  <2>2. OnlyTouches(held[t]) BY <1>1, <2>1, ApprovalTouches
  <2>3. rewardTasks' = rewardTasks BY <2>1 DEF ApproveDispute, RecordApproval
  <2>4. \A s \in Txs : KeepsCalls(s) BY <2>3, CallsGrow
  <2>. QED BY <1>1, <1>2, <2>2, <2>4, EndHolds
<1>5. ASSUME NEW r \in Users, NEW u \in Users, tx[t] = RewardTx(r, u) PROVE Goal
  <2>1. /\ RewardReferral(u) /\ DueReferrals(u) = {r}
        /\ ReferralRow(r) \in held[t] /\ UserRow(r) \in held[t] /\ UserRow(u) \in held[t]
    BY <1>5, RewardCommits
  <2>2. OnlyTouches(held[t])
    <3>1. \A q \in DueReferrals(u) : {ReferralRow(q), UserRow(q), UserRow(u)} \subseteq held[t]
      BY <2>1
    <3>. QED BY <1>1, <2>1, <3>1, RewardTouches
  <2>3. ASSUME NEW s \in Txs PROVE KeepsCalls(s)
    <3>. SUFFICES ASSUME NEW q \in Users, NEW w \in Users, tx[s] = RewardTx(q, w),
                         referrals[q].status = "redeemed", referrals'[q].status = "redeemed",
                         w \in rewardTasks
                  PROVE  w \in rewardTasks'
      BY DEF KeepsCalls
    <3>1. referrals[q].referredUserId = w BY DEF LocksInv, Holds, RewardHolds
    <3>2. referrals[r].referredUserId = u BY <2>1 DEF DueReferrals
    <3>3. referrals'[r].status = "rewarded"
      <4>1. referrals[r] \in ReferralSlot BY <1>1 DEF TypeOK
      <4>2. referrals'[r] = [referrals[r] EXCEPT !.status = "rewarded"]
        BY <2>1 DEF RewardReferral, PayRewards
      <4>. QED BY <4>1, <4>2 DEF ReferralSlot
    <3>4. w # u
      <4>. SUFFICES ASSUME w = u PROVE FALSE OBVIOUS
      <4>1. u # NULL BY MarketAssumption
      <4>2. q = r BY <1>1, <3>1, <3>2, <4>1 DEF RedemptionsSound
      <4>. QED BY <3>3, <4>2
    <3>. QED BY <2>1, <3>4 DEF RewardReferral, PayRewards
  <2>. QED BY <1>1, <1>2, <2>2, <2>3, EndHolds
<1>6. ASSUME tx[t] = SweepTx PROVE Goal
  <2>1. CASE UNCHANGED vars
    <3>1. OnlyTouches({}) BY <1>1, <2>1, NothingTouched
    <3>2. \A s \in Txs : KeepsCalls(s) BY <2>1, CallsKept
    <3>. QED BY <1>1, <1>2, <3>1, <3>2, EndHolds
  <2>2. ASSUME NEW swept \in SUBSET Vendors, SweepVendorPayouts(swept),
               \A v \in swept : VendorRow(v) \in held[t]
        PROVE  Goal
    <3>1. OnlyTouches(held[t]) BY <1>1, <2>2, SweepTouches
    <3>2. rewardTasks' = rewardTasks BY <2>2 DEF SweepVendorPayouts, RecordPayouts
    <3>3. \A s \in Txs : KeepsCalls(s) BY <3>2, CallsGrow
    <3>. QED BY <1>1, <1>2, <3>1, <3>3, EndHolds
  <2>. HIDE DEF Goal
  <2>. QED BY <1>6, <2>1, <2>2, SweepCommits
<1>. HIDE DEF Goal
<1>. QED BY <1>1, <1>3, <1>4, <1>5, <1>6, RequestCases

\* A step outside the transactions, which touches no locked row.
LEMMA OutsideHolds ==
  ASSUME LocksInv, TypeOK', UNCHANGED lockVars, \A s \in Txs : KeepsCalls(s),
         NEW H, \A s \in Txs : held[s] \cap H = {}, OnlyTouches(H)
  PROVE  LocksTyped' /\ HeldOnce' /\ \A s \in Txs : Holds(s)'
<1>1. UNCHANGED << tx, todo, held, wallet, bal >> BY DEF lockVars
<1>2. LocksTyped /\ HeldOnce BY DEF LocksInv
<1>3. LocksTyped' BY <1>1, <1>2 DEF LocksTyped
<1>4. HeldOnce' BY <1>1, <1>2 DEF HeldOnce
<1>5. \A s \in Txs : StandsStill(s) BY <1>1 DEF StandsStill
<1>6. \A s \in Txs : Holds(s)' BY <1>5, BystanderHolds
<1>. QED BY <1>3, <1>4, <1>6

\* A call that finds nothing to pay: nobody else has one to pay for that buyer.
LEMMA RewardNothingHolds ==
  ASSUME LocksInv, TypeOK', NEW u \in Users, RewardNothing(u)
  PROVE  LocksTyped' /\ HeldOnce' /\ \A s \in Txs : Holds(s)'
<1>1. /\ DueReferrals(u) = {} /\ RewardReferral(u) /\ UNCHANGED lockVars /\ TypeOK
  BY DEF RewardNothing, LocksInv
<1>2. OnlyTouches({})
  <2>1. \A r \in DueReferrals(u) : {ReferralRow(r), UserRow(r), UserRow(u)} \subseteq {}
    BY <1>1
  <2>. QED BY <1>1, <2>1, RewardTouches
<1>3. ASSUME NEW s \in Txs PROVE KeepsCalls(s)
  <2>. SUFFICES ASSUME NEW r \in Users, NEW w \in Users, tx[s] = RewardTx(r, w),
                       referrals[r].status = "redeemed", w \in rewardTasks
                PROVE  w \in rewardTasks'
    BY DEF KeepsCalls
  <2>1. referrals[r].referredUserId = w BY DEF LocksInv, Holds, RewardHolds
  <2>2. referrals[r] \in ReferralSlot BY <1>1 DEF TypeOK
  <2>3. referrals[r] = [status |-> "redeemed", referredUserId |-> w]
    BY <2>1, <2>2 DEF ReferralSlot
  <2>4. w # u BY <1>1, <2>3 DEF DueReferrals
  <2>. QED BY <1>1, <2>4 DEF RewardReferral, PayRewards
<1>4. \A s \in Txs : held[s] \cap {} = {} OBVIOUS
<1>. QED BY <1>1, <1>2, <1>3, <1>4, OutsideHolds

LEMMA StatementHolds ==
  ASSUME LocksInv, TypeOK', Statement
  PROVE  LocksTyped' /\ HeldOnce' /\ \A s \in Txs : Holds(s)'
<1>1. TypeOK BY DEF LocksInv
<1>2. PICK H : (\A t \in Txs : held[t] \cap H = {}) /\ OnlyTouches(H)
  BY <1>1, StatementTouches
<1>3. UNCHANGED lockVars /\ rewardTasks' = rewardTasks BY <1>1, StatementTouches
<1>4. \A s \in Txs : KeepsCalls(s) BY <1>3, CallsGrow
<1>. QED BY <1>2, <1>3, <1>4, OutsideHolds

\* All connections are idle again.
LEMMA AllIdleHold ==
  ASSUME tx' = [t \in Txs |-> Idle], todo' = [t \in Txs |-> << >>], held' = [t \in Txs |-> {}],
         wallet' = [t \in Txs |-> << >>], bal' = [t \in Txs |-> << >>]
  PROVE  LocksTyped' /\ HeldOnce' /\ \A s \in Txs : Holds(s)'
<1>1. Idle \in Requests /\ << >> \in Seq(Rows) BY DEF Requests
<1>2. LocksTyped' BY <1>1 DEF LocksTyped
<1>3. HeldOnce' BY DEF HeldOnce
<1>4. \A s \in Txs : Holds(s)' BY IdleHolds
<1>. QED BY <1>2, <1>3, <1>4

LEMMA LocksStep ==
  ASSUME LocksInv, [LockNext]_allVars
  PROVE  LocksInv'
<1>1. [Next]_vars BY LockStepIsMarketStep
<1>2. TypeOK /\ RedemptionsSound BY DEF LocksInv
<1>3. TypeOK' BY <1>1, <1>2, TypeStep
<1>4. RedemptionsSound' BY <1>1, <1>2, RedemptionsStep
<1>. DEFINE Goal == LocksTyped' /\ HeldOnce' /\ \A s \in Txs : Holds(s)'
<1>5. ASSUME NEW t \in Txs, Request(t) PROVE Goal
  BY <1>3, <1>5, BeginPurchaseHolds, BeginApprovalHolds, BeginRewardHolds, BeginSweepHolds
     DEF Request
<1>6. ASSUME NEW t \in Txs, Advance(t) PROVE Goal
  <2>1. ASSUME LockRow(t) PROVE Goal BY <1>3, <2>1, LockRowHolds
  <2>2. ASSUME SkipRow(t) PROVE Goal BY <1>3, <2>2, SkipRowHolds
  <2>3. ASSUME Reject(t) \/ DeadlockAbort(t) PROVE Goal
    <3>1. Forget(t) /\ End(t) BY <2>3 DEF Reject, DeadlockAbort
    <3>. QED BY <1>3, <3>1, ForgetHolds
  <2>4. ASSUME Commit(t) PROVE Goal BY <1>3, <2>4, CommitHolds
  <2>. HIDE DEF Goal
  <2>. QED BY <1>6, <2>1, <2>2, <2>3, <2>4 DEF Advance
<1>7. ASSUME NEW u \in Users, RewardNothing(u) PROVE Goal BY <1>3, <1>7, RewardNothingHolds
<1>8. ASSUME Statement PROVE Goal BY <1>3, <1>8, StatementHolds
<1>9. ASSUME Crash PROVE Goal BY <1>9, AllIdleHold DEF Crash
<1>10. ASSUME UNCHANGED allVars PROVE Goal
  <2>1. UNCHANGED lockVars /\ UNCHANGED vars BY <1>10 DEF allVars
  <2>2. OnlyTouches({}) BY <1>2, <2>1, NothingTouched
  <2>3. \A s \in Txs : KeepsCalls(s) BY <2>1, CallsKept
  <2>4. \A s \in Txs : held[s] \cap {} = {} OBVIOUS
  <2>. QED BY <1>3, <2>1, <2>2, <2>3, <2>4, OutsideHolds
<1>. HIDE DEF Goal
<1>11. Goal BY <1>5, <1>6, <1>7, <1>8, <1>9, <1>10 DEF LockNext
<1>. QED BY <1>3, <1>4, <1>11 DEF LocksInv, Goal

\* No connection serves a request when the server starts.
LEMMA LocksStart == LockInit => LocksInv
<1>. SUFFICES ASSUME LockInit PROVE LocksInv OBVIOUS
<1>1. /\ Init
      /\ tx = [t \in Txs |-> Idle] /\ todo = [t \in Txs |-> << >>]
      /\ held = [t \in Txs |-> {}] /\ wallet = [t \in Txs |-> << >>]
      /\ bal = [t \in Txs |-> << >>]
  BY DEF LockInit
<1>2. TypeOK BY <1>1, TypeInit
<1>3. RedemptionsSound BY <1>1, MarketAssumption DEF RedemptionsSound, Init
<1>4. LocksTyped
  <2>1. Idle \in Requests /\ << >> \in Seq(Rows) BY DEF Requests
  <2>. QED BY <1>1, <2>1 DEF LocksTyped
<1>5. HeldOnce BY <1>1 DEF HeldOnce
<1>6. ASSUME NEW t \in Txs PROVE Holds(t)
  <2>0. /\ tx[t] = Idle /\ todo[t] = << >> /\ held[t] = {}
        /\ wallet[t] = << >> /\ bal[t] = << >>
    BY <1>1
  <2>1. IdleHoldsNothing(t) BY <2>0 DEF IdleHoldsNothing
  <2>2. ReadsCurrent(t) BY <2>0 DEF ReadsCurrent
  <2>3. PurchaseHolds(t) BY <2>0, RequestKinds DEF PurchaseHolds
  <2>4. ApprovalHolds(t) BY <2>0, RequestKinds DEF ApprovalHolds
  <2>5. RewardHolds(t) BY <2>0, RequestKinds DEF RewardHolds
  <2>6. SweepHolds(t) BY <2>0, RequestKinds DEF SweepHolds
  <2>. QED BY <2>1, <2>2, <2>3, <2>4, <2>5, <2>6 DEF Holds
<1>. QED BY <1>2, <1>3, <1>4, <1>5, <1>6 DEF LocksInv

-------------------------------------------------------------------------------
(* The theorem.                                                              *)

\* However the row-locking transactions of purchaseLead, purchaseLeads, approveDispute,
\* rewardReferralOnFirstPurchase and sweepVendorPayouts interleave, wait, deadlock, abort
\* and crash, the committed rows go through the atomic steps of the money core.
THEOREM LocksImplementMarket == LockSpec => ImplementsLeadMarket
<1>1. LockInit => LocksInv BY LocksStart
<1>2. LocksInv /\ [LockNext]_allVars => LocksInv' BY LocksStep
<1>3. LockInit => Init BY DEF LockInit
<1>4. LocksInv /\ [LockNext]_allVars => [Next]_vars BY LockStepIsMarketStep
<1>. QED BY <1>1, <1>2, <1>3, <1>4, PTL DEF LockSpec, ImplementsLeadMarket, Spec

================================================================================
