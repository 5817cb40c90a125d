------------------------------- MODULE LeadMarket -------------------------------
(*****************************************************************************)
(* The money core of the marketplace: server/storage.ts with every database  *)
(* transaction taken as one atomic step.  Buyers top up a wallet through     *)
(* Stripe, buy leads one at a time or in bulk, dispute orders and are        *)
(* refunded; vendors earn a share of every sale, give it back on a refund    *)
(* and are paid out by sweeps; a referral pays both users once.              *)
(*                                                                           *)
(* Rows with a serial id are sequences: orders[o] is the orders row with id  *)
(* o, disputes[o] its (at most one) dispute row and ledger[o] its sale and   *)
(* refund rows in vendor_payouts.  Amounts are integer cents.                *)
(*                                                                           *)
(* PurchaseLocks opens the purchase transactions up into their row locks and *)
(* implements this module; OutcomeReports composes it with the one writer of *)
(* orders.status that runs outside any transaction.                          *)
(*****************************************************************************)
EXTENDS RevenueShare, Sums, FiniteSets

CONSTANTS
  Users,        \* wallets: buyers and referrers
  Leads,        \* lead ids (numbers: a bulk order locks them in ascending order)
  Vendors,
  VendorOf,     \* leads.vendorId
  Price,        \* leads.price in cents
  Members,      \* rows of org_members: pairs <<org, user>>
  CapValues,    \* the monthly caps an org admin may set
  TopUps,       \* amounts a Checkout session may be opened for
  RewardCents,  \* REFERRAL_REWARD_CENTS
  Refunds,      \* refund amounts an admin may type in
  Threshold,    \* the payout threshold of a sweep
  Payers,       \* the users who open Checkout sessions
  Referrers,    \* the users who ask for a referral code
  Moderated,    \* the leads an admin flags or removes
  Baskets,      \* the sets of leads buyers put into one bulk order
  MaxBatch,     \* MAX_BULK_PURCHASE
  MaxSessions, MaxMonth, MaxDisputes,   \* bounds of the checked instances
  NULL

ASSUME MarketAssumption ==
  /\ Leads \subseteq Nat
  /\ Payers \subseteq Users
  /\ Referrers \subseteq Users
  /\ Moderated \subseteq Leads
  /\ VendorOf \in [Leads -> Vendors]
  /\ Price \in [Leads -> Nat]
  /\ TopUps \subseteq Nat
  /\ RewardCents \in Nat
  /\ CapValues \subseteq Nat
  /\ Refunds \subseteq Nat
  /\ Threshold \in Nat
  /\ MaxBatch \in Nat
  /\ Baskets \subseteq SUBSET Leads
  /\ MaxMonth \in Nat
  /\ NULL \notin Users
  /\ NULL \notin Nat

VARIABLES
  balance,        \* users.balance
  leads,          \* the leads rows
  orders,         \* the orders rows
  disputes,       \* disputes[o]: the lead_disputes row of order o, if any
  ledger,         \* ledger[o]: the vendor_payouts rows of order o
  vendorBalances, \* the vendor_balances rows (no row = zero balances)
  payouts,        \* per vendor, the sum of its payout rows
  sessions,       \* the stripe_checkout_sessions rows
  referrals,      \* referrals[u]: the row whose referrerUserId is u, if any
  rewardTasks,    \* buyers whose post-commit reward call has not run yet
  spendCaps,      \* org_members.monthlySpendCapCents
  month           \* the current calendar month

vars == << balance, leads, orders, disputes, ledger, vendorBalances, payouts,
           sessions, referrals, rewardTasks, spendCaps, month >>

-------------------------------------------------------------------------------
(* Helpers.                                                                  *)

\* The amounts of the month's chargeable orders of u: a refunded order drops out.
Spend(u) == [o \in 1..Len(orders) |->
               IF /\ orders[o].userId = u
                  /\ orders[o].status = "completed"
                  /\ orders[o].month = month
               THEN orders[o].price ELSE 0]

\* The caps of every org the user is a capped member of.
CapsOf(u) == {spendCaps[m] : m \in {mm \in Members : mm[2] = u}} \ {NULL}

\* Seeded fault of WithinSpendCap: the new purchase itself is not counted.
WithinSpendCapBeforePurchase(u, addCents) ==
  \A cap \in CapsOf(u) : Total(Spend(u)) <= cap

\* enforceSpendCapTx: the tightest cap over all orgs bounds the month's
\* "completed" orders plus the new amount.
WithinSpendCap(u, addCents) ==
  \A cap \in CapsOf(u) : Total(Spend(u)) + addCents <= cap

\* The leads of the batch.
InBatch(batch) == {batch[i] : i \in 1..Len(batch)}

\* The ids of a bulk order, deduplicated and sorted in ascending order.
Batches == {b \in UNION {[1..n -> Leads] : n \in 1..MaxBatch} :
              /\ \A i \in 1..(Len(b) - 1) : b[i] < b[i + 1]
              /\ InBatch(b) \in Baskets}

\* Seeded fault of Available: only removed leads are refused.
AvailableUnlessRemoved(l) == ~leads[l].removed

\* The checks both purchase methods make on every locked lead row.  Neither looks
\* at leads.flagged.
Available(l) == ~leads[l].sold /\ ~leads[l].removed

\* Seeded fault of BatchPrice: the wallet pays for the first lead only.
BatchPriceOfFirst(batch) == Price[batch[1]]

\* The combined price the single wallet debit of a bulk order takes.
BatchPrice(batch) == Total([i \in 1..Len(batch) |-> Price[batch[i]]])

\* What the batch adds to the pending balance of a vendor: creditVendorOnSaleTx
\* once per order.
BatchCredit(batch, v) ==
  Total([i \in 1..Len(batch) |->
           IF VendorOf[batch[i]] = v THEN VendorCents(Price[batch[i]]) ELSE 0])

\* Seeded fault of HasRedeemed: neither the check nor the unique index.
NeverRedeemed(u) == FALSE

\* u is the referredUserId of some row: the check of redeemReferralCode, and the
\* index uniq_referrals_referred_user behind it.
HasRedeemed(u) == \E r \in Users : referrals[r].referredUserId = u

\* Seeded fault of IsOpen: a resolved dispute may be resolved again.
IsFiled(o) == disputes[o].status # "none"

\* The only state of a dispute that approveDispute and denyDispute act on.
IsOpen(o) == disputes[o].status = "open"

\* Seeded fault of StatusAfterRefund: a partial refund also frees the headroom.
StatusAfterAnyRefund(order, refund) == IF refund > 0 THEN "refunded" ELSE order.status

\* Step 4 of approveDispute: only a full refund takes the order out of the spend.
StatusAfterRefund(order, refund) ==
  IF refund > 0 /\ refund = order.price THEN "refunded" ELSE order.status

-------------------------------------------------------------------------------
Init ==
  /\ balance = [u \in Users |-> 0]
  /\ leads = [l \in Leads |-> [sold |-> FALSE, removed |-> FALSE,
                               flagged |-> FALSE, purchasedBy |-> NULL]]
  /\ orders = << >>
  /\ disputes = << >>
  /\ ledger = << >>
  /\ vendorBalances = [v \in Vendors |-> [pendingCents |-> 0, paidCents |-> 0]]
  /\ payouts = [v \in Vendors |-> 0]
  /\ sessions = << >>
  /\ referrals = [u \in Users |-> [status |-> "none", referredUserId |-> NULL]]
  /\ rewardTasks = {}
  /\ spendCaps \in [Members -> CapValues \cup {NULL}]
  /\ month = 1

-------------------------------------------------------------------------------
(* Wallet top-ups.                                                           *)

\* POST /api/stripe/create-checkout: the session row is inserted as "pending".
CreateStripeSession(u, amount) ==
  /\ Len(sessions) < MaxSessions
  /\ sessions' = Append(sessions, [userId |-> u, amount |-> amount, status |-> "pending"])
  /\ UNCHANGED << balance, leads, orders, disputes, ledger, vendorBalances, payouts,
                  referrals, rewardTasks, spendCaps, month >>

\* creditUserFromStripe: pending -> completed and the credit, in one transaction;
\* a session that is not pending is left alone.
CreditUserFromStripe(s) ==
  /\ sessions[s].status = "pending"
  /\ sessions' = [sessions EXCEPT ![s].status = "completed"]
  /\ balance' = [balance EXCEPT ![sessions[s].userId] = @ + sessions[s].amount]
  /\ UNCHANGED << leads, orders, disputes, ledger, vendorBalances, payouts,
                  referrals, rewardTasks, spendCaps, month >>

-------------------------------------------------------------------------------
(* Purchases.                                                                *)

\* What both purchase methods validate before they write: every lead, the wallet
\* and the cap.
CanPurchase(u, batch) ==
  /\ \A l \in InBatch(batch) : Available(l)
  /\ balance[u] >= BatchPrice(batch)
  /\ WithinSpendCap(u, BatchPrice(batch))

\* What both write: one debit of the wallet value read earlier in the transaction,
\* and for every lead the sale, the order and the vendor's credit.
RecordPurchase(u, batch, wallet) ==
  /\ balance' = [balance EXCEPT ![u] = wallet - BatchPrice(batch)]
  /\ leads' = [l \in Leads |->
                 IF l \in InBatch(batch)
                 THEN [leads[l] EXCEPT !.sold = TRUE, !.purchasedBy = u]
                 ELSE leads[l]]
  /\ orders' = orders \o [i \in 1..Len(batch) |->
                            [userId |-> u, leadId |-> batch[i], price |-> Price[batch[i]],
                             status |-> "completed", month |-> month]]
  /\ disputes' = disputes \o [i \in 1..Len(batch) |->
                                [status |-> "none", refundCents |-> 0]]
  /\ ledger' = ledger \o [i \in 1..Len(batch) |->
                            [sale |-> VendorCents(Price[batch[i]]), refund |-> 0]]
  /\ vendorBalances' = [v \in Vendors |->
                          [vendorBalances[v] EXCEPT
                             !.pendingCents = @ + BatchCredit(batch, v)]]
  /\ rewardTasks' = rewardTasks \cup {u}
  /\ UNCHANGED << payouts, sessions, referrals, spendCaps, month >>

Purchase(u, batch) == CanPurchase(u, batch) /\ RecordPurchase(u, batch, balance[u])

\* POST /api/leads/:id/purchase.
PurchaseLead(u, l) == Purchase(u, << l >>)

\* Bulk Buy: all of the batch or nothing.
PurchaseLeads(u, batch) == Purchase(u, batch)

-------------------------------------------------------------------------------
(* Referrals.                                                                *)

\* getOrCreateReferralCode: one row per referrer.
GetOrCreateReferralCode(u) ==
  /\ referrals[u].status = "none"
  /\ referrals' = [referrals EXCEPT ![u].status = "pending"]
  /\ UNCHANGED << balance, leads, orders, disputes, ledger, vendorBalances, payouts,
                  sessions, rewardTasks, spendCaps, month >>

\* redeemReferralCode: u redeems the code of r.
RedeemReferralCode(r, u) ==
  /\ ~HasRedeemed(u)
  /\ referrals[r].status # "none"
  /\ r # u
  /\ referrals[r].referredUserId = NULL
  /\ referrals' = [referrals EXCEPT ![r] = [status |-> "redeemed", referredUserId |-> u]]
  /\ UNCHANGED << balance, leads, orders, disputes, ledger, vendorBalances, payouts,
                  sessions, rewardTasks, spendCaps, month >>

\* The referral row, if any, that u's first purchase still has to pay out.
DueReferrals(u) ==
  {r \in Users : referrals[r] = [status |-> "redeemed", referredUserId |-> u]}

\* The writes of a reward: both wallets of every due row, from the values read in
\* the transaction, and the row's status.
PayRewards(due, u, wallet) ==
  /\ rewardTasks' = rewardTasks \ {u}
  /\ balance' = [x \in Users |-> IF due # {} /\ x \in due \cup {u}
                                 THEN wallet[x] + RewardCents ELSE balance[x]]
  /\ referrals' = [r \in Users |-> IF r \in due
                                   THEN [referrals[r] EXCEPT !.status = "rewarded"]
                                   ELSE referrals[r]]
  /\ UNCHANGED << leads, orders, disputes, ledger, vendorBalances, payouts,
                  sessions, spendCaps, month >>

\* rewardReferralOnFirstPurchase, the post-commit call of both purchase methods:
\* a no-op unless the buyer's referral row is "redeemed".
RewardReferral(u) == u \in rewardTasks /\ PayRewards(DueReferrals(u), u, balance)

\* Post-commit reward calls are lost: the process dies after the purchase committed
\* and before they ran, or their transaction fails and the error is only logged.
\* Nothing in the database remembers them; a later purchase calls again.
LoseRewardTasks(lost) ==
  /\ lost # {} /\ lost \subseteq rewardTasks
  /\ rewardTasks' = rewardTasks \ lost
  /\ UNCHANGED << balance, leads, orders, disputes, ledger, vendorBalances, payouts,
                  sessions, referrals, spendCaps, month >>

-------------------------------------------------------------------------------
(* Disputes and payouts.                                                     *)

\* createDispute: any order of the buyer without a dispute, whatever its status.
CreateDispute(o) ==
  /\ disputes[o].status = "none"
  /\ Cardinality({p \in 1..Len(orders) : disputes[p].status # "none"}) < MaxDisputes
  /\ disputes' = [disputes EXCEPT ![o].status = "open"]
  /\ UNCHANGED << balance, leads, orders, ledger, vendorBalances, payouts,
                  sessions, referrals, rewardTasks, spendCaps, month >>

\* The writes of an approval, from the wallet and the vendor balance read in the
\* transaction: clamp, resolve, credit the buyer, debit the vendor its share
\* (debitVendorForRefundTx) and mark a fully refunded order.
RecordApproval(o, requested, wallet, vendorBalance) ==
  LET refund == ClampRefundCents(requested, orders[o].price)
      debit == VendorDebit(refund)
  IN  /\ disputes' = [disputes EXCEPT ![o] = [status |-> "approved", refundCents |-> refund]]
      /\ balance' = [balance EXCEPT ![orders[o].userId] = wallet + refund]
      /\ vendorBalances' = [vendorBalances EXCEPT ![VendorOf[orders[o].leadId]] =
                              PlanVendorDebit(debit, vendorBalance)]
      /\ ledger' = [ledger EXCEPT ![o].refund = debit]
      /\ orders' = [orders EXCEPT ![o].status = StatusAfterRefund(orders[o], refund)]
      /\ UNCHANGED << leads, payouts, sessions, referrals, rewardTasks, spendCaps, month >>

\* approveDispute.
ApproveDispute(o, requested) ==
  /\ IsOpen(o)
  /\ RecordApproval(o, requested, balance[orders[o].userId],
                    vendorBalances[VendorOf[orders[o].leadId]])

\* denyDispute.
DenyDispute(o) ==
  /\ IsOpen(o)
  /\ disputes' = [disputes EXCEPT ![o].status = "denied"]
  /\ UNCHANGED << balance, leads, orders, ledger, vendorBalances, payouts,
                  sessions, referrals, rewardTasks, spendCaps, month >>

\* The vendors a sweep selects; a zero balance is skipped whatever the threshold.
IsEligible(v) ==
  vendorBalances[v].pendingCents >= Threshold /\ vendorBalances[v].pendingCents > 0

\* The writes of a sweep, from the balance rows read in the transaction.
RecordPayouts(swept, bal) ==
  /\ payouts' = [v \in Vendors |-> IF v \in swept THEN payouts[v] + bal[v].pendingCents
                                   ELSE payouts[v]]
  /\ vendorBalances' = [v \in Vendors |-> IF v \in swept THEN PaidOut(bal[v])
                                          ELSE vendorBalances[v]]
  /\ UNCHANGED << balance, leads, orders, disputes, ledger,
                  sessions, referrals, rewardTasks, spendCaps, month >>

\* sweepVendorPayouts: the vendors the statement selected are paid in full.  A
\* vendor that crosses the threshold while the sweep waits for a row is not among
\* them, so swept need not be every vendor that is eligible when it commits.
SweepVendorPayouts(swept) ==
  /\ swept # {}
  /\ \A v \in swept : IsEligible(v)
  /\ RecordPayouts(swept, vendorBalances)

-------------------------------------------------------------------------------
(* Administration and the calendar.                                          *)

\* The admin flags a lead or clears the flag.
FlagLead(l, flagged) ==
  /\ leads[l].flagged # flagged
  /\ leads' = [leads EXCEPT ![l].flagged = flagged]
  /\ UNCHANGED << balance, orders, disputes, ledger, vendorBalances, payouts,
                  sessions, referrals, rewardTasks, spendCaps, month >>

\* The admin removes a lead, sold or not.
RemoveLead(l) ==
  /\ ~leads[l].removed
  /\ leads' = [leads EXCEPT ![l].removed = TRUE]
  /\ UNCHANGED << balance, orders, disputes, ledger, vendorBalances, payouts,
                  sessions, referrals, rewardTasks, spendCaps, month >>

SetMemberSpendCap(m, cap) ==
  /\ spendCaps[m] # cap
  /\ spendCaps' = [spendCaps EXCEPT ![m] = cap]
  /\ UNCHANGED << balance, leads, orders, disputes, ledger, vendorBalances, payouts,
                  sessions, referrals, rewardTasks, month >>

\* The first of the next month (UTC): startOfMonthUtc moves on.
NextMonth ==
  /\ month < MaxMonth
  /\ month' = month + 1
  /\ UNCHANGED << balance, leads, orders, disputes, ledger, vendorBalances, payouts,
                  sessions, referrals, rewardTasks, spendCaps >>

-------------------------------------------------------------------------------
Next ==
  \/ \E u \in Payers, amount \in TopUps : CreateStripeSession(u, amount)
  \/ \E s \in 1..Len(sessions) : CreditUserFromStripe(s)
  \/ \E u \in Users, l \in Leads : PurchaseLead(u, l)
  \/ \E u \in Users, batch \in Batches : PurchaseLeads(u, batch)
  \/ \E u \in Referrers : GetOrCreateReferralCode(u)
  \/ \E r, u \in Users : RedeemReferralCode(r, u)
  \/ \E u \in Users : RewardReferral(u)
  \/ \E lost \in SUBSET rewardTasks : LoseRewardTasks(lost)
  \/ \E o \in 1..Len(orders) : CreateDispute(o)
  \/ \E o \in 1..Len(orders), requested \in Refunds : ApproveDispute(o, requested)
  \/ \E o \in 1..Len(orders) : DenyDispute(o)
  \/ \E swept \in SUBSET Vendors : SweepVendorPayouts(swept)
  \/ \E l \in Moderated, flagged \in BOOLEAN : FlagLead(l, flagged)
  \/ \E l \in Moderated : RemoveLead(l)
  \/ \E m \in Members, cap \in CapValues \cup {NULL} : SetMemberSpendCap(m, cap)
  \/ NextMonth

Spec == Init /\ [][Next]_vars

-------------------------------------------------------------------------------
(* Properties.                                                               *)

LeadColumns == [sold : BOOLEAN, removed : BOOLEAN, flagged : BOOLEAN,
                purchasedBy : Users \cup {NULL}]

\* The label "converted" is written by OutcomeReports alone, which types it.
OrderRow == [userId : Users, leadId : Leads, price : Nat,
             status : {"completed", "refunded"}, month : Nat]

DisputeRow == [status : {"none", "open", "approved", "denied"}, refundCents : Nat]

LedgerRow == [sale : Nat, refund : Nat]

BalanceRow == [pendingCents : Nat, paidCents : Int]

SessionRow == [userId : Users, amount : Nat, status : {"pending", "completed"}]

ReferralSlot == [status : {"none", "pending", "redeemed", "rewarded"},
                 referredUserId : Users \cup {NULL}]

\* Every column holds a value of its type and every order has its dispute and
\* ledger slots.  Wallets and pending balances are never negative; paidCents,
\* which planVendorDebit may drive negative, is only an integer here.
TypeOK ==
  /\ balance \in [Users -> Nat]
  /\ leads \in [Leads -> LeadColumns]
  /\ orders \in Seq(OrderRow)
  /\ disputes \in Seq(DisputeRow)
  /\ ledger \in Seq(LedgerRow)
  /\ Len(disputes) = Len(orders) /\ Len(ledger) = Len(orders)
  /\ vendorBalances \in [Vendors -> BalanceRow]
  /\ payouts \in [Vendors -> Nat]
  /\ sessions \in Seq(SessionRow)
  /\ referrals \in [Users -> ReferralSlot]
  /\ rewardTasks \subseteq Users
  /\ spendCaps \in [Members -> CapValues \cup {NULL}]
  /\ month \in Nat

\* A lead is sold at most once: no two orders are for the same lead, a lead with
\* an order is sold to exactly the buyer on that order, and a sold lead has an
\* order.  orders.lead_id carries no UNIQUE constraint, so only the check of
\* leads.sold in purchaseLead and purchaseLeads keeps this.
LeadSoldOnce ==
  /\ \A o, p \in 1..Len(orders) : orders[o].leadId = orders[p].leadId => o = p
  /\ \A o \in 1..Len(orders) :
       /\ leads[orders[o].leadId].sold
       /\ leads[orders[o].leadId].purchasedBy = orders[o].userId
  /\ \A l \in Leads : leads[l].sold => \E o \in 1..Len(orders) : orders[o].leadId = l

\* What a wallet has received from referral rewards: once as the referrer, once
\* as the referred user.
RewardsOf(u) ==
  (IF referrals[u].status = "rewarded" THEN RewardCents ELSE 0) +
  (IF \E r \in Users : referrals[r] = [status |-> "rewarded", referredUserId |-> u]
   THEN RewardCents ELSE 0)

ToppedUp(u) == [s \in 1..Len(sessions) |->
                  IF sessions[s].userId = u /\ sessions[s].status = "completed"
                  THEN sessions[s].amount ELSE 0]

NetPaid(u) == [o \in 1..Len(orders) |->
                 IF orders[o].userId = u
                 THEN orders[o].price - disputes[o].refundCents ELSE 0]

\* Money conservation for buyers: every wallet equals its completed top-ups plus
\* its referral rewards minus what its orders cost net of refunds.  A double
\* credit, a lost debit or a refund paid twice anywhere would break it.
WalletConservation ==
  \A u \in Users : balance[u] = Total(ToppedUp(u)) + RewardsOf(u) - Total(NetPaid(u))

Earned(v) == [o \in 1..Len(orders) |->
                IF VendorOf[orders[o].leadId] = v
                THEN ledger[o].sale - ledger[o].refund ELSE 0]

\* Money conservation for vendors: what a vendor is owed plus what it keeps
\* from payouts is the sum of its sale rows minus its refund rows.
VendorBooksBalance ==
  \A v \in Vendors :
    vendorBalances[v].pendingCents + vendorBalances[v].paidCents = Total(Earned(v))

\* A vendor never ends up owing the platform.  planVendorDebit provides for
\* driving paidCents negative; with sale and refund floored at the same share it
\* never has to, in whatever order sales, sweeps and refunds come.
VendorNeverOwes == \A v \in Vendors : vendorBalances[v].paidCents >= 0

\* What the platform keeps of an order: its price and the vendor's refund debit
\* come in, the buyer's refund and the vendor's share go out.
PlatformMargin(o) ==
  (orders[o].price - disputes[o].refundCents) - (ledger[o].sale - ledger[o].refund)

\* Rounding never makes the platform pay for an order: neither the floor at the
\* sale nor the floor at the refund takes its margin below zero.
PlatformNeverPays == \A o \in 1..Len(orders) : PlatformMargin(o) >= 0

\* The payouts a vendor received never exceed what its sales earned, refunds
\* after a sweep being taken back from paidCents; so no sale is paid out twice.
PayoutsCoveredBySales ==
  \A v \in Vendors :
    payouts[v] <= Total([o \in 1..Len(orders) |->
                           IF VendorOf[orders[o].leadId] = v THEN ledger[o].sale ELSE 0])

\* A full refund and only a full refund takes an order out of the spend of its
\* month: "refunded" orders are exactly the disputed ones whose whole price was
\* returned.
RefundedIffFullyRefunded ==
  \A o \in 1..Len(orders) :
    orders[o].status = "refunded"
      <=> /\ disputes[o].status = "approved"
          /\ disputes[o].refundCents = orders[o].price
          /\ orders[o].price > 0

\* A user redeems at most one referral code, never its own, and a row pays out
\* only after the redeeming user has bought a lead.
ReferralsSound ==
  /\ \A r, q \in Users : /\ referrals[r].referredUserId # NULL
                         /\ referrals[r].referredUserId = referrals[q].referredUserId
                         => r = q
  /\ \A r \in Users : referrals[r].referredUserId # r
  /\ \A r \in Users : referrals[r].status = "rewarded" =>
       \E o \in 1..Len(orders) : orders[o].userId = referrals[r].referredUserId

\* What the month's orders of u have cost, less those whose whole price was given back
\* and those labelled "converted".
KeptSpend(rows, resolutions, u) ==
  [o \in 1..Len(rows) |-> IF /\ rows[o].userId = u /\ rows[o].month = month
                             /\ resolutions[o].refundCents < rows[o].price
                             /\ rows[o].status # "converted"
                          THEN rows[o].price ELSE 0]

\* The "HARD per-user ceiling" (storage.ts:947), as far as it is one: no purchase, alone
\* or in bulk, leaves the buyer beyond the tightest cap over all orgs with what the
\* month's orders cost, and only money given back in full restores headroom.  The
\* exception is in the code: an order reported as closed becomes "converted", is no
\* longer counted (storage.ts:979) and frees its headroom without any money back.  Here
\* no order is converted; OutcomeReports checks the same with the step that does it.
SpendCapUnlessConverted ==
  [][Len(orders') > Len(orders) =>
       LET u == orders'[Len(orders')].userId
       IN  \A m \in Members : m[2] = u /\ spendCaps[m] # NULL
             => Total(KeptSpend(orders', disputes', u)) <= spendCaps[m]]_vars

\* The dispute ledger is one-way: a resolved dispute keeps its resolution and
\* its refund for ever, and its ledger rows are never written again.
DisputesAreFinal ==
  [][\A o \in 1..Len(orders) :
       disputes[o].status \in {"approved", "denied"} =>
         /\ disputes'[o] = disputes[o]
         /\ ledger'[o] = ledger[o]]_vars

=================================================================================
