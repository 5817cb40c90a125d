# leadIN: a TLA+ model of the marketplace

leadIN sells Medicare leads: vendors post leads, buyers (insurance agents, alone
or in organisations) pay for them from a wallet, unhappy buyers dispute an order
and are refunded, vendors are paid a share. Leads are also routed to agents,
auctioned among them, delivered to subscribers and repriced as they age. The server
is an Express process (`server/routes.ts`, `server/index.ts`) over Postgres
(`server/storage.ts`, drizzle), run on several pods, with Stripe for top-ups, Twilio
for calls, Redis for rate limits and node-cron for background jobs. This directory
holds TLA+ modules for the parts of it where money, exclusive ownership, limits or
a promise over time are at stake, TLC instances of them and TLAPS proofs.

## 1. Inventory

| Component | State | Operations | Talks to | Hard | Correct when | Module |
|---|---|---|---|---|---|---|
| Money core (`storage.ts`, `vendorPayouts.ts`, `disputes.ts`, `spendCaps.ts`, referrals) | users.balance, leads, orders, lead_disputes, vendor_balances, vendor_payouts, stripe_checkout_sessions, referrals, org_members | top-up, purchaseLead, purchaseLeads, createDispute, approve/deny, sweep, referral code/redeem/reward, flag/remove, caps | called by the routes; calls reputation, CRM, enforcement after commit | races on rows, rounding, labels that serve two purposes | a lead is sold once, books balance, caps hold, refunds are final | `LeadMarket` |
| Row locks (`storage.ts` transactions) | locks of open transactions | FOR UPDATE in the order of the code | Postgres | lost updates, deadlock | transactions behave as if atomic and end | `PurchaseLocks` |
| Outcome reports (`reportLeadOutcome`) | lead_outcomes, orders.status | report, re-report | money core, through the same status column | three statements, no transaction | label follows the last report, refunds survive | `OutcomeReports` |
| Stripe webhook (`routes.ts`, `lib/eventIdempotency.ts`) | webhook_idempotency, per-pod tracker | deliver, mark, credit, prune | Stripe, `creditUserFromStripe` | duplicates, retries, failure between mark and credit | a paid session is credited once | `StripeWebhook` |
| Cron (`lib/cronRegistry.ts`, `lib/lock.ts`) | advisory lock of a session, pool | tick, run, unlock | every background job | session lock through a pool | one pod at a time, and again and again | `CronLock` |
| Smart Match (`smartMatch.ts`) | smart_match_subscriptions, leads, orders | subscribe, deliver on ingest, cycle reset | a second writer of leads.sold | stale lead row, unguarded counter | deliveries are whole, quota respected and renewed | `SmartMatch` |
| Routing and live auction (`routing.ts`, `auction.ts`, `storage.ts`) | lead_assignments, lead_claims, in-process markers and timers | route, open, claim, resolve, accept, decline | ingest, Smart Match, websocket | awaits between reads and writes, restart, capacity read and used | one owner, capacity respected, every lead finds an agent | `Routing` |
| Second Look (`secondLook.ts`, `repriceAgingLeads`) | leads.price, originalPrice, repricedAt | scan, reprice row by row | purchases, moderation | scan, then compare and swap; a limit per run | price follows the ladder, only on offer, reaches every lead | `SecondLook` |
| TCPA claims (`tcpa.ts`, `storage.ts`) | tcpa_policies, tcpa_claims | create, file, approve, deny | owner, agent and admin routes | aggregate over siblings, renewal in between | limits hold, resolutions final, always insured | `TcpaClaims` |
| Trade-in credits (`leadReplacement.ts`), dialer (`dialer.ts`) | call_logs, lead_tradein_credits | call, callback, check, redeem | Twilio | callbacks lost, repeated, late; check, await, insert | one credit per order, backed, spent once | `LeadReplacement` |
| Saved searches (`savedSearch.ts`) | saved_searches | create under an advisory lock, alert cron | notifications | count then insert | limit per user holds | – |
| Vendor enforcement (`vendorEnforcement.ts`) | vendors.status | recompute after a refund | money core | counts read after commit | status follows the counts | – |
| Subscriptions (`enterprisePlan.ts`, webhook) | organizations | activate, update, cancel | Stripe | events out of order | status follows Stripe | – |
| Rate limiter (`rateLimit.ts`) | Redis keys, memory maps | takeToken, seenRecently | every route | INCR then EXPIRE | a bucket always refills | – |
| Shutdown (`shutdown.ts`) | drain flag | signal, drain, close | HTTP server, pool | timeout against running requests | nothing runs on a closed pool | – |
| GDPR erasure, retention (`gdprDelete.ts`, `dataRetention.ts`) | all user rows | erase, scrub | money core | in-flight operations of the user | money rows survive, PII does not | – |
| The rest (SMS, CRM, NIPR, DNC, content, analytics, auth, UI) | provider state, append-only logs, pure scores | | | | | – |

How they interact: an ingest inserts the lead and starts routing, Smart Match and
notifications side by side; routing may hand the lead to an auction, which
falls back to routing. Purchases, Smart Match, routing, removals, the DNC recheck and
Second Look all write the same row of `leads`. The webhook and the cron registry
run in front of the money core and the background jobs. Each module takes the
components beside its own as actions on the rows they share.

`PROJECT.json` lists every component with its sources and every hazard at the line
where it bites, with the properties that would catch it.

## 2. Modules and the code

**`Sums`, `RevenueShare`.** Sums over rows as a recursive function, and the integer
arithmetic of the revenue share: floor of the vendor's share at a sale
(`splitRevenue`), the same floor at a refund (`computeRefundSplit`), the clamp
(`clampRefundCents`), draining pending before paid (`planVendorDebit`) and the
sweep. Money is integer cents; `REV_SHARE_PCT` is a rational that does not change.

**`LeadMarket`.** The money core with every transaction as one action. `orders`,
`disputes` and `ledger` are sequences over order ids (serial ids make rows
sequences); `ledger[o]` is the pair of sale and refund rows of vendor_payouts and
`payouts[v]` the sum of its payout rows. `Purchase` is what `purchaseLead` and
`purchaseLeads` share: validate leads, wallet and cap, then debit, mark, insert,
credit the vendors, and leave a post-commit reward call behind (`rewardTasks`).
Redemption of a code is one action, its check and the unique index together. `LoseRewardTasks` is the crash, or the swallowed error, between commit and reward.
`NextMonth` is the calendar that `startOfMonthUtc` looks at. Prices are constant;
`Payers`, `Baskets`, `Referrers` and `Moderated` only restrict which requests a checked
instance enumerates.

**`PurchaseLocks`** extends it: every connection `t` serves one transaction, which
locks the rows in `todo[t]` one by one, remembers the wallet and balance values it
read (`wallet`, `bal`), writes absolute values from them at `Commit`, and loses
everything at `Reject`, `DeadlockAbort` or `Crash`. A sale of which the vendor's share
is no cent locks no vendor row (`SaleRow`); `UserRank` is the order of the user ids in which
a reward locks both wallets; a buyer may have several reward calls under way, one for
each purchase. READ COMMITTED semantics of
FOR UPDATE (wait, then read the committed row, re-check the WHERE clause) are
external. `ImplementsLeadMarket` is `LeadMarket`'s `Spec` under the identity mapping
of its variables: the locked transactions refine the atomic ones.

**`OutcomeReports`** extends `LeadMarket` with `reportLeadOutcome` statement by
statement (`ReportRead`, `ReportUpsert`, `ReportUpdateStatus`): the only writer of
orders.status that runs outside any transaction. The history variable `raced` holds
the orders one of whose reports was overtaken by a refund or another report, or died
before its last statement.

**`StripeWebhook`** is the handler of `checkout.session.completed` await by await on
several pods: memory mark, table mark, read of the session, credit, response.
Faults are client errors before the mark, failing inserts and queries, lost
responses, evicted and pruned marks and dying pods. `tripped` is a history variable:
events whose handling failed between the mark and the credit. `LeadMarket` takes
all of it as the action `CreditUserFromStripe`.

**`CronLock`** is `registerCron` over `withAdvisoryLock` over `pg.Pool`: the lock
belongs to a session, is counted, is released only by the session that holds it
(`Unlock`), and goes with the session; the queries that take and release it go to any
connection of the pod that no other query is using. `busy` holds the connections in use
by everything else (`Use`, `Return`), which the pool does not close. `orphaned` records
that a connection was closed under a run, `strayed` that an unlock missed its session
since the lock was last free.

**`SmartMatch`** is `attemptDeliveryForLead` from its read of the lead over the
selection of subscriptions and `pickBestSubscription` to the transaction that marks
the lead sold by id, inserts the order and increments the counter; with the creation
and cancellation of subscriptions, and the cycle reset that selects stale rows and
writes them one by one. Purchases, routing, removals and the DNC recheck are actions on the
same rows. `overtaken` is a history variable: leads that were sold while a delivery of
theirs held the row it had read.

**`Routing`** is `routeLeadToBestAgent` (the pre-check, then a transaction under an
advisory lock of the organisation and the row lock of the lead), `openAuction`,
`recordAuctionClaim`, `resolveAuction` and `setAssignmentStatus` of one organisation. A
call is a record in `calls`; every action is what happens between two awaits, so
`OpenCheck` and `OpenMark`, or `ResolveRank` and `ResolveAward`, have room between
them. `marker[p]` is the map `openAuctions` of pod `p`, lost with it at `Crash`;
`QueryFails` is a rejected promise. Of the score only the slack bonus changes, so only
that is computed; `Qualified` is the outcome of the hard filters, the organisation's
billing status and score threshold included. The hydration of claimants and the mark of the
winner are one step, since nothing that changes in between is read again.

**`LeadOwnership`** is what routing promises an agent: a lead is offered to one agent
at a time, only that agent answers, a declined lead is free again and an
accepted one is kept. `ImplementsOwnership` maps the owner column and the live
assignment of a lead to its offer.

**`SecondLook`** is `repriceAgingLeads`: the scan (at most `maxPerRun` rows that are on
offer and have a lower tier price, by `repricedAt`), `computeReprice` with
`secondLookQuote` in cents, rounded half up, and the update that re-asserts price, sold, flagged
and dncFlagged, row by row, with sweeps that overlap. `tier` is the age of a lead.

**`TcpaClaims`** opens `createTcpaPolicy`, `fileTcpaClaim` and `resolveTcpaClaim` into
their statements at READ COMMITTED, with the two row locks a resolution takes and
the update locks of a renewal, rollbacks included, for one organisation.

**`LeadReplacement`** is the call log and the trade-in credit: `startCallForLead` (row,
Twilio, sid), the status callbacks that may be lost, repeated or late, `autoIssueReplacement`
with its check, further awaits and insert under UNIQUE order_id, and the
redemption by a conditional update. `fate` is what Twilio knows of a call, `calls` what
the database has of it. The checks before a call is placed are left
out, and so is the limit of 100 rows on the logs read.

The `...MC` modules give the constants values; definitions whose comment begins
"Seeded fault" are not part of any specification, they exist to show that a
property notices that fault.

## 3. Runs

| Run | Question | Result |
|---|---|---|
| `market_money` | Do buyers' and vendors' books add up under sales, refunds below, at and above the price, and sweeps, with a share of 3/5 of prices 4, 3 and 2 (each floors)? | `WalletConservation`, `VendorBooksBalance`, `VendorNeverOwes`, `PlatformNeverPays`, `PayoutsCoveredBySales`, `DisputesAreFinal` hold |
| `market_buyers` | Two buyers, bulk orders, referrals, caps of two orgs, removals, a month that turns: sold once, rewarded once, capped? | `LeadSoldOnce`, `ReferralsSound`, `SpendCapUnlessConverted` hold |
| `locks` | Do interleaved, crashing, deadlocking transactions implement `LeadMarket`, and do they end? | `ImplementsLeadMarket`, `EveryTxEnds` hold |
| `outcomes` | Two reports at a time among purchases and refunds of a capped buyer: do label, money and cap stay right? | `ConvertedMatchesOutcome`, `RefundSurvivesReports` hold for the orders no report of which was overtaken; `SpendCapUnlessConverted` holds: the cap is passed by the orders reported as closed and by no others; `ReportsTypeOK` |
| `webhook` | Two events of one session, two pods, every failure: credited once, and in the end? | `CreditedOnce` holds; `PaidIsCredited` holds unless tripped |
| `webhook_dropped` | Is every acknowledged event credited? | no: a retry after a failure is taken for a duplicate |
| `cron` | What does the lock give while the pool leaves the connection alone, and can leaks stop a job? | `OnePodAtATime` holds; `JobKeepsRunning` holds: a job stops for good only when an unlock strayed and traffic keeps the connection with the leaked lock from ever staying idle |
| `smart_match` | Deliveries beside purchases, routing, removals, rechecks and resets? | `NoHalfDelivery`, `SoldTwiceOnlyWhenOvertaken`, `QuotaOvershootBounded`, `QuotaComesBack`, `TypeOK` hold: a second order needs a sale between the read and the write, and a quota is passed by the deliveries that run at the same time and no more |
| `routing` | A routed and an auctioned lead, await by await, with claims, answers, failing queries and a crash? | `ImplementsOwnership`, `OwnerHoldsTheAssignment`, `RoutedWithinCapacity`, `WonClaimIsAssigned`, `EveryLeadFindsAnAgent`, `TypeOK` hold |
| `second_look` | Overlapping sweeps over ageing leads that are bought, removed, quarantined, released? | `PriceOnLadder`, `FallsOnlyOnOffer`, `TypeOK` hold; `DecayReachesEveryLead` holds: a lead on offer misses the price of its tier only while rows that cannot move fill the limit |
| `tcpa` | Two resolutions, two renewals, a filing, statement by statement? | `AggregateNeverExceeded`, `NeverUninsured`, `ResolvedIsFinal` hold |
| `replacement` | Lost, repeated and late callbacks, two checks and two redemptions at a time? | `OneCreditOneUse`, `CreditIsBacked`, `TypeOK` hold |

`webhook_dropped` contradicts a sentence of the repository, quoted under "findings".

**Refinements.** `ImplementsLeadMarket` (row locks implement the atomic money core) and
`ImplementsOwnership` (routing and auction implement the promise to the agents).

**Bounds.** Two users, vendors, pods, connections: the properties are about pairs, and a
third user in `market_buyers` gives a buyer two codes to redeem.
Three leads in `market_money`, so that one vendor has two sales and a refund of one
meets the payout of the other; three disputes, so that every order can be
refunded; a threshold of two, so that balances are both below and above it. Two
leads suffice where prices do not matter. Two Checkout sessions let a buyer afford
some and not all leads. `MaxMonth` is 2 where the cap is checked across a month.
`PurchaseLocks` has two connections: both orders over two vendor rows
occur, so its deadlocks do too; the cap of 3 takes one of two leads at 2 each,
so that racing purchases matter. `OutcomeReports` has two reports in flight, the least that cross, and a
buyer whose cap of 5 takes either of two leads at 4 and 3 but not both.
`StripeWebhook` has two events about one session, the interesting
coincidence, and two calls. `CronLock` has two connections and two runs per pod, the
least at which an unlock goes to the wrong session; `MaxCount` = 3 lets a leaked
count pile up. `SmartMatch` has three leads that fit a subscription of one lead a cycle, two
deliveries at a time, so that the quota can be passed, and one lead other writers
contest. `Routing` has a lead that is routed and one that is auctioned, two
agents with room for one lead each, so that capacity refuses, one decline, two
claims, and one pod: the marker is the only state of a pod, and losing it at a
crash gives a second auction of the same lead. `SecondLook` has two leads and two sweeps of one row
each, so that the order of the scan decides, and two changes of quarantine, so that a lead
comes back. At a floor of 51 % and a minimum of 40 cents the sticker price 65 has a tier price
that rounds down (55.25), one that rounds up (45.50) and one raised to the minimum
(33.15), so its lead is stuck in its last two tiers and, with a limit of one row, may starve the
other, at 100, which never is. `TcpaClaims` has an aggregate limit of one and a half
claims, two resolutions, two renewals, one filing, two policies and three claims.
`LeadReplacement` has two calls, as many as the threshold, on one lead with two orders,
for an odd price and for nothing, and two of each request.
Users and requests are symmetric where no liveness is checked and no constant
tells them apart.

**Deadlock checking** is off where the system may rightly stop, with all leads sold,
delivered, assigned or aged, everything acknowledged or resolved, and the bounds used
up. `CronLock` never stops and is checked for deadlock.

**Fairness.** `LeadMarket`, `OutcomeReports`, `TcpaClaims` and `LeadReplacement` assert safety
only. `LockFairness`: strong fairness of a transaction's next step, because Postgres
queues the waiters of a row lock and runs its deadlock detector on each; without the
detector `EveryTxEnds` would fail. `StripeWebhook`: weak fairness of
the handler once started; strong fairness of delivery, since Stripe retries until it
sees a 2xx; and strong fairness of the mark, which says that some delivery of
every event gets past the Stripe client and the secret. Stripe stops after three
days; the property is about events within that. `CronLock`: timers fire for ever,
runs end, and both get a connection for their query, since the pool serves its waiters in
turn (strong, since other queries use the connections in between); the pool opens
connections on demand and closes one that stays idle (weak: one that is used again and again
may never be closed); a query ends. No query has to come, none has to stay away, and no
tick or unlock ever has to reach the connection that holds the lock. `SmartMatch`: time passes, and
the nightly reset gets to select stale rows and to write each (strong: a reset that
dies is tried again the next night). `Routing`: timers fire, queries return and locks are
granted in turn; strong, since a lock held by others disables the step. Claims and answers are
never forced. `SecondLook`: the hourly job scans again and again, and
of the rows it selects none is failed for ever.

## 4. Proofs

All proofs are for every value of the constants under the modules' named
assumptions (`ShareAssumption`, `MarketAssumption`, `WebhookAssumption`,
`CronAssumption`, `TcpaAssumption`, `RoutingAssumption`, `SmartMatchAssumption`,
`ReplacementAssumption`, `LocksAssumption`, `SecondLookAssumption`), which TLC evaluates in the runs. They give the constants
their types; beyond that, leads, subscriptions and vendors are finite where something is
counted, and user ids are ordered.

* `SumProofs`: sums over rows exist, are unique, are natural for natural rows,
  are monotone, split over concatenation, and change by the difference when one row
  is written (`TotalUpdate`). The library's induction theorems
  take operators as parameters; instead `Induction` is proved for subsets of
  the naturals from the least-element property of bounded sets.
* `LeadMarketProofs`, in five parts.
  * *Types and ownership*: `MarketTypeCorrect` (with it: no wallet and no pending
    balance is ever negative, since debit checks and `planVendorDebit` bound them),
    `MarketSellsOnce`, `MarketReferralsSound`. The inductive invariant of the second is
    `TypeOK /\ LeadSoldOnce`: the third conjunct of `LeadSoldOnce` (a sold lead has an
    order) is what makes the check of `sold` exclude a second order, and within one
    batch the ids are strictly ascending. One lemma shows that all actions but
    purchases leave sold leads and the buyers of orders alone. `MarketReferralsSound`
    adds to the rows of `referrals` that every outstanding reward call belongs to a
    buyer with an order: orders are never deleted, so the payout finds one.
  * *The dispute ledger*: `MarketRefundsInFull`, `MarketNeverPays`, `MarketDisputesFinal`.
    The inductive invariant is `TypeOK /\ DisputeBooks`: of every order the sale row is
    the vendor's share of the price, the refund row its share of the refund, only an
    approval refunds and at most the price. `MarketNeverPays` adds the arithmetic of
    the two floors, `ShareGrowsSlower`: for `refund <= price`, the vendor's share of the
    price exceeds its share of the refund by at most `price - refund`. It needs
    `ShareNum <= ShareDen`, the clamp of REV_SHARE_PCT to [0, 1]. That the sale and the
    refund use the same share is the modelling assumption of `RevenueShare`.
  * *The books*: `MarketWalletsConserved`, `MarketVendorsBalanced`, `MarketVendorsNeverOwe`,
    `MarketPayoutsCovered`, by what each operation does to a sum over rows
    (`TotalJoin`, `TotalUpdate`). The wallets need that nothing is refunded while a
    dispute is open (`DisputeBooks`), that the referral row a reward pays is the only one of
    its buyer and not his own (`RedemptionsSound`), and that a rewarded row has a redeemer
    (`RewardsEarned`). That no vendor owes follows from the vendors' books: a floor is
    monotone (`VendorCentsMonotone`), so no order earns less than nothing
    (`VendorsSolvent`); and a refund reaches `paidCents` only when it leaves nothing
    pending. Payouts need the stronger `PayoutBooks`: what was paid and what is pending
    come out of the same sales.
  * *Outcome reports*: `ReportsTypeCorrect`, `ReportsMatchOutcomes`, `ReportsKeepRefunds`,
    `ReportsKeepCaps`. In
    `ReportsInv`, `OneReport` says that an order nobody raced for has one report in flight, and
    `ReportTrue` that what this report read, or has upserted, is still so; the steps of
    the money core enter only by what they do to orders and disputes. `ReportsKeepCaps` (an
    action property) is about the money core with reports, whose conversions free
    headroom. `RefundsPaid` says that an order is "refunded" only with its whole price given back (a
    race may take that label away but never puts it on), so what the buyer keeps and no report
    converted is still "completed" (`KeptSpendIsCounted`), and the sum
    `enforceSpendCapTx` took was no less than it.
  * *Row locks*: `LocksImplementMarket`, the refinement of `LeadMarket` by `PurchaseLocks`, for
    any number of connections. `LocksInv` says that no row is locked twice (`HeldOnce`),
    that what a transaction read under a lock is still so (`ReadsCurrent`), and that what it
    checked is still true: the leads available and the wallet and the cap sufficient
    (`PurchaseHolds`), the dispute open, the referral unpaid and its call outstanding, the vendors
    eligible. It is inductive by a frame argument: every step touches only what rows it
    has locked protect (`OnlyTouches`), and `BystanderHolds` shows that this disturbs nobody who
    holds other rows. At a commit, values computed from earlier reads are then the
    values of the atomic action (`LockStepIsMarketStep`). By it, every safety property
    above holds of the interleaved transactions too.
* `StripeWebhookProofs`: `WebhookTypeCorrect`, `WebhookCreditsOnce`, for any number
  of events, sessions, pods and calls. `credited \in 0..1` is not inductive alone; the
  invariant couples it to the status column that `MayCredit` tests.
* `CronProofs`, the lock first: `CronTypeCorrect`, `CronOnePodAtATime`. The strengthening
  `CountCoversRuns` says that until a connection is closed under a run, every run
  took the lock on the current holder and the session's count is at least the
  number of runs; so an unlock that brings the count to zero ends the last run.
  Since the lock promises no more, the repricing is proved for sweeps that overlap in any
  way: `SecondLookTypeCorrect`, `SecondLookOnLadder`, `SecondLookOnlyFalls`. The invariant
  `LadderInv` adds to the price of every lead what makes overlaps harmless: the basis of a
  quote is the sticker price in every row and in every copy a sweep still holds
  (`BasisIsSticker`), and the tier a copy was selected with has been reached
  (`SelectedAged`), so a stale copy asks an older price of the same ladder. `QuoteBounds`
  is the arithmetic of the two floors and the rounding, `SelectionLimited` counts the rows of
  a scan by their ranks in its order.
* `TcpaProofs`: `TcpaTypeCorrect`, `TcpaLimitsHold`, `TcpaResolvedIsFinal`,
  `TcpaNeverUninsured`. The inductive invariant `TcpaInv` adds to the type that a
  claim's and a policy's row lock have one holder (`OneClaimHolder`, `OnePolicyHolder`)
  and, the reason the check of the aggregate is sound although another statement
  read the sum, that under the policy's lock the sum read is still what is paid
  (`SumIsCurrent`). The clamp then keeps `WithinLimits`.

* `RoutingProofs`: `RoutingTypeCorrect`, `RoutingKeepsOwner`, `RoutingHonoursWins`,
  `RoutingWithinCapacity`, and the refinement `RoutingImplementsOwnership`, for any number of
  leads, agents, pods and calls. `RoutingInv` adds to the types that until a lead has an assignment
  the call of its ingest is the only one that may assign it (`OneRouter`), that a lead has one
  auction (`OneAuction`), that whoever is about to write an assignment under the locks sees a free
  lead and is alone (`HoldsFreeLead`), and that after a win the auction of the lead does
  nothing but end (`WonEndsAuction`). Capacity needs `HoldsCapacity`: the
  slack that the router read under the advisory lock has not become less.
* `SmartMatchProofs`: `SmartMatchTypeCorrect`, `SmartMatchIsWhole`,
  `SmartMatchSellsTwiceOnlyOvertaken`, `SmartMatchOvershootBounded`. `SalesInv`: a lead is delivered at
  most once, by a call that is over then, and a call that goes on beside an order
  is overtaken. `QuotaInv`: at most `MaxIngests` deliveries run, and whoever is picked had
  quota left, so the counter and the deliveries in flight together pass the quota by less. The
  choice among subscriptions needs that they are finitely many numbers (`SmartMatchAssumption`).
* `LeadReplacementProofs`: `ReplacementTypeCorrect`, `ReplacementCreditsOnce`,
  `ReplacementCreditsAreBacked`. `ReplacementInv`: a row that a dialer is on has no sid, and a callback that
  says "failed" is true; so a row that reads "failed" is of a call nobody answered, or of one the dialer
  gave up without Twilio's id, and no callback finds the latter. Both are so for good (`Dead`), and a check
  that was satisfied stays satisfied over its awaits. It is not proved, and not so, that nobody answered
  the calls of the second kind (see the divergences).

**What the proofs corrected.** An order of price 0 is never marked refunded, which
`RefundSurvivesReports` had not said. The price of a lead may pass below the floor by the
rounding to a cent, which `PriceOnLadder` had excluded. `PurchaseLocks` had let a buyer have one
reward call at a time and dropped a lead without a cent to credit from its rows by a
selection the prover could not follow; it now has the several calls the code may have, and
the last of them loses the task (`LastCall`).

**Only model-checked.** Liveness (`PaidIsCredited`, `JobKeepsRunning`, `EveryTxEnds`,
`QuotaComesBack`, `EveryLeadFindsAnAgent`, `DecayReachesEveryLead`) is out of the
prover's reach: what must eventually happen is shown on the runs' instances only.

## 5. Known divergences

What the models do because the code does it, where a reader of the code may expect
otherwise. The first is shown by a run, the others were met while modelling.

* A webhook event is marked before it is credited, so a retry after a failure in
  between is dropped (`routes.ts:560`, run `webhook_dropped`).
* A quarantined (flagged) lead is sold like any other: purchases read `sold` and
  `removed` only (`storage.ts:1000`).
* An order reported as closed leaves the sum the spend cap is compared with, which
  counts "completed" orders (`storage.ts:979`), and frees its headroom without any money back, so the
  "HARD per-user ceiling" (`storage.ts:947`) can be passed; `SpendCapUnlessConverted` leaves out
  the orders with that label, and only those.
* A report that read the order before a refund committed overwrites "refunded"
  (`storage.ts:1422`).
* Bulk orders lock vendor rows in lead order after the wallet, so two of them can
  form a lock cycle that Postgres breaks (`storage.ts:1149`).
* A pool that closes the idle connection holding a cron lock frees the lock under
  the run (`lib/lock.ts:50`).
* An unlock that goes to another connection leaks the lock onto the one that took it; while other queries
  keep that connection in use the pool never closes it, and no pod runs the job again, although "other
  instances can take it on the next tick" (`lib/cronRegistry.ts:20`). `JobKeepsRunning` excuses
  this case and is false without the excuse.
* Smart Match writes a lead it read before; a sale, removal or DNC mark in between
  does not stop it (`smartMatch.ts:275`, against the comment at 106).
* An auctioned lead that was declined is not auctioned or routed again, since
  `openAuction` returns when any assignment exists. The auction ranks without
  reputation, which routing adds. A claim that arrives after the list stays pending.
* The award of an auction takes no lock and does not look at the lead again.
* Second Look: a lead whose tier price was rounded up to a cent, or raised to the minimum, is
  selected in every sweep and not lowered (19.99 at the floor of 50 % asks 9.995 and settles at 10.00), and
  enough of them starve the leads behind them, against the comment at `storage.ts:842-845`;
  `DecayReachesEveryLead` excuses the states where they fill the limit and is false without the excuse. A price may round below the "hard floor"
  (`secondLook.ts:159`, against the comments at 47 and 123); the update does not re-assert `removed`
  (`storage.ts:884`); a lead goes on ageing in quarantine.
* Two renewals at a time leave two active TCPA policies (`storage.ts:3519`).
* Redeeming a trade-in credit marks it and applies no discount (`storage.ts:4175`); a second
  concurrent check fails on UNIQUE and answers 500; calls by an earlier buyer of the lead count;
  a callback that arrives before the sid is stored is acknowledged and lost
  (`routes.ts:4226`), and a late one overwrites a final status, so a lead that answered may read as
  still ringing and earn a credit from other calls (against `leadReplacement.ts:84`; with as many
  calls as the threshold it cannot). A call that Twilio placed and whose id could not be
  stored is marked as failed (`dialer.ts:256`) and counts towards a credit even if it was answered.

## 6. Not modelled, and why

Most of the repository is user interface (over half of its lines), CRUD on tables that
no property relates to anything, pure scoring with floating point, and adapters to
providers whose state is theirs; a module for any of these would restate its
assignments. That is why the modules map to a small share of all
lines although every transaction that moves money or ownership of leads is in one.

Saved searches are one transaction under an advisory lock. Vendor enforcement recomputes a
status whose next change corrects it. Subscriptions copy the last Stripe event handled, and the code
promises nothing about order. The rate limiter's promise is about elapsed time,
which the models do not have. Shutdown ends in the crash that every module has. GDPR
erasure sets user ids of orders and disputes to NULL (and then a refund skips the wallet);
`LeadMarket`'s users are never erased.

Post-commit calls for reputation, CRM, notifications and enforcement are left out of
`LeadMarket`: they write tables it does not have. Prices are constant there, and Smart
Match is not a writer of its leads: `SecondLook` and `SmartMatch` have purchases as
actions instead, without the money. A change of a cap or of the month within a purchase
transaction is not modelled in `PurchaseLocks`, since org_members is read unlocked
and such a purchase may be ordered either way. Amounts are unbounded integers: the
code uses Decimal strings and integer columns far from their limits.

## 7. Plan

1. Core: `RevenueShare`, `LeadMarket`, `PurchaseLocks`, `OutcomeReports`,
   `StripeWebhook`, `CronLock` with their theorems (done).
2. Extension: `SmartMatch`, `Routing` with `LeadOwnership`, `SecondLook`, `TcpaClaims` with
   its theorems, `LeadReplacement` (done).
3. Proofs of the safety of `Routing`, `SmartMatch`, `LeadReplacement` and `OutcomeReports`, of
   the spend caps, of both refinements and of the safety of `SecondLook` (done).
4. Next models: erasure of users in `LeadMarket`; Smart Match sales with the vendor's share.
