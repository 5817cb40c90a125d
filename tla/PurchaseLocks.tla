------------------------------ MODULE PurchaseLocks ------------------------------
(*****************************************************************************)
(* The purchase, refund, reward and sweep transactions of server/storage.ts  *)
(* opened up into the row locks they take.  Postgres runs them at READ       *)
(* COMMITTED: a transaction takes its FOR UPDATE locks one by one, checks    *)
(* what it read once it holds the row, writes absolute values computed from  *)
(* what it read, and everything becomes visible at commit.  A row held by    *)
(* another transaction makes it wait; a cycle of waits is broken by the      *)
(* deadlock detector, which aborts one of its members.                       *)
(*                                                                           *)
(* Every transaction implements, at its commit, the atomic action of         *)
(* LeadMarket with its name.  org_members is read without a lock, so a cap   *)
(* that changes during a purchase may or may not count; caps and the month   *)
(* are fixed in this module.                                                 *)
(*****************************************************************************)
EXTENDS LeadMarket

CONSTANTS
  Txs,        \* connections that run transactions, one at a time each
  UserRank    \* the place of every user's id in the order of the ids

ASSUME LocksAssumption ==
  /\ IsFiniteSet(Vendors)
  /\ UserRank \in [Users -> Nat]
  /\ \A u, w \in Users : UserRank[u] = UserRank[w] => u = w

VARIABLES
  tx,     \* tx[t]: the request a connection is serving, or Idle
  todo,   \* todo[t]: the rows it still has to lock, in order
  held,   \* held[t]: the rows it has locked
  wallet, \* wallet[t]: the users.balance values it has read
  bal     \* bal[t]: the vendor_balances rows it has read

lockVars == << tx, todo, held, wallet, bal >>
allVars == << vars, lockVars >>

LeadRow(l) == << "lead", l >>
UserRow(u) == << "user", u >>
VendorRow(v) == << "vendor", v >>
DisputeRowOf(o) == << "dispute", o >>
OrderRowOf(o) == << "order", o >>
ReferralRow(r) == << "referral", r >>

Idle == [kind |-> "idle"]

-------------------------------------------------------------------------------
(* Which rows each transaction locks, in the order of the code.              *)

\* The last row a purchase comes to when it records the sale of l: the vendor's, or,
\* when there is no cent to credit, the lead's own, which it has locked before.
SaleRow(l) == IF VendorCents(Price[l]) > 0 THEN VendorRow(VendorOf[l]) ELSE LeadRow(l)

\* purchaseLead, purchaseLeads: the leads by ascending id, the buyer's wallet, and
\* then, sale by sale, the balance rows of the leads' vendors.
PurchaseRows(u, batch) ==
  [i \in 1..Len(batch) |-> LeadRow(batch[i])]
    \o << UserRow(u) >>
    \o [i \in 1..Len(batch) |-> SaleRow(batch[i])]

\* approveDispute: nothing but the dispute and the order when no money moves.
ApproveRows(o, requested) ==
  LET refund == ClampRefundCents(requested, orders[o].price)
  IN  << DisputeRowOf(o), OrderRowOf(o) >>
        \o (IF refund > 0 THEN << UserRow(orders[o].userId) >> ELSE << >>)
        \o (IF VendorDebit(refund) > 0
            THEN << VendorRow(VendorOf[orders[o].leadId]) >> ELSE << >>)

\* rewardReferralOnFirstPurchase: the referral row, then both wallets, sorted by id.
RewardRows(r, u) ==
  IF UserRank[r] < UserRank[u] THEN << ReferralRow(r), UserRow(r), UserRow(u) >>
                               ELSE << ReferralRow(r), UserRow(u), UserRow(r) >>

\* sweepVendorPayouts has no ORDER BY: the selected rows come in any order.
SweepOrders(swept) ==
  {s \in [1..Cardinality(swept) -> swept] :
     \A i, j \in DOMAIN s : s[i] = s[j] => i = j}

-------------------------------------------------------------------------------
(* The lock table.                                                           *)

Blocked(t, row) == \E s \in Txs \ {t} : row \in held[s]

Free(rows) == \A t \in Txs : held[t] \cap rows = {}

WaitsFor(t) ==
  {s \in Txs \ {t} : todo[t] # << >> /\ Head(todo[t]) \in held[s]}

\* t is on a cycle of the waits-for graph, in which every node has one successor.
InCycle(t) ==
  \E S \in SUBSET Txs :
    /\ t \in S
    /\ \A x \in S : WaitsFor(x) \cap S # {}
    /\ \A x \in S : \E y \in S : x \in WaitsFor(y)

Begin(t, request, rows) ==
  /\ tx[t] = Idle
  /\ tx' = [tx EXCEPT ![t] = request]
  /\ todo' = [todo EXCEPT ![t] = rows]
  /\ UNCHANGED << vars, held, wallet, bal >>

\* Commit or rollback: the locks go and what was read is forgotten.
End(t) ==
  /\ tx' = [tx EXCEPT ![t] = Idle]
  /\ todo' = [todo EXCEPT ![t] = << >>]
  /\ held' = [held EXCEPT ![t] = {}]
  /\ wallet' = [wallet EXCEPT ![t] = << >>]
  /\ bal' = [bal EXCEPT ![t] = << >>]

\* f with x mapped to y.
Extend(f, x, y) == [z \in DOMAIN f \cup {x} |-> IF z = x THEN y ELSE f[z]]

-------------------------------------------------------------------------------
(* Requests.                                                                 *)

BeginPurchase(t, u, batch) ==
  Begin(t, [kind |-> "purchase", batch |-> batch, user |-> u], PurchaseRows(u, batch))

BeginApproval(t, o, requested) ==
  Begin(t, [kind |-> "approve", requested |-> requested, order |-> o],
        ApproveRows(o, requested))

\* Several calls for one buyer may run at once, one for each of its purchases.
BeginReward(t, r, u) ==
  /\ u \in rewardTasks
  /\ r \in DueReferrals(u)
  /\ Begin(t, [kind |-> "reward", user |-> u, referrer |-> r], RewardRows(r, u))

BeginSweep(t) ==
  LET swept == {v \in Vendors : IsEligible(v)}
  IN  /\ swept # {}
      /\ \E s \in SweepOrders(swept) :
           Begin(t, [kind |-> "sweep"], [i \in DOMAIN s |-> VendorRow(s[i])])

-------------------------------------------------------------------------------
(* The steps of a transaction.                                               *)

\* Seeded fault of Passes: the lead rows are not checked again under their locks.
PassesWithoutRecheck(t, row) ==
  CASE row[1] = "user" /\ tx[t].kind = "purchase" ->
         /\ balance[row[2]] >= BatchPrice(tx[t].batch)
         /\ WithinSpendCap(row[2], BatchPrice(tx[t].batch))
    [] OTHER -> TRUE

\* The check a transaction makes on the row it has just locked, if any: all leads
\* once the last is locked, the wallet and the cap, the dispute's and the
\* referral's status.
Passes(t, row) ==
  CASE row[1] = "lead" -> row[2] = tx[t].batch[Len(tx[t].batch)] =>
                            \A l \in InBatch(tx[t].batch) : Available(l)
    [] row[1] = "user" /\ tx[t].kind = "purchase" ->
         /\ balance[row[2]] >= BatchPrice(tx[t].batch)
         /\ WithinSpendCap(row[2], BatchPrice(tx[t].batch))
    [] row[1] = "dispute" -> IsOpen(row[2])
    [] row[1] = "referral" -> referrals[row[2]].status = "redeemed"
    [] OTHER -> TRUE

\* What a read of the row locks.
ForUpdate(row) == {row}

\* The row is locked, read and checked.
LockRow(t) ==
  LET row == Head(todo[t])
  IN  /\ todo[t] # << >> /\ ~Blocked(t, row)
      /\ Passes(t, row)
      /\ ~(tx[t].kind = "sweep" /\ ~IsEligible(row[2]))
      /\ todo' = [todo EXCEPT ![t] = Tail(@)]
      /\ held' = [held EXCEPT ![t] = @ \cup ForUpdate(row)]
      /\ wallet' = IF row[1] = "user"
                   THEN [wallet EXCEPT ![t] = Extend(@, row[2], balance[row[2]])] ELSE wallet
      /\ bal' = IF row[1] = "vendor"
                THEN [bal EXCEPT ![t] = Extend(@, row[2], vendorBalances[row[2]])] ELSE bal
      /\ UNCHANGED << vars, tx >>

\* A sweep that waited for a row re-evaluates its WHERE clause and drops the row.
SkipRow(t) ==
  /\ todo[t] # << >> /\ ~Blocked(t, Head(todo[t]))
  /\ tx[t].kind = "sweep" /\ ~IsEligible(Head(todo[t])[2])
  /\ todo' = [todo EXCEPT ![t] = Tail(@)]
  /\ UNCHANGED << vars, tx, held, wallet, bal >>

\* The only reward call for its buyer that is under way.
LastCall(t) ==
  /\ tx[t].kind = "reward"
  /\ \A s \in Txs \ {t} : tx[s].kind = "reward" => tx[s].user # tx[t].user

\* What the end of a transaction that changes no row leaves behind: the caller of
\* a reward logs the error, or finds it paid already, and forgets the call.
Forget(t) ==
  IF LastCall(t) /\ tx[t].user \in rewardTasks
  THEN LoseRewardTasks({tx[t].user})
  ELSE UNCHANGED vars

\* Seeded fault of Reject: the error is swallowed and the transaction stays open.
RejectWithoutRollback(t) ==
  /\ todo[t] # << >> /\ ~Blocked(t, Head(todo[t]))
  /\ ~Passes(t, Head(todo[t]))
  /\ Forget(t)
  /\ UNCHANGED lockVars

\* The check failed: the method throws (or returns) and the transaction rolls back.
Reject(t) ==
  /\ todo[t] # << >> /\ ~Blocked(t, Head(todo[t]))
  /\ ~Passes(t, Head(todo[t]))
  /\ Forget(t)
  /\ End(t)

\* The deadlock detector picks t.
DeadlockAbort(t) ==
  /\ InCycle(t)
  /\ Forget(t)
  /\ End(t)

\* All rows are locked and checked: the writes become visible.
Commit(t) ==
  /\ tx[t] # Idle /\ todo[t] = << >>
  /\ CASE tx[t].kind = "purchase" ->
            RecordPurchase(tx[t].user, tx[t].batch, wallet[t][tx[t].user])
       [] tx[t].kind = "approve" ->
            LET o == tx[t].order
                u == orders[o].userId
                v == VendorOf[orders[o].leadId]
            IN  RecordApproval(o, tx[t].requested,
                               IF u \in DOMAIN wallet[t] THEN wallet[t][u] ELSE balance[u],
                               IF v \in DOMAIN bal[t] THEN bal[t][v] ELSE vendorBalances[v])
       [] tx[t].kind = "reward" ->
            PayRewards({tx[t].referrer}, tx[t].user, wallet[t])
       [] tx[t].kind = "sweep" ->
            IF DOMAIN bal[t] = {} THEN UNCHANGED vars
            ELSE RecordPayouts(DOMAIN bal[t], bal[t])
  /\ End(t)

\* A reward call that finds nothing to pay.
RewardNothing(u) ==
  /\ DueReferrals(u) = {}
  /\ RewardReferral(u)
  /\ UNCHANGED lockVars

-------------------------------------------------------------------------------
(* Single statements, and short transactions that lock nothing first: each    *)
(* waits for the rows it writes or references to be free.  leads.flagged is   *)
(* read by none of the transactions, so FlagLead is left out.                 *)
Statement ==
  /\ \/ \E u \in Payers, amount \in TopUps :
          Free({UserRow(u)}) /\ CreateStripeSession(u, amount)
     \/ \E s \in 1..Len(sessions) :
          Free({UserRow(sessions[s].userId)}) /\ CreditUserFromStripe(s)
     \/ \E u \in Referrers : Free({UserRow(u)}) /\ GetOrCreateReferralCode(u)
     \/ \E r, u \in Users :
          Free({ReferralRow(r), UserRow(u)}) /\ RedeemReferralCode(r, u)
     \/ \E o \in 1..Len(orders) :
          /\ Free({OrderRowOf(o), LeadRow(orders[o].leadId), UserRow(orders[o].userId)})
          /\ CreateDispute(o)
     \/ \E o \in 1..Len(orders) : Free({DisputeRowOf(o)}) /\ DenyDispute(o)
     \/ \E l \in Moderated : Free({LeadRow(l)}) /\ RemoveLead(l)
  /\ UNCHANGED lockVars

\* The process dies: every open transaction rolls back and no post-commit call runs.
Crash ==
  /\ \E t \in Txs : tx[t] # Idle
  /\ IF rewardTasks = {} THEN UNCHANGED vars ELSE LoseRewardTasks(rewardTasks)
  /\ tx' = [t \in Txs |-> Idle]
  /\ todo' = [t \in Txs |-> << >>]
  /\ held' = [t \in Txs |-> {}]
  /\ wallet' = [t \in Txs |-> << >>]
  /\ bal' = [t \in Txs |-> << >>]

-------------------------------------------------------------------------------
LockInit ==
  /\ Init
  /\ tx = [t \in Txs |-> Idle]
  /\ todo = [t \in Txs |-> << >>]
  /\ held = [t \in Txs |-> {}]
  /\ wallet = [t \in Txs |-> << >>]
  /\ bal = [t \in Txs |-> << >>]

Advance(t) == LockRow(t) \/ SkipRow(t) \/ Reject(t) \/ DeadlockAbort(t) \/ Commit(t)

Request(t) ==
  \/ \E u \in Users, batch \in Batches : BeginPurchase(t, u, batch)
  \/ \E o \in 1..Len(orders), requested \in Refunds :
       disputes[o].status # "none" /\ BeginApproval(t, o, requested)
  \/ \E r, u \in Users : BeginReward(t, r, u)
  \/ BeginSweep(t)

LockNext ==
  \/ \E t \in Txs : Request(t) \/ Advance(t)
  \/ \E u \in Users : RewardNothing(u)
  \/ Statement
  \/ Crash

\* Postgres queues the waiters of a row, so a transaction whose lock is granted
\* again and again gets it; and it runs the deadlock detector on every waiter.
LockFairness == \A t \in Txs : SF_allVars(Advance(t))

LockSpec == LockInit /\ [][LockNext]_allVars /\ LockFairness

-------------------------------------------------------------------------------
(* Properties.                                                               *)

\* However the transactions interleave, what is committed is a behaviour of the
\* atomic model: the row locks make every purchase, approval, reward and sweep
\* behave as one step, though each writes values it computed from earlier reads.
ImplementsLeadMarket == Spec

\* A connection never hangs: every transaction commits, is rejected or is aborted,
\* even when transactions wait for each other in a cycle.
EveryTxEnds == \A t \in Txs : []<>(tx[t] = Idle)

=================================================================================
