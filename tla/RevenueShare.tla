------------------------------ MODULE RevenueShare ------------------------------
(*****************************************************************************)
(* The money arithmetic of server/vendorPayouts.ts and server/disputes.ts,   *)
(* in integer cents.  REV_SHARE_PCT is a decimal fraction clamped to [0, 1]; *)
(* it is the rational ShareNum / ShareDen here (0.6 by default), and it is   *)
(* the same at the sale and at the refund.                                   *)
(*****************************************************************************)
EXTENDS Integers

CONSTANTS ShareNum, ShareDen

ASSUME ShareAssumption ==
  /\ ShareNum \in Nat
  /\ ShareDen \in Nat \ {0}
  /\ ShareNum <= ShareDen

\* splitRevenue(cents).vendorCents: the vendor's share, floored to whole cents.
VendorCents(cents) ==
  IF cents <= 0 THEN 0 ELSE (cents * ShareNum) \div ShareDen

\* Seeded faults of VendorDebit: the vendor is charged the whole refund; the vendor
\* is not charged at all.
VendorDebitWholeRefund(refund) == refund
VendorDebitNothing(refund) == 0

\* computeRefundSplit(refund).vendorDebitCents: the vendor gives back its share of
\* the refund, by the same split as the sale.
VendorDebit(refund) == VendorCents(refund)

\* clampRefundCents: a refund is at least 0 and at most the price of the order.
ClampRefundCents(requested, price) ==
  IF requested <= 0 \/ price <= 0 THEN 0
  ELSE IF requested > price THEN price ELSE requested

\* Seeded fault of PlanVendorDebit: what pendingCents cannot cover is forgotten.
PlanDebitForgetsRest(debit, bal) ==
  [bal EXCEPT !.pendingCents = IF debit <= @ THEN @ - debit ELSE 0]

\* planVendorDebit: drain pendingCents first, take the remainder from paidCents
\* (which may go below zero).
PlanVendorDebit(debit, bal) ==
  IF debit <= bal.pendingCents
  THEN [bal EXCEPT !.pendingCents = @ - debit]
  ELSE [pendingCents |-> 0, paidCents |-> bal.paidCents - (debit - bal.pendingCents)]

\* Seeded fault of PaidOut: the pending balance survives its own payout.
PaidOutKeepsPending(bal) == [bal EXCEPT !.paidCents = @ + bal.pendingCents]

\* One iteration of sweepVendorPayouts: the whole pending balance is paid out.
PaidOut(bal) ==
  [pendingCents |-> 0, paidCents |-> bal.paidCents + bal.pendingCents]

=================================================================================
