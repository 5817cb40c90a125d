----------------------------- MODULE OutcomeReports -----------------------------
(*****************************************************************************)
(* LeadMarket composed with reportLeadOutcome, the buyer's report of what    *)
(* became of a lead.  It runs outside any transaction: it reads the orders   *)
(* row, upserts the lead_outcomes row and then updates orders.status by id,  *)
(* deciding by the status it read first.  Every step of the market may come  *)
(* between, and so may other reports on the same order.                      *)
(*****************************************************************************)
EXTENDS LeadMarket

CONSTANT MaxReports     \* bound: reports in flight at a time

VARIABLES
  outcomes,   \* outcomes[o]: the lead_outcomes row of order o, if any
  reports,    \* the calls in flight: what they reported, what they read, where they are
  raced       \* history: orders of which a report was overtaken by another one or by a
              \* refund, or died before its last update

reportVars == << outcomes, reports, raced >>
orVars == << vars, reportVars >>

Outcomes == {"closed", "other"}

\* The outcome of order o, "none" while its row does not exist.
OutcomeOf(o) == IF o \in DOMAIN outcomes THEN outcomes[o] ELSE "none"

-------------------------------------------------------------------------------
\* Seeded fault of Reportable: no guard at all.
AlwaysReportable(o) == TRUE

\* The guard of the first read: a refunded order takes no report.
Reportable(o) == orders[o].status # "refunded"

Reported == {r.order : r \in reports}

\* The call reads the order row, its status with it.
ReportRead(o, outcome) ==
  /\ Cardinality(reports) < MaxReports
  /\ Reportable(o)
  /\ reports' = reports \cup
       {[order |-> o, outcome |-> outcome, read |-> orders[o].status, pc |-> "read"]}
  /\ raced' = IF o \in Reported THEN raced \cup {o} ELSE raced
  /\ UNCHANGED << vars, outcomes >>

\* The outcome row is inserted, or overwritten on a re-report.
ReportUpsert(r) ==
  /\ r \in reports /\ r.pc = "read"
  /\ outcomes' = [o \in DOMAIN outcomes \cup {r.order} |->
                    IF o = r.order THEN r.outcome ELSE outcomes[o]]
  /\ reports' = (reports \ {r}) \cup {[r EXCEPT !.pc = "upserted"]}
  /\ UNCHANGED << vars, raced >>

\* Seeded fault of StatusAfterReport: re-reporting away from closed is ignored.
StatusNeverReverts(r, status) == IF r.outcome = "closed" THEN "converted" ELSE status

\* The last update: "closed" converts the order, anything else reverts a converted
\* one, by the status that was read; the statement's only condition is the id.
StatusAfterReport(r, status) ==
  IF r.outcome = "closed" /\ r.read # "converted" THEN "converted"
  ELSE IF r.outcome # "closed" /\ r.read = "converted" THEN "completed"
  ELSE status

ReportUpdateStatus(r) ==
  /\ r \in reports /\ r.pc = "upserted"
  /\ orders' = [orders EXCEPT ![r.order].status = StatusAfterReport(r, @)]
  /\ reports' = reports \ {r}
  /\ UNCHANGED << balance, leads, disputes, ledger, vendorBalances, payouts,
                  sessions, referrals, rewardTasks, spendCaps, month, outcomes, raced >>

\* The process dies in the middle of a report.
ReportLost(r) ==
  /\ r \in reports
  /\ reports' = reports \ {r}
  /\ raced' = IF r.pc = "upserted" THEN raced \cup {r.order} ELSE raced
  /\ UNCHANGED << vars, outcomes >>

\* A step of the market, which may refund an order that is being reported.
MarketStep ==
  /\ Next
  /\ raced' = raced \cup {o \in Reported : orders'[o] # orders[o]}
  /\ UNCHANGED << outcomes, reports >>

-------------------------------------------------------------------------------
ReportsInit == Init /\ outcomes = << >> /\ reports = {} /\ raced = {}

ReportStep ==
  \/ \E o \in 1..Len(orders), outcome \in Outcomes : ReportRead(o, outcome)
  \/ \E r \in reports : ReportUpsert(r) \/ ReportUpdateStatus(r) \/ ReportLost(r)

ReportsNext == ReportStep \/ MarketStep

ReportsSpec == ReportsInit /\ [][ReportsNext]_orVars

-------------------------------------------------------------------------------
(* Properties.                                                               *)

\* Every column holds a value of its type; a status may now be "converted" too.
ReportsTypeOK ==
  /\ orders \in Seq([userId : Users, leadId : Leads, price : Nat,
                     status : {"completed", "converted", "refunded"}, month : Nat])
  /\ DOMAIN outcomes \subseteq 1..Len(orders)
  /\ \A o \in DOMAIN outcomes : outcomes[o] \in Outcomes
  /\ reports \subseteq [order : 1..Len(orders), outcome : Outcomes,
                        read : {"completed", "converted"}, pc : {"read", "upserted"}]
  /\ raced \subseteq 1..Len(orders)

\* orders.status is the label that buyer ROI and MediScore calibration train on:
\* unless two reports of one order crossed or one died half-way, "converted" is
\* exactly the orders last reported as closed.
ConvertedMatchesOutcome ==
  \A o \in 1..Len(orders) \ (raced \cup Reported) :
    orders[o].status # "refunded" =>
      (orders[o].status = "converted" <=> OutcomeOf(o) = "closed")

\* The comment in reportLeadOutcome says that it "never clobbers a refund".  That is
\* so for every order but those refunded while a report of them was under way: all
\* others are "refunded" exactly when their whole price, if they had one, was
\* returned, whatever is reported before or tried after.
RefundSurvivesReports ==
  \A o \in 1..Len(orders) \ raced :
    orders[o].status = "refunded"
      <=> /\ disputes[o].status = "approved"
          /\ disputes[o].refundCents = orders[o].price /\ orders[o].price > 0

=================================================================================
