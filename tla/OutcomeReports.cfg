\* Two reports at a time, refunds among them, and reports that die, of a buyer with a cap
\* that either lead fits and both together pass.
CONSTANTS
  u1 = u1  v1 = v1  org1 = org1
  Users = {u1}
  Leads = {1, 2}
  Vendors = {v1}
  VendorOf <- MCVendorOf
  Price <- MCPrice
  Members <- CappedBuyer
  CapValues = {5}
  TopUps = {8}
  RewardCents = 1
  Refunds = {2, 4}
  Threshold = 2
  Payers = {u1}
  Referrers = {}
  Moderated = {}
  ShareNum = 3
  ShareDen = 5
  Baskets <- AnyBasket
  MaxBatch = 2
  MaxDisputes = 2
  MaxSessions = 1
  MaxMonth = 1
  MaxReports = 2
  NULL = NULL
SPECIFICATION ReportsSpec
INVARIANTS ReportsTypeOK ConvertedMatchesOutcome RefundSurvivesReports
PROPERTIES SpendCapUnlessConverted
CHECK_DEADLOCK FALSE
