\* Sales, refunds and sweeps: three leads at prices that round, two of them of
\* one vendor, two buyers with a wallet each, any refund amount below and above
\* the price.
CONSTANTS
  u1 = u1  u2 = u2  u3 = u3  v1 = v1  v2 = v2  org1 = org1  org2 = org2
  Users = {u1, u2}
  Leads = {1, 2, 3}
  Vendors = {v1, v2}
  VendorOf <- MCVendorOf
  Price <- MCPrice
  Members = {}
  CapValues = {}
  TopUps = {6}
  RewardCents = 1
  Refunds = {0, 1, 2, 9}
  Threshold = 2
  Payers = {u1, u2}
  Referrers = {}
  Moderated = {}
  ShareNum = 3
  ShareDen = 5
  MaxSessions = 2
  MaxMonth = 1
  Baskets <- AnyBasket
  MaxBatch = 2
  MaxDisputes = 3
  NULL = NULL
SPECIFICATION Spec
SYMMETRY UserSymmetry
INVARIANTS WalletConservation VendorBooksBalance
  VendorNeverOwes PlatformNeverPays PayoutsCoveredBySales
PROPERTIES DisputesAreFinal
CHECK_DEADLOCK FALSE
