\* Two connections serve purchases, refunds, rewards and sweeps over the same two
\* leads, wallets and vendor rows.  One buyer tops up and may be capped below its
\* balance; the other gets its money from a referral reward.  Sweeps and bulk orders
\* lock the vendor rows in opposite orders, so deadlocks happen.
CONSTANTS
  u1 = u1  u2 = u2  v1 = v1  v2 = v2  org1 = org1  t1 = t1  t2 = t2
  Users = {u1, u2}
  Leads = {1, 2}
  Vendors = {v1, v2}
  VendorOf <- MCVendorOf
  Price <- MCPrice
  Members <- CappedBuyer
  CapValues = {3}
  TopUps = {4}
  RewardCents = 2
  Refunds = {2}
  Threshold = 1
  Payers = {u1}
  Referrers = {u2}
  Moderated = {2}
  ShareNum = 3
  ShareDen = 5
  MaxSessions = 1
  MaxMonth = 1
  Baskets <- AnyBasket
  MaxBatch = 2
  MaxDisputes = 1
  NULL = NULL
  Txs = {t1, t2}
  UserRank <- IdOrder
SPECIFICATION LockSpec
PROPERTIES ImplementsLeadMarket EveryTxEnds
CHECK_DEADLOCK FALSE
