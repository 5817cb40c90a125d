\* Two buyers compete for two leads, one of which an admin flags and removes; one
\* of them is a member of two orgs whose caps change and may redeem either of two
\* referral codes; a full refund restores headroom and the month turns.
CONSTANTS
  u1 = u1  u2 = u2  u3 = u3  v1 = v1  v2 = v2  org1 = org1  org2 = org2
  Users = {u1, u2, u3}
  Leads = {1, 2}
  Vendors = {v1, v2}
  VendorOf <- MCVendorOf
  Price <- MCPrice
  Members <- TwoMembers
  CapValues = {4, 7}
  TopUps = {5}
  RewardCents = 1
  Refunds = {9}
  Threshold = 9
  Payers = {u1, u2}
  Referrers = {u2, u3}
  Moderated = {1}
  ShareNum = 3
  ShareDen = 5
  MaxSessions = 2
  MaxMonth = 2
  Baskets <- AnyBasket
  MaxBatch = 2
  MaxDisputes = 1
  NULL = NULL
SPECIFICATION Spec
INVARIANTS LeadSoldOnce ReferralsSound
PROPERTIES SpendCapUnlessConverted
CHECK_DEADLOCK FALSE
