\* Two deliveries at a time over three leads, one of which others buy,
\* route, remove and flag too.
CONSTANTS
  a1 = a1  a2 = a2
  Leads = {1, 2, 3}
  Subs = {1, 2}
  AgentOf <- MCAgentOf
  Quota <- MCQuota
  Fits <- MCFits
  Buyers = {a1, a2}
  Contested = {1}
  MaxIngests = 2
  NONE = NONE
SPECIFICATION Spec
INVARIANTS TypeOK NoHalfDelivery SoldTwiceOnlyWhenOvertaken QuotaOvershootBounded
PROPERTIES QuotaComesBack
CHECK_DEADLOCK FALSE
