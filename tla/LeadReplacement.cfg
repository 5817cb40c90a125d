\* Two requests of each kind at a time, over two calls on one lead.
CONSTANTS
  d1 = d1  d2 = d2  c1 = c1  c2 = c2  r1 = r1  r2 = r2  l1 = l1
  Orders = {1, 2}
  LeadOf <- MCLeadOf
  Price <- MCPrice
  Dialers = {d1, d2}
  Checks = {c1, c2}
  Redeemers = {r1, r2}
  FailThreshold = 2
  MaxCalls = 2
SYMMETRY Symmetry
SPECIFICATION Spec
INVARIANTS TypeOK OneCreditOneUse CreditIsBacked
CHECK_DEADLOCK FALSE
