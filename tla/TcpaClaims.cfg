\* Two resolutions, two renewals and a filing at a time.
CONSTANTS
  a1 = a1  a2 = a2  o1 = o1  o2 = o2  g1 = g1
  Admins = {a1, a2}
  Owners = {o1, o2}
  Agents = {g1}
  Limits <- MCLimits
  Amounts = {1, 3}
  MaxPolicies = 2
  MaxClaims = 3
SYMMETRY Symmetry
SPECIFICATION Spec
INVARIANTS AggregateNeverExceeded NeverUninsured
PROPERTIES ResolvedIsFinal
CHECK_DEADLOCK FALSE
