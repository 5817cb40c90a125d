CONSTANTS
  a1 = a1  a2 = a2  p1 = p1
  Leads = {1, 2}
  Agents = {a1, a2}
  Pods = {p1}
  HighScore = {2}
  Subscribed = {1}
  Faulty = {2}
  Qualified <- MCQualified
  Merit <- MCMerit
  Reputation <- MCReputation
  Capacity <- MCCapacity
  MaxDeclines = 1
  MaxClaims = 2
  NONE = NONE
SPECIFICATION Spec
INVARIANTS TypeOK OwnerHoldsTheAssignment RoutedWithinCapacity WonClaimIsAssigned
PROPERTIES ImplementsOwnership EveryLeadFindsAnAgent
CHECK_DEADLOCK FALSE
