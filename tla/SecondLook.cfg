CONSTANTS
  Leads = {1, 2}
  Sticker <- StickersOfBothKinds
  Floor = 51
  MinPrice = 40
  Limit = 1
  Sweepers = {w1, w2}
  Contested = {1}
  MaxFlips = 2
  NONE = NONE
SPECIFICATION Spec
INVARIANTS TypeOK PriceOnLadder
PROPERTIES FallsOnlyOnOffer DecayReachesEveryLead
CHECK_DEADLOCK FALSE
