SPECIFICATION LifeSpec
CONSTANTS
  HedgeId <- TwoHedges
  MaxFills = 1
  MaxOutages = 0
  RestHandler = {w1}
  LegHandler = {}
  Request = {"r1"}
  MaxCrashes = 0
INVARIANT RequestTradedOnce
CHECK_DEADLOCK FALSE
