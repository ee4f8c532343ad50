SPECIFICATION FairLifeSpec
CONSTANTS
  HedgeId <- TwoHedges
  MaxFills = 2
  MaxOutages = 1
  RestHandler = {w1}
  LegHandler = {w2}
  Request = {"r1"}
  MaxCrashes = 1
INVARIANTS CoverageOnRecord FillRowsSampled OrderlyStopKeepsTrades
 
CHECK_DEADLOCK FALSE
