SPECIFICATION RouterSpec
CONSTANTS
  bank = bank
  venue1 = venue1
  venue2 = venue2
  Executors <- ThreeVenues
  NoQuote = NoQuote
  Refused = Refused
  NoOutcome = NoOutcome
  Rates = {1}
  Costs = {0, 1}
  Liquidities = {0, 1, 3}
  Notionals = {4}
  Shorts = {0, 1}
CHECK_DEADLOCK FALSE
INVARIANTS   SplitFillsAllItCan
