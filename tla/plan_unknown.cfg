SPECIFICATION FairPlanSpec
CONSTANTS
  EUR = EUR
  bank = bank
  venue = venue
  Currency <- OneCurrency
  ToUpper <- SameCase
  EventId = {}
  NoEvent = NoEvent
  NoExposure = NoExposure
  Channel = {}
  ChannelCap <- NoChannels
  Den = 10
  HedgeRatioTarget = 9
  MaxOpenExposureUSD = 2
  SlippageAlertBPS = 50
  WideningStep = 1
  MaxHedges = 4
  HedgeId <- HedgeIds
  NoHedge = NoHedge
  RequestId = {}
  NoRequestId = NoRequestId
  VenueName <- Venues
  NoVenue = NoVenue
  Executors <- BankOnly
  NoQuote = NoQuote
  Refused = Refused
  PlanWorker = {w1}
  NoPlan = NoPlan
  NoCurrency = NoCurrency
  LegNotional <- WithInvalid
  MaxLegs = 2
  MaxPlans = 2
  Booked <- NothingBooked
  Liquidity = {0, 1}
  Rates = {100}
  Shorts = {0}
CHECK_DEADLOCK FALSE
PROPERTY PlanCapHolds
