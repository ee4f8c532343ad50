SPECIFICATION FairHedgeSpec
CONSTANTS
  EUR = EUR
  Currency <- OneCurrency
  ToUpper <- SameCase
  EventId = {}
  NoEvent = NoEvent
  NoExposure = NoExposure
  Channel = {}
  ChannelCap <- NoChannels
  Den = 10
  HedgeRatioTarget = 9
  MaxOpenExposureUSD = 2
  SlippageAlertBPS = 50
  WideningStep = 1
  MaxHedges = 2
  HedgeId <- HedgeIds
  NoHedge = NoHedge
  RequestId = {r1}
  NoRequestId = NoRequestId
  VenueName = {bank}
  NoVenue = NoVenue
  NoRate = NoRate
  Entity <- Entities
  HedgeWorker = {w1, w2}
  NoJob = NoJob
  Notional = {2}
  QuoteRate = {10000}
  Price = {10060}
  Venue = bank
  MaxFills = 2
  Replays = "stored"
  Overlaps = FALSE
  FlowAmount = {3}
CHECK_DEADLOCK FALSE
INVARIANTS CoverageReconciles PnLReconciles HedgeAudited  
PROPERTIES HedgeFinal HedgeSettles
