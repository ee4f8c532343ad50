SPECIFICATION FairFlowSpec
CONSTANTS
  EUR = EUR
  eur = eur
  Currency <- Spellings
  Entity <- Spellings
  ToUpper <- UpperCase
  EventId = {e1}
  NoEvent = NoEvent
  NoExposure = NoExposure
  NoRequest = NoRequest
  Channel = {}
  ChannelCap <- NoChannels
  Den = 10
  HedgeRatioTarget = 9
  MaxOpenExposureUSD = 2
  SlippageAlertBPS = 5
  WideningStep = 1
  Worker = {w1, w2}
  Amount <- SignedAmounts
  FlowLimit = 2
  HedgeAmount = {1}
  Configured <- OverriddenCap
  MaxFlows = 3
  MaxHedges = 1
CHECK_DEADLOCK FALSE
INVARIANTS  OvershootBound OvershootInv AppliedIsAudited
PROPERTIES ImplementsLedger RequestAnswered
