SPECIFICATION PartsSpec
CONSTANTS
  EUR = EUR
  GBP = GBP
  Currency <- TwoCurrencies
  ToUpper <- SameCase
  EventId = {}
  NoEvent = NoEvent
  NoExposure = NoExposure
  Channel = {}
  ChannelCap <- NoChannels
  Den = 10
  HedgeRatioTarget = 9
  MaxOpenExposureUSD = 2
  SlippageAlertBPS = 5
  WideningStep = 2
  Traded <- OneOfThem
  Amount <- SignedAmounts
  HedgeAmount = {1, 2}
  SampleBPS = {0, 12}
  Analyst = {a1, a2}
  Configured <- Tables
  MaxUpdates = 5
  MaxSamples = 2
  Settler = {s1}
  FlowDelta <- FlowAmounts
  HedgeSize = {2}
  MaxInstant = 4
  MaxPosts = 2
  NoRate = NoRate
  Pricer = {p1}
  Priced <- OneOfThem
  Rate = {99, 100, 102}
  TTL = 1
  ToleranceBPS = 100
  MaxTime = 3
  Submitter = {t1, t2, t3}
  Elapsed = {1, 2, 3}
  Target = 2
  MaxSubmits = 3
  LastVersion = 2
  Migrator = {m1, m2}
  MaxRuns = 4
  Caller = {g1, g2, g3, g4}
  MaxConns = 3
INVARIANTS DecisionMeetsTarget FlagAgreesWithBreach TuningIsAMean NettingIsExact KeyNamesObligation  StatsAreExact UpLeavesSchema PoolGoesOn
CHECK_DEADLOCK FALSE
