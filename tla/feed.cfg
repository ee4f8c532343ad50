SPECIFICATION FairFeedSpec
CONSTANTS
  EUR = EUR
  GBP = GBP
  snap = snap
  str = str
  Currency <- TwoCurrencies
  ToUpper <- SameCase
  EventId = {}
  NoEvent = NoEvent
  NoExposure = NoExposure
  Channel <- Channels
  ChannelCap <- Tight
  SnapChannel = snap
  Stream = {str}
  Change = {1}
  MaxChanges = 2
CHECK_DEADLOCK FALSE
INVARIANTS ConsistentViews 
PROPERTIES SnapshotsCatchUp StreamDelivers
