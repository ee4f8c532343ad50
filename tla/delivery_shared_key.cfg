SPECIFICATION DeliverySpec
CONSTANTS
  Sender = {s1}
  NoSender = NoSender
  Record = {r1, r2}
  NoRecord = NoRecord
  KeyOf <- OneHedge
  Modes <- ReconPosts
CHECK_DEADLOCK FALSE
INVARIANT EveryRecordKept
