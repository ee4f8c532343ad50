SPECIFICATION FairDeliverySpec
CONSTANTS
  Sender = {s1, s2}
  NoSender = NoSender
  Record = {r1, r2, r3}
  NoRecord = NoRecord
  KeyOf <- OwnKeys
  Modes <- AllModes
CHECK_DEADLOCK FALSE
INVARIANTS  AuditOrdered
PROPERTY CallReturns
