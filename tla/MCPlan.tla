------------------------------- MODULE MCPlan -------------------------------
(* Instances of HedgePlan for TLC: no subscribers, one currency, the       *)
(* deployed bank and, where fills may be split, a second venue.            *)
EXTENDS HedgePlan

CONSTANTS EUR, bank, venue, MaxHedges

OneCurrency == {EUR}
SameCase == [c \in Currency |-> c]
NoChannels == [ch \in Channel |-> 0]
HedgeIds == 1 .. MaxHedges
BankOnly == <<bank>>
BankAndVenue == <<bank, venue>>
Venues == {bank, venue}
ShortOne == [c \in Currency |-> -1]
NothingBooked == [c \in Currency |-> 0]
WithInvalid == {0, 1, 2}
=============================================================================
