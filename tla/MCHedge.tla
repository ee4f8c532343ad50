------------------------------ MODULE MCHedge ------------------------------
(* Instances of HedgeApi for TLC: no subscribers, one currency.            *)
EXTENDS HedgeApi

CONSTANTS EUR, MaxHedges

OneCurrency == {EUR}
SameCase == [c \in Currency |-> c]
NoChannels == [ch \in Channel |-> 0]
HedgeIds == 1 .. MaxHedges
Entities == OneCurrency \cup HedgeIds
=============================================================================
