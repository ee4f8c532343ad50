------------------------------- MODULE MCFlow -------------------------------
(* Instances of FlowIngest for TLC: no subscribers, and two spellings of   *)
(* one currency, the second of which api.AddExposure upper-cases.          *)
EXTENDS FlowIngest

CONSTANTS EUR, eur

Spellings == {EUR, eur}
UpperCase == [c \in Currency |-> EUR]
SignedAmounts == {-2, 0, 1, 2}
NoChannels == [ch \in Channel |-> 0]
PlainCap == {[c \in Currency |-> NoOverride]}
OverriddenCap ==
  {[c \in Currency |-> NoOverride],
   [c \in Currency |-> [ratio |-> 0, capUSD |-> 1]]}
=============================================================================
