------------------------------- MODULE MCFeed -------------------------------
(* Instances of ExposureFeed for TLC: one stream.  The buffers of the code *)
(* (64 and 16) are scaled down with the number of updates, so that they    *)
(* overflow.                                                               *)
EXTENDS ExposureFeed

CONSTANTS EUR, GBP, snap, str

Channels == {snap, str}
TwoCurrencies == {EUR, GBP}
SameCase == [c \in Currency |-> c]
Tight == [ch \in Channel |-> 1]
=============================================================================
