------------------------------ MODULE MCRouter ------------------------------
(* Instances of RouterRun for TLC: three venues in a fixed order.   *)
EXTENDS RouterRun

CONSTANTS bank, venue1, venue2

ThreeVenues == <<bank, venue1, venue2>>
=============================================================================
