------------------------------- MODULE MCLife -------------------------------
(* Instances of ServiceLife for TLC. *)
EXTENDS ServiceLife

TwoHedges == 1 .. 2
ThreeHedges == 1 .. 3
=============================================================================
