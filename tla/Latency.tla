------------------------------ MODULE Latency ------------------------------
(***************************************************************************)
(* executor.LatencyExecutor: what Submit records about the latency of the  *)
(* order it passed on.  The three counters are atomics of their own, so    *)
(* every operation on one of them is a step, and the orders of concurrent  *)
(* plans interleave between them.                                          *)
(***************************************************************************)
EXTENDS Integers, Sequences, FiniteSetsExt

CONSTANTS
  Submitter,   \* goroutines that submit orders
  Elapsed,     \* how long an order may take
  Target,      \* the SLO, 500 ms in the service
  MaxSubmits   \* bound: how many orders are submitted

ASSUME LatencyAssumption ==
  IsFiniteSet(Submitter) /\ Elapsed \subseteq Nat /\ Target \in Nat \ {0}

VARIABLES
  count, exceeded, maxObs,  \* the counters
  at,       \* at[p]: what p does next
  ns,       \* ns[p]: the latency of p's order
  cur,      \* cur[p]: the maximum p loaded
  observed  \* the latencies of all orders, in the order they were answered

latencyVars == <<count, exceeded, maxObs, at, ns, cur, observed>>

(* NewLatencyExecutor *)
LatencyInit ==
  /\ count = 0 /\ exceeded = 0 /\ maxObs = 0
  /\ at = [p \in Submitter |-> "idle"]
  /\ ns = [p \in Submitter |-> 0]
  /\ cur = [p \in Submitter |-> 0]
  /\ observed = <<>>

Move(p, here, next) ==
  /\ at[p] = here
  /\ at' = [at EXCEPT ![p] = next]

(* The inner Submit returned, with or without an error. *)
Submitted(p) ==
  /\ Move(p, "idle", "count")
  /\ Len(observed) < MaxSubmits
  /\ \E d \in Elapsed : ns' = [ns EXCEPT ![p] = d] /\ observed' = Append(observed, d)
  /\ UNCHANGED <<count, exceeded, maxObs, cur>>

AddCount(p) ==
  /\ Move(p, "count", "load")
  /\ count' = count + 1
  /\ UNCHANGED <<exceeded, maxObs, ns, cur, observed>>

(* maxObs.Load, and the comparison that may end the loop. *)
LoadMax(p) ==
  /\ Move(p, "load", IF ns[p] <= maxObs THEN "exceed" ELSE "swap")
  /\ cur' = [cur EXCEPT ![p] = maxObs]
  /\ UNCHANGED <<count, exceeded, maxObs, ns, observed>>

(* A plain store instead of the compare-and-swap. *)
StoreMax(p) ==
  /\ Move(p, "swap", "exceed")
  /\ maxObs' = ns[p]
  /\ UNCHANGED <<count, exceeded, ns, cur, observed>>

(* maxObs.CompareAndSwap: when another order came first, load again. *)
SwapMax(p) ==
  /\ Move(p, "swap", IF maxObs = cur[p] THEN "exceed" ELSE "load")
  /\ maxObs' = IF maxObs = cur[p] THEN ns[p] ELSE maxObs
  /\ UNCHANGED <<count, exceeded, ns, cur, observed>>

AddExceeded(p) ==
  /\ Move(p, "exceed", "idle")
  /\ exceeded' = IF ns[p] > Target THEN exceeded + 1 ELSE exceeded
  /\ UNCHANGED <<count, maxObs, ns, cur, observed>>

LatencyNext ==
  \E p \in Submitter :
    \/ Submitted(p) \/ AddCount(p) \/ LoadMax(p) \/ SwapMax(p) \/ AddExceeded(p)

LatencySpec == LatencyInit /\ [][LatencyNext]_latencyVars

-----------------------------------------------------------------------------
Stats == [count |-> count, exceeded |-> exceeded, max |-> maxObs]

(* When no Submit is under way, LatencyExecutor.Stats tells what happened: *)
(* no order is missing from the counters, and the maximum of concurrent    *)
(* orders was not overwritten by a smaller one.                            *)
StatsAreExact ==
  (\A p \in Submitter : at[p] = "idle") =>
    Stats = [count |-> Len(observed),
             exceeded |-> Cardinality({i \in DOMAIN observed : observed[i] > Target}),
             max |-> Max({0} \cup Range(observed))]
=============================================================================
