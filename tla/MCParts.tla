------------------------------ MODULE MCParts ------------------------------
(* Instances of the parts that stand alone, for TLC: the policy, the       *)
(* settlement, the live rate, the latency counters, the migrations and the *)
(* connection pool.                                                        *)
(* One specification runs one of them, chosen in the initial state, and    *)
(* leaves the others at rest, so their states add up and do not multiply.  *)
EXTENDS PolicyRun, Settlement, LiveRate, Latency, Migrations, ConnPool

CONSTANTS EUR, GBP

VARIABLE part

TwoCurrencies == {EUR, GBP}
OneOfThem == {EUR}
SameCase == [c \in Currency |-> c]
NoChannels == [ch \in Channel |-> 0]
SignedAmounts == {-3, -1, 1, 2, 3}
FlowAmounts == {-2, 2}
NoTable == [c \in Currency |-> NoOverride]
Tables ==
  {[c \in Currency |-> o] :
     o \in {NoOverride, [ratio |-> 12, capUSD |-> 0], [ratio |-> 3, capUSD |-> 1]}}

PartsInit ==
  /\ part \in {"policy", "settlement", "live rate", "latency", "migrations",
              "pool"}
  /\ PolicyRunInit /\ (part = "policy" \/ overrides = NoTable)
  /\ SettlementInit /\ LiveRateInit /\ LatencyInit /\ MigrateInit /\ PoolInit

PolicyPart ==
  /\ part = "policy" /\ PolicyRunNext
  /\ UNCHANGED <<part, settlementVars, liveRateVars, latencyVars, migrateVars, poolVars>>

SettlementPart ==
  /\ part = "settlement" /\ SettlementNext
  /\ UNCHANGED <<part, policyRunVars, liveRateVars, latencyVars, migrateVars, poolVars>>

LiveRatePart ==
  /\ part = "live rate" /\ LiveRateNext
  /\ UNCHANGED <<part, policyRunVars, settlementVars, latencyVars, migrateVars, poolVars>>

LatencyPart ==
  /\ part = "latency" /\ LatencyNext
  /\ UNCHANGED <<part, policyRunVars, settlementVars, liveRateVars, migrateVars,
                 poolVars>>

MigrationsPart ==
  /\ part = "migrations" /\ MigrateNext
  /\ UNCHANGED <<part, policyRunVars, settlementVars, liveRateVars, latencyVars,
                 poolVars>>

PoolPart ==
  /\ part = "pool" /\ PoolNext
  /\ UNCHANGED <<part, policyRunVars, settlementVars, liveRateVars, latencyVars,
                 migrateVars>>

PartsNext ==
  \/ PolicyPart \/ SettlementPart \/ LiveRatePart \/ LatencyPart \/ MigrationsPart
  \/ PoolPart

PartsSpec ==
  PartsInit /\ [][PartsNext]_<<part, policyRunVars, settlementVars, liveRateVars,
                               latencyVars, migrateVars, poolVars>>
=============================================================================
