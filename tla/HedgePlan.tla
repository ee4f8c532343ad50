----------------------------- MODULE HedgePlan -----------------------------
(***************************************************************************)
(* The gRPC handler Server.SubmitHedgePlan and executeLeg, run by any      *)
(* number of goroutines at once against the shared tracker, store and      *)
(* policy.  A step is one critical section with the local computation      *)
(* around it; RouteAndExecute touches nothing shared and is one step.      *)
(***************************************************************************)
EXTENDS Policy, HedgeStore, Router

CONSTANTS
  PlanWorker,   \* goroutines that may serve plans at the same time
  NoPlan,       \* a worker that serves nothing
  NoCurrency,   \* the empty currency code
  LegNotional,  \* the notionals of legs, of any sign
  MaxLegs,      \* bound: legs of one plan
  MaxPlans,     \* bound: plans received
  Booked,       \* Booked[c]: the net exposure flows booked before, 0: none
  Liquidity,    \* the liquidity a venue may quote
  Rates,        \* the rates a venue may quote and execute at
  Shorts        \* what a fill may fall short of the amount ordered

ASSUME PlanAssumption ==
  /\ IsFiniteSet(PlanWorker)
  /\ Booked \in [Currency -> Int]
  /\ NoCurrency \notin Currency
  /\ LegNotional \subseteq Int
  /\ MaxLegs \in Nat /\ MaxPlans \in Nat
  /\ MaxPlans * MaxLegs <= Cardinality(HedgeId)
  /\ Liquidity \subseteq Int /\ Rates \subseteq Nat \ {0} /\ Shorts \subseteq Nat /\ 0 \in Shorts
  /\ Executor \subseteq VenueName

VARIABLES
  planPc,     \* planPc[w]: the step w runs next
  plan,       \* plan[w]: the legs to execute and the currencies to check
  leg,        \* leg[w]: the hedge executeLeg builds for the first leg
  plans,      \* plans received so far
  refused     \* how many plans were rejected

planVars == <<planPc, plan, leg, plans, refused>>
hedgePlanVars == <<trackerVars, policyVars, storeVars, idVars, planVars>>

PlanPc == {"idle", "check", "legs", "route", "sample", "store", "cover"}
Leg == [currency: Currency \cup {NoCurrency}, notional: LegNotional]
LegHedge == [id: HedgeId, h: Hedge, todo: Seq(Fill)]

PlanTypeOK ==
  /\ TrackerTypeOK /\ PolicyTypeOK /\ StoreTypeOK
  /\ planPc \in [PlanWorker -> PlanPc]
  /\ \A w \in PlanWorker :
       /\ plan[w] # NoPlan =>
            plan[w].legs \in Seq(Leg) /\ plan[w].unchecked \subseteq Currency \cup {NoCurrency}
       /\ plan[w] = NoPlan <=> planPc[w] = "idle"
       /\ leg[w] \in LegHedge \cup {NoPlan}
       /\ leg[w] = NoPlan <=> planPc[w] \in {"idle", "check", "legs"}
  /\ plans \in 0 .. MaxPlans
  /\ refused \in 0 .. plans

PlanInit ==
  /\ net = Booked
  /\ netKeys = {c \in Currency : Booked[c] # 0}
  /\ coverage = [c \in Currency |-> 0]
  /\ coverageKeys = {}
  /\ updatedAt = [c \in Currency |-> IF Booked[c] # 0 THEN 1 ELSE 0]
  /\ seen = {}
  /\ subs = {}
  /\ queue = [ch \in Channel |-> <<>>]
  /\ PolicyInit([c \in Currency |-> NoOverride])
  /\ StoreInit
  /\ planPc = [w \in PlanWorker |-> "idle"]
  /\ plan = [w \in PlanWorker |-> NoPlan]
  /\ leg = [w \in PlanWorker |-> NoPlan]
  /\ plans = 0
  /\ refused = 0

-----------------------------------------------------------------------------
Step(w, here, next) ==
  /\ planPc[w] = here
  /\ planPc' = [planPc EXCEPT ![w] = next]

LegsOf(legs, c) == {i \in DOMAIN legs : legs[i].currency = c}

(* The notional of the last leg for c instead of the sum. *)
ProposedLast(legs, c) ==
  IF LegsOf(legs, c) = {} THEN 0 ELSE legs[Max(LegsOf(legs, c))].notional

(* The notional a plan proposes for c: legs of either sign are added up. *)
Proposed(legs, c) == SumFunction([i \in LegsOf(legs, c) |-> legs[i].notional])

ReceivePlan(w) ==
  /\ Step(w, "idle", "check")
  /\ plans < MaxPlans
  /\ plans' = plans + 1
  /\ \E n \in 0 .. MaxLegs : \E legs \in [1 .. n -> Leg] :
       plan' = [plan EXCEPT ![w] = [legs |-> legs,
                                    unchecked |-> {legs[i].currency : i \in 1 .. n}]]
  /\ UNCHANGED <<trackerVars, policyVars, storeVars, idVars, leg, refused>>

(* The open amount after the plan.  Without a recorded exposure the        *)
(* coverage there may be is not looked at.                                 *)
OpenAfter(c, add) == IF c \in netKeys THEN Open(c) - add ELSE -add

(* A currency the policy and the tracker do not know has the default cap. *)
CapOf(c) == IF c = NoCurrency THEN MaxOpenExposureUSD ELSE EffectiveCap(c)

PlanBreaches(c, add) == Abs(OpenAfter(c, add)) > CapOf(c)

(* One turn of the check, in the order of the map: the first currency that *)
(* would breach its cap rejects the whole plan.                            *)
CheckPlan(w) ==
  /\ \/ /\ Step(w, "check", "legs")
        /\ plan[w].unchecked = {}
        /\ UNCHANGED <<plan, refused>>
     \/ \E c \in Currency \cup {NoCurrency} :
          \/ /\ Step(w, "check", "check")
             /\ c \in plan[w].unchecked
             /\ ~ PlanBreaches(c, Proposed(plan[w].legs, c))
             /\ plan' = [plan EXCEPT ![w].unchecked = @ \ {c}]
             /\ UNCHANGED refused
          \/ /\ Step(w, "check", "idle")
             /\ c \in plan[w].unchecked
             /\ PlanBreaches(c, Proposed(plan[w].legs, c))
             /\ plan' = [plan EXCEPT ![w] = NoPlan]
             /\ refused' = refused + 1
  /\ UNCHANGED <<trackerVars, policyVars, storeVars, idVars, leg, plans>>

-----------------------------------------------------------------------------
(***************************************************************************)
(* executeLeg for the first leg of the plan.                               *)
(***************************************************************************)
FinishPlan(w) ==
  /\ Step(w, "legs", "idle")
  /\ plan[w].legs = <<>>
  /\ plan' = [plan EXCEPT ![w] = NoPlan]
  /\ UNCHANGED <<trackerVars, policyVars, storeVars, idVars, leg, plans, refused>>

(* An invalid leg that is not taken off the plan. *)
RefuseLegAgain(w) ==
  /\ Step(w, "legs", "legs")
  /\ plan[w].legs # <<>>
  /\ Head(plan[w].legs).currency = NoCurrency \/ Head(plan[w].legs).notional <= 0
  /\ UNCHANGED <<trackerVars, policyVars, storeVars, idVars, plan, leg, plans, refused>>

RefuseLeg(w) ==
  /\ Step(w, "legs", "legs")
  /\ plan[w].legs # <<>>
  /\ Head(plan[w].legs).currency = NoCurrency \/ Head(plan[w].legs).notional <= 0
  /\ plan' = [plan EXCEPT ![w].legs = Tail(@)]
  /\ UNCHANGED <<trackerVars, policyVars, storeVars, idVars, leg, plans, refused>>

(* The client request id is unique to the leg, so its lookup never finds a *)
(* hedge and the index entry is never read: it is left empty here.         *)
OpenLeg(w) ==
  /\ Step(w, "legs", "route")
  /\ plan[w].legs # <<>>
  /\ Head(plan[w].legs).currency # NoCurrency /\ Head(plan[w].legs).notional > 0
  /\ issued' = issued + 1
  /\ LET c == Head(plan[w].legs).currency
     IN  leg' = [leg EXCEPT ![w] =
                   [id |-> issued + 1, todo |-> <<>>,
                    h |-> [currency |-> c, notional |-> Head(plan[w].legs).notional,
                           status |-> "PENDING", request |-> NoRequestId,
                           quotedRate |-> 0, fills |-> <<>>, slippageBPS |-> 0, pnl |-> 0,
                           capBreached |-> Decide(c, GetExposure(c)).blockedByCap]]]
  /\ UNCHANGED <<trackerVars, policyVars, storeVars, trades, plan, plans, refused>>

VenueQuotes == [rate: Rates, costBPS: {0}, liquidity: Liquidity] \cup {NoQuote}

(* The fills of the router become trades of the venues, reported or not. *)
AsTrades(fills) ==
  [i \in DOMAIN fills |-> [venue |-> fills[i].venue, trade |-> trades + i,
                           price |-> fills[i].price, amount |-> fills[i].amount]]

QuotedRate(quotes) == IF Quoting(quotes) = <<>> THEN 0 ELSE quotes[BestQuote(quotes)].rate

(* Router.RouteAndExecute.  On an error the hedge is stored as FAILED and  *)
(* the fills the router may have returned with the error are dropped.      *)
RouteLeg(w) ==
  /\ planPc[w] = "route"
  /\ \E quotes, requotes \in [Executor -> VenueQuotes],
     answers \in [Executor -> [short: Shorts, price: Rates] \cup {Refused}] :
       LET out == RouteAndExecute(leg[w].h.notional, quotes, requotes, answers)
           h == [leg[w].h EXCEPT !.quotedRate = QuotedRate(quotes)]
       IN  /\ trades' = trades + Len(out.fills)
           /\ \/ /\ out.ok
                 /\ Step(w, "route", "sample")
                 /\ leg' = [leg EXCEPT ![w].todo = AsTrades(out.fills),
                                       ![w].h = [h EXCEPT !.fills = AsTrades(out.fills)]]
                 /\ UNCHANGED <<storeVars, plan>>
              \/ /\ ~ out.ok
                 /\ Step(w, "route", "legs")
                 /\ StoreHedge(leg[w].id, [h EXCEPT !.status = "FAILED"])
                 /\ leg' = [leg EXCEPT ![w] = NoPlan]
                 /\ plan' = [plan EXCEPT ![w].legs = Tail(@)]
  /\ UNCHANGED <<trackerVars, policyVars, issued, plans, refused>>

(* A sample for the first fill of a leg only. *)
SampleLegOnce(w) ==
  /\ Step(w, "sample", "store")
  /\ AddSlippageSample([currency |-> leg[w].h.currency, trade |-> Head(leg[w].todo).trade,
                        slippageBPS |-> 0])
  /\ UNCHANGED <<trackerVars, policyVars, idVars, plan, leg, plans, refused>>

SampleLeg(w) ==
  /\ \/ /\ Step(w, "sample", "sample")
        /\ leg[w].todo # <<>>
        /\ LET f == Head(leg[w].todo)
               bps == SlippageOf(leg[w].h.quotedRate, f.price)
           IN  /\ AddSlippageSample([currency |-> leg[w].h.currency, trade |-> f.trade,
                                     slippageBPS |-> bps])
               /\ leg' = [leg EXCEPT ![w].todo = Tail(@), ![w].h.slippageBPS = bps]
     \/ /\ Step(w, "sample", "store")
        /\ leg[w].todo = <<>>
        /\ UNCHANGED <<storeVars, leg>>
  /\ UNCHANGED <<trackerVars, policyVars, idVars, plan, plans, refused>>

StoreLeg(w) ==
  /\ Step(w, "store", "cover")
  /\ StoreHedge(leg[w].id, [leg[w].h EXCEPT !.status = "EXECUTED"])
  /\ UNCHANGED <<trackerVars, policyVars, idVars, plan, leg, plans, refused>>

CoverLeg(w) ==
  /\ Step(w, "cover", "legs")
  /\ AddCoverage(leg[w].h.currency, leg[w].h.notional)
  /\ leg' = [leg EXCEPT ![w] = NoPlan]
  /\ plan' = [plan EXCEPT ![w].legs = Tail(@)]
  /\ UNCHANGED <<policyVars, storeVars, idVars, plans, refused>>

PlanStep(w) ==
  \/ CheckPlan(w) \/ FinishPlan(w) \/ RefuseLeg(w) \/ OpenLeg(w) \/ RouteLeg(w)
  \/ SampleLeg(w) \/ StoreLeg(w) \/ CoverLeg(w)

PlanNext == \E w \in PlanWorker : ReceivePlan(w) \/ PlanStep(w)

PlanSpec == PlanInit /\ [][PlanNext]_hedgePlanVars

(* A handler that received a plan is always scheduled again, the locks are *)
(* released, and the calls of the venues return, with an error or not.     *)
FairPlanSpec == PlanSpec /\ \A w \in PlanWorker : WF_hedgePlanVars(PlanStep(w))

-----------------------------------------------------------------------------
(***************************************************************************)
(* Properties.                                                             *)
(***************************************************************************)
Executed(c) == ListHedges(c, "EXECUTED")

(* The handlers between CreateHedge and AddCoverage of a leg for c. *)
Covering(c) == {w \in PlanWorker : planPc[w] = "cover" /\ leg[w].h.currency = c}

(* Coverage is backed by trades: apart from the legs between CreateHedge   *)
(* and AddCoverage it is the notional of the executed hedges, and that is  *)
(* what their fills amount to, up to what the venues left unfilled of the  *)
(* orders they answered.  So executeLeg covers no order that was refused   *)
(* and no failed leg, and no more is traded than was asked for.            *)
CoverageBacked ==
  /\ \A c \in Currency :
       coverage[c] + SumFunction([w \in Covering(c) |-> leg[w].h.notional])
         = SumFunction([id \in Executed(c) |-> hedges[id].notional])
  /\ \A c \in Currency : \A id \in Executed(c) :
       LET filled == FilledAmount(hedges[id].fills)
       IN  /\ filled <= hedges[id].notional
           /\ hedges[id].notional <= filled + Len(hedges[id].fills) * Max(Shorts)

(* Every fill of a stored hedge has its slippage sample, and no trade has  *)
(* two (executeLeg samples each fill before it stores the hedge).          *)
FillsSampled ==
  /\ \A id \in Stored : \A i \in DOMAIN hedges[id].fills :
       \E k \in DOMAIN samples : samples[k].trade = hedges[id].fills[i].trade
  /\ \A i, j \in DOMAIN samples : samples[i].trade = samples[j].trade => i = j

(* SubmitHedgePlan checks a plan and covers its legs in separate critical  *)
(* sections: plans for a currency with a recorded exposure may together    *)
(* hedge beyond the cap, but only by one plan for every other handler, and *)
(* no plan hedges more than the net position and the cap.  (Legs with a    *)
(* negative notional void this: the check subtracts them.)                 *)
OverhedgeBound ==
  \A c \in netKeys :
    LET cap == EffectiveCap(c)
    IN  net[c] >= -cap => Open(c) >= -(cap + (Cardinality(PlanWorker) - 1) * (net[c] + cap))

(* As SubmitHedgePlan is documented: plans that would breach the cap are   *)
(* rejected, so the coverage of a leg never takes the open amount beyond   *)
(* the cap, or further beyond it.                                          *)
PlanCapHolds ==
  [][\A c \in Currency :
       coverage'[c] # coverage[c] =>
         \/ Abs(Open(c)') <= EffectiveCap(c)
         \/ Abs(Open(c)') <= Abs(Open(c))]_hedgePlanVars

(* Every plan that was received is answered, whichever legs are invalid or *)
(* fail (SubmitHedgePlan goes on with the next leg).                       *)
PlanAnswered ==
  \A w \in PlanWorker : planPc[w] = "check" ~> planPc[w] = "idle"
=============================================================================
