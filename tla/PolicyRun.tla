----------------------------- MODULE PolicyRun -----------------------------
(***************************************************************************)
(* policy.Policy over the positions the service can get into when its      *)
(* requests are served one at a time: flows pass the cap guard and hedges  *)
(* of any positive notional are executed.  GET /v1/slippage, which feeds   *)
(* the mean slippage back, is not one step: each call reads the samples of *)
(* its time range and then tunes the currencies one after the other, while *)
(* samples arrive and other calls do the same.                             *)
(***************************************************************************)
EXTENDS Policy, Functions

CONSTANTS
  Traded,       \* the currencies with flows and hedges
  Amount,       \* the amounts of flows, of any sign
  HedgeAmount,  \* the executed notionals of hedges
  SampleBPS,    \* the slippage of one fill
  Analyst,      \* goroutines that serve GET /v1/slippage
  Configured,   \* the override tables the service may start with
  MaxUpdates,   \* bound: flows and hedges of one currency
  MaxSamples    \* bound: slippage samples

ASSUME PolicyRunAssumption ==
  /\ Traded \subseteq Currency /\ Configured \subseteq [Currency -> Override]
  /\ Amount \subseteq Int /\ HedgeAmount \subseteq Int /\ SampleBPS \subseteq Int

VARIABLES
  slippage,     \* the samples in the store, oldest first
  means         \* means[a]: the <<currency, mean>> pairs a has yet to apply

policyRunVars == <<trackerVars, policyVars, slippage, means>>

PolicyRunInit ==
  /\ TrackerInit
  /\ \E o \in Configured : PolicyInit(o)
  /\ slippage = <<>>
  /\ means = [a \in Analyst |-> {}]

(* api.AddExposure without an event id, served alone. *)
BookFlow(c, amount) ==
  /\ updatedAt[c] < MaxUpdates
  /\ amount # 0
  /\ ~ CapBlocks(c, amount)
  /\ AddExposure(c, amount)
  /\ UNCHANGED <<policyVars, slippage, means>>

(* api.CreateHedge adds its executed notional whatever the policy says. *)
ExecuteHedge(c, notional) ==
  /\ updatedAt[c] < MaxUpdates
  /\ AddCoverage(c, notional)
  /\ UNCHANGED <<policyVars, slippage, means>>

(* A fill's sample reaches the store. *)
AddSample(c, bps) ==
  /\ Len(slippage) < MaxSamples
  /\ slippage' = Append(slippage, [currency |-> c, bps |-> bps])
  /\ UNCHANGED <<trackerVars, policyVars, means>>

(* The sum where the mean was meant. *)
SumOf(range) == SumFunction([i \in range |-> slippage[i].bps])

(* The mean of the samples at these places; the code's is a float, and the *)
(* instances keep to samples whose means are integers.                     *)
MeanOf(range) ==
  SumFunction([i \in range |-> slippage[i].bps]) \div Cardinality(range)

(* SlippageSamples of one currency, from the i-th to the j-th. *)
SlippageSamples(c, i, j) == {k \in i .. j : slippage[k].currency = c}

(* SlippageSamples of one pair, or of all, in a time range, and the mean   *)
(* of each currency found.  Without samples nothing is tuned.  The         *)
(* aggregates of the answer are left out.                                  *)
ReadSlippage(a) ==
  /\ means[a] = {}
  /\ \E asked \in {Currency} \cup {{c} : c \in Currency}, i, j \in DOMAIN slippage :
       means' = [means EXCEPT ![a] =
         {<<c, MeanOf(SlippageSamples(c, i, j))>> :
            c \in {d \in asked : SlippageSamples(d, i, j) # {}}}]
  /\ UNCHANGED <<trackerVars, policyVars, slippage>>

(* ApplySlippageTuning of the next currency, in the order of a Go map. *)
TuneSlippage(a) ==
  /\ \E m \in means[a] :
       /\ ApplySlippageTuning(m[1], m[2])
       /\ means' = [means EXCEPT ![a] = @ \ {m}]
  /\ UNCHANGED <<trackerVars, slippage>>

PolicyRunNext ==
  \/ \E c \in Traded :
       \/ \E a \in Amount : BookFlow(c, a)
       \/ \E n \in HedgeAmount : ExecuteHedge(c, n)
  \/ \E c \in Currency, b \in SampleBPS : AddSample(c, b)
  \/ \E a \in Analyst : ReadSlippage(a) \/ TuneSlippage(a)

PolicyRunSpec == PolicyRunInit /\ [][PolicyRunNext]_policyRunVars

-----------------------------------------------------------------------------
(* The open amount, scaled by Den, if the hedge Decide asks for is         *)
(* executed: a hedge only ever adds to the coverage.                       *)
OpenIfFollowed(c) == Open(c) * Den - Decide(c, GetExposure(c)).notional

(* Following Policy.Decide on a long position that is not over-hedged      *)
(* meets the cap and the target ratio, and does not over-hedge, whatever   *)
(* overrides and slippage tuning say.                                      *)
DecisionMeetsTarget ==
  \A c \in netKeys : net[c] > 0 /\ Open(c) >= 0 =>
    /\ 0 <= OpenIfFollowed(c)
    /\ OpenIfFollowed(c) <= EffectiveCap(c) * Den
    /\ OpenIfFollowed(c) <= net[c] * (Den - EffectiveRatio(c))

(* The flag Policy.Decide puts on a hedge agrees with Policy.Breach for    *)
(* every position that is not flat.                                        *)
FlagAgreesWithBreach ==
  \A c \in netKeys : net[c] # 0 =>
    (Decide(c, GetExposure(c)).blockedByCap <=> Breach(c, GetExposure(c)))

(* However many GET /v1/slippage calls overlap, and whatever time ranges   *)
(* they ask for, the tuning of a currency stays between its smallest and   *)
(* its largest sample: no call mixes in another currency's samples.        *)
TuningIsAMean ==
  \A c \in Currency : tuning[c] # 0 =>
    \E i, j \in DOMAIN slippage :
      /\ ToUpper[slippage[i].currency] = c /\ ToUpper[slippage[j].currency] = c
      /\ slippage[i].bps <= tuning[c] /\ tuning[c] <= slippage[j].bps
=============================================================================
