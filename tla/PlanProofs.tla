----------------------------- MODULE PlanProofs -----------------------------
(***************************************************************************)
(* The policy and its slippage tuning, the latency counters and the hedge  *)
(* plans of the gRPC service, each for every value of its constants.       *)
(***************************************************************************)
EXTENDS PolicyRun, Latency, HedgePlan, Sums

-----------------------------------------------------------------------------
(***************************************************************************)
(* The policy.  What Policy.Decide and Policy.Breach promise is a matter   *)
(* of arithmetic on any position; all the run contributes is that amounts, *)
(* ratios and caps are integers.                                           *)
(***************************************************************************)
PolicyRunTypes ==
  /\ net \in [Currency -> Int] /\ coverage \in [Currency -> Int] /\ netKeys \subseteq Currency
  /\ updatedAt \in [Currency -> Nat] /\ PolicyTypeOK

(* The types of the policy's run are inductive. *)
LEMMA PolicyRunInductive ==
  /\ PolicyRunInit => PolicyRunTypes
  /\ PolicyRunTypes /\ means \in [Analyst -> SUBSET (Currency \X Int)]
       /\ [PolicyRunNext]_policyRunVars => PolicyRunTypes'
<1>1. ASSUME PolicyRunInit PROVE PolicyRunTypes
  <2>1. PICK o \in [Currency -> Override] : PolicyInit(o)
    BY <1>1, PolicyRunAssumption, Zenon DEF PolicyRunInit
  <2>2. NoOverride \in Override
    BY DEF NoOverride, Override
  <2>3. PolicyTypeOK
    BY <2>1, <2>2 DEF PolicyInit, PolicyTypeOK
  <2> QED
    BY <1>1, <2>3 DEF PolicyRunInit, TrackerInit, PolicyRunTypes
<1>2. ASSUME PolicyRunTypes, means \in [Analyst -> SUBSET (Currency \X Int)],
             [PolicyRunNext]_policyRunVars
      PROVE  PolicyRunTypes'
  <2>1. CASE UNCHANGED policyRunVars
    BY <1>2, <2>1, Zenon DEF policyRunVars, trackerVars, positionVars, policyVars, PolicyRunTypes, PolicyTypeOK
  <2>2. ASSUME NEW c \in Traded, NEW a \in Amount, BookFlow(c, a) PROVE PolicyRunTypes'
    BY <1>2, <2>2, PolicyRunAssumption
       DEF BookFlow, AddExposure, applyDelta, policyVars, PolicyRunTypes, PolicyTypeOK
  <2>3. ASSUME NEW c \in Traded, NEW n \in HedgeAmount, ExecuteHedge(c, n) PROVE PolicyRunTypes'
    BY <1>2, <2>3, PolicyRunAssumption
       DEF ExecuteHedge, AddCoverage, policyVars, PolicyRunTypes, PolicyTypeOK
  <2>4. ASSUME NEW c \in Currency, NEW b \in SampleBPS, AddSample(c, b) PROVE PolicyRunTypes'
    BY <1>2, <2>4, Zenon DEF AddSample, trackerVars, positionVars, policyVars, PolicyRunTypes, PolicyTypeOK
  <2>5. ASSUME NEW a \in Analyst, ReadSlippage(a) PROVE PolicyRunTypes'
    BY <1>2, <2>5, Zenon DEF ReadSlippage, trackerVars, positionVars, policyVars, PolicyRunTypes, PolicyTypeOK
  <2>6. ASSUME NEW a \in Analyst, TuneSlippage(a) PROVE PolicyRunTypes'
    <3>1. PICK m \in means[a] : ApplySlippageTuning(m[1], m[2])
      BY <2>6, Zenon DEF TuneSlippage
    <3>2. m[1] \in Currency /\ m[2] \in Int
      BY <1>2, <3>1
    <3> QED
      BY <1>2, <2>6, <3>1, <3>2, DomainAssumption, Zenon
         DEF TuneSlippage, ApplySlippageTuning, trackerVars, positionVars, PolicyRunTypes, PolicyTypeOK
  <2> QED
    BY <1>2, <2>1, <2>2, <2>3, <2>4, <2>5, <2>6, Zenon DEF PolicyRunNext
<1> QED
  BY <1>1, <1>2, Zenon

(* EffectiveRatio is a ratio and EffectiveCap a cap, whatever an override  *)
(* says: only positive entries are used, and the ratio is clamped.         *)
LEMMA EffectiveTypes ==
  ASSUME PolicyTypeOK, NEW c \in Currency
  PROVE  EffectiveRatio(c) \in 0 .. Den /\ EffectiveCap(c) \in Nat
<1>1. /\ overrides[ToUpper[c]].ratio \in Int /\ overrides[ToUpper[c]].capUSD \in Int
  BY DomainAssumption, Zenon DEF PolicyTypeOK, Override
<1>2. EffectiveCap(c) \in Nat
  BY <1>1, PolicyAssumption DEF EffectiveCap
<1>3. ASSUME NEW x \in Int PROVE Clamp(x, 0, Den) \in 0 .. Den
  BY <1>3, PolicyAssumption DEF Clamp
<1>4. EffectiveRatio(c) \in 0 .. Den
  <2>1. PICK base \in Int : base = IF overrides[ToUpper[c]].ratio > 0 THEN overrides[ToUpper[c]].ratio
                                                                     ELSE HedgeRatioTarget
    BY <1>1, PolicyAssumption
  <2>2. PICK x \in Int : x = IF SlippageAlertBPS > 0 /\ tuning[ToUpper[c]] > SlippageAlertBPS
                               THEN base + WideningStep ELSE base
    BY PolicyAssumption
  <2>3. EffectiveRatio(c) = Clamp(x, 0, Den)
    BY <2>1, <2>2, Zenon DEF EffectiveRatio
  <2> QED
    BY <1>3, <2>3, Zenon
<1> QED
  BY <1>2, <1>4, Zenon

(* The arithmetic of Decide on a long position n covered by v, with ratio  *)
(* r out of d and cap k.                                                   *)
LEMMA DecideArithmetic ==
  ASSUME NEW n \in Int, NEW v \in Int, NEW d \in Nat \ {0}, NEW r \in 0 .. d, NEW k \in Nat,
         n > 0, n - v >= 0
  PROVE  /\ 0 <= n * (d - r) /\ 0 <= k * d /\ 0 <= (n - v) * d
         /\ (n - v) * d - (n * r - v * d) = n * (d - r)
         /\ n - v <= k => (n - v) * d <= k * d
<1>1. /\ n * (d - r) = n * d - n * r /\ (n - v) * d = n * d - v * d
      /\ n * d \in Int /\ n * r \in Int /\ v * d \in Int
  OBVIOUS
<1>2. \A a, b \in Nat : 0 <= a * b
  OBVIOUS
<1>3. 0 <= n * (d - r) /\ 0 <= k * d /\ 0 <= (n - v) * d
  <2>1. n \in Nat /\ d - r \in Nat /\ n - v \in Nat
    OBVIOUS
  <2> QED
    BY <1>2, <2>1, Zenon
<1>4. ASSUME n - v <= k PROVE (n - v) * d <= k * d
  <2>1. 0 <= (k - (n - v)) * d
    BY <1>2, <1>4
  <2>2. (k - (n - v)) * d = k * d - (n - v) * d /\ k * d \in Int /\ (n - v) * d \in Int
    OBVIOUS
  <2> QED
    BY <2>1, <2>2
<1> QED
  BY <1>1, <1>3, <1>4

(* What Tracker.GetExposure returns for a currency with a position. *)
LEMMA ExposureGot ==
  ASSUME PolicyRunTypes, NEW c \in netKeys
  PROVE  /\ GetExposure(c) # NoExposure
         /\ GetExposure(c).netAmount = net[c] /\ GetExposure(c).hedgeCoverage = coverage[c]
         /\ GetExposure(c).openAmount = net[c] - coverage[c]
         /\ net[c] \in Int /\ coverage[c] \in Int /\ c \in Currency
<1>1. /\ c \in Currency /\ net[c] \in Int /\ coverage[c] \in Int /\ updatedAt[c] \in Nat
  BY Zenon DEF PolicyRunTypes
<1>2. GetExposure(c) = Snapshot(c)
  BY Zenon DEF GetExposure
<1>3. Snapshot(c) \in Exposure
  BY <1>1 DEF Snapshot, Exposure, Open
<1> QED
  BY <1>1, <1>2, <1>3, TrackerAssumption DEF Snapshot, Open

(* DecisionMeetsTarget is a fact about one position. *)
LEMMA DecideMeetsTarget ==
  ASSUME PolicyRunTypes, NEW c \in netKeys, net[c] > 0, Open(c) >= 0
  PROVE  /\ 0 <= OpenIfFollowed(c)
         /\ OpenIfFollowed(c) <= EffectiveCap(c) * Den
         /\ OpenIfFollowed(c) <= net[c] * (Den - EffectiveRatio(c))
<1>1. c \in Currency
  BY Zenon DEF PolicyRunTypes
<1>2. PICK n \in Int, v \in Int : n = net[c] /\ v = coverage[c] /\ Open(c) = n - v
  BY <1>1, Zenon DEF PolicyRunTypes, Open
<1>3. PICK d \in Nat \ {0}, k \in Nat : d = Den /\ k = EffectiveCap(c)
  BY <1>1, EffectiveTypes, PolicyAssumption, Zenon DEF PolicyRunTypes
<1>r. PICK r \in 0 .. d : r = EffectiveRatio(c)
  BY <1>1, <1>3, EffectiveTypes, Zenon DEF PolicyRunTypes
<1>4. n > 0 /\ n - v >= 0
  BY <1>2, Zenon
<1>5. PICK o \in Int, s \in Int, t \in Int, z \in Int :
        o = (n - v) * d /\ s = n * r - v * d /\ t = n * (d - r) /\ z = k * d
  OBVIOUS
<1>6. 0 <= t /\ 0 <= z /\ 0 <= o /\ o - s = t /\ (n - v <= k => o <= z)
  BY <1>4, <1>5, DecideArithmetic, SMTT(30)
<1>7. Decide(c, GetExposure(c)).notional =
        IF n - v > k THEN o ELSE IF s > 0 THEN s ELSE 0
  <2>1. /\ GetExposure(c) # NoExposure /\ GetExposure(c).netAmount = n
        /\ GetExposure(c).hedgeCoverage = v
    BY <1>2, ExposureGot, Zenon
  <2> QED
    BY <1>3, <1>r, <1>4, <1>5, <2>1 DEF Decide, Decision, Abs
<1>8. OpenIfFollowed(c) = o - (IF n - v > k THEN o ELSE IF s > 0 THEN s ELSE 0)
  BY <1>2, <1>3, <1>r, <1>5, <1>7, Zenon DEF OpenIfFollowed
<1>9. 0 <= OpenIfFollowed(c) /\ OpenIfFollowed(c) <= z /\ OpenIfFollowed(c) <= t
  BY <1>4, <1>6, <1>8
<1> QED
  BY <1>2, <1>3, <1>r, <1>5, <1>9, Zenon

(* FlagAgreesWithBreach is one as well. *)
LEMMA FlagIsBreach ==
  ASSUME PolicyRunTypes, NEW c \in netKeys, net[c] # 0
  PROVE  Decide(c, GetExposure(c)).blockedByCap <=> Breach(c, GetExposure(c))
<1>1. PICK n \in Int, v \in Int :
        /\ GetExposure(c).netAmount = n /\ GetExposure(c).hedgeCoverage = v
        /\ GetExposure(c).openAmount = n - v /\ n # 0
  BY ExposureGot, Zenon
<1>2. GetExposure(c) # NoExposure
  BY ExposureGot, Zenon
<1>3. Decide(c, GetExposure(c)).blockedByCap <=> Abs(n - v) > EffectiveCap(c)
  BY <1>1, <1>2, Zenon DEF Decide, Decision
<1>4. Breach(c, GetExposure(c)) <=> Abs(n - v) > EffectiveCap(c)
  BY <1>1, <1>2, Zenon DEF Breach
<1> QED
  BY <1>3, <1>4, Zenon

-----------------------------------------------------------------------------
(***************************************************************************)
(* The slippage tuning.  A mean lies between a smallest and a largest      *)
(* sample of its currency, and samples stay in the store: that holds of    *)
(* the means a call has yet to apply as well as of those applied.          *)
(***************************************************************************)
TuningWitnessed(c, m) ==
  \E i, j \in DOMAIN slippage :
    /\ ToUpper[slippage[i].currency] = c /\ ToUpper[slippage[j].currency] = c
    /\ slippage[i].bps <= m /\ m <= slippage[j].bps

TuningInv ==
  /\ PolicyRunTypes
  /\ slippage \in Seq([currency: Currency, bps: Int])
  /\ means \in [Analyst -> SUBSET (Currency \X Int)]
  /\ \A a \in Analyst : \A m \in means[a] : TuningWitnessed(ToUpper[m[1]], m[2])
  /\ \A c \in Currency : tuning[c] # 0 => TuningWitnessed(c, tuning[c])

(* The mean of finitely many integers, rounded down, lies between two of   *)
(* them.                                                                   *)
LEMMA MeanBetween ==
  ASSUME NEW f, IsFiniteSet(DOMAIN f), DOMAIN f # {}, IntOn(f, DOMAIN f)
  PROVE  LET m == SumFunction(f) \div Cardinality(DOMAIN f)
         IN  m \in Int /\ \E x, y \in DOMAIN f : f[x] <= m /\ m <= f[y]
<1>1. PICK s \in Int : s = SumFunction(f)
  BY SumType, Zenon
<1>2. PICK n \in Nat \ {0} : n = Cardinality(DOMAIN f)
  BY FS_CardinalityType, FS_EmptySet, Zenon
<1>3. PICK m \in Int : m = s \div n
  OBVIOUS
<1>4. m * n <= s /\ s < (m + 1) * n
  BY <1>3
<1>5. ASSUME \A x \in DOMAIN f : ~ (f[x] <= m) PROVE FALSE
  <2>1. \A x \in DOMAIN f : f[x] >= m + 1
    BY <1>5 DEF IntOn
  <2>2. m + 1 \in Int
    OBVIOUS
  <2>3. s >= (m + 1) * n
    BY <1>1, <1>2, <2>1, <2>2, SumBounds, Zenon
  <2> QED
    BY <1>4, <2>3
<1>6. ASSUME \A x \in DOMAIN f : ~ (m <= f[x]) PROVE FALSE
  <2>1. \A x \in DOMAIN f : f[x] <= m - 1
    BY <1>6 DEF IntOn
  <2>2. m - 1 \in Int
    OBVIOUS
  <2>3. s <= (m - 1) * n
    BY <1>1, <1>2, <2>1, <2>2, SumBounds, Zenon
  <2>4. (m - 1) * n = m * n - n
    OBVIOUS
  <2> QED
    BY <1>4, <2>3, <2>4
<1> QED
  BY <1>1, <1>2, <1>3, <1>5, <1>6, Zenon

(* An element of a sequence. *)
LEMMA SampleIn == ASSUME NEW R, NEW s \in Seq(R), NEW k \in DOMAIN s PROVE s[k] \in R
OBVIOUS

(* The means GET /v1/slippage computes are witnessed by samples. *)
LEMMA MeansWitnessed ==
  ASSUME TuningInv, NEW c \in Currency, NEW i \in DOMAIN slippage, NEW j \in DOMAIN slippage,
         SlippageSamples(c, i, j) # {}
  PROVE  /\ MeanOf(SlippageSamples(c, i, j)) \in Int
         /\ TuningWitnessed(ToUpper[c], MeanOf(SlippageSamples(c, i, j)))
<1> DEFINE S == SlippageSamples(c, i, j)
           f == [k \in S |-> slippage[k].bps]
<1>1. slippage \in Seq([currency: Currency, bps: Int])
  BY Zenon DEF TuningInv
<1>2. i \in Int /\ j \in Int /\ i .. j \subseteq DOMAIN slippage
  BY <1>1
<1>3. S \subseteq i .. j /\ \A k \in S : slippage[k].currency = c
  BY Zenon DEF SlippageSamples
<1>4. IsFiniteSet(S)
  BY <1>2, <1>3, FS_Interval, FS_Subset, Zenon
<1>5. S \subseteq DOMAIN slippage /\ \A k \in S : slippage[k].bps \in Int
  <2>1. S \subseteq DOMAIN slippage
    BY <1>2, <1>3, Zenon
  <2>2. ASSUME NEW k \in DOMAIN slippage PROVE slippage[k].bps \in Int
    <3>1. slippage[k] \in [currency: Currency, bps: Int]
      BY <1>1, SampleIn, Zenon
    <3> QED
      BY <3>1, Zenon
  <2> QED
    BY <2>1, <2>2, Zenon
<1>6. DOMAIN f = S /\ IntOn(f, DOMAIN f) /\ DOMAIN f # {}
  BY <1>5, Zenon DEF IntOn
<1>7. MeanOf(S) = SumFunction(f) \div Cardinality(S)
  BY Zenon DEF MeanOf
<1>8. \A k \in S : f[k] = slippage[k].bps
  BY Zenon
<1> HIDE DEF S, f
<1>9. MeanOf(S) \in Int /\ \E x, y \in S : f[x] <= MeanOf(S) /\ MeanOf(S) <= f[y]
  BY <1>4, <1>6, <1>7, MeanBetween, Zenon
<1>10. TuningWitnessed(ToUpper[c], MeanOf(S))
  <2>1. PICK x \in S, y \in S : f[x] <= MeanOf(S) /\ MeanOf(S) <= f[y]
    BY <1>9, Zenon
  <2> QED
    BY <1>3, <1>5, <1>8, <2>1, Zenon DEF TuningWitnessed
<1> QED
  BY <1>9, <1>10, Zenon DEF S

(* A sample that was added stays: what was witnessed stays witnessed. *)
LEMMA WitnessKept ==
  ASSUME NEW c, NEW m, TuningWitnessed(c, m), slippage \in Seq([currency: Currency, bps: Int]),
         NEW r \in [currency: Currency, bps: Int], slippage' = Append(slippage, r)
  PROVE  TuningWitnessed(c, m)'
<1>1. DOMAIN slippage \subseteq DOMAIN slippage' /\ \A i \in DOMAIN slippage : slippage'[i] = slippage[i]
  BY SMTT(30)
<1> QED
  BY <1>1, Zenon DEF TuningWitnessed

(* The invariant behind TuningIsAMean is inductive. *)
LEMMA TuningInductive ==
  /\ PolicyRunInit => TuningInv
  /\ TuningInv /\ [PolicyRunNext]_policyRunVars => TuningInv'
<1>1. ASSUME PolicyRunInit PROVE TuningInv
  <2>1. PolicyRunTypes /\ slippage = <<>> /\ means = [a \in Analyst |-> {}]
    BY <1>1, PolicyRunInductive, Zenon DEF PolicyRunInit
  <2>2. \A c \in Currency : tuning[c] = 0
    BY <1>1, Zenon DEF PolicyRunInit, PolicyInit
  <2> QED
    BY <2>1, <2>2 DEF TuningInv
<1>2. ASSUME TuningInv, [PolicyRunNext]_policyRunVars PROVE TuningInv'
  <2>0. /\ slippage \in Seq([currency: Currency, bps: Int])
        /\ means \in [Analyst -> SUBSET (Currency \X Int)]
        /\ \A a \in Analyst : \A m \in means[a] : TuningWitnessed(ToUpper[m[1]], m[2])
        /\ \A c \in Currency : tuning[c] # 0 => TuningWitnessed(c, tuning[c])
    BY <1>2, Zenon DEF TuningInv
  <2>1. PolicyRunTypes'
    BY <1>2, <2>0, PolicyRunInductive, Zenon DEF TuningInv
  <2>2. ASSUME UNCHANGED <<slippage, means, tuning>> PROVE TuningInv'
    <3>1. \A c, m : TuningWitnessed(c, m)' <=> TuningWitnessed(c, m)
      BY <2>2 DEF TuningWitnessed
    <3> QED
      BY <2>0, <2>1, <2>2, <3>1, Zenon DEF TuningInv
  <2>3. ASSUME NEW c \in Currency, NEW b \in SampleBPS, AddSample(c, b) PROVE TuningInv'
    <3>1. PICK r \in [currency: Currency, bps: Int] : slippage' = Append(slippage, r)
      BY <2>3, PolicyRunAssumption, Zenon DEF AddSample
    <3>2. UNCHANGED <<means, tuning>>
      BY <2>3, Zenon DEF AddSample, policyVars
    <3>3. \A d, m : TuningWitnessed(d, m) => TuningWitnessed(d, m)'
      BY <2>0, <3>1, WitnessKept, Zenon
    <3>4. slippage' \in Seq([currency: Currency, bps: Int])
      BY <2>0, <3>1
    <3> QED
      BY <2>0, <2>1, <3>2, <3>3, <3>4, Zenon DEF TuningInv
  <2>4. ASSUME NEW a \in Analyst, ReadSlippage(a) PROVE TuningInv'
    <3>1. PICK asked \in {Currency} \cup {{c} : c \in Currency}, i \in DOMAIN slippage, j \in DOMAIN slippage :
            means' = [means EXCEPT ![a] =
              {<<c, MeanOf(SlippageSamples(c, i, j))>> :
                 c \in {d \in asked : SlippageSamples(d, i, j) # {}}}]
      BY <2>4, Zenon DEF ReadSlippage
    <3>2. UNCHANGED <<slippage, tuning>>
      BY <2>4, Zenon DEF ReadSlippage, policyVars
    <3>3. asked \subseteq Currency
      BY Zenon
    <3>4. ASSUME NEW m \in means'[a]
          PROVE  m \in Currency \X Int /\ TuningWitnessed(ToUpper[m[1]], m[2])
      <4>1. PICK c \in asked : m = <<c, MeanOf(SlippageSamples(c, i, j))>> /\ SlippageSamples(c, i, j) # {}
        BY <2>0, <3>1, <3>4, Zenon
      <4> QED
        BY <1>2, <3>3, <4>1, MeansWitnessed, Zenon
    <3>5. \A b \in Analyst \ {a} : means'[b] = means[b]
      BY <2>0, <3>1, Zenon
    <3>6. means' \in [Analyst -> SUBSET (Currency \X Int)]
      BY <2>0, <3>1, <3>4, Zenon
    <3>7. \A c, m : TuningWitnessed(c, m)' <=> TuningWitnessed(c, m)
      BY <3>2, Zenon DEF TuningWitnessed
    <3>8. \A b \in Analyst : \A m \in means'[b] : TuningWitnessed(ToUpper[m[1]], m[2])
      BY <2>0, <3>4, <3>5, Zenon
    <3> QED
      BY <2>0, <2>1, <3>2, <3>6, <3>7, <3>8, Zenon DEF TuningInv
  <2>5. ASSUME NEW a \in Analyst, TuneSlippage(a) PROVE TuningInv'
    <3>1. PICK m \in means[a] : ApplySlippageTuning(m[1], m[2]) /\ means' = [means EXCEPT ![a] = @ \ {m}]
      BY <2>5, Zenon DEF TuneSlippage
    <3>2. m[1] \in Currency /\ m[2] \in Int /\ TuningWitnessed(ToUpper[m[1]], m[2])
      BY <2>0, <3>1
    <3>3. UNCHANGED slippage /\ tuning' = [tuning EXCEPT ![ToUpper[m[1]]] = m[2]]
      BY <2>5, <3>1, Zenon DEF TuneSlippage, ApplySlippageTuning
    <3>4. \A c, n : TuningWitnessed(c, n)' <=> TuningWitnessed(c, n)
      BY <3>3, Zenon DEF TuningWitnessed
    <3>5. means' \in [Analyst -> SUBSET (Currency \X Int)] /\ \A b \in Analyst : means'[b] \subseteq means[b]
      BY <2>0, <3>1, Zenon
    <3>6. tuning \in [Currency -> Int]
      BY <1>2, Zenon DEF TuningInv, PolicyRunTypes, PolicyTypeOK
    <3>7. \A c \in Currency : tuning'[c] # 0 => TuningWitnessed(c, tuning'[c])
      BY <2>0, <3>2, <3>3, <3>6, Zenon
    <3> QED
      BY <2>0, <2>1, <3>3, <3>4, <3>5, <3>7, Zenon DEF TuningInv
  <2>6. CASE UNCHANGED policyRunVars
    BY <2>2, <2>6, Zenon DEF policyRunVars, policyVars
  <2>7. ASSUME NEW c \in Traded, NEW a \in Amount, BookFlow(c, a) PROVE TuningInv'
    BY <2>2, <2>7, Zenon DEF BookFlow, policyVars
  <2>8. ASSUME NEW c \in Traded, NEW n \in HedgeAmount, ExecuteHedge(c, n) PROVE TuningInv'
    BY <2>2, <2>8, Zenon DEF ExecuteHedge, policyVars
  <2> QED
    BY <1>2, <2>3, <2>4, <2>5, <2>6, <2>7, <2>8, Zenon DEF PolicyRunNext
<1> QED
  BY <1>1, <1>2, Zenon

(* However calls of GET /v1/slippage overlap, a currency's tuning lies     *)
(* between two of its own samples (TuningIsAMean).                         *)
THEOREM TuningAlwaysAMean == PolicyRunSpec => []TuningIsAMean
<1>1. TuningInv => TuningIsAMean
  BY Zenon DEF TuningInv, TuningIsAMean, TuningWitnessed
<1> QED
  BY <1>1, TuningInductive, PTL DEF PolicyRunSpec

(* Following Policy.Decide meets cap and target, for every override table, *)
(* ratio, cap and sequence of flows, hedges and tunings                    *)
(* (DecisionMeetsTarget).                                                  *)
THEOREM DecisionAlwaysMeetsTarget == PolicyRunSpec => []DecisionMeetsTarget
<1>1. TuningInv => DecisionMeetsTarget
  BY DecideMeetsTarget, Zenon DEF TuningInv, DecisionMeetsTarget
<1> QED
  BY <1>1, TuningInductive, PTL DEF PolicyRunSpec

(* The flag of Policy.Decide and Policy.Breach never disagree on an open   *)
(* position (FlagAgreesWithBreach).                                        *)
THEOREM FlagAlwaysAgrees == PolicyRunSpec => []FlagAgreesWithBreach
<1>1. TuningInv => FlagAgreesWithBreach
  BY FlagIsBreach, Zenon DEF TuningInv, FlagAgreesWithBreach
<1> QED
  BY <1>1, TuningInductive, PTL DEF PolicyRunSpec

-----------------------------------------------------------------------------
(***************************************************************************)
(* LatencyExecutor.  The counters lag behind the orders by exactly the     *)
(* Submits that are still on their way to them.                            *)
(***************************************************************************)
ToCount == {p \in Submitter : at[p] = "count"}
ToExceed == {p \in Submitter : at[p] # "idle" /\ ns[p] > Target}
Over == {i \in DOMAIN observed : observed[i] > Target}

(* The latency of a Submit that has not settled the maximum yet. *)
Unsettled(d) ==
  \E p \in Submitter : at[p] \in {"count", "load", "swap"} /\ ns[p] = d

LatencyTypes ==
  /\ count \in Nat /\ exceeded \in Nat /\ maxObs \in Nat
  /\ at \in [Submitter -> {"idle", "count", "load", "swap", "exceed"}]
  /\ ns \in [Submitter -> Nat] /\ cur \in [Submitter -> Nat]
  /\ observed \in Seq(Nat)

CountsLag ==
  /\ count + Cardinality(ToCount) = Len(observed)
  /\ exceeded + Cardinality(ToExceed) = Cardinality(Over)

MaximumLags ==
  /\ maxObs = 0 \/ \E i \in DOMAIN observed : observed[i] = maxObs
  /\ \A i \in DOMAIN observed : observed[i] <= maxObs \/ Unsettled(observed[i])
  /\ \A p \in Submitter : at[p] # "idle" => \E i \in DOMAIN observed : observed[i] = ns[p]
  /\ \A p \in Submitter : at[p] = "swap" => ns[p] > cur[p]

LatencyInv == LatencyTypes /\ CountsLag /\ MaximumLags

(* Every step of Submit keeps the counters' types. *)
LEMMA LatencyTyped == LatencyTypes /\ LatencyNext => LatencyTypes'
<1> SUFFICES ASSUME LatencyTypes, NEW p \in Submitter,
                    \/ Submitted(p) \/ AddCount(p) \/ LoadMax(p)
                    \/ SwapMax(p) \/ AddExceeded(p)
             PROVE LatencyTypes'
  BY Zenon DEF LatencyNext
<1>1. CASE Submitted(p)
  BY <1>1, LatencyAssumption DEF LatencyTypes, Submitted, Move
<1>2. CASE AddCount(p)
  BY <1>2 DEF LatencyTypes, AddCount, Move
<1>3. CASE LoadMax(p)
  BY <1>3, Zenon DEF LatencyTypes, LoadMax, Move
<1>4. CASE SwapMax(p)
  BY <1>4, Zenon DEF LatencyTypes, SwapMax, Move
<1>5. CASE AddExceeded(p)
  BY <1>5 DEF LatencyTypes, AddExceeded, Move
<1> QED
  BY <1>1, <1>2, <1>3, <1>4, <1>5, Zenon

(* Putting one more element into a finite set, or taking one out, changes  *)
(* its cardinality by one: how a Submit enters and leaves the sets above.  *)
LEMMA OneMore ==
  ASSUME NEW S, NEW T, NEW x, IsFiniteSet(S), x \notin S, T = S \cup {x}
  PROVE  /\ IsFiniteSet(T) /\ Cardinality(S) \in Nat
         /\ Cardinality(T) = Cardinality(S) + 1
BY FS_AddElement, FS_CardinalityType, Zenon

(* The same for an element that is taken out. *)
LEMMA OneLess ==
  ASSUME NEW S, NEW T, NEW x, IsFiniteSet(S), x \in S, T = S \ {x}
  PROVE  Cardinality(T) \in Nat /\ Cardinality(S) = Cardinality(T) + 1
<1>1. IsFiniteSet(T) /\ Cardinality(T) = Cardinality(S) - 1
  BY FS_RemoveElement, Zenon
<1>2. Cardinality(S) \in Nat /\ Cardinality(T) \in Nat
  BY <1>1, FS_CardinalityType, Zenon
<1> QED
  BY <1>1, <1>2

(* The sets that the counters lag behind by are finite. *)
LEMMA LagFinite ==
  ASSUME LatencyTypes
  PROVE  IsFiniteSet(ToCount) /\ IsFiniteSet(ToExceed) /\ IsFiniteSet(Over)
<1>1. IsFiniteSet(DOMAIN observed)
  <2>1. DOMAIN observed = 1 .. Len(observed) /\ Len(observed) \in Nat
    BY DEF LatencyTypes
  <2> QED
    BY <2>1, FS_Interval
<1>2. ToCount \subseteq Submitter /\ ToExceed \subseteq Submitter /\ Over \subseteq DOMAIN observed
  BY Zenon DEF ToCount, ToExceed, Over
<1> QED
  BY <1>1, <1>2, FS_Subset, LatencyAssumption, Zenon

(* Every step of Submit keeps the two counters behind the orders by the    *)
(* Submits that still have to add to them.                                 *)
LEMMA CountsFollow ==
  LatencyTypes /\ CountsLag /\ LatencyNext => CountsLag'
<1> SUFFICES ASSUME LatencyTypes, CountsLag, LatencyTypes', NEW p \in Submitter,
                    \/ Submitted(p) \/ AddCount(p) \/ LoadMax(p)
                    \/ SwapMax(p) \/ AddExceeded(p)
             PROVE CountsLag'
  BY LatencyTyped, Zenon DEF LatencyNext
<1>0. /\ IsFiniteSet(ToCount) /\ IsFiniteSet(ToExceed) /\ IsFiniteSet(Over)
  BY LagFinite, Zenon
<1>z. /\ Cardinality(ToCount) \in Nat /\ Cardinality(ToExceed) \in Nat
      /\ Cardinality(Over) \in Nat
      /\ count \in Nat /\ exceeded \in Nat /\ Len(observed) \in Nat
  BY <1>0, FS_CardinalityType DEF LatencyTypes
<1>1. CASE Submitted(p)
  <2>1. PICK d \in Nat : ns' = [ns EXCEPT ![p] = d] /\ observed' = Append(observed, d)
    BY <1>1, LatencyAssumption, Zenon DEF Submitted
  <2>2. /\ at[p] = "idle" /\ at' = [at EXCEPT ![p] = "count"]
        /\ count' = count /\ exceeded' = exceeded
    BY <1>1, Zenon DEF Submitted, Move
  <2>3. p \notin ToCount /\ ToCount' = ToCount \cup {p}
    BY <2>2, Zenon DEF ToCount, LatencyTypes
  <2>4. Len(observed') = Len(observed) + 1
    BY <2>1 DEF LatencyTypes
  <2>5. Cardinality(ToCount') = Cardinality(ToCount) + 1
    BY <1>0, <2>3, OneMore, Zenon
  <2>6. CASE d > Target
    <3>1. p \notin ToExceed /\ ToExceed' = ToExceed \cup {p}
      BY <2>1, <2>2, <2>6, Zenon DEF ToExceed, LatencyTypes
    <3>2. Len(observed) + 1 \notin Over /\ Over' = Over \cup {Len(observed) + 1}
      BY <2>1, <2>6, SMTT(30) DEF Over, LatencyTypes
    <3>3. Cardinality(ToExceed') = Cardinality(ToExceed) + 1
      BY <1>0, <3>1, OneMore, Zenon
    <3>4. Cardinality(Over') = Cardinality(Over) + 1
      BY <1>0, <3>2, OneMore, Zenon
    <3>5. count' + Cardinality(ToCount') = Len(observed')
      BY <1>z, <2>2, <2>4, <2>5 DEF CountsLag
    <3>6. exceeded' + Cardinality(ToExceed') = Cardinality(Over')
      BY <1>z, <2>2, <3>3, <3>4 DEF CountsLag
    <3> QED
      BY <3>5, <3>6, Zenon DEF CountsLag
  <2>7. CASE ~ (d > Target)
    <3>1. ToExceed' = ToExceed
      BY <2>1, <2>2, <2>7, Zenon DEF ToExceed, LatencyTypes
    <3>2. Over' = Over
      BY <2>1, <2>7, SMTT(30) DEF Over, LatencyTypes
    <3> QED
      BY <1>z, <2>2, <2>4, <2>5, <3>1, <3>2 DEF CountsLag
  <2> QED
    BY <2>6, <2>7, Zenon
<1>2. CASE AddCount(p)
  <2>1. /\ at[p] = "count" /\ at' = [at EXCEPT ![p] = "load"]
        /\ count' = count + 1 /\ exceeded' = exceeded /\ ns' = ns /\ observed' = observed
    BY <1>2, Zenon DEF AddCount, Move
  <2>2. p \in ToCount /\ ToCount' = ToCount \ {p}
    BY <2>1, Zenon DEF ToCount, LatencyTypes
  <2>3. ToExceed' = ToExceed /\ Over' = Over
    BY <2>1, Zenon DEF ToExceed, Over, LatencyTypes
  <2>4. Cardinality(ToCount') \in Nat /\ Cardinality(ToCount) = Cardinality(ToCount') + 1
    BY <1>0, <2>2, OneLess, Zenon
  <2> QED
    BY <1>z, <2>1, <2>3, <2>4 DEF CountsLag
<1>3. CASE LoadMax(p) \/ SwapMax(p)
  <2>1. /\ at[p] \in {"load", "swap"}
        /\ \E next \in {"load", "swap", "exceed"} : at' = [at EXCEPT ![p] = next]
        /\ count' = count /\ exceeded' = exceeded /\ ns' = ns /\ observed' = observed
    BY <1>3, Zenon DEF LoadMax, SwapMax, Move
  <2>2. ToCount' = ToCount /\ ToExceed' = ToExceed /\ Over' = Over
    BY <2>1, Zenon DEF ToCount, ToExceed, Over, LatencyTypes
  <2> QED
    BY <2>1, <2>2, Zenon DEF CountsLag
<1>4. CASE AddExceeded(p)
  <2>1. /\ at[p] = "exceed" /\ at' = [at EXCEPT ![p] = "idle"]
        /\ exceeded' = IF ns[p] > Target THEN exceeded + 1 ELSE exceeded
        /\ count' = count /\ ns' = ns /\ observed' = observed
    BY <1>4, Zenon DEF AddExceeded, Move
  <2>2. ToCount' = ToCount /\ Over' = Over
    BY <2>1, Zenon DEF ToCount, Over, LatencyTypes
  <2>3. CASE ns[p] > Target
    <3>1. p \in ToExceed /\ ToExceed' = ToExceed \ {p}
      BY <2>1, <2>3, Zenon DEF ToExceed, LatencyTypes
    <3>2. Cardinality(ToExceed') \in Nat /\ Cardinality(ToExceed) = Cardinality(ToExceed') + 1
      BY <1>0, <3>1, OneLess, Zenon
    <3> QED
      BY <1>z, <2>1, <2>2, <2>3, <3>2 DEF CountsLag
  <2>4. CASE ~ (ns[p] > Target)
    <3>1. ToExceed' = ToExceed
      BY <2>1, <2>4, Zenon DEF ToExceed, LatencyTypes
    <3> QED
      BY <2>1, <2>2, <2>4, <3>1 DEF CountsLag
  <2> QED
    BY <2>3, <2>4, Zenon
<1> QED
  BY <1>1, <1>2, <1>3, <1>4, Zenon

(* Every step of Submit keeps the maximum a latency that was observed, and *)
(* every larger one in the hands of a Submit that will still compare it:   *)
(* the compare-and-swap replaces only the value that it was compared with. *)
LEMMA MaximumFollows ==
  LatencyTypes /\ MaximumLags /\ LatencyNext => MaximumLags'
<1> SUFFICES ASSUME LatencyTypes, MaximumLags, LatencyTypes', NEW p \in Submitter,
                    \/ Submitted(p) \/ AddCount(p) \/ LoadMax(p)
                    \/ SwapMax(p) \/ AddExceeded(p)
             PROVE MaximumLags'
  BY LatencyTyped, ZenonT(30) DEF LatencyNext
<1>1. CASE Submitted(p)
  <2>1. PICK d \in Nat : ns' = [ns EXCEPT ![p] = d] /\ observed' = Append(observed, d)
    BY <1>1, LatencyAssumption, ZenonT(30) DEF Submitted
  <2>2. /\ at[p] = "idle" /\ at' = [at EXCEPT ![p] = "count"]
        /\ maxObs' = maxObs /\ cur' = cur
    BY <1>1, Zenon DEF Submitted, Move
  <2>3. /\ Len(observed) + 1 \in DOMAIN observed' /\ observed'[Len(observed) + 1] = d
        /\ \A i \in DOMAIN observed : i \in DOMAIN observed' /\ observed'[i] = observed[i]
        /\ \A i \in DOMAIN observed' : i \in DOMAIN observed \/ observed'[i] = d
    BY <2>1, SMTT(30) DEF LatencyTypes
  <2>4. Unsettled(d)'
    BY <2>1, <2>2, Zenon DEF Unsettled, LatencyTypes
  <2>5. \A e : Unsettled(e) => Unsettled(e)'
    BY <2>1, <2>2, Zenon DEF Unsettled, LatencyTypes
  <2>6. \A i \in DOMAIN observed' :
          \/ observed'[i] <= maxObs'
          \/ \E q \in Submitter : at'[q] \in {"count", "load", "swap"} /\ ns'[q] = observed'[i]
    BY <2>2, <2>3, <2>4, <2>5, SMTT(30) DEF MaximumLags, Unsettled
  <2>7. \A q \in Submitter : at'[q] # "idle" => \E i \in DOMAIN observed' : observed'[i] = ns'[q]
    BY <2>1, <2>2, <2>3, SMTT(30) DEF MaximumLags, LatencyTypes
  <2>8. \A q \in Submitter : at'[q] = "swap" => ns'[q] > cur'[q]
    BY <2>1, <2>2, Zenon DEF MaximumLags, LatencyTypes
  <2>9. maxObs' = 0 \/ \E i \in DOMAIN observed' : observed'[i] = maxObs'
    BY <2>2, <2>3, Zenon DEF MaximumLags
  <2> QED
    BY <2>6, <2>7, <2>8, <2>9, ZenonT(30) DEF MaximumLags, Unsettled
<1>2. CASE AddCount(p)
  BY <1>2 DEF AddCount, Move, MaximumLags, LatencyTypes, Unsettled
<1>3. CASE LoadMax(p)
  BY <1>3, SMTT(30) DEF LoadMax, Move, MaximumLags, LatencyTypes, Unsettled
<1>4. CASE SwapMax(p)
  <2>1. /\ at[p] = "swap" /\ UNCHANGED <<ns, cur, observed>>
        /\ at' = [at EXCEPT ![p] = IF maxObs = cur[p] THEN "exceed" ELSE "load"]
        /\ maxObs' = IF maxObs = cur[p] THEN ns[p] ELSE maxObs
    BY <1>4, Zenon DEF SwapMax, Move
  <2>2. /\ maxObs <= maxObs' /\ at'[p] \in {"exceed", "load"}
        /\ at'[p] = "exceed" => maxObs' = ns[p]
        /\ \A q \in Submitter : q # p => at'[q] = at[q]
        /\ \A q \in Submitter : ns[q] \in Nat
        /\ \A i \in DOMAIN observed : observed[i] \in Nat
        /\ maxObs \in Nat /\ maxObs' \in Nat
    BY <2>1 DEF MaximumLags, LatencyTypes
  <2>3. maxObs' = 0 \/ \E i \in DOMAIN observed : observed[i] = maxObs'
    BY <2>1, Zenon DEF MaximumLags
  <2>4. ASSUME NEW i \in DOMAIN observed
        PROVE  \/ observed[i] <= maxObs'
               \/ \E q \in Submitter : at'[q] \in {"count", "load", "swap"} /\ ns[q] = observed[i]
    <3>1. CASE observed[i] <= maxObs
      BY <2>2, <3>1, SMTT(30)
    <3>2. CASE Unsettled(observed[i])
      BY <2>2, <3>2, SMTT(30) DEF Unsettled
    <3> QED
      BY <3>1, <3>2, ZenonT(30) DEF MaximumLags
  <2> QED
    BY <2>1, <2>2, <2>3, <2>4 DEF MaximumLags, Unsettled
<1>5. CASE AddExceeded(p)
  BY <1>5, ZenonT(30) DEF AddExceeded, Move, MaximumLags, LatencyTypes, Unsettled
<1> QED
  BY <1>1, <1>2, <1>3, <1>4, <1>5

(* LatencyExecutor.Stats is exact whenever no Submit is under way, for any *)
(* number of submitters, any SLO and any latencies (StatsAreExact).        *)
THEOREM StatsAlwaysExact == LatencySpec => []StatsAreExact
<1>1. LatencyInit => LatencyInv
  <2> SUFFICES ASSUME LatencyInit PROVE LatencyInv
    BY Zenon
  <2>1. LatencyTypes /\ MaximumLags
    BY DEF LatencyInit, LatencyTypes, MaximumLags
  <2>2. ToCount = {} /\ ToExceed = {} /\ Over = {}
    BY DEF LatencyInit, ToCount, ToExceed, Over
  <2>3. CountsLag
    BY <2>2, FS_EmptySet DEF LatencyInit, CountsLag
  <2> QED
    BY <2>1, <2>3, Zenon DEF LatencyInv
<1>2. LatencyInv /\ [LatencyNext]_latencyVars => LatencyInv'
  <2>1. ASSUME LatencyInv, UNCHANGED latencyVars PROVE LatencyInv'
    <3>1. LatencyTypes' /\ MaximumLags'
      BY <2>1, Zenon DEF latencyVars, LatencyInv, LatencyTypes, MaximumLags, Unsettled
    <3>2. ToCount' = ToCount /\ ToExceed' = ToExceed /\ Over' = Over
      BY <2>1, Zenon DEF latencyVars, ToCount, ToExceed, Over
    <3>3. CountsLag'
      BY <2>1, <3>2, Zenon DEF latencyVars, LatencyInv, CountsLag
    <3> QED
      BY <3>1, <3>3, Zenon DEF LatencyInv
  <2> QED
    BY <2>1, LatencyTyped, CountsFollow, MaximumFollows, Zenon DEF LatencyInv
<1>3. LatencyInv => StatsAreExact
  <2> SUFFICES ASSUME LatencyInv, \A p \in Submitter : at[p] = "idle"
               PROVE  Stats = [count |-> Len(observed), exceeded |-> Cardinality(Over),
                               max |-> Max({0} \cup Range(observed))]
    BY Zenon DEF StatsAreExact, Over
  <2>1. ToCount = {} /\ ToExceed = {}
    BY Zenon DEF ToCount, ToExceed
  <2>2. count = Len(observed) /\ exceeded = Cardinality(Over)
    BY <2>1, FS_EmptySet DEF LatencyInv, LatencyTypes, CountsLag
  <2>3. /\ maxObs \in {0} \cup Range(observed)
        /\ \A d \in {0} \cup Range(observed) : d \in Nat /\ maxObs >= d
    <3>1. \A d : ~ Unsettled(d)
      BY Zenon DEF Unsettled
    <3>2. \A i \in DOMAIN observed : observed[i] \in Nat /\ observed[i] <= maxObs
      <4>1. \A i \in DOMAIN observed : observed[i] <= maxObs
        BY <3>1, Zenon DEF LatencyInv, MaximumLags
      <4> QED
        BY <4>1 DEF LatencyInv, LatencyTypes
    <3>3. 0 \in Nat /\ maxObs \in Nat /\ maxObs >= 0
      BY DEF LatencyInv, LatencyTypes
    <3>4. maxObs \in {0} \cup Range(observed)
      BY Zenon DEF LatencyInv, MaximumLags, Range
    <3>5. ASSUME NEW d \in Range(observed) PROVE d \in Nat /\ maxObs >= d
      <4>1. PICK i \in DOMAIN observed : d = observed[i]
        BY <3>5, Zenon DEF Range
      <4> QED
        BY <3>2, <3>3, <4>1
    <3> QED
      BY <3>3, <3>4, <3>5, Zenon
  <2>4. maxObs = Max({0} \cup Range(observed))
    <3>1. \A d \in {0} \cup Range(observed) :
            (\A e \in {0} \cup Range(observed) : d >= e) => d = maxObs
      BY <2>3
    <3> QED
      BY <2>3, <3>1, Zenon DEF Max
  <2> QED
    BY <2>2, <2>4, Zenon DEF Stats
<1> QED
  BY <1>1, <1>2, <1>3, PTL DEF LatencySpec

-----------------------------------------------------------------------------
(***************************************************************************)
(* OverhedgeBound for any number of handlers, currencies, plans, legs and  *)
(* venues, as long as no leg has a negative notional.                      *)
(*                                                                         *)
(* The argument: a handler that checked its plan for a currency still owes *)
(* at most what the plan proposes for it (Due), and that is at most the    *)
(* net position and the cap, the room.  The coverage and all that is owed  *)
(* never exceed that room once for every handler: a check that passes      *)
(* finds room for the coverage there is and for its own plan, and what the *)
(* others owe is bounded handler by handler.  Executing a leg only moves   *)
(* its notional from what is owed to the coverage, and what the router     *)
(* makes of the leg does not matter.                                       *)
(***************************************************************************)
PlanOf == [legs: Seq(Leg), unchecked: SUBSET (Currency \cup {NoCurrency})]

(* The fields of a plan as SubmitHedgePlan sets it up. *)
LEMMA PlanFields ==
  ASSUME NEW p, NEW legs \in Seq(Leg), NEW u \in SUBSET (Currency \cup {NoCurrency}),
         p = [legs |-> legs, unchecked |-> u]
  PROVE  p.legs = legs /\ p.unchecked = u /\ p \in PlanOf
<1>1. p.legs = legs /\ p.unchecked = u
  OBVIOUS
<1>2. p \in PlanOf
  BY Zenon DEF PlanOf
<1> QED
  BY <1>1, <1>2, Zenon

(* The steps of executeLeg. *)
Executing == {"route", "sample", "store", "cover"}

HedgeShape == {"currency", "notional", "status", "request", "quotedRate", "capBreached",
               "fills", "slippageBPS", "pnl"}

(* The hedge that executeLeg builds is for the first leg. *)
ForFirstLeg(w) ==
  /\ plan[w].legs # <<>>
  /\ DOMAIN leg[w] = {"id", "h", "todo"} /\ DOMAIN leg[w].h = HedgeShape
  /\ leg[w].h.currency = Head(plan[w].legs).currency /\ leg[w].h.currency \in Currency
  /\ leg[w].h.notional = Head(plan[w].legs).notional /\ leg[w].h.notional > 0

PlanShape ==
  /\ net \in [Currency -> Int] /\ coverage \in [Currency -> Nat] /\ netKeys \subseteq Currency
  /\ overrides \in [Currency -> Override]
  /\ planPc \in [PlanWorker -> PlanPc]
  /\ DOMAIN plan = PlanWorker /\ DOMAIN leg = PlanWorker
  /\ \A w \in PlanWorker : planPc[w] # "idle" => plan[w] \in PlanOf
  /\ \A w \in PlanWorker : planPc[w] \in Executing => ForFirstLeg(w)

(* What w may still cover of c for a plan whose check has passed for c. *)
Due(w, c) ==
  IF planPc[w] = "idle" \/ (planPc[w] = "check" /\ c \in plan[w].unchecked) THEN 0
  ELSE Proposed(plan[w].legs, c)

Room(c) == net[c] + EffectiveCap(c)

(* The inductive invariant behind OverhedgeBound. *)
WithinRoom(c) ==
  Room(c) >= 0 =>
    /\ \A w \in PlanWorker : Due(w, c) <= Room(c)
    /\ coverage[c] + SumFunction([w \in PlanWorker |-> Due(w, c)])
         <= Room(c) * Cardinality(PlanWorker)

PlanInv == PlanShape /\ \A c \in netKeys : WithinRoom(c)

-----------------------------------------------------------------------------
(* The legs of a plan for one currency are finitely many. *)
LEMMA LegsFinite ==
  ASSUME LegNotional \subseteq Nat, NEW legs \in Seq(Leg), NEW c \in Currency
  PROVE  /\ IsFiniteSet(LegsOf(legs, c)) /\ LegsOf(legs, c) \subseteq Nat
         /\ \A i \in LegsOf(legs, c) : i \in 1 .. Len(legs) /\ legs[i].notional \in Nat
<1>1. DOMAIN legs = 1 .. Len(legs) /\ Len(legs) \in Nat
  OBVIOUS
<1>2. IsFiniteSet(DOMAIN legs)
  BY <1>1, FS_Interval
<1>3. LegsOf(legs, c) \subseteq DOMAIN legs
  BY Zenon DEF LegsOf
<1>4. \A i \in DOMAIN legs : legs[i].notional \in Nat
  <2>1. \A i \in DOMAIN legs : legs[i] \in Leg
    OBVIOUS
  <2> QED
    BY <2>1, Zenon DEF Leg
<1>5. IsFiniteSet(LegsOf(legs, c))
  BY <1>2, <1>3, FS_Subset, Zenon
<1> QED
  BY <1>1, <1>3, <1>4, <1>5

(* What a plan proposes for a currency is not negative, and nothing when   *)
(* no leg is for it: CheckPlan has no currency to check then.              *)
LEMMA ProposedNat ==
  ASSUME LegNotional \subseteq Nat, NEW legs \in Seq(Leg), NEW c \in Currency
  PROVE  /\ Proposed(legs, c) \in Nat
         /\ LegsOf(legs, c) = {} => Proposed(legs, c) = 0
<1>1. PICK f : f = [i \in LegsOf(legs, c) |-> legs[i].notional]
  BY Zenon
<1>2. /\ DOMAIN f = LegsOf(legs, c) /\ IsFiniteSet(DOMAIN f) /\ IntOn(f, DOMAIN f)
      /\ \A i \in DOMAIN f : f[i] >= 0
  BY <1>1, LegsFinite DEF IntOn
<1>3. SumFunction(f) \in Int
  BY <1>2, SumType, Zenon
<1>4. PICK n \in Nat : n = Cardinality(DOMAIN f)
  BY <1>2, FS_CardinalityType, Zenon
<1>5. SumFunction(f) >= 0 * n
  BY <1>2, <1>4, SumBounds
<1>6. LegsOf(legs, c) = {} => SumFunction(f) = 0
  BY <1>2, SumEmpty, Zenon
<1> QED
  BY <1>1, <1>3, <1>5, <1>6 DEF Proposed

(* What is left to do of a plan once executeLeg is done with its first     *)
(* leg: the proposal goes down by the notional of that leg, if it is for   *)
(* the currency, and stays otherwise.                                      *)
LEMMA ProposedTail ==
  ASSUME LegNotional \subseteq Nat, NEW legs \in Seq(Leg), legs # <<>>, NEW c \in Currency
  PROVE  /\ Tail(legs) \in Seq(Leg) /\ Head(legs).notional \in Nat
         /\ Proposed(legs, c) = Proposed(Tail(legs), c)
                                  + (IF Head(legs).currency = c THEN Head(legs).notional ELSE 0)
<1>1. /\ Tail(legs) \in Seq(Leg) /\ DOMAIN legs = 1 .. Len(legs) /\ Len(legs) \in Nat \ {0}
      /\ DOMAIN Tail(legs) = 1 .. (Len(legs) - 1) /\ Head(legs) = legs[1] /\ legs[1] \in Leg
      /\ \A i \in 1 .. (Len(legs) - 1) : Tail(legs)[i] = legs[i + 1]
  OBVIOUS
<1>2. PICK S : S = LegsOf(legs, c) \ {1}
  BY Zenon
<1>3. PICK f : f = [i \in S |-> legs[i].notional]
  BY Zenon
<1>4. PICK e : e = [i \in LegsOf(Tail(legs), c) |-> Tail(legs)[i].notional]
  BY Zenon
<1>5. /\ IsFiniteSet(LegsOf(legs, c)) /\ LegsOf(legs, c) \subseteq 1 .. Len(legs)
      /\ \A i \in LegsOf(legs, c) : legs[i].notional \in Nat
  BY LegsFinite, Zenon
<1>6. /\ DOMAIN f = S /\ IsFiniteSet(S) /\ S \subseteq Nat /\ IntOn(f, S)
      /\ \A i \in S : i \in 2 .. Len(legs) /\ legs[i].currency = c /\ f[i] = legs[i].notional
  <2>1. IsFiniteSet(S)
    BY <1>2, <1>5, FS_RemoveElement, Zenon
  <2>2. \A i \in S : i \in 1 .. Len(legs) /\ i # 1 /\ legs[i].currency = c /\ legs[i].notional \in Nat
    BY <1>2, <1>5, Zenon DEF LegsOf
  <2> QED
    BY <1>1, <1>3, <2>1, <2>2 DEF IntOn
<1>7. /\ DOMAIN e = {i - 1 : i \in DOMAIN f}
      /\ \A i \in DOMAIN f : e[i - 1] = f[i]
  <2>1. ASSUME NEW i \in S
        PROVE  i - 1 \in LegsOf(Tail(legs), c) /\ Tail(legs)[i - 1] = legs[i]
    BY <1>1, <1>6 DEF LegsOf
  <2>2. ASSUME NEW i \in LegsOf(Tail(legs), c) PROVE i + 1 \in S /\ i = (i + 1) - 1
    BY <1>1, <1>2 DEF LegsOf
  <2> QED
    BY <1>4, <1>6, <2>1, <2>2, Zenon
<1>8. SumFunction(e) = SumFunction(f)
  BY <1>6, <1>7, SumShift, Zenon
<1>9. PICK g : g = [i \in LegsOf(legs, c) |-> legs[i].notional]
  BY Zenon
<1>10. DOMAIN g = LegsOf(legs, c) /\ \A i \in LegsOf(legs, c) : g[i] = legs[i].notional
  BY <1>9, Zenon
<1>p. /\ Proposed(legs, c) = SumFunction(g) /\ Proposed(Tail(legs), c) = SumFunction(e)
      /\ Proposed(Tail(legs), c) \in Nat /\ Head(legs).notional \in Nat
  BY <1>1, <1>4, <1>9, ProposedNat, Zenon DEF Proposed, Leg
<1>11. CASE legs[1].currency = c
  <2>1. 1 \in LegsOf(legs, c)
    BY <1>1, <1>11, SMTT(30) DEF LegsOf
  <2>2. /\ 1 \notin DOMAIN f /\ DOMAIN g = DOMAIN f \cup {1}
        /\ g[1] = legs[1].notional /\ g[1] \in Int /\ \A i \in DOMAIN f : g[i] = f[i]
        /\ IsFiniteSet(DOMAIN f) /\ IntOn(f, DOMAIN f)
    BY <1>2, <1>5, <1>6, <1>10, <2>1, SMTT(30)
  <2>3. SumFunction(g) = SumFunction(f) + g[1]
    <3>1. PICK y : y = 1
      BY Zenon
    <3>2. SumFunction(g) = SumFunction(f) + g[y]
      BY <2>2, <3>1, SumAdd, ZenonT(30)
    <3> QED
      BY <3>1, <3>2, Zenon
  <2> QED
    BY <1>1, <1>8, <1>p, <1>11, <2>2, <2>3, Zenon
<1>12. CASE legs[1].currency # c
  <2>1. /\ DOMAIN g = DOMAIN f /\ \A i \in DOMAIN f : g[i] = f[i]
        /\ IsFiniteSet(DOMAIN f) /\ IntOn(f, DOMAIN f)
    BY <1>2, <1>6, <1>10, <1>12 DEF LegsOf
  <2>2. SumFunction(g) = SumFunction(f)
    BY <2>1, SumSame, Zenon
  <2> QED
    BY <1>1, <1>8, <1>p, <1>12, <2>2
<1> QED
  BY <1>11, <1>12, Zenon

-----------------------------------------------------------------------------
(* The cap that Policy.EffectiveCap returns is not negative. *)
LEMMA CapNat ==
  ASSUME PlanShape, NEW c \in Currency
  PROVE  EffectiveCap(c) \in Nat /\ Room(c) \in Int
<1>1. overrides[ToUpper[c]] \in Override /\ net[c] \in Int
  BY DomainAssumption, Zenon DEF PlanShape
<1> QED
  BY <1>1, PolicyAssumption DEF EffectiveCap, Override, Room

(* What a handler owes is not negative. *)
LEMMA DueNat ==
  ASSUME LegNotional \subseteq Nat, PlanShape, NEW w \in PlanWorker, NEW c \in Currency
  PROVE  Due(w, c) \in Nat
<1>1. CASE planPc[w] = "idle"
  BY <1>1, Zenon DEF Due
<1>2. CASE planPc[w] # "idle"
  <2>1. plan[w].legs \in Seq(Leg)
    BY <1>2, Zenon DEF PlanShape, PlanOf
  <2>2. Proposed(plan[w].legs, c) \in Nat
    BY <2>1, ProposedNat, Zenon
  <2> QED
    BY <2>2, Zenon DEF Due
<1> QED
  BY <1>1, <1>2, Zenon

(* The sum of what the handlers owe, as the sum of a function of them. *)
LEMMA DueSum ==
  ASSUME NEW f \in [PlanWorker -> Nat], NEW g \in [PlanWorker -> Nat], NEW w \in PlanWorker,
         \A u \in PlanWorker \ {w} : g[u] = f[u]
  PROVE  /\ SumFunction(f) \in Int /\ SumFunction(g) = SumFunction(f) - f[w] + g[w]
         /\ \A b \in Int : (\A u \in PlanWorker \ {w} : f[u] <= b)
              => SumFunction(f) - f[w] <= b * Cardinality(PlanWorker) - b
<1>1. IsFiniteSet(PlanWorker) /\ Cardinality(PlanWorker) \in Nat
  BY PlanAssumption, FS_CardinalityType, Zenon
<1>2. /\ DOMAIN f = PlanWorker /\ DOMAIN g = PlanWorker /\ w \in DOMAIN f
      /\ IsFiniteSet(DOMAIN f) /\ IntOn(f, DOMAIN f) /\ g[w] \in Int /\ f[w] \in Int
      /\ DOMAIN g = DOMAIN f /\ \A u \in DOMAIN f \ {w} : g[u] = f[u]
  BY <1>1 DEF IntOn
<1>3. SumFunction(f) \in Int
  BY <1>2, SumType, Zenon
<1>4. SumFunction(g) = SumFunction(f) - f[w] + g[w]
  BY <1>2, SumChange, Zenon
<1>5. ASSUME NEW b \in Int, \A u \in PlanWorker \ {w} : f[u] <= b
      PROVE  SumFunction(f) - f[w] <= b * Cardinality(PlanWorker) - b
  <2>1. PICK e : e = [u \in PlanWorker \ {w} |-> f[u]]
    BY Zenon
  <2>2. /\ DOMAIN e = DOMAIN f \ {w} /\ \A u \in DOMAIN e : e[u] = f[u] /\ e[u] <= b
        /\ IntOn(e, DOMAIN e)
    BY <1>2, <1>5, <2>1, Zenon DEF IntOn
  <2>3. SumFunction(e) = SumFunction(f) - f[w]
    BY <1>2, <2>2, SumRemove, Zenon
  <2>4. IsFiniteSet(DOMAIN e) /\ Cardinality(DOMAIN e) = Cardinality(PlanWorker) - 1
    BY <1>1, <1>2, <2>2, FS_RemoveElement
  <2>5. SumFunction(e) <= b * Cardinality(DOMAIN e)
    BY <2>2, <2>4, SumBounds, Zenon
  <2>6. PICK n \in Int : n = Cardinality(PlanWorker)
    BY <1>1
  <2>7. b * (n - 1) = b * n - b
    OBVIOUS
  <2> QED
    BY <2>3, <2>4, <2>5, <2>6, <2>7, Zenon
<1> QED
  BY <1>3, <1>4, <1>5, Zenon

(* The steps that keep the net positions and the caps, and change what one *)
(* handler owes.                                                           *)
OnlyDue(w, c) ==
  /\ net' = net /\ overrides' = overrides
  /\ \A u \in PlanWorker \ {w} : Due(u, c)' = Due(u, c)

(* A step that moves no more to the coverage than it takes from what is    *)
(* owed keeps both within the room.                                        *)
LEMMA RoomKept ==
  ASSUME LegNotional \subseteq Nat, PlanShape, NEW c \in Currency, WithinRoom(c),
         NEW w \in PlanWorker, OnlyDue(w, c),
         Due(w, c)' \in 0 .. Due(w, c), coverage'[c] \in Nat,
         coverage'[c] + Due(w, c)' <= coverage[c] + Due(w, c)
  PROVE  WithinRoom(c)'
<1>1. \A u \in PlanWorker : Due(u, c) \in Nat
  BY DueNat, Zenon
<1>2. Due(w, c)' \in Nat /\ Due(w, c)' <= Due(w, c) /\ coverage[c] \in Nat
  BY <1>1 DEF PlanShape
<1>3. PICK f, g : f = [u \in PlanWorker |-> Due(u, c)] /\ g = [u \in PlanWorker |-> Due(u, c)']
  BY Zenon
<1>4. /\ f \in [PlanWorker -> Nat] /\ g \in [PlanWorker -> Nat]
      /\ \A u \in PlanWorker \ {w} : g[u] = f[u]
      /\ f[w] = Due(w, c) /\ g[w] = Due(w, c)'
  BY <1>1, <1>2, <1>3, Zenon DEF OnlyDue
<1>5. SumFunction(f) \in Int /\ SumFunction(g) = SumFunction(f) - f[w] + g[w]
  BY <1>4, DueSum, Zenon
<1>6. Room(c)' = Room(c) /\ Room(c) \in Int
  BY CapNat, Zenon DEF OnlyDue, Room, EffectiveCap
<1>7. PICK n \in Int : n = Room(c) * Cardinality(PlanWorker)
  <2>1. Cardinality(PlanWorker) \in Nat
    BY PlanAssumption, FS_CardinalityType, Zenon
  <2> QED
    BY <1>6, <2>1
<1>8. CASE Room(c) < 0
  BY <1>6, <1>8 DEF WithinRoom
<1>9. CASE Room(c) >= 0
  <2>1. (\A u \in PlanWorker : Due(u, c) <= Room(c)) /\ coverage[c] + SumFunction(f) <= n
    BY <1>3, <1>7, <1>9, Zenon DEF WithinRoom
  <2>2. \A u \in PlanWorker : Due(u, c)' <= Room(c)
    BY <1>1, <1>2, <1>6, <2>1, SMTT(30) DEF OnlyDue
  <2>3. coverage'[c] + SumFunction(g) <= n
    BY <1>2, <1>4, <1>5, <2>1
  <2> QED
    BY <1>3, <1>6, <1>7, <2>2, <2>3, Zenon DEF WithinRoom
<1> QED
  BY <1>6, <1>8, <1>9

(* A check that passes has found room for the coverage there is and for    *)
(* the whole plan, and each of the other handlers owes at most the room.   *)
LEMMA RoomChecked ==
  ASSUME LegNotional \subseteq Nat, PlanShape, NEW c \in Currency, WithinRoom(c),
         NEW w \in PlanWorker, OnlyDue(w, c), coverage' = coverage,
         Due(w, c)' \in Nat, coverage[c] + Due(w, c)' <= Room(c)
  PROVE  WithinRoom(c)'
<1>1. \A u \in PlanWorker : Due(u, c) \in Nat
  BY DueNat, Zenon
<1>2. coverage[c] \in Nat
  BY Zenon DEF PlanShape
<1>3. PICK f, g : f = [u \in PlanWorker |-> Due(u, c)] /\ g = [u \in PlanWorker |-> Due(u, c)']
  BY Zenon
<1>4. /\ f \in [PlanWorker -> Nat] /\ g \in [PlanWorker -> Nat]
      /\ \A u \in PlanWorker \ {w} : g[u] = f[u]
      /\ f[w] = Due(w, c) /\ g[w] = Due(w, c)'
  BY <1>1, <1>3, Zenon DEF OnlyDue
<1>5. Room(c)' = Room(c) /\ Room(c) \in Int
  BY CapNat, Zenon DEF OnlyDue, Room, EffectiveCap
<1>6. PICK b \in Int : b = Room(c)
  BY <1>5, Zenon
<1>7. PICK n \in Int : n = b * Cardinality(PlanWorker)
  <2>1. Cardinality(PlanWorker) \in Nat
    BY PlanAssumption, FS_CardinalityType, Zenon
  <2> QED
    BY <2>1
<1>8. CASE b < 0
  BY <1>5, <1>6, <1>8 DEF WithinRoom
<1>9. CASE b >= 0
  <2>1. \A u \in PlanWorker : Due(u, c) <= b
    BY <1>6, <1>9, Zenon DEF WithinRoom
  <2>2. \A u \in PlanWorker : Due(u, c)' <= b
    BY <1>2, <1>6, <2>1 DEF OnlyDue
  <2>3. \A u \in PlanWorker \ {w} : f[u] <= b
    BY <1>3, <2>1, Zenon
  <2>4. SumFunction(f) - f[w] <= n - b /\ SumFunction(g) = SumFunction(f) - f[w] + g[w] /\ SumFunction(f) \in Int
    BY <1>4, <1>7, <2>3, DueSum, Zenon
  <2>5. coverage[c] + SumFunction(g) <= n
    BY <1>1, <1>2, <1>4, <1>6, <2>4, SMTT(30)
  <2> QED
    BY <1>3, <1>5, <1>6, <1>7, <2>2, <2>5, Zenon DEF WithinRoom
<1> QED
  BY <1>8, <1>9

-----------------------------------------------------------------------------
(* A step of handler w: it changes no exposure and no cap, and nothing     *)
(* that another handler works on.                                          *)
Mine(w) ==
  /\ net' = net /\ netKeys' = netKeys /\ overrides' = overrides
  /\ DOMAIN plan' = PlanWorker /\ DOMAIN leg' = PlanWorker
  /\ \A u \in PlanWorker \ {w} : planPc'[u] = planPc[u] /\ plan'[u] = plan[u] /\ leg'[u] = leg[u]

(* A step of w keeps the shape of the state if it does so for w. *)
LEMMA ShapeAfter ==
  ASSUME PlanShape, NEW w \in PlanWorker, Mine(w), coverage' \in [Currency -> Nat],
         planPc' \in [PlanWorker -> PlanPc],
         planPc'[w] # "idle" => plan'[w] \in PlanOf,
         planPc'[w] \in Executing => ForFirstLeg(w)'
  PROVE  PlanShape'
<1>1. \A u \in PlanWorker : planPc'[u] # "idle" => plan'[u] \in PlanOf
  BY ZenonT(30) DEF PlanShape, Mine
<1>2. \A u \in PlanWorker : planPc'[u] \in Executing => ForFirstLeg(u)'
  BY ZenonT(30) DEF PlanShape, Mine, ForFirstLeg
<1> QED
  BY <1>1, <1>2, Zenon DEF PlanShape, Mine

(* A step of w that covers no more than it takes from what w owes keeps    *)
(* the invariant.                                                          *)
LEMMA StepKept ==
  ASSUME LegNotional \subseteq Nat, PlanInv, PlanShape', NEW w \in PlanWorker, Mine(w),
         \A c \in netKeys : /\ Due(w, c)' \in 0 .. Due(w, c)
                            /\ coverage'[c] + Due(w, c)' <= coverage[c] + Due(w, c)
  PROVE  PlanInv'
<1>1. PlanShape /\ netKeys' = netKeys
  BY Zenon DEF PlanInv, Mine
<1>2. ASSUME NEW c \in netKeys PROVE WithinRoom(c)'
  <2>1. c \in Currency /\ WithinRoom(c)
    BY Zenon DEF PlanInv, PlanShape
  <2>2. OnlyDue(w, c)
    BY Zenon DEF Mine, OnlyDue, Due
  <2>3. coverage'[c] \in Nat
    BY <2>1, Zenon DEF PlanShape
  <2> QED
    BY <1>1, <2>1, <2>2, <2>3, RoomKept, Zenon
<1> QED
  BY <1>1, <1>2, Zenon DEF PlanInv

(* Receiving a plan: nothing is owed before its check. *)
LEMMA ReceivePlanKept ==
  ASSUME LegNotional \subseteq Nat, PlanInv, NEW w \in PlanWorker, ReceivePlan(w) PROVE PlanInv'
<1>1. PlanShape
  BY Zenon DEF PlanInv
<1>n. PICK n \in 0 .. MaxLegs : \E legs \in [1 .. n -> Leg] :
        plan' = [plan EXCEPT ![w] = [legs |-> legs, unchecked |-> {legs[i].currency : i \in 1 .. n}]]
  BY Zenon DEF ReceivePlan
<1>2. PICK legs \in [1 .. n -> Leg] :
        plan' = [plan EXCEPT ![w] = [legs |-> legs, unchecked |-> {legs[i].currency : i \in 1 .. n}]]
  BY <1>n, Zenon
<1>3. /\ planPc[w] = "idle" /\ planPc' = [planPc EXCEPT ![w] = "check"] /\ leg' = leg
      /\ net' = net /\ netKeys' = netKeys /\ overrides' = overrides /\ coverage' = coverage
  BY Zenon DEF ReceivePlan, Step, trackerVars, positionVars, policyVars
<1>4. legs \in Seq(Leg) /\ DOMAIN legs = 1 .. n /\ \A i \in 1 .. n : legs[i].currency \in Currency \cup {NoCurrency}
  <2>1. n \in Nat /\ \A i \in 1 .. n : legs[i] \in Leg
    BY PlanAssumption
  <2>2. legs \in Seq(Leg)
    BY <2>1
  <2> QED
    BY <2>1, <2>2, Zenon DEF Leg
<1>5. planPc'[w] = "check" /\ planPc' \in [PlanWorker -> PlanPc] /\ planPc'[w] \notin Executing
  BY <1>1, <1>3, ZenonT(30) DEF PlanShape, PlanPc, Executing
<1>6. /\ plan'[w].legs = legs /\ \A i \in 1 .. n : legs[i].currency \in plan'[w].unchecked
      /\ plan'[w] \in PlanOf
  <2>1. plan'[w] = [legs |-> legs, unchecked |-> {legs[i].currency : i \in 1 .. n}]
    BY <1>1, <1>2, Zenon DEF PlanShape
  <2>2. PICK u \in SUBSET (Currency \cup {NoCurrency}) : u = {legs[i].currency : i \in 1 .. n}
    BY <1>4, Zenon
  <2>3. plan'[w] = [legs |-> legs, unchecked |-> u]
    BY <2>1, <2>2, Zenon
  <2>4. \A i \in 1 .. n : legs[i].currency \in u
    BY <2>2, Zenon
  <2>5. legs \in Seq(Leg) /\ u \in SUBSET (Currency \cup {NoCurrency})
    BY <1>4, <2>2, Zenon
  <2>6. \A p : p = [legs |-> legs, unchecked |-> u] =>
               p.legs = legs /\ p.unchecked = u /\ p \in PlanOf
    BY <2>5, PlanFields, Zenon
  <2>7. plan'[w].legs = legs /\ plan'[w].unchecked = u /\ plan'[w] \in PlanOf
    BY <2>3, <2>6, ZenonT(30)
  <2> QED
    BY <2>4, <2>7, Zenon
<1>7. Mine(w)
  BY <1>1, <1>2, <1>3, ZenonT(30) DEF Mine, PlanShape
<1>8. PlanShape'
  BY <1>1, <1>3, <1>5, <1>6, <1>7, ShapeAfter, ZenonT(30) DEF PlanShape
<1>9. ASSUME NEW c \in netKeys PROVE Due(w, c)' = 0 /\ Due(w, c) = 0 /\ coverage'[c] \in Nat
  <2>1. c \in Currency
    BY <1>1, ZenonT(30) DEF PlanShape
  <2>2. CASE c \in plan'[w].unchecked
    BY <1>1, <1>3, <1>5, <2>1, <2>2, ZenonT(30) DEF Due, PlanShape
  <2>3. CASE c \notin plan'[w].unchecked
    <3>1. LegsOf(legs, c) = {}
      BY <1>4, <1>6, <2>3, Zenon DEF LegsOf
    <3>2. Proposed(plan'[w].legs, c) = 0
      BY <1>4, <1>6, <2>1, <3>1, ProposedNat, Zenon
    <3>3. Due(w, c)' = Proposed(plan'[w].legs, c)
      BY <1>5, <2>3, Zenon DEF Due, Proposed, LegsOf
    <3> QED
      BY <1>1, <1>3, <2>1, <3>2, <3>3, ZenonT(30) DEF Due, PlanShape
  <2> QED
    BY <2>2, <2>3, Zenon
<1> QED
  BY <1>3, <1>7, <1>8, <1>9, StepKept

(* Once the first leg is taken off its plan, a handler owes less by the    *)
(* notional of that leg.                                                   *)
LEMMA TailDue ==
  ASSUME LegNotional \subseteq Nat, PlanShape, NEW w \in PlanWorker, NEW c \in Currency,
         planPc[w] \notin {"idle", "check"}, planPc'[w] \notin {"idle", "check"},
         plan[w].legs # <<>>, plan'[w].legs = Tail(plan[w].legs)
  PROVE  /\ Due(w, c)' \in Nat /\ Head(plan[w].legs).notional \in Nat
         /\ Due(w, c) = Due(w, c)' + (IF Head(plan[w].legs).currency = c
                                        THEN Head(plan[w].legs).notional ELSE 0)
<1>1. PICK legs \in Seq(Leg) : legs = plan[w].legs
  BY Zenon DEF PlanShape, PlanOf
<1>2. Due(w, c) = Proposed(legs, c)
  BY <1>1, Zenon DEF Due
<1>3. Due(w, c)' = Proposed(Tail(legs), c)
  BY <1>1, Zenon DEF Due, Proposed, LegsOf
<1>4. /\ Tail(legs) \in Seq(Leg) /\ Head(legs).notional \in Nat
      /\ Proposed(legs, c) = Proposed(Tail(legs), c)
                               + (IF Head(legs).currency = c THEN Head(legs).notional ELSE 0)
  BY <1>1, ProposedTail, Zenon
<1>5. Proposed(Tail(legs), c) \in Nat
  BY <1>4, ProposedNat, Zenon
<1> QED
  BY <1>1, <1>2, <1>3, <1>4, <1>5, Zenon

(* A step that leaves the plan of w alone leaves what w owes alone. *)
LEMMA SameDue ==
  ASSUME LegNotional \subseteq Nat, PlanShape, NEW w \in PlanWorker, NEW c \in Currency,
         planPc[w] \notin {"idle", "check"}, planPc'[w] \notin {"idle", "check"}, plan' = plan
  PROVE  Due(w, c)' = Due(w, c) /\ Due(w, c) \in Nat
<1>1. Due(w, c)' = Due(w, c)
  BY Zenon DEF Due, Proposed, LegsOf
<1> QED
  BY <1>1, DueNat, Zenon

(* The rest of the plan is a plan. *)
LEMMA TailPlan ==
  ASSUME PlanShape, NEW w \in PlanWorker, planPc[w] # "idle", plan[w].legs # <<>>,
         plan' = [plan EXCEPT ![w].legs = Tail(plan[w].legs)]
  PROVE  /\ DOMAIN plan' = PlanWorker /\ plan'[w] \in PlanOf /\ plan'[w].legs = Tail(plan[w].legs)
         /\ \A u \in PlanWorker \ {w} : plan'[u] = plan[u]
<1>1. PICK r \in PlanOf : r = plan[w]
  BY Zenon DEF PlanShape
<1>2. r.legs \in Seq(Leg) /\ Tail(r.legs) \in Seq(Leg)
  BY <1>1 DEF PlanOf
<1>3. [r EXCEPT !.legs = Tail(r.legs)] \in PlanOf
  BY <1>2, Zenon DEF PlanOf
<1>4. plan' = [plan EXCEPT ![w] = [r EXCEPT !.legs = Tail(r.legs)]]
  BY <1>1, Zenon
<1> QED
  BY <1>1, <1>3, <1>4, Zenon DEF PlanShape, PlanOf

(* FinishPlan: a plan without legs left owes nothing. *)
LEMMA FinishPlanKept ==
  ASSUME LegNotional \subseteq Nat, PlanInv, NEW w \in PlanWorker, FinishPlan(w) PROVE PlanInv'
<1>1. PlanShape
  BY DEF PlanInv
<1>2. /\ planPc[w] = "legs" /\ planPc' = [planPc EXCEPT ![w] = "idle"]
      /\ plan' = [plan EXCEPT ![w] = NoPlan] /\ leg' = leg
      /\ net' = net /\ netKeys' = netKeys /\ overrides' = overrides /\ coverage' = coverage
  BY Zenon DEF FinishPlan, Step, trackerVars, positionVars, policyVars
<1>3. Mine(w) /\ planPc'[w] = "idle" /\ planPc' \in [PlanWorker -> PlanPc]
  BY <1>1, <1>2, Zenon DEF Mine, PlanShape, PlanPc
<1>4. PlanShape'
  BY <1>1, <1>2, <1>3, ShapeAfter, Zenon DEF PlanShape, Executing
<1>5. ASSUME NEW c \in netKeys PROVE Due(w, c)' = 0 /\ Due(w, c) \in Nat /\ coverage'[c] \in Nat
  BY <1>1, <1>2, <1>3, DueNat, Zenon DEF Due, PlanShape
<1>6. \A c \in netKeys : /\ Due(w, c)' \in 0 .. Due(w, c)
                         /\ coverage'[c] + Due(w, c)' <= coverage[c] + Due(w, c)
  BY <1>2, <1>5
<1> QED
  BY <1>3, <1>4, <1>6, StepKept, Zenon

(* A leg that executeLeg refuses, and one whose routing fails, is taken    *)
(* off the plan and no longer owed.                                        *)
LEMMA DropLegKept ==
  ASSUME LegNotional \subseteq Nat, PlanInv, NEW w \in PlanWorker,
         planPc[w] \notin {"idle", "check"}, planPc' = [planPc EXCEPT ![w] = "legs"],
         plan[w].legs # <<>>, plan' = [plan EXCEPT ![w].legs = Tail(plan[w].legs)],
         DOMAIN leg' = PlanWorker, \A u \in PlanWorker \ {w} : leg'[u] = leg[u],
         net' = net, netKeys' = netKeys, overrides' = overrides, coverage' = coverage
  PROVE PlanInv'
<1>1. PlanShape
  BY Zenon DEF PlanInv
<1>2. /\ DOMAIN plan' = PlanWorker /\ plan'[w] \in PlanOf /\ plan'[w].legs = Tail(plan[w].legs)
      /\ \A u \in PlanWorker \ {w} : plan'[u] = plan[u]
  BY <1>1, TailPlan, Zenon
<1>3. Mine(w) /\ planPc'[w] = "legs" /\ planPc' \in [PlanWorker -> PlanPc]
  BY <1>1, <1>2, Zenon DEF Mine, PlanShape, PlanPc
<1>4. PlanShape'
  BY <1>1, <1>2, <1>3, ShapeAfter, Zenon DEF PlanShape, Executing
<1>5. ASSUME NEW c \in netKeys
      PROVE  /\ Due(w, c)' \in 0 .. Due(w, c)
             /\ coverage'[c] + Due(w, c)' <= coverage[c] + Due(w, c)
  <2>1. c \in Currency /\ coverage[c] \in Nat
    BY <1>1, Zenon DEF PlanShape
  <2>2. /\ Due(w, c)' \in Nat /\ Head(plan[w].legs).notional \in Nat
        /\ Due(w, c) = Due(w, c)' + (IF Head(plan[w].legs).currency = c
                                       THEN Head(plan[w].legs).notional ELSE 0)
    BY <1>1, <1>2, <1>3, <2>1, TailDue
  <2> QED
    BY <2>1, <2>2, SMTT(30)
<1> QED
  BY <1>3, <1>4, <1>5, StepKept

(* A step of executeLeg before AddCoverage: the leg stays owed. *)
LEMMA ExecuteKept ==
  ASSUME LegNotional \subseteq Nat, PlanInv, NEW w \in PlanWorker, NEW next \in Executing,
         planPc[w] \notin {"idle", "check"}, planPc' = [planPc EXCEPT ![w] = next], plan' = plan,
         DOMAIN leg' = PlanWorker, \A u \in PlanWorker \ {w} : leg'[u] = leg[u], ForFirstLeg(w)',
         net' = net, netKeys' = netKeys, overrides' = overrides, coverage' = coverage
  PROVE PlanInv'
<1>1. PlanShape
  BY Zenon DEF PlanInv
<1>2. Mine(w) /\ planPc'[w] = next /\ planPc' \in [PlanWorker -> PlanPc]
  BY <1>1, Zenon DEF Mine, PlanShape, PlanPc, Executing
<1>3. plan'[w] \in PlanOf /\ coverage' \in [Currency -> Nat]
  BY <1>1, Zenon DEF PlanShape
<1>4. PlanShape'
  BY <1>1, <1>2, <1>3, ShapeAfter, Zenon
<1>5. ASSUME NEW c \in netKeys
      PROVE  /\ Due(w, c)' \in 0 .. Due(w, c)
             /\ coverage'[c] + Due(w, c)' <= coverage[c] + Due(w, c)
  <2>1. c \in Currency /\ coverage[c] \in Nat
    BY <1>1, Zenon DEF PlanShape
  <2>2. planPc'[w] \notin {"idle", "check"}
    BY <1>2 DEF Executing
  <2>3. Due(w, c)' = Due(w, c) /\ Due(w, c) \in Nat
    BY <1>1, <2>1, <2>2, SameDue, ZenonT(30)
  <2> QED
    BY <2>1, <2>3
<1> QED
  BY <1>2, <1>4, <1>5, StepKept, Zenon

(* executeLeg builds the hedge of the first leg. *)
LEMMA OpenLegKept ==
  ASSUME LegNotional \subseteq Nat, PlanInv, NEW w \in PlanWorker, OpenLeg(w) PROVE PlanInv'
<1>1. PlanShape
  BY DEF PlanInv
<1>2. PICK r :
        /\ leg' = [leg EXCEPT ![w] = r] /\ DOMAIN r = {"id", "h", "todo"} /\ DOMAIN r.h = HedgeShape
        /\ r.h.currency = Head(plan[w].legs).currency /\ r.h.notional = Head(plan[w].legs).notional
  <2> DEFINE c == Head(plan[w].legs).currency
             r == [id |-> issued + 1, todo |-> <<>>,
                   h |-> [currency |-> c, notional |-> Head(plan[w].legs).notional,
                          status |-> "PENDING", request |-> NoRequestId,
                          quotedRate |-> 0, fills |-> <<>>, slippageBPS |-> 0, pnl |-> 0,
                          capBreached |-> Decide(c, GetExposure(c)).blockedByCap]]
  <2>1. leg' = [leg EXCEPT ![w] = r]
    BY Zenon DEF OpenLeg
  <2>2. DOMAIN r = {"id", "h", "todo"} /\ DOMAIN r.h = HedgeShape
    BY Zenon DEF HedgeShape
  <2>3. r.h.currency = Head(plan[w].legs).currency /\ r.h.notional = Head(plan[w].legs).notional
    BY Zenon
  <2> HIDE DEF r
  <2> QED
    BY <2>1, <2>2, <2>3, ZenonT(30)
<1>3. /\ planPc[w] = "legs" /\ planPc' = [planPc EXCEPT ![w] = "route"] /\ plan' = plan
      /\ plan[w].legs # <<>> /\ Head(plan[w].legs).currency # NoCurrency
      /\ Head(plan[w].legs).notional > 0
      /\ net' = net /\ netKeys' = netKeys /\ overrides' = overrides /\ coverage' = coverage
  BY Zenon DEF OpenLeg, Step, trackerVars, positionVars, policyVars
<1>4. Head(plan[w].legs).currency \in Currency
  <2>1. plan[w].legs \in Seq(Leg)
    BY <1>1, <1>3, ZenonT(30) DEF PlanShape, PlanOf
  <2>2. Head(plan[w].legs) \in Leg
    BY <1>3, <2>1, SMTT(30)
  <2> QED
    BY <1>3, <2>2, Zenon DEF Leg
<1>5. DOMAIN leg' = PlanWorker /\ leg'[w] = r /\ \A u \in PlanWorker \ {w} : leg'[u] = leg[u]
  BY <1>1, <1>2, ZenonT(30) DEF PlanShape
<1>6. ForFirstLeg(w)'
  BY <1>2, <1>3, <1>4, <1>5 DEF ForFirstLeg
<1>7. "route" \in Executing
  BY Zenon DEF Executing
<1> QED
  BY <1>3, <1>5, <1>6, <1>7, ExecuteKept, ZenonT(30)

(* The router's fills do not change what the hedge is for, and a leg that  *)
(* it could not execute is dropped.                                        *)
LEMMA RouteLegKept ==
  ASSUME LegNotional \subseteq Nat, PlanInv, NEW w \in PlanWorker, RouteLeg(w) PROVE PlanInv'
<1>1. PlanShape
  BY DEF PlanInv
<1>2. /\ planPc[w] = "route" /\ net' = net /\ netKeys' = netKeys
      /\ overrides' = overrides /\ coverage' = coverage
  BY Zenon DEF RouteLeg, trackerVars, positionVars, policyVars
<1>3. ForFirstLeg(w)
  BY <1>1, <1>2, Zenon DEF PlanShape, Executing
<1>4. \/ /\ planPc' = [planPc EXCEPT ![w] = "sample"] /\ plan' = plan
         /\ \E q, fills : leg' = [leg EXCEPT ![w].todo = fills,
                                             ![w].h = [[leg[w].h EXCEPT !.quotedRate = q] EXCEPT !.fills = fills]]
      \/ /\ planPc' = [planPc EXCEPT ![w] = "legs"]
         /\ plan' = [plan EXCEPT ![w].legs = Tail(plan[w].legs)]
         /\ leg' = [leg EXCEPT ![w] = NoPlan]
  BY ZenonT(30) DEF RouteLeg, Step
<1>5. CASE /\ planPc' = [planPc EXCEPT ![w] = "sample"] /\ plan' = plan
           /\ \E q, fills : leg' = [leg EXCEPT ![w].todo = fills,
                                               ![w].h = [[leg[w].h EXCEPT !.quotedRate = q] EXCEPT !.fills = fills]]
  <2>1. PICK q, fills : leg' = [leg EXCEPT ![w].todo = fills,
                                           ![w].h = [[leg[w].h EXCEPT !.quotedRate = q] EXCEPT !.fills = fills]]
    BY <1>5, Zenon
  <2>2. /\ DOMAIN leg' = PlanWorker /\ \A u \in PlanWorker \ {w} : leg'[u] = leg[u]
        /\ DOMAIN leg'[w] = {"id", "h", "todo"} /\ DOMAIN leg'[w].h = HedgeShape
        /\ leg'[w].h.currency = leg[w].h.currency /\ leg'[w].h.notional = leg[w].h.notional
    BY <1>1, <1>3, <2>1, Zenon DEF PlanShape, ForFirstLeg, HedgeShape
  <2>3. ForFirstLeg(w)'
    BY <1>3, <1>5, <2>2, Zenon DEF ForFirstLeg
  <2>4. "sample" \in Executing
    BY Zenon DEF Executing
  <2> QED
    BY <1>2, <1>5, <2>2, <2>3, <2>4, ExecuteKept, Zenon
<1>6. CASE /\ planPc' = [planPc EXCEPT ![w] = "legs"]
           /\ plan' = [plan EXCEPT ![w].legs = Tail(plan[w].legs)]
           /\ leg' = [leg EXCEPT ![w] = NoPlan]
  <2>1. DOMAIN leg' = PlanWorker /\ \A u \in PlanWorker \ {w} : leg'[u] = leg[u]
    BY <1>1, <1>6, Zenon DEF PlanShape
  <2>2. plan[w].legs # <<>>
    BY <1>3, Zenon DEF ForFirstLeg
  <2> QED
    BY <1>2, <1>6, <2>1, <2>2, DropLegKept, ZenonT(30)
<1> QED
  BY <1>4, <1>5, <1>6, Zenon

(* The refused leg, and the steps between routing and AddCoverage. *)
LEMMA RefuseLegKept ==
  ASSUME LegNotional \subseteq Nat, PlanInv, NEW w \in PlanWorker, RefuseLeg(w) PROVE PlanInv'
<1>1. PlanShape
  BY DEF PlanInv
<1>2. /\ planPc[w] = "legs" /\ planPc' = [planPc EXCEPT ![w] = "legs"] /\ plan[w].legs # <<>>
      /\ plan' = [plan EXCEPT ![w].legs = Tail(plan[w].legs)] /\ leg' = leg
      /\ net' = net /\ netKeys' = netKeys /\ overrides' = overrides /\ coverage' = coverage
  BY Zenon DEF RefuseLeg, Step, trackerVars, positionVars, policyVars
<1>3. DOMAIN leg' = PlanWorker /\ \A u \in PlanWorker \ {w} : leg'[u] = leg[u]
  BY <1>1, <1>2 DEF PlanShape
<1> QED
  BY <1>2, <1>3, DropLegKept, ZenonT(30)

(* The samples of a leg and its hedge are stored before it is covered. *)
LEMMA SampleStoreKept ==
  ASSUME LegNotional \subseteq Nat, PlanInv, NEW w \in PlanWorker, SampleLeg(w) \/ StoreLeg(w)
  PROVE PlanInv'
<1>1. PlanShape
  BY Zenon DEF PlanInv
<1>2. PICK next \in {"sample", "store", "cover"} :
        /\ planPc[w] \in {"sample", "store"} /\ planPc' = [planPc EXCEPT ![w] = next] /\ plan' = plan
        /\ net' = net /\ netKeys' = netKeys /\ overrides' = overrides /\ coverage' = coverage
        /\ \/ leg' = leg
           \/ \E bps : leg' = [leg EXCEPT ![w].todo = Tail(leg[w].todo), ![w].h.slippageBPS = bps]
  BY Zenon DEF SampleLeg, StoreLeg, Step, trackerVars, positionVars, policyVars
<1>3. ForFirstLeg(w)
  BY <1>1, <1>2, Zenon DEF PlanShape, Executing
<1>4. /\ DOMAIN leg' = PlanWorker /\ \A u \in PlanWorker \ {w} : leg'[u] = leg[u]
      /\ DOMAIN leg'[w] = {"id", "h", "todo"} /\ DOMAIN leg'[w].h = HedgeShape
      /\ leg'[w].h.currency = leg[w].h.currency /\ leg'[w].h.notional = leg[w].h.notional
  BY <1>1, <1>2, <1>3 DEF PlanShape, ForFirstLeg, HedgeShape
<1>5. ForFirstLeg(w)' /\ next \in Executing /\ planPc[w] \notin {"idle", "check"}
  BY <1>2, <1>3, <1>4, Zenon DEF ForFirstLeg, Executing
<1> QED
  BY <1>2, <1>4, <1>5, ExecuteKept, ZenonT(30)

(* AddCoverage moves the notional of the leg from what is owed to the      *)
(* coverage.                                                               *)
LEMMA CoverLegKept ==
  ASSUME LegNotional \subseteq Nat, PlanInv, NEW w \in PlanWorker, CoverLeg(w) PROVE PlanInv'
<1>1. PlanShape
  BY DEF PlanInv
<1>2. /\ planPc[w] = "cover" /\ planPc' = [planPc EXCEPT ![w] = "legs"]
      /\ plan' = [plan EXCEPT ![w].legs = Tail(plan[w].legs)] /\ leg' = [leg EXCEPT ![w] = NoPlan]
      /\ net' = net /\ netKeys' = netKeys /\ overrides' = overrides
      /\ coverage' = [coverage EXCEPT ![leg[w].h.currency] = @ + leg[w].h.notional]
  BY Zenon DEF CoverLeg, Step, AddCoverage, policyVars
<1>3. ForFirstLeg(w)
  BY <1>1, <1>2, Zenon DEF PlanShape, Executing
<1>4. PICK d \in Currency : d = leg[w].h.currency /\ d = Head(plan[w].legs).currency
  BY <1>3, Zenon DEF ForFirstLeg
<1>5. plan[w].legs # <<>> /\ leg[w].h.notional = Head(plan[w].legs).notional
  BY <1>3, Zenon DEF ForFirstLeg
<1>6. /\ DOMAIN plan' = PlanWorker /\ plan'[w] \in PlanOf /\ plan'[w].legs = Tail(plan[w].legs)
      /\ \A u \in PlanWorker \ {w} : plan'[u] = plan[u]
  BY <1>1, <1>2, <1>5, TailPlan, ZenonT(30)
<1>7. Mine(w) /\ planPc'[w] = "legs" /\ planPc' \in [PlanWorker -> PlanPc]
  BY <1>1, <1>2, <1>6, Zenon DEF Mine, PlanShape, PlanPc
<1>8. \A c \in Currency :
        /\ Due(w, c)' \in Nat /\ Head(plan[w].legs).notional \in Nat
        /\ Due(w, c) = Due(w, c)' + (IF Head(plan[w].legs).currency = c
                                       THEN Head(plan[w].legs).notional ELSE 0)
  BY <1>1, <1>2, <1>5, <1>6, <1>7, TailDue, ZenonT(30)
<1>9. PICK n \in Nat : n = Head(plan[w].legs).notional
  BY <1>4, <1>8, Zenon
<1>10. coverage' = [coverage EXCEPT ![d] = coverage[d] + n] /\ coverage \in [Currency -> Nat]
  BY <1>1, <1>2, <1>4, <1>5, <1>9, ZenonT(30) DEF PlanShape
<1>11. coverage' \in [Currency -> Nat]
  BY <1>10
<1>12. PlanShape'
  BY <1>1, <1>6, <1>7, <1>11, ShapeAfter, Zenon DEF Executing
<1>13. ASSUME NEW c \in netKeys
       PROVE  /\ Due(w, c)' \in 0 .. Due(w, c)
              /\ coverage'[c] + Due(w, c)' <= coverage[c] + Due(w, c)
  <2>1. c \in Currency
    BY <1>1, Zenon DEF PlanShape
  <2>2. Due(w, c)' \in Nat /\ Due(w, c) = Due(w, c)' + (IF d = c THEN n ELSE 0)
    BY <1>4, <1>8, <1>9, <2>1, Zenon
  <2>3. coverage[c] \in Nat /\ coverage'[c] = coverage[c] + (IF d = c THEN n ELSE 0)
    BY <1>10, <2>1, SMTT(30)
  <2> QED
    BY <2>2, <2>3
<1> QED
  BY <1>7, <1>12, <1>13, StepKept, Zenon

(* SubmitHedgePlan's check of one currency that passes: the plan becomes   *)
(* owed for that currency, within the room.                                *)
LEMMA CheckPassKept ==
  ASSUME LegNotional \subseteq Nat, PlanInv, NEW w \in PlanWorker,
         NEW d \in Currency \cup {NoCurrency}, d \in plan[w].unchecked,
         planPc[w] = "check", planPc' = [planPc EXCEPT ![w] = "check"],
         ~ PlanBreaches(d, Proposed(plan[w].legs, d)),
         plan' = [plan EXCEPT ![w].unchecked = plan[w].unchecked \ {d}], leg' = leg,
         net' = net, netKeys' = netKeys, overrides' = overrides, coverage' = coverage
  PROVE  PlanInv'
<1>1. PlanShape
  BY Zenon DEF PlanInv
<1>2. PICK r \in PlanOf : r = plan[w]
  BY <1>1, Zenon DEF PlanShape
<1>3. /\ DOMAIN plan' = PlanWorker /\ plan'[w] \in PlanOf /\ plan'[w].legs = plan[w].legs
      /\ plan'[w].unchecked = plan[w].unchecked \ {d}
      /\ \A u \in PlanWorker \ {w} : plan'[u] = plan[u]
  <2>1. [r EXCEPT !.unchecked = r.unchecked \ {d}] \in PlanOf
    BY Zenon DEF PlanOf
  <2>2. plan' = [plan EXCEPT ![w] = [r EXCEPT !.unchecked = r.unchecked \ {d}]]
    BY <1>2, Zenon
  <2> QED
    BY <1>1, <1>2, <2>1, <2>2 DEF PlanShape, PlanOf
<1>4. Mine(w) /\ planPc'[w] = "check" /\ planPc' \in [PlanWorker -> PlanPc]
  BY <1>1, <1>3, Zenon DEF Mine, PlanShape, PlanPc
<1>5. PlanShape'
  BY <1>1, <1>3, <1>4, ShapeAfter, ZenonT(30) DEF PlanShape, Executing
<1>6. ASSUME NEW c \in netKeys PROVE WithinRoom(c)'
  <2>1. c \in Currency /\ WithinRoom(c) /\ coverage[c] \in Nat /\ c # NoCurrency /\ net[c] \in Int
    BY <1>1, PlanAssumption, Zenon DEF PlanInv, PlanShape
  <2>2. OnlyDue(w, c)
    BY <1>4, Zenon DEF Mine, OnlyDue, Due
  <2>3. CASE c # d
    <3>1. Due(w, c)' = Due(w, c)
      BY <1>3, <1>4, <2>3 DEF Due, Proposed, LegsOf
    <3>2. Due(w, c) \in Nat
      BY <1>1, <2>1, DueNat, Zenon
    <3> QED
      BY <1>1, <2>1, <2>2, <3>1, <3>2, RoomKept, SMTT(30)
  <2>4. CASE c = d
    <3>1. Due(w, c)' = Proposed(plan[w].legs, c)
      BY <1>3, <1>4, <2>4 DEF Due, Proposed, LegsOf
    <3>2. PICK p \in Nat : p = Proposed(plan[w].legs, c)
      BY <1>2, <2>1, ProposedNat, Zenon DEF PlanOf
    <3>3. ~ (Abs(Open(c) - p) > EffectiveCap(c))
      BY <2>1, <2>4, <3>2, Zenon DEF PlanBreaches, OpenAfter, CapOf
    <3>4. EffectiveCap(c) \in Nat /\ Room(c) = net[c] + EffectiveCap(c)
      BY <1>1, <2>1, CapNat, ZenonT(30) DEF Room
    <3>5. coverage[c] + p <= Room(c)
      BY <2>1, <3>3, <3>4 DEF Abs, Open
    <3> QED
      BY <1>1, <2>1, <2>2, <3>1, <3>2, <3>5, RoomChecked, ZenonT(30)
  <2> QED
    BY <2>3, <2>4, Zenon
<1> QED
  BY <1>4, <1>5, <1>6, SMTT(30) DEF PlanInv, Mine

(* SubmitHedgePlan's check: it goes on, passes for one currency or rejects *)
(* the plan, which is then not owed any more.                              *)
LEMMA CheckPlanKept ==
  ASSUME LegNotional \subseteq Nat, PlanInv, NEW w \in PlanWorker, CheckPlan(w) PROVE PlanInv'
<1>1. PlanShape
  BY DEF PlanInv
<1>2. /\ planPc[w] = "check" /\ leg' = leg
      /\ net' = net /\ netKeys' = netKeys /\ overrides' = overrides /\ coverage' = coverage
  BY Zenon DEF CheckPlan, Step, trackerVars, positionVars, policyVars
<1>3. CASE plan[w].unchecked = {} /\ planPc' = [planPc EXCEPT ![w] = "legs"] /\ plan' = plan
  <2>1. Mine(w) /\ planPc'[w] = "legs" /\ planPc' \in [PlanWorker -> PlanPc] /\ plan'[w] \in PlanOf
    BY <1>1, <1>2, <1>3, Zenon DEF Mine, PlanShape, PlanPc
  <2>2. PlanShape'
    BY <1>1, <1>2, <2>1, ShapeAfter, Zenon DEF PlanShape, Executing
  <2>3. ASSUME NEW c \in netKeys PROVE Due(w, c)' = Due(w, c) /\ Due(w, c) \in Nat /\ coverage[c] \in Nat
    <3>1. Due(w, c)' = Due(w, c)
      BY <1>2, <1>3, <2>1, Zenon DEF Due, Proposed, LegsOf
    <3> QED
      BY <1>1, <3>1, DueNat, Zenon DEF PlanShape
  <2>4. \A c \in netKeys : /\ Due(w, c)' \in 0 .. Due(w, c)
                           /\ coverage'[c] + Due(w, c)' <= coverage[c] + Due(w, c)
    BY <1>2, <2>3, SMTT(30)
  <2> QED
    BY <2>1, <2>2, <2>4, StepKept, Zenon
<1>4. CASE planPc' = [planPc EXCEPT ![w] = "idle"] /\ plan' = [plan EXCEPT ![w] = NoPlan]
  <2>1. Mine(w) /\ planPc'[w] = "idle" /\ planPc' \in [PlanWorker -> PlanPc]
    BY <1>1, <1>2, <1>4, Zenon DEF Mine, PlanShape, PlanPc
  <2>2. PlanShape'
    BY <1>1, <1>2, <2>1, ShapeAfter, Zenon DEF PlanShape, Executing
  <2>3. ASSUME NEW c \in netKeys PROVE Due(w, c)' = 0 /\ Due(w, c) \in Nat /\ coverage[c] \in Nat
    BY <1>1, <2>1, DueNat, Zenon DEF Due, PlanShape
  <2>4. \A c \in netKeys : /\ Due(w, c)' \in 0 .. Due(w, c)
                           /\ coverage'[c] + Due(w, c)' <= coverage[c] + Due(w, c)
    BY <1>2, <2>3
  <2> QED
    BY <2>1, <2>2, <2>4, StepKept, ZenonT(30)
<1>5. ASSUME NEW d \in Currency \cup {NoCurrency}, d \in plan[w].unchecked,
             planPc' = [planPc EXCEPT ![w] = "check"],
             ~ PlanBreaches(d, Proposed(plan[w].legs, d)),
             plan' = [plan EXCEPT ![w].unchecked = plan[w].unchecked \ {d}]
      PROVE  PlanInv'
  BY <1>2, <1>5, CheckPassKept, Zenon
<1> QED
  BY <1>3, <1>4, <1>5, Zenon DEF CheckPlan, Step

(* Plans for a currency with a recorded exposure hedge beyond its cap only *)
(* by the room of one plan for every other handler, however many handlers, *)
(* plans, legs and venues there are, when no leg has a negative notional   *)
(* (OverhedgeBound).                                                       *)
THEOREM OverhedgeAlwaysBounded ==
  ASSUME LegNotional \subseteq Nat
  PROVE  PlanSpec => []OverhedgeBound
<1>1. PlanInit => PlanInv
  <2> SUFFICES ASSUME PlanInit PROVE PlanInv
    BY Zenon
  <2>1. overrides = [c \in Currency |-> NoOverride] /\ NoOverride \in Override
    BY DEF PlanInit, PolicyInit, NoOverride, Override
  <2>2. PlanShape
    BY <2>1, PlanAssumption, Zenon DEF PlanInit, PlanShape, PlanPc, Executing
  <2>3. ASSUME NEW c \in netKeys PROVE WithinRoom(c)
    <3>1. c \in Currency /\ coverage[c] = 0 /\ Room(c) \in Int
      BY <2>2, CapNat, Zenon DEF PlanInit, PlanShape
    <3>2. PICK f : f = [w \in PlanWorker |-> Due(w, c)]
      BY Zenon
    <3>3. \A w \in PlanWorker : Due(w, c) = 0
      BY Zenon DEF PlanInit, Due
    <3>4. /\ DOMAIN f = PlanWorker /\ IsFiniteSet(DOMAIN f) /\ IntOn(f, DOMAIN f)
          /\ \A w \in DOMAIN f : f[w] <= 0
      BY <3>2, <3>3, PlanAssumption DEF IntOn
    <3>5. PICK n \in Nat : n = Cardinality(PlanWorker)
      BY PlanAssumption, FS_CardinalityType, Zenon
    <3>6. SumFunction(f) <= 0 * n /\ SumFunction(f) \in Int
      BY <3>4, <3>5, SumBounds, SumType
    <3>7. PICK b \in Int : b = Room(c)
      BY <3>1, Zenon
    <3>8. b >= 0 => b * n >= 0
      OBVIOUS
    <3> QED
      BY <3>1, <3>2, <3>3, <3>5, <3>6, <3>7, <3>8, SMTT(30) DEF WithinRoom
  <2> QED
    BY <2>2, <2>3, Zenon DEF PlanInv
<1>2. PlanInv /\ [PlanNext]_hedgePlanVars => PlanInv'
  <2> SUFFICES ASSUME PlanInv, [PlanNext]_hedgePlanVars PROVE PlanInv'
    BY Zenon
  <2>1. CASE UNCHANGED hedgePlanVars
    <3>1. /\ net' = net /\ netKeys' = netKeys /\ coverage' = coverage /\ overrides' = overrides
          /\ planPc' = planPc /\ plan' = plan /\ leg' = leg
      BY <2>1, Zenon DEF hedgePlanVars, trackerVars, positionVars, policyVars, planVars
    <3>2. PlanShape'
      BY <3>1, Zenon DEF PlanInv, PlanShape, ForFirstLeg
    <3>3. \A c \in netKeys : WithinRoom(c)'
      BY <3>1, Zenon DEF PlanInv, WithinRoom, Room, EffectiveCap, Due
    <3> QED
      BY <3>1, <3>2, <3>3, Zenon DEF PlanInv
  <2>2. CASE PlanNext
    BY <2>2, ReceivePlanKept, CheckPlanKept, FinishPlanKept, RefuseLegKept, OpenLegKept,
       RouteLegKept, SampleStoreKept, CoverLegKept, ZenonT(30) DEF PlanNext, PlanStep
  <2> QED
    BY <2>1, <2>2, Zenon
<1>3. PlanInv => OverhedgeBound
  <2> SUFFICES ASSUME PlanInv, NEW c \in netKeys, net[c] >= -EffectiveCap(c)
               PROVE  Open(c) >= -(EffectiveCap(c)
                                     + (Cardinality(PlanWorker) - 1) * (net[c] + EffectiveCap(c)))
    BY Zenon DEF OverhedgeBound
  <2>1. PlanShape /\ c \in Currency /\ coverage[c] \in Nat /\ net[c] \in Int /\ WithinRoom(c)
    BY Zenon DEF PlanInv, PlanShape
  <2>2. PICK b, k \in Int : b = Room(c) /\ k = EffectiveCap(c)
    BY <2>1, CapNat, SMTT(30)
  <2>3. b = net[c] + k /\ b >= 0
    BY <2>1, <2>2 DEF Room
  <2>4. PICK n \in Int : n = Cardinality(PlanWorker)
    BY PlanAssumption, FS_CardinalityType
  <2>5. PICK f : f = [w \in PlanWorker |-> Due(w, c)]
    BY Zenon
  <2>6. coverage[c] + SumFunction(f) <= b * n
    BY <2>1, <2>2, <2>3, <2>4, <2>5, ZenonT(30) DEF WithinRoom
  <2>7. /\ DOMAIN f = PlanWorker /\ IsFiniteSet(DOMAIN f) /\ IntOn(f, DOMAIN f)
        /\ \A w \in DOMAIN f : f[w] >= 0
    BY <2>1, <2>5, DueNat, PlanAssumption, SMTT(30) DEF IntOn
  <2>8. SumFunction(f) >= 0 * n /\ SumFunction(f) \in Int
    BY <2>4, <2>7, SumBounds, SumType, SMTT(30)
  <2>9. (n - 1) * b = b * n - b /\ b * n \in Int
    OBVIOUS
  <2>10. Open(c) >= -(k + (n - 1) * b)
    BY <2>1, <2>3, <2>6, <2>8, <2>9, SMTT(30) DEF Open
  <2> QED
    BY <2>2, <2>3, <2>4, <2>10, Zenon
<1> QED
  BY <1>1, <1>2, <1>3, PTL DEF PlanSpec
=============================================================================
