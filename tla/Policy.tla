------------------------------- MODULE Policy -------------------------------
(***************************************************************************)
(* policy.Policy: the hedge-ratio target, the open-exposure cap, the       *)
(* per-currency overrides and the slippage tuning.  Money is an integer; a *)
(* ratio r of the code is the integer r * Den, and a notional the code     *)
(* computes from a ratio is scaled by Den as well, so that nothing is      *)
(* rounded.                                                                *)
(*                                                                         *)
(* A missing override or tuning entry behaves exactly as a zero one (every *)
(* use tests for > 0), so both maps are total functions.                   *)
(***************************************************************************)
EXTENDS Tracker

CONSTANTS
  Den,                \* the denominator of every ratio
  HedgeRatioTarget,   \* HEDGE_RATIO_TARGET, out of Den
  MaxOpenExposureUSD, \* MAX_OPEN_EXPOSURE_USD
  SlippageAlertBPS,   \* SLIPPAGE_ALERT_BPS, 0 switches the alert off
  WideningStep        \* how much high slippage widens the ratio, out of Den

ASSUME PolicyAssumption ==
  /\ Den \in Nat \ {0}
  /\ HedgeRatioTarget \in 0 .. Den
  /\ MaxOpenExposureUSD \in Nat
  /\ SlippageAlertBPS \in Nat
  /\ WideningStep \in Nat

VARIABLES
  overrides,  \* overrides[c]: [ratio, capUSD], keyed by upper-case code
  tuning      \* tuning[c]: mean slippage (bps), keyed by upper-case code

policyVars == <<overrides, tuning>>

Override == [ratio: Int, capUSD: Int]
NoOverride == [ratio |-> 0, capUSD |-> 0]

PolicyTypeOK ==
  /\ overrides \in [Currency -> Override]
  /\ tuning \in [Currency -> Int]

(* New and parseOverrides keep an entry only when its ratio or its cap is  *)
(* positive, under its upper-cased code; configured is what the            *)
(* environment says.                                                       *)
PolicyInit(configured) ==
  /\ overrides = [c \in Currency |->
                    IF \/ c # ToUpper[c]
                       \/ configured[c].ratio <= 0 /\ configured[c].capUSD <= 0
                      THEN NoOverride ELSE configured[c]]
  /\ tuning = [c \in Currency |-> 0]

SetOverride(c, o) ==
  /\ overrides' = [overrides EXCEPT ![ToUpper[c]] = o]
  /\ UNCHANGED tuning

ApplySlippageTuning(c, meanSlippageBPS) ==
  /\ tuning' = [tuning EXCEPT ![ToUpper[c]] = meanSlippageBPS]
  /\ UNCHANGED overrides

-----------------------------------------------------------------------------
Clamp(x, lo, hi) == IF x < lo THEN lo ELSE IF x > hi THEN hi ELSE x

(* EffectiveRatio without the final clamp to [0, 1]. *)
EffectiveRatioUnclamped(c) ==
  LET ov == overrides[ToUpper[c]]
  IN  (IF ov.ratio > 0 THEN ov.ratio ELSE HedgeRatioTarget)
      + (IF SlippageAlertBPS > 0 /\ tuning[ToUpper[c]] > SlippageAlertBPS
           THEN WideningStep ELSE 0)

EffectiveRatio(c) ==
  LET ov == overrides[ToUpper[c]]
      base == IF ov.ratio > 0 THEN ov.ratio ELSE HedgeRatioTarget
      widened == SlippageAlertBPS > 0 /\ tuning[ToUpper[c]] > SlippageAlertBPS
  IN  Clamp(IF widened THEN base + WideningStep ELSE base, 0, Den)

EffectiveCap(c) ==
  LET ov == overrides[ToUpper[c]]
  IN  IF ov.capUSD > 0 THEN ov.capUSD ELSE MaxOpenExposureUSD

(* What a decision says; notional is scaled by Den. *)
Decision(notional, blocked) == [notional |-> notional, blockedByCap |-> blocked]

(* Decide that compares the net position instead of the open amount. *)
DecideOnNet(c, exp) ==
  IF exp = NoExposure \/ exp.netAmount = 0 THEN Decision(0, FALSE)
  ELSE LET needed == exp.netAmount * EffectiveRatio(c) - exp.hedgeCoverage * Den
       IN  Decision(IF needed > 0 THEN needed ELSE 0,
                    Abs(exp.netAmount) > EffectiveCap(c))

Decide(c, exp) ==
  IF exp = NoExposure \/ exp.netAmount = 0 THEN Decision(0, FALSE)
  ELSE LET open == exp.netAmount - exp.hedgeCoverage
           short == exp.netAmount * EffectiveRatio(c) - exp.hedgeCoverage * Den
           \* the part of the target not yet covered, in the direction of net
           needed == IF (exp.netAmount > 0) = (short > 0) THEN short ELSE 0
           breached == Abs(open) > EffectiveCap(c)
       IN  Decision(IF breached THEN Abs(open) * Den ELSE Abs(needed), breached)

Breach(c, exp) ==
  /\ exp # NoExposure
  /\ LET computed == exp.netAmount - exp.hedgeCoverage
         open == IF exp.openAmount # 0 THEN exp.openAmount ELSE computed
     IN  Abs(open) > EffectiveCap(c)

-----------------------------------------------------------------------------
(* The cap guard on the long side only. *)
CapBlocksLongOnly(c, amount) ==
  /\ c \in netKeys
  /\ Open(c) + amount > EffectiveCap(c)
  /\ Open(c) + amount > Open(c)

(* The cap guard on the open amount before the flow instead of after it. *)
CapBlocksCurrent(c, amount) ==
  /\ c \in netKeys
  /\ Abs(Open(c)) > EffectiveCap(c)
  /\ Abs(Open(c) + amount) > Abs(Open(c))

(* The guard of api.AddExposure against a flow of this amount, from the   *)
(* tracker's exposure and the policy's cap.  Without a recorded exposure   *)
(* nothing is blocked.                                                     *)
CapBlocks(c, amount) ==
  /\ c \in netKeys
  /\ Abs(Open(c) + amount) > EffectiveCap(c)
  /\ Abs(Open(c) + amount) > Abs(Open(c))
=============================================================================
