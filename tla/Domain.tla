------------------------------- MODULE Domain -------------------------------
(***************************************************************************)
(* What internal/domain declares and every package shares.  Money is an    *)
(* integer: the code adds, negates and compares decimals exactly.          *)
(***************************************************************************)
EXTENDS Integers, Sequences, FiniteSets

CONSTANTS
  Currency,     \* currency codes
  ToUpper       \* ToUpper[c]: strings.ToUpper on currency codes

ASSUME DomainAssumption ==
  /\ ToUpper \in [Currency -> Currency]
  /\ \A c \in Currency : ToUpper[ToUpper[c]] = ToUpper[c]

Exposure == [currency: Currency, netAmount: Int, hedgeCoverage: Int,
             openAmount: Int, updatedAt: Nat]

HedgeStatus == {"PENDING", "EXECUTING", "EXECUTED", "FAILED"}

(* Slippage of a price against the quoted rate, in basis points. *)
SlippageOf(quoted, price) == ((price - quoted) * 10000) \div quoted

Abs(x) == IF x < 0 THEN -x ELSE x
=============================================================================
