------------------------------- MODULE Router -------------------------------
(***************************************************************************)
(* executor.Router over its executors (BankAdapter, VenueAdapter, possibly *)
(* wrapped by LatencyExecutor).  The router shares no state with other     *)
(* requests, so RouteAndExecute is an operator of the answers the venues   *)
(* give:                                                                   *)
(*   quotes    what BestQuote was answered, by executor                    *)
(*   requotes  what splitAndExecute was answered when it asked again       *)
(*   answers   what Submit was answered, by executor: an error, or a fill  *)
(*             at a price and for an amount the venue decides              *)
(* A rate is an integer, the effective rate is scaled by 10000, and        *)
(* amounts are integers, so the 1e-12 and 1e-9 tolerances are zero.        *)
(***************************************************************************)
EXTENDS Integers, Sequences, FiniteSetsExt

CONSTANTS
  Executors,  \* the executors in the order NewRouter got them
  NoQuote,    \* a Quote call that failed
  Refused     \* a Submit call that failed

Executor == {Executors[i] : i \in DOMAIN Executors}

VenueQuote == [rate: Nat \ {0}, costBPS: Nat, liquidity: Int]

(* A fill, by what it falls short of the amount ordered. *)
SubmitAnswer == [short: Nat, price: Nat \ {0}]

ASSUME RouterAssumption ==
  /\ Executors # <<>>
  /\ \A i, j \in DOMAIN Executors : Executors[i] = Executors[j] => i = j
  /\ NoQuote \notin VenueQuote /\ Refused \notin SubmitAnswer

(* A loop over seq in order: acc becomes turn(acc, x).  (FoldLeft of       *)
(* SequencesExt, taken from Folds as SequencesExt itself makes the proof   *)
(* obligations of the modules that build on the router large.)             *)
RangeLoop(turn(_, _), start, seq) ==
  MapThenFoldSet(LAMBDA x, acc : turn(acc, x), start, LAMBDA i : seq[i], LAMBDA S : Max(S),
                 DOMAIN seq)

(* The executors that quoted, in order. *)
Quoting(quotes) == SelectSeq(Executors, LAMBDA ex : quotes[ex] # NoQuote)

EffectiveRate(q) == q.rate * (10000 + q.costBPS)

(* betterQuote with the tie broken towards less liquidity. *)
betterQuoteThin(a, b) ==
  \/ EffectiveRate(a) < EffectiveRate(b)
  \/ EffectiveRate(a) = EffectiveRate(b) /\ a.liquidity < b.liquidity

betterQuote(a, b) ==
  \/ EffectiveRate(a) < EffectiveRate(b)
  \/ EffectiveRate(a) = EffectiveRate(b) /\ a.liquidity > b.liquidity

(* The executor BestQuote returns, when at least one quoted. *)
BestQuote(quotes) ==
  LET results == Quoting(quotes)
  IN  RangeLoop(LAMBDA best, cand :
                 IF betterQuote(quotes[cand], quotes[best]) THEN cand ELSE best,
               Head(results), Tail(results))

Outcome(fills, ok) == [fills |-> fills, ok |-> ok]

RouterFill(ex, ordered, answer) ==
  [venue |-> ex, amount |-> Max({0, ordered - answer.short}), price |-> answer.price]

(* Insertion of ex into venues sorted by descending liquidity, behind the  *)
(* venues that are as liquid.                                              *)
InsertByLiquidity(quotes, sorted, ex) ==
  LET k == Cardinality({i \in DOMAIN sorted :
                          quotes[sorted[i]].liquidity >= quotes[ex].liquidity})
  IN  SubSeq(sorted, 1, k) \o <<ex>> \o SubSeq(sorted, k + 1, Len(sorted))

(* The venues left in the order they quoted. *)
KeepQuoteOrder(quotes) == Quoting(quotes)

SortByLiquidity(quotes) ==
  RangeLoop(LAMBDA sorted, ex : InsertByLiquidity(quotes, sorted, ex),
           <<>>, Quoting(quotes))

(* One turn of splitAndExecute's loop that counts a refused leg as filled. *)
AllocateRefused(requotes, answers, acc, ex) ==
  LET alloc == Min({requotes[ex].liquidity, acc.remaining})
  IN  IF acc.remaining <= 0 \/ requotes[ex].liquidity <= 0 THEN acc
      ELSE [remaining |-> acc.remaining - alloc,
            fills |-> IF answers[ex] # Refused
                        THEN Append(acc.fills, RouterFill(ex, alloc, answers[ex]))
                        ELSE acc.fills]

(* One turn of splitAndExecute's loop: what is left to order goes down by  *)
(* the amount ordered, whatever the venue filled.                          *)
Allocate(requotes, answers, acc, ex) ==
  LET alloc == Min({requotes[ex].liquidity, acc.remaining})
  IN  IF acc.remaining <= 0 \/ requotes[ex].liquidity <= 0 \/ answers[ex] = Refused THEN acc
      ELSE [remaining |-> acc.remaining - alloc,
            fills |-> Append(acc.fills, RouterFill(ex, alloc, answers[ex]))]

(* An incomplete split returns the fills it got along with the error. *)
splitAndExecute(notional, requotes, answers) ==
  LET done == RangeLoop(LAMBDA acc, ex : Allocate(requotes, answers, acc, ex),
                       [remaining |-> notional, fills |-> <<>>],
                       SortByLiquidity(requotes))
  IN  Outcome(done.fills, done.remaining = 0)

(* A best venue without liquidity is taken to be unlimited. *)
RouteAndExecute(notional, quotes, requotes, answers) ==
  IF Quoting(quotes) = <<>> THEN Outcome(<<>>, FALSE)
  ELSE LET best == BestQuote(quotes)
           q == quotes[best]
       IN  IF q.liquidity > 0 /\ q.liquidity < notional
             THEN splitAndExecute(notional, requotes, answers)
             ELSE IF answers[best] # Refused
               THEN Outcome(<<RouterFill(best, notional, answers[best])>>, TRUE)
               ELSE Outcome(<<>>, FALSE)

FilledAmount(fills) == RangeLoop(LAMBDA sum, f : sum + f.amount, 0, fills)
=============================================================================
