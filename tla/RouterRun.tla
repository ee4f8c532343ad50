------------------------------ MODULE RouterRun ------------------------------
(***************************************************************************)
(* One order through executor.Router.RouteAndExecute, for every bounded    *)
(* combination of what the venues answer.                                  *)
(***************************************************************************)
EXTENDS Router

CONSTANTS
  Rates,        \* the rates venues quote
  Costs,        \* the costs venues quote, in basis points
  Liquidities,  \* the liquidity venues quote
  Notionals,    \* the notionals of orders
  Shorts,       \* what fills may fall short of the amount ordered
  NoOutcome     \* the router has not returned yet

VARIABLES
  order,    \* the order and the answers of the venues
  outcome   \* what RouteAndExecute returned

routerVars == <<order, outcome>>

Quotes == [rate: Rates, costBPS: Costs, liquidity: Liquidities] \cup {NoQuote}

RouterInit ==
  /\ \E n \in Notionals, qs \in [Executor -> Quotes] :
       order = [notional |-> n, quotes |-> qs, requotes |-> qs, answers |-> [ex \in Executor |-> Refused]]
  /\ outcome = NoOutcome

(* The venues may quote another liquidity, or not at all, when a split     *)
(* asks them again.                                                        *)
Route ==
  /\ outcome = NoOutcome
  /\ \E answers \in [Executor -> [short: Shorts, price: Rates] \cup {Refused}],
        again \in [Executor -> Liquidities \cup {NoQuote}] :
       LET requotes == [ex \in Executor |->
                          IF again[ex] = NoQuote THEN NoQuote
                          ELSE [rate |-> 1, costBPS |-> 0, liquidity |-> again[ex]]]
       IN  /\ order' = [order EXCEPT !.requotes = requotes, !.answers = answers]
           /\ outcome' = RouteAndExecute(order.notional, order.quotes, requotes, answers)

RouterNext == Route

RouterSpec == RouterInit /\ [][RouterNext]_routerVars

-----------------------------------------------------------------------------
Returned == outcome # NoOutcome

(* Every venue that took an order filled all of it. *)
FilledInFull ==
  \A ex \in Executor : order.answers[ex] # Refused => order.answers[ex].short = 0

(* RouteAndExecute never executes more than the notional, on any venue     *)
(* twice, or more than a split venue offered.  An error means that less    *)
(* than the notional was executed and, if venues fill their orders in      *)
(* full, success that all of it was.                                       *)
FillsAddUp ==
  Returned =>
    /\ FilledAmount(outcome.fills) <= order.notional
    /\ ~ outcome.ok => FilledAmount(outcome.fills) < order.notional
    /\ outcome.ok /\ FilledInFull => FilledAmount(outcome.fills) = order.notional
    /\ \A i, j \in DOMAIN outcome.fills :
         outcome.fills[i].venue = outcome.fills[j].venue => i = j
    /\ Len(outcome.fills) > 1 =>
         \A i \in DOMAIN outcome.fills :
           outcome.fills[i].amount <= order.requotes[outcome.fills[i].venue].liquidity

(* The venue an order is sent to whole is the best one: no venue quoted a  *)
(* lower effective rate, and none as low a rate with more liquidity        *)
(* (BestQuote, betterQuote).                                               *)
BestVenueChosen ==
  Returned /\ Quoting(order.quotes) # <<>> =>
    LET best == order.quotes[BestQuote(order.quotes)]
    IN  \A ex \in Executor : order.quotes[ex] # NoQuote =>
          \/ EffectiveRate(best) < EffectiveRate(order.quotes[ex])
          \/ /\ EffectiveRate(best) = EffectiveRate(order.quotes[ex])
             /\ best.liquidity >= order.quotes[ex].liquidity

(* If venues fill their orders in full, a split fills as much as those     *)
(* that accept can take, the most liquid first: it is incomplete only when *)
(* they cannot take the notional (splitAndExecute goes on after a refused  *)
(* leg).                                                                   *)
SplitFillsAllItCan ==
  Returned /\ FilledInFull =>
    LET split == splitAndExecute(order.notional, order.requotes, order.answers)
        able == {ex \in Executor :
                   /\ order.answers[ex] # Refused /\ order.requotes[ex] # NoQuote
                   /\ order.requotes[ex].liquidity > 0}
        offered == MapThenSumSet(LAMBDA ex : order.requotes[ex].liquidity, able)
    IN  /\ FilledAmount(split.fills) = Min({offered, order.notional})
        /\ \A i, j \in DOMAIN split.fills : i < j =>
             order.requotes[split.fills[i].venue].liquidity
               >= order.requotes[split.fills[j].venue].liquidity
=============================================================================
