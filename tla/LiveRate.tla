------------------------------ MODULE LiveRate ------------------------------
(***************************************************************************)
(* The live rate: gRPC GetLiveRate, called by any number of pricing        *)
(* services, over the cache that the hedge handlers feed.  Cache.Get and   *)
(* Cache.CrossCheck are two critical sections, with updates and time       *)
(* between them.                                                           *)
(*                                                                         *)
(* Cache.SetRevaluationRate is part of the cache's interface; in this      *)
(* repository only tests call it.                                          *)
(***************************************************************************)
EXTENDS RateCache

CONSTANTS
  Pricer,        \* concurrent callers of GetLiveRate
  Priced,        \* the currencies they ask for
  Rate,          \* rates of quotes, fills and revaluations
  TTL,           \* how long a rate is fresh, 1 s in the service
  ToleranceBPS,  \* the tolerance of the cross-check, 100
  MaxTime        \* bound: the last instant

ASSUME LiveRateAssumption ==
  /\ Priced \subseteq Currency
  /\ Rate \subseteq Nat \ {0} /\ TTL \in Nat /\ ToleranceBPS \in Nat /\ MaxTime \in Nat

VARIABLES
  reval,   \* reval[c]: the revaluation rate, 0 when none was set
  clock,   \* the time
  held,    \* held[p]: the currency and the rate p got and has not checked yet
  answer   \* answer[p]: p's last answer

liveRateVars == <<rates, reval, clock, held, answer>>

Nothing == [kind |-> "none"]
Error == [kind |-> "error"]

LiveRateInit ==
  /\ RateInit
  /\ reval = [c \in Currency |-> 0]
  /\ clock = 0
  /\ held = [p \in Pricer |-> Nothing]
  /\ answer = [p \in Pricer |-> Nothing]

-----------------------------------------------------------------------------
Tick ==
  /\ clock < MaxTime /\ clock' = clock + 1
  /\ UNCHANGED <<rates, reval, held, answer>>

(* api.CreateHedge and processFills feed the cache. *)
FeedRate(c, r) ==
  /\ Update(c, r, "quote", clock)
  /\ UNCHANGED <<reval, clock, held, answer>>

SetRevaluationRate(c, r) ==
  /\ reval' = [reval EXCEPT ![c] = r]
  /\ UNCHANGED <<rates, clock, held, answer>>

(* |rate - rv| in basis points of rv, without the division. *)
Within(rate, rv) == Abs(rate - rv) * 10000 <= ToleranceBPS * rv

(* The cross-check without the absolute value. *)
CrossCheckSigned(c) ==
  /\ reval[c] # 0 /\ rates[c] # NoRate
  /\ (rates[c].rate - reval[c]) * 10000 <= ToleranceBPS * reval[c]

(* CrossCheck, of the rate the cache has now.  No rate of the model is 0. *)
CrossCheck(c) ==
  reval[c] # 0 /\ rates[c] # NoRate /\ Within(rates[c].rate, reval[c])

(* Cache.Get: a missing or stale rate ends the call with an error. *)
GetRate(p, c) ==
  /\ held[p] = Nothing
  /\ IF Fresh(c, clock, TTL)
       THEN /\ held' = [held EXCEPT ![p] = [kind |-> "rate", currency |-> c,
                                            entry |-> rates[c], got |-> clock]]
            /\ UNCHANGED answer
       ELSE /\ answer' = [answer EXCEPT ![p] = Error]
            /\ UNCHANGED held
  /\ UNCHANGED <<rates, reval, clock>>

(* Cache.CrossCheck and the answer: the rate Get returned, or an error. *)
CheckRate(p) ==
  /\ held[p] # Nothing
  /\ held' = [held EXCEPT ![p] = Nothing]
  /\ LET c == held[p].currency
     IN  answer' = [answer EXCEPT ![p] =
           IF CrossCheck(c)
             THEN [kind |-> "served", entry |-> held[p].entry, got |-> held[p].got,
                   latest |-> rates[c], reval |-> reval[c]]
             ELSE Error]
  /\ UNCHANGED <<rates, reval, clock>>

LiveRateNext ==
  \/ Tick
  \/ \E c \in Priced, r \in Rate : FeedRate(c, r) \/ SetRevaluationRate(c, r)
  \/ \E p \in Pricer : CheckRate(p) \/ \E c \in Priced : GetRate(p, c)

LiveRateSpec == LiveRateInit /\ [][LiveRateNext]_liveRateVars

-----------------------------------------------------------------------------
(* GetLiveRate serves a rate that was fresh when Get returned it and that  *)
(* agrees with the revaluation rate, unless an Update replaced it between  *)
(* Get and CrossCheck, which is then asked about the newer rate.           *)
ServedRateChecked ==
  \A p \in Pricer : answer[p].kind = "served" =>
    LET a == answer[p]
    IN  /\ TTL > 0 => a.got - a.entry.at \in 0 .. TTL
        /\ a.entry.at <= a.latest.at
        /\ a.entry = a.latest => Within(a.entry.rate, a.reval)
=============================================================================
