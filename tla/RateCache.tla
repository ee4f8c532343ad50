----------------------------- MODULE RateCache -----------------------------
(***************************************************************************)
(* ratecache.Cache: the last rate of every currency.  Update and Get each  *)
(* run under the cache's own mutex.                                        *)
(***************************************************************************)
EXTENDS Domain

CONSTANT NoRate   \* no entry for a currency

VARIABLE rates    \* rates[c]: the rate recorded last, its source and its time

RateEntry == [rate: Int, source: {"quote", "fill"}, at: Nat]

ASSUME RateAssumption == NoRate \notin RateEntry

RateTypeOK == rates \in [Currency -> RateEntry \cup {NoRate}]

(* ratecache.New *)
RateInit == rates = [c \in Currency |-> NoRate]

Update(c, rate, source, now) ==
  rates' = [rates EXCEPT ![c] = [rate |-> rate, source |-> source, at |-> now]]

(* Get finds a rate that is not older than the TTL; a TTL of 0 is none. *)
Fresh(c, now, ttl) == rates[c] # NoRate /\ (ttl = 0 \/ now - rates[c].at <= ttl)
=============================================================================
