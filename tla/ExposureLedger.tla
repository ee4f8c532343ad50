--------------------------- MODULE ExposureLedger ---------------------------
(***************************************************************************)
(* What POST /v1/exposure/{currency} promises, with none of its steps:     *)
(* between its receipt and its answer a request is decided at one instant. *)
(* It is booked, and an event id is booked at most once however often it   *)
(* is delivered, or it is refused, and only when booking it at that        *)
(* instant would take the open amount beyond the cap and further from      *)
(* zero.  Hedges raise the covered amount at any time.                     *)
(***************************************************************************)
EXTENDS Integers

CONSTANTS
  Currency, EventId, NoEvent,
  Worker, NoRequest,
  Amount,      \* the amounts of requests
  HedgeAmount  \* the amounts of hedges

VARIABLES
  balance,  \* balance[c]: the sum of the booked amounts
  covered,  \* covered[c]: the sum of the hedged amounts
  cap,      \* cap[c]: the open-amount cap
  posted,   \* the event ids that have been booked
  request,  \* request[w]: what w is serving
  decision  \* decision[w]: "none", "booked" or "refused"

ledgerVars == <<balance, covered, cap, posted, request, decision>>

Magnitude(x) == IF x < 0 THEN -x ELSE x

WouldBreach(c, amount) ==
  LET before == balance[c] - covered[c]
      after == before + amount
  IN  Magnitude(after) > cap[c] /\ Magnitude(after) > Magnitude(before)

LedgerInit ==
  /\ balance = [c \in Currency |-> 0]
  /\ covered = [c \in Currency |-> 0]
  /\ cap \in [Currency -> Int]
  /\ posted = {}
  /\ request = [w \in Worker |-> NoRequest]
  /\ decision = [w \in Worker |-> "none"]

Receive(w) ==
  /\ request[w] = NoRequest
  /\ \E c \in Currency, amount \in Amount, e \in EventId \cup {NoEvent} :
       request' = [request EXCEPT ![w] =
                     [currency |-> c, amount |-> amount, event |-> e]]
  /\ UNCHANGED <<balance, covered, cap, posted, decision>>

Pending(w) == request[w] # NoRequest /\ decision[w] = "none"

Book(w) ==
  /\ Pending(w)
  /\ IF request[w].event \in posted
       THEN UNCHANGED <<balance, posted>>
       ELSE /\ balance' = [balance EXCEPT ![request[w].currency] =
                             @ + request[w].amount]
            /\ posted' = posted \cup ({request[w].event} \ {NoEvent})
  /\ decision' = [decision EXCEPT ![w] = "booked"]
  /\ UNCHANGED <<covered, cap, request>>

Refuse(w) ==
  /\ Pending(w)
  /\ WouldBreach(request[w].currency, request[w].amount)
  /\ decision' = [decision EXCEPT ![w] = "refused"]
  /\ UNCHANGED <<balance, covered, cap, posted, request>>

Answer(w) ==
  /\ decision[w] # "none"
  /\ request' = [request EXCEPT ![w] = NoRequest]
  /\ decision' = [decision EXCEPT ![w] = "none"]
  /\ UNCHANGED <<balance, covered, cap, posted>>

Cover ==
  /\ \E c \in Currency, amount \in HedgeAmount :
       covered' = [covered EXCEPT ![c] = @ + amount]
  /\ UNCHANGED <<balance, cap, posted, request, decision>>

LedgerNext ==
  \/ \E w \in Worker : Receive(w) \/ Book(w) \/ Refuse(w) \/ Answer(w)
  \/ Cover

LedgerSpec == LedgerInit /\ [][LedgerNext]_ledgerVars
=============================================================================
