----------------------------- MODULE Settlement -----------------------------
(***************************************************************************)
(* GET /v1/settlement: settlement.Engine and the handler that nets the     *)
(* tracker's exposures with the executed hedges of the store and posts the *)
(* obligations to Reconciliation.  The handler reads the tracker and then  *)
(* the store; flows are booked and hedges executed in between, and the     *)
(* execution of a hedge is itself two steps, the store's and the tracker's.*)
(***************************************************************************)
EXTENDS Domain, FiniteSetsExt, SequencesExt

CONSTANTS
  Settler,     \* goroutines that serve GET /v1/settlement
  FlowDelta,   \* the amounts of flows
  HedgeSize,   \* the notionals of hedges
  MaxInstant,  \* bound: how many flows are booked and hedges written
  MaxPosts     \* bound: how many settlements are read

ASSUME SettlementAssumption ==
  FlowDelta \subseteq Int \ {0} /\ HedgeSize \subseteq Nat \ {0}

VARIABLES
  now,       \* the time; every update has an instant of its own
  flows,     \* flows[c]: the exposure AllExposures returns for c
  book,      \* the hedges, oldest first
  stamped,   \* plan legs that have their time and are not stored yet
  uncovered, \* the hedges in book that AddCoverage has not counted yet
  reader,    \* reader[s]: the exposures s has read, and whether nothing
             \* was written meanwhile
  reads,     \* how many settlements were read
  posted     \* the obligations posted, with that same mark

settlementVars == <<now, flows, book, stamped, uncovered, reader, reads, posted>>

NotReading == [reading |-> FALSE]

SettlementInit ==
  /\ now = 0 /\ reads = 0
  /\ flows = [c \in Currency |-> [net |-> 0, at |-> 0]]
  /\ book = <<>> /\ stamped = {} /\ uncovered = {}
  /\ reader = [s \in Settler |-> NotReading]
  /\ posted = {}

-----------------------------------------------------------------------------
(***************************************************************************)
(* settlement.Engine: legs are [currency, amount, at].                     *)
(***************************************************************************)
NoTotal == [amount |-> 0, legs |-> 0, at |-> 0]

(* The time of the first leg is kept instead of the latest. *)
AddLegFirst(leg, totals) ==
  [totals EXCEPT ![leg.currency] =
     [amount |-> @.amount + leg.amount, legs |-> @.legs + 1,
      at |-> IF @.legs = 0 THEN leg.at ELSE @.at]]

(* One leg is added to the totals of its currency. *)
AddLeg(leg, totals) ==
  [totals EXCEPT ![leg.currency] =
     [amount |-> @.amount + leg.amount, legs |-> @.legs + 1,
      at |-> IF leg.at > @.at THEN leg.at ELSE @.at]]

(* Net: one obligation per currency; those that offset fully are dropped.  *)
(* Sorting them by currency is left out.                                   *)
Net(legs) ==
  LET totals == FoldSeq(AddLeg, [c \in Currency |-> NoTotal], legs)
  IN  {[currency |-> c, amount |-> totals[c].amount, legs |-> totals[c].legs,
        at |-> totals[c].at] : c \in {d \in Currency : totals[d].amount # 0}}

(* A failed hedge counts as well. *)
NetWithFailedHedges(exposures, hs) ==
  Net(SetToSeq({[currency |-> c, amount |-> exposures[c].net, at |-> exposures[c].at] :
                  c \in {d \in Currency : exposures[d].net # 0}})
      \o [i \in DOMAIN hs |-> [currency |-> hs[i].currency, amount |-> - hs[i].notional,
                               at |-> hs[i].at]])

(* The flow legs and, with the opposite sign, the executed hedges'. *)
NetFromFlowsAndHedges(exposures, hs) ==
  LET flowLegs == {[currency |-> c, amount |-> exposures[c].net, at |-> exposures[c].at] :
                     c \in {d \in Currency : exposures[d].net # 0}}
      executed == SelectSeq(hs, LAMBDA h : h.status = "EXECUTED")
      hedgeLegs == [i \in DOMAIN executed |->
                      [currency |-> executed[i].currency, amount |-> - executed[i].notional,
                       at |-> executed[i].at]]
  IN  Net(SetToSeq(flowLegs) \o hedgeLegs)

-----------------------------------------------------------------------------
(* A write: it has the next instant, and readers are no longer alone. *)
Write ==
  /\ now < MaxInstant /\ now' = now + 1
  /\ reader' = [s \in Settler |->
                  IF reader[s].reading THEN [reader[s] EXCEPT !.alone = FALSE] ELSE reader[s]]
  /\ UNCHANGED <<reads, posted>>

(* api.AddExposure *)
BookFlowAt(c, amount) ==
  /\ Write
  /\ flows' = [flows EXCEPT ![c] = [net |-> @.net + amount, at |-> now']]
  /\ UNCHANGED <<book, stamped, uncovered>>

(* api.CreateHedge: UpdateHedge sets status and time in one section. *)
FinishHedge(c, n, status) ==
  /\ Write
  /\ book' = Append(book, [currency |-> c, notional |-> n, status |-> status, at |-> now'])
  /\ uncovered' = IF status = "EXECUTED" THEN uncovered \cup {Len(book')} ELSE uncovered
  /\ UNCHANGED <<flows, stamped>>

(* executeLeg sets status and time of an executed leg and then stores it. *)
StampLeg(c, n) ==
  /\ Write
  /\ stamped' = stamped \cup
       {[currency |-> c, notional |-> n, status |-> "EXECUTED", at |-> now']}
  /\ UNCHANGED <<flows, book, uncovered>>

StoreLeg(leg) ==
  /\ Write
  /\ book' = Append(book, leg)
  /\ uncovered' = uncovered \cup {Len(book')}
  /\ stamped' = stamped \ {leg}
  /\ UNCHANGED flows

(* Tracker.AddCoverage, which also renews the exposure's time. *)
CoverHedge(i) ==
  /\ Write
  /\ flows' = [flows EXCEPT ![book[i].currency].at = now']
  /\ uncovered' = uncovered \ {i}
  /\ UNCHANGED <<book, stamped>>

(* Settlement: Tracker.AllExposures. *)
ReadExposures(s) ==
  /\ ~ reader[s].reading
  /\ reads < MaxPosts /\ reads' = reads + 1
  /\ reader' = [reader EXCEPT ![s] =
                  [reading |-> TRUE, exposures |-> flows, alone |-> stamped = {} /\ uncovered = {}]]
  /\ UNCHANGED <<now, flows, book, stamped, uncovered, posted>>

(* Store.AllHedges, the netting and PublishObligation, whose idempotency   *)
(* key is the currency and the time of the obligation.  The audit event of *)
(* each obligation has the same currency and time, and is left out.        *)
PostObligations(s) ==
  /\ reader[s].reading
  /\ posted' = posted \cup
       {[key |-> <<ob.currency, ob.at>>, obligation |-> ob, alone |-> reader[s].alone] :
          ob \in NetFromFlowsAndHedges(reader[s].exposures, book)}
  /\ reader' = [reader EXCEPT ![s] = NotReading]
  /\ UNCHANGED <<now, flows, book, stamped, uncovered, reads>>

SettlementNext ==
  \/ \E c \in Currency :
       \/ \E a \in FlowDelta : BookFlowAt(c, a)
       \/ \E n \in HedgeSize :
            \/ \E status \in {"EXECUTED", "FAILED"} : FinishHedge(c, n, status)
            \/ StampLeg(c, n)
  \/ \E leg \in stamped : StoreLeg(leg)
  \/ \E i \in uncovered : CoverHedge(i)
  \/ \E s \in Settler : ReadExposures(s) \/ PostObligations(s)

SettlementSpec == SettlementInit /\ [][SettlementNext]_settlementVars

-----------------------------------------------------------------------------
(* NetFromFlowsAndHedges agrees with the definition of netting: what a     *)
(* currency receives is its flows minus its executed hedges, and it has an *)
(* obligation exactly when that is not zero.                               *)
NettingIsExact ==
  LET obligations == NetFromFlowsAndHedges(flows, book)
      Due(c) == flows[c].net -
        MapThenSumSet(LAMBDA i : book[i].notional,
                      {i \in DOMAIN book : book[i].currency = c /\ book[i].status = "EXECUTED"})
  IN  \A c \in Currency :
        {ob.amount : ob \in {o \in obligations : o.currency = c}} = {Due(c)} \ {0}

(* Two obligations that Settlement posts under one idempotency key are the *)
(* same obligation, so Reconciliation loses nothing by keeping the first,  *)
(* provided that no write came between the two reads and no hedge was      *)
(* between its time stamp and AddCoverage.                                 *)
KeyNamesObligation ==
  \A a, b \in posted :
    a.alone /\ b.alone /\ a.key = b.key => a.obligation = b.obligation
=============================================================================
