----------------------------- MODULE HedgeStore -----------------------------
(***************************************************************************)
(* store.MemStore: hedges, the client-request index, slippage samples and  *)
(* P&L rows.  Every method runs under the store's RWMutex, so every        *)
(* operator below that primes a variable is one indivisible step.          *)
(*                                                                         *)
(* Hedge ids are UUIDs in the code; here the n-th id issued is n, and the  *)
(* n-th trade of the venues has the trade id n.  Of a hedge the fields     *)
(* kept are those some handler reads back.                                 *)
(***************************************************************************)
EXTENDS Domain, Functions

CONSTANTS
  HedgeId,      \* hedge ids
  NoHedge,      \* no hedge: the nil *domain.Hedge
  RequestId,    \* non-empty client request ids
  NoRequestId,  \* the empty client request id
  VenueName,    \* venue names a fill may carry
  NoVenue       \* the empty venue name

Fill == [venue: VenueName \cup {NoVenue}, trade: Nat, price: Int, amount: Int]
Hedge == [currency: Currency, notional: Int, status: HedgeStatus,
          request: RequestId \cup {NoRequestId}, quotedRate: Int,
          capBreached: BOOLEAN, fills: Seq(Fill), slippageBPS: Int, pnl: Int]
Sample == [currency: Currency, trade: Nat, slippageBPS: Int]
PnLRow == [currency: Currency, realized: Int, slippageCost: Int]

ASSUME StoreAssumption ==
  /\ NoRequestId \notin RequestId
  /\ NoHedge \notin HedgeId \cup Hedge
  /\ IsFiniteSet(HedgeId) /\ HedgeId = 1 .. Cardinality(HedgeId)

VARIABLES
  hedges,    \* hedges[id]: the hedge stored under id, or NoHedge
  byReq,     \* byReq[r]: the id of the hedge stored last with request id r
  samples,   \* the slippage samples, oldest first
  pnlRows,   \* the P&L rows, oldest first
  issued,    \* how many hedge ids were issued (uuid.NewV7)
  trades     \* how many trades providers and venues executed

storeVars == <<hedges, byReq, samples, pnlRows>>
idVars == <<issued, trades>>

StoreTypeOK ==
  /\ hedges \in [HedgeId -> Hedge \cup {NoHedge}]
  /\ byReq \in [RequestId -> HedgeId \cup {NoHedge}]
  /\ samples \in Seq(Sample)
  /\ pnlRows \in Seq(PnLRow)
  /\ issued \in 0 .. Cardinality(HedgeId)
  /\ trades \in Nat

(* store.New *)
StoreInit ==
  /\ hedges = [id \in HedgeId |-> NoHedge]
  /\ byReq = [r \in RequestId |-> NoHedge]
  /\ samples = <<>>
  /\ pnlRows = <<>>
  /\ issued = 0
  /\ trades = 0

-----------------------------------------------------------------------------
Stored == {id \in HedgeId : hedges[id] # NoHedge}

(* CreateHedge that does not index hedges that failed at once. *)
StoreHedgeIndexLive(id, h) ==
  /\ hedges' = [hedges EXCEPT ![id] = h]
  /\ byReq' = [r \in RequestId |->
                 IF r = h.request /\ h.status # "FAILED" THEN id ELSE byReq[r]]
  /\ UNCHANGED <<samples, pnlRows>>

(* CreateHedge: no check for duplicates, the request index is overwritten. *)
StoreHedge(id, h) ==
  /\ hedges' = [hedges EXCEPT ![id] = h]
  /\ byReq' = [r \in RequestId |-> IF r = h.request THEN id ELSE byReq[r]]
  /\ UNCHANGED <<samples, pnlRows>>

(* UpdateHedge of a stored hedge; the callbacks of the handlers set the    *)
(* status and, on success, the fills, the slippage and the P&L.            *)
UpdateHedge(id, h) ==
  /\ id \in Stored
  /\ hedges' = [hedges EXCEPT ![id] = h]
  /\ UNCHANGED <<byReq, samples, pnlRows>>

GetHedgeByClientRequest(r) == IF r = NoRequestId THEN NoHedge ELSE byReq[r]

(* HasFill that looks at the first fill of every hedge only. *)
HasFillFirst(f) ==
  /\ f.venue # NoVenue
  /\ \E id \in Stored :
       /\ hedges[id].fills # <<>>
       /\ hedges[id].fills[1].venue = f.venue
       /\ hedges[id].fills[1].trade = f.trade

(* HasFill: a fill without a venue name is never recognised again. *)
HasFill(f) ==
  /\ f.venue # NoVenue
  /\ \E id \in Stored : \E i \in DOMAIN hedges[id].fills :
       /\ hedges[id].fills[i].venue = f.venue
       /\ hedges[id].fills[i].trade = f.trade

AddSlippageSample(s) ==
  /\ samples' = Append(samples, s)
  /\ UNCHANGED <<hedges, byReq, pnlRows>>

AddPnL(row) ==
  /\ pnlRows' = Append(pnlRows, row)
  /\ UNCHANGED <<hedges, byReq, samples>>

(* HedgesByCurrency; AllHedges has them for all currencies. *)
HedgesByCurrency(c) == {id \in Stored : hedges[id].currency = c}

-----------------------------------------------------------------------------
(***************************************************************************)
(* What the read endpoints of the API make of the store.                   *)
(***************************************************************************)
(* GET /v1/hedges of a currency and a status. *)
ListHedges(c, status) == {id \in HedgesByCurrency(c) : hedges[id].status = status}

(* The slippage cost of a notional; the division by 10000 is left out. *)
SlippageCost(bps, notional) == bps * notional

(* GET /v1/pnl without a time range, for one currency.  The total of the   *)
(* answer is the sum over the currencies.                                  *)
PnLReport(c) ==
  [realized |-> SumFunction([id \in HedgesByCurrency(c) |-> hedges[id].pnl]),
   slippageCost |->
     SumFunction([id \in HedgesByCurrency(c) |->
                    SlippageCost(hedges[id].slippageBPS, hedges[id].notional)])]
=============================================================================
