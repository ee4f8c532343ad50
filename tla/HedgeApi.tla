------------------------------ MODULE HedgeApi ------------------------------
(***************************************************************************)
(* POST /v1/hedges: api.Service.CreateHedge and processFills, run by any   *)
(* number of server goroutines at once against the shared store, tracker,  *)
(* policy, rate cache and audit recorder.  A step is one critical section  *)
(* of one of them with the local computation around it.  An audit event is *)
(* emitted in the step before it: only how often an event was recorded is  *)
(* kept, no handler reads it, so the emission commutes with every step of  *)
(* the others.                                                             *)
(*                                                                         *)
(* provider.FXProvider is external: Quote and Execute fail or answer as    *)
(* they like, and Execute reports fills that make up the notional.         *)
(***************************************************************************)
EXTENDS Policy, HedgeStore, RateCache, Audit

CONSTANTS
  HedgeWorker,  \* goroutines that may serve hedge requests at the same time
  NoJob,        \* a worker that serves nothing
  Notional,     \* the notionals of valid requests
  QuoteRate,    \* the rates the provider quotes
  Price,        \* the prices the provider executes at
  Venue,        \* the venue name the provider puts on its fills
  MaxFills,     \* bound: new fills of one Execute, 1 or 2
  Replays,      \* the trades the provider may report again: "never" any,
                \* those "stored" on a hedge, or all "reported" before
  Overlaps,     \* may a client repeat a request id that is being served
  FlowAmount    \* the net exposure a currency may get while hedges run

(* The locals of CreateHedge: the request, the id of the hedge it creates  *)
(* (0 before), what processFills has accumulated and the fills it has not  *)
(* looked at yet.                                                          *)
Job == [id: HedgeId \cup {0}, h: Hedge, todo: Seq(Fill), executed: Int]

ASSUME HedgeAssumption ==
  /\ IsFiniteSet(HedgeWorker) /\ NoJob \notin Job
  /\ HedgeId \cup Currency \subseteq Entity
  /\ Notional \subseteq Nat \ {0} /\ QuoteRate \subseteq Nat \ {0}
  /\ Price \subseteq Nat \ {0} /\ FlowAmount \subseteq Int
  /\ Venue \in VenueName \cup {NoVenue}
  /\ MaxFills \in {1, 2} /\ Overlaps \in BOOLEAN
  /\ Replays \in {"never", "stored", "reported"}

VARIABLES
  pc,        \* pc[w]: the step of CreateHedge w runs next
  job,       \* job[w]: the locals of w's handler
  answers,   \* the <<request id, hedge id>> pairs answered so far
  published  \* published[id]: execution records posted under the key id

handlerVars == <<pc, job, issued, trades, answers, published>>
apiVars == <<trackerVars, policyVars, storeVars, rates, audit, handlerVars>>

HedgePc == {"idle", "lookup", "policy", "quote", "store", "execute", "fills",
            "sample", "feed", "update", "pnl", "cover", "announce", "publish"}

HedgeTypeOK ==
  /\ TrackerTypeOK /\ PolicyTypeOK /\ StoreTypeOK /\ RateTypeOK /\ AuditTypeOK
  /\ pc \in [HedgeWorker -> HedgePc]
  /\ job \in [HedgeWorker -> Job \cup {NoJob}]
  /\ \A w \in HedgeWorker : job[w] = NoJob <=> pc[w] = "idle"
  /\ answers \in SUBSET (RequestId \X HedgeId)
  /\ published \in [HedgeId -> Nat]

HedgeInit ==
  /\ TrackerInit /\ StoreInit /\ RateInit /\ AuditInit
  /\ PolicyInit([c \in Currency |-> NoOverride])
  /\ pc = [w \in HedgeWorker |-> "idle"]
  /\ job = [w \in HedgeWorker |-> NoJob]
  /\ answers = {}
  /\ published = [id \in HedgeId |-> 0]

-----------------------------------------------------------------------------
At(w, here, next) ==
  /\ pc[w] = here
  /\ pc' = [pc EXCEPT ![w] = next]

Finish(w, here) ==
  /\ At(w, here, "idle")
  /\ job' = [job EXCEPT ![w] = NoJob]

(* The response carries the hedge with this id. *)
Answer(w, id) ==
  answers' = answers \cup ({job[w].h.request} \cap RequestId) \X {id}

(* A request that passed validation; any other is answered 400 at once and *)
(* changes nothing.  Bound: an id is left for every handler at its lookup. *)
ReceiveHedge(w) ==
  /\ At(w, "idle", "lookup")
  /\ issued + Cardinality({v \in HedgeWorker : pc[v] = "lookup"}) < Cardinality(HedgeId)
  /\ \E c \in Currency, n \in Notional, r \in RequestId \cup {NoRequestId} :
       /\ Overlaps \/ r = NoRequestId
            \/ \A v \in HedgeWorker : pc[v] # "idle" => job[v].h.request # r
       /\ job' = [job EXCEPT ![w] =
                    [id |-> 0, todo |-> <<>>, executed |-> 0,
                     h |-> [currency |-> ToUpper[c], notional |-> n,
                            status |-> "PENDING", request |-> r,
                            quotedRate |-> 0, capBreached |-> FALSE,
                            fills |-> <<>>, slippageBPS |-> 0, pnl |-> 0]]]
  /\ UNCHANGED <<trackerVars, policyVars, storeVars, rates, audit, issued,
                 trades, answers, published>>

(* Ids that are not advanced: two hedges may get the same one. *)
LookupReusingIds(w) ==
  /\ UNCHANGED <<trackerVars, policyVars, storeVars, rates, audit, trades, published, issued>>
  /\ \/ /\ Finish(w, "lookup")
        /\ GetHedgeByClientRequest(job[w].h.request) # NoHedge
        /\ Answer(w, GetHedgeByClientRequest(job[w].h.request))
     \/ /\ At(w, "lookup", "policy")
        /\ GetHedgeByClientRequest(job[w].h.request) = NoHedge
        /\ job' = [job EXCEPT ![w].id = issued + 1]
        /\ UNCHANGED answers

(* GetHedgeByClientRequest: the hedge stored under the request id is       *)
(* answered as it is; otherwise a fresh id is issued.                      *)
LookupRequest(w) ==
  /\ UNCHANGED <<trackerVars, policyVars, storeVars, rates, audit, trades, published>>
  /\ \/ /\ Finish(w, "lookup")
        /\ GetHedgeByClientRequest(job[w].h.request) # NoHedge
        /\ Answer(w, GetHedgeByClientRequest(job[w].h.request))
        /\ UNCHANGED issued
     \/ /\ At(w, "lookup", "policy")
        /\ GetHedgeByClientRequest(job[w].h.request) = NoHedge
        /\ issued' = issued + 1
        /\ job' = [job EXCEPT ![w].id = issued + 1]
        /\ UNCHANGED answers

(* Policy.Decide on Tracker.GetExposure: a breached cap is recorded and    *)
(* audited, never a reason to refuse.                                      *)
ReadPolicy(w) ==
  /\ At(w, "policy", "quote")
  /\ LET c == job[w].h.currency
         breached == Decide(c, GetExposure(c)).blockedByCap
     IN  /\ job' = [job EXCEPT ![w].h.capBreached = breached]
         /\ IF breached THEN emit("cap_breach", job[w].id) ELSE UNCHANGED audit
  /\ UNCHANGED <<trackerVars, policyVars, storeVars, rates, issued, trades,
                 answers, published>>

(* Provider.Quote: a failure stores the hedge as FAILED, a success feeds   *)
(* the rate cache first.                                                   *)
QuoteFails(w) ==
  /\ Finish(w, "quote")
  /\ StoreHedge(job[w].id, [job[w].h EXCEPT !.status = "FAILED"])
  /\ emit("hedge_failed", job[w].id)
  /\ Answer(w, job[w].id)
  /\ UNCHANGED <<trackerVars, policyVars, rates, issued, trades, published>>

Quote(w) ==
  /\ At(w, "quote", "store")
  /\ \E q \in QuoteRate :
       /\ job' = [job EXCEPT ![w].h.quotedRate = q]
       /\ Update(job[w].h.currency, q, "quote", 0)
  /\ UNCHANGED <<trackerVars, policyVars, storeVars, audit, issued, trades,
                 answers, published>>

(* CreateHedge stores the hedge as EXECUTING before it is executed. *)
Create(w) ==
  /\ At(w, "store", "execute")
  /\ job' = [job EXCEPT ![w].h.status = "EXECUTING"]
  /\ StoreHedge(job[w].id, [job[w].h EXCEPT !.status = "EXECUTING"])
  /\ emit("hedge_created", job[w].id)
  /\ UNCHANGED <<trackerVars, policyVars, rates, issued, trades, answers, published>>

(* A failed execution that is answered but not recorded on the hedge. *)
ExecuteFailsUnmarked(w) ==
  /\ Finish(w, "execute")
  /\ emit("hedge_failed", job[w].id)
  /\ Answer(w, job[w].id)
  /\ UNCHANGED <<trackerVars, policyVars, storeVars, rates, issued, trades, published>>

ExecuteFails(w) ==
  /\ Finish(w, "execute")
  /\ UpdateHedge(job[w].id, [hedges[job[w].id] EXCEPT !.status = "FAILED"])
  /\ emit("hedge_failed", job[w].id)
  /\ Answer(w, job[w].id)
  /\ UNCHANGED <<trackerVars, policyVars, rates, issued, trades, published>>

(* The amounts of the fills that make up a notional. *)
Split(n) == {<<n>>} \cup (IF MaxFills = 1 THEN {} ELSE {<<a, n - a>> : a \in 1 .. n - 1})

(* The fills the provider may report a second time. *)
Repeatable ==
  (UNION {Range(hedges[id].fills) : id \in IF Replays = "never" THEN {} ELSE Stored})
    \cup (UNION {Range(job[w].h.fills) :
                   w \in {v \in HedgeWorker : Replays = "reported" /\ pc[v] # "idle"}})

(* New trades of these amounts at these prices. *)
NewTrades(amounts, prices) ==
  [i \in DOMAIN amounts |-> [venue |-> Venue, trade |-> trades + i,
                             price |-> prices[i], amount |-> amounts[i]]]

(* Provider.Execute: the new trades that make up the notional, perhaps     *)
(* after one that was reported before.                                     *)
Execute(w) ==
  /\ At(w, "execute", "fills")
  /\ \E amounts \in Split(job[w].h.notional), again \in {<<>>} \cup {<<f>> : f \in Repeatable} :
       \E prices \in [DOMAIN amounts -> Price] :
         LET fills == again \o NewTrades(amounts, prices)
         IN  /\ trades' = trades + Len(amounts)
             /\ job' = [job EXCEPT ![w].todo = fills, ![w].h.fills = fills]
  /\ UNCHANGED <<trackerVars, policyVars, storeVars, rates, audit, issued,
                 answers, published>>

-----------------------------------------------------------------------------
(***************************************************************************)
(* processFills: per fill the lookup, the sample and the cache update are  *)
(* three critical sections.                                                *)
(***************************************************************************)
NextFill(w) ==
  /\ UNCHANGED <<trackerVars, policyVars, storeVars, rates, audit, issued,
                 trades, answers, published>>
  /\ \/ /\ At(w, "fills", "update")
        /\ job[w].todo = <<>>
        /\ UNCHANGED job
     \/ /\ At(w, "fills", "fills")
        /\ job[w].todo # <<>>
        /\ HasFill(Head(job[w].todo))
        /\ job' = [job EXCEPT ![w].todo = Tail(job[w].todo)]
     \/ /\ At(w, "fills", "sample")
        /\ job[w].todo # <<>>
        /\ ~ HasFill(Head(job[w].todo))
        /\ UNCHANGED job

(* The P&L of a fill against the quoted rate. *)
PnLOf(quoted, f) == (quoted - f.price) * f.amount

(* The executed notional is the last fill's instead of the sum. *)
RecordSampleLast(w) ==
  /\ At(w, "sample", "feed")
  /\ LET f == Head(job[w].todo)
         q == job[w].h.quotedRate
         bps == SlippageOf(q, f.price)
     IN  /\ AddSlippageSample([currency |-> job[w].h.currency, trade |-> f.trade,
                               slippageBPS |-> bps])
         /\ job' = [job EXCEPT ![w].h.slippageBPS = bps,
                               ![w].h.pnl = job[w].h.pnl + PnLOf(q, f),
                               ![w].executed = f.amount]
         /\ UNCHANGED audit
  /\ UNCHANGED <<trackerVars, policyVars, rates, issued, trades, answers, published>>

RecordSample(w) ==
  /\ At(w, "sample", "feed")
  /\ LET f == Head(job[w].todo)
         q == job[w].h.quotedRate
         bps == SlippageOf(q, f.price)
     IN  /\ AddSlippageSample([currency |-> job[w].h.currency, trade |-> f.trade,
                               slippageBPS |-> bps])
         /\ job' = [job EXCEPT ![w].h.slippageBPS = bps,
                               ![w].h.pnl = job[w].h.pnl + PnLOf(q, f),
                               ![w].executed = job[w].executed + f.amount]
         /\ IF SlippageAlertBPS > 0 /\ Abs(bps) > SlippageAlertBPS
              THEN emit("slippage_alert", job[w].id) ELSE UNCHANGED audit
  /\ UNCHANGED <<trackerVars, policyVars, rates, issued, trades, answers, published>>

FeedCache(w) ==
  /\ At(w, "feed", "fills")
  /\ Update(job[w].h.currency, Head(job[w].todo).price, "fill", 0)
  /\ job' = [job EXCEPT ![w].todo = Tail(job[w].todo)]
  /\ UNCHANGED <<trackerVars, policyVars, storeVars, audit, issued, trades,
                 answers, published>>

-----------------------------------------------------------------------------
(* UpdateHedge that forgets the P&L. *)
MarkExecutedWithoutPnL(w) ==
  /\ At(w, "update", "pnl")
  /\ UpdateHedge(job[w].id, [job[w].h EXCEPT !.status = "EXECUTED", !.pnl = 0])
  /\ UNCHANGED <<trackerVars, policyVars, rates, audit, job, issued, trades,
                 answers, published>>

(* UpdateHedge with the fills the provider reported, duplicates included. *)
MarkExecuted(w) ==
  /\ At(w, "update", "pnl")
  /\ UpdateHedge(job[w].id, [job[w].h EXCEPT !.status = "EXECUTED"])
  /\ UNCHANGED <<trackerVars, policyVars, rates, audit, job, issued, trades,
                 answers, published>>

RecordPnL(w) ==
  /\ At(w, "pnl", "cover")
  /\ AddPnL([currency |-> job[w].h.currency, realized |-> job[w].h.pnl,
             slippageCost |-> SlippageCost(job[w].h.slippageBPS, job[w].h.notional)])
  /\ emit("pnl_entry", job[w].id)
  /\ UNCHANGED <<trackerVars, policyVars, rates, job, issued, trades, answers, published>>

(* Tracker.AddCoverage with the executed notional. *)
Cover(w) ==
  /\ At(w, "cover", "announce")
  /\ AddCoverage(job[w].h.currency, job[w].executed)
  /\ UNCHANGED <<policyVars, storeVars, rates, audit, job, issued, trades,
                 answers, published>>

(* GetHedge and the hedge_executed event. *)
Announce(w) ==
  /\ At(w, "announce", "publish")
  /\ emit("hedge_executed", job[w].id)
  /\ UNCHANGED <<trackerVars, policyVars, storeVars, rates, job, issued, trades,
                 answers, published>>

(* publishExecutionToRecon posts one record per fill, then the answer. *)
Publish(w) ==
  /\ Finish(w, "publish")
  /\ published' = [published EXCEPT ![job[w].id] = @ + Len(hedges[job[w].id].fills)]
  /\ Answer(w, job[w].id)
  /\ UNCHANGED <<trackerVars, policyVars, storeVars, rates, audit, issued, trades>>

(* A flow booked by api.AddExposure meanwhile (bound: one per currency). *)
FlowArrives ==
  /\ \E c \in Currency, a \in FlowAmount : 
       ToUpper[c] \notin netKeys /\ AddExposure(ToUpper[c], a)
  /\ UNCHANGED <<policyVars, storeVars, rates, audit, handlerVars>>

HandlerStep(w) ==
  \/ LookupRequest(w) \/ ReadPolicy(w) \/ QuoteFails(w) \/ Quote(w) \/ Create(w)
  \/ ExecuteFails(w) \/ Execute(w) \/ NextFill(w) \/ RecordSample(w) \/ FeedCache(w)
  \/ MarkExecuted(w) \/ RecordPnL(w) \/ Cover(w) \/ Announce(w) \/ Publish(w)

HedgeNext ==
  \/ \E w \in HedgeWorker : ReceiveHedge(w) \/ HandlerStep(w)
  \/ FlowArrives

HedgeSpec == HedgeInit /\ [][HedgeNext]_apiVars

(* A handler that received a request is always scheduled again, the locks  *)
(* are released, and the provider's calls return, with a failure or not.   *)
FairHedgeSpec == HedgeSpec /\ \A w \in HedgeWorker : WF_apiVars(HandlerStep(w))

-----------------------------------------------------------------------------
(***************************************************************************)
(* Properties.                                                             *)
(***************************************************************************)
Owned(id) == \E w \in HedgeWorker : pc[w] # "idle" /\ job[w].id = id

HasStatus(id, status) == hedges[id] # NoHedge /\ hedges[id].status = status

(* The handlers for c that stand at one of these steps. *)
Serving(c, steps) == {w \in HedgeWorker : pc[w] \in steps /\ job[w].h.currency = c}

(* The coverage Tracker.AddCoverage accumulated is what settlement will    *)
(* net for the executed hedges, apart from the handlers of CreateHedge     *)
(* between UpdateHedge and AddCoverage: no hedge is covered twice, and     *)
(* none that failed is covered.                                            *)
CoverageReconciles ==
  \A c \in Currency :
    coverage[c] + SumFunction([w \in Serving(c, {"pnl", "cover"}) |-> job[w].executed])
      = SumFunction([id \in ListHedges(c, "EXECUTED") |-> hedges[id].notional])

(* The P&L rows that CreateHedge persists add up to what GET /v1/pnl       *)
(* computes from the hedges, P&L and slippage cost alike, apart from the   *)
(* handlers about to add their row.                                        *)
PnLReconciles ==
  \A c \in Currency :
    LET own == {i \in DOMAIN pnlRows : pnlRows[i].currency = c}
        late == Serving(c, {"pnl"})
    IN  PnLReport(c) =
          [realized |-> SumFunction([i \in own |-> pnlRows[i].realized])
                        + SumFunction([w \in late |-> job[w].h.pnl]),
           slippageCost |->
             SumFunction([i \in own |-> pnlRows[i].slippageCost])
             + SumFunction([w \in late |->
                              SlippageCost(job[w].h.slippageBPS, job[w].h.notional)])]

(* Once its handler has answered, a hedge is EXECUTED or FAILED and its    *)
(* audit trail and reconciliation records tell that one story, each event  *)
(* exactly once, on every path of CreateHedge.                             *)
HedgeAudited ==
  \A id \in 1 .. issued : ~ Owned(id) =>
    \/ /\ HasStatus(id, "EXECUTED")
       /\ \A t \in {"hedge_created", "hedge_executed", "pnl_entry"} : audit[t][id] = 1
       /\ audit["hedge_failed"][id] = 0
       /\ published[id] = Len(hedges[id].fills)
    \/ /\ HasStatus(id, "FAILED")
       /\ \A t \in {"hedge_executed", "pnl_entry"} : audit[t][id] = 0
       /\ audit["hedge_failed"][id] = 1
       /\ published[id] = 0

(* A hedge that was EXECUTED or FAILED is never changed again, whatever    *)
(* requests CreateHedge serves later.                                      *)
HedgeFinal ==
  [][\A id \in HedgeId :
       HasStatus(id, "EXECUTED") \/ HasStatus(id, "FAILED") => hedges'[id] = hedges[id]]_apiVars

(* As CreateHedge is documented: submissions with one client request id    *)
(* make one hedge, and every answer to them is that hedge.                 *)
OneHedgePerRequest ==
  \A r \in RequestId :
    Cardinality({id \in Stored : hedges[id].request = r} \cup {a[2] : a \in {b \in answers : b[1] = r}})
      <= 1

(* As CreateHedge is documented: fills are idempotent on venue and venue   *)
(* trade id, so a trade has one slippage sample and counts once towards    *)
(* P&L and coverage.                                                       *)
TradeCountedOnce ==
  \A i, j \in DOMAIN samples : samples[i].trade = samples[j].trade => i = j

(* A hedge stored as EXECUTING does not stay so: CreateHedge marks it      *)
(* EXECUTED or FAILED.                                                     *)
HedgeSettles ==
  \A id \in HedgeId :
    HasStatus(id, "EXECUTING") ~> HasStatus(id, "EXECUTED") \/ HasStatus(id, "FAILED")
=============================================================================
