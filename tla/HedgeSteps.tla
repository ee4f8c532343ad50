----------------------------- MODULE HedgeSteps -----------------------------
(***************************************************************************)
(* POST /v1/hedges for any number of workers, hedges, currencies and       *)
(* venues: the invariant that ties the store, the audit sinks and the      *)
(* reconciliation calls to the handlers that are under way, and what each  *)
(* step of a handler does to the handler and to the stored hedge.  The     *)
(* proofs about the records, the trades and the books rest on these facts. *)
(*                                                                         *)
(* HedgeBasic says of every hedge id where its records stand: no record    *)
(* before CreateHedge of the store, an EXECUTING hedge with one            *)
(* hedge_created event while its handler works on the fills, one complete  *)
(* story once no handler has the id.  HedgeAudited alone is not inductive: *)
(* it says nothing of the ids that a handler still has.                    *)
(* RequestsExact, at the end, says the same of the request ids: the index  *)
(* of the store names the hedge of a request once CreateHedge stored it.   *)
(***************************************************************************)
EXTENDS HedgeApi, TLAPS

-----------------------------------------------------------------------------
(***************************************************************************)
(* The inductive invariant.                                                *)
(***************************************************************************)
(* The types of what the handlers of CreateHedge read and write, but for   *)
(* the tracker's, the policy's and the rate cache's.                       *)
HedgeTypes ==
  /\ StoreTypeOK /\ AuditTypeOK
  /\ pc \in [HedgeWorker -> HedgePc]
  /\ job \in [HedgeWorker -> Job \cup {NoJob}]
  /\ \A w \in HedgeWorker : job[w] = NoJob <=> pc[w] = "idle"
  /\ answers \in SUBSET (RequestId \X HedgeId)
  /\ published \in [HedgeId -> Nat]
  /\ coverage \in [Currency -> Int]

Early == {"policy", "quote", "store"}
Running == {"execute", "fills", "sample", "feed", "update"}
Done == {"pnl", "cover", "announce", "publish"}

(* w has an id for its hedge. *)
Owns(w) == pc[w] \in Early \cup Running \cup Done

Looking == {w \in HedgeWorker : pc[w] = "lookup"}

(* The events recorded for a hedge. *)
Tally(id, created, executed, failed, pnl) ==
  /\ audit["hedge_created"][id] = created
  /\ audit["hedge_executed"][id] = executed
  /\ audit["hedge_failed"][id] = failed
  /\ audit["pnl_entry"][id] = pnl

Unborn(id) == hedges[id] = NoHedge /\ Tally(id, 0, 0, 0, 0) /\ published[id] = 0

(* How far the records of a hedge are, by the step its handler is at. *)
Stage(step, id) ==
  /\ step \in Early => Unborn(id)
  /\ step \in Running =>
       HasStatus(id, "EXECUTING") /\ Tally(id, 1, 0, 0, 0) /\ published[id] = 0
  /\ step \in Done =>
       /\ HasStatus(id, "EXECUTED") /\ published[id] = 0
       /\ Tally(id, 1, IF step = "publish" THEN 1 ELSE 0, 0, IF step = "pnl" THEN 0 ELSE 1)

(* The records of a hedge whose handler has answered. *)
Settled(id) ==
  \/ /\ HasStatus(id, "EXECUTED")
     /\ Tally(id, 1, 1, 0, 1)
     /\ published[id] = Len(hedges[id].fills)
  \/ /\ HasStatus(id, "FAILED")
     /\ \E n \in {0, 1} : Tally(id, n, 0, 1, 0)
     /\ published[id] = 0

HedgeControl ==
  /\ issued + Cardinality(Looking) <= Cardinality(HedgeId)
  /\ \A w \in HedgeWorker : pc[w] = "lookup" => job[w].id = 0
  /\ \A w \in HedgeWorker : Owns(w) => job[w].id \in 1 .. issued
  /\ \A v, w \in HedgeWorker : Owns(v) /\ Owns(w) /\ job[v].id = job[w].id => v = w
  /\ \A id \in HedgeId : id > issued => Unborn(id)
  /\ \A w \in HedgeWorker, step \in Early \cup Running \cup Done, id \in HedgeId :
       pc[w] = step /\ job[w].id = id => Stage(step, id)
  /\ \A id \in 1 .. issued : (\A w \in HedgeWorker : Owns(w) => job[w].id # id) => Settled(id)

(* A hedge without fills. *)
Unfilled(h) == h.fills = <<>> /\ h.pnl = 0 /\ h.slippageBPS = 0

(* What a handler knows, and what its copy of the hedge and the stored one *)
(* have in common.                                                         *)
WorkerData(w) ==
  /\ pc[w] \in {"lookup", "execute"} \cup Early =>
       Unfilled(job[w].h) /\ job[w].todo = <<>> /\ job[w].executed = 0
  /\ pc[w] \in {"store"} \cup Running => job[w].h.quotedRate > 0
  /\ pc[w] \in {"sample", "feed"} => job[w].todo # <<>>
  /\ pc[w] \in Running =>
       /\ hedges[job[w].id].currency = job[w].h.currency
       /\ hedges[job[w].id].notional = job[w].h.notional
       /\ hedges[job[w].id].request = job[w].h.request
  /\ pc[w] \in Done => hedges[job[w].id] = [job[w].h EXCEPT !.status = "EXECUTED"]

(* Only an executed hedge has fills. *)
StoredData(id) ==
  hedges[id] # NoHedge => hedges[id].status = "EXECUTED" \/ Unfilled(hedges[id])

HedgeData ==
  /\ \A w \in HedgeWorker : WorkerData(w)
  /\ \A id \in HedgeId : StoredData(id)

HedgeBasic == HedgeTypes /\ HedgeControl /\ HedgeData

-----------------------------------------------------------------------------
(* The fields of a handler's locals, of a hedge and of a fill. *)
LEMMA HedgeFields ==
  ASSUME NEW h \in Hedge
  PROVE  /\ h.currency \in Currency /\ h.notional \in Int /\ h.status \in HedgeStatus
         /\ h.request \in RequestId \cup {NoRequestId} /\ h.quotedRate \in Int
         /\ h.capBreached \in BOOLEAN /\ h.fills \in Seq(Fill)
         /\ h.slippageBPS \in Int /\ h.pnl \in Int
         /\ h # NoHedge
BY StoreAssumption, Zenon DEF Hedge

(* Setting fields of a hedge, as the handler and the callbacks of          *)
(* UpdateHedge do, gives a hedge.                                          *)
LEMMA HedgeSet ==
  ASSUME NEW h \in Hedge
  PROVE  /\ \A s \in HedgeStatus : [h EXCEPT !.status = s] \in Hedge
         /\ \A b \in BOOLEAN : [h EXCEPT !.capBreached = b] \in Hedge
         /\ \A q \in Int : [h EXCEPT !.quotedRate = q] \in Hedge
         /\ \A f \in Seq(Fill) : [h EXCEPT !.fills = f] \in Hedge
         /\ \A b, p \in Int : [h EXCEPT !.slippageBPS = b, !.pnl = p] \in Hedge
<1>1. \A s \in HedgeStatus : [h EXCEPT !.status = s] \in Hedge
  BY Zenon DEF Hedge
<1>2. \A b \in BOOLEAN : [h EXCEPT !.capBreached = b] \in Hedge
  BY Zenon DEF Hedge
<1>3. \A q \in Int : [h EXCEPT !.quotedRate = q] \in Hedge
  BY Zenon DEF Hedge
<1>4. \A f \in Seq(Fill) : [h EXCEPT !.fills = f] \in Hedge
  BY Zenon DEF Hedge
<1>5. \A b, p \in Int : [h EXCEPT !.slippageBPS = b, !.pnl = p] \in Hedge
  BY Zenon DEF Hedge
<1> QED
  BY <1>1, <1>2, <1>3, <1>4, <1>5, Zenon

(* The fields of what a handler of POST /v1/hedges works on. *)
LEMMA JobFields ==
  ASSUME NEW j \in Job
  PROVE  /\ j.id \in HedgeId \cup {0} /\ j.h \in Hedge /\ j.todo \in Seq(Fill)
         /\ j.executed \in Int /\ j # NoJob
BY HedgeAssumption, Zenon DEF Job

(* Setting the id, the hedge, the fills to process or the executed amount  *)
(* keeps a handler's job one.                                              *)
LEMMA JobSet ==
  ASSUME NEW j \in Job
  PROVE  /\ \A i \in HedgeId : [j EXCEPT !.id = i] \in Job
         /\ \A h \in Hedge : [j EXCEPT !.h = h] \in Job
         /\ \A t \in Seq(Fill) : [j EXCEPT !.todo = t] \in Job
         /\ \A h \in Hedge, t \in Seq(Fill) : [j EXCEPT !.todo = t, !.h = h] \in Job
         /\ \A h \in Hedge, n \in Int : [j EXCEPT !.h = h, !.executed = n] \in Job
<1>1. \A i \in HedgeId : [j EXCEPT !.id = i] \in Job
  BY Zenon DEF Job
<1>2. \A h \in Hedge : [j EXCEPT !.h = h] \in Job
  BY Zenon DEF Job
<1>3. \A t \in Seq(Fill) : [j EXCEPT !.todo = t] \in Job
  BY Zenon DEF Job
<1>4. \A h \in Hedge, t \in Seq(Fill) : [j EXCEPT !.todo = t, !.h = h] \in Job
  BY Zenon DEF Job
<1>5. \A h \in Hedge, n \in Int : [j EXCEPT !.h = h, !.executed = n] \in Job
  BY Zenon DEF Job
<1> QED
  BY <1>1, <1>2, <1>3, <1>4, <1>5, Zenon

-----------------------------------------------------------------------------
(***************************************************************************)
(* What each step does to the handler that takes it.                       *)
(***************************************************************************)
(* w goes from one step to another and no other handler moves. *)
Moves(w, here, next) ==
  /\ pc[w] = here /\ pc'[w] = next
  /\ pc' \in [HedgeWorker -> HedgePc]
  /\ job' \in [HedgeWorker -> Job \cup {NoJob}]
  /\ \A v \in HedgeWorker : job'[v] = NoJob <=> pc'[v] = "idle"
  /\ \A v \in HedgeWorker \ {w} : pc'[v] = pc[v] /\ job'[v] = job[v]

(* w still serves the same request under the same id. *)
SameRequest(w) ==
  /\ job'[w].id = job[w].id
  /\ job'[w].h.currency = job[w].h.currency
  /\ job'[w].h.notional = job[w].h.notional
  /\ job'[w].h.request = job[w].h.request

(* What w knows of its fills is the same. *)
SameFills(w) ==
  /\ job'[w].h.fills = job[w].h.fills /\ job'[w].h.pnl = job[w].h.pnl
  /\ job'[w].h.slippageBPS = job[w].h.slippageBPS
  /\ job'[w].todo = job[w].todo /\ job'[w].executed = job[w].executed

(* A handler that is not idle works on a hedge. *)
LEMMA Serves ==
  ASSUME HedgeTypes, NEW w \in HedgeWorker, pc[w] # "idle"
  PROVE  job[w] \in Job /\ job[w].h \in Hedge
BY JobFields, Zenon DEF HedgeTypes

(* A step of CreateHedge that replaces the handler's job moves this        *)
(* handler only.                                                           *)
LEMMA MovesOn ==
  ASSUME HedgeTypes, NEW w \in HedgeWorker, NEW here, NEW next \in HedgePc \ {"idle"},
         At(w, here, next), NEW j \in Job, job' = [job EXCEPT ![w] = j]
  PROVE  Moves(w, here, next) /\ job'[w] = j
BY JobFields, Zenon DEF HedgeTypes, At, Moves

(* A step of CreateHedge that leaves the job alone moves this handler      *)
(* only, and keeps its request and its fills.                              *)
LEMMA MovesSame ==
  ASSUME HedgeTypes, NEW w \in HedgeWorker, NEW here \in HedgePc \ {"idle"},
         NEW next \in HedgePc \ {"idle"}, At(w, here, next), UNCHANGED job
  PROVE  Moves(w, here, next) /\ job'[w] = job[w] /\ SameRequest(w) /\ SameFills(w)
<1>1. pc[w] = here /\ pc' = [pc EXCEPT ![w] = next]
  BY Zenon DEF At
<1> QED
  BY <1>1, Zenon DEF HedgeTypes, Moves, SameRequest, SameFills

(* A handler that answers its client drops its job and is idle. *)
LEMMA MovesOut ==
  ASSUME HedgeTypes, NEW w \in HedgeWorker, NEW here, Finish(w, here)
  PROVE  Moves(w, here, "idle")
<1>1. pc[w] = here /\ pc' = [pc EXCEPT ![w] = "idle"] /\ job' = [job EXCEPT ![w] = NoJob]
  BY Zenon DEF Finish, At
<1>2. "idle" \in HedgePc
  BY Zenon DEF HedgePc
<1> QED
  BY <1>1, <1>2, Zenon DEF HedgeTypes, Moves

(* POST /v1/hedges starts with an unfilled hedge and no id; unless         *)
(* requests overlap, no other handler serves the same client request.      *)
LEMMA ReceiveMoves ==
  ASSUME HedgeTypes, NEW w \in HedgeWorker, ReceiveHedge(w)
  PROVE  /\ Moves(w, "idle", "lookup")
         /\ job'[w].id = 0 /\ Unfilled(job'[w].h)
         /\ job'[w].todo = <<>> /\ job'[w].executed = 0
         /\ Overlaps \/ job'[w].h.request = NoRequestId
              \/ \A v \in HedgeWorker : pc[v] # "idle" => job[v].h.request # job'[w].h.request
<1>1. PICK c \in Currency, n \in Notional, r \in RequestId \cup {NoRequestId} :
        /\ Overlaps \/ r = NoRequestId
             \/ \A v \in HedgeWorker : pc[v] # "idle" => job[v].h.request # r
        /\ job' = [job EXCEPT ![w] =
                     [id |-> 0, todo |-> <<>>, executed |-> 0,
                      h |-> [currency |-> ToUpper[c], notional |-> n,
                             status |-> "PENDING", request |-> r,
                             quotedRate |-> 0, capBreached |-> FALSE,
                             fills |-> <<>>, slippageBPS |-> 0, pnl |-> 0]]]
  BY Zenon DEF ReceiveHedge
<1> DEFINE h == [currency |-> ToUpper[c], notional |-> n, status |-> "PENDING", request |-> r,
                 quotedRate |-> 0, capBreached |-> FALSE,
                 fills |-> <<>>, slippageBPS |-> 0, pnl |-> 0]
           j == [id |-> 0, todo |-> <<>>, executed |-> 0, h |-> h]
<1>2. ToUpper[c] \in Currency /\ n \in Int /\ <<>> \in Seq(Fill)
  BY DomainAssumption, HedgeAssumption
<1>3. h \in Hedge /\ Unfilled(h)
  BY <1>2 DEF Hedge, HedgeStatus, Unfilled
<1>4. j \in Job
  BY <1>2, <1>3 DEF Job
<1>5. At(w, "idle", "lookup") /\ "lookup" \in HedgePc \ {"idle"} /\ job' = [job EXCEPT ![w] = j]
  BY <1>1, Zenon DEF ReceiveHedge, HedgePc
<1>6. j.id = 0 /\ j.todo = <<>> /\ j.executed = 0 /\ j.h = h /\ h.request = r
  BY Zenon
<1> HIDE DEF j, h
<1>7. Moves(w, "idle", "lookup") /\ job'[w] = j
  BY <1>4, <1>5, MovesOn, Zenon
<1> QED
  BY <1>1, <1>3, <1>6, <1>7, Zenon

(* The flag of Policy.Decide is a truth value. *)
LEMMA DecideFlag == ASSUME NEW c, NEW exp PROVE Decide(c, exp).blockedByCap \in BOOLEAN
<1>1. CASE exp = NoExposure \/ exp.netAmount = 0
  <2>1. Decide(c, exp) = [notional |-> 0, blockedByCap |-> FALSE]
    BY <1>1, Zenon DEF Decide, Decision
  <2> QED
    BY <2>1
<1>2. CASE ~ (exp = NoExposure \/ exp.netAmount = 0)
  <2> DEFINE b == Abs(exp.netAmount - exp.hedgeCoverage) > EffectiveCap(c)
  <2>1. \E n : Decide(c, exp) = [notional |-> n, blockedByCap |-> b]
    BY <1>2, Zenon DEF Decide, Decision
  <2>2. b \in BOOLEAN
    OBVIOUS
  <2> HIDE DEF b
  <2> QED
    BY <2>1, <2>2
<1> QED
  BY <1>1, <1>2, Zenon

(* A step that sets fields of the handler's hedge other than the request's *)
(* and the fills'.                                                         *)
LEMMA MovesHedge ==
  ASSUME HedgeTypes, NEW w \in HedgeWorker, NEW here \in HedgePc \ {"idle"},
         NEW next \in HedgePc \ {"idle"}, At(w, here, next),
         NEW h \in Hedge, job' = [job EXCEPT ![w] = [job[w] EXCEPT !.h = h]],
         h.currency = job[w].h.currency, h.notional = job[w].h.notional,
         h.request = job[w].h.request, h.fills = job[w].h.fills,
         h.pnl = job[w].h.pnl, h.slippageBPS = job[w].h.slippageBPS
  PROVE  Moves(w, here, next) /\ job'[w].h = h /\ SameRequest(w) /\ SameFills(w)
<1> DEFINE j == [job[w] EXCEPT !.h = h]
<1>1. pc[w] # "idle"
  BY Zenon DEF At
<1>2. job[w] \in Job
  BY <1>1, Serves, Zenon
<1>3. j \in Job
  BY <1>2, JobSet, Zenon
<1>4. j.id = job[w].id /\ j.h = h /\ j.todo = job[w].todo /\ j.executed = job[w].executed
  BY <1>2, Zenon DEF Job
<1>5. job' = [job EXCEPT ![w] = j]
  BY Zenon
<1> HIDE DEF j
<1>6. Moves(w, here, next) /\ job'[w] = j
  BY <1>3, <1>5, MovesOn, Zenon
<1> QED
  BY <1>4, <1>6, Zenon DEF SameRequest, SameFills

(* Reading the policy keeps the request and the fills. *)
LEMMA PolicyMoves ==
  ASSUME HedgeTypes, NEW w \in HedgeWorker, ReadPolicy(w)
  PROVE  Moves(w, "policy", "quote") /\ SameRequest(w) /\ SameFills(w)
<1> DEFINE c == job[w].h.currency
           b == Decide(c, GetExposure(c)).blockedByCap
           h == [job[w].h EXCEPT !.capBreached = b]
<1>1. b \in BOOLEAN
  BY DecideFlag, Zenon
<1>2. At(w, "policy", "quote") /\ {"policy", "quote"} \subseteq HedgePc \ {"idle"} /\ pc[w] # "idle"
  BY Zenon DEF ReadPolicy, HedgePc, At
<1>3. job[w] \in Job /\ job[w].h \in Hedge
  BY <1>2, Serves, Zenon
<1>4. job' = [job EXCEPT ![w] = [job[w] EXCEPT !.h = h]]
  BY <1>3, Zenon DEF ReadPolicy
<1> HIDE DEF b
<1>5. h \in Hedge
  BY <1>1, <1>3, HedgeSet, Zenon
<1>6. /\ h.currency = job[w].h.currency /\ h.notional = job[w].h.notional
      /\ h.request = job[w].h.request /\ h.fills = job[w].h.fills
      /\ h.pnl = job[w].h.pnl /\ h.slippageBPS = job[w].h.slippageBPS
  BY <1>3, Zenon DEF Hedge
<1> HIDE DEF h
<1> QED
  BY <1>2, <1>4, <1>5, <1>6, MovesHedge, Zenon

(* A quote leaves a positive quoted rate and keeps the request and the     *)
(* fills.                                                                  *)
LEMMA QuoteMoves ==
  ASSUME HedgeTypes, NEW w \in HedgeWorker, Quote(w)
  PROVE  /\ Moves(w, "quote", "store") /\ SameRequest(w) /\ SameFills(w)
         /\ job'[w].h.quotedRate > 0
<1>1. At(w, "quote", "store") /\ {"quote", "store"} \subseteq HedgePc \ {"idle"} /\ pc[w] # "idle"
  BY Zenon DEF Quote, HedgePc, At
<1>2. job[w] \in Job /\ job[w].h \in Hedge
  BY <1>1, Serves, Zenon
<1>3. PICK q \in QuoteRate : job' = [job EXCEPT ![w].h.quotedRate = q]
  BY Zenon DEF Quote
<1> DEFINE h == [job[w].h EXCEPT !.quotedRate = q]
<1>4. job' = [job EXCEPT ![w] = [job[w] EXCEPT !.h = h]]
  BY <1>3, Zenon
<1>a. q \in Int /\ q > 0
  BY HedgeAssumption
<1>5. h \in Hedge
  BY <1>2, <1>a, HedgeSet, Zenon
<1>6. /\ h.currency = job[w].h.currency /\ h.notional = job[w].h.notional
      /\ h.request = job[w].h.request /\ h.fills = job[w].h.fills
      /\ h.pnl = job[w].h.pnl /\ h.slippageBPS = job[w].h.slippageBPS /\ h.quotedRate = q
  BY <1>2, Zenon DEF Hedge
<1> HIDE DEF h
<1> QED
  BY <1>1, <1>4, <1>5, <1>6, <1>a, MovesHedge, Zenon

(* Storing the EXECUTING hedge keeps the request, the fills and the quoted *)
(* rate.                                                                   *)
LEMMA CreateMoves ==
  ASSUME HedgeTypes, NEW w \in HedgeWorker, Create(w)
  PROVE  /\ Moves(w, "store", "execute") /\ SameRequest(w) /\ SameFills(w)
         /\ job'[w].h.quotedRate = job[w].h.quotedRate
<1> DEFINE h == [job[w].h EXCEPT !.status = "EXECUTING"]
<1>1. At(w, "store", "execute") /\ {"store", "execute"} \subseteq HedgePc \ {"idle"} /\ pc[w] # "idle"
  BY Zenon DEF Create, HedgePc, At
<1>2. job[w] \in Job /\ job[w].h \in Hedge
  BY <1>1, Serves, Zenon
<1>4. job' = [job EXCEPT ![w] = [job[w] EXCEPT !.h = h]]
  BY Zenon DEF Create
<1>5. h \in Hedge
  BY <1>2, HedgeSet, Zenon DEF HedgeStatus
<1>6. /\ h.currency = job[w].h.currency /\ h.notional = job[w].h.notional
      /\ h.request = job[w].h.request /\ h.fills = job[w].h.fills
      /\ h.pnl = job[w].h.pnl /\ h.slippageBPS = job[w].h.slippageBPS
      /\ h.quotedRate = job[w].h.quotedRate
  BY <1>2, Zenon DEF Hedge
<1> HIDE DEF h
<1> QED
  BY <1>1, <1>4, <1>5, <1>6, MovesHedge, Zenon

(* The lookup that finds no hedge takes the next id and keeps the hedge    *)
(* built from the request.                                                 *)
LEMMA LookupMoves ==
  ASSUME HedgeTypes, NEW w \in HedgeWorker, At(w, "lookup", "policy"),
         issued + 1 \in HedgeId, job' = [job EXCEPT ![w].id = issued + 1]
  PROVE  /\ Moves(w, "lookup", "policy") /\ SameFills(w)
         /\ job'[w].id = issued + 1 /\ job'[w].h = job[w].h
<1> DEFINE j == [job[w] EXCEPT !.id = issued + 1]
<1>1. "policy" \in HedgePc \ {"idle"} /\ pc[w] # "idle"
  BY Zenon DEF HedgePc, At
<1>2. job[w] \in Job
  BY <1>1, Serves, Zenon
<1>3. j \in Job
  BY <1>2, JobSet, Zenon
<1>4. job' = [job EXCEPT ![w] = j]
  BY Zenon
<1>5. j.id = issued + 1 /\ j.h = job[w].h /\ j.todo = job[w].todo /\ j.executed = job[w].executed
  BY <1>2, Zenon DEF Job
<1> HIDE DEF j
<1>6. Moves(w, "lookup", "policy") /\ job'[w] = j
  BY <1>1, <1>3, <1>4, MovesOn, Zenon
<1> QED
  BY <1>5, <1>6, Zenon DEF SameFills

(* The tail of a sequence of fills, as processFills walks it. *)
LEMMA TailFacts ==
  ASSUME NEW S, NEW s \in Seq(S), s # <<>>
  PROVE  /\ Head(s) \in S /\ Head(s) = s[1]
         /\ Tail(s) \in Seq(S) /\ Len(s) \in Nat \ {0} /\ Len(Tail(s)) = Len(s) - 1
         /\ DOMAIN s = 1 .. Len(s) /\ DOMAIN Tail(s) = 1 .. Len(s) - 1
         /\ \A i \in 1 .. Len(s) - 1 : Tail(s)[i] = s[i + 1]
OBVIOUS

(* processFills ends when no fill is left, drops a fill that HasFill       *)
(* recognises, and otherwise goes on to sample the next one.               *)
LEMMA NextFillMoves ==
  ASSUME HedgeTypes, NEW w \in HedgeWorker, NextFill(w)
  PROVE  \/ /\ Moves(w, "fills", "update") /\ job[w].todo = <<>>
            /\ job'[w] = job[w] /\ SameRequest(w) /\ SameFills(w)
         \/ /\ Moves(w, "fills", "sample") /\ job[w].todo # <<>> /\ ~ HasFill(Head(job[w].todo))
            /\ job'[w] = job[w] /\ SameRequest(w) /\ SameFills(w)
         \/ /\ Moves(w, "fills", "fills") /\ job[w].todo # <<>> /\ HasFill(Head(job[w].todo))
            /\ job'[w].h = job[w].h /\ SameRequest(w)
            /\ job'[w].todo = Tail(job[w].todo) /\ job'[w].executed = job[w].executed
<1>1. pc[w] # "idle" /\ {"fills", "update", "sample"} \subseteq HedgePc \ {"idle"}
  BY Zenon DEF NextFill, At, HedgePc
<1>2. job[w] \in Job
  BY <1>1, Serves, Zenon
<1>3. CASE At(w, "fills", "update") /\ job[w].todo = <<>> /\ UNCHANGED job
  BY <1>1, <1>3, MovesSame, Zenon
<1>4. CASE /\ At(w, "fills", "sample") /\ job[w].todo # <<>>
           /\ ~ HasFill(Head(job[w].todo)) /\ UNCHANGED job
  BY <1>1, <1>4, MovesSame, Zenon
<1>5. CASE /\ At(w, "fills", "fills") /\ job[w].todo # <<>> /\ HasFill(Head(job[w].todo))
           /\ job' = [job EXCEPT ![w].todo = Tail(job[w].todo)]
  <2> DEFINE j == [job[w] EXCEPT !.todo = Tail(job[w].todo)]
  <2>1. Tail(job[w].todo) \in Seq(Fill)
    BY <1>2, <1>5, JobFields, TailFacts, Zenon
  <2>2. j \in Job
    BY <1>2, <2>1, JobSet, Zenon
  <2>3. /\ j.id = job[w].id /\ j.h = job[w].h
        /\ j.todo = Tail(job[w].todo) /\ j.executed = job[w].executed
    BY <1>2, Zenon DEF Job
  <2>4. job' = [job EXCEPT ![w] = j]
    BY <1>5, Zenon
  <2> HIDE DEF j
  <2>5. Moves(w, "fills", "fills") /\ job'[w] = j
    BY <1>1, <1>5, <2>2, <2>4, MovesOn, Zenon
  <2> QED
    BY <1>5, <2>3, <2>5, Zenon DEF SameRequest
<1> QED
  BY <1>3, <1>4, <1>5, Zenon DEF NextFill

(* Feeding the rate cache ends the turn of processFills: the fill is done, *)
(* and what was executed stays.                                            *)
LEMMA FeedMoves ==
  ASSUME HedgeTypes, NEW w \in HedgeWorker, FeedCache(w), job[w].todo # <<>>
  PROVE  /\ Moves(w, "feed", "fills") /\ job'[w].h = job[w].h /\ SameRequest(w)
         /\ job'[w].todo = Tail(job[w].todo) /\ job'[w].executed = job[w].executed
<1> DEFINE j == [job[w] EXCEPT !.todo = Tail(job[w].todo)]
<1>1. At(w, "feed", "fills") /\ pc[w] # "idle" /\ "fills" \in HedgePc \ {"idle"}
  BY Zenon DEF FeedCache, At, HedgePc
<1>2. job[w] \in Job
  BY <1>1, Serves, Zenon
<1>3. Tail(job[w].todo) \in Seq(Fill)
  BY <1>2, JobFields, TailFacts, Zenon
<1>4. j \in Job
  BY <1>2, <1>3, JobSet, Zenon
<1>5. /\ j.id = job[w].id /\ j.h = job[w].h
      /\ j.todo = Tail(job[w].todo) /\ j.executed = job[w].executed
  BY <1>2, Zenon DEF Job
<1>6. job' = [job EXCEPT ![w] = j]
  BY Zenon DEF FeedCache
<1> HIDE DEF j
<1>7. Moves(w, "feed", "fills") /\ job'[w] = j
  BY <1>1, <1>4, <1>6, MovesOn, Zenon
<1> QED
  BY <1>5, <1>7, Zenon DEF SameRequest

(* The fields of a fill that the P&L and the slippage are computed from. *)
LEMMA FillFields ==
  ASSUME NEW f \in Fill
  PROVE  f.trade \in Nat /\ f.price \in Int /\ f.amount \in Int
BY DEF Fill

(* Slippage and P&L of a fill are integers. *)
LEMMA SlippageInt ==
  ASSUME NEW q \in Int, q > 0, NEW p \in Int PROVE SlippageOf(q, p) \in Int
<1>1. PICK x \in Int : x = (p - q) * 10000
  OBVIOUS
<1>2. x \div q \in Int
  OBVIOUS
<1> QED
  BY <1>1, <1>2 DEF SlippageOf

(* The P&L of a fill is a number. *)
LEMMA PnLInt ==
  ASSUME NEW q \in Int, NEW f, f.price \in Int, f.amount \in Int
  PROVE  PnLOf(q, f) \in Int
<1>1. PICK d \in Int : d = q - f.price
  OBVIOUS
<1>2. PICK n \in Int : n = f.amount
  BY Zenon
<1>3. d * n \in Int
  OBVIOUS
<1> QED
  BY <1>1, <1>2, <1>3, Zenon DEF PnLOf

(* processFills adds the fill's amount to what was executed and one sample *)
(* for its trade, and keeps the fills and the request.                     *)
LEMMA SampleMoves ==
  ASSUME HedgeTypes, NEW w \in HedgeWorker, RecordSample(w), job[w].todo # <<>>,
         job[w].h.quotedRate > 0
  PROVE  /\ Moves(w, "sample", "feed") /\ SameRequest(w)
         /\ job'[w].h.quotedRate = job[w].h.quotedRate
         /\ job'[w].h.fills = job[w].h.fills /\ job'[w].todo = job[w].todo
         /\ job'[w].executed = job[w].executed + Head(job[w].todo).amount
         /\ \E s \in Sample : s.trade = Head(job[w].todo).trade /\ samples' = Append(samples, s)
<1> DEFINE f == Head(job[w].todo)
           q == job[w].h.quotedRate
           bps == SlippageOf(q, f.price)
           p == job[w].h.pnl + PnLOf(q, f)
           n == job[w].executed + f.amount
           h == [job[w].h EXCEPT !.slippageBPS = bps, !.pnl = p]
           j == [job[w] EXCEPT !.h = h, !.executed = n]
           s == [currency |-> job[w].h.currency, trade |-> f.trade, slippageBPS |-> bps]
<1>1. At(w, "sample", "feed") /\ pc[w] # "idle" /\ "feed" \in HedgePc \ {"idle"}
  BY Zenon DEF RecordSample, At, HedgePc
<1>2. job[w] \in Job /\ job[w].h \in Hedge
  BY <1>1, Serves, Zenon
<1>3. f \in Fill
  BY <1>2, JobFields, TailFacts, Zenon
<1>4. f.trade \in Nat /\ f.price \in Int /\ f.amount \in Int
  BY <1>3, FillFields, Zenon
<1>5. q \in Int /\ q > 0 /\ job[w].h.pnl \in Int /\ job[w].executed \in Int /\ job[w].h.currency \in Currency
  BY <1>2, HedgeFields, JobFields, Zenon
<1>a. bps \in Int /\ PnLOf(q, f) \in Int
  BY <1>4, <1>5, SlippageInt, PnLInt, ZenonT(30)
<1>6. bps \in Int /\ p \in Int /\ n \in Int
  BY <1>4, <1>5, <1>a, SMTT(30)
<1>7. samples' = Append(samples, s)
  BY Zenon DEF RecordSample, AddSlippageSample
<1>8. s \in Sample /\ s.trade = f.trade
  BY <1>4, <1>5, <1>6, Zenon DEF Sample
<1>9. job' = [job EXCEPT ![w] = j]
  BY <1>2, ZenonT(30) DEF RecordSample, HedgeTypes, Job
<1> HIDE DEF bps, p, n, f
<1>10. h \in Hedge
  BY <1>2, <1>6, HedgeSet, Zenon
<1>11. j \in Job
  BY <1>2, <1>6, <1>10, JobSet, Zenon
<1>12. /\ h.currency = job[w].h.currency /\ h.notional = job[w].h.notional
       /\ h.request = job[w].h.request /\ h.fills = job[w].h.fills
       /\ h.quotedRate = job[w].h.quotedRate
  BY <1>2, Zenon DEF Hedge
<1>13. j.id = job[w].id /\ j.h = h /\ j.todo = job[w].todo /\ j.executed = n
  BY <1>2, Zenon DEF Job
<1> HIDE DEF j, h, s
<1>14. Moves(w, "sample", "feed") /\ job'[w] = j
  BY <1>1, <1>9, <1>11, MovesOn, Zenon
<1>15. /\ SameRequest(w) /\ job'[w].h.quotedRate = job[w].h.quotedRate
       /\ job'[w].h.fills = job[w].h.fills /\ job'[w].todo = job[w].todo
  BY <1>12, <1>13, <1>14, Zenon DEF SameRequest
<1>16. job'[w].executed = job[w].executed + f.amount
  BY <1>13, <1>14, Zenon DEF n
<1> QED
  BY <1>7, <1>8, <1>14, <1>15, <1>16, Zenon DEF f

(* The amounts of these fills add up to n. *)
AddUpTo(fills, n) ==
  \/ fills = <<>> /\ n = 0
  \/ Len(fills) = 1 /\ fills[1].amount = n
  \/ Len(fills) = 2 /\ fills[1].amount + fills[2].amount = n

(* The fills of one Execute: new trades of the venue that make up the      *)
(* notional, after at most one trade reported before.                      *)
Reported(w, again, new) ==
  /\ again \in Seq(Fill) /\ new \in Seq(Fill)
  /\ again = <<>> \/ \E f \in Repeatable : again = <<f>>
  /\ \A i \in 1 .. Len(new) : new[i].trade = trades + i /\ new[i].venue = Venue
  /\ AddUpTo(new, job[w].h.notional)

(* A fill that the provider may report again is a fill. *)
LEMMA RepeatableFills == ASSUME HedgeTypes PROVE Repeatable \subseteq Fill
<1>1. \A s \in Seq(Fill) : Range(s) \subseteq Fill
  BY DEF Range
<1>2. \A id \in Stored : Range(hedges[id].fills) \subseteq Fill
  BY <1>1, HedgeFields, Zenon DEF HedgeTypes, StoreTypeOK, Stored
<1>3. \A w \in HedgeWorker : pc[w] # "idle" => Range(job[w].h.fills) \subseteq Fill
  BY <1>1, Serves, HedgeFields, Zenon
<1>4. ASSUME NEW f \in Repeatable PROVE f \in Fill
  <2>1. \/ \E id \in Stored : f \in Range(hedges[id].fills)
        \/ \E w \in HedgeWorker : pc[w] # "idle" /\ f \in Range(job[w].h.fills)
    BY <1>4, Zenon DEF Repeatable
  <2> QED
    BY <1>2, <1>3, <2>1, Zenon
<1> QED
  BY <1>4, Zenon

(* The provider fills a notional in one part or in two that add up to it. *)
LEMMA SplitAddsUp ==
  ASSUME NEW n \in Int, NEW amounts \in Split(n)
  PROVE  /\ amounts \in Seq(Int)
         /\ \/ Len(amounts) = 1 /\ amounts[1] = n
            \/ Len(amounts) = 2 /\ amounts[1] + amounts[2] = n
<1>1. CASE amounts = <<n>>
  BY <1>1
<1>2. CASE amounts # <<n>>
  <2>1. PICK a \in 1 .. n - 1 : amounts = <<a, n - a>>
    BY <1>2, Zenon DEF Split
  <2>2. a \in Int /\ n - a \in Int
    OBVIOUS
  <2> QED
    BY <2>1, <2>2
<1> QED
  BY <1>1, <1>2, Zenon

(* What the provider reports for amounts and prices: trades numbered on.  *)
LEMMA NewFills ==
  ASSUME HedgeTypes, NEW amounts \in Seq(Int), NEW prices \in [DOMAIN amounts -> Price],
         NEW new, new = NewTrades(amounts, prices)
  PROVE  /\ new \in Seq(Fill) /\ Len(new) = Len(amounts)
         /\ \A i \in 1 .. Len(new) :
              new[i].trade = trades + i /\ new[i].venue = Venue /\ new[i].amount = amounts[i]
<1>1. trades \in Nat /\ DOMAIN amounts = 1 .. Len(amounts) /\ Len(amounts) \in Nat
  BY DEF HedgeTypes, StoreTypeOK
<1>2. \A i \in 1 .. Len(amounts) : amounts[i] \in Int /\ prices[i] \in Int /\ trades + i \in Nat
  <2>1. Price \subseteq Int
    BY HedgeAssumption
  <2>2. \A i \in 1 .. Len(amounts) : prices[i] \in Price
    BY <1>1, Zenon
  <2>3. \A i \in 1 .. Len(amounts) : amounts[i] \in Int
    BY <1>1
  <2>4. \A i \in 1 .. Len(amounts) : trades + i \in Nat
    BY <1>1
  <2> QED
    BY <2>1, <2>2, <2>3, <2>4, Zenon
<1>a. new = [i \in 1 .. Len(amounts) |-> [venue |-> Venue, trade |-> trades + i,
                                          price |-> prices[i], amount |-> amounts[i]]]
  BY <1>1, Zenon DEF NewTrades
<1>3. \A i \in 1 .. Len(amounts) : new[i] \in Fill
  BY <1>2, <1>a, HedgeAssumption DEF Fill
<1>4. new \in [1 .. Len(amounts) -> Fill]
  BY <1>a, <1>3, Zenon
<1>5. new \in Seq(Fill) /\ Len(new) = Len(amounts)
  BY <1>1, <1>4, SMTT(30)
<1> QED
  BY <1>1, <1>5, <1>a

(* Execution reports at most one fill again, then new trades that make up  *)
(* the notional, and the hedge gets all of them.                           *)
LEMMA ExecuteMoves ==
  ASSUME HedgeTypes, NEW w \in HedgeWorker, Execute(w)
  PROVE  /\ Moves(w, "execute", "fills") /\ SameRequest(w)
         /\ job'[w].h.quotedRate = job[w].h.quotedRate
         /\ job'[w].executed = job[w].executed
         /\ \E again, new \in Seq(Fill) :
              /\ Reported(w, again, new) /\ trades' = trades + Len(new)
              /\ job'[w].todo = again \o new /\ job'[w].h.fills = again \o new
<1>1. At(w, "execute", "fills") /\ pc[w] # "idle" /\ "fills" \in HedgePc \ {"idle"}
  BY Zenon DEF Execute, At, HedgePc
<1>2. job[w] \in Job /\ job[w].h \in Hedge /\ job[w].h.notional \in Int
  BY <1>1, Serves, HedgeFields, Zenon
<1>3. PICK amounts \in Split(job[w].h.notional), again \in {<<>>} \cup {<<f>> : f \in Repeatable} :
        \E prices \in [DOMAIN amounts -> Price] :
          /\ trades' = trades + Len(amounts)
          /\ job' = [job EXCEPT ![w].todo = again \o NewTrades(amounts, prices),
                                ![w].h.fills = again \o NewTrades(amounts, prices)]
  BY Zenon DEF Execute
<1>4. PICK prices \in [DOMAIN amounts -> Price] :
          /\ trades' = trades + Len(amounts)
          /\ job' = [job EXCEPT ![w].todo = again \o NewTrades(amounts, prices),
                                ![w].h.fills = again \o NewTrades(amounts, prices)]
  BY <1>3, Zenon
<1> DEFINE new == NewTrades(amounts, prices)
           fills == again \o new
           h == [job[w].h EXCEPT !.fills = fills]
           j == [job[w] EXCEPT !.todo = fills, !.h = h]
<1>5. /\ trades' = trades + Len(amounts)
      /\ job' = [job EXCEPT ![w].todo = fills, ![w].h.fills = fills]
  BY <1>4, Zenon
<1>6. /\ amounts \in Seq(Int)
      /\ \/ Len(amounts) = 1 /\ amounts[1] = job[w].h.notional
         \/ Len(amounts) = 2 /\ amounts[1] + amounts[2] = job[w].h.notional
  BY <1>2, <1>3, SplitAddsUp, Zenon
<1>7. /\ new \in Seq(Fill) /\ Len(new) = Len(amounts)
      /\ \A i \in 1 .. Len(new) :
           new[i].trade = trades + i /\ new[i].venue = Venue /\ new[i].amount = amounts[i]
  <2>1. new = NewTrades(amounts, prices)
    BY Zenon
  <2> HIDE DEF new
  <2> QED
    BY <1>6, <2>1, NewFills, SMTT(30)
<1>8. again \in Seq(Fill) /\ (again = <<>> \/ \E f \in Repeatable : again = <<f>>)
  <2>1. again = <<>> \/ \E f \in Repeatable : again = <<f>>
    BY Zenon
  <2>2. \A f \in Repeatable : <<f>> \in Seq(Fill)
    BY RepeatableFills
  <2>3. <<>> \in Seq(Fill)
    OBVIOUS
  <2> QED
    BY <2>1, <2>2, <2>3, Zenon
<1> HIDE DEF new
<1>9. AddUpTo(new, job[w].h.notional)
  BY <1>6, <1>7 DEF AddUpTo
<1>10. Reported(w, again, new)
  BY <1>7, <1>8, <1>9, Zenon DEF Reported
<1>11. fills \in Seq(Fill)
  BY <1>7, <1>8
<1> HIDE DEF fills
<1>12. job' = [job EXCEPT ![w] = j]
  BY <1>2, <1>5, Zenon DEF HedgeTypes, Job
<1>13. h \in Hedge
  BY <1>2, <1>11, HedgeSet, Zenon
<1>14. j \in Job
  BY <1>2, <1>11, <1>13, JobSet, Zenon
<1>15. /\ h.currency = job[w].h.currency /\ h.notional = job[w].h.notional
       /\ h.request = job[w].h.request /\ h.fills = fills
       /\ h.quotedRate = job[w].h.quotedRate
  BY <1>2, Zenon DEF Hedge
<1>16. j.id = job[w].id /\ j.h = h /\ j.todo = fills /\ j.executed = job[w].executed
  BY <1>2, Zenon DEF Job
<1> HIDE DEF j, h
<1>17. Moves(w, "execute", "fills") /\ job'[w] = j
  BY <1>1, <1>12, <1>14, MovesOn, Zenon
<1>18. /\ SameRequest(w) /\ job'[w].h.quotedRate = job[w].h.quotedRate
       /\ job'[w].executed = job[w].executed
       /\ job'[w].todo = fills /\ job'[w].h.fills = fills
  BY <1>15, <1>16, <1>17, Zenon DEF SameRequest
<1> QED
  BY <1>5, <1>7, <1>8, <1>10, <1>17, <1>18, Zenon DEF fills

(* A handler that owns a hedge has an id that was issued. *)
LEMMA OwnId ==
  ASSUME HedgeBasic, NEW w \in HedgeWorker, Owns(w)
  PROVE  /\ job[w].id \in HedgeId /\ job[w] \in Job /\ job[w].h \in Hedge /\ pc[w] # "idle"
         /\ WorkerData(w) /\ Stage(pc[w], job[w].id)
<1>1. pc[w] # "idle"
  BY Zenon DEF Owns, Early, Running, Done
<1>2. job[w].id \in 1 .. issued
  BY Zenon DEF HedgeBasic, HedgeControl
<1>3. job[w] \in Job /\ job[w].h \in Hedge
  BY <1>1, Serves, Zenon DEF HedgeBasic
<1>4. job[w].id \in HedgeId
  BY <1>2, <1>3, JobFields
<1>5. Stage(pc[w], job[w].id)
  BY <1>4, Zenon DEF HedgeBasic, HedgeControl, Owns
<1> QED
  BY <1>1, <1>3, <1>4, <1>5, Zenon DEF HedgeBasic, HedgeData

(* The samples after AddSlippageSample. *)
LEMMA SampleAdded ==
  ASSUME NEW S, NEW s \in Seq(S), NEW x \in S
  PROVE  /\ Append(s, x) \in Seq(S) /\ Len(s) \in Nat /\ DOMAIN s = 1 .. Len(s)
         /\ DOMAIN Append(s, x) = DOMAIN s \cup {Len(s) + 1}
         /\ \A i \in DOMAIN s : Append(s, x)[i] = s[i]
         /\ Append(s, x)[Len(s) + 1] = x
OBVIOUS

(* A step that leaves the stored hedges, the index and the answers alone   *)
(* and the request of its handler as it is.                                *)
QuietRequest(w) ==
  /\ UNCHANGED <<hedges, byReq, answers>>
  /\ pc[w] # "idle" /\ pc'[w] # "idle" /\ job'[w].h.request = job[w].h.request
  /\ pc'[w] \in Early => pc[w] \in Early

(* The steps of a handler that are about neither its request nor the hedge *)
(* it stores.                                                              *)
LEMMA QuietSteps ==
  ASSUME HedgeBasic, NEW w \in HedgeWorker,
         \/ ReadPolicy(w) \/ Quote(w) \/ Execute(w) \/ NextFill(w) \/ RecordSample(w)
         \/ FeedCache(w) \/ RecordPnL(w) \/ Cover(w) \/ Announce(w)
  PROVE  QuietRequest(w) /\ \A v \in HedgeWorker \ {w} : pc'[v] = pc[v] /\ job'[v] = job[v]
<1> USE DEF Early
<1>1. HedgeTypes
  BY Zenon DEF HedgeBasic
<1>2. ASSUME ReadPolicy(w) PROVE Moves(w, "policy", "quote") /\ SameRequest(w)
  BY <1>1, <1>2, PolicyMoves, Zenon
<1>3. ASSUME Quote(w) PROVE Moves(w, "quote", "store") /\ SameRequest(w)
  BY <1>1, <1>3, QuoteMoves, Zenon
<1>4. ASSUME Execute(w) PROVE Moves(w, "execute", "fills") /\ SameRequest(w)
  BY <1>1, <1>4, ExecuteMoves, Zenon
<1>5. ASSUME NextFill(w)
      PROVE  \E next \in {"update", "sample", "fills"} : Moves(w, "fills", next) /\ SameRequest(w)
  BY <1>1, <1>5, NextFillMoves, Zenon
<1>6. ASSUME RecordSample(w) PROVE Moves(w, "sample", "feed") /\ SameRequest(w)
  <2>1. pc[w] = "sample"
    BY <1>6, Zenon DEF RecordSample, At
  <2>2. job[w].todo # <<>> /\ job[w].h.quotedRate > 0
    BY <2>1, Zenon DEF HedgeBasic, HedgeData, WorkerData, Running
  <2> QED
    BY <1>1, <1>6, <2>2, SampleMoves, Zenon
<1>7. ASSUME FeedCache(w) PROVE Moves(w, "feed", "fills") /\ SameRequest(w)
  <2>1. pc[w] = "feed"
    BY <1>7, Zenon DEF FeedCache, At
  <2>2. job[w].todo # <<>>
    BY <2>1, Zenon DEF HedgeBasic, HedgeData, WorkerData
  <2> QED
    BY <1>1, <1>7, <2>2, FeedMoves, Zenon
<1>8. ASSUME RecordPnL(w) \/ Cover(w) \/ Announce(w)
      PROVE  \E here, next \in Done : Moves(w, here, next) /\ SameRequest(w)
  <2>1. \E here, next \in Done : At(w, here, next) /\ UNCHANGED job
    BY <1>8, Zenon DEF RecordPnL, Cover, Announce, Done
  <2>2. Done \subseteq HedgePc \ {"idle"}
    BY Zenon DEF Done, HedgePc
  <2> QED
    BY <1>1, <2>1, <2>2, MovesSame, Zenon
<1>9. \E here, next \in HedgePc \ {"idle"} :
        Moves(w, here, next) /\ SameRequest(w) /\ (next \in Early => here \in Early)
  <2>1. \A s \in Done : s \in HedgePc \ {"idle"} /\ s \notin Early
    BY Zenon DEF Done, HedgePc
  <2>2. \A s \in {"fills", "update", "sample", "feed", "execute"} : s \in HedgePc \ {"idle"} /\ s \notin Early
    BY Zenon DEF HedgePc
  <2>3. \A s \in {"policy", "quote", "store"} : s \in HedgePc \ {"idle"} /\ s \in Early
    BY Zenon DEF HedgePc
  <2> QED
    BY <1>2, <1>3, <1>4, <1>5, <1>6, <1>7, <1>8, <2>1, <2>2, <2>3, Zenon
<1>10. UNCHANGED <<hedges, byReq, answers>>
  BY Zenon DEF ReadPolicy, Quote, Execute, NextFill, RecordSample, AddSlippageSample, FeedCache,
     RecordPnL, AddPnL, Cover, Announce, storeVars
<1> QED
  BY <1>9, <1>10, Zenon DEF QuietRequest, Moves, SameRequest

(* A handler stores h under its id, or updates the hedge it stored there.  *)
Put(w, id, h) ==
  /\ id = job[w].id /\ hedges' = [hedges EXCEPT ![id] = h]
  /\ h.request = job[w].h.request /\ h.currency = job[w].h.currency
  /\ h.notional = job[w].h.notional
  /\ \A v \in HedgeWorker \ {w} : pc'[v] = pc[v] /\ job'[v] = job[v]

(* A hedge is stored once, as EXECUTING or FAILED and without fills. *)
LEMMA StoreSteps ==
  ASSUME HedgeBasic, NEW w \in HedgeWorker, QuoteFails(w) \/ Create(w)
  PROVE  \E id \in HedgeId, h \in Hedge :
           /\ Put(w, id, h) /\ StoreHedge(id, h)
           /\ hedges[id] = NoHedge /\ Unfilled(h) /\ h.status # "EXECUTED"
<1>1. PICK here \in {"quote", "store"}, next \in {"idle", "execute"}, s \in {"FAILED", "EXECUTING"} :
        /\ At(w, here, next) /\ StoreHedge(job[w].id, [job[w].h EXCEPT !.status = s])
  BY Zenon DEF QuoteFails, Create, Finish
<1>2. Owns(w) /\ pc[w] \in Early
  BY <1>1, Zenon DEF At, Owns, Early
<1>3. PICK id \in HedgeId : id = job[w].id
  BY <1>2, OwnId, Zenon
<1>4. job[w].h \in Hedge /\ Unfilled(job[w].h) /\ hedges[id] = NoHedge
  BY <1>2, <1>3, OwnId, Zenon DEF WorkerData, Stage, Unborn
<1>5. PICK h \in Hedge : h = [job[w].h EXCEPT !.status = s]
  BY <1>4, HedgeSet, Zenon DEF HedgeStatus
<1>6. /\ h.request = job[w].h.request /\ h.currency = job[w].h.currency
      /\ h.notional = job[w].h.notional /\ Unfilled(h) /\ h.status = s
  BY <1>4, <1>5, Zenon DEF Hedge, Unfilled
<1>7. \A v \in HedgeWorker \ {w} : pc'[v] = pc[v] /\ job'[v] = job[v]
  <2>1. CASE QuoteFails(w)
    BY <2>1, MovesOut, Zenon DEF QuoteFails, HedgeBasic, Moves
  <2>2. CASE Create(w)
    BY <2>2, CreateMoves, Zenon DEF HedgeBasic, Moves
  <2> QED
    BY <2>1, <2>2, Zenon
<1>8. StoreHedge(id, h)
  BY <1>1, <1>3, <1>5, Zenon
<1>9. Put(w, id, h)
  BY <1>3, <1>6, <1>7, <1>8, Zenon DEF Put, StoreHedge
<1> QED
  BY <1>4, <1>6, <1>8, <1>9, Zenon

(* Only a hedge that is EXECUTING is updated, to FAILED without fills or   *)
(* to EXECUTED with what its handler knows.                                *)
LEMMA UpdateSteps ==
  ASSUME HedgeBasic, NEW w \in HedgeWorker, ExecuteFails(w) \/ MarkExecuted(w)
  PROVE  \E id \in HedgeId, h \in Hedge :
           /\ Put(w, id, h) /\ UpdateHedge(id, h)
           /\ hedges[id] \in Hedge /\ hedges[id].status = "EXECUTING" /\ Unfilled(hedges[id])
           /\ hedges[id].request = h.request /\ hedges[id].currency = h.currency
           /\ hedges[id].notional = h.notional
           /\ \/ ExecuteFails(w) /\ Unfilled(h) /\ h.status = "FAILED"
              \/ MarkExecuted(w) /\ h = [job[w].h EXCEPT !.status = "EXECUTED"]
<1>1. /\ pc[w] \in Running
      /\ \A v \in HedgeWorker \ {w} : pc'[v] = pc[v] /\ job'[v] = job[v]
  <2>1. CASE ExecuteFails(w)
    BY <2>1, MovesOut, Zenon DEF ExecuteFails, HedgeBasic, Moves, Running
  <2>2. CASE MarkExecuted(w)
    BY <2>2, Zenon DEF MarkExecuted, At, HedgeBasic, HedgeTypes, Running
  <2> QED
    BY <2>1, <2>2, Zenon
<1>2. Owns(w)
  BY <1>1, Zenon DEF Owns
<1>3. PICK id \in HedgeId : id = job[w].id
  BY <1>2, OwnId, Zenon
<1>4. /\ job[w].h \in Hedge /\ hedges[id] # NoHedge /\ hedges[id].status = "EXECUTING"
      /\ hedges[id].currency = job[w].h.currency
      /\ hedges[id].notional = job[w].h.notional
      /\ hedges[id].request = job[w].h.request
  BY <1>1, <1>2, <1>3, OwnId, Zenon DEF WorkerData, Stage, HasStatus
<1>5. hedges[id] \in Hedge /\ Unfilled(hedges[id])
  BY <1>4, Zenon DEF HedgeBasic, HedgeTypes, StoreTypeOK, HedgeData, StoredData
<1>6. CASE ExecuteFails(w)
  <2>1. PICK h \in Hedge : h = [hedges[id] EXCEPT !.status = "FAILED"]
    BY <1>5, HedgeSet, Zenon DEF HedgeStatus
  <2>2. /\ h.request = hedges[id].request /\ h.currency = hedges[id].currency
        /\ h.notional = hedges[id].notional /\ Unfilled(h) /\ h.status = "FAILED"
    BY <1>5, <2>1, Zenon DEF Hedge, Unfilled
  <2>3. UpdateHedge(id, h)
    BY <1>3, <1>6, <2>1, Zenon DEF ExecuteFails
  <2>4. Put(w, id, h)
    BY <1>1, <1>3, <1>4, <2>2, <2>3, Zenon DEF Put, UpdateHedge
  <2> QED
    BY <1>4, <1>5, <1>6, <2>2, <2>3, <2>4, Zenon
<1>7. CASE MarkExecuted(w)
  <2>1. PICK h \in Hedge : h = [job[w].h EXCEPT !.status = "EXECUTED"]
    BY <1>4, HedgeSet, Zenon DEF HedgeStatus
  <2>2. /\ h.request = job[w].h.request /\ h.currency = job[w].h.currency
        /\ h.notional = job[w].h.notional
    BY <1>4, <2>1, Zenon DEF Hedge
  <2>3. UpdateHedge(id, h)
    BY <1>3, <1>7, <2>1, Zenon DEF MarkExecuted
  <2>4. Put(w, id, h)
    BY <1>1, <1>3, <2>2, <2>3, Zenon DEF Put, UpdateHedge
  <2> QED
    BY <1>4, <1>5, <1>7, <2>1, <2>2, <2>3, <2>4, Zenon
<1> QED
  BY <1>6, <1>7, Zenon

(* Stored hedges and their requests after a Put. *)
LEMMA PutStored ==
  ASSUME StoreTypeOK, NEW w, NEW id \in HedgeId, NEW h \in Hedge, Put(w, id, h)
  PROVE  /\ hedges'[id] = h /\ \A i \in HedgeId \ {id} : hedges'[i] = hedges[i]
         /\ Stored' = Stored \cup {id}
<1>1. hedges'[id] = h /\ \A i \in HedgeId \ {id} : hedges'[i] = hedges[i]
  BY Zenon DEF Put, StoreTypeOK
<1> QED
  BY <1>1, HedgeFields, Zenon DEF Stored

-----------------------------------------------------------------------------
(* Requests with one id do not overlap, so the index of CreateHedge is     *)
(* exact.                                                                  *)
RequestsApart ==
  \A v, w \in HedgeWorker :
    /\ pc[v] # "idle" /\ pc[w] # "idle"
    /\ job[v].h.request = job[w].h.request /\ job[w].h.request # NoRequestId
    => v = w

IndexExact ==
  /\ \A id \in Stored : hedges[id].request \in RequestId => byReq[hedges[id].request] = id
  /\ \A a \in answers : byReq[a[1]] = a[2]
  /\ \A w \in HedgeWorker : pc[w] \in Early /\ job[w].h.request \in RequestId =>
       byReq[job[w].h.request] = NoHedge

(* The invariant behind OneHedgePerRequest. *)
RequestsExact == RequestsApart /\ IndexExact

(* No other handler serves the request of a handler that goes on with it.  *)
LEMMA ApartKept ==
  ASSUME RequestsApart, NEW w \in HedgeWorker,
         \A v \in HedgeWorker \ {w} : pc'[v] = pc[v] /\ job'[v] = job[v],
         pc'[w] # "idle" => pc[w] # "idle" /\ job'[w].h.request = job[w].h.request
  PROVE  RequestsApart'
BY DEF RequestsApart

(* A step about neither the request nor the stored hedge. *)
LEMMA QuietExact ==
  ASSUME RequestsExact, NEW w \in HedgeWorker, QuietRequest(w),
         \A v \in HedgeWorker \ {w} : pc'[v] = pc[v] /\ job'[v] = job[v]
  PROVE  RequestsExact'
<1>1. RequestsApart'
  BY ApartKept, Zenon DEF RequestsExact, QuietRequest
<1>2. Stored' = Stored
  BY Zenon DEF QuietRequest, Stored
<1>3. /\ hedges' = hedges /\ byReq' = byReq /\ answers' = answers
      /\ \A v \in HedgeWorker : pc'[v] \in Early => pc[v] \in Early
      /\ \A v \in HedgeWorker : job'[v].h.request = job[v].h.request
  BY Zenon DEF QuietRequest
<1>4. IndexExact'
  BY <1>2, <1>3 DEF RequestsExact, IndexExact
<1> QED
  BY <1>1, <1>4, Zenon DEF RequestsExact

(* A request is received: none of the handlers serves its id. *)
LEMMA ReceiveExact ==
  ASSUME ~ Overlaps, HedgeBasic, RequestsExact, NEW w \in HedgeWorker, ReceiveHedge(w)
  PROVE  RequestsExact'
<1>1. /\ Moves(w, "idle", "lookup")
      /\ \/ job'[w].h.request = NoRequestId
         \/ \A v \in HedgeWorker : pc[v] # "idle" => job[v].h.request # job'[w].h.request
  BY ReceiveMoves DEF HedgeBasic
<1>2. UNCHANGED <<hedges, byReq, answers>>
  BY Zenon DEF ReceiveHedge, storeVars
<1>3. /\ pc'[w] = "lookup"
      /\ \A v \in HedgeWorker \ {w} : pc'[v] = pc[v] /\ job'[v] = job[v]
  BY <1>1, Zenon DEF Moves
<1>4. RequestsApart'
  BY <1>1, <1>3 DEF RequestsExact, RequestsApart
<1>5. Stored' = Stored
  BY <1>2, Zenon DEF Stored
<1>6. IndexExact'
  BY <1>2, <1>3, <1>5, Zenon DEF RequestsExact, IndexExact, Early
<1> QED
  BY <1>4, <1>6 DEF RequestsExact

(* The lookup answers with the hedge of the index, or finds none. *)
LEMMA LookupExact ==
  ASSUME HedgeBasic, RequestsExact, NEW w \in HedgeWorker, LookupRequest(w)
  PROVE  RequestsExact'
<1>1. UNCHANGED <<hedges, byReq>>
  BY Zenon DEF LookupRequest, storeVars
<1>2. Stored' = Stored
  BY <1>1, Zenon DEF Stored
<1>3. pc[w] # "idle" /\ job[w].h.request \in RequestId \cup {NoRequestId}
  <2>1. pc[w] = "lookup"
    BY Zenon DEF LookupRequest, Finish, At
  <2> QED
    BY <2>1, Serves, HedgeFields DEF HedgeBasic
<1>4. CASE /\ Finish(w, "lookup")
           /\ Answer(w, GetHedgeByClientRequest(job[w].h.request))
  <2>1. Moves(w, "lookup", "idle")
    BY <1>4, MovesOut DEF HedgeBasic
  <2>2. /\ pc'[w] = "idle"
        /\ \A v \in HedgeWorker \ {w} : pc'[v] = pc[v] /\ job'[v] = job[v]
    BY <2>1 DEF Moves
  <2>3. RequestsApart'
    BY <2>2, ApartKept DEF RequestsExact
  <2>4. \A a \in answers' : byReq[a[1]] = a[2]
    <3>1. CASE job[w].h.request \in RequestId
      <4>1. answers' = answers \cup {job[w].h.request} \X {byReq[job[w].h.request]}
        BY <1>4, <3>1, StoreAssumption DEF Answer, GetHedgeByClientRequest
      <4> QED
        BY <4>1, Zenon DEF RequestsExact, IndexExact
    <3>2. CASE job[w].h.request = NoRequestId
      BY <1>4, <3>2, StoreAssumption DEF Answer, RequestsExact, IndexExact
    <3> QED
      BY <1>3, <3>1, <3>2
  <2>5. IndexExact'
    BY <1>1, <1>2, <2>2, <2>4 DEF RequestsExact, IndexExact, Early
  <2> QED
    BY <2>3, <2>5 DEF RequestsExact
<1>5. CASE /\ At(w, "lookup", "policy")
           /\ GetHedgeByClientRequest(job[w].h.request) = NoHedge
           /\ job' = [job EXCEPT ![w].id = issued + 1]
           /\ UNCHANGED answers
  <2>1. /\ job'[w].h = job[w].h
        /\ \A v \in HedgeWorker \ {w} : pc'[v] = pc[v] /\ job'[v] = job[v]
    BY <1>3, <1>5, Serves DEF HedgeBasic, HedgeTypes, Job, At
  <2>2. RequestsApart'
    BY <1>3, <2>1, ApartKept, Zenon DEF RequestsExact
  <2>3. job'[w].h.request \in RequestId => byReq[job'[w].h.request] = NoHedge
    BY <1>5, <2>1, StoreAssumption, Zenon DEF GetHedgeByClientRequest
  <2>4. IndexExact'
    BY <1>1, <1>2, <1>5, <2>1, <2>3 DEF RequestsExact, IndexExact
  <2> QED
    BY <2>2, <2>4 DEF RequestsExact
<1> QED
  BY <1>4, <1>5, Zenon DEF LookupRequest

(* An answer that carries the hedge of the handler. *)
AnswersOwn(w, id) == answers' = answers \/ Answer(w, id)

(* A hedge is stored: the lookup found none for its request, and nobody    *)
(* else serves it.                                                         *)
LEMMA StoreExact ==
  ASSUME HedgeBasic, RequestsExact, NEW w \in HedgeWorker, QuoteFails(w) \/ Create(w)
  PROVE  RequestsExact'
<1>1. PICK id \in HedgeId, h \in Hedge :
        Put(w, id, h) /\ StoreHedge(id, h) /\ hedges[id] = NoHedge
  BY StoreSteps, Zenon
<1>2. pc[w] \in Early /\ pc'[w] \notin Early /\ AnswersOwn(w, id)
  BY <1>1, Zenon DEF QuoteFails, Create, Finish, At, Early, AnswersOwn, Put, HedgeBasic, HedgeTypes
<1>3. /\ pc[w] # "idle" /\ job[w].h \in Hedge
      /\ pc'[w] # "idle" => job'[w].h.request = job[w].h.request
  <2>1. pc[w] # "idle" /\ Owns(w)
    BY <1>2, Zenon DEF Early, Owns
  <2>2. QuoteFails(w) => pc'[w] = "idle"
    BY Zenon DEF QuoteFails, Finish, At, HedgeBasic, HedgeTypes
  <2>3. Create(w) => job'[w].h.request = job[w].h.request
    BY CreateMoves, Zenon DEF HedgeBasic, SameRequest
  <2> QED
    BY <2>1, <2>2, <2>3, OwnId, Zenon
<1>4. \A v \in HedgeWorker \ {w} : pc'[v] = pc[v] /\ job'[v] = job[v]
  BY <1>1, Zenon DEF Put
<1>5. RequestsApart'
  BY <1>3, <1>4, ApartKept, Zenon DEF RequestsExact
<1>6. PICK r \in RequestId \cup {NoRequestId} : r = job[w].h.request /\ r = h.request
  BY <1>1, <1>3, HedgeFields, Zenon DEF Put
<1>7. /\ \A i \in HedgeId \ {id} : hedges'[i] = hedges[i]
      /\ hedges'[id] = h /\ Stored' = Stored \cup {id}
  BY <1>1, PutStored, Zenon DEF HedgeBasic, HedgeTypes
<1>8. /\ \A q \in RequestId \ {r} : byReq'[q] = byReq[q]
      /\ r \in RequestId => byReq'[r] = id /\ byReq[r] = NoHedge
  <2>1. r \in RequestId => byReq[r] = NoHedge
    BY <1>2, <1>6, Zenon DEF RequestsExact, IndexExact
  <2> QED
    BY <1>1, <1>6, <2>1, Zenon DEF StoreHedge
<1>9. /\ \A i \in Stored : hedges[i].request \in RequestId => byReq[hedges[i].request] = i
      /\ \A a \in answers : a[1] \in RequestId /\ a[2] \in HedgeId /\ byReq[a[1]] = a[2]
      /\ NoHedge \notin HedgeId
  BY StoreAssumption, Zenon DEF RequestsExact, IndexExact, HedgeBasic, HedgeTypes
<1>10. ASSUME NEW i \in Stored', hedges'[i].request \in RequestId
       PROVE  byReq'[hedges'[i].request] = i
  <2>1. CASE i = id
    BY <1>6, <1>7, <1>8, <1>10, <2>1
  <2>2. CASE i # id
    <3>1. i \in Stored /\ i \in HedgeId /\ hedges'[i] = hedges[i]
      BY <1>7, <2>2, Zenon DEF Stored
    <3>2. byReq[hedges[i].request] = i /\ hedges[i].request # r
      BY <1>8, <1>9, <1>10, <3>1
    <3> QED
      BY <1>8, <1>10, <3>1, <3>2
  <2> QED
    BY <2>1, <2>2, Zenon
<1>11. ASSUME NEW a \in answers' PROVE byReq'[a[1]] = a[2]
  <2>1. CASE a \in answers
    <3>1. a[1] # r
      BY <1>8, <1>9, <2>1
    <3> QED
      BY <1>8, <1>9, <2>1, <3>1, Zenon
  <2>2. CASE a \notin answers
    <3>1. r \in RequestId /\ a = <<r, id>>
      BY <1>2, <1>6, <2>2 DEF AnswersOwn, Answer
    <3> QED
      BY <1>8, <3>1, Zenon
  <2> QED
    BY <2>1, <2>2, Zenon
<1>12. ASSUME NEW v \in HedgeWorker, pc'[v] \in Early, job'[v].h.request \in RequestId
       PROVE  byReq'[job'[v].h.request] = NoHedge
  <2>1. v # w /\ pc'[v] = pc[v] /\ job'[v] = job[v] /\ pc[v] # "idle"
    BY <1>2, <1>4, <1>12, Zenon DEF Early
  <2>2. job[v].h.request # r
    BY <1>3, <1>6, <1>12, <2>1, StoreAssumption, ZenonT(30) DEF RequestsExact, RequestsApart
  <2>3. byReq[job[v].h.request] = NoHedge
    BY <1>12, <2>1, Zenon DEF RequestsExact, IndexExact
  <2> QED
    BY <1>8, <1>12, <2>1, <2>2, <2>3, Zenon
<1> QED
  BY <1>5, <1>10, <1>11, <1>12, Zenon DEF RequestsExact, IndexExact

(* A hedge is updated or published under the request it was stored with,   *)
(* and answered.                                                           *)
LEMMA UpdateExact ==
  ASSUME HedgeBasic, RequestsExact, NEW w \in HedgeWorker,
         ExecuteFails(w) \/ MarkExecuted(w) \/ Publish(w)
  PROVE  RequestsExact'
<1>1. PICK id \in HedgeId :
        /\ id = job[w].id /\ Owns(w) /\ id \in Stored /\ hedges[id].request = job[w].h.request
        /\ Stored' = Stored /\ \A i \in Stored : hedges'[i].request = hedges[i].request
        /\ \A v \in HedgeWorker \ {w} : pc'[v] = pc[v] /\ job'[v] = job[v]
  <2>1. CASE ExecuteFails(w) \/ MarkExecuted(w)
    <3>1. PICK id \in HedgeId, h \in Hedge :
            /\ Put(w, id, h) /\ hedges[id] \in Hedge /\ hedges[id].request = h.request
      BY <2>1, UpdateSteps, Zenon
    <3>2. id \in Stored
      BY <3>1, HedgeFields, Zenon DEF Stored
    <3>3. /\ hedges'[id] = h /\ \A i \in HedgeId \ {id} : hedges'[i] = hedges[i]
          /\ Stored' = Stored \cup {id}
      BY <3>1, PutStored, Zenon DEF HedgeBasic, HedgeTypes
    <3>4. \A i \in Stored : hedges'[i].request = hedges[i].request
      BY <3>1, <3>3, Zenon DEF Stored
    <3>5. Owns(w)
      BY <2>1, Zenon DEF ExecuteFails, MarkExecuted, Finish, At, Owns, Running
    <3> QED
      BY <3>1, <3>2, <3>3, <3>4, <3>5 DEF Put
  <2>2. CASE Publish(w)
    <3>1. Finish(w, "publish") /\ UNCHANGED hedges
      BY <2>2, Zenon DEF Publish, storeVars
    <3>2. pc[w] = "publish" /\ \A v \in HedgeWorker \ {w} : pc'[v] = pc[v] /\ job'[v] = job[v]
      BY <3>1, MovesOut, Zenon DEF HedgeBasic, Moves
    <3>3. Owns(w)
      BY <3>2, Zenon DEF Owns, Done
    <3>4. PICK id \in HedgeId : id = job[w].id
      BY <3>3, OwnId, Zenon
    <3>5. /\ job[w].h \in Hedge /\ hedges[id] = [job[w].h EXCEPT !.status = "EXECUTED"]
          /\ HasStatus(id, "EXECUTED")
      BY <3>2, <3>3, <3>4, OwnId, Zenon DEF WorkerData, Stage, Done
    <3>6. hedges[id].request = job[w].h.request /\ id \in Stored
      BY <3>5, Zenon DEF Hedge, HasStatus, Stored
    <3>7. Stored' = Stored
      BY <3>1, Zenon DEF Stored
    <3> QED
      BY <3>1, <3>2, <3>3, <3>4, <3>6, <3>7
  <2> QED
    BY <2>1, <2>2, Zenon
<1>2. UNCHANGED byReq /\ AnswersOwn(w, id)
  BY <1>1, Zenon DEF ExecuteFails, MarkExecuted, Publish, UpdateHedge, AnswersOwn, storeVars
<1>3. pc'[w] \notin Early /\ (pc'[w] # "idle" => job' = job) /\ pc[w] # "idle"
  BY <1>1, OwnId, Zenon DEF ExecuteFails, MarkExecuted, Publish, Finish, At, Early, HedgeBasic, HedgeTypes
<1>4. RequestsApart'
  BY <1>1, <1>3, ApartKept, Zenon DEF RequestsExact
<1>5. \A a \in answers' : byReq[a[1]] = a[2]
  <2>1. \A a \in answers : byReq[a[1]] = a[2]
    BY Zenon DEF RequestsExact, IndexExact
  <2>2. job[w].h.request \in RequestId => byReq[job[w].h.request] = id
    BY <1>1 DEF RequestsExact, IndexExact
  <2>3. ASSUME NEW a \in answers', a \notin answers
        PROVE  job[w].h.request \in RequestId /\ a = <<job[w].h.request, id>>
    BY <1>2, <2>3 DEF AnswersOwn, Answer
  <2> QED
    BY <2>1, <2>2, <2>3
<1>6. \A i \in Stored : hedges'[i].request \in RequestId => byReq[hedges'[i].request] = i
  BY <1>1, Zenon DEF RequestsExact, IndexExact
<1>7. IndexExact'
  BY <1>1, <1>2, <1>3, <1>5, <1>6 DEF RequestsExact, IndexExact
<1> QED
  BY <1>4, <1>7, Zenon DEF RequestsExact

(* Every step keeps the requests apart and the index exact. *)
LEMMA ExactStep ==
  ~ Overlaps /\ HedgeBasic /\ RequestsExact /\ [HedgeNext]_apiVars => RequestsExact'
<1> SUFFICES ASSUME ~ Overlaps, HedgeBasic, RequestsExact, [HedgeNext]_apiVars
             PROVE  RequestsExact'
  BY Zenon
<1>1. CASE FlowArrives \/ UNCHANGED apiVars
  <2>1. UNCHANGED <<hedges, byReq, answers, pc, job>>
    BY <1>1, Zenon DEF FlowArrives, apiVars, storeVars, handlerVars
  <2>2. Stored' = Stored
    BY <2>1, Zenon DEF Stored
  <2> QED
    BY <2>1, <2>2, Zenon DEF RequestsExact, RequestsApart, IndexExact
<1>2. ASSUME NEW w \in HedgeWorker, ReceiveHedge(w) \/ HandlerStep(w) PROVE RequestsExact'
  BY <1>2, ReceiveExact, LookupExact, StoreExact, UpdateExact, QuietSteps, QuietExact, Zenon
     DEF HandlerStep
<1> QED
  BY <1>1, <1>2, Zenon DEF HedgeNext
=============================================================================
