---------------------------- MODULE TradeProofs -----------------------------
(***************************************************************************)
(* The trades of POST /v1/hedges, for any number of workers, hedges,       *)
(* venues and currencies: whatever the handlers have yet to look up is     *)
(* either new, or starts with one trade that HasFill will recognise, and   *)
(* makes up the rest of the notional.                                      *)
(***************************************************************************)
EXTENDS HedgeSteps

(* A provider that repeats no trade, or only such that HasFill recognises. *)
Recognised == Replays = "never" \/ (Replays = "stored" /\ Venue # NoVenue)

(* The trades of a sequence of fills or samples, and that each of them is  *)
(* another trade.                                                          *)
TradesOf(s) == {s[i].trade : i \in DOMAIN s}
Distinct(s) == \A i, j \in DOMAIN s : s[i].trade = s[j].trade => i = j
OfVenue(s) == \A i \in DOMAIN s : s[i].venue = Venue

(* The trades on stored hedges, and those with a slippage sample. *)
Booked == UNION {TradesOf(hedges[id].fills) : id \in Stored}
Sampled == TradesOf(samples)

New(s) == TradesOf(s) \cap (Booked \cup Sampled) = {} /\ Distinct(s)

(* The fills processFills has yet to look up. *)
Due(w) == IF pc[w] = "feed" THEN Tail(job[w].todo) ELSE job[w].todo

(* What is due is new and makes up the rest of the notional. *)
DueNew(w) == New(Due(w)) /\ AddUpTo(Due(w), job[w].h.notional - job[w].executed)

(* So it is after a repeated trade that HasFill will recognise. *)
DueAgain(w) ==
  /\ Due(w) # <<>> /\ Head(Due(w)).trade \in Booked
  /\ Head(Due(w)).venue = Venue /\ Venue # NoVenue
  /\ New(Tail(Due(w))) /\ AddUpTo(Tail(Due(w)), job[w].h.notional) /\ job[w].executed = 0

Filling == {"fills", "sample", "feed", "update"}

FillsRight(w) ==
  /\ pc[w] # "idle" => TradesOf(job[w].h.fills) \subseteq 1 .. trades /\ OfVenue(job[w].h.fills)
  /\ pc[w] \in Filling =>
       /\ DueNew(w) \/ (pc[w] = "fills" /\ DueAgain(w))
       /\ TradesOf(Due(w)) \subseteq TradesOf(job[w].h.fills)
       /\ pc[w] = "update" => job[w].todo = <<>>
  /\ pc[w] \in {"pnl", "cover"} => job[w].executed = job[w].h.notional

BooksRight ==
  /\ Booked \subseteq 1 .. trades /\ Sampled \subseteq 1 .. trades
  /\ \A id \in Stored : OfVenue(hedges[id].fills)
  /\ Distinct(samples)

(* Two handlers share a trade only when it is on a stored hedge. *)
FillsApart ==
  \A v, w \in HedgeWorker : v # w /\ pc[v] \in Filling /\ pc[w] \in Filling =>
    TradesOf(job[v].h.fills) \cap TradesOf(job[w].h.fills) \subseteq Booked

TradesApart == (\A w \in HedgeWorker : FillsRight(w)) /\ BooksRight /\ FillsApart

-----------------------------------------------------------------------------
(***************************************************************************)
(* One sample per trade.                                                   *)
(***************************************************************************)
(* Looking up the first of the fills leaves the others. *)
LEMMA TailTrades ==
  ASSUME NEW s \in Seq(Fill), s # <<>>
  PROVE  /\ Head(s).trade \in TradesOf(s) /\ TradesOf(Tail(s)) \subseteq TradesOf(s)
         /\ Distinct(s) => Distinct(Tail(s)) /\ Head(s).trade \notin TradesOf(Tail(s))
         /\ \A n \in Int : AddUpTo(s, n) => AddUpTo(Tail(s), n - Head(s).amount)
<1>1. /\ Head(s) = s[1] /\ Len(s) \in Nat \ {0} /\ Len(Tail(s)) = Len(s) - 1
      /\ Tail(s) \in Seq(Fill)
      /\ DOMAIN s = 1 .. Len(s) /\ DOMAIN Tail(s) = 1 .. Len(s) - 1
      /\ \A i \in 1 .. Len(s) - 1 : Tail(s)[i] = s[i + 1]
  BY TailFacts, Zenon
<1>2. 1 \in DOMAIN s /\ \A i \in 1 .. Len(s) - 1 : i + 1 \in DOMAIN s /\ i + 1 # 1
  BY <1>1
<1>3. Head(s).trade \in TradesOf(s) /\ TradesOf(Tail(s)) \subseteq TradesOf(s)
  BY <1>1, <1>2 DEF TradesOf
<1>4. ASSUME Distinct(s) PROVE Distinct(Tail(s)) /\ Head(s).trade \notin TradesOf(Tail(s))
  <2>1. ASSUME NEW i \in DOMAIN Tail(s), NEW j \in DOMAIN Tail(s), Tail(s)[i].trade = Tail(s)[j].trade
        PROVE  i = j
    <3>1. i + 1 = j + 1
      BY <1>1, <1>2, <1>4, <2>1 DEF Distinct
    <3> QED
      BY <1>1, <3>1
  <2>2. ASSUME NEW i \in DOMAIN Tail(s) PROVE Tail(s)[i].trade # Head(s).trade
    BY <1>1, <1>2, <1>4 DEF Distinct
  <2> QED
    BY <2>1, <2>2, Zenon DEF Distinct, TradesOf
<1>5. ASSUME NEW n \in Int, AddUpTo(s, n) PROVE AddUpTo(Tail(s), n - Head(s).amount)
  <2>0. \A i \in 1 .. Len(s) : s[i].amount \in Int
    BY <1>1, FillFields
  <2>1. CASE Len(s) = 1
    <3>1. Tail(s) = <<>>
      BY <1>1, <2>1
    <3>2. s[1].amount = n
      BY <1>5, <2>1 DEF AddUpTo
    <3>3. n - Head(s).amount = 0
      BY <1>1, <3>2
    <3> QED
      BY <3>1, <3>3, Zenon DEF AddUpTo
  <2>2. CASE Len(s) = 2
    <3>1. s[1].amount + s[2].amount = n
      BY <1>5, <2>2 DEF AddUpTo
    <3>2. Len(Tail(s)) = 1 /\ Tail(s)[1] = s[2]
      BY <1>1, <2>2
    <3>3. Tail(s)[1].amount = n - Head(s).amount
      BY <1>1, <2>0, <2>2, <3>1, <3>2, SMTT(30)
    <3> QED
      BY <3>2, <3>3, Zenon DEF AddUpTo
  <2> QED
    BY <1>1, <1>5, <2>1, <2>2, Zenon DEF AddUpTo
<1> QED
  BY <1>3, <1>4, <1>5, Zenon

(* New fills stay new while nothing of theirs is booked or sampled. *)
LEMMA NewKept ==
  ASSUME NEW s, NEW F, New(s), TradesOf(s) \subseteq F,
         (Booked' \cup Sampled') \cap F \subseteq Booked \cup Sampled
  PROVE  New(s)'
BY Zenon DEF New

(* What a stored or updated hedge adds to the booked trades. *)
LEMMA PutBooks ==
  ASSUME StoreTypeOK, NEW w, NEW id \in HedgeId, NEW h \in Hedge, Put(w, id, h),
         hedges[id] = NoHedge \/ hedges[id].fills = <<>>
  PROVE  Booked' = Booked \cup TradesOf(h.fills)
<1>1. /\ hedges'[id] = h /\ \A i \in HedgeId \ {id} : hedges'[i] = hedges[i]
      /\ Stored' = Stored \cup {id}
  BY PutStored, Zenon
<1>2. TradesOf(<<>>) = {}
  BY DEF TradesOf
<1>3. ASSUME NEW t PROVE t \in Booked' <=> t \in Booked \cup TradesOf(h.fills)
  <2>1. t \in Booked' <=> \E i \in Stored \cup {id} : t \in TradesOf(hedges'[i].fills)
    BY <1>1, Zenon DEF Booked
  <2>2. t \in Booked <=> \E i \in Stored : t \in TradesOf(hedges[i].fills)
    BY Zenon DEF Booked
  <2>3. id \in Stored => t \notin TradesOf(hedges[id].fills)
    BY <1>2, Zenon DEF Stored
  <2>4. \A i \in Stored : i \in HedgeId
    BY Zenon DEF Stored
  <2> QED
    BY <1>1, <2>1, <2>2, <2>3, <2>4, Zenon
<1> QED
  BY <1>3, Zenon

(* HasFill looks for a trade of the venue among the booked ones. *)
LEMMA HasFillBooked ==
  ASSUME BooksRight, NEW f
  PROVE  /\ HasFill(f) => f.trade \in Booked
         /\ f.trade \in Booked /\ f.venue = Venue /\ Venue # NoVenue => HasFill(f)
<1>1. HasFill(f) => f.trade \in Booked
  BY DEF HasFill, Booked, TradesOf
<1>2. ASSUME f.trade \in Booked, f.venue = Venue, Venue # NoVenue PROVE HasFill(f)
  <2>1. PICK id \in Stored : \E i \in DOMAIN hedges[id].fills : hedges[id].fills[i].trade = f.trade
    BY <1>2, Zenon DEF Booked, TradesOf
  <2>2. \A i \in DOMAIN hedges[id].fills : hedges[id].fills[i].venue = Venue
    BY Zenon DEF BooksRight, OfVenue
  <2> QED
    BY <1>2, <2>1, <2>2, Zenon DEF HasFill
<1> QED
  BY <1>1, <1>2, Zenon

(* What a step adds to the booked and sampled trades: nothing, or trades   *)
(* of the fills its handler is processing.                                 *)
Adds(w) ==
  /\ Booked \subseteq Booked'
  /\ \/ Booked' \cup Sampled' \subseteq Booked \cup Sampled
     \/ /\ pc[w] \in Filling
        /\ Booked' \cup Sampled' \subseteq Booked \cup Sampled \cup TradesOf(job[w].h.fills)

(* The fills that are due are fills. *)
LEMMA DueType ==
  ASSUME HedgeBasic, NEW w \in HedgeWorker, pc[w] \in Filling
  PROVE  /\ job[w] \in Job /\ job[w].h \in Hedge /\ job[w].todo \in Seq(Fill)
         /\ Due(w) \in Seq(Fill)
<1>1. pc[w] # "idle"
  BY Zenon DEF Filling
<1>2. job[w] \in Job /\ job[w].h \in Hedge /\ job[w].todo \in Seq(Fill)
  BY <1>1, Serves, JobFields, Zenon DEF HedgeBasic
<1>3. pc[w] = "feed" => job[w].todo # <<>>
  BY Zenon DEF HedgeBasic, HedgeData, WorkerData
<1> QED
  BY <1>2, <1>3, TailFacts, Zenon DEF Due

(* The fills of a handler stay right when another one takes a step. *)
LEMMA OthersFills ==
  ASSUME HedgeBasic, TradesApart, NEW w \in HedgeWorker, NEW v \in HedgeWorker \ {w},
         pc'[v] = pc[v], job'[v] = job[v], Adds(w),
         trades \in Nat, trades' \in Nat, trades <= trades'
  PROVE  FillsRight(v)'
<1> DEFINE F == TradesOf(job[v].h.fills)
<1>0. FillsRight(v)
  BY Zenon DEF TradesApart
<1>1. 1 .. trades \subseteq 1 .. trades'
  OBVIOUS
<1>2. TradesOf(job[v].h.fills)' = F /\ OfVenue(job[v].h.fills)' <=> OfVenue(job[v].h.fills)
  BY Zenon DEF TradesOf, OfVenue
<1>3. PICK s : s = Due(v)
  BY Zenon
<1>4. s = Due(v)'
  BY <1>3, Zenon DEF Due
<1>5. ASSUME pc[v] \in Filling
      PROVE  /\ DueNew(v)' \/ (pc'[v] = "fills" /\ DueAgain(v)')
             /\ TradesOf(Due(v))' \subseteq F
             /\ pc'[v] = "update" => job'[v].todo = <<>>
  <2>1. (Booked' \cup Sampled') \cap F \subseteq Booked \cup Sampled
    BY <1>5, Zenon DEF Adds, TradesApart, FillsApart
  <2>2. TradesOf(s) \subseteq F /\ (DueNew(v) \/ (pc[v] = "fills" /\ DueAgain(v)))
    BY <1>0, <1>3, <1>5, Zenon DEF FillsRight
  <2>3. DueNew(v) => DueNew(v)'
    <3>1. New(s) => New(s)'
      BY <2>1, <2>2, NewKept, Zenon
    <3>2. DueNew(v) <=> New(s) /\ AddUpTo(s, job[v].h.notional - job[v].executed)
      BY <1>3, Zenon DEF DueNew
    <3>3. DueNew(v)' <=> New(s)' /\ AddUpTo(s, job[v].h.notional - job[v].executed)
      BY <1>4, Zenon DEF DueNew, New
    <3> QED
      BY <3>1, <3>2, <3>3, Zenon
  <2>4. DueAgain(v) => DueAgain(v)'
    <3>1. PICK r : r = Tail(s)
      BY Zenon
    <3>2. DueAgain(v) <=>
            /\ s # <<>> /\ Head(s).trade \in Booked /\ Head(s).venue = Venue /\ Venue # NoVenue
            /\ New(r) /\ AddUpTo(r, job[v].h.notional) /\ job[v].executed = 0
      BY <1>3, <3>1, Zenon DEF DueAgain
    <3>3. DueAgain(v)' <=>
            /\ s # <<>> /\ Head(s).trade \in Booked' /\ Head(s).venue = Venue /\ Venue # NoVenue
            /\ New(r)' /\ AddUpTo(r, job[v].h.notional) /\ job[v].executed = 0
      BY <1>4, <3>1, Zenon DEF DueAgain, New
    <3>4. s # <<>> => TradesOf(r) \subseteq F
      BY <1>3, <1>5, <2>2, <3>1, DueType, TailTrades, Zenon
    <3>5. s # <<>> /\ New(r) => New(r)'
      BY <2>1, <3>4, NewKept, Zenon
    <3> QED
      BY <3>2, <3>3, <3>5, Zenon DEF Adds
  <2>5. TradesOf(Due(v))' \subseteq F
    BY <1>4, <2>2, Zenon DEF TradesOf
  <2> QED
    BY <1>0, <1>5, <2>2, <2>3, <2>4, <2>5, Zenon DEF FillsRight
<1> HIDE DEF F
<1> QED
  BY <1>0, <1>1, <1>2, <1>5, Zenon DEF FillsRight, F

(* A step keeps the trades apart when its own handler's fills and the      *)
(* books are right after it.                                               *)
LEMMA TradesFrame ==
  ASSUME HedgeBasic, TradesApart, NEW w \in HedgeWorker,
         \A v \in HedgeWorker \ {w} : pc'[v] = pc[v] /\ job'[v] = job[v],
         trades' \in Nat, trades <= trades', Adds(w), FillsRight(w)', BooksRight',
         pc'[w] \in Filling =>
           \A v \in HedgeWorker \ {w} : pc[v] \in Filling =>
             TradesOf(job[w].h.fills)' \cap TradesOf(job[v].h.fills) \subseteq Booked'
  PROVE  TradesApart'
<1>1. trades \in Nat
  BY Zenon DEF HedgeBasic, HedgeTypes, StoreTypeOK
<1>2. \A v \in HedgeWorker : FillsRight(v)'
  BY <1>1, OthersFills, Zenon
<1>3. \A v \in HedgeWorker \ {w} : TradesOf(job[v].h.fills)' = TradesOf(job[v].h.fills)
  BY Zenon DEF TradesOf
<1>4. ASSUME NEW u \in HedgeWorker, NEW v \in HedgeWorker, u # v,
             pc'[u] \in Filling, pc'[v] \in Filling
      PROVE  TradesOf(job[u].h.fills)' \cap TradesOf(job[v].h.fills)' \subseteq Booked'
  <2>1. CASE u = w
    BY <1>3, <1>4, <2>1, Zenon
  <2>2. CASE v = w
    BY <1>3, <1>4, <2>2, Zenon
  <2>3. CASE u # w /\ v # w
    <3>1. TradesOf(job[u].h.fills) \cap TradesOf(job[v].h.fills) \subseteq Booked
      BY <1>4, <2>3, Zenon DEF TradesApart, FillsApart
    <3> QED
      BY <1>3, <2>3, <3>1, Zenon DEF Adds
  <2> QED
    BY <2>1, <2>2, <2>3, Zenon
<1>5. FillsApart'
  BY <1>4, Zenon DEF FillsApart
<1> QED
  BY <1>2, <1>5, Zenon DEF TradesApart

(* The books stay right when nothing is booked, sampled or traded. *)
LEMMA BooksKept ==
  ASSUME BooksRight, UNCHANGED <<samples, trades>>, Booked' = Booked,
         \A id \in HedgeId : hedges'[id] = hedges[id] \/ hedges'[id].fills = <<>>
  PROVE  BooksRight' /\ \A w : Adds(w)
<1>1. Sampled' = Sampled /\ (Distinct(samples)' <=> Distinct(samples))
  BY Zenon DEF Sampled, Distinct, TradesOf
<1>2. ASSUME NEW id \in Stored' PROVE OfVenue(hedges[id].fills)'
  <2>1. id \in HedgeId /\ hedges'[id] # NoHedge
    BY Zenon DEF Stored
  <2>2. CASE hedges'[id].fills = <<>>
    BY <2>2 DEF OfVenue
  <2>3. CASE hedges'[id] = hedges[id]
    BY <2>1, <2>3, Zenon DEF OfVenue, Stored, BooksRight
  <2> QED
    BY <2>1, <2>2, <2>3, Zenon
<1> QED
  BY <1>1, <1>2, Zenon DEF BooksRight, Adds

(* A step outside of processFills that books nothing. *)
LEMMA CalmStep ==
  ASSUME HedgeBasic, TradesApart, NEW w \in HedgeWorker,
         \A v \in HedgeWorker \ {w} : pc'[v] = pc[v] /\ job'[v] = job[v],
         UNCHANGED <<samples, trades>>, Booked' = Booked,
         \A id \in HedgeId : hedges'[id] = hedges[id] \/ hedges'[id].fills = <<>>,
         pc'[w] \notin Filling \cup {"pnl"},
         \/ pc'[w] = "idle"
         \/ job'[w].h.fills = <<>>
         \/ pc[w] # "idle" /\ job'[w].h.fills = job[w].h.fills,
         pc'[w] = "cover" => pc[w] = "pnl" /\ job'[w] = job[w]
  PROVE  TradesApart'
<1>1. BooksRight' /\ Adds(w)
  BY BooksKept, Zenon DEF TradesApart
<1>2. FillsRight(w)
  BY Zenon DEF TradesApart
<1>3. pc'[w] # "idle" => (TradesOf(job[w].h.fills) \subseteq 1 .. trades)' /\ OfVenue(job[w].h.fills)'
  <2>1. CASE job'[w].h.fills = <<>>
    BY <2>1 DEF TradesOf, OfVenue
  <2>2. CASE pc[w] # "idle" /\ job'[w].h.fills = job[w].h.fills
    BY <1>2, <2>2, Zenon DEF FillsRight, TradesOf, OfVenue
  <2> QED
    BY <2>1, <2>2, Zenon
<1>4. FillsRight(w)'
  BY <1>2, <1>3, Zenon DEF FillsRight
<1>5. trades' \in Nat /\ trades <= trades'
  BY DEF HedgeBasic, HedgeTypes, StoreTypeOK
<1> QED
  BY <1>1, <1>4, <1>5, TradesFrame, Zenon

(* The booked trades are the same when the stored hedges are. *)
LEMMA SameBooks == UNCHANGED hedges => Booked' = Booked /\ Stored' = Stored
BY DEF Booked, Stored, TradesOf

(* The steps that neither process nor book a fill: the request, the policy *)
(* and the quote, the hedge that is stored or fails, and all that follows  *)
(* UpdateHedge.                                                            *)
LEMMA CalmSteps ==
  ASSUME HedgeBasic, TradesApart, NEW w \in HedgeWorker,
         \/ ReceiveHedge(w) \/ LookupRequest(w) \/ ReadPolicy(w) \/ QuoteFails(w) \/ Quote(w)
         \/ Create(w) \/ ExecuteFails(w) \/ RecordPnL(w) \/ Cover(w) \/ Announce(w) \/ Publish(w)
  PROVE  TradesApart'
<1> USE DEF Filling
<1>0. HedgeTypes /\ StoreTypeOK
  BY Zenon DEF HedgeBasic, HedgeTypes
<1>1. CASE ReceiveHedge(w)
  <2>1. Moves(w, "idle", "lookup") /\ Unfilled(job'[w].h)
    BY <1>0, <1>1, ReceiveMoves, Zenon
  <2>2. UNCHANGED <<hedges, samples, trades>>
    BY <1>1, Zenon DEF ReceiveHedge, storeVars
  <2>3. /\ pc'[w] = "lookup" /\ job'[w].h.fills = <<>>
        /\ \A v \in HedgeWorker \ {w} : pc'[v] = pc[v] /\ job'[v] = job[v]
    BY <2>1, Zenon DEF Moves, Unfilled
  <2> QED
    BY <2>2, <2>3, SameBooks, CalmStep, Zenon
<1>2. CASE LookupRequest(w)
  <2>1. UNCHANGED <<hedges, samples, trades>>
    BY <1>2, Zenon DEF LookupRequest, storeVars
  <2>2. /\ pc'[w] \in {"idle", "policy"} /\ pc[w] # "idle" /\ (pc'[w] # "idle" => job'[w].h.fills = job[w].h.fills)
        /\ \A v \in HedgeWorker \ {w} : pc'[v] = pc[v] /\ job'[v] = job[v]
    <3>1. CASE Finish(w, "lookup")
      BY <1>0, <3>1, MovesOut DEF Moves
    <3>2. CASE At(w, "lookup", "policy") /\ job' = [job EXCEPT ![w].id = issued + 1]
      <4>1. pc[w] # "idle" /\ pc'[w] = "policy"
        BY <1>0, <3>2, Zenon DEF At, HedgeTypes
      <4>2. job[w] \in Job
        BY <1>0, <4>1, Serves, Zenon
      <4> QED
        BY <1>0, <3>2, <4>1, <4>2, Zenon DEF HedgeTypes, Job, At
    <3> QED
      BY <1>2, <3>1, <3>2, Zenon DEF LookupRequest
  <2> QED
    BY <2>1, <2>2, SameBooks, CalmStep, Zenon
<1>3. CASE ReadPolicy(w) \/ Quote(w)
  <2>1. UNCHANGED <<hedges, samples, trades>>
    BY <1>3, Zenon DEF ReadPolicy, Quote, storeVars
  <2>2. SameFills(w) /\ (Moves(w, "policy", "quote") \/ Moves(w, "quote", "store"))
    BY <1>0, <1>3, PolicyMoves, QuoteMoves, Zenon
  <2>3. /\ pc[w] # "idle" /\ pc'[w] \in {"quote", "store"} /\ job'[w].h.fills = job[w].h.fills
        /\ \A v \in HedgeWorker \ {w} : pc'[v] = pc[v] /\ job'[v] = job[v]
    BY <2>2, Zenon DEF Moves, SameFills
  <2> QED
    BY <2>1, <2>3, SameBooks, CalmStep, Zenon
<1>4. CASE QuoteFails(w) \/ Create(w) \/ ExecuteFails(w)
  <2>1. PICK id \in HedgeId, h \in Hedge :
          /\ Put(w, id, h) /\ Unfilled(h)
          /\ hedges[id] = NoHedge \/ hedges[id].fills = <<>>
    <3>1. ExecuteFails(w) => ~ MarkExecuted(w)
      BY Zenon DEF ExecuteFails, MarkExecuted, Finish, At
    <3> QED
      BY <1>4, <3>1, StoreSteps, UpdateSteps, Zenon DEF Unfilled
  <2>2. UNCHANGED <<samples, trades>>
    BY <1>4, Zenon DEF QuoteFails, Create, ExecuteFails, StoreHedge, UpdateHedge
  <2>3. Booked' = Booked
    <3>1. TradesOf(h.fills) = {}
      BY <2>1 DEF Unfilled, TradesOf
    <3> QED
      BY <1>0, <2>1, <3>1, PutBooks, Zenon
  <2>4. \A i \in HedgeId : hedges'[i] = hedges[i] \/ hedges'[i].fills = <<>>
    <3>1. hedges'[id] = h /\ \A i \in HedgeId \ {id} : hedges'[i] = hedges[i]
      BY <1>0, <2>1, PutStored, Zenon
    <3> QED
      BY <2>1, <3>1, Zenon DEF Unfilled
  <2>5. \A v \in HedgeWorker \ {w} : pc'[v] = pc[v] /\ job'[v] = job[v]
    BY <2>1, Zenon DEF Put
  <2>6. pc[w] # "idle" /\ (pc'[w] = "idle" \/ (pc'[w] = "execute" /\ job'[w].h.fills = job[w].h.fills))
    <3>1. CASE Create(w)
      BY <1>0, <3>1, CreateMoves, Zenon DEF Moves, SameFills
    <3>2. CASE QuoteFails(w) \/ ExecuteFails(w)
      BY <1>0, <3>2, Zenon DEF QuoteFails, ExecuteFails, Finish, At, HedgeTypes
    <3> QED
      BY <1>4, <3>1, <3>2, Zenon
  <2> QED
    BY <2>2, <2>3, <2>4, <2>5, <2>6, CalmStep, Zenon
<1>5. CASE RecordPnL(w) \/ Cover(w) \/ Announce(w)
  <2>1. /\ UNCHANGED <<hedges, samples, trades, job>>
        /\ At(w, "pnl", "cover") \/ At(w, "cover", "announce") \/ At(w, "announce", "publish")
    BY <1>5, Zenon DEF RecordPnL, AddPnL, Cover, Announce, storeVars
  <2>2. /\ pc[w] # "idle" /\ pc'[w] \in {"cover", "announce", "publish"}
        /\ pc'[w] = "cover" => pc[w] = "pnl"
        /\ \A v \in HedgeWorker \ {w} : pc'[v] = pc[v]
    BY <1>0, <2>1, Zenon DEF At, HedgeTypes
  <2> QED
    BY <2>1, <2>2, SameBooks, CalmStep, Zenon
<1>6. CASE Publish(w)
  <2>1. Finish(w, "publish") /\ UNCHANGED <<hedges, samples, trades>>
    BY <1>6, Zenon DEF Publish, storeVars
  <2>2. pc'[w] = "idle" /\ \A v \in HedgeWorker \ {w} : pc'[v] = pc[v] /\ job'[v] = job[v]
    BY <1>0, <2>1, MovesOut, Zenon DEF Moves
  <2> QED
    BY <2>1, <2>2, SameBooks, CalmStep, Zenon
<1> QED
  BY <1>1, <1>2, <1>3, <1>4, <1>5, <1>6, Zenon

(* The provider reports new trades after at most one that is recognised.   *)
LEMMA ExecuteTrades ==
  ASSUME Recognised, HedgeBasic, TradesApart, NEW w \in HedgeWorker, Execute(w)
  PROVE  TradesApart'
<1>1. HedgeTypes /\ trades \in Nat
  BY Zenon DEF HedgeBasic, HedgeTypes, StoreTypeOK
<1>2. /\ Moves(w, "execute", "fills") /\ SameRequest(w) /\ job'[w].executed = job[w].executed
      /\ \E again, new \in Seq(Fill) :
           /\ Reported(w, again, new) /\ trades' = trades + Len(new)
           /\ job'[w].todo = again \o new /\ job'[w].h.fills = again \o new
  BY <1>1, ExecuteMoves, Zenon
<1>3. PICK again \in Seq(Fill), new \in Seq(Fill) :
        /\ Reported(w, again, new) /\ trades' = trades + Len(new)
        /\ job'[w].todo = again \o new /\ job'[w].h.fills = again \o new
  BY <1>2, Zenon
<1>4. UNCHANGED <<hedges, samples>>
  BY Zenon DEF Execute, storeVars
<1>5. Booked' = Booked /\ Stored' = Stored /\ Sampled' = Sampled
  BY <1>4, SameBooks, Zenon DEF Sampled, TradesOf
<1>6. /\ pc[w] = "execute" /\ pc'[w] = "fills"
      /\ \A v \in HedgeWorker \ {w} : pc'[v] = pc[v] /\ job'[v] = job[v]
  BY <1>2, Zenon DEF Moves
<1>7. job[w].h \in Hedge /\ job[w].executed = 0 /\ job[w].h.notional \in Int
  <2>1. Owns(w)
    BY <1>6, Zenon DEF Owns, Running
  <2> QED
    BY <1>6, <2>1, OwnId, HedgeFields, Zenon DEF WorkerData
<1>8. /\ \A i \in 1 .. Len(new) : new[i].trade = trades + i /\ new[i].venue = Venue
      /\ AddUpTo(new, job[w].h.notional) /\ Len(new) \in Nat /\ DOMAIN new = 1 .. Len(new)
      /\ again = <<>> \/ \E f \in Repeatable : again = <<f>>
  BY <1>3 DEF Reported
<1>9. Booked \subseteq 1 .. trades /\ Sampled \subseteq 1 .. trades /\ BooksRight
  BY Zenon DEF TradesApart, BooksRight
<1>10. TradesOf(new) \subseteq 1 .. trades' /\ TradesOf(new) \cap 1 .. trades = {} /\ OfVenue(new)
  <2>1. ASSUME NEW t \in TradesOf(new) PROVE t \in 1 .. trades' /\ t \notin 1 .. trades
    <3>1. PICK i \in 1 .. Len(new) : t = trades + i
      BY <1>8, Zenon DEF TradesOf
    <3>2. trades \in Nat /\ trades' = trades + Len(new) /\ Len(new) \in Nat
      BY <1>1, <1>3, <1>8, Zenon
    <3> QED
      BY <3>1, <3>2
  <2>2. OfVenue(new)
    BY <1>8, Zenon DEF OfVenue
  <2> QED
    BY <2>1, <2>2, Zenon
<1>11. Distinct(new)
  BY <1>1, <1>8 DEF Distinct
<1>12. New(new)'
  <2>1. TradesOf(new) \cap (Booked' \cup Sampled') = {}
    BY <1>5, <1>9, <1>10, Zenon
  <2> QED
    BY <1>11, <2>1, Zenon DEF New
<1>13. trades' \in Nat /\ trades <= trades' /\ 1 .. trades \subseteq 1 .. trades'
  BY <1>1, <1>3, <1>8
<1>14. BooksRight' /\ Adds(w)
  <2>1. Distinct(samples)' /\ \A id \in Stored' : OfVenue(hedges[id].fills)'
    BY <1>4, <1>5, <1>9, Zenon DEF BooksRight, Distinct, OfVenue
  <2> QED
    BY <1>5, <1>9, <1>13, <2>1, Zenon DEF BooksRight, Adds
<1>15. CASE again = <<>>
  <2>1. job'[w].todo = new /\ job'[w].h.fills = new
    BY <1>3, <1>15
  <2>2. Due(w)' = new
    BY <1>6, <2>1, Zenon DEF Due
  <2>3. job'[w].h.notional - job'[w].executed = job[w].h.notional
    BY <1>2, <1>7 DEF SameRequest
  <2>4. DueNew(w)'
    BY <1>8, <1>12, <2>2, <2>3, Zenon DEF DueNew, New
  <2>5. TradesOf(job[w].h.fills)' = TradesOf(new) /\ TradesOf(Due(w))' = TradesOf(new)
    BY <2>1, <2>2, Zenon DEF TradesOf
  <2>6. FillsRight(w)'
    BY <1>6, <1>10, <2>1, <2>4, <2>5, Zenon DEF FillsRight, Filling, OfVenue
  <2>7. \A v \in HedgeWorker \ {w} : pc[v] \in Filling =>
          TradesOf(job[w].h.fills)' \cap TradesOf(job[v].h.fills) \subseteq Booked'
    <3>1. \A v \in HedgeWorker : pc[v] \in Filling => TradesOf(job[v].h.fills) \subseteq 1 .. trades
      BY Zenon DEF TradesApart, FillsRight, Filling
    <3> QED
      BY <1>10, <2>5, <3>1, Zenon
  <2> QED
    BY <1>6, <1>13, <1>14, <2>6, <2>7, TradesFrame, Zenon
<1>16. CASE again # <<>>
  <2>1. PICK f \in Repeatable : again = <<f>>
    BY <1>8, <1>16, ZenonT(30)
  <2>2. f.trade \in Booked /\ f.venue = Venue /\ Venue # NoVenue
    <3>1. Replays = "stored" /\ Venue # NoVenue
      BY Zenon DEF Recognised, Repeatable
    <3>2. PICK id \in Stored : f \in Range(hedges[id].fills)
      BY <3>1, Zenon DEF Repeatable
    <3>3. PICK i \in DOMAIN hedges[id].fills : f = hedges[id].fills[i]
      BY <3>2, Zenon DEF Range
    <3> QED
      BY <1>9, <3>1, <3>3 DEF BooksRight, OfVenue, Booked, TradesOf
  <2>3. PICK s \in Seq(Fill) : s = again \o new /\ s = job'[w].todo /\ s = job'[w].h.fills
    <3>1. again \o new \in Seq(Fill)
      OBVIOUS
    <3> QED
      BY <1>3, <3>1, Zenon
  <2>4. /\ s # <<>> /\ Head(s) = f /\ Tail(s) = new
        /\ DOMAIN s = 1 .. Len(new) + 1
        /\ s[1] = f /\ \A i \in 1 .. Len(new) : s[i + 1] = new[i]
    BY <1>8, <2>1, <2>3
  <2>5. TradesOf(s) = {f.trade} \cup TradesOf(new) /\ OfVenue(s)
    <3>1. \A i \in DOMAIN s : i = 1 \/ (i - 1 \in 1 .. Len(new) /\ s[i] = new[i - 1])
      BY <1>8, <2>4
    <3>2. \A i \in DOMAIN new : i + 1 \in DOMAIN s /\ s[i + 1] = new[i]
      BY <1>8, <2>4, SMTT(30)
    <3>3. ASSUME NEW t PROVE t \in TradesOf(s) <=> t \in {f.trade} \cup TradesOf(new)
      <4>1. ASSUME t \in TradesOf(s) PROVE t \in {f.trade} \cup TradesOf(new)
        BY <1>8, <2>4, <3>1, <4>1, SMTT(30) DEF TradesOf
      <4>2. ASSUME t \in TradesOf(new) PROVE t \in TradesOf(s)
        BY <3>2, <4>2, Zenon DEF TradesOf
      <4>3. f.trade \in TradesOf(s)
        <5>1. 1 \in DOMAIN s
          BY <1>8, <2>4, SMTT(30)
        <5> QED
          BY <2>4, <5>1, Zenon DEF TradesOf
      <4> QED
        BY <4>1, <4>2, <4>3, Zenon
    <3>4. OfVenue(s)
      BY <1>8, <2>2, <2>4, <3>1 DEF OfVenue
    <3> QED
      BY <3>3, <3>4, Zenon
  <2>6. Due(w)' = s
    BY <1>6, <2>3, Zenon DEF Due
  <2>7. job'[w].h.notional = job[w].h.notional /\ job'[w].executed = 0
    BY <1>2, <1>7, Zenon DEF SameRequest
  <2>8. DueAgain(w)'
    BY <1>5, <1>8, <1>12, <2>2, <2>4, <2>6, <2>7, ZenonT(30) DEF DueAgain, New
  <2>9. TradesOf(job[w].h.fills)' = TradesOf(s) /\ TradesOf(Due(w))' = TradesOf(s)
    BY <2>3, <2>6, Zenon DEF TradesOf
  <2>10. TradesOf(s) \subseteq 1 .. trades'
    BY <1>9, <1>10, <1>13, <2>2, <2>5, Zenon
  <2>11. FillsRight(w)'
    BY <1>6, <2>3, <2>5, <2>8, <2>9, <2>10, Zenon DEF FillsRight, Filling, OfVenue
  <2>12. \A v \in HedgeWorker \ {w} : pc[v] \in Filling =>
           TradesOf(job[w].h.fills)' \cap TradesOf(job[v].h.fills) \subseteq Booked'
    <3>1. \A v \in HedgeWorker : pc[v] \in Filling => TradesOf(job[v].h.fills) \subseteq 1 .. trades
      BY Zenon DEF TradesApart, FillsRight, Filling
    <3> QED
      BY <1>5, <1>10, <2>2, <2>5, <2>9, <3>1, Zenon
  <2> QED
    BY <1>6, <1>13, <1>14, <2>11, <2>12, TradesFrame, Zenon
<1> QED
  BY <1>15, <1>16, Zenon

(* A fill is looked up: a repeated one is skipped, a new one is not. *)
LEMMA NextFillTrades ==
  ASSUME HedgeBasic, TradesApart, NEW w \in HedgeWorker, NextFill(w)
  PROVE  TradesApart'
<1>1. HedgeTypes
  BY Zenon DEF HedgeBasic
<1>2. UNCHANGED <<hedges, samples, trades>>
  BY Zenon DEF NextFill, storeVars
<1>3. Booked' = Booked /\ Sampled' = Sampled
  BY <1>2, SameBooks, Zenon DEF Sampled, TradesOf
<1>4. BooksRight' /\ Adds(w) /\ BooksRight
  BY <1>2, <1>3, BooksKept, Zenon DEF TradesApart
<1>5. PICK next \in {"update", "sample", "fills"} :
        Moves(w, "fills", next) /\ SameRequest(w) /\ job'[w].h = job[w].h
        /\ job'[w].executed = job[w].executed
  BY <1>1, NextFillMoves, Zenon DEF SameFills
<1>6. /\ pc[w] = "fills" /\ pc'[w] = next
      /\ \A v \in HedgeWorker \ {w} : pc'[v] = pc[v] /\ job'[v] = job[v]
  BY <1>5, Zenon DEF Moves
<1>7. pc[w] \in Filling /\ FillsRight(w)
  BY <1>6, Zenon DEF Filling, TradesApart
<1>8. PICK s \in Seq(Fill) : s = job[w].todo /\ s = Due(w)
  BY <1>6, <1>7, DueType, Zenon DEF Due
<1>9. /\ DueNew(w) \/ DueAgain(w)
      /\ TradesOf(s) \subseteq TradesOf(job[w].h.fills)
      /\ TradesOf(job[w].h.fills) \subseteq 1 .. trades /\ OfVenue(job[w].h.fills)
  BY <1>6, <1>7, <1>8, Zenon DEF FillsRight
<1>10. \A r : New(r)' <=> New(r)
  BY <1>3, Zenon DEF New
<1>11. TradesOf(job[w].h.fills)' = TradesOf(job[w].h.fills) /\ OfVenue(job[w].h.fills)'
  BY <1>5, <1>9, Zenon DEF TradesOf, OfVenue
<1>12. job[w].h.notional \in Int /\ job[w].executed \in Int
  BY <1>7, DueType, HedgeFields, JobFields, Zenon
<1>13. \/ job'[w].todo = s /\ next = "update" /\ s = <<>>
       \/ job'[w].todo = s /\ next = "sample" /\ s # <<>> /\ ~ HasFill(Head(s))
       \/ job'[w].todo = Tail(s) /\ next = "fills" /\ s # <<>> /\ HasFill(Head(s))
  BY <1>1, <1>6, <1>8, NextFillMoves, ZenonT(30) DEF SameFills, Moves
<1>14. DueNew(w)' /\ (TradesOf(Due(w)) \subseteq TradesOf(job[w].h.fills))'
       /\ (next = "update" => job'[w].todo = <<>>)
  <2>1. CASE job'[w].todo = s /\ next # "fills"
    <3>1. DueNew(w)
      BY <1>4, <1>8, <1>9, <1>13, <2>1, HasFillBooked, Zenon DEF DueAgain
    <3>2. Due(w)' = s
      BY <1>6, <2>1, Zenon DEF Due
    <3>3. DueNew(w)'
      <4>1. New(s) /\ AddUpTo(s, job[w].h.notional - job[w].executed)
        BY <1>8, <3>1, Zenon DEF DueNew
      <4>2. job'[w].h.notional - job'[w].executed = job[w].h.notional - job[w].executed
        BY <1>5, Zenon
      <4> QED
        BY <1>10, <3>2, <4>1, <4>2, Zenon DEF DueNew, New
    <3>4. TradesOf(Due(w))' = TradesOf(s)
      BY <3>2, Zenon DEF TradesOf
    <3> QED
      BY <1>9, <1>11, <1>13, <2>1, <3>3, <3>4, Zenon
  <2>2. CASE job'[w].todo = Tail(s) /\ s # <<>> /\ HasFill(Head(s)) /\ next = "fills"
    <3>1. Head(s).trade \in Booked
      BY <1>4, <2>2, HasFillBooked, Zenon
    <3>2. Head(s).trade \in TradesOf(s) /\ TradesOf(Tail(s)) \subseteq TradesOf(s)
      BY <2>2, TailTrades, Zenon
    <3>3. DueAgain(w)
      BY <1>8, <1>9, <3>1, <3>2, Zenon DEF DueNew, New
    <3>4. PICK r : r = Tail(s)
      BY Zenon
    <3>5. New(r) /\ AddUpTo(r, job[w].h.notional) /\ job[w].executed = 0
      BY <1>8, <3>3, <3>4, Zenon DEF DueAgain
    <3>6. Due(w)' = r
      BY <1>6, <2>2, <3>4, Zenon DEF Due
    <3>7. job'[w].h.notional - job'[w].executed = job[w].h.notional
      BY <1>5, <1>12, <3>5
    <3>8. DueNew(w)'
      BY <1>10, <3>5, <3>6, <3>7, Zenon DEF DueNew, New
    <3>9. TradesOf(Due(w))' = TradesOf(r)
      BY <3>6, Zenon DEF TradesOf
    <3> QED
      BY <1>9, <1>11, <2>2, <3>2, <3>4, <3>8, <3>9, Zenon
  <2> QED
    BY <1>13, <2>1, <2>2, Zenon
<1>15. FillsRight(w)'
  BY <1>2, <1>6, <1>9, <1>11, <1>14, Zenon DEF FillsRight, Filling
<1>16. \A v \in HedgeWorker \ {w} : pc[v] \in Filling =>
         TradesOf(job[w].h.fills)' \cap TradesOf(job[v].h.fills) \subseteq Booked'
  BY <1>3, <1>7, <1>11, Zenon DEF TradesApart, FillsApart
<1>17. trades' \in Nat /\ trades <= trades'
  BY <1>1, <1>2 DEF HedgeTypes, StoreTypeOK
<1> QED
  BY <1>4, <1>6, <1>15, <1>16, <1>17, TradesFrame, Zenon

(* A new fill gets its one sample. *)
LEMMA SampleTrades ==
  ASSUME HedgeBasic, TradesApart, NEW w \in HedgeWorker, RecordSample(w)
  PROVE  TradesApart'
<1>1. HedgeTypes /\ samples \in Seq(Sample) /\ trades \in Nat
  BY Zenon DEF HedgeBasic, HedgeTypes, StoreTypeOK
<1>2. pc[w] = "sample"
  BY Zenon DEF RecordSample, At
<1>3. job[w].todo # <<>> /\ job[w].h.quotedRate > 0
  BY <1>2, Zenon DEF HedgeBasic, HedgeData, WorkerData, Running
<1>4. /\ Moves(w, "sample", "feed") /\ SameRequest(w)
      /\ job'[w].h.fills = job[w].h.fills /\ job'[w].todo = job[w].todo
      /\ job'[w].executed = job[w].executed + Head(job[w].todo).amount
      /\ \E s \in Sample : s.trade = Head(job[w].todo).trade /\ samples' = Append(samples, s)
  BY <1>1, <1>3, SampleMoves, Zenon
<1>5. UNCHANGED <<hedges, trades>>
  BY Zenon DEF RecordSample, AddSlippageSample
<1>6. Booked' = Booked /\ Stored' = Stored
  BY <1>5, SameBooks, Zenon
<1>7. pc[w] \in Filling /\ FillsRight(w) /\ BooksRight
  BY <1>2, Zenon DEF Filling, TradesApart
<1>8. PICK s \in Seq(Fill) : s = job[w].todo /\ s = Due(w) /\ s # <<>>
  BY <1>2, <1>3, <1>7, DueType, Zenon DEF Due
<1>9. /\ New(s) /\ AddUpTo(s, job[w].h.notional - job[w].executed)
      /\ TradesOf(s) \subseteq TradesOf(job[w].h.fills)
      /\ TradesOf(job[w].h.fills) \subseteq 1 .. trades /\ OfVenue(job[w].h.fills)
  BY <1>2, <1>7, <1>8, Zenon DEF FillsRight, DueNew
<1>10. PICK t, r : t = Head(s).trade /\ r = Tail(s)
  BY Zenon
<1>11. /\ t \in TradesOf(s) /\ TradesOf(r) \subseteq TradesOf(s)
       /\ Distinct(r) /\ t \notin TradesOf(r)
       /\ \A n \in Int : AddUpTo(s, n) => AddUpTo(r, n - Head(s).amount)
  BY <1>8, <1>9, <1>10, TailTrades, Zenon DEF New
<1>12. PICK x \in Sample : x.trade = t /\ samples' = Append(samples, x)
  BY <1>4, <1>8, <1>10, Zenon
<1>13. /\ DOMAIN samples' = DOMAIN samples \cup {Len(samples) + 1}
       /\ \A i \in DOMAIN samples : samples'[i] = samples[i]
       /\ samples'[Len(samples) + 1] = x
  BY <1>1, <1>12, SampleAdded
<1>14. Sampled' = Sampled \cup {t}
  <2>1. ASSUME NEW u PROVE u \in Sampled' <=> u \in Sampled \cup {t}
    <3>1. u \in Sampled' <=> \E i \in DOMAIN samples' : u = samples'[i].trade
      BY Zenon DEF Sampled, TradesOf
    <3>2. u \in Sampled <=> \E i \in DOMAIN samples : u = samples[i].trade
      BY Zenon DEF Sampled, TradesOf
    <3> QED
      BY <1>12, <1>13, <3>1, <3>2, Zenon
  <2> QED
    BY <2>1, Zenon
<1>15. t \notin Sampled
  BY <1>9, <1>11, Zenon DEF New
<1>16. Distinct(samples)'
  <2>1. Distinct(samples) /\ \A i \in DOMAIN samples : samples[i].trade # t
    BY <1>7, <1>15, Zenon DEF BooksRight, Sampled, TradesOf
  <2> QED
    BY <1>12, <1>13, <2>1 DEF Distinct
<1>17. BooksRight'
  <2>1. \A id \in Stored' : OfVenue(hedges[id].fills)'
    BY <1>5, <1>6, <1>7, Zenon DEF BooksRight, OfVenue
  <2> QED
    BY <1>5, <1>6, <1>7, <1>9, <1>11, <1>14, <1>16, <2>1, Zenon DEF BooksRight
<1>18. Adds(w)
  BY <1>6, <1>7, <1>9, <1>11, <1>14, Zenon DEF Adds
<1>19. /\ pc'[w] = "feed"
       /\ \A v \in HedgeWorker \ {w} : pc'[v] = pc[v] /\ job'[v] = job[v]
  BY <1>4, Zenon DEF Moves
<1>20. Due(w)' = r
  BY <1>4, <1>8, <1>10, <1>19, Zenon DEF Due
<1>21. New(r)'
  BY <1>6, <1>9, <1>11, <1>14, Zenon DEF New
<1>22. job[w].h.notional \in Int /\ job[w].executed \in Int /\ Head(s).amount \in Int
  BY <1>7, <1>8, DueType, HedgeFields, JobFields, TailFacts, FillFields, ZenonT(30)
<1>23. AddUpTo(r, job'[w].h.notional - job'[w].executed)
  <2>1. job'[w].h.notional - job'[w].executed = (job[w].h.notional - job[w].executed) - Head(s).amount
    BY <1>4, <1>8, <1>22, SMTT(30) DEF SameRequest
  <2>2. job[w].h.notional - job[w].executed \in Int
    BY <1>22
  <2> QED
    BY <1>9, <1>11, <2>1, <2>2, ZenonT(30)
<1>24. DueNew(w)'
  BY <1>20, <1>21, <1>23, Zenon DEF DueNew, New
<1>25. /\ TradesOf(job[w].h.fills)' = TradesOf(job[w].h.fills) /\ OfVenue(job[w].h.fills)'
       /\ TradesOf(Due(w))' = TradesOf(r)
  BY <1>4, <1>9, <1>20, Zenon DEF TradesOf, OfVenue
<1>26. FillsRight(w)'
  BY <1>5, <1>9, <1>11, <1>19, <1>24, <1>25, Zenon DEF FillsRight, Filling
<1>27. \A v \in HedgeWorker \ {w} : pc[v] \in Filling =>
         TradesOf(job[w].h.fills)' \cap TradesOf(job[v].h.fills) \subseteq Booked'
  BY <1>6, <1>7, <1>25, Zenon DEF TradesApart, FillsApart
<1>28. trades' \in Nat /\ trades <= trades'
  BY <1>1, <1>5
<1> QED
  BY <1>17, <1>18, <1>19, <1>26, <1>27, <1>28, TradesFrame, Zenon

(* The cache has been fed: the fill is off the list. *)
LEMMA FeedTrades ==
  ASSUME HedgeBasic, TradesApart, NEW w \in HedgeWorker, FeedCache(w)
  PROVE  TradesApart'
<1>1. HedgeTypes
  BY DEF HedgeBasic
<1>2. pc[w] = "feed"
  BY Zenon DEF FeedCache, At
<1>3. job[w].todo # <<>>
  BY <1>2, Zenon DEF HedgeBasic, HedgeData, WorkerData
<1>4. /\ Moves(w, "feed", "fills") /\ job'[w].h = job[w].h
      /\ job'[w].todo = Tail(job[w].todo) /\ job'[w].executed = job[w].executed
  BY <1>1, <1>3, FeedMoves, Zenon
<1>5. UNCHANGED <<hedges, samples, trades>>
  BY Zenon DEF FeedCache, storeVars
<1>6. Booked' = Booked /\ Sampled' = Sampled
  BY <1>5, SameBooks DEF Sampled, TradesOf
<1>7. BooksRight' /\ Adds(w)
  BY <1>5, <1>6, BooksKept, Zenon DEF TradesApart
<1>8. /\ pc'[w] = "fills"
      /\ \A v \in HedgeWorker \ {w} : pc'[v] = pc[v] /\ job'[v] = job[v]
  BY <1>4, Zenon DEF Moves
<1>9. pc[w] \in Filling /\ FillsRight(w)
  BY <1>2, Zenon DEF Filling, TradesApart
<1>10. PICK s : s = Due(w) /\ s = Due(w)'
  BY <1>2, <1>4, <1>8, Zenon DEF Due
<1>11. New(s) /\ AddUpTo(s, job[w].h.notional - job[w].executed)
  BY <1>2, <1>9, <1>10, Zenon DEF FillsRight, DueNew
<1>12. DueNew(w)'
  <2>1. New(s)'
    BY <1>6, <1>11, Zenon DEF New
  <2> QED
    BY <1>4, <1>10, <1>11, <2>1, Zenon DEF DueNew, New
<1>13. /\ TradesOf(job[w].h.fills)' = TradesOf(job[w].h.fills)
       /\ TradesOf(Due(w))' = TradesOf(Due(w))
       /\ OfVenue(job[w].h.fills)' <=> OfVenue(job[w].h.fills)
  BY <1>4, <1>10, Zenon DEF TradesOf, OfVenue
<1>14. FillsRight(w)'
  BY <1>5, <1>2, <1>8, <1>9, <1>12, <1>13, Zenon DEF FillsRight, Filling
<1>15. \A v \in HedgeWorker \ {w} : pc[v] \in Filling =>
         TradesOf(job[w].h.fills)' \cap TradesOf(job[v].h.fills) \subseteq Booked'
  BY <1>6, <1>9, <1>13, Zenon DEF TradesApart, FillsApart
<1>16. trades' \in Nat /\ trades <= trades'
  BY <1>1, <1>5 DEF HedgeTypes, StoreTypeOK
<1> QED
  BY <1>7, <1>8, <1>14, <1>15, <1>16, TradesFrame, Zenon

(* The fills of a hedge are booked when UpdateHedge marks it EXECUTED; its *)
(* handler has then counted the whole notional.                            *)
LEMMA MarkTrades ==
  ASSUME HedgeBasic, TradesApart, NEW w \in HedgeWorker, MarkExecuted(w)
  PROVE  TradesApart'
<1>1. HedgeTypes /\ StoreTypeOK
  BY Zenon DEF HedgeBasic, HedgeTypes
<1>2. PICK id \in HedgeId, h \in Hedge :
        /\ Put(w, id, h) /\ hedges[id] \in Hedge /\ Unfilled(hedges[id])
        /\ h = [job[w].h EXCEPT !.status = "EXECUTED"]
  <2>1. ~ ExecuteFails(w)
    BY Zenon DEF MarkExecuted, ExecuteFails, Finish, At
  <2> QED
    BY <2>1, UpdateSteps, Zenon
<1>3. UNCHANGED <<samples, trades, job>> /\ At(w, "update", "pnl")
  BY Zenon DEF MarkExecuted, UpdateHedge
<1>4. /\ pc[w] = "update" /\ pc'[w] = "pnl"
      /\ \A v \in HedgeWorker \ {w} : pc'[v] = pc[v] /\ job'[v] = job[v]
  BY <1>1, <1>3, Zenon DEF At, HedgeTypes
<1>5. pc[w] \in Filling /\ FillsRight(w) /\ BooksRight
  BY <1>4, Zenon DEF Filling, TradesApart
<1>6. h.fills = job[w].h.fills
  BY <1>2, <1>5, DueType, Zenon DEF Hedge
<1>7. Booked' = Booked \cup TradesOf(job[w].h.fills)
  BY <1>1, <1>2, <1>6, PutBooks, Zenon DEF Unfilled
<1>8. Sampled' = Sampled /\ (Distinct(samples)' <=> Distinct(samples))
  BY <1>3, Zenon DEF Sampled, TradesOf, Distinct
<1>9. Adds(w)
  BY <1>5, <1>7, <1>8, Zenon DEF Adds
<1>10. TradesOf(job[w].h.fills) \subseteq 1 .. trades /\ OfVenue(job[w].h.fills)
  BY <1>4, <1>5, Zenon DEF FillsRight
<1>11. ASSUME NEW i \in Stored' PROVE OfVenue(hedges[i].fills)'
  <2>1. /\ hedges'[id] = h /\ \A j \in HedgeId \ {id} : hedges'[j] = hedges[j]
        /\ Stored' = Stored \cup {id}
    BY <1>1, <1>2, PutStored
  <2>2. CASE i = id
    BY <1>6, <1>10, <2>1, <2>2, Zenon DEF OfVenue
  <2>3. CASE i # id
    <3>1. i \in Stored /\ hedges'[i] = hedges[i]
      BY <2>1, <2>3, Zenon DEF Stored
    <3> QED
      BY <1>5, <3>1, Zenon DEF BooksRight, OfVenue
  <2> QED
    BY <2>2, <2>3, Zenon
<1>12. BooksRight'
  BY <1>3, <1>5, <1>7, <1>8, <1>10, <1>11, Zenon DEF BooksRight
<1>13. job[w].executed = job[w].h.notional
  <2>1. job[w].todo = <<>> /\ DueNew(w)
    BY <1>4, <1>5, Zenon DEF FillsRight
  <2>2. Due(w) = <<>>
    BY <1>4, <2>1, Zenon DEF Due
  <2>3. AddUpTo(<<>>, job[w].h.notional - job[w].executed)
    BY <2>1, <2>2, Zenon DEF DueNew
  <2>4. job[w].h.notional - job[w].executed = 0
    BY <2>3 DEF AddUpTo
  <2>5. job[w].h.notional \in Int /\ job[w].executed \in Int
    BY <1>5, DueType, HedgeFields, JobFields, Zenon
  <2> QED
    BY <2>4, <2>5
<1>14. FillsRight(w)'
  BY <1>3, <1>4, <1>10, <1>13, Zenon DEF FillsRight, Filling, TradesOf, OfVenue
<1>15. trades' \in Nat /\ trades <= trades' /\ pc'[w] \notin Filling
  BY <1>1, <1>3, <1>4 DEF StoreTypeOK, Filling
<1> QED
  BY <1>4, <1>9, <1>12, <1>14, <1>15, TradesFrame, Zenon

(* Every step keeps the trades apart. *)
LEMMA TradesStep ==
  Recognised /\ HedgeBasic /\ TradesApart /\ [HedgeNext]_apiVars => TradesApart'
<1> SUFFICES ASSUME Recognised, HedgeBasic, TradesApart, [HedgeNext]_apiVars
             PROVE  TradesApart'
  BY Zenon
<1>1. CASE FlowArrives \/ UNCHANGED apiVars
  <2>1. UNCHANGED <<hedges, samples, trades, pc, job>>
    BY <1>1, Zenon DEF FlowArrives, apiVars, storeVars, handlerVars
  <2>2. Booked' = Booked /\ Stored' = Stored
    BY <2>1, SameBooks, Zenon
  <2>3. BooksRight' /\ \A w : Adds(w)
    BY <2>1, <2>2, BooksKept, ZenonT(30) DEF TradesApart
  <2>4. ASSUME NEW w \in HedgeWorker PROVE FillsRight(w)'
    <3>1. FillsRight(w) /\ pc'[w] = pc[w] /\ job'[w] = job[w] /\ trades' = trades
      BY <2>1, Zenon DEF TradesApart
    <3>2. /\ TradesOf(job[w].h.fills)' = TradesOf(job[w].h.fills)
          /\ OfVenue(job[w].h.fills)' <=> OfVenue(job[w].h.fills)
      BY <3>1, Zenon DEF TradesOf, OfVenue
    <3>3. PICK s, r : s = Due(w) /\ r = Tail(s)
      BY Zenon
    <3>4. s = Due(w)'
      BY <3>1, <3>3, Zenon DEF Due
    <3>5. Sampled' = Sampled
      BY <2>1, Zenon DEF Sampled, TradesOf
    <3>6. (New(s)' <=> New(s)) /\ (New(r)' <=> New(r))
      BY <2>2, <3>5, Zenon DEF New
    <3>7. DueNew(w)' <=> DueNew(w)
      <4>1. DueNew(w) <=> New(s) /\ AddUpTo(s, job[w].h.notional - job[w].executed)
        BY <3>3, Zenon DEF DueNew
      <4>2. DueNew(w)' <=> New(s)' /\ AddUpTo(s, job[w].h.notional - job[w].executed)
        BY <3>1, <3>4, Zenon DEF DueNew, New
      <4> QED
        BY <3>6, <4>1, <4>2, Zenon
    <3>8. DueAgain(w)' <=> DueAgain(w)
      <4>1. DueAgain(w) <=>
              /\ s # <<>> /\ Head(s).trade \in Booked /\ Head(s).venue = Venue /\ Venue # NoVenue
              /\ New(r) /\ AddUpTo(r, job[w].h.notional) /\ job[w].executed = 0
        BY <3>3, Zenon DEF DueAgain
      <4>2. DueAgain(w)' <=>
              /\ s # <<>> /\ Head(s).trade \in Booked' /\ Head(s).venue = Venue /\ Venue # NoVenue
              /\ New(r)' /\ AddUpTo(r, job[w].h.notional) /\ job[w].executed = 0
        BY <3>1, <3>3, <3>4, Zenon DEF DueAgain, New
      <4> QED
        BY <2>2, <3>6, <4>1, <4>2, Zenon
    <3>9. TradesOf(Due(w))' = TradesOf(Due(w))
      BY <3>3, <3>4, Zenon DEF TradesOf
    <3> QED
      BY <3>1, <3>2, <3>7, <3>8, <3>9, Zenon DEF FillsRight
  <2>5. FillsApart'
    <3>1. \A v \in HedgeWorker : TradesOf(job[v].h.fills)' = TradesOf(job[v].h.fills)
      BY <2>1, Zenon DEF TradesOf
    <3> QED
      BY <2>1, <2>2, <3>1, Zenon DEF TradesApart, FillsApart
  <2> QED
    BY <2>3, <2>4, <2>5, Zenon DEF TradesApart
<1>2. ASSUME NEW w \in HedgeWorker, ReceiveHedge(w) \/ HandlerStep(w) PROVE TradesApart'
  BY <1>2, CalmSteps, ExecuteTrades, NextFillTrades, SampleTrades, FeedTrades, MarkTrades, Zenon
     DEF HandlerStep
<1> QED
  BY <1>1, <1>2, Zenon DEF HedgeNext

(* Before the first request nothing was traded. *)
LEMMA TradesStart == HedgeInit => TradesApart
<1> SUFFICES ASSUME HedgeInit PROVE TradesApart
  BY Zenon
<1>1. /\ hedges = [id \in HedgeId |-> NoHedge] /\ samples = <<>>
      /\ \A w \in HedgeWorker : pc[w] = "idle"
  BY Zenon DEF HedgeInit, StoreInit
<1>2. Stored = {}
  BY <1>1, Zenon DEF Stored
<1>3. Booked = {} /\ Sampled = {} /\ Distinct(samples)
  BY <1>1, <1>2 DEF Booked, Sampled, TradesOf, Distinct
<1> QED
  BY <1>1, <1>2, <1>3, Zenon DEF TradesApart, FillsRight, BooksRight, FillsApart, Filling
=============================================================================
