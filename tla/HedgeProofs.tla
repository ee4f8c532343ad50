---------------------------- MODULE HedgeProofs -----------------------------
(***************************************************************************)
(* What POST /v1/hedges keeps, for any number of workers, hedges, venues   *)
(* and currencies: one hedge per request id, the P&L of the rows and of    *)
(* the hedges, one sample per trade, and the coverage of the tracker.      *)
(***************************************************************************)
EXTENDS RecordProofs, TradeProofs, Sums

(* As CreateHedge is documented, for any number of handlers: when a client *)
(* does not repeat a request while it is being served, submissions with    *)
(* one request id make one hedge, and every answer to them is that hedge.  *)
THEOREM OneHedgeForOneRequest == ASSUME ~ Overlaps PROVE HedgeSpec => []OneHedgePerRequest
<1>1. HedgeInit => HedgeBasic /\ RequestsExact
  <2>1. HedgeInit => RequestsExact
    BY ZenonT(30) DEF HedgeInit, StoreInit, RequestsExact, RequestsApart, IndexExact, Stored, Early
  <2> QED
    BY <2>1, BasicStart, Zenon
<1>2. HedgeBasic /\ RequestsExact /\ [HedgeNext]_apiVars => (HedgeBasic /\ RequestsExact)'
  BY BasicStep, ExactStep, Zenon
<1>3. HedgeBasic /\ RequestsExact => OneHedgePerRequest
  <2> SUFFICES ASSUME HedgeBasic, RequestsExact, NEW r \in RequestId
               PROVE  Cardinality({id \in Stored : hedges[id].request = r}
                                    \cup {a[2] : a \in {b \in answers : b[1] = r}}) <= 1
    BY Zenon DEF OneHedgePerRequest
  <2> DEFINE S == {id \in Stored : hedges[id].request = r} \cup {a[2] : a \in {b \in answers : b[1] = r}}
  <2>1. S \subseteq {byReq[r]}
    BY Zenon DEF RequestsExact, IndexExact
  <2>2. IsFiniteSet({byReq[r]}) /\ Cardinality({byReq[r]}) = 1
    BY FS_Singleton, Zenon
  <2> HIDE DEF S
  <2>3. Cardinality(S) <= 1
    BY <2>1, <2>2, FS_Subset, Zenon
  <2> QED
    BY <2>3, Zenon DEF S
<1> QED
  BY <1>1, <1>2, <1>3, PTL DEF HedgeSpec

-----------------------------------------------------------------------------
(***************************************************************************)
(* The P&L rows.  The P&L and the slippage cost are summed in the same     *)
(* way: vf and rf say what a hedge and what a row counts for.              *)
(***************************************************************************)
RowsOf(c) == {i \in DOMAIN pnlRows : pnlRows[i].currency = c}
HedgeValues(c, vf) == [id \in HedgesByCurrency(c) |-> vf[hedges[id]]]
RowValues(c, rf) == [i \in RowsOf(c) |-> rf[pnlRows[i]]]
LateValues(c, vf) == [w \in Serving(c, {"pnl"}) |-> vf[job[w].h]]

Balanced(c, vf, rf) ==
  SumFunction(HedgeValues(c, vf)) = SumFunction(RowValues(c, rf)) + SumFunction(LateValues(c, vf))

(* The row CreateHedge persists for a hedge. *)
RowOf(h) == [currency |-> h.currency, realized |-> h.pnl,
             slippageCost |-> SlippageCost(h.slippageBPS, h.notional)]

(* A hedge without fills counts for nothing, the status does not count,    *)
(* and a row counts for as much as its hedge.                              *)
Counts(vf, rf) ==
  /\ vf \in [Hedge -> Int] /\ rf \in [PnLRow -> Int]
  /\ \A h \in Hedge : Unfilled(h) => vf[h] = 0
  /\ \A h \in Hedge : vf[[h EXCEPT !.status = "EXECUTED"]] = vf[h]
  /\ \A h \in Hedge : RowOf(h) \in PnLRow /\ rf[RowOf(h)] = vf[h]

(* The sums are sums of finitely many integers. *)
LEMMA ValueSums ==
  ASSUME HedgeTypes, NEW c, NEW vf, NEW rf, Counts(vf, rf)
  PROVE  /\ IsFiniteSet(DOMAIN HedgeValues(c, vf)) /\ IntOn(HedgeValues(c, vf), DOMAIN HedgeValues(c, vf))
         /\ IsFiniteSet(DOMAIN RowValues(c, rf)) /\ IntOn(RowValues(c, rf), DOMAIN RowValues(c, rf))
         /\ IsFiniteSet(DOMAIN LateValues(c, vf)) /\ IntOn(LateValues(c, vf), DOMAIN LateValues(c, vf))
         /\ SumFunction(HedgeValues(c, vf)) \in Int /\ SumFunction(RowValues(c, rf)) \in Int
         /\ SumFunction(LateValues(c, vf)) \in Int
<1>0. vf \in [Hedge -> Int] /\ rf \in [PnLRow -> Int] /\ pnlRows \in Seq(PnLRow)
  BY Zenon DEF Counts, HedgeTypes, StoreTypeOK
<1>1. /\ DOMAIN HedgeValues(c, vf) = HedgesByCurrency(c)
      /\ DOMAIN RowValues(c, rf) = RowsOf(c)
      /\ DOMAIN LateValues(c, vf) = Serving(c, {"pnl"})
  BY Zenon DEF HedgeValues, RowValues, LateValues
<1>2. /\ HedgesByCurrency(c) \subseteq HedgeId /\ Serving(c, {"pnl"}) \subseteq HedgeWorker
      /\ RowsOf(c) \subseteq 1 .. Len(pnlRows) /\ IsFiniteSet(1 .. Len(pnlRows))
  BY <1>0, FS_Interval DEF HedgesByCurrency, Stored, Serving, RowsOf
<1>3. /\ IsFiniteSet(DOMAIN HedgeValues(c, vf)) /\ IsFiniteSet(DOMAIN RowValues(c, rf))
      /\ IsFiniteSet(DOMAIN LateValues(c, vf))
  BY <1>1, <1>2, HedgeAssumption, StoreAssumption, FS_Subset, ZenonT(30)
<1>4. IntOn(HedgeValues(c, vf), DOMAIN HedgeValues(c, vf))
  <2>1. ASSUME NEW id \in HedgesByCurrency(c) PROVE vf[hedges[id]] \in Int
    BY <1>0, Zenon DEF HedgesByCurrency, Stored, HedgeTypes, StoreTypeOK
  <2> QED
    BY <1>1, <2>1, Zenon DEF IntOn, HedgeValues
<1>5. IntOn(RowValues(c, rf), DOMAIN RowValues(c, rf))
  <2>1. ASSUME NEW i \in RowsOf(c) PROVE rf[pnlRows[i]] \in Int
    BY <1>0 DEF RowsOf
  <2> QED
    BY <1>1, <2>1, Zenon DEF IntOn, RowValues
<1>6. IntOn(LateValues(c, vf), DOMAIN LateValues(c, vf))
  <2>1. ASSUME NEW w \in Serving(c, {"pnl"}) PROVE vf[job[w].h] \in Int
    BY <1>0, Serves, Zenon DEF Serving
  <2> QED
    BY <1>1, <2>1, Zenon DEF IntOn, LateValues
<1> QED
  BY <1>3, <1>4, <1>5, <1>6, SumType, ZenonT(30)

(* What a stored or updated hedge adds to the sum over the hedges. *)
LEMMA PutValues ==
  ASSUME HedgeTypes, NEW c, NEW vf, NEW rf, Counts(vf, rf),
         NEW w, NEW id \in HedgeId, NEW h \in Hedge, Put(w, id, h),
         \/ hedges[id] = NoHedge
         \/ hedges[id] \in Hedge /\ Unfilled(hedges[id]) /\ hedges[id].currency = h.currency
  PROVE  SumFunction(HedgeValues(c, vf))' =
           SumFunction(HedgeValues(c, vf)) + (IF c = h.currency THEN vf[h] ELSE 0)
<1>1. /\ hedges'[id] = h /\ \A i \in HedgeId \ {id} : hedges'[i] = hedges[i]
      /\ Stored' = Stored \cup {id}
  BY PutStored, Zenon DEF HedgeTypes
<1>2. PICK f, e : f = HedgeValues(c, vf) /\ e = HedgeValues(c, vf)'
  BY Zenon
<1>3. /\ DOMAIN f = HedgesByCurrency(c) /\ DOMAIN e = HedgesByCurrency(c)'
      /\ \A i \in DOMAIN f : f[i] = vf[hedges[i]]
      /\ \A i \in DOMAIN e : e[i] = vf[hedges'[i]]
  BY <1>2, Zenon DEF HedgeValues
<1>4. \A i \in HedgeId \ {id} : i \in HedgesByCurrency(c)' <=> i \in HedgesByCurrency(c)
  BY <1>1, Zenon DEF HedgesByCurrency, Stored
<1>5. HedgesByCurrency(c) \subseteq HedgeId /\ HedgesByCurrency(c)' \subseteq HedgeId
  BY <1>1, Zenon DEF HedgesByCurrency, Stored
<1>6. \A i \in (DOMAIN f \cap DOMAIN e) \ {id} : e[i] = f[i]
  BY <1>1, <1>3, <1>5, ZenonT(30)
<1>7. /\ IsFiniteSet(DOMAIN f) /\ IntOn(f, DOMAIN f) /\ SumFunction(f) \in Int
      /\ vf[h] \in Int
  BY <1>2, ValueSums, Zenon DEF Counts
<1>8. CASE c # h.currency
  <2>1. id \notin HedgesByCurrency(c) /\ id \notin HedgesByCurrency(c)'
    BY <1>1, <1>8, Zenon DEF HedgesByCurrency, Stored
  <2>2. DOMAIN e = DOMAIN f
    BY <1>3, <1>4, <1>5, <2>1, Zenon
  <2>3. \A i \in DOMAIN f : e[i] = f[i]
    BY <1>3, <1>6, <2>1, <2>2, Zenon
  <2>4. SumFunction(e) = SumFunction(f)
    BY <1>7, <2>2, <2>3, SumSame, Zenon
  <2> QED
    BY <1>2, <1>7, <1>8, <2>4, SMTT(30)
<1>9. CASE c = h.currency
  <2>1. id \in HedgesByCurrency(c)' /\ e[id] = vf[h]
    BY <1>1, <1>3, <1>9, Zenon DEF HedgesByCurrency
  <2>2. SumFunction(e) = SumFunction(f) + vf[h]
    <3>1. CASE hedges[id] = NoHedge
      <4>1. id \notin DOMAIN f /\ DOMAIN e = DOMAIN f \cup {id}
        BY <1>3, <1>4, <1>5, <2>1, <3>1, ZenonT(30) DEF HedgesByCurrency, Stored
      <4>2. \A i \in DOMAIN f : e[i] = f[i]
        BY <1>6, <4>1, Zenon
      <4> QED
        <5>1. e[id] \in Int
          BY <1>7, <2>1, Zenon
        <5>2. SumFunction(e) = SumFunction(f) + e[id]
          BY <1>7, <4>1, <4>2, <5>1, SumAdd, ZenonT(30)
        <5> QED
          BY <2>1, <5>2, Zenon
    <3>2. CASE hedges[id] \in Hedge /\ Unfilled(hedges[id]) /\ hedges[id].currency = h.currency
      <4>1. id \in HedgesByCurrency(c)
        BY <1>9, <3>2, HedgeFields, Zenon DEF HedgesByCurrency, Stored
      <4>2. DOMAIN e = DOMAIN f /\ id \in DOMAIN f
        BY <1>3, <1>4, <1>5, <2>1, <4>1, Zenon
      <4>3. \A i \in DOMAIN f \ {id} : e[i] = f[i]
        BY <1>6, <4>2, Zenon
      <4>4. f[id] = 0
        BY <1>3, <3>2, <4>2, Zenon DEF Counts
      <4>5. SumFunction(e) = SumFunction(f) - f[id] + e[id]
        BY <1>7, <2>1, <4>2, <4>3, SumChange, ZenonT(30)
      <4> QED
        BY <1>7, <2>1, <4>4, <4>5, SMTT(30)
    <3> QED
      BY <3>1, <3>2, Zenon
  <2> QED
    BY <1>2, <1>9, <2>2, Zenon
<1> QED
  BY <1>8, <1>9, Zenon

(* A step that is about neither the stored hedges nor the rows. *)
LEMMA BalancedFrame ==
  ASSUME NEW c, NEW vf, NEW rf, Balanced(c, vf, rf), UNCHANGED <<hedges, pnlRows>>,
         \A v \in HedgeWorker :
           /\ pc'[v] = "pnl" <=> pc[v] = "pnl"
           /\ pc[v] = "pnl" => job'[v] = job[v]
  PROVE  Balanced(c, vf, rf)'
<1>1. /\ RowsOf(c)' = RowsOf(c) /\ HedgesByCurrency(c)' = HedgesByCurrency(c)
      /\ Serving(c, {"pnl"})' = Serving(c, {"pnl"})
  BY Zenon DEF RowsOf, HedgesByCurrency, Stored, Serving
<1>2. HedgeValues(c, vf)' = HedgeValues(c, vf) /\ RowValues(c, rf)' = RowValues(c, rf)
  BY <1>1, Zenon DEF HedgeValues, RowValues
<1>3. LateValues(c, vf)' = LateValues(c, vf)
  BY <1>1, Zenon DEF LateValues, Serving
<1> QED
  BY <1>2, <1>3, Zenon DEF Balanced

(* A hedge that is stored or fails counts for nothing. *)
LEMMA FailBalanced ==
  ASSUME HedgeBasic, NEW c, NEW vf, NEW rf, Counts(vf, rf), Balanced(c, vf, rf),
         NEW w \in HedgeWorker, QuoteFails(w) \/ Create(w) \/ ExecuteFails(w)
  PROVE  Balanced(c, vf, rf)'
<1>0. HedgeTypes
  BY Zenon DEF HedgeBasic
<1>1. PICK id \in HedgeId, h \in Hedge :
        /\ Put(w, id, h) /\ Unfilled(h)
        /\ \/ hedges[id] = NoHedge
           \/ hedges[id] \in Hedge /\ Unfilled(hedges[id]) /\ hedges[id].currency = h.currency
  <2>1. ExecuteFails(w) => ~ MarkExecuted(w)
    BY Zenon DEF ExecuteFails, MarkExecuted, Finish, At
  <2> QED
    BY <2>1, StoreSteps, UpdateSteps, Zenon
<1>2. SumFunction(HedgeValues(c, vf))' = SumFunction(HedgeValues(c, vf))
  <2>1. vf[h] = 0 /\ SumFunction(HedgeValues(c, vf)) \in Int
    BY <1>0, <1>1, ValueSums, Zenon DEF Counts
  <2>2. SumFunction(HedgeValues(c, vf))' =
          SumFunction(HedgeValues(c, vf)) + (IF c = h.currency THEN vf[h] ELSE 0)
    BY <1>0, <1>1, PutValues, Zenon
  <2> QED
    BY <2>1, <2>2
<1>3. UNCHANGED pnlRows /\ pc[w] # "pnl" /\ pc'[w] # "pnl"
  BY <1>0, Zenon DEF QuoteFails, Create, ExecuteFails, StoreHedge, UpdateHedge, Finish, At, HedgeTypes
<1>4. \A v \in HedgeWorker \ {w} : pc'[v] = pc[v] /\ job'[v] = job[v]
  BY <1>1, Zenon DEF Put
<1>5. RowValues(c, rf)' = RowValues(c, rf)
  BY <1>3, Zenon DEF RowValues, RowsOf
<1>6. LateValues(c, vf)' = LateValues(c, vf)
  <2>1. Serving(c, {"pnl"})' = Serving(c, {"pnl"}) /\ w \notin Serving(c, {"pnl"})
    BY <1>3, <1>4, Zenon DEF Serving
  <2>2. \A v \in Serving(c, {"pnl"}) : job'[v] = job[v]
    BY <1>4, <2>1, Zenon DEF Serving
  <2> QED
    BY <2>1, <2>2, Zenon DEF LateValues
<1> QED
  BY <1>2, <1>5, <1>6, Zenon DEF Balanced

(* UpdateHedge adds as much to the hedges as to the late rows. *)
LEMMA MarkBalanced ==
  ASSUME HedgeBasic, NEW c, NEW vf, NEW rf, Counts(vf, rf), Balanced(c, vf, rf),
         NEW w \in HedgeWorker, MarkExecuted(w)
  PROVE  Balanced(c, vf, rf)'
<1>0. HedgeTypes
  BY Zenon DEF HedgeBasic
<1>1. PICK id \in HedgeId, h \in Hedge :
        /\ Put(w, id, h) /\ h = [job[w].h EXCEPT !.status = "EXECUTED"]
        /\ hedges[id] \in Hedge /\ Unfilled(hedges[id]) /\ hedges[id].currency = h.currency
  <2>1. ~ ExecuteFails(w)
    BY Zenon DEF ExecuteFails, MarkExecuted, Finish, At
  <2> QED
    BY <2>1, UpdateSteps, Zenon
<1>2. UNCHANGED <<pnlRows, job>> /\ At(w, "update", "pnl")
  BY Zenon DEF MarkExecuted, UpdateHedge
<1>3. pc[w] = "update" /\ pc'[w] = "pnl" /\ \A v \in HedgeWorker \ {w} : pc'[v] = pc[v]
  BY <1>0, <1>2, Zenon DEF At, HedgeTypes
<1>4. job[w].h \in Hedge
  BY <1>0, <1>3, Serves, Zenon
<1>5. vf[h] = vf[job[w].h] /\ vf[h] \in Int /\ h.currency = job[w].h.currency
  BY <1>1, <1>4, Zenon DEF Counts, Put
<1>6. SumFunction(HedgeValues(c, vf))' =
        SumFunction(HedgeValues(c, vf)) + (IF c = h.currency THEN vf[h] ELSE 0)
  <2>1. Put(w, id, h)
    BY <1>1, Zenon
  <2>2. hedges[id] \in Hedge /\ Unfilled(hedges[id]) /\ hedges[id].currency = h.currency
    BY <1>1, Zenon
  <2> QED
    BY <1>0, <2>1, <2>2, PutValues, Zenon
<1>7. RowValues(c, rf)' = RowValues(c, rf)
  BY <1>2, Zenon DEF RowValues, RowsOf
<1>8. PICK f, e : f = LateValues(c, vf) /\ e = LateValues(c, vf)'
  BY Zenon
<1>9. /\ DOMAIN f = Serving(c, {"pnl"}) /\ DOMAIN e = Serving(c, {"pnl"})'
      /\ (\A v \in DOMAIN f : f[v] = vf[job[v].h]) /\ (\A v \in DOMAIN e : e[v] = vf[job[v].h])
  BY <1>2, <1>8, Zenon DEF LateValues
<1>10. /\ IsFiniteSet(DOMAIN f) /\ IntOn(f, DOMAIN f) /\ SumFunction(f) \in Int
       /\ SumFunction(HedgeValues(c, vf)) \in Int /\ SumFunction(RowValues(c, rf)) \in Int
  BY <1>0, <1>8, ValueSums, Zenon
<1>11. SumFunction(e) = SumFunction(f) + (IF c = h.currency THEN vf[h] ELSE 0)
  <2>1. CASE c = h.currency
    <3>1. DOMAIN e = DOMAIN f \cup {w} /\ w \notin DOMAIN f
      BY <1>2, <1>3, <1>5, <1>9, <2>1, ZenonT(30) DEF Serving
    <3>2. e[w] = vf[h] /\ e[w] \in Int
      BY <1>5, <1>9, <3>1, Zenon
    <3>3. \A v \in DOMAIN f : e[v] = f[v]
      BY <1>9, <3>1, Zenon
    <3>4. SumFunction(e) = SumFunction(f) + e[w]
      BY <1>10, <3>1, <3>2, <3>3, SumAdd, ZenonT(30)
    <3> QED
      BY <2>1, <3>2, <3>4, Zenon
  <2>2. CASE c # h.currency
    <3>1. DOMAIN e = DOMAIN f
      BY <1>2, <1>3, <1>5, <1>9, <2>2, ZenonT(30) DEF Serving
    <3>2. SumFunction(e) = SumFunction(f)
      BY <1>9, <1>10, <3>1, SumSame, ZenonT(30)
    <3> QED
      BY <1>10, <2>2, <3>2, SMTT(30)
  <2> QED
    BY <2>1, <2>2, Zenon
<1>12. SumFunction(HedgeValues(c, vf)) = SumFunction(RowValues(c, rf)) + SumFunction(f)
  BY <1>8, Zenon DEF Balanced
<1>13. PICK d \in Int : d = IF c = h.currency THEN vf[h] ELSE 0
  BY <1>5, SMTT(30)
<1>14. SumFunction(HedgeValues(c, vf))' = SumFunction(RowValues(c, rf)) + SumFunction(e)
  BY <1>6, <1>10, <1>11, <1>12, <1>13, SMTT(30)
<1> QED
  BY <1>7, <1>8, <1>14, Zenon DEF Balanced

(* AddPnL turns a late row into a row. *)
LEMMA RowBalanced ==
  ASSUME HedgeBasic, NEW c, NEW vf, NEW rf, Counts(vf, rf), Balanced(c, vf, rf),
         NEW w \in HedgeWorker, RecordPnL(w)
  PROVE  Balanced(c, vf, rf)'
<1>0. HedgeTypes /\ pnlRows \in Seq(PnLRow)
  BY Zenon DEF HedgeBasic, HedgeTypes, StoreTypeOK
<1>1. UNCHANGED <<hedges, job>> /\ At(w, "pnl", "cover") /\ pnlRows' = Append(pnlRows, RowOf(job[w].h))
  BY Zenon DEF RecordPnL, AddPnL, RowOf
<1>2. pc[w] = "pnl" /\ pc'[w] = "cover" /\ \A v \in HedgeWorker \ {w} : pc'[v] = pc[v]
  BY <1>0, <1>1, Zenon DEF At, HedgeTypes
<1>3. PICK h \in Hedge : h = job[w].h
  BY <1>0, <1>2, Serves, Zenon
<1>4. PICK r \in PnLRow : r = RowOf(h) /\ rf[r] = vf[h] /\ vf[h] \in Int
  BY Zenon DEF Counts
<1>5. r.currency = h.currency
  BY <1>4, Zenon DEF RowOf
<1>6. /\ DOMAIN pnlRows' = DOMAIN pnlRows \cup {Len(pnlRows) + 1} /\ Len(pnlRows) + 1 \notin DOMAIN pnlRows
      /\ \A i \in DOMAIN pnlRows : pnlRows'[i] = pnlRows[i]
      /\ pnlRows'[Len(pnlRows) + 1] = r
  BY <1>0, <1>1, <1>3, <1>4, SampleAdded, SMTT(30)
<1>7. HedgeValues(c, vf)' = HedgeValues(c, vf)
  BY <1>1, Zenon DEF HedgeValues, HedgesByCurrency, Stored
<1>8. PICK f, e : f = LateValues(c, vf) /\ e = LateValues(c, vf)'
  BY Zenon
<1>9. /\ DOMAIN f = Serving(c, {"pnl"}) /\ DOMAIN e = Serving(c, {"pnl"})'
      /\ (\A v \in DOMAIN f : f[v] = vf[job[v].h]) /\ (\A v \in DOMAIN e : e[v] = vf[job[v].h])
  BY <1>1, <1>8, Zenon DEF LateValues
<1>10. PICK k, g : k = RowValues(c, rf) /\ g = RowValues(c, rf)'
  BY Zenon
<1>11. /\ DOMAIN k = RowsOf(c) /\ DOMAIN g = RowsOf(c)'
       /\ (\A i \in DOMAIN k : k[i] = rf[pnlRows[i]]) /\ (\A i \in DOMAIN g : g[i] = rf[pnlRows'[i]])
  BY <1>10, Zenon DEF RowValues
<1>12. /\ IsFiniteSet(DOMAIN f) /\ IntOn(f, DOMAIN f) /\ SumFunction(f) \in Int
       /\ IsFiniteSet(DOMAIN k) /\ IntOn(k, DOMAIN k) /\ SumFunction(k) \in Int
  BY <1>0, <1>8, <1>10, ValueSums, ZenonT(30)
<1>13. PICK n : n = Len(pnlRows) + 1
  BY Zenon
<1>14. CASE c = h.currency
  <2>1. DOMAIN e = DOMAIN f \ {w} /\ w \in DOMAIN f
    BY <1>1, <1>2, <1>3, <1>9, <1>14, ZenonT(30) DEF Serving
  <2>2. f[w] = vf[h] /\ \A v \in DOMAIN e : e[v] = f[v]
    BY <1>3, <1>9, <2>1, Zenon
  <2>3. SumFunction(e) = SumFunction(f) - vf[h]
    BY <1>12, <2>1, <2>2, SumRemove, ZenonT(30)
  <2>4. DOMAIN g = DOMAIN k \cup {n} /\ n \notin DOMAIN k
    BY <1>5, <1>6, <1>11, <1>13, <1>14, ZenonT(30) DEF RowsOf
  <2>5. g[n] = vf[h] /\ g[n] \in Int
    BY <1>4, <1>6, <1>11, <1>13, <2>4, ZenonT(30)
  <2>6. \A i \in DOMAIN k : g[i] = k[i]
    BY <1>6, <1>11, <2>4, SMTT(30) DEF RowsOf
  <2>7. SumFunction(g) = SumFunction(k) + g[n]
    BY <1>12, <2>4, <2>5, <2>6, SumAdd, ZenonT(30)
  <2>8. SumFunction(g) + SumFunction(e) = SumFunction(k) + SumFunction(f)
    BY <1>4, <1>12, <2>3, <2>5, <2>7, SMTT(30)
  <2> QED
    BY <1>7, <1>8, <1>10, <2>8, ZenonT(30) DEF Balanced
<1>15. CASE c # h.currency
  <2>1. DOMAIN e = DOMAIN f
    BY <1>1, <1>2, <1>3, <1>9, <1>15, ZenonT(30) DEF Serving
  <2>2. SumFunction(e) = SumFunction(f)
    BY <1>9, <1>12, <2>1, SumSame, ZenonT(30)
  <2>3. DOMAIN g = DOMAIN k
    BY <1>5, <1>6, <1>11, <1>15, ZenonT(30) DEF RowsOf
  <2>4. \A i \in DOMAIN k : g[i] = k[i]
    BY <1>6, <1>11, <2>3, SMTT(30) DEF RowsOf
  <2>5. SumFunction(g) = SumFunction(k)
    BY <1>12, <2>3, <2>4, SumSame, ZenonT(30)
  <2> QED
    BY <1>7, <1>8, <1>10, <2>2, <2>5, ZenonT(30) DEF Balanced
<1> QED
  BY <1>14, <1>15, Zenon

(* Every other step of the handler. *)
LEMMA QuietBalanced ==
  ASSUME HedgeBasic, NEW c, NEW vf, NEW rf, Balanced(c, vf, rf), NEW w \in HedgeWorker,
         \/ ReceiveHedge(w) \/ LookupRequest(w) \/ ReadPolicy(w) \/ Quote(w) \/ Execute(w)
         \/ NextFill(w) \/ RecordSample(w) \/ FeedCache(w) \/ Cover(w) \/ Announce(w) \/ Publish(w)
  PROVE  Balanced(c, vf, rf)'
<1>0. HedgeTypes
  BY Zenon DEF HedgeBasic
<1>1. CASE Cover(w) \/ Announce(w)
  <2>1. At(w, "cover", "announce") \/ At(w, "announce", "publish")
    BY <1>1, Zenon DEF Cover, Announce
  <2>2. UNCHANGED <<hedges, job, pnlRows>>
    BY <1>1, Zenon DEF Cover, Announce, storeVars
  <2>3. \A v \in HedgeWorker : pc'[v] = "pnl" <=> pc[v] = "pnl"
    BY <1>0, <2>1, ZenonT(30) DEF At, HedgeTypes
  <2> QED
    BY <2>2, <2>3, BalancedFrame, ZenonT(30)
<1>2. CASE ReceiveHedge(w) \/ LookupRequest(w) \/ Publish(w)
  <2>1. UNCHANGED <<hedges, pnlRows>>
    BY <1>2, Zenon DEF ReceiveHedge, LookupRequest, Publish, storeVars
  <2>2. pc[w] # "pnl" /\ pc'[w] # "pnl"
    BY <1>0, <1>2, ZenonT(30) DEF ReceiveHedge, LookupRequest, Publish, Finish, At, HedgeTypes
  <2>3. \A v \in HedgeWorker \ {w} : pc'[v] = pc[v] /\ job'[v] = job[v]
    BY <1>0, <1>2, ZenonT(30) DEF ReceiveHedge, LookupRequest, Publish, Finish, At, HedgeTypes
  <2> QED
    BY <2>1, <2>2, <2>3, BalancedFrame, ZenonT(30)
<1>3. CASE ReadPolicy(w) \/ Quote(w) \/ Execute(w) \/ NextFill(w) \/ RecordSample(w) \/ FeedCache(w)
  <2>1. \A v \in HedgeWorker \ {w} : pc'[v] = pc[v] /\ job'[v] = job[v]
    BY <1>3, QuietSteps, ZenonT(30)
  <2>2. UNCHANGED <<hedges, pnlRows>>
    BY <1>3, ZenonT(30) DEF ReadPolicy, Quote, Execute, NextFill, RecordSample, AddSlippageSample, FeedCache, storeVars
  <2>3. pc[w] # "pnl" /\ pc'[w] # "pnl"
    BY <1>0, <1>3, ZenonT(30) DEF ReadPolicy, Quote, Execute, NextFill, RecordSample, FeedCache, At, HedgeTypes
  <2> QED
    BY <2>1, <2>2, <2>3, BalancedFrame, ZenonT(30)
<1> QED
  BY <1>1, <1>2, <1>3, ZenonT(30)

(* Before the first request the sums are empty. *)
LEMMA BalancedStart ==
  ASSUME HedgeInit, NEW c, NEW vf, NEW rf
  PROVE  Balanced(c, vf, rf)
<1>1. /\ pnlRows = <<>> /\ hedges = [id \in HedgeId |-> NoHedge]
      /\ pc = [w \in HedgeWorker |-> "idle"]
  BY Zenon DEF HedgeInit, StoreInit
<1>2. Serving(c, {"pnl"}) = {} /\ HedgesByCurrency(c) = {} /\ RowsOf(c) = {}
  BY <1>1, SMTT(30) DEF Serving, HedgesByCurrency, Stored, RowsOf
<1>3. /\ SumFunction(HedgeValues(c, vf)) = 0 /\ SumFunction(RowValues(c, rf)) = 0
      /\ SumFunction(LateValues(c, vf)) = 0
  BY <1>2, SumEmpty, ZenonT(30) DEF HedgeValues, RowValues, LateValues
<1> QED
  BY <1>3 DEF Balanced

(* Every step keeps what the hedges count for in balance with what the     *)
(* rows count for.                                                         *)
LEMMA BalancedStep ==
  ASSUME HedgeBasic, [HedgeNext]_apiVars, NEW c, NEW vf, NEW rf, Counts(vf, rf), Balanced(c, vf, rf)
  PROVE  Balanced(c, vf, rf)'
<1>1. CASE FlowArrives \/ UNCHANGED apiVars
  <2>1. UNCHANGED <<pc, job, hedges, pnlRows>>
    BY <1>1, Zenon DEF FlowArrives, apiVars, storeVars, handlerVars
  <2> QED
    BY <2>1, BalancedFrame, ZenonT(30)
<1>2. ASSUME NEW w \in HedgeWorker, ReceiveHedge(w) \/ HandlerStep(w)
      PROVE  Balanced(c, vf, rf)'
  <2>1. CASE QuoteFails(w) \/ Create(w) \/ ExecuteFails(w)
    BY <2>1, FailBalanced, Zenon
  <2>2. CASE MarkExecuted(w)
    BY <2>2, MarkBalanced, Zenon
  <2>3. CASE RecordPnL(w)
    BY <2>3, RowBalanced, Zenon
  <2>4. CASE \/ ReceiveHedge(w) \/ LookupRequest(w) \/ ReadPolicy(w) \/ Quote(w) \/ Execute(w)
             \/ NextFill(w) \/ RecordSample(w) \/ FeedCache(w) \/ Cover(w) \/ Announce(w) \/ Publish(w)
    BY <2>4, QuietBalanced, Zenon
  <2> QED
    BY <1>2, <2>1, <2>2, <2>3, <2>4, ZenonT(30) DEF HandlerStep
<1> QED
  BY <1>1, <1>2, Zenon DEF HedgeNext

(* In every state the persisted P&L rows of a currency, with the rows      *)
(* about to be added, say what GET /v1/pnl computes from its hedges, P&L   *)
(* and slippage cost alike (PnLReconciles): CreateHedge adds one row, with *)
(* the hedge's own figures, for each hedge it marks executed.              *)
THEOREM PnLAlwaysReconciles == HedgeSpec => []PnLReconciles
<1> DEFINE PV == [h \in Hedge |-> h.pnl]
           PR == [r \in PnLRow |-> r.realized]
           SV == [h \in Hedge |-> SlippageCost(h.slippageBPS, h.notional)]
           SR == [r \in PnLRow |-> r.slippageCost]
           Inv == HedgeBasic /\ \A c \in Currency : Balanced(c, PV, PR) /\ Balanced(c, SV, SR)
<1>0. ASSUME NEW h \in Hedge
      PROVE  /\ h.pnl \in Int /\ SlippageCost(h.slippageBPS, h.notional) \in Int
             /\ RowOf(h) \in PnLRow
  BY HedgeFields, SMTT(30) DEF PnLRow, SlippageCost, RowOf
<1>1. ASSUME NEW h \in Hedge
      PROVE  /\ [h EXCEPT !.status = "EXECUTED"] \in Hedge
             /\ [h EXCEPT !.status = "EXECUTED"].pnl = h.pnl
             /\ [h EXCEPT !.status = "EXECUTED"].slippageBPS = h.slippageBPS
             /\ [h EXCEPT !.status = "EXECUTED"].notional = h.notional
  BY Zenon DEF Hedge, HedgeStatus
<1>2. ASSUME NEW h \in Hedge, Unfilled(h)
      PROVE  h.pnl = 0 /\ SlippageCost(h.slippageBPS, h.notional) = 0
  BY <1>2, HedgeFields, SMTT(30) DEF Unfilled, SlippageCost
<1>3. \A r \in PnLRow : r.realized \in Int /\ r.slippageCost \in Int
  BY Zenon DEF PnLRow
<1>4. Counts(PV, PR)
  BY <1>0, <1>1, <1>2, <1>3, ZenonT(30) DEF Counts, RowOf
<1>5. Counts(SV, SR)
  <2>1. SV \in [Hedge -> Int] /\ SR \in [PnLRow -> Int]
    BY <1>0, <1>3, Zenon
  <2>2. ASSUME NEW h \in Hedge
        PROVE  /\ Unfilled(h) => SV[h] = 0
               /\ SV[[h EXCEPT !.status = "EXECUTED"]] = SV[h]
    <3>1. PICK g \in Hedge : /\ g = [h EXCEPT !.status = "EXECUTED"]
                             /\ g.slippageBPS = h.slippageBPS /\ g.notional = h.notional
      BY <1>1, Zenon
    <3>2. SV[g] = SlippageCost(g.slippageBPS, g.notional) /\ SV[h] = SlippageCost(h.slippageBPS, h.notional)
      BY Zenon
    <3>3. SV[g] = SV[h]
      BY <3>1, <3>2, Zenon
    <3> HIDE DEF SV
    <3> QED
      BY <1>2, <3>1, <3>2, <3>3, ZenonT(30)
  <2>3. ASSUME NEW h \in Hedge
        PROVE  RowOf(h) \in PnLRow /\ SR[RowOf(h)] = SV[h]
    <3>1. RowOf(h) \in PnLRow /\ RowOf(h).slippageCost = SlippageCost(h.slippageBPS, h.notional)
      BY <1>0, Zenon DEF RowOf
    <3> QED
      BY <3>1, Zenon
  <2> HIDE DEF SV, SR
  <2> QED
    BY <2>1, <2>2, <2>3, ZenonT(30) DEF Counts
<1>6. Inv => PnLReconciles
  <2> SUFFICES ASSUME Inv, NEW c \in Currency
               PROVE  PnLReport(c) =
                        [realized |-> SumFunction([i \in RowsOf(c) |-> pnlRows[i].realized])
                                      + SumFunction([w \in Serving(c, {"pnl"}) |-> job[w].h.pnl]),
                         slippageCost |->
                           SumFunction([i \in RowsOf(c) |-> pnlRows[i].slippageCost])
                           + SumFunction([w \in Serving(c, {"pnl"}) |->
                                            SlippageCost(job[w].h.slippageBPS, job[w].h.notional)])]
    BY Zenon DEF PnLReconciles, RowsOf
  <2>0. HedgeTypes
    BY Zenon DEF HedgeBasic
  <2>1. \A id \in HedgesByCurrency(c) : hedges[id] \in Hedge
    BY <2>0, Zenon DEF HedgesByCurrency, Stored, HedgeTypes, StoreTypeOK
  <2>2. \A w \in Serving(c, {"pnl"}) : job[w].h \in Hedge
    BY <2>0, Serves, ZenonT(30) DEF Serving
  <2>3. \A i \in RowsOf(c) : pnlRows[i] \in PnLRow
    BY <2>0, SMTT(30) DEF RowsOf, HedgeTypes, StoreTypeOK
  <2>4. /\ HedgeValues(c, PV) = [id \in HedgesByCurrency(c) |-> hedges[id].pnl]
        /\ HedgeValues(c, SV) = [id \in HedgesByCurrency(c) |->
                                    SlippageCost(hedges[id].slippageBPS, hedges[id].notional)]
    BY <2>1, Zenon DEF HedgeValues
  <2>5. /\ LateValues(c, PV) = [w \in Serving(c, {"pnl"}) |-> job[w].h.pnl]
        /\ LateValues(c, SV) = [w \in Serving(c, {"pnl"}) |->
                                   SlippageCost(job[w].h.slippageBPS, job[w].h.notional)]
    BY <2>2, Zenon DEF LateValues
  <2>6. /\ RowValues(c, PR) = [i \in RowsOf(c) |-> pnlRows[i].realized]
        /\ RowValues(c, SR) = [i \in RowsOf(c) |-> pnlRows[i].slippageCost]
    BY <2>3, Zenon DEF RowValues
  <2>7. Balanced(c, PV, PR) /\ Balanced(c, SV, SR)
    BY Zenon
  <2> HIDE DEF PV, PR, SV, SR
  <2> QED
    BY <2>4, <2>5, <2>6, <2>7, ZenonT(30) DEF Balanced, PnLReport
<1> HIDE DEF PV, PR, SV, SR
<1>7. HedgeInit => Inv
  BY BasicStart, BalancedStart, ZenonT(30)
<1>8. Inv /\ [HedgeNext]_apiVars => Inv'
  BY <1>4, <1>5, BasicStep, BalancedStep, ZenonT(30)
<1> HIDE DEF Inv
<1> QED
  BY <1>6, <1>7, <1>8, PTL DEF HedgeSpec

(* As CreateHedge is documented, for any number of handlers: a trade has   *)
(* one slippage sample, provided the provider repeats no trade or only     *)
(* such that are stored and carry a venue name.                            *)
THEOREM TradesCountOnce == ASSUME Recognised PROVE HedgeSpec => []TradeCountedOnce
<1>1. HedgeInit => HedgeBasic /\ TradesApart
  BY BasicStart, TradesStart, Zenon
<1>2. HedgeBasic /\ TradesApart /\ [HedgeNext]_apiVars => (HedgeBasic /\ TradesApart)'
  BY BasicStep, TradesStep, Zenon
<1>3. TradesApart => TradeCountedOnce
  BY Zenon DEF TradesApart, BooksRight, Distinct, TradeCountedOnce
<1> QED
  BY <1>1, <1>2, <1>3, PTL DEF HedgeSpec

-----------------------------------------------------------------------------
(***************************************************************************)
(* The coverage of the tracker.                                            *)
(***************************************************************************)
(* What the handlers are about to cover, and what was executed. *)
Coming(c) == [w \in Serving(c, {"pnl", "cover"}) |-> job[w].executed]
Executed(c) == [id \in ListHedges(c, "EXECUTED") |-> hedges[id].notional]

CoverageRight(c) == coverage[c] + SumFunction(Coming(c)) = SumFunction(Executed(c))

(* The sums are sums of finitely many integers. *)
LEMMA CoverageSums ==
  ASSUME HedgeTypes, NEW c
  PROVE  /\ IsFiniteSet(DOMAIN Coming(c)) /\ IntOn(Coming(c), DOMAIN Coming(c))
         /\ IsFiniteSet(DOMAIN Executed(c)) /\ IntOn(Executed(c), DOMAIN Executed(c))
         /\ SumFunction(Coming(c)) \in Int /\ SumFunction(Executed(c)) \in Int
<1>1. /\ DOMAIN Coming(c) = Serving(c, {"pnl", "cover"})
      /\ DOMAIN Executed(c) = ListHedges(c, "EXECUTED")
  BY Zenon DEF Coming, Executed
<1>2. /\ Serving(c, {"pnl", "cover"}) \subseteq HedgeWorker
      /\ ListHedges(c, "EXECUTED") \subseteq HedgeId
  BY Zenon DEF Serving, ListHedges, HedgesByCurrency, Stored
<1>3. IsFiniteSet(DOMAIN Coming(c)) /\ IsFiniteSet(DOMAIN Executed(c))
  BY <1>1, <1>2, HedgeAssumption, StoreAssumption, FS_Subset, ZenonT(30)
<1>4. IntOn(Coming(c), DOMAIN Coming(c))
  <2>1. ASSUME NEW w \in Serving(c, {"pnl", "cover"}) PROVE job[w].executed \in Int
    BY Serves, JobFields, Zenon DEF Serving
  <2> QED
    BY <1>1, <2>1, Zenon DEF IntOn, Coming
<1>5. IntOn(Executed(c), DOMAIN Executed(c))
  <2>1. ASSUME NEW id \in ListHedges(c, "EXECUTED") PROVE hedges[id].notional \in Int
    BY HedgeFields, Zenon DEF ListHedges, HedgesByCurrency, Stored, HedgeTypes, StoreTypeOK
  <2> QED
    BY <1>1, <2>1, Zenon DEF IntOn, Executed
<1> QED
  BY <1>3, <1>4, <1>5, SumType, ZenonT(30)

(* A step that is about neither. *)
LEMMA CoverageFrame ==
  ASSUME NEW c, CoverageRight(c), coverage'[c] = coverage[c],
         \A v \in HedgeWorker :
           /\ pc'[v] \in {"pnl", "cover"} <=> pc[v] \in {"pnl", "cover"}
           /\ pc[v] \in {"pnl", "cover"} => job'[v] = job[v],
         \A id \in HedgeId :
           \/ hedges'[id] = hedges[id]
           \/ ~ HasStatus(id, "EXECUTED") /\ ~ HasStatus(id, "EXECUTED")'
  PROVE  CoverageRight(c)'
<1>1. Serving(c, {"pnl", "cover"})' = Serving(c, {"pnl", "cover"})
  BY Zenon DEF Serving
<1>2. Coming(c)' = Coming(c)
  BY <1>1, Zenon DEF Coming, Serving
<1>3. ListHedges(c, "EXECUTED")' = ListHedges(c, "EXECUTED")
  BY Zenon DEF ListHedges, HedgesByCurrency, Stored, HasStatus
<1>4. \A id \in ListHedges(c, "EXECUTED") : hedges'[id] = hedges[id]
  BY Zenon DEF ListHedges, HedgesByCurrency, Stored, HasStatus
<1>5. Executed(c)' = Executed(c)
  BY <1>3, <1>4, Zenon DEF Executed
<1> QED
  BY <1>2, <1>5, Zenon DEF CoverageRight

(* The steps up to UpdateHedge and those after AddCoverage. *)
LEMMA CoverageQuiet ==
  ASSUME HedgeBasic, NEW c \in Currency, CoverageRight(c), NEW w \in HedgeWorker,
         ReceiveHedge(w) \/ HandlerStep(w), ~ MarkExecuted(w), ~ Cover(w)
  PROVE  CoverageRight(c)'
<1>0. HedgeTypes /\ StoreTypeOK
  BY Zenon DEF HedgeBasic, HedgeTypes
<1>1. CASE QuoteFails(w) \/ Create(w) \/ ExecuteFails(w)
  <2>1. PICK id \in HedgeId, h \in Hedge :
          /\ Put(w, id, h) /\ h.status # "EXECUTED"
          /\ hedges[id] = NoHedge \/ hedges[id].status = "EXECUTING"
    BY <1>1, StoreSteps, UpdateSteps, Zenon
  <2>2. hedges'[id] = h /\ \A i \in HedgeId \ {id} : hedges'[i] = hedges[i]
    BY <1>0, <2>1, PutStored, Zenon
  <2>3. \A i \in HedgeId :
           \/ hedges'[i] = hedges[i]
           \/ ~ HasStatus(i, "EXECUTED") /\ ~ HasStatus(i, "EXECUTED")'
    BY <2>1, <2>2, Zenon DEF HasStatus
  <2>4. \A v \in HedgeWorker \ {w} : pc'[v] = pc[v] /\ job'[v] = job[v]
    BY <2>1, Zenon DEF Put
  <2>5. pc[w] \notin {"pnl", "cover"} /\ pc'[w] \notin {"pnl", "cover"} /\ UNCHANGED coverage
    BY <1>0, <1>1, ZenonT(30) DEF QuoteFails, Create, ExecuteFails, Finish, At, HedgeTypes, trackerVars, positionVars
  <2> QED
    BY <2>3, <2>4, <2>5, CoverageFrame, ZenonT(30)
<1>2. CASE RecordPnL(w) \/ Announce(w)
  <2>1. At(w, "pnl", "cover") \/ At(w, "announce", "publish")
    BY <1>2, Zenon DEF RecordPnL, Announce
  <2>2. UNCHANGED <<hedges, job, coverage>>
    BY <1>2, Zenon DEF RecordPnL, AddPnL, Announce, storeVars, trackerVars, positionVars
  <2>3. \A v \in HedgeWorker : pc'[v] \in {"pnl", "cover"} <=> pc[v] \in {"pnl", "cover"}
    BY <1>0, <2>1, ZenonT(30) DEF At, HedgeTypes
  <2> QED
    BY <2>2, <2>3, CoverageFrame, ZenonT(30)
<1>3. CASE ReceiveHedge(w) \/ LookupRequest(w) \/ Publish(w)
  <2>1. UNCHANGED <<hedges, coverage>>
    BY <1>3, ZenonT(30) DEF ReceiveHedge, LookupRequest, Publish, storeVars, trackerVars, positionVars
  <2>2. pc[w] \notin {"pnl", "cover"} /\ pc'[w] \notin {"pnl", "cover"}
    BY <1>0, <1>3, ZenonT(30) DEF ReceiveHedge, LookupRequest, Publish, Finish, At, HedgeTypes
  <2>3. \A v \in HedgeWorker \ {w} : pc'[v] = pc[v] /\ job'[v] = job[v]
    BY <1>0, <1>3, ZenonT(30) DEF ReceiveHedge, LookupRequest, Publish, Finish, At, HedgeTypes
  <2> QED
    BY <2>1, <2>2, <2>3, CoverageFrame, ZenonT(30)
<1>4. CASE ReadPolicy(w) \/ Quote(w) \/ Execute(w) \/ NextFill(w) \/ RecordSample(w) \/ FeedCache(w)
  <2>1. \A v \in HedgeWorker \ {w} : pc'[v] = pc[v] /\ job'[v] = job[v]
    BY <1>4, QuietSteps, ZenonT(30)
  <2>2. UNCHANGED <<hedges, coverage>>
    BY <1>4, ZenonT(30) DEF ReadPolicy, Quote, Execute, NextFill, RecordSample, AddSlippageSample, FeedCache,
       storeVars, trackerVars, positionVars
  <2>3. pc[w] \notin {"pnl", "cover"} /\ pc'[w] \notin {"pnl", "cover"}
    BY <1>0, <1>4, ZenonT(30) DEF ReadPolicy, Quote, Execute, NextFill, RecordSample, FeedCache, At, HedgeTypes
  <2> QED
    BY <2>1, <2>2, <2>3, CoverageFrame, ZenonT(30)
<1> QED
  BY <1>1, <1>2, <1>3, <1>4, ZenonT(30) DEF HandlerStep

(* UpdateHedge adds the hedge's notional to what was executed, and as much *)
(* to what its handler is about to cover.                                  *)
LEMMA MarkCovers ==
  ASSUME HedgeBasic, TradesApart, TradesApart', NEW c \in Currency, CoverageRight(c),
         NEW w \in HedgeWorker, MarkExecuted(w)
  PROVE  CoverageRight(c)'
<1>0. HedgeTypes /\ StoreTypeOK /\ coverage[c] \in Int
  BY Zenon DEF HedgeBasic, HedgeTypes
<1>1. PICK id \in HedgeId, h \in Hedge :
        /\ Put(w, id, h) /\ hedges[id] \in Hedge /\ hedges[id].status = "EXECUTING"
        /\ h = [job[w].h EXCEPT !.status = "EXECUTED"]
  <2>1. ~ ExecuteFails(w)
    BY Zenon DEF MarkExecuted, ExecuteFails, Finish, At
  <2> QED
    BY <2>1, UpdateSteps, Zenon
<1>2. /\ hedges'[id] = h /\ \A i \in HedgeId \ {id} : hedges'[i] = hedges[i]
      /\ Stored' = Stored \cup {id}
  BY <1>0, <1>1, PutStored, SMTT(30)
<1>3. UNCHANGED <<job, coverage>> /\ At(w, "update", "pnl")
  BY Zenon DEF MarkExecuted, trackerVars, positionVars
<1>4. /\ pc[w] = "update" /\ pc'[w] = "pnl"
      /\ \A v \in HedgeWorker \ {w} : pc'[v] = pc[v]
  BY <1>0, <1>3, ZenonT(30) DEF At, HedgeTypes
<1>5. job[w] \in Job /\ job[w].h \in Hedge
  BY <1>0, <1>4, Serves, ZenonT(30)
<1>6. /\ h.status = "EXECUTED" /\ h.currency = job[w].h.currency /\ h.notional = job[w].h.notional
      /\ h # NoHedge /\ h.notional \in Int
  BY <1>1, <1>5, HedgeFields, ZenonT(30) DEF Hedge
<1>7. job[w].executed = h.notional
  BY <1>3, <1>4, <1>6, ZenonT(30) DEF TradesApart, FillsRight
<1>8. CASE c # h.currency
  <2>1. Serving(c, {"pnl", "cover"})' = Serving(c, {"pnl", "cover"})
    BY <1>3, <1>4, <1>6, <1>8, ZenonT(30) DEF Serving
  <2>2. Coming(c)' = Coming(c)
    BY <1>3, <2>1, Zenon DEF Coming
  <2>3. id \notin ListHedges(c, "EXECUTED")' /\ id \notin ListHedges(c, "EXECUTED")
    BY <1>1, <1>2, <1>8, ZenonT(30) DEF ListHedges, HedgesByCurrency
  <2>4. ListHedges(c, "EXECUTED")' = ListHedges(c, "EXECUTED")
    BY <1>2, <2>3, Zenon DEF ListHedges, HedgesByCurrency, Stored
  <2>5. \A i \in ListHedges(c, "EXECUTED") : hedges'[i] = hedges[i]
    BY <1>2, <2>3, Zenon DEF ListHedges, HedgesByCurrency, Stored
  <2>6. Executed(c)' = Executed(c)
    BY <2>4, <2>5, Zenon DEF Executed
  <2> QED
    BY <1>3, <2>2, <2>6, ZenonT(30) DEF CoverageRight
<1>9. CASE c = h.currency
  <2>1. PICK f, e : f = Coming(c) /\ e = Coming(c)'
    BY Zenon
  <2>2. PICK k, g : k = Executed(c) /\ g = Executed(c)'
    BY Zenon
  <2>3. /\ Serving(c, {"pnl", "cover"})' = Serving(c, {"pnl", "cover"}) \cup {w}
        /\ w \notin Serving(c, {"pnl", "cover"})
    BY <1>3, <1>4, <1>6, <1>9, ZenonT(30) DEF Serving
  <2>4. /\ DOMAIN f = Serving(c, {"pnl", "cover"}) /\ DOMAIN e = Serving(c, {"pnl", "cover"})'
        /\ e[w] = h.notional /\ \A v \in DOMAIN f : e[v] = f[v]
    BY <1>3, <1>7, <2>1, <2>3, ZenonT(30) DEF Coming
  <2>5. SumFunction(e) = SumFunction(f) + h.notional
    <3>1. /\ IsFiniteSet(DOMAIN f) /\ IntOn(f, DOMAIN f)
          /\ w \notin DOMAIN f /\ DOMAIN e = DOMAIN f \cup {w} /\ e[w] \in Int
      BY <1>0, <1>6, <2>1, <2>3, <2>4, CoverageSums, ZenonT(30)
    <3> QED
      BY <2>4, <3>1, SumAdd, SMTT(30)
  <2>6. id \in ListHedges(c, "EXECUTED")' /\ id \notin ListHedges(c, "EXECUTED")
    BY <1>1, <1>2, <1>6, <1>9, ZenonT(30) DEF ListHedges, HedgesByCurrency
  <2>7. ListHedges(c, "EXECUTED")' = ListHedges(c, "EXECUTED") \cup {id}
    BY <1>2, <2>6, Zenon DEF ListHedges, HedgesByCurrency, Stored
  <2>8. \A i \in ListHedges(c, "EXECUTED") : hedges'[i] = hedges[i]
    BY <1>2, <2>6, Zenon DEF ListHedges, HedgesByCurrency, Stored
  <2>9. /\ DOMAIN k = ListHedges(c, "EXECUTED") /\ DOMAIN g = ListHedges(c, "EXECUTED")'
        /\ g[id] = h.notional /\ \A i \in DOMAIN k : g[i] = k[i]
    BY <1>2, <2>2, <2>6, <2>7, <2>8, ZenonT(30) DEF Executed
  <2>10. SumFunction(g) = SumFunction(k) + h.notional
    <3>1. /\ IsFiniteSet(DOMAIN k) /\ IntOn(k, DOMAIN k)
          /\ id \notin DOMAIN k /\ DOMAIN g = DOMAIN k \cup {id} /\ g[id] \in Int
      BY <1>0, <1>6, <2>2, <2>6, <2>7, <2>9, CoverageSums, ZenonT(30)
    <3> QED
      BY <2>9, <3>1, SumAdd, SMTT(30)
  <2>11. SumFunction(f) \in Int /\ SumFunction(k) \in Int
    BY <1>0, <2>1, <2>2, CoverageSums, ZenonT(30)
  <2>12. coverage[c] + SumFunction(f) = SumFunction(k)
    BY <2>1, <2>2, Zenon DEF CoverageRight
  <2>13. coverage'[c] + SumFunction(e) = SumFunction(g)
    BY <1>0, <1>3, <1>6, <2>5, <2>10, <2>11, <2>12, SMTT(30)
  <2> QED
    BY <2>1, <2>2, <2>13, ZenonT(30) DEF CoverageRight
<1> QED
  BY <1>8, <1>9, ZenonT(30)

(* AddCoverage moves what its handler counted to the coverage. *)
LEMMA CoverCovers ==
  ASSUME HedgeBasic, NEW c \in Currency, CoverageRight(c), NEW w \in HedgeWorker, Cover(w)
  PROVE  CoverageRight(c)'
<1>0. HedgeTypes /\ coverage \in [Currency -> Int]
  BY Zenon DEF HedgeBasic, HedgeTypes
<1>1. UNCHANGED <<hedges, job>> /\ At(w, "cover", "announce")
  BY Zenon DEF Cover, storeVars
<1>2. /\ pc[w] = "cover" /\ pc'[w] = "announce"
      /\ \A v \in HedgeWorker \ {w} : pc'[v] = pc[v]
  BY <1>0, <1>1, Zenon DEF At, HedgeTypes
<1>3. job[w] \in Job /\ job[w].h.currency \in Currency /\ job[w].executed \in Int
  BY <1>0, <1>2, Serves, HedgeFields, JobFields, ZenonT(30)
<1>4. coverage' = [coverage EXCEPT ![job[w].h.currency] = coverage[job[w].h.currency] + job[w].executed]
  BY Zenon DEF Cover, AddCoverage
<1>5. Executed(c)' = Executed(c)
  BY <1>1, Zenon DEF Executed, ListHedges, HedgesByCurrency, Stored
<1>6. CASE c # job[w].h.currency
  <2>1. Serving(c, {"pnl", "cover"})' = Serving(c, {"pnl", "cover"})
    BY <1>1, <1>2, <1>6, ZenonT(30) DEF Serving
  <2>2. Coming(c)' = Coming(c)
    BY <1>1, <2>1, Zenon DEF Coming
  <2>3. coverage'[c] = coverage[c]
    BY <1>0, <1>3, <1>4, <1>6, ZenonT(30)
  <2> QED
    BY <1>5, <2>2, <2>3, ZenonT(30) DEF CoverageRight
<1>7. CASE c = job[w].h.currency
  <2>1. PICK f, e : f = Coming(c) /\ e = Coming(c)'
    BY Zenon
  <2>2. /\ Serving(c, {"pnl", "cover"})' = Serving(c, {"pnl", "cover"}) \ {w}
        /\ w \in Serving(c, {"pnl", "cover"})
    BY <1>1, <1>2, <1>7, Zenon DEF Serving
  <2>3. /\ DOMAIN f = Serving(c, {"pnl", "cover"}) /\ DOMAIN e = Serving(c, {"pnl", "cover"})'
        /\ f[w] = job[w].executed /\ \A v \in DOMAIN e : e[v] = f[v]
    BY <1>1, <2>1, <2>2, Zenon DEF Coming
  <2>4. SumFunction(e) = SumFunction(f) - job[w].executed
    <3>1. /\ IsFiniteSet(DOMAIN f) /\ IntOn(f, DOMAIN f)
          /\ w \in DOMAIN f /\ DOMAIN e = DOMAIN f \ {w}
      BY <1>0, <2>1, <2>2, <2>3, CoverageSums, Zenon
    <3> QED
      BY <2>3, <3>1, SumRemove, ZenonT(30)
  <2>5. coverage'[c] = coverage[c] + job[w].executed /\ coverage[c] \in Int
    BY <1>0, <1>3, <1>4, <1>7, ZenonT(30)
  <2>6. SumFunction(f) \in Int
    BY <1>0, <2>1, CoverageSums, ZenonT(30)
  <2>7. coverage[c] + SumFunction(f) = coverage'[c] + SumFunction(e)
    BY <1>3, <2>4, <2>5, <2>6, SMTT(30)
  <2> QED
    BY <1>5, <2>1, <2>7, Zenon DEF CoverageRight
<1> QED
  BY <1>6, <1>7, Zenon

(* For any number of handlers and any prices and fills: the coverage that  *)
(* Tracker.AddCoverage accumulated is the notional of the executed hedges, *)
(* apart from the handlers between UpdateHedge and AddCoverage, provided   *)
(* the provider repeats no trade or only such that are recognised.         *)
THEOREM CoverageAlwaysReconciles == ASSUME Recognised PROVE HedgeSpec => []CoverageReconciles
<1> DEFINE Inv == HedgeBasic /\ TradesApart /\ \A c \in Currency : CoverageRight(c)
<1>1. HedgeInit => Inv
  <2> SUFFICES ASSUME HedgeInit, NEW c \in Currency PROVE CoverageRight(c)
    BY BasicStart, TradesStart, Zenon
  <2>1. /\ coverage = [d \in Currency |-> 0] /\ hedges = [id \in HedgeId |-> NoHedge]
        /\ pc = [w \in HedgeWorker |-> "idle"]
    BY Zenon DEF HedgeInit, TrackerInit, StoreInit
  <2>2. Serving(c, {"pnl", "cover"}) = {} /\ ListHedges(c, "EXECUTED") = {}
    BY <2>1, Zenon DEF Serving, ListHedges, HedgesByCurrency, Stored
  <2>3. SumFunction(Coming(c)) = 0 /\ SumFunction(Executed(c)) = 0
    BY <2>2, SumEmpty, Zenon DEF Coming, Executed
  <2> QED
    BY <2>1, <2>3, SMTT(30) DEF CoverageRight
<1>2. Inv /\ [HedgeNext]_apiVars => Inv'
  <2> SUFFICES ASSUME Inv, [HedgeNext]_apiVars PROVE Inv'
    BY Zenon
  <2>1. HedgeBasic' /\ TradesApart'
    BY BasicStep, TradesStep, Zenon
  <2>2. ASSUME NEW c \in Currency PROVE CoverageRight(c)'
    <3>1. CASE FlowArrives \/ UNCHANGED apiVars
      <4>1. UNCHANGED <<pc, job, hedges, coverage>>
        BY <3>1, Zenon DEF FlowArrives, AddExposure, applyDelta, apiVars, storeVars, handlerVars, trackerVars, positionVars
      <4> QED
        BY <4>1, CoverageFrame, Zenon
    <3>2. ASSUME NEW w \in HedgeWorker, ReceiveHedge(w) \/ HandlerStep(w) PROVE CoverageRight(c)'
      BY <2>1, <3>2, CoverageQuiet, MarkCovers, CoverCovers, ZenonT(30)
    <3> QED
      BY <3>1, <3>2, ZenonT(30) DEF HedgeNext
  <2> QED
    BY <2>1, <2>2, Zenon
<1>3. Inv => CoverageReconciles
  BY Zenon DEF CoverageReconciles, CoverageRight, Coming, Executed
<1> HIDE DEF Inv
<1> QED
  BY <1>1, <1>2, <1>3, PTL DEF HedgeSpec
=============================================================================
