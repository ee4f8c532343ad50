---------------------------- MODULE RecordProofs ----------------------------
(***************************************************************************)
(* The records of POST /v1/hedges, for any number of workers, hedges,      *)
(* currencies and venues: HedgeBasic is an invariant, so a hedge that no   *)
(* handler works on has the audit events and the reconciliation calls of   *)
(* one complete story, and a hedge that is EXECUTED or FAILED stays as it  *)
(* is.  One frame lemma for each kind of step (StepFrame, QuietStep,       *)
(* IdleFrame) leaves a case of HandlerBasic what its step records.         *)
(***************************************************************************)
EXTENDS HedgeSteps, FiniteSetTheorems

(***************************************************************************)
(* Types.                                                                  *)
(***************************************************************************)
(* The ids issued so far are the first of the hedge ids. *)
LEMMA IdsIssued ==
  ASSUME HedgeTypes
  PROVE  /\ Cardinality(HedgeId) \in Nat /\ issued \in Nat /\ issued <= Cardinality(HedgeId)
         /\ HedgeId = 1 .. Cardinality(HedgeId) /\ 1 .. issued \subseteq HedgeId
<1>1. IsFiniteSet(HedgeId) /\ HedgeId = 1 .. Cardinality(HedgeId)
  BY StoreAssumption, Zenon
<1>2. Cardinality(HedgeId) \in Nat
  BY <1>1, FS_CardinalityType, Zenon
<1>3. issued \in 0 .. Cardinality(HedgeId)
  BY Zenon DEF HedgeTypes, StoreTypeOK
<1>4. PICK n \in Nat : n = Cardinality(HedgeId)
  BY <1>2, Zenon
<1> QED
  BY <1>1, <1>3, <1>4

-----------------------------------------------------------------------------
(***************************************************************************)
(* The hedges, their events and their handlers.                            *)
(***************************************************************************)
HedgeEvents == {"hedge_created", "hedge_executed", "hedge_failed", "pnl_entry"}

(* Nothing is recorded about this hedge. *)
SameRecords(i) ==
  /\ hedges'[i] = hedges[i] /\ published'[i] = published[i]
  /\ \A t \in HedgeEvents : audit'[t][i] = audit[t][i]

(* Nothing is recorded about any other hedge. *)
OnlyAbout(id) == \A i \in HedgeId \ {id} : SameRecords(i)

(* What emit of the REST service counts. *)
LEMMA EmitTally ==
  ASSUME AuditTypeOK, NEW t \in EventType, NEW id \in HedgeId, emit(t, id)
  PROVE  /\ AuditTypeOK'
         /\ \A s \in EventType, i \in HedgeId :
              audit'[s][i] = IF s = t /\ i = id THEN audit[s][i] + 1 ELSE audit[s][i]
<1>1. /\ audit \in [EventType -> [Entity -> Nat]]
      /\ HedgeId \subseteq Entity
  BY HedgeAssumption, Zenon DEF AuditTypeOK
<1>2. audit' = [audit EXCEPT ![t] = [audit[t] EXCEPT ![id] = audit[t][id] + 1]]
  BY Zenon DEF emit
<1>3. audit[t] \in [Entity -> Nat] /\ id \in Entity /\ audit[t][id] \in Nat
  BY <1>1, Zenon
<1>4. [audit[t] EXCEPT ![id] = audit[t][id] + 1] \in [Entity -> Nat]
  BY <1>3
<1>5. AuditTypeOK'
  BY <1>1, <1>2, <1>4, Zenon DEF AuditTypeOK
<1>6. ASSUME NEW s \in EventType, NEW i \in HedgeId
      PROVE  audit'[s][i] = IF s = t /\ i = id THEN audit[s][i] + 1 ELSE audit[s][i]
  <2>1. CASE s = t
    <3>1. audit'[s] = [audit[t] EXCEPT ![id] = audit[t][id] + 1]
      BY <1>1, <1>2, <2>1, SMTT(30)
    <3>2. i \in Entity
      BY <1>1, Zenon
    <3> QED
      BY <1>3, <2>1, <3>1, <3>2, Zenon
  <2>2. CASE s # t
    BY <1>1, <1>2, <2>2, SMTT(30)
  <2> QED
    BY <2>1, <2>2, Zenon
<1> QED
  BY <1>5, <1>6, Zenon

(* An event of another kind leaves the records of the hedges alone. *)
LEMMA EmitOther ==
  ASSUME AuditTypeOK, NEW t \in {"cap_breach", "slippage_alert"}, NEW id \in HedgeId, emit(t, id)
  PROVE  AuditTypeOK' /\ \A i \in HedgeId, s \in HedgeEvents : audit'[s][i] = audit[s][i]
<1>1. t \in EventType /\ HedgeEvents \subseteq EventType /\ t \notin HedgeEvents
  BY Zenon DEF EventType, HedgeEvents
<1> QED
  BY <1>1, EmitTally, SMTT(30)

(* The records that decide Unborn, Stage and Settled. *)
LEMMA RecordsKept ==
  ASSUME NEW i, SameRecords(i)
  PROVE  /\ Unborn(i) => Unborn(i)'
         /\ \A step : Stage(step, i) => Stage(step, i)'
         /\ Settled(i) => Settled(i)'
         /\ StoredData(i) => StoredData(i)'
<1>1. /\ hedges'[i] = hedges[i] /\ published'[i] = published[i]
      /\ audit'["hedge_created"][i] = audit["hedge_created"][i]
      /\ audit'["hedge_executed"][i] = audit["hedge_executed"][i]
      /\ audit'["hedge_failed"][i] = audit["hedge_failed"][i]
      /\ audit'["pnl_entry"][i] = audit["pnl_entry"][i]
  BY Zenon DEF SameRecords, HedgeEvents
<1>2. Unborn(i) => Unborn(i)'
  BY <1>1, Zenon DEF Unborn, Tally
<1>3. ASSUME NEW step, Stage(step, i) PROVE Stage(step, i)'
  BY <1>1, <1>3, Zenon DEF Stage, Unborn, Tally, HasStatus
<1>4. Settled(i) => Settled(i)'
  BY <1>1, Zenon DEF Settled, Tally, HasStatus
<1>5. StoredData(i) => StoredData(i)'
  BY <1>1, Zenon DEF StoredData, Unfilled
<1> QED
  BY <1>2, <1>3, <1>4, <1>5, ZenonT(30)

(* A step of a handler that owns a hedge keeps the invariant when it says  *)
(* nothing of the other hedges and leaves its own records as they should   *)
(* be at its next step.                                                    *)
LEMMA StepFrame ==
  ASSUME HedgeBasic, HedgeTypes', NEW w \in HedgeWorker, NEW here, NEW next, Moves(w, here, next),
         Owns(w), NEW id \in HedgeId, job[w].id = id, issued' = issued, OnlyAbout(id),
         StoredData(id)',
         \/ /\ next \in Early \cup Running \cup Done /\ job'[w].id = id
            /\ Stage(next, id)' /\ WorkerData(w)'
         \/ next = "idle" /\ Settled(id)'
  PROVE  HedgeBasic'
<1>1. /\ pc[w] \in Early \cup Running \cup Done /\ pc'[w] = next
      /\ \A v \in HedgeWorker \ {w} : pc'[v] = pc[v] /\ job'[v] = job[v]
  BY Zenon DEF Moves, Owns
<1>2. "lookup" \notin Early \cup Running \cup Done /\ "idle" \notin Early \cup Running \cup Done
  BY Zenon DEF Early, Running, Done
<1>3. \A v \in HedgeWorker \ {w} : Owns(v)' <=> Owns(v)
  BY <1>1, Zenon DEF Owns
<1>4. /\ issued + Cardinality(Looking) <= Cardinality(HedgeId)
      /\ \A v \in HedgeWorker : pc[v] = "lookup" => job[v].id = 0
      /\ \A v \in HedgeWorker : Owns(v) => job[v].id \in 1 .. issued
      /\ \A u, v \in HedgeWorker : Owns(u) /\ Owns(v) /\ job[u].id = job[v].id => u = v
      /\ \A i \in HedgeId : i > issued => Unborn(i)
      /\ \A v \in HedgeWorker, step \in Early \cup Running \cup Done, i \in HedgeId :
           pc[v] = step /\ job[v].id = i => Stage(step, i)
      /\ \A i \in 1 .. issued : (\A v \in HedgeWorker : Owns(v) => job[v].id # i) => Settled(i)
  BY Zenon DEF HedgeBasic, HedgeControl
<1>5. 1 .. issued \subseteq HedgeId /\ id \in 1 .. issued /\ issued \in Nat
  BY <1>4, IdsIssued, Zenon DEF HedgeBasic
<1>6. \A v \in HedgeWorker \ {w} : Owns(v) => job[v].id \in HedgeId \ {id}
  BY <1>4, <1>5, Zenon
<1>7. Looking' = Looking
  BY <1>1, <1>2, Zenon DEF Looking
<1>8. \A v \in HedgeWorker : pc'[v] = "lookup" => job'[v].id = 0
  BY <1>1, <1>2, <1>4, Zenon
<1>9. \A v \in HedgeWorker : Owns(v)' => job'[v].id \in 1 .. issued
  BY <1>1, <1>2, <1>3, <1>4, <1>5, ZenonT(30) DEF Owns
<1>10. \A u, v \in HedgeWorker : Owns(u)' /\ Owns(v)' /\ job'[u].id = job'[v].id => u = v
  <2>1. Owns(w)' => job'[w].id = id
    BY <1>1, <1>2, Zenon DEF Owns
  <2> QED
    BY <1>1, <1>3, <1>4, <1>6, <2>1, ZenonT(30)
<1>11. ASSUME NEW i \in HedgeId, i > issued PROVE Unborn(i)'
  <2>1. i # id
    BY <1>5, <1>11
  <2>2. SameRecords(i)
    BY <2>1, Zenon DEF OnlyAbout
  <2> QED
    BY <1>4, <1>11, <2>2, RecordsKept, Zenon
<1>12. ASSUME NEW v \in HedgeWorker, NEW step \in Early \cup Running \cup Done, NEW i \in HedgeId,
              pc'[v] = step, job'[v].id = i
       PROVE  Stage(step, i)'
  <2>1. CASE v = w
    <3>1. step = next /\ i = id /\ Stage(next, id)'
      BY <1>1, <1>2, <1>12, <2>1, Zenon
    <3> QED
      BY <3>1, Zenon
  <2>2. CASE v # w
    <3>1. pc[v] = step /\ job[v].id = i /\ i # id
      BY <1>1, <1>6, <1>12, <2>2, Zenon DEF Owns
    <3>2. Stage(step, i) /\ SameRecords(i)
      BY <1>4, <3>1, Zenon DEF OnlyAbout
    <3> QED
      BY <3>2, RecordsKept, Zenon
  <2> QED
    BY <2>1, <2>2, Zenon
<1>13. ASSUME NEW i \in 1 .. issued, \A v \in HedgeWorker : Owns(v)' => job'[v].id # i
       PROVE  Settled(i)'
  <2>1. CASE i = id
    <3>1. ~ Owns(w)' \/ job'[w].id # id
      BY <1>13, <2>1, Zenon
    <3>2. next = "idle" /\ Settled(id)'
      BY <1>1, <3>1, Zenon DEF Owns
    <3> QED
      BY <2>1, <3>2, Zenon
  <2>2. CASE i # id
    <3>1. \A v \in HedgeWorker : Owns(v) => job[v].id # i
      BY <1>1, <1>3, <1>13, <2>2, Zenon
    <3>2. Settled(i) /\ SameRecords(i)
      BY <1>4, <1>5, <2>2, <3>1, Zenon DEF OnlyAbout
    <3> QED
      BY <3>2, RecordsKept, Zenon
  <2> QED
    BY <2>1, <2>2, Zenon
<1>14. HedgeControl'
  BY <1>4, <1>7, <1>8, <1>9, <1>10, <1>11, <1>12, <1>13, ZenonT(30) DEF HedgeControl
<1>15. ASSUME NEW v \in HedgeWorker PROVE WorkerData(v)'
  <2>1. CASE v = w
    <3>1. CASE next = "idle"
      BY <1>1, <2>1, <3>1, Zenon DEF WorkerData, Early, Running, Done
    <3> QED
      BY <2>1, <3>1, Zenon
  <2>2. CASE v # w
    <3>1. WorkerData(v) /\ pc'[v] = pc[v] /\ job'[v] = job[v]
      BY <1>1, <2>2, Zenon DEF HedgeBasic, HedgeData
    <3>2. CASE Owns(v)
      <4>1. hedges'[job[v].id] = hedges[job[v].id]
        BY <1>6, <2>2, <3>2, Zenon DEF OnlyAbout, SameRecords
      <4> QED
        BY <3>1, <4>1, Zenon DEF WorkerData
    <3>3. CASE ~ Owns(v)
      BY <3>1, <3>3, Zenon DEF WorkerData, Owns
    <3> QED
      BY <3>2, <3>3, Zenon
  <2> QED
    BY <2>1, <2>2, Zenon
<1>16. ASSUME NEW i \in HedgeId PROVE StoredData(i)'
  <2>1. CASE i # id
    <3>1. StoredData(i) /\ SameRecords(i)
      BY <2>1, Zenon DEF HedgeBasic, HedgeData, OnlyAbout
    <3> QED
      BY <3>1, RecordsKept, Zenon
  <2> QED
    BY <2>1, Zenon
<1> QED
  BY <1>14, <1>15, <1>16 DEF HedgeBasic, HedgeData

(* The types after a step. *)
LEMMA TypesAfter ==
  ASSUME NEW w, NEW here, NEW next, Moves(w, here, next), StoreTypeOK', AuditTypeOK',
         answers' \in SUBSET (RequestId \X HedgeId), published' \in [HedgeId -> Nat],
         coverage' \in [Currency -> Int]
  PROVE  HedgeTypes'
BY Zenon DEF HedgeTypes, Moves

(* A step that leaves the stored hedges and their records alone. *)
LEMMA QuietStep ==
  ASSUME HedgeBasic, HedgeTypes', NEW w \in HedgeWorker, NEW here, NEW next, Moves(w, here, next),
         \/ here \in Early /\ next \in Early
         \/ here \in Running /\ next \in Running
         \/ here = "cover" /\ next = "announce",
         UNCHANGED <<hedges, published, issued>>, job'[w].id = job[w].id, WorkerData(w)',
         \A i \in HedgeId, t \in HedgeEvents : audit'[t][i] = audit[t][i]
  PROVE  HedgeBasic'
<1>1. pc[w] = here
  BY Zenon DEF Moves
<1>2. Owns(w) /\ next \in Early \cup Running \cup Done
  BY <1>1, Zenon DEF Owns, Done
<1>3. PICK id \in HedgeId : id = job[w].id
  BY <1>2, OwnId, Zenon
<1>4. Stage(here, id) /\ StoredData(id)
  BY <1>1, <1>2, <1>3, OwnId, SMTT(30) DEF HedgeBasic, HedgeData
<1>5. \A i \in HedgeId : SameRecords(i)
  BY Zenon DEF SameRecords
<1>6. Stage(here, id)' /\ StoredData(id)'
  BY <1>4, <1>5, RecordsKept, Zenon
<1>7. Stage(next, id)'
  BY <1>6, Zenon DEF Stage, Early, Running, Done
<1>8. OnlyAbout(id)
  BY <1>5, Zenon DEF OnlyAbout
<1>9. job[w].id = id /\ job'[w].id = id /\ issued' = issued
  BY <1>3, Zenon
<1> QED
  BY <1>2, <1>6, <1>7, <1>8, <1>9, StepFrame, ZenonT(30)

(* CreateHedge and UpdateHedge of the store, on one hedge. *)
LEMMA StorePut ==
  ASSUME StoreTypeOK, NEW id \in HedgeId, NEW h \in Hedge, UNCHANGED <<issued, trades>>,
         StoreHedge(id, h) \/ UpdateHedge(id, h)
  PROVE  /\ StoreTypeOK' /\ hedges'[id] = h /\ UNCHANGED <<samples, pnlRows>>
         /\ \A i \in HedgeId \ {id} : hedges'[i] = hedges[i]
<1>1. hedges' = [hedges EXCEPT ![id] = h] /\ UNCHANGED <<samples, pnlRows>>
  BY Zenon DEF StoreHedge, UpdateHedge
<1>2. byReq' \in [RequestId -> HedgeId \cup {NoHedge}]
  BY Zenon DEF StoreHedge, UpdateHedge, StoreTypeOK
<1>3. hedges' \in [HedgeId -> Hedge \cup {NoHedge}]
  BY <1>1, Zenon DEF StoreTypeOK
<1> QED
  BY <1>1, <1>2, <1>3, Zenon DEF StoreTypeOK

(* The answers are pairs of a request id and a hedge id. *)
LEMMA AnswerTyped ==
  ASSUME answers \in SUBSET (RequestId \X HedgeId), NEW w, NEW id \in HedgeId, Answer(w, id)
  PROVE  answers' \in SUBSET (RequestId \X HedgeId)
BY Zenon DEF Answer

(* Handlers that look up their request are counted one by one. *)
LEMMA LookingCount ==
  ASSUME NEW w \in HedgeWorker, \A v \in HedgeWorker \ {w} : pc'[v] = pc[v]
  PROVE  /\ Cardinality(Looking) \in Nat
         /\ pc[w] # "lookup" /\ pc'[w] = "lookup" => Cardinality(Looking)' = Cardinality(Looking) + 1
         /\ pc[w] = "lookup" /\ pc'[w] # "lookup" => Cardinality(Looking)' = Cardinality(Looking) - 1
<1>1. IsFiniteSet(Looking) /\ IsFiniteSet(Looking')
  BY HedgeAssumption, FS_Subset, Zenon DEF Looking
<1>2. Cardinality(Looking) \in Nat /\ Cardinality(Looking') \in Nat
  BY <1>1, FS_CardinalityType, Zenon
<1>3. CASE pc[w] # "lookup" /\ pc'[w] = "lookup"
  <2>1. Looking' = Looking \cup {w} /\ w \notin Looking
    BY <1>3 DEF Looking
  <2> QED
    BY <1>1, <1>2, <1>3, <2>1, FS_AddElement, ZenonT(30)
<1>4. CASE pc[w] = "lookup" /\ pc'[w] # "lookup"
  <2>1. Looking = Looking' \cup {w} /\ w \notin Looking'
    BY <1>4 DEF Looking
  <2>2. Cardinality(Looking) = Cardinality(Looking') + 1
    BY <1>1, <2>1, FS_AddElement, Zenon
  <2> QED
    BY <1>2, <1>4, <2>2, SMTT(30)
<1> QED
  BY <1>2, <1>3, <1>4, Zenon

(* A step that takes no id and records nothing: a request that arrives, or *)
(* one that is answered with the hedge it had made before.                 *)
LEMMA IdleFrame ==
  ASSUME HedgeBasic, HedgeTypes', NEW w \in HedgeWorker, NEW here, NEW next, Moves(w, here, next),
         \/ here = "idle" /\ next = "lookup"
         \/ here = "lookup" /\ next = "idle",
         UNCHANGED <<hedges, published, audit, issued>>,
         issued + Cardinality(Looking)' <= Cardinality(HedgeId),
         next = "lookup" => job'[w].id = 0, WorkerData(w)'
  PROVE  HedgeBasic'
<1>1. /\ pc[w] = here /\ pc'[w] = next
      /\ \A v \in HedgeWorker \ {w} : pc'[v] = pc[v] /\ job'[v] = job[v]
  BY Zenon DEF Moves
<1>2. \A v \in HedgeWorker : (Owns(v)' <=> Owns(v)) /\ (Owns(v) => job'[v] = job[v] /\ pc'[v] = pc[v])
  BY <1>1, Zenon DEF Owns, Early, Running, Done
<1>3. /\ \A v \in HedgeWorker : pc[v] = "lookup" => job[v].id = 0
      /\ \A v \in HedgeWorker : Owns(v) => job[v].id \in 1 .. issued
      /\ \A u, v \in HedgeWorker : Owns(u) /\ Owns(v) /\ job[u].id = job[v].id => u = v
      /\ \A i \in HedgeId : i > issued => Unborn(i)
      /\ \A v \in HedgeWorker, step \in Early \cup Running \cup Done, i \in HedgeId :
           pc[v] = step /\ job[v].id = i => Stage(step, i)
      /\ \A i \in 1 .. issued : (\A v \in HedgeWorker : Owns(v) => job[v].id # i) => Settled(i)
  BY Zenon DEF HedgeBasic, HedgeControl
<1>4. \A i : SameRecords(i)
  BY Zenon DEF SameRecords
<1>5. \A v \in HedgeWorker : pc'[v] = "lookup" => job'[v].id = 0
  BY <1>1, <1>3, Zenon
<1>6. \A v \in HedgeWorker : Owns(v)' => job'[v].id \in 1 .. issued
  BY <1>2, <1>3, Zenon
<1>7. \A u, v \in HedgeWorker : Owns(u)' /\ Owns(v)' /\ job'[u].id = job'[v].id => u = v
  BY <1>2, <1>3, Zenon
<1>8. \A i \in HedgeId : i > issued => Unborn(i)'
  BY <1>3, <1>4, RecordsKept, Zenon
<1>9. ASSUME NEW v \in HedgeWorker, NEW step \in Early \cup Running \cup Done, NEW i \in HedgeId,
             pc'[v] = step, job'[v].id = i
      PROVE  Stage(step, i)'
  <2>1. pc[v] = step /\ job[v].id = i
    BY <1>2, <1>9, Zenon DEF Owns
  <2> QED
    BY <1>3, <1>4, <2>1, RecordsKept, Zenon
<1>10. \A i \in 1 .. issued : (\A v \in HedgeWorker : Owns(v)' => job'[v].id # i) => Settled(i)'
  <2>1. \A i \in 1 .. issued : (\A v \in HedgeWorker : Owns(v)' => job'[v].id # i) => Settled(i)
    BY <1>2, <1>3, Zenon
  <2> QED
    BY <1>4, <2>1, RecordsKept, Zenon
<1>11. HedgeControl'
  BY <1>5, <1>6, <1>7, <1>8, <1>9, <1>10, ZenonT(30) DEF HedgeControl
<1>12. ASSUME NEW v \in HedgeWorker PROVE WorkerData(v)'
  <2>1. CASE v # w
    <3>1. WorkerData(v) /\ pc'[v] = pc[v] /\ job'[v] = job[v]
      BY <1>1, <2>1, Zenon DEF HedgeBasic, HedgeData
    <3> QED
      BY <3>1, Zenon DEF WorkerData
  <2> QED
    BY <2>1, Zenon
<1>13. \A i \in HedgeId : StoredData(i)'
  BY <1>4, RecordsKept, Zenon DEF HedgeBasic, HedgeData
<1> QED
  BY <1>11, <1>12, <1>13, ZenonT(30) DEF HedgeBasic, HedgeData

(* Every step of POST /v1/hedges keeps the records of the hedges in line   *)
(* with the handlers.                                                      *)
LEMMA HandlerBasic ==
  ASSUME HedgeBasic, NEW w \in HedgeWorker, ReceiveHedge(w) \/ HandlerStep(w)
  PROVE  HedgeBasic'
<1>1. CASE ReceiveHedge(w)
  <2> USE <1>1
  <2>1. /\ Moves(w, "idle", "lookup") /\ job'[w].id = 0 /\ Unfilled(job'[w].h)
        /\ job'[w].todo = <<>> /\ job'[w].executed = 0
    BY ReceiveMoves, Zenon DEF HedgeBasic
  <2>2. UNCHANGED <<hedges, byReq, samples, pnlRows, issued, trades, answers, published, coverage, audit>>
    BY Zenon DEF ReceiveHedge, storeVars, trackerVars, positionVars
  <2>3. pc[w] = "idle" /\ pc'[w] = "lookup" /\ \A v \in HedgeWorker \ {w} : pc'[v] = pc[v]
    BY <2>1, Zenon DEF Moves
  <2>4. issued + Cardinality(Looking) < Cardinality(HedgeId)
    BY Zenon DEF ReceiveHedge, Looking
  <2>5. Cardinality(HedgeId) \in Nat /\ issued \in Nat
    BY IdsIssued, Zenon DEF HedgeBasic
  <2>6. Cardinality(Looking) \in Nat /\ Cardinality(Looking)' = Cardinality(Looking) + 1
    BY <2>3, LookingCount, Zenon
  <2>7. issued + Cardinality(Looking)' <= Cardinality(HedgeId)
    BY <2>4, <2>5, <2>6, SMTT(30)
  <2>8. HedgeTypes'
    BY <2>1, <2>2, TypesAfter, ZenonT(30) DEF HedgeBasic, HedgeTypes, StoreTypeOK, AuditTypeOK
  <2>9. WorkerData(w)'
    BY <2>1, <2>3, SMTT(30) DEF WorkerData, Early, Running, Done
  <2> QED
    BY <2>1, <2>2, <2>7, <2>8, <2>9, IdleFrame, ZenonT(30)
<1>2. CASE LookupRequest(w)
  <2> USE <1>2
  <2>1. UNCHANGED <<hedges, byReq, samples, pnlRows, trades, published, coverage, audit>>
    BY Zenon DEF LookupRequest, storeVars, trackerVars, positionVars
  <2>2. pc[w] = "lookup" /\ WorkerData(w)
    BY Zenon DEF LookupRequest, Finish, At, HedgeBasic, HedgeData
  <2>3. /\ issued + Cardinality(Looking) <= Cardinality(HedgeId)
        /\ Cardinality(HedgeId) \in Nat /\ issued \in Nat /\ HedgeId = 1 .. Cardinality(HedgeId)
    BY IdsIssued, Zenon DEF HedgeBasic, HedgeControl
  <2>4. HedgeTypes /\ AuditTypeOK' /\ answers \in SUBSET (RequestId \X HedgeId)
    BY <2>1 DEF HedgeBasic, HedgeTypes, AuditTypeOK
  <2>5. Cardinality(Looking) \in Nat
    BY HedgeAssumption, FS_Subset, FS_CardinalityType, Zenon DEF Looking
  <2>6. CASE /\ Finish(w, "lookup") /\ GetHedgeByClientRequest(job[w].h.request) # NoHedge
             /\ Answer(w, GetHedgeByClientRequest(job[w].h.request)) /\ UNCHANGED issued
    <3>1. Moves(w, "lookup", "idle")
      BY <2>4, <2>6, MovesOut, ZenonT(30)
    <3>2. pc'[w] = "idle" /\ \A v \in HedgeWorker \ {w} : pc'[v] = pc[v]
      BY <3>1, Zenon DEF Moves
    <3>3. Cardinality(Looking)' = Cardinality(Looking) - 1
      BY <2>2, <3>2, LookingCount, Zenon
    <3>4. issued + Cardinality(Looking)' <= Cardinality(HedgeId)
      BY <2>3, <2>5, <3>3, SMTT(30)
    <3>5. job[w].h.request \in RequestId \cup {NoRequestId}
      BY <2>2, <2>4, Serves, HedgeFields, Zenon
    <3>6. GetHedgeByClientRequest(job[w].h.request) \in HedgeId
      BY <2>4, <2>6, <3>5, Zenon DEF GetHedgeByClientRequest, HedgeTypes, StoreTypeOK
    <3>7. answers' \in SUBSET (RequestId \X HedgeId)
      BY <2>4, <2>6, <3>6, AnswerTyped, Zenon
    <3>8. HedgeTypes'
      BY <2>1, <2>4, <2>6, <3>1, <3>7, TypesAfter, ZenonT(30) DEF HedgeTypes, StoreTypeOK
    <3>9. WorkerData(w)'
      BY <3>2, Zenon DEF WorkerData, Early, Running, Done
    <3> QED
      BY <2>1, <2>6, <3>1, <3>4, <3>8, <3>9, IdleFrame, ZenonT(30)
  <2>7. CASE /\ At(w, "lookup", "policy") /\ issued' = issued + 1
             /\ job' = [job EXCEPT ![w].id = issued + 1] /\ UNCHANGED answers
    <3>1. \A v \in HedgeWorker \ {w} : pc'[v] = pc[v]
      BY <2>7 DEF At
    <3>2. pc'[w] = "policy"
      BY <2>4, <2>7, Zenon DEF At, HedgeTypes
    <3>3. Cardinality(Looking)' = Cardinality(Looking) - 1 /\ Cardinality(Looking)' \in Nat
      BY <2>2, <2>5, <3>1, <3>2, LookingCount, HedgeAssumption, FS_Subset, FS_CardinalityType, ZenonT(30) DEF Looking
    <3>4. issued' + Cardinality(Looking)' <= Cardinality(HedgeId) /\ issued + 1 \in HedgeId
          /\ issued' \in 0 .. Cardinality(HedgeId)
      BY <2>3, <2>5, <2>7, <3>3, SMTT(30)
    <3>5. /\ Moves(w, "lookup", "policy") /\ SameFills(w)
          /\ job'[w].id = issued + 1 /\ job'[w].h = job[w].h
      BY <2>4, <2>7, <3>4, LookupMoves, Zenon
    <3>6. \A v \in HedgeWorker \ {w} : pc'[v] = pc[v] /\ job'[v] = job[v]
      BY <3>5, Zenon DEF Moves
    <3>7. HedgeTypes'
      BY <2>1, <2>4, <2>7, <3>4, <3>5, TypesAfter, ZenonT(30) DEF HedgeTypes, StoreTypeOK
    <3>8. \A v \in HedgeWorker \ {w} : Owns(v)' <=> Owns(v)
      BY <3>6, Zenon DEF Owns
    <3>9. ~ Owns(w) /\ Owns(w)' /\ "policy" \in Early
      BY <2>2, <3>2, Zenon DEF Owns, Early, Running, Done
    <3>10. /\ \A v \in HedgeWorker : pc[v] = "lookup" => job[v].id = 0
           /\ \A v \in HedgeWorker : Owns(v) => job[v].id \in 1 .. issued
           /\ \A u, v \in HedgeWorker : Owns(u) /\ Owns(v) /\ job[u].id = job[v].id => u = v
           /\ \A i \in HedgeId : i > issued => Unborn(i)
           /\ \A v \in HedgeWorker, step \in Early \cup Running \cup Done, i \in HedgeId :
                pc[v] = step /\ job[v].id = i => Stage(step, i)
           /\ \A i \in 1 .. issued : (\A v \in HedgeWorker : Owns(v) => job[v].id # i) => Settled(i)
      BY Zenon DEF HedgeBasic, HedgeControl
    <3>11. \A i : SameRecords(i)
      BY <2>1, Zenon DEF SameRecords
    <3>12. \A v \in HedgeWorker : pc'[v] = "lookup" => job'[v].id = 0
      BY <3>2, <3>6, <3>10, ZenonT(30)
    <3>13. \A v \in HedgeWorker : Owns(v)' => job'[v].id \in 1 .. issued'
      BY <2>3, <2>7, <3>5, <3>6, <3>8, <3>10, SMTT(30)
    <3>14. \A u, v \in HedgeWorker : Owns(u)' /\ Owns(v)' /\ job'[u].id = job'[v].id => u = v
      <4> SUFFICES ASSUME NEW u \in HedgeWorker, NEW v \in HedgeWorker,
                          Owns(u)', Owns(v)', job'[u].id = job'[v].id
                   PROVE  u = v
        BY Zenon
      <4>0. \A i \in 1 .. issued : i # issued + 1
        BY <2>3
      <4>1. \A x \in HedgeWorker \ {w} : Owns(x)' => job'[x].id # issued + 1
        BY <3>6, <3>8, <3>10, <4>0, Zenon
      <4>2. CASE u = w \/ v = w
        BY <3>5, <4>1, <4>2, Zenon
      <4>3. CASE u # w /\ v # w
        BY <3>6, <3>8, <3>10, <4>3, ZenonT(30)
      <4> QED
        BY <4>2, <4>3, Zenon
    <3>15. \A i \in HedgeId : i > issued' => Unborn(i)'
      BY <2>3, <2>7, <3>10, <3>11, RecordsKept, SMTT(30)
    <3>16. ASSUME NEW v \in HedgeWorker, NEW step \in Early \cup Running \cup Done, NEW i \in HedgeId,
                  pc'[v] = step, job'[v].id = i
           PROVE  Stage(step, i)'
      <4>1. CASE v = w
        <5>1. step = "policy" /\ i = issued + 1
          BY <3>2, <3>5, <3>16, <4>1, ZenonT(30)
        <5>2. Unborn(i)
          BY <2>3, <3>10, <5>1, SMTT(30)
        <5>3. Stage(step, i)
          BY <5>1, <5>2, Zenon DEF Stage, Early, Running, Done
        <5> QED
          BY <3>11, <5>3, RecordsKept, SMTT(30)
      <4>2. CASE v # w
        BY <3>6, <3>10, <3>11, <3>16, <4>2, RecordsKept, ZenonT(30)
      <4> QED
        BY <4>1, <4>2, Zenon
    <3>17. ASSUME NEW i \in 1 .. issued', \A v \in HedgeWorker : Owns(v)' => job'[v].id # i
           PROVE  Settled(i)'
      <4>1. i \in 1 .. issued
        BY <2>3, <2>7, <3>5, <3>9, <3>17, SMTT(30)
      <4>2. \A v \in HedgeWorker : Owns(v) => job[v].id # i
        BY <3>6, <3>8, <3>9, <3>17, Zenon
      <4> QED
        BY <3>10, <3>11, <4>1, <4>2, RecordsKept, ZenonT(30)
    <3>18. HedgeControl'
      BY <3>4, <3>12, <3>13, <3>14, <3>15, <3>16, <3>17, ZenonT(30) DEF HedgeControl
    <3>19. ASSUME NEW v \in HedgeWorker PROVE WorkerData(v)'
      <4>1. CASE v = w
        BY <2>2, <3>2, <3>5, <4>1, ZenonT(30) DEF WorkerData, SameFills, Unfilled, Early, Running, Done
      <4>2. CASE v # w
        <5>1. WorkerData(v) /\ pc'[v] = pc[v] /\ job'[v] = job[v]
          BY <3>6, <4>2, Zenon DEF HedgeBasic, HedgeData
        <5> QED
          BY <2>1, <5>1, Zenon DEF WorkerData
      <4> QED
        BY <4>1, <4>2, ZenonT(30)
    <3>20. \A i \in HedgeId : StoredData(i)'
      BY <3>11, RecordsKept, ZenonT(30) DEF HedgeBasic, HedgeData
    <3> QED
      BY <3>7, <3>18, <3>19, <3>20, ZenonT(30) DEF HedgeBasic, HedgeData
  <2> QED
    BY <2>6, <2>7, SMTT(30) DEF LookupRequest
<1>3. CASE ReadPolicy(w)
  <2> USE <1>3
  <2>1. Moves(w, "policy", "quote") /\ SameRequest(w) /\ SameFills(w)
    BY PolicyMoves, Zenon DEF HedgeBasic
  <2>2. UNCHANGED <<hedges, byReq, samples, pnlRows, issued, trades, answers, published, coverage>>
    BY Zenon DEF ReadPolicy, storeVars, trackerVars, positionVars
  <2>3. pc[w] = "policy" /\ pc'[w] = "quote"
    BY <2>1, Zenon DEF Moves
  <2>4. Owns(w) /\ "policy" \in Early /\ "quote" \in Early
    BY <2>3, Zenon DEF Owns, Early
  <2>5. job[w].id \in HedgeId /\ WorkerData(w)
    BY <2>4, OwnId, Zenon
  <2>6. \/ emit("cap_breach", job[w].id)
        \/ UNCHANGED audit
    BY Zenon DEF ReadPolicy
  <2>7. AuditTypeOK /\ StoreTypeOK
    BY Zenon DEF HedgeBasic, HedgeTypes
  <2>8. AuditTypeOK' /\ \A i \in HedgeId, t \in HedgeEvents : audit'[t][i] = audit[t][i]
    <3>1. CASE UNCHANGED audit
      BY <2>7, <3>1, Zenon DEF AuditTypeOK
    <3>2. CASE emit("cap_breach", job[w].id)
      BY <2>5, <2>7, <3>2, EmitOther, ZenonT(30)
    <3> QED
      BY <2>6, <3>1, <3>2, Zenon
  <2>9. HedgeTypes'
    BY <2>1, <2>2, <2>7, <2>8, TypesAfter, ZenonT(30) DEF HedgeBasic, HedgeTypes, StoreTypeOK
  <2>10. WorkerData(w)'
    BY <2>1, <2>3, <2>5, ZenonT(30) DEF WorkerData, SameRequest, SameFills, Unfilled, Early, Running, Done
  <2> QED
    BY <2>1, <2>2, <2>4, <2>8, <2>9, <2>10, QuietStep, ZenonT(30) DEF SameRequest
<1>4. CASE QuoteFails(w) \/ ExecuteFails(w)
  <2> USE <1>4
  <2>1. PICK here \in {"quote", "execute"} :
          /\ Finish(w, here)
          /\ here = "quote" =>
               StoreHedge(job[w].id, [job[w].h EXCEPT !.status = "FAILED"])
          /\ here = "execute" =>
               UpdateHedge(job[w].id, [hedges[job[w].id] EXCEPT !.status = "FAILED"])
          /\ emit("hedge_failed", job[w].id) /\ Answer(w, job[w].id)
          /\ UNCHANGED <<issued, trades, published, coverage>>
    BY Zenon DEF QuoteFails, ExecuteFails, trackerVars, positionVars
  <2>2. Moves(w, here, "idle")
    BY <2>1, MovesOut, Zenon DEF HedgeBasic
  <2>3. pc[w] = here /\ Owns(w)
    BY <2>2, Zenon DEF Moves, Owns, Early, Running
  <2>4. PICK id \in HedgeId : id = job[w].id
    BY <2>3, OwnId, ZenonT(30)
  <2>5. job[w].h \in Hedge /\ WorkerData(w) /\ Stage(here, id)
    BY <2>3, <2>4, OwnId, ZenonT(30)
  <2>6. StoreTypeOK /\ AuditTypeOK /\ answers \in SUBSET (RequestId \X HedgeId)
    BY Zenon DEF HedgeBasic, HedgeTypes
  <2>7. PICK h \in Hedge :
          /\ StoreHedge(id, h) \/ UpdateHedge(id, h)
          /\ h.status = "FAILED" /\ Unfilled(h) /\ h # NoHedge
    <3>1. CASE here = "quote"
      <4> DEFINE h == [job[w].h EXCEPT !.status = "FAILED"]
      <4>1. h \in Hedge
        BY <2>5, HedgeSet, ZenonT(30) DEF HedgeStatus
      <4>2. h.status = "FAILED" /\ Unfilled(h)
        BY <2>3, <2>5, <3>1, ZenonT(30) DEF WorkerData, Early, Unfilled, Hedge
      <4>3. StoreHedge(id, h)
        BY <2>1, <2>4, <3>1, ZenonT(30)
      <4> HIDE DEF h
      <4> QED
        BY <4>1, <4>2, <4>3, HedgeFields, ZenonT(30)
    <3>2. CASE here = "execute"
      <4> DEFINE h == [hedges[id] EXCEPT !.status = "FAILED"]
      <4>0. hedges[id] # NoHedge /\ hedges[id].status = "EXECUTING"
        BY <2>5, <3>2, ZenonT(30) DEF Stage, HasStatus, Running
      <4>1. hedges[id] \in Hedge /\ Unfilled(hedges[id])
        BY <2>6, <4>0, Zenon DEF StoreTypeOK, HedgeBasic, HedgeData, StoredData
      <4>2. h \in Hedge
        BY <4>1, HedgeSet, Zenon DEF HedgeStatus
      <4>3. h.status = "FAILED" /\ Unfilled(h)
        BY <4>1, Zenon DEF Unfilled, Hedge
      <4>4. UpdateHedge(id, h)
        BY <2>1, <2>4, <3>2, ZenonT(30)
      <4> HIDE DEF h
      <4> QED
        BY <4>2, <4>3, <4>4, HedgeFields, ZenonT(30)
    <3> QED
      BY <3>1, <3>2, ZenonT(30)
  <2>8. /\ StoreTypeOK' /\ hedges'[id] = h
        /\ \A i \in HedgeId \ {id} : hedges'[i] = hedges[i]
    BY <2>1, <2>6, <2>7, StorePut, ZenonT(30)
  <2>9. /\ AuditTypeOK'
        /\ \A s \in EventType, i \in HedgeId :
             audit'[s][i] = IF s = "hedge_failed" /\ i = id THEN audit[s][i] + 1 ELSE audit[s][i]
    BY <2>1, <2>4, <2>6, EmitTally, SMTT(30) DEF EventType
  <2>10. answers' \in SUBSET (RequestId \X HedgeId)
    BY <2>1, <2>4, <2>6, AnswerTyped, ZenonT(30)
  <2>11. HedgeTypes'
    BY <2>1, <2>2, <2>8, <2>9, <2>10, TypesAfter, ZenonT(30) DEF HedgeBasic, HedgeTypes
  <2>12. OnlyAbout(id)
    BY <2>1, <2>8, <2>9, ZenonT(30) DEF OnlyAbout, SameRecords, HedgeEvents, EventType
  <2>13. \E n \in {0, 1} : Tally(id, n, 0, 0, 0) /\ published[id] = 0
    BY <2>5, Zenon DEF Stage, Unborn, Early, Running
  <2>14. \E n \in {0, 1} : Tally(id, n, 0, 1, 0)' /\ published'[id] = 0
    BY <2>1, <2>9, <2>13, SMTT(30) DEF Tally, EventType
  <2>15. Settled(id)'
    BY <2>7, <2>8, <2>14, Zenon DEF Settled, HasStatus
  <2>16. StoredData(id)'
    BY <2>7, <2>8, Zenon DEF StoredData
  <2>17. job[w].id = id
    BY <2>4, ZenonT(30)
  <2> QED
    BY <2>1, <2>2, <2>3, <2>11, <2>12, <2>15, <2>16, <2>17, StepFrame, ZenonT(30)
<1>5. CASE Quote(w)
  <2> USE <1>5
  <2>1. /\ Moves(w, "quote", "store") /\ SameRequest(w) /\ SameFills(w)
        /\ job'[w].h.quotedRate > 0
    BY QuoteMoves, Zenon DEF HedgeBasic
  <2>2. UNCHANGED <<hedges, byReq, samples, pnlRows, issued, trades, answers, published, coverage, audit>>
    BY Zenon DEF Quote, storeVars, trackerVars, positionVars
  <2>3. pc[w] = "quote" /\ pc'[w] = "store"
    BY <2>1, Zenon DEF Moves
  <2>4. Owns(w) /\ "quote" \in Early /\ "store" \in Early
    BY <2>3, Zenon DEF Owns, Early
  <2>5. job[w].id \in HedgeId /\ WorkerData(w)
    BY <2>4, OwnId, Zenon
  <2>8. AuditTypeOK' /\ \A i \in HedgeId, t \in HedgeEvents : audit'[t][i] = audit[t][i]
    BY <2>2, Zenon DEF AuditTypeOK, HedgeBasic, HedgeTypes
  <2>9. HedgeTypes'
    BY <2>1, <2>2, <2>8, TypesAfter, ZenonT(30) DEF HedgeBasic, HedgeTypes, StoreTypeOK
  <2>10. WorkerData(w)'
    BY <2>1, <2>3, <2>5, ZenonT(30) DEF WorkerData, SameRequest, SameFills, Unfilled, Early, Running, Done
  <2> QED
    BY <2>1, <2>2, <2>4, <2>8, <2>9, <2>10, QuietStep, ZenonT(30) DEF SameRequest
<1>6. CASE Create(w)
  <2> USE <1>6
  <2>1. /\ Moves(w, "store", "execute") /\ SameRequest(w) /\ SameFills(w)
        /\ job'[w].h.quotedRate = job[w].h.quotedRate
    BY CreateMoves, Zenon DEF HedgeBasic
  <2>2. pc[w] = "store" /\ pc'[w] = "execute" /\ Owns(w)
    BY <2>1, Zenon DEF Moves, Owns, Early
  <2>3. PICK id \in HedgeId : id = job[w].id
    BY <2>2, OwnId, Zenon
  <2>4. /\ job[w].h \in Hedge /\ WorkerData(w) /\ Stage("store", id)
        /\ Unfilled(job[w].h) /\ job[w].todo = <<>> /\ job[w].executed = 0
    BY <2>2, <2>3, OwnId, Zenon DEF WorkerData, Early
  <2>5. PICK h \in Hedge : h = [job[w].h EXCEPT !.status = "EXECUTING"]
    BY <2>4, HedgeSet, ZenonT(30) DEF HedgeStatus
  <2>6. /\ h.status = "EXECUTING" /\ h.currency = job[w].h.currency /\ h.notional = job[w].h.notional
        /\ h.request = job[w].h.request /\ h # NoHedge /\ Unfilled(h)
    BY <2>4, <2>5, HedgeFields, ZenonT(30) DEF Hedge, Unfilled
  <2>7. /\ StoreHedge(id, h) /\ emit("hedge_created", id)
        /\ UNCHANGED <<issued, trades, answers, published, coverage>>
    BY <2>3, <2>5, ZenonT(30) DEF Create, trackerVars, positionVars
  <2>8. StoreTypeOK /\ AuditTypeOK
    BY ZenonT(30) DEF HedgeBasic, HedgeTypes
  <2>9. /\ StoreTypeOK' /\ hedges'[id] = h /\ UNCHANGED <<samples, pnlRows>>
        /\ \A i \in HedgeId \ {id} : hedges'[i] = hedges[i]
    BY <2>7, <2>8, StorePut, ZenonT(30)
  <2>10. /\ AuditTypeOK'
         /\ \A s \in EventType, i \in HedgeId :
              audit'[s][i] = IF s = "hedge_created" /\ i = id THEN audit[s][i] + 1 ELSE audit[s][i]
    BY <2>7, <2>8, EmitTally, SMTT(30) DEF EventType
  <2>11. HedgeTypes'
    BY <2>1, <2>7, <2>9, <2>10, TypesAfter, ZenonT(30) DEF HedgeBasic, HedgeTypes
  <2>12. OnlyAbout(id)
    BY <2>7, <2>9, <2>10, ZenonT(30) DEF OnlyAbout, SameRecords, HedgeEvents, EventType
  <2>13. Tally(id, 0, 0, 0, 0) /\ published[id] = 0
    BY <2>4, Zenon DEF Stage, Unborn, Early
  <2>14. Tally(id, 1, 0, 0, 0)' /\ published'[id] = 0
    <3>1. /\ audit'["hedge_created"][id] = audit["hedge_created"][id] + 1
          /\ audit'["hedge_executed"][id] = audit["hedge_executed"][id]
          /\ audit'["hedge_failed"][id] = audit["hedge_failed"][id]
          /\ audit'["pnl_entry"][id] = audit["pnl_entry"][id]
      BY <2>10, Zenon DEF EventType
    <3>2. published'[id] = 0
      BY <2>7, <2>13, ZenonT(30)
    <3> QED
      BY <2>13, <3>1, <3>2, SMTT(30) DEF Tally
  <2>15. Stage("execute", id)'
    BY <2>6, <2>9, <2>14, ZenonT(30) DEF Stage, HasStatus, Early, Running, Done
  <2>16. StoredData(id)'
    BY <2>6, <2>9, ZenonT(30) DEF StoredData
  <2>17. WorkerData(w)'
    BY <2>1, <2>2, <2>3, <2>4, <2>6, <2>9, ZenonT(30)
       DEF WorkerData, SameRequest, SameFills, Unfilled, Early, Running, Done
  <2>18. job[w].id = id /\ job'[w].id = id /\ "execute" \in Early \cup Running \cup Done
    BY <2>1, <2>3, Zenon DEF SameRequest, Running
  <2> QED
    BY <2>1, <2>2, <2>7, <2>11, <2>12, <2>15, <2>16, <2>17, <2>18, StepFrame, ZenonT(30)
<1>7. CASE Execute(w)
  <2> USE <1>7
  <2>1. /\ Moves(w, "execute", "fills") /\ SameRequest(w)
        /\ job'[w].h.quotedRate = job[w].h.quotedRate
        /\ \E again, new \in Seq(Fill) : trades' = trades + Len(new)
    BY ExecuteMoves, Zenon DEF HedgeBasic
  <2>2. UNCHANGED <<hedges, byReq, samples, pnlRows, issued, answers, published, coverage, audit>>
    BY Zenon DEF Execute, storeVars, trackerVars, positionVars
  <2>3. pc[w] = "execute" /\ pc'[w] = "fills"
    BY <2>1, Zenon DEF Moves
  <2>4. Owns(w) /\ "execute" \in Running /\ "fills" \in Running
    BY <2>3, Zenon DEF Owns, Running
  <2>5. job[w].id \in HedgeId /\ WorkerData(w)
    BY <2>4, OwnId, ZenonT(30)
  <2>6. trades \in Nat /\ trades' \in Nat
    BY <2>1 DEF HedgeBasic, HedgeTypes, StoreTypeOK
  <2>7. AuditTypeOK' /\ \A i \in HedgeId, t \in HedgeEvents : audit'[t][i] = audit[t][i]
    BY <2>2, Zenon DEF AuditTypeOK, HedgeBasic, HedgeTypes
  <2>8. HedgeTypes'
    BY <2>1, <2>2, <2>6, <2>7, TypesAfter, ZenonT(30) DEF HedgeBasic, HedgeTypes, StoreTypeOK
  <2>9. WorkerData(w)'
    BY <2>1, <2>2, <2>3, <2>5, ZenonT(30) DEF WorkerData, SameRequest, Early, Running, Done
  <2> QED
    BY <2>1, <2>2, <2>4, <2>7, <2>8, <2>9, QuietStep, ZenonT(30) DEF SameRequest
<1>8. CASE NextFill(w)
  <2> USE <1>8
  <2>1. PICK next \in {"update", "sample", "fills"} :
          /\ Moves(w, "fills", next) /\ SameRequest(w) /\ job'[w].h = job[w].h
          /\ next = "sample" => job'[w].todo # <<>>
    BY NextFillMoves, Zenon DEF HedgeBasic, SameFills
  <2>2. UNCHANGED <<hedges, byReq, samples, pnlRows, issued, trades, answers, published, coverage, audit>>
    BY Zenon DEF NextFill, storeVars, trackerVars, positionVars
  <2>3. pc[w] = "fills" /\ pc'[w] = next
    BY <2>1, Zenon DEF Moves
  <2>4. Owns(w) /\ "fills" \in Running /\ next \in Running
    BY <2>3, Zenon DEF Owns, Running
  <2>5. job[w].id \in HedgeId /\ WorkerData(w)
    BY <2>4, OwnId, Zenon
  <2>7. AuditTypeOK' /\ \A i \in HedgeId, t \in HedgeEvents : audit'[t][i] = audit[t][i]
    BY <2>2, Zenon DEF AuditTypeOK, HedgeBasic, HedgeTypes
  <2>8. HedgeTypes'
    BY <2>1, <2>2, <2>7, TypesAfter, ZenonT(30) DEF HedgeBasic, HedgeTypes, StoreTypeOK
  <2>9. WorkerData(w)'
    BY <2>1, <2>2, <2>3, <2>5, ZenonT(30) DEF WorkerData, SameRequest, Early, Running, Done
  <2> QED
    BY <2>1, <2>2, <2>4, <2>7, <2>8, <2>9, QuietStep, ZenonT(30) DEF SameRequest
<1>9. CASE RecordSample(w)
  <2> USE <1>9
  <2>0. Owns(w) /\ pc[w] = "sample"
    BY Zenon DEF Owns, RecordSample, At, Running
  <2>1. /\ job[w].id \in HedgeId /\ WorkerData(w)
        /\ job[w].todo # <<>> /\ job[w].h.quotedRate > 0
    BY <2>0, OwnId, Zenon DEF WorkerData, Running
  <2>2. /\ Moves(w, "sample", "feed") /\ SameRequest(w)
        /\ job'[w].h.quotedRate = job[w].h.quotedRate /\ job'[w].todo = job[w].todo
        /\ \E s \in Sample : samples' = Append(samples, s)
    BY <2>1, SampleMoves, Zenon DEF HedgeBasic
  <2>3. UNCHANGED <<hedges, byReq, pnlRows, issued, trades, answers, published, coverage>>
    BY Zenon DEF RecordSample, AddSlippageSample, trackerVars, positionVars
  <2>4. pc'[w] = "feed" /\ "sample" \in Running /\ "feed" \in Running
    BY <2>2, Zenon DEF Moves, Running
  <2>5. emit("slippage_alert", job[w].id) \/ UNCHANGED audit
    BY Zenon DEF RecordSample
  <2>6. AuditTypeOK /\ samples \in Seq(Sample)
    BY Zenon DEF HedgeBasic, HedgeTypes, StoreTypeOK
  <2>7. AuditTypeOK' /\ \A i \in HedgeId, t \in HedgeEvents : audit'[t][i] = audit[t][i]
    <3>1. CASE UNCHANGED audit
      BY <2>6, <3>1, ZenonT(30) DEF AuditTypeOK
    <3>2. CASE emit("slippage_alert", job[w].id)
      BY <2>1, <2>6, <3>2, EmitOther, ZenonT(30)
    <3> QED
      BY <2>5, <3>1, <3>2, ZenonT(30)
  <2>8. samples' \in Seq(Sample)
    BY <2>2, <2>6, SampleAdded, SMTT(30)
  <2>9. HedgeTypes'
    BY <2>2, <2>3, <2>7, <2>8, TypesAfter, ZenonT(30) DEF HedgeBasic, HedgeTypes, StoreTypeOK
  <2>10. WorkerData(w)'
    BY <2>0, <2>1, <2>2, <2>3, <2>4, ZenonT(30) DEF WorkerData, SameRequest, Early, Running, Done
  <2> QED
    BY <2>2, <2>3, <2>4, <2>7, <2>9, <2>10, QuietStep, ZenonT(30) DEF SameRequest
<1>10. CASE FeedCache(w)
  <2> USE <1>10
  <2>0. Owns(w) /\ pc[w] = "feed"
    BY Zenon DEF Owns, FeedCache, At, Running
  <2>1. job[w].id \in HedgeId /\ WorkerData(w) /\ job[w].todo # <<>>
    BY <2>0, OwnId, ZenonT(30) DEF WorkerData, Running
  <2>2. Moves(w, "feed", "fills") /\ SameRequest(w) /\ job'[w].h = job[w].h
    BY <2>1, FeedMoves, ZenonT(30) DEF HedgeBasic
  <2>3. UNCHANGED <<hedges, byReq, samples, pnlRows, issued, trades, answers, published, coverage, audit>>
    BY Zenon DEF FeedCache, storeVars, trackerVars, positionVars
  <2>4. pc'[w] = "fills" /\ "feed" \in Running /\ "fills" \in Running
    BY <2>2, ZenonT(30) DEF Moves, Running
  <2>7. AuditTypeOK' /\ \A i \in HedgeId, t \in HedgeEvents : audit'[t][i] = audit[t][i]
    BY <2>3 DEF AuditTypeOK, HedgeBasic, HedgeTypes
  <2>8. HedgeTypes'
    BY <2>2, <2>3, <2>7, TypesAfter, ZenonT(30) DEF HedgeBasic, HedgeTypes, StoreTypeOK
  <2>9. WorkerData(w)'
    BY <2>0, <2>1, <2>2, <2>3, <2>4, ZenonT(30) DEF WorkerData, SameRequest, Early, Running, Done
  <2> QED
    BY <2>2, <2>3, <2>4, <2>7, <2>8, <2>9, QuietStep, ZenonT(30) DEF SameRequest
<1>11. CASE MarkExecuted(w)
  <2> USE <1>11
  <2>1. At(w, "update", "pnl") /\ UNCHANGED <<job, audit, issued, trades, answers, published, coverage>>
    BY Zenon DEF MarkExecuted, trackerVars, positionVars
  <2>2. Moves(w, "update", "pnl") /\ SameRequest(w) /\ job'[w] = job[w]
    BY <2>1, MovesSame, Zenon DEF HedgeBasic, HedgePc
  <2>3. pc[w] = "update" /\ pc'[w] = "pnl" /\ Owns(w)
    BY <2>2, Zenon DEF Moves, Owns, Running
  <2>4. PICK id \in HedgeId : id = job[w].id
    BY <2>3, OwnId, ZenonT(30)
  <2>5. job[w].h \in Hedge /\ WorkerData(w) /\ Stage("update", id)
    BY <2>3, <2>4, OwnId, SMTT(30)
  <2>6. PICK h \in Hedge : h = [job[w].h EXCEPT !.status = "EXECUTED"]
    BY <2>5, HedgeSet, Zenon DEF HedgeStatus
  <2>7. h.status = "EXECUTED" /\ h # NoHedge /\ UpdateHedge(id, h)
    BY <2>4, <2>5, <2>6, HedgeFields, ZenonT(30) DEF Hedge, MarkExecuted
  <2>8. StoreTypeOK /\ AuditTypeOK
    BY ZenonT(30) DEF HedgeBasic, HedgeTypes
  <2>9. /\ StoreTypeOK' /\ hedges'[id] = h
        /\ \A i \in HedgeId \ {id} : hedges'[i] = hedges[i]
    BY <2>1, <2>7, <2>8, StorePut, ZenonT(30)
  <2>10. AuditTypeOK'
    BY <2>1, <2>8, SMTT(30) DEF AuditTypeOK
  <2>11. HedgeTypes'
    BY <2>1, <2>2, <2>9, <2>10, TypesAfter, ZenonT(30) DEF HedgeBasic, HedgeTypes
  <2>12. OnlyAbout(id)
    BY <2>1, <2>9, Zenon DEF OnlyAbout, SameRecords
  <2>13. Tally(id, 1, 0, 0, 0)' /\ published'[id] = 0
    BY <2>1, <2>5, Zenon DEF Stage, Tally, Running
  <2>14. Stage("pnl", id)'
    BY <2>7, <2>9, <2>13, Zenon DEF Stage, HasStatus, Early, Running, Done
  <2>15. StoredData(id)'
    BY <2>7, <2>9, Zenon DEF StoredData
  <2>16. WorkerData(w)'
    BY <2>2, <2>3, <2>4, <2>6, <2>9, ZenonT(30) DEF WorkerData, Early, Running, Done
  <2>17. job[w].id = id /\ job'[w].id = id /\ "pnl" \in Early \cup Running \cup Done
    BY <2>2, <2>4, Zenon DEF Done
  <2> QED
    BY <2>1, <2>2, <2>3, <2>11, <2>12, <2>14, <2>15, <2>16, <2>17, StepFrame, ZenonT(30)
<1>12. CASE RecordPnL(w) \/ Announce(w)
  <2> USE <1>12
  <2>1. PICK here \in {"pnl", "announce"}, next \in {"cover", "publish"}, t \in EventType :
          /\ At(w, here, next) /\ emit(t, job[w].id)
          /\ \/ here = "pnl" /\ next = "cover" /\ t = "pnl_entry"
             \/ here = "announce" /\ next = "publish" /\ t = "hedge_executed"
          /\ UNCHANGED <<job, hedges, byReq, samples, issued, trades, answers, published, coverage>>
          /\ UNCHANGED pnlRows \/ pnlRows' = Append(pnlRows,
               [currency |-> job[w].h.currency, realized |-> job[w].h.pnl,
                slippageCost |-> SlippageCost(job[w].h.slippageBPS, job[w].h.notional)])
    BY SMTT(30) DEF RecordPnL, Announce, AddPnL, storeVars, trackerVars, positionVars, EventType
  <2>2. Moves(w, here, next) /\ SameRequest(w) /\ job'[w] = job[w]
    BY <2>1, MovesSame, ZenonT(30) DEF HedgeBasic, HedgePc
  <2>3. pc[w] = here /\ pc'[w] = next /\ Owns(w) /\ here \in Done /\ next \in Done
    BY <2>1, <2>2, Zenon DEF Moves, Owns, Done
  <2>4. PICK id \in HedgeId : id = job[w].id
    BY <2>3, OwnId, ZenonT(30)
  <2>5. job[w].h \in Hedge /\ WorkerData(w) /\ Stage(here, id)
    BY <2>3, <2>4, OwnId, ZenonT(30)
  <2>6. StoreTypeOK /\ AuditTypeOK
    BY ZenonT(30) DEF HedgeBasic, HedgeTypes
  <2>7. pnlRows' \in Seq(PnLRow)
    <3> DEFINE row == [currency |-> job[w].h.currency, realized |-> job[w].h.pnl,
                       slippageCost |-> SlippageCost(job[w].h.slippageBPS, job[w].h.notional)]
    <3>0. /\ job[w].h.currency \in Currency /\ job[w].h.pnl \in Int
          /\ job[w].h.slippageBPS \in Int /\ job[w].h.notional \in Int
      BY <2>5, HedgeFields, ZenonT(30)
    <3>1. row \in PnLRow
      BY <3>0, SMTT(30) DEF PnLRow, SlippageCost
    <3>2. pnlRows \in Seq(PnLRow)
      BY <2>6, Zenon DEF StoreTypeOK
    <3>3. UNCHANGED pnlRows \/ pnlRows' = Append(pnlRows, row)
      BY <2>1, ZenonT(30)
    <3> HIDE DEF row
    <3> QED
      BY <3>1, <3>2, <3>3, SampleAdded, SMTT(30)
  <2>8. /\ AuditTypeOK'
        /\ \A s \in EventType, i \in HedgeId :
             audit'[s][i] = IF s = t /\ i = id THEN audit[s][i] + 1 ELSE audit[s][i]
    BY <2>1, <2>4, <2>6, EmitTally, ZenonT(30)
  <2>9. StoreTypeOK'
    BY <2>1, <2>6, <2>7, ZenonT(30) DEF StoreTypeOK
  <2>10. HedgeTypes'
    BY <2>1, <2>2, <2>8, <2>9, TypesAfter, ZenonT(30) DEF HedgeBasic, HedgeTypes
  <2>11. OnlyAbout(id)
    BY <2>1, <2>8, SMTT(30) DEF OnlyAbout, SameRecords, HedgeEvents, EventType
  <2>12. /\ HasStatus(id, "EXECUTED") /\ published[id] = 0
         /\ Tally(id, 1, 0, 0, IF here = "pnl" THEN 0 ELSE 1)
    BY <2>1, <2>3, <2>5, Zenon DEF Stage
  <2>13. /\ HasStatus(id, "EXECUTED")' /\ published'[id] = 0
         /\ Tally(id, 1, IF next = "publish" THEN 1 ELSE 0, 0, 1)'
    <3>1. HasStatus(id, "EXECUTED")' /\ published'[id] = 0
      BY <2>1, <2>12, Zenon DEF HasStatus
    <3>2. /\ audit'["hedge_created"][id] = audit["hedge_created"][id]
          /\ audit'["hedge_failed"][id] = audit["hedge_failed"][id]
      BY <2>1, <2>8, Zenon DEF EventType
    <3>3. /\ audit'["hedge_executed"][id] = IF t = "hedge_executed" THEN audit["hedge_executed"][id] + 1
                                                                   ELSE audit["hedge_executed"][id]
          /\ audit'["pnl_entry"][id] = IF t = "pnl_entry" THEN audit["pnl_entry"][id] + 1
                                                         ELSE audit["pnl_entry"][id]
      BY <2>8, Zenon DEF EventType
    <3>4. /\ audit["hedge_created"][id] = 1 /\ audit["hedge_failed"][id] = 0
          /\ audit["hedge_executed"][id] = 0
          /\ audit["pnl_entry"][id] = IF here = "pnl" THEN 0 ELSE 1
      BY <2>12, Zenon DEF Tally
    <3>5. Tally(id, 1, IF next = "publish" THEN 1 ELSE 0, 0, 1)'
      <4>1. CASE t = "pnl_entry" /\ here = "pnl" /\ next = "cover"
        BY <3>2, <3>3, <3>4, <4>1, SMTT(30) DEF Tally
      <4>2. CASE t = "hedge_executed" /\ here = "announce" /\ next = "publish"
        BY <3>2, <3>3, <3>4, <4>2, SMTT(30) DEF Tally
      <4> QED
        BY <2>1, <4>1, <4>2, ZenonT(30)
    <3> QED
      BY <3>1, <3>5, Zenon
  <2>14. Stage(next, id)'
    BY <2>1, <2>3, <2>13, Zenon DEF Stage, Early, Running, Done
  <2>15. StoredData(id)'
    BY <2>13, Zenon DEF StoredData, HasStatus
  <2>16. WorkerData(w)'
    BY <2>1, <2>2, <2>3, <2>5, ZenonT(30) DEF WorkerData, Early, Running, Done
  <2>17. job[w].id = id /\ job'[w].id = id
    BY <2>2, <2>4, ZenonT(30)
  <2> QED
    BY <2>1, <2>2, <2>3, <2>10, <2>11, <2>14, <2>15, <2>16, <2>17, StepFrame, ZenonT(30)
<1>13. CASE Cover(w)
  <2> USE <1>13
  <2>0. Owns(w) /\ pc[w] = "cover" /\ At(w, "cover", "announce") /\ UNCHANGED job
    BY Zenon DEF Owns, Cover, At, Done
  <2>1. /\ job[w].id \in HedgeId /\ WorkerData(w)
        /\ job[w].h.currency \in Currency /\ job[w].executed \in Int
    BY <2>0, OwnId, HedgeFields, JobFields, ZenonT(30)
  <2>2. Moves(w, "cover", "announce") /\ SameRequest(w) /\ job'[w] = job[w]
    BY <2>0, MovesSame, Zenon DEF HedgeBasic, HedgePc
  <2>3. /\ UNCHANGED <<hedges, byReq, samples, pnlRows, issued, trades, answers, published, audit>>
        /\ coverage' = [coverage EXCEPT ![job[w].h.currency] = coverage[job[w].h.currency] + job[w].executed]
    BY Zenon DEF Cover, AddCoverage, storeVars
  <2>4. pc'[w] = "announce"
    BY <2>2, Zenon DEF Moves
  <2>5. coverage' \in [Currency -> Int]
    BY <2>1, <2>3, SMTT(30) DEF HedgeBasic, HedgeTypes
  <2>7. AuditTypeOK' /\ \A i \in HedgeId, t \in HedgeEvents : audit'[t][i] = audit[t][i]
    BY <2>3, Zenon DEF AuditTypeOK, HedgeBasic, HedgeTypes
  <2>8. HedgeTypes'
    BY <2>2, <2>3, <2>5, <2>7, TypesAfter, ZenonT(30) DEF HedgeBasic, HedgeTypes, StoreTypeOK
  <2>9. WorkerData(w)'
    BY <2>0, <2>1, <2>2, <2>3, <2>4, ZenonT(30) DEF WorkerData, SameRequest, Early, Running, Done
  <2> QED
    BY <2>2, <2>3, <2>4, <2>7, <2>8, <2>9, QuietStep, ZenonT(30) DEF SameRequest
<1>14. CASE Publish(w)
  <2> USE <1>14
  <2>1. /\ Finish(w, "publish") /\ Answer(w, job[w].id)
        /\ published' = [published EXCEPT ![job[w].id] = published[job[w].id] + Len(hedges[job[w].id].fills)]
        /\ UNCHANGED <<hedges, byReq, samples, pnlRows, audit, issued, trades, coverage>>
    BY SMTT(30) DEF Publish, storeVars, trackerVars, positionVars
  <2>2. Moves(w, "publish", "idle")
    BY <2>1, MovesOut, Zenon DEF HedgeBasic
  <2>3. pc[w] = "publish" /\ Owns(w)
    BY <2>2, Zenon DEF Moves, Owns, Done
  <2>4. PICK id \in HedgeId : id = job[w].id
    BY <2>3, OwnId, Zenon
  <2>5. /\ HasStatus(id, "EXECUTED") /\ published[id] = 0 /\ Tally(id, 1, 1, 0, 1)
    BY <2>3, <2>4, OwnId, Zenon DEF Stage, Done
  <2>6. /\ StoreTypeOK /\ AuditTypeOK /\ answers \in SUBSET (RequestId \X HedgeId)
        /\ published \in [HedgeId -> Nat]
    BY Zenon DEF HedgeBasic, HedgeTypes
  <2>7. Len(hedges[id].fills) \in Nat
    BY <2>5, <2>6, HedgeFields, SMTT(30) DEF StoreTypeOK, HasStatus
  <2>8. /\ published' \in [HedgeId -> Nat] /\ published'[id] = Len(hedges[id].fills)
        /\ \A i \in HedgeId \ {id} : published'[i] = published[i]
    BY <2>1, <2>4, <2>5, <2>6, <2>7, SMTT(30)
  <2>9. answers' \in SUBSET (RequestId \X HedgeId)
    BY <2>1, <2>4, <2>6, AnswerTyped, ZenonT(30)
  <2>10. StoreTypeOK' /\ AuditTypeOK'
    BY <2>1, <2>6, ZenonT(30) DEF StoreTypeOK, AuditTypeOK
  <2>11. HedgeTypes'
    BY <2>1, <2>2, <2>8, <2>9, <2>10, TypesAfter, ZenonT(30) DEF HedgeBasic, HedgeTypes
  <2>12. OnlyAbout(id)
    BY <2>1, <2>8, Zenon DEF OnlyAbout, SameRecords
  <2>13. Settled(id)'
    BY <2>1, <2>5, <2>8, Zenon DEF Settled, HasStatus, Tally
  <2>14. StoredData(id)'
    BY <2>1, <2>5, Zenon DEF StoredData, HasStatus
  <2>15. job[w].id = id
    BY <2>4, Zenon
  <2> QED
    BY <2>1, <2>2, <2>3, <2>11, <2>12, <2>13, <2>14, <2>15, StepFrame, ZenonT(30)
<1> QED
  BY <1>1, <1>2, <1>3, <1>4, <1>5, <1>6, <1>7, <1>8, <1>9, <1>10, <1>11, <1>12, <1>13, <1>14, ZenonT(30) DEF HandlerStep

(* A step that leaves the handlers, the store and the audit trail alone. *)
LEMMA FlowBasic == ASSUME HedgeBasic, FlowArrives \/ UNCHANGED apiVars PROVE HedgeBasic'
<1>1. /\ UNCHANGED <<hedges, byReq, samples, pnlRows, issued, trades, answers, published, audit, pc, job>>
      /\ coverage' = coverage
  BY Zenon DEF FlowArrives, AddExposure, applyDelta, apiVars, handlerVars, storeVars, trackerVars, positionVars
<1>2. HedgeTypes'
  BY <1>1, Zenon DEF HedgeBasic, HedgeTypes, StoreTypeOK, AuditTypeOK
<1>3. HedgeControl'
  <2>1. Looking' = Looking /\ \A w \in HedgeWorker : Owns(w)' <=> Owns(w)
    BY <1>1, Zenon DEF Looking, Owns
  <2>2. \A i : SameRecords(i)
    BY <1>1, Zenon DEF SameRecords
  <2>3. \A i : (Unborn(i) => Unborn(i)') /\ (Settled(i) => Settled(i)')
    BY <2>2, RecordsKept, Zenon
  <2>4. \A i, step : Stage(step, i) => Stage(step, i)'
    BY <2>2, RecordsKept, Zenon
  <2> QED
    BY <1>1, <2>1, <2>3, <2>4, ZenonT(30) DEF HedgeBasic, HedgeControl
<1>4. HedgeData'
  BY <1>1, Zenon DEF HedgeBasic, HedgeData, WorkerData, StoredData, Unfilled
<1> QED
  BY <1>2, <1>3, <1>4, Zenon DEF HedgeBasic

(* The service starts with nothing stored, recorded or in progress. *)
LEMMA BasicStart == HedgeInit => HedgeBasic
<1> SUFFICES ASSUME HedgeInit PROVE HedgeBasic
  BY Zenon
<1>1. /\ hedges = [id \in HedgeId |-> NoHedge] /\ byReq = [r \in RequestId |-> NoHedge]
      /\ samples = <<>> /\ pnlRows = <<>> /\ issued = 0 /\ trades = 0
      /\ audit = [t \in EventType |-> [x \in Entity |-> 0]]
      /\ pc = [w \in HedgeWorker |-> "idle"] /\ job = [w \in HedgeWorker |-> NoJob]
      /\ answers = {} /\ published = [id \in HedgeId |-> 0]
      /\ coverage = [c \in Currency |-> 0]
  BY Zenon DEF HedgeInit, StoreInit, AuditInit, TrackerInit
<1>2. Cardinality(HedgeId) \in Nat /\ HedgeId \subseteq Entity
  BY StoreAssumption, HedgeAssumption, FS_CardinalityType, ZenonT(30)
<1>3. HedgeTypes
  <2>1. StoreTypeOK
    BY <1>1, <1>2, SMTT(30) DEF StoreTypeOK
  <2>2. AuditTypeOK
    BY <1>1, Zenon DEF AuditTypeOK
  <2> QED
    BY <1>1, <2>1, <2>2, SMTT(30) DEF HedgeTypes, HedgePc
<1>4. Looking = {} /\ \A w \in HedgeWorker : ~ Owns(w)
  BY <1>1, Zenon DEF Looking, Owns, Early, Running, Done
<1>5. Cardinality(Looking) = 0
  BY <1>4, FS_EmptySet, Zenon
<1>6. \A id \in HedgeId : Unborn(id)
  BY <1>1, <1>2, ZenonT(30) DEF Unborn, Tally, EventType
<1>7. HedgeControl
  BY <1>1, <1>2, <1>4, <1>5, <1>6, SMTT(30) DEF HedgeControl, Owns
<1>8. HedgeData
  BY <1>1, Zenon DEF HedgeData, WorkerData, StoredData, Early, Running, Done
<1> QED
  BY <1>3, <1>7, <1>8, Zenon DEF HedgeBasic

(* No step of the service breaks the invariant of POST /v1/hedges. *)
LEMMA BasicStep == HedgeBasic /\ [HedgeNext]_apiVars => HedgeBasic'
<1> SUFFICES ASSUME HedgeBasic, [HedgeNext]_apiVars PROVE HedgeBasic'
  BY Zenon
<1>1. CASE FlowArrives \/ UNCHANGED apiVars
  BY <1>1, FlowBasic, Zenon
<1>2. ASSUME NEW w \in HedgeWorker, ReceiveHedge(w) \/ HandlerStep(w) PROVE HedgeBasic'
  BY <1>2, HandlerBasic, Zenon
<1> QED
  BY <1>1, <1>2, Zenon DEF HedgeNext

-----------------------------------------------------------------------------
(* For any number of handlers, every hedge that was answered is EXECUTED   *)
(* or FAILED, with the audit events and reconciliation records of that one *)
(* story, each exactly once, on every path of CreateHedge.                 *)
THEOREM HedgeAlwaysAudited == HedgeSpec => []HedgeAudited
<1>1. HedgeInit => HedgeBasic
  BY BasicStart, Zenon
<1>2. HedgeBasic /\ [HedgeNext]_apiVars => HedgeBasic'
  BY BasicStep, Zenon
<1>3. HedgeBasic => HedgeAudited
  <2> SUFFICES ASSUME HedgeBasic, NEW id \in 1 .. issued, ~ Owned(id)
               PROVE  \/ /\ HasStatus(id, "EXECUTED")
                         /\ \A t \in {"hedge_created", "hedge_executed", "pnl_entry"} : audit[t][id] = 1
                         /\ audit["hedge_failed"][id] = 0
                         /\ published[id] = Len(hedges[id].fills)
                      \/ /\ HasStatus(id, "FAILED")
                         /\ \A t \in {"hedge_executed", "pnl_entry"} : audit[t][id] = 0
                         /\ audit["hedge_failed"][id] = 1
                         /\ published[id] = 0
    BY Zenon DEF HedgeAudited
  <2>1. \A w \in HedgeWorker : Owns(w) => job[w].id # id
    BY Zenon DEF Owned, Owns, Early, Running, Done
  <2>2. Settled(id)
    BY <2>1, Zenon DEF HedgeBasic, HedgeControl
  <2> QED
    BY <2>2, Zenon DEF Settled, Tally
<1> QED
  BY <1>1, <1>2, <1>3, PTL DEF HedgeSpec

(* A hedge that is EXECUTED or FAILED is not stored or updated again: its  *)
(* id belongs to no handler that would.                                    *)
LEMMA FinalKept ==
  ASSUME HedgeBasic, [HedgeNext]_apiVars, NEW id \in HedgeId,
         HasStatus(id, "EXECUTED") \/ HasStatus(id, "FAILED")
  PROVE  hedges'[id] = hedges[id]
<1>1. CASE UNCHANGED hedges
  BY <1>1, Zenon
<1>2. ASSUME NEW w \in HedgeWorker, QuoteFails(w) \/ Create(w) \/ ExecuteFails(w) \/ MarkExecuted(w)
      PROVE  hedges'[id] = hedges[id]
  <2>1. /\ pc[w] \in {"quote", "store", "execute", "update"}
        /\ \E h : hedges' = [hedges EXCEPT ![job[w].id] = h]
    BY <1>2, Zenon DEF QuoteFails, Create, ExecuteFails, MarkExecuted, Finish, At, StoreHedge, UpdateHedge
  <2>2. Owns(w)
    BY <2>1, Zenon DEF Owns, Early, Running
  <2>3. Stage(pc[w], job[w].id)
    BY <2>2, OwnId, Zenon
  <2>4. ~ (HasStatus(job[w].id, "EXECUTED") \/ HasStatus(job[w].id, "FAILED"))
    BY <2>1, <2>3, Zenon DEF Stage, Unborn, HasStatus, Early, Running
  <2>5. id # job[w].id
    BY <2>4, Zenon
  <2> QED
    BY <2>1, <2>5, Zenon DEF HedgeBasic, HedgeTypes, StoreTypeOK
<1>3. ASSUME NEW w \in HedgeWorker, ReceiveHedge(w) \/ HandlerStep(w),
             ~ (QuoteFails(w) \/ Create(w) \/ ExecuteFails(w) \/ MarkExecuted(w))
      PROVE  UNCHANGED hedges
  BY <1>3, Zenon DEF HandlerStep, ReceiveHedge, LookupRequest, ReadPolicy, Quote, Execute, NextFill,
     RecordSample, AddSlippageSample, FeedCache, RecordPnL, AddPnL, Cover, Announce, Publish, storeVars
<1>4. CASE FlowArrives \/ UNCHANGED apiVars
  BY <1>4, Zenon DEF FlowArrives, apiVars, storeVars
<1> QED
  BY <1>1, <1>2, <1>3, <1>4, ZenonT(30) DEF HedgeNext

(* For any number of handlers, a hedge that was EXECUTED or FAILED is      *)
(* never changed again.                                                    *)
THEOREM HedgeStaysFinal == HedgeSpec => HedgeFinal
<1>1. HedgeInit => HedgeBasic
  BY BasicStart
<1>2. HedgeBasic /\ [HedgeNext]_apiVars => HedgeBasic'
  BY BasicStep
<1>3. HedgeBasic /\ [HedgeNext]_apiVars =>
        [\A id \in HedgeId :
           HasStatus(id, "EXECUTED") \/ HasStatus(id, "FAILED") => hedges'[id] = hedges[id]]_apiVars
  BY FinalKept, Zenon
<1> QED
  BY <1>1, <1>2, <1>3, PTL DEF HedgeSpec, HedgeFinal
=============================================================================
