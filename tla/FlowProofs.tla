----------------------------- MODULE FlowProofs -----------------------------
(***************************************************************************)
(* The exposure tracker and its two users, each for every value of its     *)
(* constants: the handlers of FlowIngest, and the snapshots ExposureFeed   *)
(* hands to streams, callers and the store.                                *)
(***************************************************************************)
EXTENDS FlowIngest, ExposureFeed, FiniteSetTheorems, TLAPS

-----------------------------------------------------------------------------
(***************************************************************************)
(* Facts about sequences and numbers.                                      *)
(***************************************************************************)
(* What Append adds to a buffer or to what a stream was sent. *)
LEMMA AppendItems ==
  ASSUME NEW R, NEW q \in Seq(R), NEW x
  PROVE  /\ x \in R => Append(q, x) \in Seq(R)
         /\ Len(q) \in Nat /\ DOMAIN q = 1 .. Len(q)
         /\ \A i \in DOMAIN Append(q, x) :
              \/ i \in DOMAIN q /\ Append(q, x)[i] = q[i]
              \/ i = Len(q) + 1 /\ Append(q, x)[i] = x
OBVIOUS

(* A sequence of one item. *)
LEMMA OneItem ==
  ASSUME NEW x
  PROVE  /\ Append(<<>>, x) = <<x>> /\ <<x>>[1] = x
         /\ \A i \in DOMAIN <<x>> : i = 1 /\ ~ (1 < i)
OBVIOUS

(* An earlier instant is still earlier when the clock advances. *)
LEMMA EarlierStill == \A a, b \in Nat : a <= b => a <= b + 1 /\ a # b + 1
OBVIOUS

(* A count b of events owed that grows by one makes up for one more update *)
(* u, and an event paid is one more in the count a.                        *)
LEMMA OwedAndPaid ==
  \A a, b, u, h \in Nat : a + b >= u - h =>
    /\ a + (b + 1) >= u - h /\ a + (b + 1) >= (u + 1) - h
    /\ (a + 1) + (b - 1) >= u - h
OBVIOUS

-----------------------------------------------------------------------------
(* The snapshot of a currency after a step is well formed. *)
LEMMA FreshSnapshot ==
  ASSUME NEW c \in Currency, net' \in [Currency -> Int], coverage' \in [Currency -> Int],
         updatedAt' \in [Currency -> Nat]
  PROVE  Snapshot(c)' \in Exposure
BY DEF Snapshot, Open, Exposure

(* What Tracker.AddCoverage and Tracker.applyDelta send to the subscribers *)
(* is a well-formed snapshot, so every buffer stays a queue of snapshots.  *)
LEMMA NotifyType ==
  ASSUME TrackerTypeOK, NEW c \in Currency,
         net' \in [Currency -> Int], coverage' \in [Currency -> Int],
         updatedAt' \in [Currency -> Nat], Notify(Snapshot(c)')
  PROVE  queue' \in [Channel -> Seq(Exposure)]
<1>1. Snapshot(c)' \in Exposure
  BY FreshSnapshot, Zenon
<1>2. \A ch \in Channel : queue[ch] \in Seq(Exposure)
  BY Zenon DEF TrackerTypeOK
<1>3. \A ch \in Channel : Append(queue[ch], Snapshot(c)') \in Seq(Exposure)
  BY <1>1, <1>2
<1> QED
  BY <1>2, <1>3, Zenon DEF Notify

(* Tracker.applyDelta keeps the tracker's state well typed. *)
LEMMA ApplyDeltaType ==
  ASSUME TrackerTypeOK, NEW c \in Currency, NEW a \in Int, applyDelta(c, a),
         seen' \in SUBSET EventId
  PROVE  TrackerTypeOK'
<1>1. /\ net' \in [Currency -> Int]
      /\ netKeys' \in SUBSET Currency
      /\ coverage' \in [Currency -> Int]
      /\ coverageKeys' \in SUBSET Currency
      /\ updatedAt' \in [Currency -> Nat]
      /\ subs' \in SUBSET Channel
  BY DEF TrackerTypeOK, applyDelta
<1>2. queue' \in [Channel -> Seq(Exposure)]
  BY <1>1, NotifyType, Zenon DEF applyDelta
<1> QED
  BY <1>1, <1>2, Zenon DEF TrackerTypeOK

(* Tracker.AddCoverage keeps the tracker's state well typed. *)
LEMMA AddCoverageType ==
  ASSUME TrackerTypeOK, NEW c \in Currency, NEW a \in Int, AddCoverage(c, a)
  PROVE  TrackerTypeOK'
<1>1. /\ net' \in [Currency -> Int]
      /\ netKeys' \in SUBSET Currency
      /\ coverage' \in [Currency -> Int]
      /\ coverageKeys' \in SUBSET Currency
      /\ updatedAt' \in [Currency -> Nat]
      /\ seen' \in SUBSET EventId
      /\ subs' \in SUBSET Channel
  BY DEF TrackerTypeOK, AddCoverage
<1>2. queue' \in [Channel -> Seq(Exposure)]
  BY <1>1, NotifyType, Zenon DEF AddCoverage
<1> QED
  BY <1>1, <1>2, Zenon DEF TrackerTypeOK

(* A step that leaves the tracker alone keeps its type. *)
LEMMA TrackerUnchangedType ==
  ASSUME TrackerTypeOK, UNCHANGED trackerVars
  PROVE  TrackerTypeOK'
BY Zenon DEF TrackerTypeOK, trackerVars, positionVars

(* Recording an audit event keeps the counts well typed. *)
LEMMA EmitType ==
  ASSUME AuditTypeOK, NEW t \in EventType, NEW x \in Entity, emit(t, x)
  PROVE  AuditTypeOK'
BY DEF AuditTypeOK, emit

(* The request of a handler that is past the decoding step. *)
LEMMA FlowInProgress ==
  ASSUME FlowTypeOK, NEW w \in Worker, flowPc[w] # "idle"
  PROVE  /\ flow[w] \in Flow
         /\ flow[w].currency \in Currency
         /\ flow[w].currency \in Entity
         /\ flow[w].amount \in Amount \ {0}
         /\ flow[w].amount \in Int
         /\ flow[w].event \in EventId \cup {NoEvent}
<1>1. flow[w] \in Flow
  BY DEF FlowTypeOK
<1>2. /\ flow[w].currency \in Currency
      /\ flow[w].amount \in Amount \ {0}
      /\ flow[w].event \in EventId \cup {NoEvent}
  BY <1>1, Zenon DEF Flow
<1> QED
  BY <1>1, <1>2, FlowAssumption, Zenon

(* The initial state of the service is well typed. *)
LEMMA FlowInitType == FlowInit => FlowTypeOK
<1> SUFFICES ASSUME FlowInit PROVE FlowTypeOK
  BY Zenon
<1>1. TrackerTypeOK
  BY DEF FlowInit, TrackerInit, TrackerTypeOK
<1>2. PolicyTypeOK
  <2>1. PICK o \in Configured : PolicyInit(o)
    BY Zenon DEF FlowInit
  <2>2. o \in [Currency -> Override]
    BY FlowAssumption, Zenon
  <2>3. NoOverride \in Override
    BY DEF NoOverride, Override
  <2> QED
    BY <2>1, <2>2, <2>3 DEF PolicyInit, PolicyTypeOK
<1>3. AuditTypeOK
  BY Zenon DEF FlowInit, AuditInit, AuditTypeOK
<1> QED
  BY <1>1, <1>2, <1>3 DEF FlowInit, FlowTypeOK, FlowPc

(* Every step of every handler, and every executed hedge, keeps the state  *)
(* well typed.                                                             *)
LEMMA FlowNextType == FlowTypeOK /\ [FlowNext]_ingestVars => FlowTypeOK'
<1> SUFFICES ASSUME FlowTypeOK, [FlowNext]_ingestVars PROVE FlowTypeOK'
  BY Zenon
<1> USE DEF FlowPc
<1>1. ASSUME NEW w \in Worker, ReceiveFlow(w) PROVE FlowTypeOK'
  <2>1. TrackerTypeOK' /\ PolicyTypeOK' /\ AuditTypeOK' /\ hedged' \in [Currency -> Nat]
    BY <1>1, TrackerUnchangedType, Zenon
    DEF ReceiveFlow, FlowTypeOK, PolicyTypeOK, policyVars, AuditTypeOK
  <2>2. PICK c \in Currency, a \in Amount, e \in EventId \cup {NoEvent} :
           \/ /\ a = 0
              /\ flowPc[w] = "idle"
              /\ status' = [status EXCEPT ![w] = 400]
              /\ UNCHANGED <<flowPc, flow>>
           \/ /\ a # 0
              /\ Goto(w, "idle", "seen")
              /\ flow' = [flow EXCEPT ![w] =
                            [currency |-> ToUpper[c], amount |-> a, event |-> e]]
              /\ UNCHANGED status
    BY <1>1, Zenon DEF ReceiveFlow
  <2>3. flows' \in Nat
    BY <1>1 DEF ReceiveFlow, FlowTypeOK
  <2>4. CASE a = 0
    BY <2>1, <2>2, <2>3, <2>4 DEF FlowTypeOK
  <2>5. CASE a # 0
    <3> DEFINE r == [currency |-> ToUpper[c], amount |-> a, event |-> e]
    <3>1. r \in Flow /\ r # NoRequest
      <4>1. ToUpper[c] \in Currency
        BY PolicyAssumption, DomainAssumption, Zenon
      <4>2. r \in Flow
        BY <2>5, <4>1, Zenon DEF Flow
      <4>3. r \in [currency: Currency, amount: Amount, event: EventId \cup {NoEvent}]
        BY <4>1, Zenon
      <4> QED
        BY <4>2, <4>3, FlowAssumption, Zenon
    <3> HIDE DEF r
    <3>2. flow' = [flow EXCEPT ![w] = r]
      BY <2>2, <2>5, Zenon DEF r
    <3>3. flowPc' = [flowPc EXCEPT ![w] = "seen"] /\ UNCHANGED status
      BY <2>2, <2>5, Zenon DEF Goto
    <3> QED
      BY <2>1, <2>3, <3>1, <3>2, <3>3 DEF FlowTypeOK
  <2> QED
    BY <2>4, <2>5, Zenon
<1>2. ASSUME NEW w \in Worker, CheckSeen(w) PROVE FlowTypeOK'
  <2>1. TrackerTypeOK' /\ PolicyTypeOK' /\ AuditTypeOK'
    BY <1>2, TrackerUnchangedType, Zenon
    DEF CheckSeen, FlowTypeOK, PolicyTypeOK, policyVars, AuditTypeOK
  <2> QED
    BY <1>2, <2>1 DEF CheckSeen, Goto, FlowTypeOK
<1>3. ASSUME NEW w \in Worker, CheckCap(w) PROVE FlowTypeOK'
  <2>1. TrackerTypeOK' /\ PolicyTypeOK' /\ AuditTypeOK'
    BY <1>3, TrackerUnchangedType, Zenon
    DEF CheckCap, FlowTypeOK, PolicyTypeOK, policyVars, AuditTypeOK
  <2> QED
    BY <1>3, <2>1 DEF CheckCap, Goto, FlowTypeOK
<1>4. ASSUME NEW w \in Worker, RefuseFlow(w) PROVE FlowTypeOK'
  <2>1. TrackerTypeOK' /\ PolicyTypeOK'
    BY <1>4, TrackerUnchangedType, Zenon
    DEF RefuseFlow, FlowTypeOK, PolicyTypeOK, policyVars
  <2>2. AuditTypeOK'
    BY <1>4, FlowInProgress, EmitType DEF RefuseFlow, Goto, FlowTypeOK, EventType
  <2> QED
    BY <1>4, <2>1, <2>2 DEF RefuseFlow, Goto, FlowTypeOK
<1>5. ASSUME NEW w \in Worker, ApplyFlow(w) PROVE FlowTypeOK'
  <2>1. PolicyTypeOK' /\ AuditTypeOK'
    BY <1>5, Zenon DEF ApplyFlow, FlowTypeOK, PolicyTypeOK, policyVars, AuditTypeOK
  <2>2. /\ flow[w].currency \in Currency
        /\ flow[w].amount \in Int
        /\ flow[w].event \in EventId \cup {NoEvent}
    BY <1>5, FlowInProgress, Zenon DEF ApplyFlow, Goto
  <2>3. TrackerTypeOK'
    <3>1. CASE flow[w].event = NoEvent
      BY <1>5, <2>2, <3>1, ApplyDeltaType, ZenonT(30)
      DEF ApplyFlow, AddExposure, FlowTypeOK, TrackerTypeOK
    <3>2. CASE flow[w].event # NoEvent
      <4>1. TrackerTypeOK /\ AddEvent(flow[w].currency, flow[w].amount, flow[w].event)
        BY <1>5, <3>2, ZenonT(30) DEF ApplyFlow, FlowTypeOK
      <4>2. seen \in SUBSET EventId /\ flow[w].event \in EventId
        BY <2>2, <3>2, <4>1, Zenon DEF TrackerTypeOK
      <4> QED
        BY <2>2, <4>1, <4>2, ApplyDeltaType, TrackerUnchangedType, ZenonT(30) DEF AddEvent
    <3> QED
      BY <3>1, <3>2
  <2> QED
    BY <1>5, <2>1, <2>3 DEF ApplyFlow, Goto, FlowTypeOK
<1>6. ASSUME NEW w \in Worker, EmitAdded(w) PROVE FlowTypeOK'
  <2>1. TrackerTypeOK' /\ PolicyTypeOK'
    BY <1>6, TrackerUnchangedType, Zenon
    DEF EmitAdded, FlowTypeOK, PolicyTypeOK, policyVars
  <2>2. AuditTypeOK'
    BY <1>6, FlowInProgress, EmitType DEF EmitAdded, Goto, FlowTypeOK, EventType
  <2> QED
    BY <1>6, <2>1, <2>2 DEF EmitAdded, Goto, FlowTypeOK
<1>7. ASSUME NEW w \in Worker, Respond(w) PROVE FlowTypeOK'
  <2>1. TrackerTypeOK' /\ PolicyTypeOK' /\ AuditTypeOK'
    BY <1>7, TrackerUnchangedType, Zenon
    DEF Respond, FlowTypeOK, PolicyTypeOK, policyVars, AuditTypeOK
  <2> QED
    BY <1>7, <2>1 DEF Respond, Goto, FlowTypeOK
<1>8. ASSUME HedgeCovers PROVE FlowTypeOK'
  <2>1. PICK c \in Currency, n \in HedgeAmount :
           hedged' = [hedged EXCEPT ![c] = @ + 1] /\ AddCoverage(c, n)
    BY <1>8, Zenon DEF HedgeCovers
  <2>2. TrackerTypeOK'
    BY <2>1, AddCoverageType, FlowAssumption DEF FlowTypeOK
  <2> QED
    BY <1>8, <2>1, <2>2
    DEF HedgeCovers, flowVars, policyVars, FlowTypeOK, PolicyTypeOK, AuditTypeOK
<1>9. CASE UNCHANGED ingestVars
  BY <1>9, TrackerUnchangedType, Zenon
  DEF ingestVars, flowVars, policyVars, FlowTypeOK, PolicyTypeOK, AuditTypeOK
<1> QED
  BY <1>1, <1>2, <1>3, <1>4, <1>5, <1>6, <1>7, <1>8, <1>9, Zenon DEF FlowNext, FlowStep

(* The state of the tracker, the policy, the audit recorder and of every   *)
(* handler of api.AddExposure is always well typed; in particular a        *)
(* handler holds a request exactly while it is serving one.                *)
THEOREM FlowTypeCorrect == FlowSpec => []FlowTypeOK
BY FlowInitType, FlowNextType, PTL DEF FlowSpec

-----------------------------------------------------------------------------
(* The caps are fixed while the overrides are. *)
LEMMA CapFixed ==
  ASSUME UNCHANGED policyVars
  PROVE  \A c \in Currency : EffectiveCap(c)' = EffectiveCap(c)
BY Zenon DEF policyVars, EffectiveCap

(* The effective cap of a currency is a natural number. *)
LEMMA CapType ==
  ASSUME FlowTypeOK
  PROVE  \A c \in Currency : EffectiveCap(c) \in Nat
<1> SUFFICES ASSUME NEW c \in Currency PROVE EffectiveCap(c) \in Nat
  BY Zenon
<1>1. overrides[ToUpper[c]] \in Override
  BY PolicyAssumption, DomainAssumption DEF FlowTypeOK, PolicyTypeOK
<1> QED
  BY <1>1, PolicyAssumption, DomainAssumption DEF EffectiveCap, Override

(* A step of one handler moves only that handler's verdict. *)
LEMMA VerdictMoves ==
  ASSUME FlowTypeOK, NEW w \in Worker, NEW from, NEW to \in FlowPc,
         Goto(w, from, to), \A v \in Worker \ {w} : status'[v] = status[v]
  PROVE  [v \in Worker |-> Verdict(v)]'
           = [[v \in Worker |-> Verdict(v)] EXCEPT ![w] = Verdict(w)']
<1>1. \A v \in Worker \ {w} : Verdict(v)' = Verdict(v)
  BY DEF FlowTypeOK, Goto, Verdict
<1> QED
  BY <1>1, Zenon

(* The service starts as an empty ledger. *)
LEMMA FlowInitLedger == FlowInit => Ledger!LedgerInit
<1> SUFFICES ASSUME FlowInit PROVE Ledger!LedgerInit
  BY Zenon
<1>1. [c \in Currency |-> EffectiveCap(c)] \in [Currency -> Int]
  BY FlowInitType, CapType
<1>2. [w \in Worker |-> Verdict(w)] = [w \in Worker |-> "none"]
  BY Zenon DEF FlowInit, Verdict
<1> QED
  BY <1>1, <1>2, Zenon DEF FlowInit, TrackerInit, Ledger!LedgerInit

(* Every step of a handler of api.AddExposure is a step of the ledger or   *)
(* leaves the ledger alone.                                                *)
LEMMA FlowNextLedger ==
  FlowTypeOK /\ [FlowNext]_ingestVars => [Ledger!LedgerNext]_(Ledger!ledgerVars)
<1> SUFFICES ASSUME FlowTypeOK, [FlowNext]_ingestVars
             PROVE  [Ledger!LedgerNext]_(Ledger!ledgerVars)
  BY Zenon
<1> DEFINE caps == [c \in Currency |-> EffectiveCap(c)]
           verdicts == [v \in Worker |-> Verdict(v)]
<1>0. ASSUME UNCHANGED policyVars PROVE caps' = caps
  BY <1>0, CapFixed, Zenon
<1> HIDE DEF caps, verdicts
<1> USE DEF trackerVars, positionVars, FlowPc
<1>1. ASSUME NEW w \in Worker, ReceiveFlow(w)
      PROVE  [Ledger!LedgerNext]_(Ledger!ledgerVars)
  <2>1. UNCHANGED <<net, coverage, seen>> /\ caps' = caps
    BY <1>1, <1>0, Zenon DEF ReceiveFlow
  <2>2. PICK c \in Currency, a \in Amount, e \in EventId \cup {NoEvent} :
           \/ /\ a = 0
              /\ flowPc[w] = "idle"
              /\ status' = [status EXCEPT ![w] = 400]
              /\ UNCHANGED <<flowPc, flow>>
           \/ /\ a # 0
              /\ Goto(w, "idle", "seen")
              /\ flow' = [flow EXCEPT ![w] =
                            [currency |-> ToUpper[c], amount |-> a, event |-> e]]
              /\ UNCHANGED status
    BY <1>1 DEF ReceiveFlow
  <2>3. CASE a = 0
    <3>1. verdicts' = verdicts
      BY <2>2, <2>3 DEF verdicts, Verdict, FlowTypeOK
    <3> QED
      BY <2>1, <2>2, <2>3, <3>1, Zenon DEF Ledger!ledgerVars, caps, verdicts
  <2>4. CASE a # 0
    <3>1. verdicts' = verdicts
      BY <2>2, <2>4 DEF verdicts, Verdict, Goto, FlowTypeOK
    <3>2. flow[w] = NoRequest /\ ToUpper[c] \in Currency
      BY <2>2, <2>4, PolicyAssumption, DomainAssumption DEF Goto, FlowTypeOK
    <3>3. Ledger!Receive(w)
      BY <2>1, <2>2, <2>4, <3>1, <3>2, Zenon DEF Ledger!Receive, caps, verdicts
    <3> QED
      BY <3>3, Zenon DEF Ledger!LedgerNext
  <2> QED
    BY <2>3, <2>4, Zenon
<1>2. ASSUME NEW w \in Worker, CheckSeen(w)
      PROVE  [Ledger!LedgerNext]_(Ledger!ledgerVars)
  <2>1. UNCHANGED <<net, coverage, seen, flow>> /\ caps' = caps
    BY <1>2, <1>0, Zenon DEF CheckSeen
  <2>2. CASE flow[w].event \in seen
    <3>1. /\ Goto(w, "seen", "respond")
          /\ status' = [status EXCEPT ![w] = 200]
      BY <1>2, <2>2, Zenon DEF CheckSeen
    <3>2. Verdict(w) = "none" /\ Verdict(w)' = "booked"
      BY <3>1 DEF Verdict, Goto, FlowTypeOK
    <3>3. verdicts[w] = "none" /\ verdicts' = [verdicts EXCEPT ![w] = "booked"]
      BY <3>1, <3>2, VerdictMoves, ZenonT(30) DEF verdicts, FlowTypeOK
    <3>4. flow[w] # NoRequest
      BY <3>1, Zenon DEF Goto, FlowTypeOK
    <3>5. Ledger!Book(w)
      BY <2>1, <2>2, <3>3, <3>4, Zenon DEF Ledger!Book, Ledger!Pending, caps, verdicts
    <3> QED
      BY <3>5, Zenon DEF Ledger!LedgerNext
  <2>3. CASE flow[w].event \notin seen
    <3>1. verdicts' = verdicts
      BY <1>2, <2>3 DEF CheckSeen, verdicts, Verdict, Goto, FlowTypeOK
    <3> QED
      BY <2>1, <3>1, Zenon DEF Ledger!ledgerVars, caps, verdicts
  <2> QED
    BY <2>2, <2>3, Zenon
<1>3. ASSUME NEW w \in Worker, CheckCap(w)
      PROVE  [Ledger!LedgerNext]_(Ledger!ledgerVars)
  <2>1. UNCHANGED <<net, coverage, seen, flow, status>> /\ caps' = caps
    BY <1>3, <1>0, Zenon DEF CheckCap
  <2>2. flow[w].currency \in Currency /\ flow[w] # NoRequest
    BY <1>3, FlowInProgress, Zenon DEF CheckCap, Goto, FlowTypeOK
  <2>3. CASE CapBlocks(flow[w].currency, flow[w].amount)
    <3>1. Goto(w, "cap", "refuse")
      BY <1>3, <2>3, Zenon DEF CheckCap
    <3>2. Verdict(w) = "none" /\ Verdict(w)' = "refused"
      BY <3>1 DEF Verdict, Goto, FlowTypeOK
    <3>3. verdicts[w] = "none" /\ verdicts' = [verdicts EXCEPT ![w] = "refused"]
      BY <2>1, <3>1, <3>2, VerdictMoves, ZenonT(30) DEF verdicts, FlowTypeOK
    <3>4. Ledger!WouldBreach(flow[w].currency, flow[w].amount)
      BY <2>2, <2>3, Zenon
      DEF Ledger!WouldBreach, Ledger!Magnitude, CapBlocks, Abs, Open
    <3>5. Ledger!Refuse(w)
      BY <2>1, <2>2, <3>3, <3>4, Zenon DEF Ledger!Refuse, Ledger!Pending, caps, verdicts
    <3> QED
      BY <3>5, Zenon DEF Ledger!LedgerNext
  <2>4. CASE ~ CapBlocks(flow[w].currency, flow[w].amount)
    <3>1. verdicts' = verdicts
      BY <1>3, <2>1, <2>4 DEF CheckCap, verdicts, Verdict, Goto, FlowTypeOK
    <3> QED
      BY <2>1, <3>1, Zenon DEF Ledger!ledgerVars, caps, verdicts
  <2> QED
    BY <2>3, <2>4, Zenon
<1>4. ASSUME NEW w \in Worker, RefuseFlow(w)
      PROVE  [Ledger!LedgerNext]_(Ledger!ledgerVars)
  <2>1. UNCHANGED <<net, coverage, seen, flow>> /\ caps' = caps
    BY <1>4, <1>0, Zenon DEF RefuseFlow
  <2>2. verdicts' = verdicts
    BY <1>4 DEF RefuseFlow, verdicts, Verdict, Goto, FlowTypeOK
  <2> QED
    BY <2>1, <2>2 DEF Ledger!ledgerVars, caps, verdicts
<1>5. ASSUME NEW w \in Worker, ApplyFlow(w)
      PROVE  [Ledger!LedgerNext]_(Ledger!ledgerVars)
  <2>1. UNCHANGED <<coverage, flow, status>> /\ caps' = caps
    BY <1>5, <1>0, Zenon DEF ApplyFlow, AddExposure, AddEvent, applyDelta
  <2>2. /\ flow[w].currency \in Currency
        /\ flow[w].event \in EventId \cup {NoEvent}
        /\ flow[w] # NoRequest
    BY <1>5, FlowInProgress, Zenon DEF ApplyFlow, Goto, FlowTypeOK
  <2>3. Verdict(w) = "none" /\ Verdict(w)' = "booked"
    BY <1>5 DEF ApplyFlow, Verdict, Goto, FlowTypeOK
  <2>4. verdicts[w] = "none" /\ verdicts' = [verdicts EXCEPT ![w] = "booked"]
    BY <1>5, <2>1, <2>3, VerdictMoves, ZenonT(30) DEF ApplyFlow, verdicts, FlowTypeOK
  <2>5. seen \subseteq EventId /\ NoEvent \notin EventId
    BY TrackerAssumption, Zenon DEF FlowTypeOK, TrackerTypeOK
  <2>6. IF flow[w].event \in seen
          THEN UNCHANGED <<net, seen>>
          ELSE /\ net' = [net EXCEPT ![flow[w].currency] = @ + flow[w].amount]
               /\ seen' = seen \cup ({flow[w].event} \ {NoEvent})
    BY <1>5, <2>2, <2>5, Zenon DEF ApplyFlow, AddExposure, AddEvent, applyDelta
  <2>7. Ledger!Book(w)
    BY <2>1, <2>2, <2>4, <2>6, Zenon DEF Ledger!Book, Ledger!Pending, caps, verdicts
  <2> QED
    BY <2>7 DEF Ledger!LedgerNext
<1>6. ASSUME NEW w \in Worker, EmitAdded(w)
      PROVE  [Ledger!LedgerNext]_(Ledger!ledgerVars)
  <2>1. UNCHANGED <<net, coverage, seen, flow>> /\ caps' = caps
    BY <1>6, <1>0, Zenon DEF EmitAdded
  <2>2. verdicts' = verdicts
    BY <1>6 DEF EmitAdded, verdicts, Verdict, Goto, FlowTypeOK
  <2> QED
    BY <2>1, <2>2 DEF Ledger!ledgerVars, caps, verdicts
<1>7. ASSUME NEW w \in Worker, Respond(w)
      PROVE  [Ledger!LedgerNext]_(Ledger!ledgerVars)
  <2>1. /\ UNCHANGED <<net, coverage, seen, status>>
        /\ caps' = caps
        /\ flow' = [flow EXCEPT ![w] = NoRequest]
    BY <1>7, <1>0, Zenon DEF Respond
  <2>2. Verdict(w) # "none" /\ Verdict(w)' = "none"
    BY <1>7 DEF Respond, Verdict, Goto, FlowTypeOK
  <2>3. verdicts[w] # "none" /\ verdicts' = [verdicts EXCEPT ![w] = "none"]
    BY <1>7, <2>1, <2>2, VerdictMoves, Zenon DEF Respond, verdicts, FlowTypeOK
  <2>4. Ledger!Answer(w)
    BY <2>1, <2>3, Zenon DEF Ledger!Answer, caps, verdicts
  <2> QED
    BY <2>4, Zenon DEF Ledger!LedgerNext
<1>8. ASSUME HedgeCovers
      PROVE  [Ledger!LedgerNext]_(Ledger!ledgerVars)
  <2>1. /\ UNCHANGED <<net, seen, flow, flowPc, status>>
        /\ caps' = caps
    BY <1>8, <1>0, Zenon DEF HedgeCovers, AddCoverage, flowVars
  <2>2. verdicts' = verdicts
    BY <2>1 DEF verdicts, Verdict
  <2>3. \E c \in Currency, n \in HedgeAmount :
          coverage' = [coverage EXCEPT ![c] = @ + n]
    BY <1>8, Zenon DEF HedgeCovers, AddCoverage
  <2>4. Ledger!Cover
    BY <2>1, <2>2, <2>3, Zenon DEF Ledger!Cover, caps, verdicts
  <2> QED
    BY <2>4, Zenon DEF Ledger!LedgerNext
<1>9. CASE UNCHANGED ingestVars
  <2>1. UNCHANGED <<net, coverage, seen, flow, flowPc, status>> /\ caps' = caps
    BY <1>9, <1>0, Zenon DEF ingestVars, flowVars
  <2>2. verdicts' = verdicts
    BY <2>1 DEF verdicts, Verdict
  <2> QED
    BY <2>1, <2>2, Zenon DEF Ledger!ledgerVars, caps, verdicts
<1> QED
  BY <1>1, <1>2, <1>3, <1>4, <1>5, <1>6, <1>7, <1>8, <1>9, Zenon DEF FlowNext, FlowStep

(* The handlers of api.AddExposure implement the ledger: whatever their    *)
(* number and interleaving, a request takes effect at one instant, an      *)
(* event id is booked at most once and a refusal is justified at the       *)
(* instant of the guard.                                                   *)
THEOREM FlowImplementsLedger == FlowSpec => ImplementsLedger
<1>1. FlowSpec => []FlowTypeOK
  BY FlowTypeCorrect, Zenon
<1> QED
  BY <1>1, FlowInitLedger, FlowNextLedger, PTL
  DEF FlowSpec, ImplementsLedger, Ledger!LedgerSpec

-----------------------------------------------------------------------------
(* Claims are magnitudes of single flows. *)
IsClaims(m) == /\ IsFiniteSet(DOMAIN m)
               /\ \A w \in DOMAIN m : m[w] \in 0 .. FlowLimit

(* Scaling by the largest flow is monotone. *)
LEMMA ScaleMonotone ==
  ASSUME NEW j \in Int, NEW k \in Int, j <= k
  PROVE  FlowLimit * j <= FlowLimit * k
<1>1. FlowLimit \in Nat
  BY FlowAssumption, Zenon
<1>2. PICK d \in Nat : k = j + d
  <2>1. k - j \in Nat /\ k = j + (k - j)
    OBVIOUS
  <2> QED
    BY <2>1, Zenon
<1>3. FlowLimit * k = FlowLimit * j + FlowLimit * d
  BY <1>1, <1>2
<1>4. FlowLimit * d \in Nat
  BY <1>1, <1>2
<1>5. FlowLimit * j \in Int
  BY <1>1
<1> QED
  BY <1>3, <1>4, <1>5

(* Headroom means that the limit holds now. *)
LEMMA HeadroomBounds ==
  ASSUME NEW x \in Int, NEW limit \in Int, NEW m, IsClaims(m), Headroom(x, m, limit)
  PROVE  x <= limit
<1> DEFINE n == Cardinality(DOMAIN m)
<1>1. n \in Nat /\ (n = 0 <=> DOMAIN m = {})
  BY FS_CardinalityType, FS_EmptySet, Zenon DEF IsClaims
<1> HIDE DEF n
<1>2. FlowLimit \in Nat /\ FlowLimit * n \in Int /\ FlowLimit * (n - 1) \in Int
  BY <1>1, FlowAssumption
<1>3. FlowLimit * 0 = 0
  BY <1>2
<1>4. CASE x + FlowLimit * n <= limit
  <2>1. FlowLimit * 0 <= FlowLimit * n
    BY <1>1, ScaleMonotone
  <2> QED
    BY <1>2, <1>3, <1>4, <2>1
<1>5. CASE \E w \in DOMAIN m : x + m[w] + FlowLimit * (n - 1) <= limit
  <2>1. PICK w \in DOMAIN m : x + m[w] + FlowLimit * (n - 1) <= limit
    BY <1>5, Zenon
  <2>2. m[w] \in Nat
    BY FlowAssumption DEF IsClaims
  <2>3. FlowLimit * 0 <= FlowLimit * (n - 1)
    BY <1>1, ScaleMonotone
  <2> QED
    BY <1>2, <1>3, <2>1, <2>2, <2>3
<1> QED
  BY <1>4, <1>5, Zenon DEF Headroom, n

(* Lowering x keeps the headroom. *)
LEMMA HeadroomLowered ==
  ASSUME NEW x \in Int, NEW y \in Int, y <= x, NEW limit \in Int,
         NEW m, IsClaims(m), Headroom(x, m, limit)
  PROVE  Headroom(y, m, limit)
<1> DEFINE n == Cardinality(DOMAIN m)
<1>1. n \in Nat
  BY FS_CardinalityType, Zenon DEF IsClaims
<1> HIDE DEF n
<1>2. FlowLimit * n \in Int /\ FlowLimit * (n - 1) \in Int
  BY <1>1, FlowAssumption
<1>3. \A w \in DOMAIN m : m[w] \in Int
  BY FlowAssumption DEF IsClaims
<1>4. \/ x + FlowLimit * n <= limit
      \/ \E w \in DOMAIN m : x + m[w] + FlowLimit * (n - 1) <= limit
  BY Zenon DEF Headroom, n
<1>5. \/ y + FlowLimit * n <= limit
      \/ \E w \in DOMAIN m : y + m[w] + FlowLimit * (n - 1) <= limit
  BY <1>2, <1>3, <1>4
<1> QED
  BY <1>5, Zenon DEF Headroom, n

(* Admitting one more claim: the guard vouched for that claim alone, every *)
(* earlier one is counted as a largest flow.                               *)
LEMMA HeadroomAdmits ==
  ASSUME NEW x \in Int, NEW base \in Int, NEW k \in Int,
         NEW m, IsClaims(m), Cardinality(DOMAIN m) <= k,
         NEW p, IsClaims(p), NEW w, w \notin DOMAIN m,
         DOMAIN p = DOMAIN m \cup {w}, x + p[w] <= base
  PROVE  Headroom(x, p, base + k * FlowLimit)
<1> DEFINE n == Cardinality(DOMAIN m)
<1>1. n \in Nat /\ Cardinality(DOMAIN p) = n + 1
  BY FS_CardinalityType, FS_AddElement, Zenon DEF IsClaims
<1>2. n <= k
  BY Zenon
<1> HIDE DEF n
<1>3. FlowLimit * n <= FlowLimit * k
  BY <1>1, <1>2, ScaleMonotone
<1>4. FlowLimit \in Nat
  BY FlowAssumption, Zenon
<1>5. p[w] \in Int
  BY <1>4 DEF IsClaims
<1>6. FlowLimit * k = k * FlowLimit /\ FlowLimit * n \in Int /\ k * FlowLimit \in Int
  BY <1>1, <1>4
<1>7. (n + 1) - 1 = n
  BY <1>1
<1>8. x + p[w] + FlowLimit * ((n + 1) - 1) <= base + k * FlowLimit
  BY <1>3, <1>5, <1>6, <1>7
<1> QED
  BY <1>1, <1>8, Zenon DEF Headroom

(* Applying a claim: x grows by at most the claim, which no longer counts. *)
LEMMA HeadroomApplied ==
  ASSUME NEW x \in Int, NEW y \in Int, NEW limit \in Int,
         NEW m, IsClaims(m), Headroom(x, m, limit),
         NEW w \in DOMAIN m, y <= x + m[w],
         NEW p, DOMAIN p = DOMAIN m \ {w}, \A v \in DOMAIN p : p[v] = m[v]
  PROVE  Headroom(y, p, limit)
<1> DEFINE n == Cardinality(DOMAIN m)
<1>1. n \in Nat /\ Cardinality(DOMAIN p) = n - 1
  BY FS_CardinalityType, FS_RemoveElement DEF IsClaims
<1> HIDE DEF n
<1>2. FlowLimit \in Nat
  BY FlowAssumption, Zenon
<1>3. \A v \in DOMAIN m : m[v] \in Nat /\ m[v] <= FlowLimit
  BY <1>2 DEF IsClaims
<1>4. /\ FlowLimit * n = FlowLimit * (n - 1) + FlowLimit
      /\ FlowLimit * (n - 1) = FlowLimit * ((n - 1) - 1) + FlowLimit
      /\ FlowLimit * n \in Int
      /\ FlowLimit * (n - 1) \in Int
      /\ FlowLimit * ((n - 1) - 1) \in Int
  BY <1>1, <1>2
<1>5. \/ y + FlowLimit * (n - 1) <= limit
      \/ \E v \in DOMAIN p : y + p[v] + FlowLimit * ((n - 1) - 1) <= limit
  <2>1. CASE x + FlowLimit * n <= limit
    BY <1>2, <1>3, <1>4, <2>1
  <2>2. CASE \E v \in DOMAIN m : x + m[v] + FlowLimit * (n - 1) <= limit
    <3>1. PICK v \in DOMAIN m : x + m[v] + FlowLimit * (n - 1) <= limit
      BY <2>2, Zenon
    <3>2. CASE v = w
      BY <1>3, <1>4, <3>1, <3>2
    <3>3. CASE v # w
      <4>1. v \in DOMAIN p /\ p[v] = m[v]
        BY <3>3, Zenon
      <4>2. y + m[v] + FlowLimit * ((n - 1) - 1) <= limit
        BY <1>2, <1>3, <1>4, <3>1
      <4> QED
        BY <4>1, <4>2, Zenon
    <3> QED
      BY <3>2, <3>3, Zenon
  <2> QED
    BY <2>1, <2>2, Zenon DEF Headroom, n
<1> QED
  BY <1>1, <1>5, Zenon DEF Headroom

(* The claims of the handlers between guard and update are claims. *)
LEMMA PendingAreClaims ==
  ASSUME FlowTypeOK, NEW c \in Currency
  PROVE  /\ IsClaims(Claims(Raising(c)))
         /\ IsClaims(Claims(Lowering(c)))
         /\ DOMAIN Claims(Raising(c)) = Raising(c)
         /\ DOMAIN Claims(Lowering(c)) = Lowering(c)
<1>1. /\ DOMAIN Claims(Raising(c)) = Raising(c)
      /\ DOMAIN Claims(Lowering(c)) = Lowering(c)
  BY Zenon DEF Claims
<1>2. IsFiniteSet(Raising(c)) /\ IsFiniteSet(Lowering(c))
  <2>1. Raising(c) \in SUBSET Worker /\ Lowering(c) \in SUBSET Worker
    BY Zenon DEF Raising, Lowering
  <2> QED
    BY <2>1, FlowAssumption, FS_Subset, Zenon
<1>3. ASSUME NEW w \in Worker, flowPc[w] = "apply"
      PROVE  Abs(flow[w].amount) \in 0 .. FlowLimit
  <2>1. flow[w].amount \in Amount /\ flow[w].amount \in Int
    BY <1>3, FlowInProgress, Zenon
  <2>2. FlowLimit \in Nat /\ -FlowLimit <= flow[w].amount /\ flow[w].amount <= FlowLimit
    BY <2>1, FlowAssumption, Zenon
  <2> QED
    BY <2>1, <2>2 DEF Abs
<1> QED
  BY <1>1, <1>2, <1>3, Zenon DEF IsClaims, Claims, Raising, Lowering

(* The limit of a currency is an integer, at least one flow per handler,   *)
(* and fixed while the policy is.                                          *)
LEMMA LimitType ==
  ASSUME FlowTypeOK, NEW c \in Currency
  PROVE  /\ OvershootLimit(c) \in Int
         /\ Max2(EffectiveCap(c), FlowLimit) \in Nat
         /\ EffectiveCap(c) <= Max2(EffectiveCap(c), FlowLimit)
         /\ FlowLimit <= Max2(EffectiveCap(c), FlowLimit)
         /\ Cardinality(Worker) \in Nat
         /\ 0 <= OvershootLimit(c)
<1>1. /\ EffectiveCap(c) \in Nat
      /\ FlowLimit \in Nat
      /\ Cardinality(Worker) \in Nat
  BY CapType, FlowAssumption, FS_CardinalityType, Zenon
<1>2. /\ Max2(EffectiveCap(c), FlowLimit) \in Nat
      /\ EffectiveCap(c) <= Max2(EffectiveCap(c), FlowLimit)
      /\ FlowLimit <= Max2(EffectiveCap(c), FlowLimit)
  BY <1>1 DEF Max2
<1>3. /\ (Cardinality(Worker) - 1) * FlowLimit \in Int
      /\ (Cardinality(Worker) - 1) * FlowLimit
           = Cardinality(Worker) * FlowLimit - FlowLimit
      /\ Cardinality(Worker) * FlowLimit \in Nat
  BY <1>1
<1> QED
  BY <1>1, <1>2, <1>3 DEF OvershootLimit

(* A step that admits and applies nothing leaves every claim as it is. *)
LEMMA ClaimsKept ==
  ASSUME FlowTypeOK,
         \A w \in Worker : /\ flowPc'[w] = "apply" <=> flowPc[w] = "apply"
                           /\ flowPc[w] = "apply" => flow'[w] = flow[w]
  PROVE  \A c \in Currency : /\ Claims(Raising(c))' = Claims(Raising(c))
                             /\ Claims(Lowering(c))' = Claims(Lowering(c))
<1> SUFFICES ASSUME NEW c \in Currency
             PROVE  /\ Claims(Raising(c))' = Claims(Raising(c))
                    /\ Claims(Lowering(c))' = Claims(Lowering(c))
  BY Zenon
<1>1. Raising(c)' = Raising(c) /\ Lowering(c)' = Lowering(c)
  BY Zenon DEF Raising, Lowering
<1>2. \A w \in Raising(c) \cup Lowering(c) : flow'[w] = flow[w]
  BY Zenon DEF Raising, Lowering
<1> QED
  BY <1>1, <1>2, Zenon DEF Claims

(* A step that keeps the claims, the net position and the policy and does  *)
(* not lower the coverage keeps OvershootInv.                              *)
LEMMA OvershootKept ==
  ASSUME FlowTypeOK, FlowTypeOK', OvershootInv, UNCHANGED <<net, netKeys, policyVars>>,
         \A c \in Currency : coverage'[c] >= coverage[c],
         \A w \in Worker : /\ flowPc'[w] = "apply" <=> flowPc[w] = "apply"
                           /\ flowPc[w] = "apply" => flow'[w] = flow[w]
  PROVE  OvershootInv'
<1> SUFFICES ASSUME NEW c \in Currency
             PROVE  /\ coverage'[c] >= 0
                    /\ c \notin netKeys' => net'[c] = 0
                    /\ Headroom(Open(c), Claims(Raising(c)), OvershootLimit(c))'
                    /\ Headroom(-net[c], Claims(Lowering(c)), OvershootLimit(c))'
  BY Zenon DEF OvershootInv
<1>1. /\ net[c] \in Int /\ coverage[c] \in Int /\ coverage'[c] \in Int
      /\ Open(c) \in Int /\ Open(c)' \in Int /\ Open(c)' <= Open(c)
  BY DEF FlowTypeOK, TrackerTypeOK, Open
<1>2. OvershootLimit(c)' = OvershootLimit(c)
  BY CapFixed, Zenon DEF OvershootLimit
<1>3. /\ Claims(Raising(c))' = Claims(Raising(c))
      /\ Claims(Lowering(c))' = Claims(Lowering(c))
  BY ClaimsKept, Zenon
<1>4. Headroom(Open(c)', Claims(Raising(c)), OvershootLimit(c))
  BY <1>1, HeadroomLowered, PendingAreClaims, LimitType, Zenon DEF OvershootInv
<1>5. Headroom(Open(c), Claims(Raising(c)), OvershootLimit(c))'
        <=> Headroom(Open(c)', Claims(Raising(c))', OvershootLimit(c)')
  BY Zenon DEF Headroom
<1>6. Headroom(-net[c], Claims(Lowering(c)), OvershootLimit(c))'
        <=> Headroom(-net'[c], Claims(Lowering(c))', OvershootLimit(c)')
  BY Zenon DEF Headroom
<1>7. Headroom(-net[c], Claims(Lowering(c)), OvershootLimit(c)) /\ net' = net
  BY Zenon DEF OvershootInv
<1>8. coverage'[c] >= 0 /\ (c \notin netKeys' => net'[c] = 0)
  BY <1>1, SMTT(30) DEF OvershootInv
<1> QED
  BY <1>2, <1>3, <1>4, <1>5, <1>6, <1>7, <1>8, Zenon

(* What the cap guard of api.AddExposure vouches for at the instant it     *)
(* passes: the delta alone ends within the cap or within one flow.         *)
LEMMA GuardVouches ==
  ASSUME FlowTypeOK, OvershootInv, NEW w \in Worker, flowPc[w] = "cap",
         ~ CapBlocks(flow[w].currency, flow[w].amount)
  PROVE  LET c == flow[w].currency
             a == flow[w].amount
             base == Max2(EffectiveCap(c), FlowLimit)
         IN  /\ a > 0 => Open(c) + a <= base
             /\ a < 0 => -net[c] - a <= base
<1> DEFINE c == flow[w].currency
           a == flow[w].amount
           base == Max2(EffectiveCap(c), FlowLimit)
<1>1. c \in Currency /\ a \in Amount \ {0} /\ a \in Int
  BY FlowInProgress, Zenon
<1>2. FlowLimit \in Nat /\ -FlowLimit <= a /\ a <= FlowLimit
  BY <1>1, FlowAssumption, Zenon
<1>3. net[c] \in Int /\ coverage[c] \in Int /\ coverage[c] >= 0
  BY <1>1 DEF FlowTypeOK, TrackerTypeOK, OvershootInv
<1>4. base \in Nat /\ EffectiveCap(c) <= base /\ FlowLimit <= base
      /\ EffectiveCap(c) \in Nat
  BY <1>1, LimitType, CapType, Zenon
<1>5. c \notin netKeys => net[c] = 0
  BY <1>1, Zenon DEF OvershootInv
<1>6. ~ CapBlocks(c, a)
  BY Zenon
<1> HIDE DEF c, a, base
<1>7. /\ Abs(net[c] - coverage[c] + a) \in Int
       /\ Abs(net[c] - coverage[c]) \in Int
  BY <1>1, <1>3, SMTT(30) DEF Abs
<1>8. \/ c \notin netKeys
      \/ Abs(net[c] - coverage[c] + a) <= EffectiveCap(c)
      \/ Abs(net[c] - coverage[c] + a) <= Abs(net[c] - coverage[c])
  BY <1>4, <1>6, <1>7, SMTT(30) DEF CapBlocks, Open
<1>9. a > 0 => net[c] - coverage[c] + a <= base
  BY <1>1, <1>2, <1>3, <1>4, <1>5, <1>8, SMTT(30) DEF Abs
<1>10. a < 0 => -net[c] - a <= base
  BY <1>1, <1>2, <1>3, <1>4, <1>5, <1>8, SMTT(30) DEF Abs
<1> QED
  BY <1>9, <1>10, Zenon DEF Open, c, a, base

(* Passing the guard keeps OvershootInv: at most Cardinality(Worker) - 1   *)
(* other handlers hold claims.                                             *)
LEMMA CheckCapOvershoot ==
  ASSUME FlowTypeOK, FlowTypeOK', OvershootInv, NEW w \in Worker, CheckCap(w)
  PROVE  OvershootInv'
<1>0. UNCHANGED <<trackerVars, policyVars, flow>>
  BY Zenon DEF CheckCap
<1>1. UNCHANGED <<net, netKeys, coverage, policyVars, flow>>
  BY <1>0, Zenon DEF trackerVars, positionVars
<1>2. CASE CapBlocks(flow[w].currency, flow[w].amount)
  <2>1. Goto(w, "cap", "refuse")
    BY <1>2, Zenon DEF CheckCap
  <2>2. \A v \in Worker : /\ flowPc'[v] = "apply" <=> flowPc[v] = "apply"
                          /\ flowPc[v] = "apply" => flow'[v] = flow[v]
    BY <1>1, <2>1, ZenonT(30) DEF Goto, FlowTypeOK
  <2>3. \A c \in Currency : coverage'[c] >= coverage[c]
    BY <1>1 DEF FlowTypeOK, TrackerTypeOK
  <2> QED
    BY <1>1, <2>2, <2>3, OvershootKept, Zenon
<1>3. CASE ~ CapBlocks(flow[w].currency, flow[w].amount)
  <2>1. flowPc[w] = "cap" /\ flowPc' = [flowPc EXCEPT ![w] = "apply"]
    BY <1>3, Zenon DEF CheckCap, Goto
  <2> SUFFICES ASSUME NEW c \in Currency
               PROVE  /\ Headroom(Open(c), Claims(Raising(c)), OvershootLimit(c))'
                      /\ Headroom(-net[c], Claims(Lowering(c)), OvershootLimit(c))'
    BY <1>1, Zenon DEF OvershootInv
  <2> DEFINE k == Cardinality(Worker) - 1
             base == Max2(EffectiveCap(c), FlowLimit)
  <2>2. /\ k \in Int /\ base \in Int
        /\ OvershootLimit(c) = base + k * FlowLimit
        /\ OvershootLimit(c)' = OvershootLimit(c)
    BY <1>1, LimitType, CapFixed, SMTT(30) DEF OvershootLimit
  <2>3. /\ Open(c) \in Int /\ Open(c)' = Open(c) /\ -net[c] \in Int
    BY <1>1 DEF FlowTypeOK, TrackerTypeOK, Open
  <2>4. /\ w \notin Raising(c) /\ w \notin Lowering(c)
        /\ Raising(c) \subseteq Worker \ {w} /\ Lowering(c) \subseteq Worker \ {w}
    BY <2>1, Zenon DEF Raising, Lowering
  <2>5. Cardinality(Raising(c)) <= k /\ Cardinality(Lowering(c)) <= k
    <3>1. IsFiniteSet(Worker \ {w}) /\ Cardinality(Worker \ {w}) = k
      BY FlowAssumption, FS_RemoveElement, Zenon
    <3> QED
      BY <2>4, <3>1, FS_Subset
  <2>6. /\ flow[w].amount \in Int /\ flow[w].amount # 0
    BY <2>1, FlowInProgress, Zenon
  <2>7. /\ FlowLimit \in Int
        /\ -FlowLimit <= flow[w].amount /\ flow[w].amount <= FlowLimit
    <3>1. flow[w].amount \in Amount
      BY <2>1, FlowInProgress, Zenon
    <3>2. FlowLimit \in Nat /\ \A a \in Amount : -FlowLimit <= a /\ a <= FlowLimit
      BY FlowAssumption, Zenon
    <3> QED
      BY <3>1, <3>2
  <2>8. /\ flowPc'[w] = "apply" /\ flow' = flow
        /\ \A v \in Worker \ {w} : flowPc'[v] = flowPc[v]
    BY <1>1, <2>1 DEF FlowTypeOK
  <2> HIDE DEF k, base
  <2>9. Headroom(Open(c), Claims(Raising(c)), OvershootLimit(c))'
    <3>1. CASE flow[w].currency = c /\ flow[w].amount > 0
      <4>1. Raising(c)' = Raising(c) \cup {w}
        BY <2>1, <2>8, <3>1, Zenon DEF Raising
      <4>2. DOMAIN Claims(Raising(c))' = Raising(c) \cup {w}
        BY <4>1, Zenon DEF Claims
      <4>3. Claims(Raising(c))'[w] = flow[w].amount
        BY <1>1, <2>6, <3>1, <4>1 DEF Claims, Abs
      <4>4. Open(c) + Claims(Raising(c))'[w] <= base
        BY <1>3, <2>1, <3>1, <4>3, GuardVouches, Zenon DEF base
      <4>5. IsClaims(Claims(Raising(c))) /\ DOMAIN Claims(Raising(c)) = Raising(c)
        BY PendingAreClaims
      <4>6. IsClaims(Claims(Raising(c))')
        <5>1. IsFiniteSet(Raising(c) \cup {w})
          BY <4>5, FS_AddElement DEF IsClaims
        <5>2. \A v \in Raising(c) : Claims(Raising(c))'[v] = Claims(Raising(c))[v]
          BY <1>1, <4>1, Zenon DEF Claims
        <5>3. flow[w].amount \in 0 .. FlowLimit
          BY <2>6, <2>7, <3>1
        <5> QED
          BY <4>2, <4>3, <4>5, <5>1, <5>2, <5>3, Zenon DEF IsClaims
      <4>7. Headroom(Open(c), Claims(Raising(c))', base + k * FlowLimit)
        BY <2>2, <2>3, <2>4, <2>5, <4>2, <4>4, <4>5, <4>6, HeadroomAdmits, Zenon
      <4> QED
        BY <2>2, <2>3, <4>7, Zenon DEF Headroom
    <3>2. CASE ~ (flow[w].currency = c /\ flow[w].amount > 0)
      <4>1. Raising(c)' = Raising(c)
        BY <2>1, <2>8, <3>2 DEF Raising
      <4>2. Claims(Raising(c))' = Claims(Raising(c))
        BY <1>1, <4>1, Zenon DEF Claims
      <4> QED
        BY <2>2, <2>3, <4>2, Zenon DEF OvershootInv, Headroom
    <3> QED
      BY <3>1, <3>2, Zenon
  <2>10. Headroom(-net[c], Claims(Lowering(c)), OvershootLimit(c))'
    <3>1. CASE flow[w].currency = c /\ flow[w].amount < 0
      <4>1. Lowering(c)' = Lowering(c) \cup {w}
        BY <2>1, <2>8, <3>1 DEF Lowering
      <4>2. DOMAIN Claims(Lowering(c))' = Lowering(c) \cup {w}
        BY <4>1 DEF Claims
      <4>3. Claims(Lowering(c))'[w] = -flow[w].amount
        BY <1>1, <2>6, <3>1, <4>1, Zenon DEF Claims, Abs
      <4>4. -net[c] + Claims(Lowering(c))'[w] <= base
        <5>1. -net[c] - flow[w].amount <= base
          BY <1>3, <2>1, <3>1, GuardVouches, Zenon DEF base
        <5> QED
          BY <2>2, <2>3, <2>6, <4>3, <5>1
      <4>5. IsClaims(Claims(Lowering(c))) /\ DOMAIN Claims(Lowering(c)) = Lowering(c)
        BY PendingAreClaims, ZenonT(30)
      <4>6. IsClaims(Claims(Lowering(c))')
        <5>1. IsFiniteSet(Lowering(c) \cup {w})
          BY <4>5, FS_AddElement DEF IsClaims
        <5>2. \A v \in Lowering(c) : Claims(Lowering(c))'[v] = Claims(Lowering(c))[v]
          BY <1>1, <4>1 DEF Claims
        <5>3. -flow[w].amount \in 0 .. FlowLimit
          BY <2>6, <2>7, <3>1
        <5> QED
          BY <4>2, <4>3, <4>5, <5>1, <5>2, <5>3, ZenonT(30) DEF IsClaims
      <4>7. Headroom(-net[c], Claims(Lowering(c))', base + k * FlowLimit)
        BY <2>2, <2>3, <2>4, <2>5, <4>2, <4>4, <4>5, <4>6, HeadroomAdmits, Zenon
      <4> QED
        BY <1>1, <2>2, <4>7, Zenon DEF Headroom
    <3>2. CASE ~ (flow[w].currency = c /\ flow[w].amount < 0)
      <4>1. Lowering(c)' = Lowering(c)
        BY <2>1, <2>8, <3>2 DEF Lowering
      <4>2. Claims(Lowering(c))' = Claims(Lowering(c))
        BY <1>1, <4>1 DEF Claims
      <4> QED
        BY <1>1, <2>2, <4>2, Zenon DEF OvershootInv, Headroom
    <3> QED
      BY <3>1, <3>2
  <2> QED
    BY <2>9, <2>10, Zenon
<1> QED
  BY <1>2, <1>3, Zenon

(* Applying an admitted delta consumes its claim; a delta the tracker      *)
(* drops as a duplicate leaves even more room.                             *)
LEMMA ApplyFlowOvershoot ==
  ASSUME FlowTypeOK, FlowTypeOK', OvershootInv, NEW w \in Worker, ApplyFlow(w)
  PROVE  OvershootInv'
<1> DEFINE a == flow[w].amount
           d == flow[w].currency
<1>1. /\ flowPc[w] = "apply" /\ flowPc' = [flowPc EXCEPT ![w] = "emit"]
      /\ UNCHANGED <<policyVars, flow>>
  BY Zenon DEF ApplyFlow, Goto
<1>2. a \in Int /\ a # 0 /\ d \in Currency
  BY <1>1, FlowInProgress, Zenon
<1>3. /\ coverage' = coverage
      /\ \/ net' = net /\ netKeys' = netKeys
         \/ net' = [net EXCEPT ![d] = @ + a] /\ netKeys' = netKeys \cup {d}
  BY Zenon DEF ApplyFlow, AddExposure, AddEvent, applyDelta, trackerVars, positionVars
<1> HIDE DEF a, d
<1> SUFFICES ASSUME NEW c \in Currency
             PROVE  /\ coverage'[c] >= 0
                    /\ c \notin netKeys' => net'[c] = 0
                    /\ Headroom(Open(c), Claims(Raising(c)), OvershootLimit(c))'
                    /\ Headroom(-net[c], Claims(Lowering(c)), OvershootLimit(c))'
  BY Zenon DEF OvershootInv
<1>4. /\ net[c] \in Int /\ net'[c] \in Int /\ coverage[c] \in Int
      /\ net \in [Currency -> Int]
  BY DEF FlowTypeOK, TrackerTypeOK
<1>5. /\ OvershootLimit(c) \in Int
      /\ OvershootLimit(c)' = OvershootLimit(c)
  BY <1>1, LimitType, CapFixed, Zenon DEF OvershootLimit
<1>6. net'[c] = net[c] \/ (c = d /\ net'[c] = net[c] + a)
  BY <1>3, <1>4, Zenon
<1>7. coverage'[c] >= 0 /\ (c \notin netKeys' => net'[c] = 0)
  BY <1>3, <1>4, Zenon DEF OvershootInv
<1>8. /\ Open(c) = net[c] - coverage[c] /\ Open(c)' = net'[c] - coverage[c]
      /\ Open(c) \in Int /\ Open(c)' \in Int /\ -net[c] \in Int /\ -net'[c] \in Int
  BY <1>3, <1>4 DEF Open
<1>9. /\ Headroom(Open(c), Claims(Raising(c)), OvershootLimit(c))
      /\ Headroom(-net[c], Claims(Lowering(c)), OvershootLimit(c))
      /\ IsClaims(Claims(Raising(c))) /\ DOMAIN Claims(Raising(c)) = Raising(c)
      /\ IsClaims(Claims(Lowering(c))) /\ DOMAIN Claims(Lowering(c)) = Lowering(c)
  BY PendingAreClaims, Zenon DEF OvershootInv
<1>10. Headroom(Open(c)', Claims(Raising(c))', OvershootLimit(c))
  <2>1. CASE c = d /\ a > 0
    <3>1. w \in Raising(c) /\ Raising(c)' = Raising(c) \ {w}
      BY <1>1, <2>1, ZenonT(30) DEF Raising, FlowTypeOK, a, d
    <3>2. /\ DOMAIN Claims(Raising(c))' = DOMAIN Claims(Raising(c)) \ {w}
          /\ \A v \in DOMAIN Claims(Raising(c))' :
               Claims(Raising(c))'[v] = Claims(Raising(c))[v]
      BY <1>1, <3>1, Zenon DEF Claims
    <3>3. Claims(Raising(c))[w] = a
      BY <1>2, <2>1, <3>1 DEF Claims, Abs, a
    <3>4. Open(c)' <= Open(c) + Claims(Raising(c))[w]
      <4>1. net'[c] <= net[c] + a
        BY <1>2, <1>4, <1>6, <2>1, SMTT(30)
      <4>2. net'[c] - coverage[c] <= net[c] - coverage[c] + a
        BY <1>2, <1>4, <4>1
      <4> QED
        BY <1>8, <3>3, <4>2, Zenon
    <3> QED
      BY <1>5, <1>8, <1>9, <3>1, <3>2, <3>4, HeadroomApplied, Zenon
  <2>2. CASE ~ (c = d /\ a > 0)
    <3>1. Raising(c)' = Raising(c)
      BY <1>1, <2>2, SMTT(30) DEF Raising, FlowTypeOK, a, d
    <3>2. Claims(Raising(c))' = Claims(Raising(c))
      BY <1>1, <3>1, Zenon DEF Claims
    <3>3. Open(c)' <= Open(c)
      BY <1>2, <1>4, <1>6, <1>8, <2>2
    <3> QED
      BY <1>5, <1>8, <1>9, <3>2, <3>3, HeadroomLowered, Zenon
  <2> QED
    BY <2>1, <2>2, Zenon
<1>11. Headroom(-net'[c], Claims(Lowering(c))', OvershootLimit(c))
  <2>1. CASE c = d /\ a < 0
    <3>1. w \in Lowering(c) /\ Lowering(c)' = Lowering(c) \ {w}
      BY <1>1, <2>1, SMTT(30) DEF Lowering, FlowTypeOK, a, d
    <3>2. /\ DOMAIN Claims(Lowering(c))' = DOMAIN Claims(Lowering(c)) \ {w}
          /\ \A v \in DOMAIN Claims(Lowering(c))' :
               Claims(Lowering(c))'[v] = Claims(Lowering(c))[v]
      BY <1>1, <3>1 DEF Claims
    <3>3. Claims(Lowering(c))[w] = -a
      BY <1>2, <2>1, <3>1, Zenon DEF Claims, Abs, a
    <3>4. -net'[c] <= -net[c] + Claims(Lowering(c))[w]
      <4>1. net'[c] >= net[c] + a
        BY <1>2, <1>4, <1>6, <2>1, SMTT(30)
      <4>2. -net'[c] <= -net[c] + (-a)
        BY <1>2, <1>4, <4>1
      <4> QED
        BY <3>3, <4>2, Zenon
    <3> QED
      BY <1>5, <1>8, <1>9, <3>1, <3>2, <3>4, HeadroomApplied, Zenon
  <2>2. CASE ~ (c = d /\ a < 0)
    <3>1. Lowering(c)' = Lowering(c)
      BY <1>1, <2>2 DEF Lowering, FlowTypeOK, a, d
    <3>2. Claims(Lowering(c))' = Claims(Lowering(c))
      BY <1>1, <3>1 DEF Claims
    <3>3. -net'[c] <= -net[c]
      BY <1>2, <1>4, <1>6, <2>2
    <3> QED
      BY <1>5, <1>8, <1>9, <3>2, <3>3, HeadroomLowered, Zenon
  <2> QED
    BY <2>1, <2>2, Zenon
<1> QED
  BY <1>5, <1>7, <1>10, <1>11, Zenon DEF Headroom

-----------------------------------------------------------------------------
(* OvershootInv holds before the first request. *)
LEMMA OvershootInit == FlowInit => OvershootInv
<1> SUFFICES ASSUME FlowInit, NEW c \in Currency
             PROVE  /\ coverage[c] >= 0
                    /\ c \notin netKeys => net[c] = 0
                    /\ Headroom(Open(c), Claims(Raising(c)), OvershootLimit(c))
                    /\ Headroom(-net[c], Claims(Lowering(c)), OvershootLimit(c))
  BY Zenon DEF OvershootInv
<1>1. FlowTypeOK
  BY FlowInitType, Zenon
<1>2. coverage[c] = 0 /\ net[c] = 0 /\ Open(c) = 0
  BY DEF FlowInit, TrackerInit, Open
<1>3. DOMAIN Claims(Raising(c)) = {} /\ DOMAIN Claims(Lowering(c)) = {}
  BY Zenon DEF FlowInit, Raising, Lowering, Claims
<1>4. Cardinality({}) = 0
  BY FS_EmptySet, Zenon
<1>5. OvershootLimit(c) \in Int /\ 0 <= OvershootLimit(c)
  BY <1>1, LimitType, Zenon
<1>6. FlowLimit \in Int
  BY FlowAssumption
<1>7. FlowLimit * 0 = 0
  BY <1>6
<1>8. Open(c) + FlowLimit * Cardinality({}) <= OvershootLimit(c)
  BY <1>2, <1>4, <1>5, <1>7
<1>9. -net[c] + FlowLimit * Cardinality({}) <= OvershootLimit(c)
  BY <1>2, <1>4, <1>5, <1>7
<1>10. /\ Headroom(Open(c), Claims(Raising(c)), OvershootLimit(c))
       /\ Headroom(-net[c], Claims(Lowering(c)), OvershootLimit(c))
  BY <1>3, <1>8, <1>9, Zenon DEF Headroom
<1>11. coverage[c] >= 0
  BY <1>2
<1> QED
  BY <1>2, <1>10, <1>11, Zenon

(* Apart from CheckCap and ApplyFlow no step of a handler starts, ends or   *)
(* changes a flow that passed the guard and waits to be applied.           *)
LEMMA WaitingKept ==
  ASSUME FlowTypeOK, NEW w \in Worker,
         ReceiveFlow(w) \/ CheckSeen(w) \/ RefuseFlow(w) \/ EmitAdded(w) \/ Respond(w)
  PROVE  \A v \in Worker : /\ flowPc'[v] = "apply" <=> flowPc[v] = "apply"
                           /\ flowPc[v] = "apply" => flow'[v] = flow[v]
<1>1. flowPc \in [Worker -> FlowPc] /\ flow \in [Worker -> Flow \cup {NoRequest}]
  BY Zenon DEF FlowTypeOK
<1>2. /\ flowPc[w] # "apply"
      /\ flowPc' = flowPc \/ \E to \in FlowPc \ {"apply"} : flowPc' = [flowPc EXCEPT ![w] = to]
  <2>1. CASE ReceiveFlow(w)
    BY <2>1, Zenon DEF ReceiveFlow, Goto, FlowPc
  <2>2. CASE CheckSeen(w)
    BY <2>2, Zenon DEF CheckSeen, Goto, FlowPc
  <2>3. CASE RefuseFlow(w) \/ EmitAdded(w) \/ Respond(w)
    BY <2>3, Zenon DEF RefuseFlow, EmitAdded, Respond, Goto, FlowPc
  <2> QED
    BY <2>1, <2>2, <2>3, Zenon
<1>3. \A v \in Worker \ {w} : flow'[v] = flow[v]
  <2>1. CASE ReceiveFlow(w)
    <3>1. flow' = flow \/ \E r : flow' = [flow EXCEPT ![w] = r]
      BY <2>1, Zenon DEF ReceiveFlow
    <3> QED
      BY <1>1, <3>1, Zenon
  <2>2. CASE CheckSeen(w) \/ RefuseFlow(w) \/ EmitAdded(w)
    BY <2>2, Zenon DEF CheckSeen, RefuseFlow, EmitAdded
  <2>3. CASE Respond(w)
    BY <1>1, <2>3, Zenon DEF Respond
  <2> QED
    BY <2>1, <2>2, <2>3, Zenon
<1>4. /\ flowPc'[w] # "apply"
      /\ \A v \in Worker \ {w} : flowPc'[v] = flowPc[v]
  BY <1>1, <1>2, ZenonT(30)
<1> QED
  BY <1>2, <1>3, <1>4, Zenon

(* Every step of every handler keeps OvershootInv. *)
LEMMA OvershootNext ==
  FlowTypeOK /\ FlowTypeOK' /\ OvershootInv /\ [FlowNext]_ingestVars => OvershootInv'
<1> SUFFICES ASSUME FlowTypeOK, FlowTypeOK', OvershootInv, [FlowNext]_ingestVars
             PROVE  OvershootInv'
  BY Zenon
<1> USE DEF FlowTypeOK
<1>0. coverage' = coverage => \A c \in Currency : coverage'[c] >= coverage[c]
  BY SMTT(30) DEF TrackerTypeOK
<1>1. CASE UNCHANGED ingestVars
  <2>1. UNCHANGED <<net, netKeys, coverage, policyVars, flowPc, flow>>
    BY <1>1, Zenon DEF ingestVars, trackerVars, positionVars, flowVars
  <2> QED
    BY <1>0, <2>1, OvershootKept
<1>2. ASSUME NEW w \in Worker, ReceiveFlow(w)
      PROVE  OvershootInv'
  <2>1. UNCHANGED <<net, netKeys, coverage, policyVars>>
    BY <1>2, ZenonT(30) DEF ReceiveFlow, trackerVars, positionVars
  <2>2. \A v \in Worker : /\ flowPc'[v] = "apply" <=> flowPc[v] = "apply"
                          /\ flowPc[v] = "apply" => flow'[v] = flow[v]
    BY <1>2, WaitingKept, ZenonT(30)
  <2> QED
    BY <1>0, <2>1, <2>2, OvershootKept, ZenonT(30)
<1>3. ASSUME NEW w \in Worker, CheckSeen(w) \/ RefuseFlow(w) \/ EmitAdded(w) \/ Respond(w)
      PROVE  OvershootInv'
  <2>1. UNCHANGED <<net, netKeys, coverage, policyVars>>
    BY <1>3, ZenonT(30) DEF CheckSeen, RefuseFlow, EmitAdded, Respond, trackerVars, positionVars
  <2>2. \A v \in Worker : /\ flowPc'[v] = "apply" <=> flowPc[v] = "apply"
                          /\ flowPc[v] = "apply" => flow'[v] = flow[v]
    BY <1>3, WaitingKept
  <2> QED
    BY <1>0, <2>1, <2>2, OvershootKept
<1>4. CASE HedgeCovers
  <2>1. PICK c \in Currency, n \in HedgeAmount : AddCoverage(c, n)
    BY <1>4 DEF HedgeCovers
  <2>2. UNCHANGED <<net, netKeys, policyVars, flowPc, flow>>
    BY <1>4, <2>1, Zenon DEF HedgeCovers, AddCoverage, flowVars
  <2>3. \A d \in Currency : coverage'[d] >= coverage[d]
    <3>1. n \in Nat /\ coverage \in [Currency -> Int]
      BY FlowAssumption DEF TrackerTypeOK
    <3> QED
      BY <2>1, <3>1, SMTT(30) DEF AddCoverage
  <2> QED
    BY <2>2, <2>3, OvershootKept, ZenonT(30)
<1> QED
  BY <1>1, <1>2, <1>3, <1>4, CheckCapOvershoot, ApplyFlowOvershoot, SMTT(30) DEF FlowNext, FlowStep

(* Where OvershootInv holds, no position is beyond the limit. *)
LEMMA OvershootInvBounds == FlowTypeOK /\ OvershootInv => OvershootBound
<1> SUFFICES ASSUME FlowTypeOK, OvershootInv, NEW c \in Currency
             PROVE  Open(c) <= OvershootLimit(c) /\ net[c] >= -OvershootLimit(c)
  BY Zenon DEF OvershootBound
<1>1. /\ net[c] \in Int /\ -net[c] \in Int /\ Open(c) \in Int
      /\ OvershootLimit(c) \in Int
  BY LimitType, SMTT(30) DEF FlowTypeOK, TrackerTypeOK, Open
<1>2. /\ Headroom(Open(c), Claims(Raising(c)), OvershootLimit(c))
      /\ Headroom(-net[c], Claims(Lowering(c)), OvershootLimit(c))
      /\ IsClaims(Claims(Raising(c))) /\ IsClaims(Claims(Lowering(c)))
  BY PendingAreClaims, Zenon DEF OvershootInv
<1>3. Open(c) <= OvershootLimit(c) /\ -net[c] <= OvershootLimit(c)
  BY <1>1, <1>2, HeadroomBounds, Zenon
<1> QED
  BY <1>1, <1>3

(* For any number of handlers, currencies, amounts and interleavings of    *)
(* api.AddExposure with executed hedges, the cap (or one flow, if that is  *)
(* larger) is overshot by at most one flow per other concurrent handler.   *)
THEOREM FlowOvershoot == FlowSpec => []OvershootBound
<1>1. FlowInit => FlowTypeOK /\ OvershootInv
  BY FlowInitType, OvershootInit, Zenon
<1>2. FlowTypeOK /\ OvershootInv /\ [FlowNext]_ingestVars => (FlowTypeOK /\ OvershootInv)'
  BY FlowNextType, OvershootNext, Zenon
<1>3. FlowTypeOK /\ OvershootInv => OvershootBound
  BY OvershootInvBounds, Zenon
<1> QED
  BY <1>1, <1>2, <1>3, PTL DEF FlowSpec

(* The same argument, for the inductive form itself: the deltas that       *)
(* passed the guard of api.AddExposure and are not applied yet always fit  *)
(* under the limit.                                                        *)
THEOREM FlowHeadroom == FlowSpec => []OvershootInv
<1>1. FlowInit => FlowTypeOK /\ OvershootInv
  BY FlowInitType, OvershootInit
<1>2. FlowTypeOK /\ OvershootInv /\ [FlowNext]_ingestVars => (FlowTypeOK /\ OvershootInv)'
  BY FlowNextType, OvershootNext
<1> QED
  BY <1>1, <1>2, PTL DEF FlowSpec

-----------------------------------------------------------------------------
(* A handler that is not about to emit for c, or is no longer, changes the *)
(* number of those that are by the one handler that moved.                 *)
LEMMA OwingMoves ==
  ASSUME FlowTypeOK, NEW w \in Worker, NEW c \in Currency,
         \A v \in Worker \ {w} : flowPc'[v] = flowPc[v] /\ flow'[v] = flow[v]
  PROVE  /\ Cardinality(Owing(c)) \in Nat
         /\ Cardinality(Owing(c))' \in Nat
         /\ w \in Owing(c) /\ w \notin Owing(c)'
              => Cardinality(Owing(c))' = Cardinality(Owing(c)) - 1
         /\ w \notin Owing(c) /\ w \in Owing(c)'
              => Cardinality(Owing(c))' = Cardinality(Owing(c)) + 1
         /\ (w \in Owing(c) <=> w \in Owing(c)')
              => Cardinality(Owing(c))' = Cardinality(Owing(c))
<1> DEFINE S == Owing(c)
           T == Owing(c)'
<1>1. S \subseteq Worker /\ T \subseteq Worker /\ S \ {w} = T \ {w}
  BY Zenon DEF Owing
<1>2. IsFiniteSet(S) /\ IsFiniteSet(T) /\ Cardinality(S) \in Nat /\ Cardinality(T) \in Nat
  BY <1>1, FlowAssumption, FS_Subset, FS_CardinalityType, Zenon
<1>3. ASSUME w \in S, w \notin T
      PROVE  Cardinality(T) = Cardinality(S) - 1
  <2>1. T = S \ {w}
    BY <1>1, <1>3, Zenon
  <2> QED
    BY <1>2, <1>3, <2>1, FS_RemoveElement, Zenon
<1>4. ASSUME w \notin S, w \in T
      PROVE  Cardinality(T) = Cardinality(S) + 1
  <2>1. T = S \cup {w}
    BY <1>1, <1>4, Zenon
  <2> QED
    BY <1>2, <1>4, <2>1, FS_AddElement, Zenon
<1>5. ASSUME w \in S <=> w \in T
      PROVE  Cardinality(T) = Cardinality(S)
  <2>1. T = S
    BY <1>1, <1>5, SMTT(30)
  <2> QED
    BY <2>1, Zenon
<1> QED
  BY <1>2, <1>3, <1>4, <1>5, Zenon

(* The counters of AppliedIsAudited are counts. *)
LEMMA ExposureCounts ==
  ASSUME FlowTypeOK, NEW c \in Currency
  PROVE  audit["exposure_added"][c] \in Nat /\ updatedAt[c] \in Nat /\ hedged[c] \in Nat
<1>1. audit \in [EventType -> [Entity -> Nat]] /\ "exposure_added" \in EventType
  BY DEF FlowTypeOK, AuditTypeOK, EventType
<1>2. audit["exposure_added"] \in [Entity -> Nat] /\ c \in Entity
  BY <1>1, FlowAssumption, Zenon
<1> QED
  BY <1>2 DEF FlowTypeOK, TrackerTypeOK

(* Emit records exactly one event, under its own type and entity. *)
LEMMA EmitCounts ==
  ASSUME AuditTypeOK, NEW t \in EventType, NEW d \in Currency, emit(t, d)
  PROVE  /\ t = "exposure_added" => audit'[t][d] = audit[t][d] + 1
         /\ \A c \in Currency : t # "exposure_added" \/ c # d =>
              audit'["exposure_added"][c] = audit["exposure_added"][c]
<1>1. /\ audit \in [EventType -> [Entity -> Nat]]
      /\ Currency \subseteq Entity
      /\ "exposure_added" \in EventType
  BY FlowAssumption, Zenon DEF AuditTypeOK, EventType
<1>2. audit' = [audit EXCEPT ![t] = [audit[t] EXCEPT ![d] = audit[t][d] + 1]]
  BY Zenon DEF emit
<1>3. audit'["exposure_added"] =
        IF t = "exposure_added" THEN [audit[t] EXCEPT ![d] = audit[t][d] + 1]
                                ELSE audit["exposure_added"]
  BY <1>1, <1>2, Zenon
<1>4. audit[t] \in [Entity -> Nat] /\ d \in Entity
  BY <1>1, Zenon
<1> QED
  BY <1>1, <1>3, <1>4, Zenon

(* A step of one handler touches the step and the request of that handler  *)
(* only, and moves it as its pc says.                                      *)
LEMMA OnlyMoves ==
  ASSUME FlowTypeOK, NEW w \in Worker, ReceiveFlow(w) \/ FlowStep(w)
  PROVE  \A v \in Worker \ {w} : flowPc'[v] = flowPc[v] /\ flow'[v] = flow[v]
<1>1. flowPc \in [Worker -> FlowPc] /\ flow \in [Worker -> Flow \cup {NoRequest}]
  BY Zenon DEF FlowTypeOK
<1>2. flowPc' = flowPc \/ \E to : flowPc' = [flowPc EXCEPT ![w] = to]
  BY Zenon DEF ReceiveFlow, FlowStep, CheckSeen, CheckCap, RefuseFlow, ApplyFlow,
               EmitAdded, Respond, Goto
<1>3. flow' = flow \/ \E r : flow' = [flow EXCEPT ![w] = r]
  BY Zenon DEF ReceiveFlow, FlowStep, CheckSeen, CheckCap, RefuseFlow, ApplyFlow,
               EmitAdded, Respond
<1> QED
  BY <1>1, <1>2, <1>3, Zenon

(* No handler starts or stops owing an event except by ApplyFlow and       *)
(* EmitAdded.                                                              *)
LEMMA OwingKept ==
  ASSUME FlowTypeOK, NEW w \in Worker, NEW c \in Currency,
         ReceiveFlow(w) \/ CheckSeen(w) \/ CheckCap(w) \/ RefuseFlow(w) \/ Respond(w)
  PROVE  w \notin Owing(c) /\ w \notin Owing(c)'
<1>1. flowPc \in [Worker -> FlowPc]
  BY Zenon DEF FlowTypeOK
<1>2. flowPc[w] # "emit" /\ flowPc'[w] # "emit"
  <2>1. CASE ReceiveFlow(w)
    BY <1>1, <2>1, Zenon DEF ReceiveFlow, Goto
  <2>2. CASE CheckSeen(w)
    BY <1>1, <2>2 DEF CheckSeen, Goto
  <2>3. CASE CheckCap(w)
    BY <1>1, <2>3, Zenon DEF CheckCap, Goto
  <2>4. CASE RefuseFlow(w) \/ Respond(w)
    BY <1>1, <2>4 DEF RefuseFlow, Respond, Goto
  <2> QED
    BY <2>1, <2>2, <2>3, <2>4, Zenon
<1> QED
  BY <1>2, Zenon DEF Owing

(* A step of a handler keeps AppliedIsAudited: the update is counted with  *)
(* the handler that owes its event, the event when the handler pays it.    *)
LEMMA HandlerAudited ==
  ASSUME FlowTypeOK, FlowTypeOK', AppliedIsAudited,
         NEW w \in Worker, ReceiveFlow(w) \/ FlowStep(w), NEW c \in Currency
  PROVE  audit'["exposure_added"][c] + Cardinality(Owing(c))' >= updatedAt'[c] - hedged'[c]
<1>1. \A v \in Worker \ {w} : flowPc'[v] = flowPc[v] /\ flow'[v] = flow[v]
  BY OnlyMoves, Zenon
<1>2. /\ Cardinality(Owing(c)) \in Nat
      /\ w \in Owing(c) /\ w \notin Owing(c)'
           => Cardinality(Owing(c))' = Cardinality(Owing(c)) - 1
      /\ w \notin Owing(c) /\ w \in Owing(c)'
           => Cardinality(Owing(c))' = Cardinality(Owing(c)) + 1
      /\ (w \in Owing(c) <=> w \in Owing(c)')
           => Cardinality(Owing(c))' = Cardinality(Owing(c))
  BY <1>1, OwingMoves, ZenonT(30)
<1>3. /\ audit["exposure_added"][c] \in Nat
      /\ updatedAt[c] \in Nat
      /\ AuditTypeOK
      /\ flowPc \in [Worker -> FlowPc]
      /\ flow \in [Worker -> Flow \cup {NoRequest}]
      /\ updatedAt \in [Currency -> Nat]
  BY ExposureCounts, SMTT(30) DEF FlowTypeOK, TrackerTypeOK
<1>4. CASE ReceiveFlow(w) \/ CheckSeen(w) \/ CheckCap(w) \/ Respond(w)
  <2>1. UNCHANGED <<audit, updatedAt, hedged>>
    BY <1>4, Zenon DEF ReceiveFlow, CheckSeen, CheckCap, Respond, trackerVars, positionVars
  <2>2. Cardinality(Owing(c))' = Cardinality(Owing(c))
    BY <1>2, <1>4, OwingKept, ZenonT(30)
  <2> QED
    BY <2>1, <2>2, Zenon DEF AppliedIsAudited
<1>5. CASE RefuseFlow(w)
  <2>1. /\ UNCHANGED <<updatedAt, hedged>>
        /\ emit("cap_breach", flow[w].currency)
        /\ flow[w].currency \in Currency
    BY <1>5, FlowInProgress, ZenonT(30) DEF RefuseFlow, Goto, trackerVars, positionVars
  <2>2. audit'["exposure_added"][c] = audit["exposure_added"][c]
    BY <1>3, <2>1, EmitCounts, Zenon DEF EventType
  <2>3. Cardinality(Owing(c))' = Cardinality(Owing(c))
    BY <1>2, <1>5, OwingKept, Zenon
  <2> QED
    BY <1>2, <1>3, <2>1, <2>2, <2>3, Zenon DEF AppliedIsAudited
<1>6. CASE EmitAdded(w)
  <2>1. /\ UNCHANGED <<updatedAt, hedged, flow>>
        /\ emit("exposure_added", flow[w].currency)
        /\ flow[w].currency \in Currency
        /\ flowPc[w] = "emit" /\ flowPc'[w] = "respond"
    BY <1>3, <1>6, FlowInProgress, ZenonT(30) DEF EmitAdded, Goto, trackerVars, positionVars
  <2>2. audit'["exposure_added"][c] =
          IF c = flow[w].currency THEN audit["exposure_added"][c] + 1 ELSE audit["exposure_added"][c]
    <3>1. "exposure_added" \in EventType
      BY Zenon DEF EventType
    <3> QED
      BY <1>3, <2>1, <3>1, EmitCounts, Zenon
  <2>3. w \notin Owing(c)' /\ (w \in Owing(c) <=> c = flow[w].currency)
    BY <2>1, ZenonT(30) DEF Owing
  <2>4. CASE c = flow[w].currency
    <3>1. Cardinality(Owing(c))' = Cardinality(Owing(c)) - 1
      BY <1>2, <2>3, <2>4, Zenon
    <3>2. audit'["exposure_added"][c] = audit["exposure_added"][c] + 1
      BY <2>2, <2>4, Zenon
    <3>3. audit["exposure_added"][c] \in Nat /\ updatedAt[c] \in Nat /\ hedged[c] \in Nat
      BY ExposureCounts, Zenon
    <3>4. audit["exposure_added"][c] + Cardinality(Owing(c)) >= updatedAt[c] - hedged[c]
      BY Zenon DEF AppliedIsAudited
    <3> QED
      BY <1>2, <2>1, <3>1, <3>2, <3>3, <3>4, OwedAndPaid, Zenon
  <2>5. CASE c # flow[w].currency
    <3>1. Cardinality(Owing(c))' = Cardinality(Owing(c))
      BY <1>2, <2>3, <2>5, ZenonT(30)
    <3>2. audit'["exposure_added"][c] = audit["exposure_added"][c]
      BY <2>2, <2>5, Zenon
    <3> QED
      BY <2>1, <3>1, <3>2, Zenon DEF AppliedIsAudited
  <2> QED
    BY <2>4, <2>5, Zenon
<1>7. CASE ApplyFlow(w)
  <2> DEFINE d == flow[w].currency
  <2>1. /\ UNCHANGED <<audit, hedged, flow>>
        /\ d \in Currency
        /\ flowPc[w] = "apply" /\ flowPc'[w] = "emit"
    BY <1>3, <1>7, FlowInProgress, Zenon DEF ApplyFlow, Goto
  <2>2. updatedAt' = updatedAt \/ updatedAt' = [updatedAt EXCEPT ![d] = @ + 1]
    BY <1>7, Zenon DEF ApplyFlow, AddExposure, AddEvent, applyDelta, trackerVars, positionVars
  <2>3. w \notin Owing(c) /\ (w \in Owing(c)' <=> c = d)
    BY <2>1, ZenonT(30) DEF Owing
  <2> HIDE DEF d
  <2>4. CASE c = d
    <3>1. Cardinality(Owing(c))' = Cardinality(Owing(c)) + 1
      BY <1>2, <2>3, <2>4, ZenonT(30)
    <3>2. audit["exposure_added"][c] \in Nat /\ updatedAt[c] \in Nat /\ hedged[c] \in Nat
      BY ExposureCounts, Zenon
    <3>3. updatedAt'[c] = updatedAt[c] \/ updatedAt'[c] = updatedAt[c] + 1
      BY <1>3, <2>1, <2>2, <2>4, Zenon
    <3>4. audit["exposure_added"][c] + Cardinality(Owing(c)) >= updatedAt[c] - hedged[c]
      BY Zenon DEF AppliedIsAudited
    <3> QED
      BY <1>2, <2>1, <3>1, <3>2, <3>3, <3>4, OwedAndPaid, ZenonT(30)
  <2>5. CASE c # d
    <3>1. Cardinality(Owing(c))' = Cardinality(Owing(c))
      BY <1>2, <2>3, <2>5, Zenon
    <3>2. updatedAt'[c] = updatedAt[c]
      BY <1>3, <2>1, <2>2, <2>5
    <3> QED
      BY <2>1, <3>1, <3>2, Zenon DEF AppliedIsAudited
  <2> QED
    BY <2>4, <2>5, Zenon
<1> QED
  BY <1>4, <1>5, <1>6, <1>7, Zenon DEF FlowStep

(* Every step keeps AppliedIsAudited; a hedge's update is counted by       *)
(* hedged.                                                                 *)
LEMMA AuditedNext ==
  FlowTypeOK /\ FlowTypeOK' /\ AppliedIsAudited /\ [FlowNext]_ingestVars => AppliedIsAudited'
<1> SUFFICES ASSUME FlowTypeOK, FlowTypeOK', AppliedIsAudited, [FlowNext]_ingestVars,
                    NEW c \in Currency
             PROVE  audit'["exposure_added"][c] + Cardinality(Owing(c))'
                      >= updatedAt'[c] - hedged'[c]
  BY ZenonT(30) DEF AppliedIsAudited
<1>1. /\ audit["exposure_added"][c] \in Nat
      /\ updatedAt \in [Currency -> Nat]
      /\ hedged \in [Currency -> Nat]
  BY ExposureCounts, ZenonT(30) DEF FlowTypeOK, TrackerTypeOK
<1>2. Cardinality(Owing(c)) \in Nat
  <2>1. Owing(c) \subseteq Worker
    BY Zenon DEF Owing
  <2> QED
    BY <2>1, FlowAssumption, FS_Subset, FS_CardinalityType, Zenon
<1>3. CASE UNCHANGED ingestVars
  <2>1. UNCHANGED <<audit, updatedAt, hedged, flowPc, flow>>
    BY <1>3, Zenon DEF ingestVars, flowVars, trackerVars, positionVars
  <2>2. Owing(c)' = Owing(c)
    BY <2>1 DEF Owing
  <2> QED
    BY <2>1, <2>2, Zenon DEF AppliedIsAudited
<1>4. CASE HedgeCovers
  <2>1. PICK d \in Currency, n \in HedgeAmount :
          /\ hedged' = [hedged EXCEPT ![d] = @ + 1]
          /\ AddCoverage(d, n)
    BY <1>4, Zenon DEF HedgeCovers
  <2>2. UNCHANGED <<audit, flowPc, flow>>
    BY <1>4, Zenon DEF HedgeCovers, flowVars
  <2>3. updatedAt' = [updatedAt EXCEPT ![d] = @ + 1]
    BY <2>1, Zenon DEF AddCoverage
  <2>4. Owing(c)' = Owing(c)
    BY <2>2, Zenon DEF Owing
  <2>5. updatedAt'[c] - hedged'[c] = updatedAt[c] - hedged[c]
    BY <1>1, <2>1, <2>3
  <2>6. audit["exposure_added"][c] + Cardinality(Owing(c)) >= updatedAt[c] - hedged[c]
    BY Zenon DEF AppliedIsAudited
  <2> QED
    BY <2>2, <2>4, <2>5, <2>6, Zenon
<1> QED
  BY <1>3, <1>4, HandlerAudited, Zenon DEF FlowNext

(* Whatever the number and interleaving of handlers and hedges, no early   *)
(* return of api.AddExposure leaves an applied delta without its           *)
(* exposure_added event, recorded or about to be.                          *)
THEOREM FlowAudited == FlowSpec => []AppliedIsAudited
<1>1. FlowInit => AppliedIsAudited
  <2> SUFFICES ASSUME FlowInit, NEW c \in Currency
               PROVE  audit["exposure_added"][c] + Cardinality(Owing(c))
                        >= updatedAt[c] - hedged[c]
    BY Zenon DEF AppliedIsAudited
  <2>1. /\ audit["exposure_added"][c] = 0
        /\ updatedAt[c] = 0 /\ hedged[c] = 0
    BY FlowAssumption, Zenon DEF FlowInit, AuditInit, TrackerInit, EventType
  <2>2. Cardinality(Owing(c)) = 0
    <3>1. Owing(c) = {}
      BY Zenon DEF FlowInit, Owing
    <3> QED
      BY <3>1, FS_EmptySet, Zenon
  <2> QED
    BY <2>1, <2>2
<1>2. FlowInit => FlowTypeOK
  BY FlowInitType, Zenon
<1>3. FlowTypeOK /\ AppliedIsAudited /\ [FlowNext]_ingestVars
        => (FlowTypeOK /\ AppliedIsAudited)'
  BY FlowNextType, AuditedNext
<1> QED
  BY <1>1, <1>2, <1>3, PTL DEF FlowSpec

-----------------------------------------------------------------------------
(***************************************************************************)
(* ExposureFeed: ConsistentViews and UpdatesInOrder.  Every update of the  *)
(* tracker moves the instant of its currency, and a snapshot is only ever  *)
(* taken of the current position (ViewsStep).  So the instant of a         *)
(* snapshot tells its content.  What a stream still has to receive lies in *)
(* its buffer in the order it happened, after all that it received         *)
(* (Ordered).                                                              *)
(***************************************************************************)
(* What Tracker.applyDelta and Tracker.AddCoverage send to the subscribers *)
(* leaves every buffer a queue of snapshots that is no longer than its     *)
(* capacity, and adds at most the new snapshot at its end.                 *)
LEMMA NotifyQueues ==
  ASSUME FeedTypeOK, NEW s \in Exposure, Notify(s)
  PROVE  /\ queue' \in [Channel -> Seq(Exposure)]
         /\ \A ch \in Channel : Len(queue'[ch]) <= ChannelCap[ch]
         /\ \A ch \in Channel : queue'[ch] = queue[ch] \/ queue'[ch] = Append(queue[ch], s)
<1>1. \A ch \in Channel : queue[ch] \in Seq(Exposure) /\ Len(queue[ch]) <= ChannelCap[ch]
  BY Zenon DEF FeedTypeOK, TrackerTypeOK
<1>2. \A ch \in Channel : /\ Append(queue[ch], s) \in Seq(Exposure)
                          /\ Len(Append(queue[ch], s)) = Len(queue[ch]) + 1
  BY <1>1
<1>3. \A ch \in Channel :
        queue'[ch] = IF ch \in subs /\ Len(queue[ch]) < ChannelCap[ch]
                       THEN Append(queue[ch], s) ELSE queue[ch]
  BY Zenon DEF Notify
<1>4. queue' \in [Channel -> Seq(Exposure)]
  BY <1>1, <1>2, Zenon DEF Notify
<1>5. \A ch \in Channel : ChannelCap[ch] \in Nat /\ Len(queue[ch]) \in Nat
  BY <1>1, TrackerAssumption
<1> QED
  BY <1>1, <1>2, <1>3, <1>4, <1>5

Updates(c) ==
  /\ net' \in [Currency -> Int] /\ coverage' \in [Currency -> Int]
  /\ updatedAt' \in [Currency -> Nat]
  /\ netKeys' \in SUBSET Currency /\ coverageKeys' \in SUBSET Currency
  /\ updatedAt'[c] = updatedAt[c] + 1
  /\ \A d \in Currency \ {c} : /\ net'[d] = net[d] /\ coverage'[d] = coverage[d]
                               /\ updatedAt'[d] = updatedAt[d]

(* Tracker.AddExposure and Tracker.AddCoverage change the position of one  *)
(* currency, move its instant by one and notify with its new snapshot.     *)
LEMMA ChangeFacts ==
  ASSUME FeedTypeOK, PositionChanges
  PROVE  \E c \in Currency : Updates(c) /\ Notify(Snapshot(c)') /\ UNCHANGED <<seen, subs>>
<1>1. PICK c \in Currency, a \in Change : AddExposure(c, a) \/ AddCoverage(c, a)
  BY Zenon DEF PositionChanges
<1>2. a \in Int
  BY FeedAssumption, Zenon
<1>3. TrackerTypeOK
  BY Zenon DEF FeedTypeOK
<1>4. CASE AddExposure(c, a)
  <2>1. Updates(c)
    BY <1>2, <1>3, <1>4 DEF AddExposure, applyDelta, TrackerTypeOK, Updates
  <2> QED
    BY <1>4, <2>1, Zenon DEF AddExposure, applyDelta
<1>5. CASE AddCoverage(c, a)
  <2>1. Updates(c)
    BY <1>2, <1>3, <1>5, SMTT(30) DEF AddCoverage, TrackerTypeOK, Updates
  <2> QED
    BY <1>5, <2>1, Zenon DEF AddCoverage
<1> QED
  BY <1>1, <1>4, <1>5, Zenon

(* The snapshot of a currency is well typed. *)
LEMMA SnapshotType ==
  ASSUME NEW c \in Currency, net \in [Currency -> Int], coverage \in [Currency -> Int],
         updatedAt \in [Currency -> Nat]
  PROVE  Snapshot(c) \in Exposure
BY DEF Snapshot, Open, Exposure

(* Receiving from a channel takes the head of its buffer off. *)
LEMMA ReceiveQueues ==
  ASSUME FeedTypeOK, NEW ch \in Channel, Receive(ch)
  PROVE  /\ Head(queue[ch]) \in Exposure
         /\ queue' \in [Channel -> Seq(Exposure)]
         /\ \A k \in Channel : Len(queue'[k]) <= ChannelCap[k]
         /\ queue'[ch] = Tail(queue[ch]) /\ queue[ch] # <<>>
         /\ \A k \in Channel \ {ch} : queue'[k] = queue[k]
<1>1. queue \in [Channel -> Seq(Exposure)] /\ queue[ch] # <<>>
      /\ queue' = [queue EXCEPT ![ch] = Tail(queue[ch])]
  BY Zenon DEF FeedTypeOK, TrackerTypeOK, Receive
<1>2. queue[ch] \in Seq(Exposure) /\ queue[ch] # <<>>
  BY <1>1, Zenon
<1>3. /\ Head(queue[ch]) \in Exposure /\ Tail(queue[ch]) \in Seq(Exposure)
      /\ Len(Tail(queue[ch])) = Len(queue[ch]) - 1 /\ Len(queue[ch]) \in Nat
  BY <1>2
<1>4. \A k \in Channel : ChannelCap[k] \in Nat /\ Len(queue[k]) <= ChannelCap[k]
  BY TrackerAssumption, Zenon DEF FeedTypeOK
<1> QED
  BY <1>1, <1>3, <1>4

(* Every step of the snapshotter and of the streams is well typed. *)
LEMMA FeedTyped == FeedTypeOK /\ [FeedNext]_exposureFeedVars => FeedTypeOK'
<1> SUFFICES ASSUME FeedTypeOK, [FeedNext]_exposureFeedVars PROVE FeedTypeOK'
  BY Zenon
<1>0. SnapChannel \in Channel /\ Stream \subseteq Channel
  BY FeedAssumption, Zenon
<1>1. CASE UNCHANGED exposureFeedVars
  BY <1>1, Zenon DEF exposureFeedVars, trackerVars, positionVars, feedVars, FeedTypeOK, TrackerTypeOK
<1>2. CASE PositionChanges
  <2>1. PICK c \in Currency : Updates(c) /\ Notify(Snapshot(c)') /\ UNCHANGED <<seen, subs>>
    BY <1>2, ChangeFacts, ZenonT(30)
  <2>2. PICK s \in Exposure : s = Snapshot(c)'
    BY <2>1, FreshSnapshot, Zenon DEF Updates
  <2>3. /\ queue' \in [Channel -> Seq(Exposure)]
        /\ \A ch \in Channel : Len(queue'[ch]) <= ChannelCap[ch]
    BY <2>1, <2>2, NotifyQueues, Zenon
  <2> QED
    BY <1>2, <2>1, <2>3, Zenon DEF PositionChanges, Updates, feedVars, FeedTypeOK, TrackerTypeOK
<1>3. CASE PersistChange
  <2>1. /\ Head(queue[SnapChannel]) \in Exposure
        /\ queue' \in [Channel -> Seq(Exposure)]
        /\ \A k \in Channel : Len(queue'[k]) <= ChannelCap[k]
    BY <1>0, <1>3, ReceiveQueues, Zenon DEF PersistChange
  <2> QED
    BY <1>3, <2>1, Zenon DEF PersistChange, Receive, AppendExposureSnapshot, positionVars,
                      FeedTypeOK, TrackerTypeOK
<1>4. CASE Tick
  <2>1. AllExposures \subseteq Exposure
    BY SnapshotType, Zenon DEF AllExposures, FeedTypeOK, TrackerTypeOK
  <2> QED
    BY <1>4, <2>1, Zenon DEF Tick, trackerVars, positionVars, FeedTypeOK, TrackerTypeOK
<1>5. CASE PersistTicked
  BY <1>5, Zenon DEF PersistTicked, AppendExposureSnapshot, trackerVars, positionVars, FeedTypeOK, TrackerTypeOK
<1>6. CASE Cancelled \/ StopReturns
  BY <1>6, Zenon DEF Cancelled, StopReturns, trackerVars, positionVars, FeedTypeOK, TrackerTypeOK
<1>7. CASE Stop
  BY <1>7, Zenon DEF Stop, Unsubscribe, positionVars, FeedTypeOK, TrackerTypeOK
<1>8. ASSUME NEW ch \in Stream, OpenStream(ch) \/ EndStream(ch) PROVE FeedTypeOK'
  BY <1>0, <1>8, Zenon DEF OpenStream, EndStream, Subscribe, Unsubscribe, positionVars, FeedTypeOK, TrackerTypeOK
<1>9. ASSUME NEW ch \in Stream, SendFirst(ch) PROVE FeedTypeOK'
  <2>1. sent' \in [Stream -> Seq(Exposure)]
    <3>1. sent \in [Stream -> Seq(Exposure)] /\ wanted[ch] \in Currency
      BY ZenonT(30) DEF FeedTypeOK
    <3>2. CASE wanted[ch] \in netKeys
      <4>1. PICK s \in Exposure : s = Snapshot(wanted[ch])
        BY <3>1, SnapshotType, Zenon DEF FeedTypeOK, TrackerTypeOK
      <4>2. Append(sent[ch], s) \in Seq(Exposure)
        BY <3>1, AppendItems, Zenon
      <4> QED
        BY <1>9, <3>1, <3>2, <4>1, <4>2 DEF SendFirst, GetExposure
    <3>3. CASE wanted[ch] \notin netKeys
      BY <1>9, <3>1, <3>3, ZenonT(30) DEF SendFirst
    <3> QED
      BY <3>2, <3>3, Zenon
  <2> QED
    BY <1>9, <2>1, Zenon DEF SendFirst, trackerVars, positionVars, FeedTypeOK, TrackerTypeOK
<1>10. ASSUME NEW ch \in Stream, SendUpdate(ch) PROVE FeedTypeOK'
  <2>1. /\ Head(queue[ch]) \in Exposure
        /\ queue' \in [Channel -> Seq(Exposure)]
        /\ \A k \in Channel : Len(queue'[k]) <= ChannelCap[k]
    BY <1>0, <1>10, ReceiveQueues, Zenon DEF SendUpdate
  <2>2. sent' \in [Stream -> Seq(Exposure)]
    <3>1. PICK s \in Exposure : s = Head(queue[ch])
      BY <2>1, Zenon
    <3>2. sent \in [Stream -> Seq(Exposure)] /\ sent[ch] \in Seq(Exposure)
      BY Zenon DEF FeedTypeOK
    <3>3. Append(sent[ch], s) \in Seq(Exposure)
      BY <3>2, AppendItems, Zenon
    <3> QED
      BY <1>10, <3>1, <3>2, <3>3, ZenonT(30) DEF SendUpdate
  <2> QED
    BY <1>10, <2>1, <2>2, SMTT(30) DEF SendUpdate, Receive, positionVars, FeedTypeOK, TrackerTypeOK
<1> QED
  BY <1>1, <1>2, <1>3, <1>4, <1>5, <1>6, <1>7, <1>8, <1>9, <1>10, ZenonT(30) DEF FeedNext, StreamStep

-----------------------------------------------------------------------------
(* Whatever is in a view is a snapshot. *)
LEMMA ViewsType == ASSUME FeedTypeOK PROVE Views \subseteq Exposure
<1> SUFFICES ASSUME NEW e \in Views PROVE e \in Exposure
  BY Zenon
<1>1. CASE e \in expRows \cup ticked
  BY <1>1, Zenon DEF FeedTypeOK
<1>2. CASE \E ch \in Channel : \E i \in DOMAIN queue[ch] : e = queue[ch][i]
  <2>1. PICK ch \in Channel : \E i \in DOMAIN queue[ch] : e = queue[ch][i]
    BY <1>2, Zenon
  <2>2. queue[ch] \in Seq(Exposure)
    BY Zenon DEF FeedTypeOK, TrackerTypeOK
  <2> QED
    BY <2>1, <2>2
<1>3. CASE \E ch \in Stream : \E i \in DOMAIN sent[ch] : e = sent[ch][i]
  <2>1. PICK ch \in Stream : \E i \in DOMAIN sent[ch] : e = sent[ch][i]
    BY <1>3
  <2>2. sent[ch] \in Seq(Exposure)
    BY Zenon DEF FeedTypeOK
  <2> QED
    BY <2>1, <2>2
<1> QED
  BY <1>1, <1>2, <1>3, ZenonT(30) DEF Views

(* The instant of currency d stays and so does its position, or it moves:  *)
(* what every critical section of Tracker does.                            *)
Steady(d) == updatedAt'[d] = updatedAt[d] /\ net'[d] = net[d] /\ coverage'[d] = coverage[d]

(* A step that shows nothing new but snapshots of the positions after it,  *)
(* and moves the instants of the positions that it changes, keeps the      *)
(* views consistent.                                                       *)
LEMMA ViewsStep ==
  ASSUME FeedTypeOK, FeedTypeOK', ConsistentViews,
         \A e \in Views' : e \in Views \/ \E c \in Currency : e = Snapshot(c)',
         \A d \in Currency : Steady(d) \/ updatedAt'[d] = updatedAt[d] + 1
  PROVE  ConsistentViews'
<1>1. \A d \in Currency : updatedAt[d] \in Nat /\ updatedAt'[d] \in Nat
  BY Zenon DEF FeedTypeOK, TrackerTypeOK
<1>2. \A d \in Currency : Steady(d) => Snapshot(d)' = Snapshot(d)
  BY Zenon DEF Steady, Snapshot, Open
<1>3. \A d \in Currency : Snapshot(d)'.currency = d /\ Snapshot(d)'.updatedAt = updatedAt'[d]
  BY Zenon DEF Snapshot
<1>4. ASSUME NEW e \in Views'
      PROVE  /\ e.currency \in Currency /\ e.updatedAt <= updatedAt'[e.currency]
             /\ e.updatedAt = updatedAt'[e.currency] => \E c \in Currency : c = e.currency /\ e = Snapshot(c)'
  <2>1. CASE e \in Views
    <3>1. e.currency \in Currency /\ e.updatedAt \in Nat
      BY <2>1, ViewsType, Zenon DEF Exposure
    <3>2. PICK d \in Currency : d = e.currency
      BY <3>1, Zenon
    <3>3. /\ e.updatedAt <= updatedAt[d]
          /\ e.updatedAt = updatedAt[d] => e = Snapshot(d)
      BY <2>1, <3>2, Zenon DEF ConsistentViews
    <3>4. CASE Steady(d)
      BY <1>2, <3>1, <3>2, <3>3, <3>4, ZenonT(30) DEF Steady
    <3>5. CASE updatedAt'[d] = updatedAt[d] + 1
      <4>1. updatedAt[d] \in Nat /\ updatedAt'[d] = updatedAt'[e.currency]
        BY <1>1, <3>2, Zenon
      <4>2. PICK a, b \in Nat : a = e.updatedAt /\ b = updatedAt[d] /\ a <= b
        BY <3>1, <3>3, <4>1, Zenon
      <4>3. a <= b + 1 /\ a # b + 1
        BY <4>2, EarlierStill, Zenon
      <4> QED
        BY <3>1, <3>5, <4>1, <4>2, <4>3, Zenon
    <3> QED
      BY <3>4, <3>5, Zenon
  <2>2. CASE \E c \in Currency : e = Snapshot(c)'
    <3>1. PICK c \in Currency : e = Snapshot(c)'
      BY <2>2, Zenon
    <3>2. e.currency = c /\ e.updatedAt = updatedAt'[c]
      BY <1>3, <3>1, Zenon
    <3> QED
      BY <1>1, <3>1, <3>2
  <2> QED
    BY <2>1, <2>2, Zenon
<1>5. ASSUME NEW e \in Views', NEW f \in Views', e.currency = f.currency, e.updatedAt = f.updatedAt
      PROVE  e = f
  <2>1. CASE e \in Views /\ f \in Views
    BY <1>5, <2>1, Zenon DEF ConsistentViews
  <2>2. CASE (\E c \in Currency : e = Snapshot(c)') \/ (\E c \in Currency : f = Snapshot(c)')
    <3>1. e.updatedAt = updatedAt'[e.currency] /\ f.updatedAt = updatedAt'[f.currency]
      BY <1>3, <1>5, <2>2
    <3>2. PICK c \in Currency : c = e.currency /\ e = Snapshot(c)'
      BY <1>4, <3>1, Zenon
    <3>3. PICK d \in Currency : d = f.currency /\ f = Snapshot(d)'
      BY <1>4, <3>1, Zenon
    <3> QED
      BY <1>5, <3>2, <3>3, Zenon
  <2> QED
    BY <2>1, <2>2, Zenon
<1>6. \A e \in Views' : e.updatedAt = updatedAt'[e.currency] => e = Snapshot(e.currency)'
  <2> SUFFICES ASSUME NEW e \in Views', e.updatedAt = updatedAt'[e.currency]
               PROVE  e = Snapshot(e.currency)'
    BY Zenon
  <2>1. PICK c \in Currency : c = e.currency /\ e = Snapshot(c)'
    BY <1>4, ZenonT(30)
  <2> QED
    BY <2>1, Zenon DEF Snapshot, Open
<1> QED
  BY <1>4, <1>5, <1>6, Zenon DEF ConsistentViews, Snapshot, Open

(* The snapshots of the positions after a step. *)
Fresh == {Snapshot(c)' : c \in Currency}

(* Where a view is found. *)
LEMMA InViews ==
  /\ expRows \subseteq Views /\ ticked \subseteq Views
  /\ \A ch \in Channel : \A i \in DOMAIN queue[ch] : queue[ch][i] \in Views
  /\ \A ch \in Stream : \A i \in DOMAIN sent[ch] : sent[ch][i] \in Views
BY DEF Views

(* To know what a step shows, look at the rows, the tick, the buffers and  *)
(* the streams one by one.                                                 *)
LEMMA ViewsFrom ==
  ASSUME expRows' \cup ticked' \subseteq Views \cup Fresh,
         \A ch \in Channel : \A i \in DOMAIN queue'[ch] : queue'[ch][i] \in Views \cup Fresh,
         \A ch \in Stream : \A i \in DOMAIN sent'[ch] : sent'[ch][i] \in Views \cup Fresh
  PROVE  \A e \in Views' : e \in Views \/ \E c \in Currency : e = Snapshot(c)'
<1>1. \A e \in Views' :
        \/ e \in expRows' \cup ticked'
        \/ \E ch \in Channel : \E i \in DOMAIN queue'[ch] : e = queue'[ch][i]
        \/ \E ch \in Stream : \E i \in DOMAIN sent'[ch] : e = sent'[ch][i]
  <2> DEFINE V == Views'
  <2>1. V = expRows' \cup ticked'
              \cup (UNION {{queue'[ch][i] : i \in DOMAIN queue'[ch]} : ch \in Channel})
              \cup (UNION {{sent'[ch][i] : i \in DOMAIN sent'[ch]} : ch \in Stream})
    BY Zenon DEF Views
  <2> HIDE DEF V
  <2>2. \A e \in V :
        \/ e \in expRows' \cup ticked'
        \/ \E ch \in Channel : \E i \in DOMAIN queue'[ch] : e = queue'[ch][i]
        \/ \E ch \in Stream : \E i \in DOMAIN sent'[ch] : e = sent'[ch][i]
    BY <2>1, ZenonT(30)
  <2> QED
    BY <2>2, Zenon DEF V
<1>2. \A e \in Views' : e \in Views \cup Fresh
  BY <1>1
<1> QED
  BY <1>2, Zenon DEF Fresh

(* Every step of the feed shows only old views and fresh ones, and moves   *)
(* the instants of the positions it changes.                               *)
LEMMA ViewsInductive ==
  FeedTypeOK /\ ConsistentViews /\ [FeedNext]_exposureFeedVars => ConsistentViews'
<1> SUFFICES ASSUME FeedTypeOK, FeedTypeOK', ConsistentViews, [FeedNext]_exposureFeedVars
             PROVE  ConsistentViews'
  BY FeedTyped, Zenon
<1> DEFINE Same == \A d \in Currency : Steady(d)
           Rows == expRows' \cup ticked' \subseteq Views \cup Fresh
           Queues == \A ch \in Channel : \A i \in DOMAIN queue'[ch] : queue'[ch][i] \in Views \cup Fresh
           Sent == \A ch \in Stream : \A i \in DOMAIN sent'[ch] : sent'[ch][i] \in Views \cup Fresh
<1>a. UNCHANGED <<expRows, ticked>> => Rows
  BY InViews, Zenon
<1>b. UNCHANGED queue => Queues
  BY InViews, Zenon
<1>c. UNCHANGED sent => Sent
  BY InViews, Zenon
<1>d. ASSUME NEW ch \in Channel, Receive(ch)
      PROVE  Queues /\ Same /\ Head(queue[ch]) \in Views
  <2>1. /\ queue[ch] \in Seq(Exposure) /\ queue[ch] # <<>>
        /\ \A k \in Channel \ {ch} : queue'[k] = queue[k]
        /\ queue'[ch] = Tail(queue[ch])
    BY <1>d, ReceiveQueues, Zenon DEF FeedTypeOK, TrackerTypeOK
  <2>2. /\ Head(queue[ch]) = queue[ch][1] /\ 1 \in DOMAIN queue[ch]
        /\ \A i \in DOMAIN Tail(queue[ch]) : /\ Tail(queue[ch])[i] = queue[ch][i + 1]
                                             /\ i + 1 \in DOMAIN queue[ch]
    BY <2>1
  <2>3. Queues
    <3>1. \A i \in DOMAIN queue'[ch] : queue'[ch][i] \in Views
      BY <2>1, <2>2, InViews
    <3>2. \A k \in Channel \ {ch} : \A i \in DOMAIN queue'[k] : queue'[k][i] \in Views
      BY <2>1, InViews, Zenon
    <3> QED
      BY <3>1, <3>2, Zenon
  <2>4. Same
    BY <1>d, Zenon DEF Receive, positionVars, Steady
  <2> QED
    BY <2>2, <2>3, <2>4, InViews, Zenon
<1>e. UNCHANGED positionVars => Same
  BY Zenon DEF positionVars, Steady
<1>f. Same /\ Rows /\ Queues /\ Sent => ConsistentViews'
  BY ViewsStep, ViewsFrom, Zenon
<1> HIDE DEF Same, Rows, Queues, Sent
<1>1. CASE UNCHANGED exposureFeedVars
  BY <1>1, <1>a, <1>b, <1>c, <1>e, <1>f, ZenonT(30) DEF exposureFeedVars, trackerVars, feedVars
<1>2. CASE PositionChanges
  <2>1. PICK c \in Currency : Updates(c) /\ Notify(Snapshot(c)') /\ UNCHANGED <<seen, subs>>
    BY <1>2, ChangeFacts, ZenonT(30)
  <2>2. PICK s \in Exposure : s = Snapshot(c)'
    BY <2>1, FreshSnapshot, Zenon DEF Updates
  <2>3. \A ch \in Channel : queue'[ch] = queue[ch] \/ queue'[ch] = Append(queue[ch], s)
    BY <2>1, <2>2, NotifyQueues, Zenon
  <2>4. \A ch \in Channel : queue[ch] \in Seq(Exposure)
    BY Zenon DEF FeedTypeOK, TrackerTypeOK
  <2>5. \A ch \in Channel : \A i \in DOMAIN Append(queue[ch], s) :
          \/ i \in DOMAIN queue[ch] /\ Append(queue[ch], s)[i] = queue[ch][i]
          \/ Append(queue[ch], s)[i] = s
    BY <2>4
  <2>6. s \in Fresh
    BY <2>2, Zenon DEF Fresh
  <2>7. Queues
    BY <2>3, <2>5, <2>6, InViews DEF Queues
  <2>8. Rows /\ Sent
    BY <1>2, <1>a, <1>c, Zenon DEF PositionChanges, feedVars
  <2>9. \A d \in Currency : Steady(d) \/ updatedAt'[d] = updatedAt[d] + 1
    BY <2>1, Zenon DEF Updates, Steady
  <2> QED
    BY <2>7, <2>8, <2>9, ViewsStep, ViewsFrom, ZenonT(30) DEF Rows, Queues, Sent
<1>3. CASE PersistChange
  <2>1. Queues /\ Same /\ Head(queue[SnapChannel]) \in Views
    BY <1>3, <1>d, FeedAssumption, Zenon DEF PersistChange
  <2>2. Rows
    BY <1>3, <2>1, InViews, Zenon DEF PersistChange, AppendExposureSnapshot, Rows
  <2> QED
    BY <1>3, <1>c, <1>f, <2>1, <2>2 DEF PersistChange
<1>4. CASE Tick
  <2>1. \A c \in Currency : Snapshot(c)' = Snapshot(c)
    BY <1>4, Zenon DEF Tick, trackerVars, positionVars, Snapshot, Open
  <2>2. AllExposures \subseteq Fresh
    BY <2>1, Zenon DEF AllExposures, Fresh, FeedTypeOK, TrackerTypeOK
  <2>3. Rows
    BY <1>4, <2>2, InViews, Zenon DEF Tick, Rows
  <2> QED
    BY <1>4, <1>b, <1>c, <1>e, <1>f, <2>3, ZenonT(30) DEF Tick, trackerVars
<1>5. CASE PersistTicked
  <2>1. Rows
    BY <1>5, InViews, Zenon DEF PersistTicked, AppendExposureSnapshot, Rows
  <2> QED
    BY <1>5, <1>b, <1>c, <1>e, <1>f, <2>1, Zenon DEF PersistTicked, trackerVars
<1>6. CASE Cancelled \/ StopReturns \/ Stop
  BY <1>6, <1>a, <1>b, <1>c, <1>e, <1>f, ZenonT(30) DEF Cancelled, StopReturns, Stop, Unsubscribe, trackerVars
<1>7. ASSUME NEW ch \in Stream, OpenStream(ch) \/ EndStream(ch) PROVE ConsistentViews'
  BY <1>7, <1>a, <1>b, <1>c, <1>e, <1>f, Zenon DEF OpenStream, EndStream, Subscribe, Unsubscribe
<1>8. ASSUME NEW ch \in Stream, NEW s \in Views \cup Fresh, sent' = [sent EXCEPT ![ch] = Append(sent[ch], s)]
      PROVE  Sent
  <2>1. sent \in [Stream -> Seq(Exposure)] /\ sent' \in [Stream -> Seq(Exposure)]
    BY ZenonT(30) DEF FeedTypeOK
  <2>2. \A i \in DOMAIN Append(sent[ch], s) :
          \/ i \in DOMAIN sent[ch] /\ Append(sent[ch], s)[i] = sent[ch][i]
          \/ Append(sent[ch], s)[i] = s
    <3>1. sent[ch] \in Seq(Exposure)
      BY <2>1, Zenon
    <3> QED
      BY <3>1, AppendItems, Zenon
  <2> QED
    BY <1>8, <2>1, <2>2, InViews, Zenon DEF Sent
<1>9. ASSUME NEW ch \in Stream, SendFirst(ch) PROVE ConsistentViews'
  <2>1. CASE wanted[ch] \in netKeys
    <3>1. PICK c \in Currency : c = wanted[ch]
      BY Zenon DEF FeedTypeOK
    <3>2. PICK s : s = Snapshot(c)
      BY Zenon
    <3>3. s = Snapshot(c)'
      BY <1>9, <3>2, Zenon DEF SendFirst, trackerVars, positionVars, Snapshot, Open
    <3>4. s \in Fresh
      BY <3>3, Zenon DEF Fresh
    <3>5. Sent
      BY <1>8, <1>9, <2>1, <3>1, <3>2, <3>4, Zenon DEF SendFirst, GetExposure
    <3> QED
      BY <1>9, <1>a, <1>b, <1>e, <1>f, <3>5, Zenon DEF SendFirst, trackerVars
  <2>2. CASE wanted[ch] \notin netKeys
    BY <1>9, <2>2, <1>a, <1>b, <1>c, <1>e, <1>f, Zenon DEF SendFirst, trackerVars
  <2> QED
    BY <2>1, <2>2, Zenon
<1>10. ASSUME NEW ch \in Stream, SendUpdate(ch) PROVE ConsistentViews'
  <2>1. Queues /\ Same /\ Head(queue[ch]) \in Views
    BY <1>10, <1>d, FeedAssumption, Zenon DEF SendUpdate
  <2>2. Sent
    <3>1. PICK s \in Views : s = Head(queue[ch])
      BY <2>1, Zenon
    <3> QED
      BY <1>8, <1>10, <1>c, <3>1, Zenon DEF SendUpdate
  <2> QED
    BY <1>10, <1>a, <1>f, <2>1, <2>2, Zenon DEF SendUpdate
<1> QED
  BY <1>1, <1>2, <1>3, <1>4, <1>5, <1>6, <1>7, <1>9, <1>10, Zenon DEF FeedNext, StreamStep

(* NewSnapshotter starts with nothing shown, buffered or sent. *)
LEMMA FeedStart ==
  ASSUME FeedInit
  PROVE  /\ FeedTypeOK /\ ConsistentViews
         /\ \A ch \in Stream : queue[ch] = <<>> /\ sent[ch] = <<>>
<1>1. FeedTypeOK
  BY FeedAssumption, TrackerAssumption DEF FeedInit, FeedTypeOK, TrackerTypeOK
<1>2. /\ expRows = {} /\ ticked = {} /\ \A ch \in Channel : queue[ch] = <<>>
      /\ \A ch \in Stream : sent[ch] = <<>>
  BY Zenon DEF FeedInit
<1>3. Views = {}
  BY <1>2 DEF Views
<1> QED
  BY <1>1, <1>2, <1>3, FeedAssumption, Zenon DEF ConsistentViews

(* The views of the tracker's snapshots agree, for any number of           *)
(* currencies, streams and updates (ConsistentViews).                      *)
THEOREM ViewsAlwaysConsistent == FeedSpec => []ConsistentViews
<1>1. FeedInit => FeedTypeOK /\ ConsistentViews
  BY FeedStart, Zenon
<1> QED
  BY <1>1, FeedTyped, ViewsInductive, PTL DEF FeedSpec

-----------------------------------------------------------------------------
(***************************************************************************)
(* The order of a stream.                                                  *)
(***************************************************************************)
Later(s, t) == s.currency = t.currency => s.updatedAt < t.updatedAt

(* The buffer q of a stream is in order, and behind the updates m that     *)
(* were sent after the first message for currency c.                       *)
InOrder(q, m, c) ==
  /\ \A i, j \in DOMAIN q : i < j => Later(q[i], q[j])
  /\ \A i, j \in DOMAIN m : 1 < i /\ i < j => m[i].updatedAt < m[j].updatedAt
  /\ \A i \in DOMAIN m : m[i].currency = c
  /\ \A i \in DOMAIN m, j \in DOMAIN q : 1 < i => Later(m[i], q[j])

(* The inductive invariant behind UpdatesInOrder. *)
Ordered ==
  \A ch \in Stream :
    /\ InOrder(queue[ch], sent[ch], wanted[ch])
    /\ streamPc[ch] \in {"closed", "first"} => sent[ch] = <<>>

(* Tracker.Notify: a snapshot that is later than all before it goes to the *)
(* end of the buffer.                                                      *)
LEMMA OrderNotify ==
  ASSUME NEW q \in Seq(Exposure), NEW m \in Seq(Exposure), NEW c \in Currency,
         NEW s \in Exposure, InOrder(q, m, c),
         \A i \in DOMAIN q : Later(q[i], s), \A i \in DOMAIN m : Later(m[i], s)
  PROVE  InOrder(Append(q, s), m, c)
<1>1. \A i \in DOMAIN Append(q, s) :
        \/ i \in DOMAIN q /\ Append(q, s)[i] = q[i]
        \/ i = Len(q) + 1 /\ Append(q, s)[i] = s
  BY AppendItems, Zenon
<1>2. Len(q) \in Nat /\ DOMAIN q = 1 .. Len(q)
  BY AppendItems, Zenon
<1>3. \A i, j \in DOMAIN Append(q, s) : i < j => Later(Append(q, s)[i], Append(q, s)[j])
  BY <1>1, <1>2 DEF InOrder
<1>4. \A i \in DOMAIN m, j \in DOMAIN Append(q, s) : 1 < i => Later(m[i], Append(q, s)[j])
  BY <1>1, Zenon DEF InOrder
<1> QED
  BY <1>3, <1>4, ZenonT(30) DEF InOrder

(* StreamExposure: the head of the buffer is sent, or dropped because it   *)
(* is of another currency.                                                 *)
LEMMA OrderReceive ==
  ASSUME NEW q \in Seq(Exposure), NEW m \in Seq(Exposure), NEW c \in Currency,
         q # <<>>, InOrder(q, m, c)
  PROVE  /\ InOrder(Tail(q), m, c)
         /\ Head(q).currency = c => InOrder(Tail(q), Append(m, Head(q)), c)
<1>1. /\ \A i \in DOMAIN Tail(q) : Tail(q)[i] = q[i + 1] /\ i + 1 \in DOMAIN q /\ 1 < i + 1 /\ i \in Nat
      /\ Head(q) = q[1] /\ 1 \in DOMAIN q
  OBVIOUS
<1>2. \A i, j \in DOMAIN Tail(q) : i < j => Later(Tail(q)[i], Tail(q)[j])
  BY <1>1 DEF InOrder
<1>3. \A i \in DOMAIN m, j \in DOMAIN Tail(q) : 1 < i => Later(m[i], Tail(q)[j])
  BY <1>1, Zenon DEF InOrder
<1>4. InOrder(Tail(q), m, c)
  BY <1>2, <1>3, Zenon DEF InOrder
<1>5. PICK s : s = Head(q)
  BY Zenon
<1>6. ASSUME s.currency = c PROVE InOrder(Tail(q), Append(m, s), c)
  <2>1. s \in Exposure
    BY <1>5
  <2>2. \A i \in DOMAIN Append(m, s) :
          \/ i \in DOMAIN m /\ Append(m, s)[i] = m[i]
          \/ i = Len(m) + 1 /\ Append(m, s)[i] = s
    BY <2>1
  <2>3. Len(m) \in Nat /\ DOMAIN m = 1 .. Len(m)
    OBVIOUS
  <2>4. \A i \in DOMAIN m : 1 < i => m[i].updatedAt < s.updatedAt
    BY <1>1, <1>5, <1>6, Zenon DEF InOrder, Later
  <2>5. \A j \in DOMAIN Tail(q) : Later(s, Tail(q)[j])
    BY <1>1, <1>5, Zenon DEF InOrder
  <2>6. \A i, j \in DOMAIN Append(m, s) :
          1 < i /\ i < j => Append(m, s)[i].updatedAt < Append(m, s)[j].updatedAt
    BY <2>2, <2>3, <2>4 DEF InOrder
  <2>7. \A i \in DOMAIN Append(m, s) : Append(m, s)[i].currency = c
    BY <1>6, <2>2, Zenon DEF InOrder
  <2>8. \A i \in DOMAIN Append(m, s), j \in DOMAIN Tail(q) : 1 < i => Later(Append(m, s)[i], Tail(q)[j])
    BY <1>3, <2>2, <2>5, Zenon
  <2> QED
    BY <1>2, <2>6, <2>7, <2>8 DEF InOrder
<1> QED
  BY <1>4, <1>5, <1>6, Zenon

(* Every step of the feed keeps the streams in order. *)
LEMMA OrderInductive ==
  FeedTypeOK /\ ConsistentViews /\ Ordered /\ [FeedNext]_exposureFeedVars => Ordered'
<1> SUFFICES ASSUME FeedTypeOK, FeedTypeOK', ConsistentViews, Ordered,
                    [FeedNext]_exposureFeedVars
             PROVE  Ordered'
  BY FeedTyped, Zenon
<1>0. \A ch \in Stream :
        /\ ch \in Channel /\ queue[ch] \in Seq(Exposure) /\ sent[ch] \in Seq(Exposure)
        /\ wanted[ch] \in Currency
        /\ InOrder(queue[ch], sent[ch], wanted[ch])
        /\ streamPc[ch] \in {"closed", "first"} => sent[ch] = <<>>
  BY FeedAssumption, Zenon DEF FeedTypeOK, TrackerTypeOK, Ordered
<1> DEFINE Kept(k) == /\ InOrder(queue'[k], sent'[k], wanted'[k])
                      /\ streamPc'[k] \in {"closed", "first"} => sent'[k] = <<>>
<1>f. (\A k \in Stream : Kept(k)) => Ordered'
  BY Zenon DEF Ordered
<1>a. ASSUME NEW k \in Stream, queue'[k] = queue[k], sent'[k] = sent[k], wanted'[k] = wanted[k],
             streamPc'[k] \in {"closed", "first"} => streamPc[k] \in {"closed", "first"}
      PROVE  Kept(k)
  BY <1>0, <1>a, Zenon
<1> HIDE DEF Kept
<1>1. CASE UNCHANGED exposureFeedVars
  BY <1>1, <1>a, <1>f, Zenon DEF exposureFeedVars, trackerVars, feedVars
<1>2. CASE PositionChanges
  <2>1. PICK c \in Currency : Updates(c) /\ Notify(Snapshot(c)') /\ UNCHANGED <<seen, subs>>
    BY <1>2, ChangeFacts, ZenonT(30)
  <2>2. PICK s \in Exposure : s = Snapshot(c)'
    BY <2>1, FreshSnapshot, Zenon DEF Updates
  <2>3. \A ch \in Channel : queue'[ch] = queue[ch] \/ queue'[ch] = Append(queue[ch], s)
    BY <2>1, <2>2, NotifyQueues, Zenon
  <2>4. sent' = sent /\ wanted' = wanted /\ streamPc' = streamPc
    BY <1>2, Zenon DEF PositionChanges, feedVars
  <2>5. \A e \in Views : Later(e, s)
    <3> SUFFICES ASSUME NEW e \in Views, e.currency = s.currency PROVE e.updatedAt < s.updatedAt
      BY Zenon DEF Later
    <3>1. s.currency = c /\ s.updatedAt = updatedAt[c] + 1
      BY <2>1, <2>2, Zenon DEF Updates, Snapshot
    <3>2. e.updatedAt <= updatedAt[c] /\ e.updatedAt \in Nat /\ updatedAt[c] \in Nat
      BY <3>1, ViewsType, ZenonT(30) DEF ConsistentViews, Exposure, FeedTypeOK, TrackerTypeOK
    <3> QED
      BY <3>1, <3>2
  <2>6. ASSUME NEW k \in Stream PROVE Kept(k)
    <3>1. CASE queue'[k] = queue[k]
      BY <1>a, <2>4, <3>1, Zenon
    <3>2. CASE queue'[k] = Append(queue[k], s)
      <4>1. /\ \A i \in DOMAIN queue[k] : Later(queue[k][i], s)
            /\ \A i \in DOMAIN sent[k] : Later(sent[k][i], s)
        BY <1>0, <2>5, InViews, Zenon
      <4>2. InOrder(Append(queue[k], s), sent[k], wanted[k])
        BY <1>0, <4>1, OrderNotify, Zenon
      <4> QED
        BY <1>0, <2>4, <3>2, <4>2, Zenon DEF Kept
    <3> QED
      BY <1>0, <2>3, <3>1, <3>2, ZenonT(30)
  <2> QED
    BY <1>f, <2>6, Zenon
<1>3. CASE PersistChange
  <2>1. \A k \in Stream : queue'[k] = queue[k]
    BY <1>3, ReceiveQueues, FeedAssumption, Zenon DEF PersistChange
  <2> QED
    BY <1>3, <1>a, <1>f, <2>1, Zenon DEF PersistChange
<1>4. CASE Tick \/ PersistTicked \/ Cancelled \/ StopReturns \/ Stop
  BY <1>4, <1>a, <1>f, Zenon DEF Tick, PersistTicked, Cancelled, StopReturns, Stop, Unsubscribe, trackerVars
<1>5. ASSUME NEW ch \in Stream, OpenStream(ch) \/ EndStream(ch) PROVE Ordered'
  <2>1. UNCHANGED <<queue, sent, wanted>>
    BY <1>5, Zenon DEF OpenStream, EndStream, Subscribe, Unsubscribe
  <2>2. \A k \in Stream : streamPc'[k] \in {"closed", "first"} => streamPc[k] \in {"closed", "first"}
    BY <1>5, Zenon DEF OpenStream, EndStream, FeedTypeOK
  <2> QED
    BY <1>a, <1>f, <2>1, <2>2, Zenon
<1>6. ASSUME NEW ch \in Stream, SendFirst(ch) PROVE Ordered'
  <2>1. /\ queue' = queue /\ wanted' = wanted /\ streamPc[ch] = "first"
        /\ streamPc' = [streamPc EXCEPT ![ch] = "open"] /\ streamPc'[ch] = "open"
    BY <1>6, Zenon DEF SendFirst, trackerVars, FeedTypeOK
  <2>2. \A k \in Stream \ {ch} : sent'[k] = sent[k] /\ streamPc'[k] = streamPc[k]
    BY <1>6, Zenon DEF SendFirst, FeedTypeOK
  <2>3. sent[ch] = <<>>
    BY <1>0, <2>1, Zenon
  <2>4. CASE wanted[ch] \in netKeys
    <3>1. PICK c \in Currency : c = wanted[ch]
      BY <1>0, Zenon
    <3>2. PICK s : s = Snapshot(c)
      BY Zenon
    <3>3. s.currency = c
      BY <3>2, Zenon DEF Snapshot
    <3>4. sent'[ch] = Append(sent[ch], s)
      BY <1>6, <2>4, <3>1, <3>2, Zenon DEF SendFirst, GetExposure, FeedTypeOK
    <3>5. sent'[ch] = <<s>>
      BY <2>3, <3>4, OneItem, Zenon
    <3>6. InOrder(queue[ch], <<s>>, c)
      BY <1>0, <3>1, <3>3, OneItem, ZenonT(30) DEF InOrder
    <3>7. Kept(ch)
      BY <2>1, <3>1, <3>5, <3>6, Zenon DEF Kept
    <3> QED
      BY <1>a, <1>f, <2>1, <2>2, <3>7, Zenon
  <2>5. CASE wanted[ch] \notin netKeys
    <3>1. sent'[ch] = sent[ch]
      BY <1>6, <2>5, Zenon DEF SendFirst
    <3> QED
      BY <1>a, <1>f, <2>1, <2>2, <3>1, Zenon
  <2> QED
    BY <2>4, <2>5, Zenon
<1>7. ASSUME NEW ch \in Stream, SendUpdate(ch) PROVE Ordered'
  <2>1. /\ queue'[ch] = Tail(queue[ch]) /\ queue[ch] # <<>>
        /\ \A k \in Stream \ {ch} : queue'[k] = queue[k]
    BY <1>0, <1>7, ReceiveQueues, Zenon DEF SendUpdate
  <2>2. /\ wanted' = wanted /\ streamPc' = streamPc /\ streamPc[ch] = "open"
        /\ sent'[ch] = IF Head(queue[ch]).currency = wanted[ch]
                         THEN Append(sent[ch], Head(queue[ch])) ELSE sent[ch]
        /\ \A k \in Stream \ {ch} : sent'[k] = sent[k]
    BY <1>7, Zenon DEF SendUpdate, FeedTypeOK
  <2>3. InOrder(queue'[ch], sent'[ch], wanted[ch])
    BY <1>0, <2>1, <2>2, OrderReceive, Zenon
  <2>4. Kept(ch)
    BY <2>2, <2>3, Zenon DEF Kept
  <2> QED
    BY <1>a, <1>f, <2>1, <2>2, <2>4, Zenon
<1> QED
  BY <1>1, <1>2, <1>3, <1>4, <1>5, <1>6, <1>7, Zenon DEF FeedNext, StreamStep

(* A StreamExposure client gets snapshots of its currency only, and the    *)
(* updates after the first message in the order they happened, for any     *)
(* buffer size and any number of streams (UpdatesInOrder).                 *)
THEOREM UpdatesAlwaysInOrder == FeedSpec => []UpdatesInOrder
<1>1. FeedInit => FeedTypeOK /\ ConsistentViews /\ Ordered
  BY FeedStart DEF Ordered, InOrder
<1>2. Ordered => UpdatesInOrder
  BY Zenon DEF Ordered, InOrder, UpdatesInOrder
<1> QED
  BY <1>1, <1>2, FeedTyped, ViewsInductive, OrderInductive, PTL DEF FeedSpec
=============================================================================
