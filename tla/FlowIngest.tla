----------------------------- MODULE FlowIngest -----------------------------
(***************************************************************************)
(* POST /v1/exposure/{currency}: api.Service.AddExposure, run by any       *)
(* number of server goroutines at once against the shared tracker.  A step *)
(* is one critical section of the tracker (or of the audit recorder) and   *)
(* the local computation around it; between two steps of one handler any   *)
(* other handler may run.                                                  *)
(*                                                                         *)
(* Executed hedges reach this component only through Tracker.AddCoverage,  *)
(* always with a positive amount: the action HedgeCovers.                  *)
(***************************************************************************)
EXTENDS Policy, Audit

CONSTANTS
  Worker,       \* goroutines that may serve flow requests at the same time
  NoRequest,    \* a worker that serves nothing
  Amount,       \* the amounts of requests
  FlowLimit,    \* the largest magnitude in Amount
  HedgeAmount,  \* the executed notionals of hedges
  Configured,   \* the override tables the service may start with
  MaxFlows,     \* bound: requests received
  MaxHedges     \* bound: hedges executed per currency

ASSUME FlowAssumption ==
  /\ Currency \subseteq Entity
  /\ Amount \subseteq Int
  /\ FlowLimit \in Nat
  /\ \A a \in Amount : -FlowLimit <= a /\ a <= FlowLimit
  /\ HedgeAmount \subseteq Nat \ {0}
  /\ IsFiniteSet(Worker)
  /\ NoRequest \notin [currency: Currency, amount: Amount, event: EventId \cup {NoEvent}]
  /\ Configured \subseteq [Currency -> Override]
  /\ MaxFlows \in Nat
  /\ MaxHedges \in Nat

VARIABLES
  flowPc,    \* flowPc[w]: the step of AddExposure w runs next
  flow,      \* flow[w]: the decoded request
  status,    \* status[w]: the HTTP status of w's last answer, 0 at first
  flows,     \* requests received so far
  hedged     \* hedged[c]: hedges executed so far

flowVars == <<flowPc, flow, status, flows>>
ingestVars == <<trackerVars, policyVars, audit, flowVars, hedged>>

FlowPc == {"idle", "seen", "cap", "apply", "emit", "refuse", "respond"}
Flow == [currency: Currency, amount: Amount \ {0}, event: EventId \cup {NoEvent}]

FlowTypeOK ==
  /\ TrackerTypeOK
  /\ PolicyTypeOK
  /\ AuditTypeOK
  /\ flowPc \in [Worker -> FlowPc]
  /\ flow \in [Worker -> Flow \cup {NoRequest}]
  /\ \A w \in Worker : flow[w] = NoRequest <=> flowPc[w] = "idle"
  /\ status \in [Worker -> {0, 200, 400, 409}]
  /\ flows \in Nat
  /\ hedged \in [Currency -> Nat]

FlowInit ==
  /\ TrackerInit
  /\ \E o \in Configured : PolicyInit(o)
  /\ AuditInit
  /\ flowPc = [w \in Worker |-> "idle"]
  /\ flow = [w \in Worker |-> NoRequest]
  /\ status = [w \in Worker |-> 0]
  /\ flows = 0
  /\ hedged = [c \in Currency |-> 0]

-----------------------------------------------------------------------------
Goto(w, from, to) ==
  /\ flowPc[w] = from
  /\ flowPc' = [flowPc EXCEPT ![w] = to]

(* Decoding and validation: a zero amount is answered 400 at once. *)
ReceiveFlow(w) ==
  /\ flows < MaxFlows
  /\ flows' = flows + 1
  /\ \E c \in Currency, a \in Amount, e \in EventId \cup {NoEvent} :
       \/ /\ a = 0
          /\ flowPc[w] = "idle"
          /\ status' = [status EXCEPT ![w] = 400]
          /\ UNCHANGED <<flowPc, flow>>
       \/ /\ a # 0
          /\ Goto(w, "idle", "seen")
          /\ flow' = [flow EXCEPT ![w] =
                        [currency |-> ToUpper[c], amount |-> a, event |-> e]]
          /\ UNCHANGED status
  /\ UNCHANGED <<trackerVars, policyVars, audit, hedged>>

(* Tracker.Seen: an id already ingested is answered without any change. *)
CheckSeen(w) ==
  /\ \/ /\ Goto(w, "seen", "respond")
        /\ flow[w].event \in seen
        /\ status' = [status EXCEPT ![w] = 200]
     \/ /\ Goto(w, "seen", "cap")
        /\ flow[w].event \notin seen
        /\ UNCHANGED status
  /\ UNCHANGED <<trackerVars, policyVars, audit, flow, flows, hedged>>

(* A handler that waits for the exposure to fall instead of refusing. *)
CheckCapWaits(w) ==
  /\ Goto(w, "cap", "apply")
  /\ ~ CapBlocks(flow[w].currency, flow[w].amount)
  /\ UNCHANGED <<trackerVars, policyVars, audit, flow, status, flows, hedged>>

(* Tracker.GetExposure and the guard computed from what it returned. *)
CheckCap(w) ==
  /\ Goto(w, "cap", IF CapBlocks(flow[w].currency, flow[w].amount)
                      THEN "refuse" ELSE "apply")
  /\ UNCHANGED <<trackerVars, policyVars, audit, flow, status, flows, hedged>>

RefuseFlow(w) ==
  /\ Goto(w, "refuse", "respond")
  /\ emit("cap_breach", flow[w].currency)
  /\ status' = [status EXCEPT ![w] = 409]
  /\ UNCHANGED <<trackerVars, policyVars, flow, flows, hedged>>

(* A handler that returns early, without the audit event, for flows that   *)
(* carry an event id.                                                      *)
ApplyFlowQuiet(w) ==
  /\ Goto(w, "apply", IF flow[w].event = NoEvent THEN "emit" ELSE "respond")
  /\ IF flow[w].event = NoEvent
       THEN AddExposure(flow[w].currency, flow[w].amount)
       ELSE AddEvent(flow[w].currency, flow[w].amount, flow[w].event)
  /\ status' = [status EXCEPT ![w] = 200]
  /\ UNCHANGED <<policyVars, audit, flow, flows, hedged>>

(* Tracker.AddEvent or, without an id, Tracker.AddExposure.  The handler   *)
(* ignores whether AddEvent applied the delta.                             *)
ApplyFlow(w) ==
  /\ Goto(w, "apply", "emit")
  /\ IF flow[w].event = NoEvent
       THEN AddExposure(flow[w].currency, flow[w].amount)
       ELSE AddEvent(flow[w].currency, flow[w].amount, flow[w].event)
  /\ UNCHANGED <<policyVars, audit, flow, status, flows, hedged>>

EmitAdded(w) ==
  /\ Goto(w, "emit", "respond")
  /\ emit("exposure_added", flow[w].currency)
  /\ status' = [status EXCEPT ![w] = 200]
  /\ UNCHANGED <<trackerVars, policyVars, flow, flows, hedged>>

(* An answer that leaves the request attached to the worker. *)
RespondKeeping(w) ==
  /\ Goto(w, "respond", "idle")
  /\ UNCHANGED <<trackerVars, policyVars, audit, flow, status, flows, hedged>>

Respond(w) ==
  /\ Goto(w, "respond", "idle")
  /\ flow' = [flow EXCEPT ![w] = NoRequest]
  /\ UNCHANGED <<trackerVars, policyVars, audit, status, flows, hedged>>

HedgeCovers ==
  /\ \E c \in Currency, n \in HedgeAmount :
       /\ hedged[c] < MaxHedges
       /\ hedged' = [hedged EXCEPT ![c] = @ + 1]
       /\ AddCoverage(c, n)
  /\ UNCHANGED <<policyVars, audit, flowVars>>

FlowStep(w) ==
  CheckSeen(w) \/ CheckCap(w) \/ RefuseFlow(w) \/ ApplyFlow(w) \/ EmitAdded(w)
    \/ Respond(w)

FlowNext ==
  \/ \E w \in Worker : ReceiveFlow(w) \/ FlowStep(w)
  \/ HedgeCovers

FlowSpec == FlowInit /\ [][FlowNext]_ingestVars

(* A goroutine that has received a request is always scheduled again and   *)
(* every lock it waits for is released; clients and hedges owe nothing.    *)
FairFlowSpec == FlowSpec /\ \A w \in Worker : WF_ingestVars(FlowStep(w))

-----------------------------------------------------------------------------
(***************************************************************************)
(* Properties.                                                             *)
(***************************************************************************)

(* How a handler stands, as the ledger sees it: decided once the event was *)
(* found, applied or refused, and until it is answered.                    *)
Verdict(w) ==
  CASE flowPc[w] = "refuse" -> "refused"
    [] flowPc[w] = "emit" -> "booked"
    [] flowPc[w] = "respond" -> (IF status[w] = 409 THEN "refused" ELSE "booked")
    [] OTHER -> "none"

Ledger == INSTANCE ExposureLedger
            WITH balance <- net, covered <- coverage, posted <- seen,
                 cap <- [c \in Currency |-> EffectiveCap(c)],
                 request <- flow, decision <- [w \in Worker |-> Verdict(w)]

(* However the handlers interleave, each request takes effect at a single  *)
(* instant: an event id changes the net position at most once, a 200       *)
(* answer means the event is booked, and a 409 is given only when the flow *)
(* would have breached the cap at the instant of the guard                 *)
(* (api.AddExposure over Tracker.Seen, GetExposure and AddEvent).          *)
ImplementsLedger == Ledger!LedgerSpec

Max2(x, y) == IF x < y THEN y ELSE x

(* The cap, or one flow if that is larger, plus one flow for every other   *)
(* handler that can be between its guard and its update.                   *)
OvershootLimit(c) ==
  Max2(EffectiveCap(c), FlowLimit) + (Cardinality(Worker) - 1) * FlowLimit

(* The guard of api.AddExposure reads the exposure and applies the delta   *)
(* in two critical sections, so concurrent flows may overshoot the cap,    *)
(* but only by one flow per concurrent handler: the open amount never      *)
(* exceeds the limit on the long side and, hedges only ever lowering the   *)
(* open amount, the net position never exceeds it on the short side.       *)
OvershootBound ==
  \A c \in Currency : /\ Open(c) <= OvershootLimit(c)
                      /\ net[c] >= -OvershootLimit(c)

(* The handlers that passed the guard for c and have not applied their     *)
(* delta yet, by the direction of the delta.                               *)
Raising(c) == {w \in Worker : /\ flowPc[w] = "apply"
                              /\ flow[w].currency = c
                              /\ flow[w].amount > 0}

Lowering(c) == {w \in Worker : /\ flowPc[w] = "apply"
                               /\ flow[w].currency = c
                               /\ flow[w].amount < 0}

Claims(S) == [w \in S |-> Abs(flow[w].amount)]

(* x stays within limit even if every claim of m is added to it: counting  *)
(* each claim as FlowLimit, or all but the latest one admitted.            *)
Headroom(x, m, limit) ==
  LET n == Cardinality(DOMAIN m)
  IN  \/ x + FlowLimit * n <= limit
      \/ \E w \in DOMAIN m : x + m[w] + FlowLimit * (n - 1) <= limit

(* The inductive form of OvershootBound: the deltas still to be applied by *)
(* the handlers of api.AddExposure that passed the cap guard fit under the *)
(* limit as well.  The guard is skipped for a currency without an entry,   *)
(* whose net position is zero, and coverage never falls.                   *)
OvershootInv ==
  \A c \in Currency :
    /\ coverage[c] >= 0
    /\ c \notin netKeys => net[c] = 0
    /\ Headroom(Open(c), Claims(Raising(c)), OvershootLimit(c))
    /\ Headroom(-net[c], Claims(Lowering(c)), OvershootLimit(c))

(* The handlers that have still to emit exposure_added for c. *)
Owing(c) == {w \in Worker : flowPc[w] = "emit" /\ flow[w].currency = c}

(* Every delta the tracker applied for a flow has its exposure_added audit *)
(* event, or its handler is about to emit it: no early return of           *)
(* api.AddExposure loses the event.                                        *)
AppliedIsAudited ==
  \A c \in Currency :
    audit["exposure_added"][c] + Cardinality(Owing(c)) >= updatedAt[c] - hedged[c]

(* A request that was accepted for processing is always answered: no path  *)
(* of api.AddExposure waits for another request.                           *)
RequestAnswered ==
  \A w \in Worker : flowPc[w] = "seen" ~> flowPc[w] = "idle"

(* As api.AddExposure is documented: a delta that would breach the open    *)
(* exposure cap and increase the open amount is not applied.               *)
CapGuardHolds ==
  [][\A c \in Currency :
       net'[c] # net[c] =>
         \/ Abs(Open(c)') <= EffectiveCap(c)
         \/ Abs(Open(c)') <= Abs(Open(c))]_ingestVars
=============================================================================
