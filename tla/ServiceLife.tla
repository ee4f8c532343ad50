---------------------------- MODULE ServiceLife ----------------------------
(***************************************************************************)
(* The life of the service on Postgres: start, signal, shutdown, exit and  *)
(* crash (main.run), and what the hedge handlers of both APIs have written *)
(* by then.  The tables outlive the process; the tracker's coverage and    *)
(* the handlers do not.  The handlers' own logic is that of HedgeApi and   *)
(* HedgePlan, reduced to their statements and the tracker; a plan has one  *)
(* leg, and no venue reports a trade twice.                                *)
(***************************************************************************)
EXTENDS PostgresStore, FiniteSets

CONSTANTS
  RestHandler, \* goroutines that serve POST /v1/hedges
  LegHandler,  \* goroutines that serve SubmitHedgePlan
  Request,     \* client request ids
  MaxCrashes   \* bound: crashes of the process

ASSUME LifeAssumption == RestHandler \cap LegHandler = {} /\ MaxCrashes \in Nat

Handler == RestHandler \cup LegHandler

VARIABLES
  proc,      \* "down", "serving", "draining" (REST) or "stopping" (gRPC)
  restUp,    \* does the REST server accept requests
  stream,    \* is a StreamExposure call open
  covered,   \* the hedges the tracker's coverage counts
  work,      \* work[w]: the hedge w is at, and its next statement
  made,      \* made[id]: which API made the hedge, how many fills it got
  cut,       \* the hedges whose handler a crash or the timeout cut off
  crashes

lifeVars == <<proc, restUp, stream, covered, work, made, cut, crashes>>

Idle == [at |-> "idle", id |-> 0, request |-> "", dated |-> FALSE, fill |-> 0]

LifeInit ==
  /\ DbInit
  /\ proc = "down" /\ restUp = FALSE /\ stream = FALSE
  /\ covered = {} /\ cut = {} /\ crashes = 0
  /\ work = [w \in Handler |-> Idle]
  /\ made = [id \in HedgeId |-> [by |-> "none", fills |-> 0]]

Busy(hs) == {w \in hs : work[w] # Idle}
HedgesOf(hs) == {work[w].id : w \in Busy(hs)}

-----------------------------------------------------------------------------
(***************************************************************************)
(* main.run                                                                *)
(***************************************************************************)
(* newService: without a database the process ends at once.  Tracker and   *)
(* caches start empty; no table is read back.                              *)
Start ==
  /\ proc = "down" /\ dbUp
  /\ proc' = "serving" /\ restUp' = TRUE
  /\ UNCHANGED <<dbVars, stream, covered, work, made, cut, crashes>>

(* ListenAndServe fails: the snapshotter is cancelled and run waits on. *)
RestFails ==
  /\ proc = "serving" /\ restUp /\ restUp' = FALSE
  /\ UNCHANGED <<dbVars, proc, stream, covered, work, made, cut, crashes>>

Signal ==
  /\ proc = "serving" /\ proc' = "draining" /\ restUp' = FALSE
  /\ UNCHANGED <<dbVars, stream, covered, work, made, cut, crashes>>

(* Shutdown returns when the last REST handler has, or after 10 s. *)
Drained ==
  /\ proc = "draining" /\ Busy(RestHandler) = {} /\ proc' = "stopping"
  /\ UNCHANGED <<dbVars, restUp, stream, covered, work, made, cut, crashes>>

(* Shutdown without a deadline. *)
DrainForever ==
  /\ proc = "draining" /\ Busy(RestHandler) = {} /\ proc' = "stopping"
  /\ cut' = cut \cup HedgesOf(RestHandler)
  /\ UNCHANGED <<dbVars, restUp, stream, covered, work, made, crashes>>

DrainTimesOut ==
  /\ proc = "draining" /\ Busy(RestHandler) # {} /\ proc' = "stopping"
  /\ cut' = cut \cup HedgesOf(RestHandler)
  /\ UNCHANGED <<dbVars, restUp, stream, covered, work, made, crashes>>

(* What the process had in memory is gone. *)
Gone ==
  /\ proc' = "down" /\ restUp' = FALSE /\ stream' = FALSE
  /\ covered' = {} /\ work' = [w \in Handler |-> Idle]
  /\ UNCHANGED <<dbVars, made>>

(* Stop in the place of GracefulStop. *)
ExitAtOnce == proc = "stopping" /\ Gone /\ UNCHANGED <<cut, crashes>>

(* GracefulStop has waited for every call, streams included. *)
Exit ==
  /\ proc = "stopping" /\ Busy(LegHandler) = {} /\ ~ stream
  /\ Gone /\ UNCHANGED <<cut, crashes>>

Crash ==
  /\ proc # "down" /\ crashes < MaxCrashes /\ crashes' = crashes + 1
  /\ cut' = cut \cup HedgesOf(Handler)
  /\ Gone

(* The gRPC server accepts calls until GracefulStop. *)
Accepting == proc \in {"serving", "draining"}

OpenStream ==
  /\ Accepting /\ ~ stream /\ stream' = TRUE
  /\ UNCHANGED <<dbVars, proc, restUp, covered, work, made, cut, crashes>>

CloseStream ==
  /\ stream /\ stream' = FALSE
  /\ UNCHANGED <<dbVars, proc, restUp, covered, work, made, cut, crashes>>

-----------------------------------------------------------------------------
(***************************************************************************)
(* The handlers.                                                           *)
(***************************************************************************)
Unused == {id \in HedgeId : made[id].by = "none"}
FreshId == CHOOSE id \in Unused : TRUE

Take(w, by, request, dated, next) ==
  /\ work[w] = Idle /\ Unused # {}
  /\ work' = [work EXCEPT ![w] = [at |-> next, id |-> FreshId, request |-> request,
                                  dated |-> dated, fill |-> 1]]
  /\ made' = [made EXCEPT ![FreshId].by = by]

Goto(w, here, next) ==
  /\ work[w].at = here
  /\ work' = [work EXCEPT ![w] = IF next = "idle" THEN Idle ELSE [@ EXCEPT !.at = next]]

(* The loop over the fills: the same statement again, or the next one. *)
EachFill(w, here, next) ==
  /\ work[w].at = here
  /\ work' = [work EXCEPT ![w] =
       IF @.fill < made[@.id].fills THEN [@ EXCEPT !.fill = work[w].fill + 1]
                                    ELSE [@ EXCEPT !.fill = 1, !.at = next]]

Row(w, status) ==
  [status |-> status, request |-> work[w].request, dated |-> work[w].dated]

Rest == <<proc, restUp, stream, cut, crashes>>

(* api.CreateHedge: a request that is found is answered at once. *)
LookupRequest(w, r) ==
  /\ proc = "serving" /\ restUp
  /\ ~ FindsRequest(r)
  /\ Take(w, "rest", r, FALSE, "quote")
  /\ UNCHANGED <<dbVars, Rest, covered>>

(* executeLeg: its request id is new, so the lookup finds nothing.  A leg  *)
(* may have a value date; no handler reads it again.                       *)
TakeLeg(w) ==
  /\ Accepting
  /\ Take(w, "leg", "", TRUE, "route")
  /\ UNCHANGED <<dbVars, Rest, covered>>

(* Provider.Quote or RouteAndExecute fails: the hedge is stored FAILED. *)
NotExecuted(w) ==
  /\ Goto(w, "quote", "idle") \/ Goto(w, "route", "idle")
  /\ CreateHedge(work[w].id, Row(w, "FAILED"))
  /\ UNCHANGED <<Rest, covered, made>>

CreateExecuting(w) ==
  /\ Goto(w, "quote", "execute")
  /\ CreateHedge(work[w].id, Row(w, "EXECUTING"))
  /\ UNCHANGED <<Rest, covered, made>>

ExecuteFails(w) ==
  /\ Goto(w, "execute", "idle")
  /\ UpdateHedge(work[w].id, "FAILED", 0)
  /\ UNCHANGED <<Rest, covered, made>>

(* The coverage is added as soon as the venue answers. *)
TradeCovering(w, n) ==
  /\ Goto(w, "execute", "sample") \/ Goto(w, "route", "sample")
  /\ made' = [made EXCEPT ![work[w].id].fills = n]
  /\ covered' = covered \cup {work[w].id}
  /\ UNCHANGED <<dbVars, Rest>>

(* Provider.Execute or RouteAndExecute: n trades, known to this process. *)
Trade(w, n) ==
  /\ Goto(w, "execute", "sample") \/ Goto(w, "route", "sample")
  /\ made' = [made EXCEPT ![work[w].id].fills = n]
  /\ UNCHANGED <<dbVars, Rest, covered>>

AfterSamples(w) == IF w \in RestHandler THEN "update" ELSE "store"

(* Only one sample is written for all fills. *)
SampleOnce(w) ==
  /\ Goto(w, "sample", AfterSamples(w))
  /\ Insert("slippage_samples", work[w].id, work[w].fill)
  /\ UNCHANGED <<Rest, covered, made>>

(* processFills, which skips a fill that is stored, and its counterpart in *)
(* executeLeg.                                                             *)
SampleFill(w) ==
  /\ EachFill(w, "sample", AfterSamples(w))
  /\ IF w \in RestHandler /\ HasFill(work[w].id, work[w].fill)
       THEN UNCHANGED dbVars
       ELSE Insert("slippage_samples", work[w].id, work[w].fill)
  /\ UNCHANGED <<Rest, covered, made>>

MarkExecuted(w) ==
  /\ Goto(w, "update", "pnl")
  /\ UpdateHedge(work[w].id, "EXECUTED", made[work[w].id].fills)
  /\ UNCHANGED <<Rest, covered, made>>

RecordPnL(w) ==
  /\ Goto(w, "pnl", "cover")
  /\ Insert("fx_pnl", work[w].id, 0)
  /\ UNCHANGED <<Rest, covered, made>>

(* executeLeg stores the finished hedge: CreateHedge, then syncFills. *)
StoreLeg(w) ==
  /\ Goto(w, "store", "fills")
  /\ CreateHedge(work[w].id, Row(w, "EXECUTED"))
  /\ UNCHANGED <<Rest, covered, made>>

StoreFill(w) ==
  /\ EachFill(w, "fills", "cover")
  /\ Insert("hedge_executions", work[w].id, work[w].fill)
  /\ UNCHANGED <<Rest, covered, made>>

(* Tracker.AddCoverage, and the end of the handler.  CreateHedge reads the *)
(* hedge once more and panics on nil, which net/http recovers.             *)
Cover(w) ==
  /\ Goto(w, "cover", "idle")
  /\ covered' = covered \cup {work[w].id}
  /\ UNCHANGED <<dbVars, Rest, made>>

RestStep(w) ==
  \/ \E r \in Request : LookupRequest(w, r)
  \/ CreateExecuting(w) \/ ExecuteFails(w) \/ MarkExecuted(w) \/ RecordPnL(w)

LegStep(w) == StoreLeg(w) \/ StoreFill(w)

CommonStep(w) ==
  \/ NotExecuted(w) \/ SampleFill(w) \/ Cover(w)
  \/ \E n \in 1 .. MaxFills : Trade(w, n)

LifeNext ==
  \/ Start \/ RestFails \/ Signal \/ Drained \/ DrainTimesOut \/ Exit \/ Crash
  \/ OpenStream \/ CloseStream
  \/ (DbFails \/ DbRecovers) /\ UNCHANGED lifeVars
  \/ \E w \in RestHandler : RestStep(w)
  \/ \E w \in LegHandler : TakeLeg(w) \/ LegStep(w)
  \/ \E w \in Handler : CommonStep(w)

LifeSpec == LifeInit /\ [][LifeNext]_<<dbVars, lifeVars>>

(* Routes and statements return, and so do Shutdown, by its deadline, and  *)
(* GracefulStop.  Nothing is owed by the provider, which has no deadline,  *)
(* by the clients of streams, by the database or by whoever starts the     *)
(* service.                                                                *)
FairLifeSpec ==
  /\ LifeSpec
  /\ \A w \in LegHandler : WF_<<dbVars, lifeVars>>(LegStep(w) \/ CommonStep(w))
  /\ WF_<<dbVars, lifeVars>>(Drained \/ DrainTimesOut)
  /\ WF_<<dbVars, lifeVars>>(Exit)

-----------------------------------------------------------------------------
(* Every hedge that AddCoverage counts is in table hedges, unless its own  *)
(* INSERT failed: what the tracker claims, a reader of the database finds. *)
CoverageOnRecord ==
  \A id \in covered : hedges[id] # NoRow \/ <<"hedges", id, 0>> \in refused

(* Every row of hedge_executions has its row in slippage_samples, wherever *)
(* the process crashed, unless the INSERT of the sample failed.            *)
FillRowsSampled ==
  \A id \in HedgeId, k \in 1 .. MaxFills :
    <<"hedge_executions", id, k>> \in rows =>
      <<"slippage_samples", id, k>> \in rows \cup refused

(* What the handler of a traded hedge writes for each fill. *)
Owed(id) ==
  {<<"slippage_samples", id, k>> : k \in 1 .. made[id].fills}
  \cup (IF made[id].by = "rest"
          THEN {<<"fx_pnl", id, 0>>}
          ELSE {<<"hedge_executions", id, k>> : k \in 1 .. made[id].fills})

(* A shutdown loses nothing: once the process is gone, a trade whose       *)
(* handler was not cut off by a crash or by the deadline of Shutdown is in *)
(* all its tables, apart from the statements that failed.                  *)
OrderlyStopKeepsTrades ==
  proc = "down" =>
    \A id \in HedgeId \ cut : made[id].fills > 0 =>
      /\ hedges[id] # NoRow \/ <<"hedges", id, 0>> \in refused
      /\ Owed(id) \subseteq rows \cup refused

(* After a signal the process ends, even when a REST handler hangs and     *)
(* calls keep arriving until GracefulStop, unless a client holds a stream  *)
(* open for good.                                                          *)
StopsUnlessStreaming ==
  ([]<> ~ stream) => (proc = "draining" ~> proc = "down")

(* A client request id is executed once: a duplicate submission returns    *)
(* the original hedge (GetHedgeByClientRequest).                           *)
RequestTradedOnce ==
  \A i, j \in HedgeId :
    /\ made[i].fills > 0 /\ made[j].fills > 0
    /\ hedges[i].request # "" /\ hedges[i].request = hedges[j].request
    => i = j
=============================================================================
