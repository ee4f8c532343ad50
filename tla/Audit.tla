------------------------------- MODULE Audit -------------------------------
(***************************************************************************)
(* audit.Recorder as the handlers use it: Emit appends one event.  Only    *)
(* how often an event of a type was recorded for an entity is kept; the    *)
(* entity is the hedge id or, without one, the currency, as in             *)
(* api.Service.emit.                                                       *)
(***************************************************************************)
EXTENDS Naturals

CONSTANT Entity  \* hedge ids and currencies

VARIABLE audit   \* audit[type][entity]: how many events were recorded

EventType == {"hedge_created", "hedge_executed", "hedge_failed",
              "exposure_added", "cap_breach", "slippage_alert", "pnl_entry"}

AuditTypeOK == audit \in [EventType -> [Entity -> Nat]]

AuditInit == audit = [t \in EventType |-> [x \in Entity |-> 0]]

emit(t, x) == audit' = [audit EXCEPT ![t][x] = @ + 1]
=============================================================================
