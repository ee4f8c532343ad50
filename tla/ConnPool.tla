------------------------------ MODULE ConnPool ------------------------------
(***************************************************************************)
(* How postgres.DB uses its pool of connections (pgxpool, which has no     *)
(* deadline here: every method passes context.Background()).  An INSERT,   *)
(* UPDATE or single SELECT takes a connection and gives it back; GetHedge  *)
(* gives its connection back before loadFills takes one.  scanHedges calls *)
(* loadFills for every row while the connection of its own rows is open.   *)
(***************************************************************************)
EXTENDS Integers, FiniteSets

CONSTANTS
  Caller,    \* goroutines that use the store
  MaxConns   \* connections of the pool

ASSUME ConnPoolAssumption == IsFiniteSet(Caller) /\ MaxConns \in Nat \ {0}

VARIABLES
  stage,  \* stage[g]: what g does with the pool
  op      \* op[g]: "one" statement, "get" (GetHedge) or "list" (scanHedges)

poolVars == <<stage, op>>

(* A caller waits for a connection at "want" and, for the fills of a row   *)
(* it is listing, at "wantFills".                                          *)
Stage == {"idle", "want", "run", "wantFills", "fills"}
Op == {"one", "get", "list"}

PoolTypeOK == stage \in [Caller -> Stage] /\ op \in [Caller -> Op]

PoolInit ==
  /\ stage = [g \in Caller |-> "idle"]
  /\ op = [g \in Caller |-> "one"]

(* Who holds the connection of a first statement, and of loadFills in it. *)
Outer == {g \in Caller : stage[g] \in {"run", "wantFills", "fills"}}
Inner == {g \in Caller : stage[g] = "fills"}
Free == MaxConns - Cardinality(Outer) - Cardinality(Inner)

GoOn(g, here, next) ==
  /\ stage[g] = here
  /\ stage' = [stage EXCEPT ![g] = next]

-----------------------------------------------------------------------------
(* A method of DB is called. *)
CallStore(g, o) == GoOn(g, "idle", "want") /\ op' = [op EXCEPT ![g] = o]

Acquire(g) == Free > 0 /\ GoOn(g, "want", "run") /\ UNCHANGED op

(* The statement is done, or the rows are closed. *)
Release(g) == GoOn(g, "run", "idle") /\ UNCHANGED op

(* The row of GetHedge stays open while its fills are loaded. *)
RowThenFillsHeld(g) == op[g] = "get" /\ GoOn(g, "run", "wantFills") /\ UNCHANGED op

(* GetHedge and GetHedgeByClientRequest: Scan gives the connection back,   *)
(* and loadFills is a statement of its own.                                *)
RowThenFills(g) ==
  /\ op[g] = "get" /\ GoOn(g, "run", "want")
  /\ op' = [op EXCEPT ![g] = "one"]

(* scanHedges at a row, with its rows open. *)
ScanRow(g) == op[g] = "list" /\ GoOn(g, "run", "wantFills") /\ UNCHANGED op

AcquireFills(g) == Free > 0 /\ GoOn(g, "wantFills", "fills") /\ UNCHANGED op

ReleaseFills(g) == GoOn(g, "fills", "run") /\ UNCHANGED op

PoolStep(g) ==
  \/ Acquire(g) \/ Release(g) \/ RowThenFills(g)
  \/ ScanRow(g) \/ AcquireFills(g) \/ ReleaseFills(g)

PoolNext == \E g \in Caller : PoolStep(g) \/ \E o \in Op : CallStore(g, o)

PoolSpec == PoolInit /\ [][PoolNext]_poolVars

-----------------------------------------------------------------------------
Listing == {g \in Outer : op[g] = "list"}

(* Who could take its next step, a free connection permitting. *)
CanGoOn(g) ==
  \/ stage[g] \in {"run", "fills"}
  \/ stage[g] \in {"want", "wantFills"} /\ Free > 0

(* Callers of the store never all wait for each other's connections, as    *)
(* long as fewer listings (HedgesByCurrency, AllHedges) are open than the  *)
(* pool has connections.  With as many, each holds one connection and      *)
(* waits for another in loadFills, for good.                               *)
PoolGoesOn ==
  Cardinality(Listing) < MaxConns =>
    \A g \in Caller : stage[g] # "idle" => \E other \in Caller : CanGoOn(other)

(* Only a listing asks for a second connection. *)
SecondOnlyToList ==
  \A g \in Caller : stage[g] \in {"wantFills", "fills"} => op[g] = "list"
=============================================================================
