--------------------------- MODULE PostgresStore ---------------------------
(***************************************************************************)
(* postgres.DB: the tables as the hedge handlers use them.  A step is one  *)
(* statement.  While the database is out every statement fails; all        *)
(* callers drop the error of an INSERT, and a failed SELECT finds nothing. *)
(***************************************************************************)
EXTENDS Integers

CONSTANTS
  HedgeId,     \* hedge ids
  MaxFills,    \* bound: fills of a hedge
  MaxOutages   \* bound: outages of the database

ASSUME PostgresAssumption ==
  HedgeId \subseteq Nat \ {0} /\ MaxFills \in Nat \ {0} /\ MaxOutages \in Nat

VARIABLES
  dbUp,     \* does the database answer
  outages,  \* how often it did not
  hedges,   \* hedges[id]: the row of table hedges
  rows,     \* the rows of the other tables: <<table, hedge, fill>>
  refused   \* the INSERTs that failed, the hedges' included

dbVars == <<dbUp, outages, hedges, rows, refused>>

NoRow == [status |-> "none", request |-> "", dated |-> FALSE]

DbInit ==
  /\ dbUp = TRUE /\ outages = 0
  /\ hedges = [id \in HedgeId |-> NoRow]
  /\ rows = {} /\ refused = {}

DbFails ==
  /\ dbUp /\ dbUp' = FALSE
  /\ outages < MaxOutages /\ outages' = outages + 1
  /\ UNCHANGED <<hedges, rows, refused>>

DbRecovers ==
  /\ ~ dbUp /\ dbUp' = TRUE
  /\ UNCHANGED <<outages, hedges, rows, refused>>

-----------------------------------------------------------------------------
(* INSERT INTO hedges, the first statement of CreateHedge; value_date is   *)
(* left NULL when the hedge has none.                                      *)
CreateHedge(id, h) ==
  /\ hedges' = IF dbUp THEN [hedges EXCEPT ![id] = h] ELSE hedges
  /\ refused' = IF dbUp THEN refused ELSE refused \cup {<<"hedges", id, 0>>}
  /\ UNCHANGED <<dbUp, outages, rows>>

(* One INSERT of AddSlippageSample, AddPnL or syncFills. *)
Insert(table, id, k) ==
  /\ rows' = IF dbUp THEN rows \cup {<<table, id, k>>} ELSE rows
  /\ refused' = IF dbUp THEN refused ELSE refused \cup {<<table, id, k>>}
  /\ UNCHANGED <<dbUp, outages, hedges>>

HasFill(id, k) == dbUp /\ <<"hedge_executions", id, k>> \in rows

(* Scan reads value_date into a time.Time, which refuses NULL: a hedge     *)
(* without a value date cannot be read, and GetHedge returns nil as it     *)
(* does for a row that is not there.                                       *)
Readable(id) == dbUp /\ hedges[id].dated

(* GetHedgeByClientRequest: no row, or one that cannot be read, is nil. *)
FindsRequest(r) == \E id \in HedgeId : Readable(id) /\ hedges[id].request = r

(* UpdateHedge: a hedge that cannot be read is left as it is.  Otherwise   *)
(* the row is written, and then its fills.                                 *)
UpdateHedge(id, status, fills) ==
  IF Readable(id)
    THEN /\ hedges' = [hedges EXCEPT ![id].status = status]
         /\ rows' = rows \cup {<<"hedge_executions", id, k>> : k \in 1 .. fills}
         /\ UNCHANGED <<dbUp, outages, refused>>
    ELSE UNCHANGED dbVars
=============================================================================
