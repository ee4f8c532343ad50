----------------------------- MODULE Migrations -----------------------------
(***************************************************************************)
(* migrations.Runner: Up and Down as the service (postgres.Open) and the   *)
(* migrate command run them, any number at once against one database.  A   *)
(* step is one statement.  The SQL of a version is sent without arguments, *)
(* which Postgres runs as one transaction, so its tables come and go as a  *)
(* whole.  A runner may end between any two statements: the process dies,  *)
(* or a statement fails and the error is returned.                         *)
(***************************************************************************)
EXTENDS Integers

CONSTANTS
  LastVersion,  \* the embedded migrations are 1 .. LastVersion, in order
  Migrator,     \* processes that run migrations
  MaxRuns       \* bound: how many runs are started

ASSUME MigrationsAssumption == LastVersion \in Nat /\ MaxRuns \in Nat

VARIABLES
  log,       \* does the table schema_migrations exist
  recorded,  \* the versions schema_migrations lists
  present,   \* the versions whose tables exist
  reverted,  \* the versions a Down dropped and no Up created again
  run,       \* run[m]: what m executes next, and of which version
  runs       \* how many runs were started

migrateVars == <<log, recorded, present, reverted, run, runs>>

Version == 1 .. LastVersion

(* A runner between two statements; at 0 or LastVersion + 1 it has no      *)
(* version left.                                                           *)
Run == [cmd: {"up", "down"}, at: 0 .. LastVersion + 1,
        step: {"query", "apply", "record", "done", "ended"}]

MigrateTypeOK ==
  /\ log \in BOOLEAN
  /\ recorded \in SUBSET Version
  /\ present \in SUBSET Version
  /\ reverted \in SUBSET Version
  /\ run \in [Migrator -> Run]
  /\ runs \in Nat

MigrateInit ==
  /\ log = FALSE /\ recorded = {} /\ present = {} /\ reverted = {}
  /\ run = [m \in Migrator |-> [cmd |-> "up", at |-> 0, step |-> "ended"]]
  /\ runs = 0

-----------------------------------------------------------------------------
(* The run goes on with this step, at the same version. *)
Then(m, here, next) ==
  /\ run[m].step = here
  /\ run' = [run EXCEPT ![m].step = next]

NextVersion(r) == IF r.cmd = "up" THEN r.at + 1 ELSE r.at - 1

(* The loop turns to the version that follows, or is over. *)
Turn(r) ==
  [r EXCEPT !.at = NextVersion(r),
            !.step = IF NextVersion(r) \in Version THEN "query" ELSE "done"]

Advance(m, here) ==
  /\ run[m].step = here
  /\ run' = [run EXCEPT ![m] = Turn(@)]

Begin(m, cmd, before) ==
  /\ run[m].step \in {"done", "ended"}
  /\ runs < MaxRuns /\ runs' = runs + 1
  /\ run' = [run EXCEPT ![m] = Turn([cmd |-> cmd, at |-> before, step |-> "query"])]
  /\ UNCHANGED <<recorded, present, reverted>>

(* Up first creates schema_migrations. *)
StartUp(m) == Begin(m, "up", 0) /\ log' = TRUE

StartDown(m) == Begin(m, "down", LastVersion + 1) /\ UNCHANGED log

(* The query: Up skips a version that is listed, Down one that is not. *)
SkipVersion(m) ==
  /\ Advance(m, "query")
  /\ log /\ (run[m].at \in recorded <=> run[m].cmd = "up")
  /\ UNCHANGED <<log, recorded, present, reverted, runs>>

(* The version is listed before its SQL is executed. *)
TakeVersionListing(m) ==
  /\ Then(m, "query", "apply")
  /\ log /\ (run[m].at \in recorded <=> run[m].cmd = "down")
  /\ recorded' = IF run[m].cmd = "up" THEN recorded \cup {run[m].at} ELSE recorded
  /\ UNCHANGED <<log, present, reverted, runs>>

TakeVersion(m) ==
  /\ Then(m, "query", "apply")
  /\ log /\ (run[m].at \in recorded <=> run[m].cmd = "down")
  /\ UNCHANGED <<log, recorded, present, reverted, runs>>

(* The version's own SQL: CREATE ... IF NOT EXISTS, DROP ... IF EXISTS. *)
ApplyUp(m) ==
  /\ run[m].cmd = "up" /\ Then(m, "apply", "record")
  /\ present' = present \cup {run[m].at}
  /\ reverted' = reverted \ {run[m].at}
  /\ UNCHANGED <<log, recorded, runs>>

ApplyDown(m) ==
  /\ run[m].cmd = "down" /\ Then(m, "apply", "record")
  /\ present' = present \ {run[m].at}
  /\ reverted' = reverted \cup {run[m].at}
  /\ UNCHANGED <<log, recorded, runs>>

(* The version is listed, with ON CONFLICT DO NOTHING, or deleted. *)
RecordVersion(m) ==
  /\ Advance(m, "record")
  /\ recorded' = IF run[m].cmd = "up" THEN recorded \cup {run[m].at}
                                       ELSE recorded \ {run[m].at}
  /\ UNCHANGED <<log, present, reverted, runs>>

(* The process ends here, or the statement returned an error; a Down       *)
(* without schema_migrations can do nothing else.                          *)
EndRun(m) ==
  /\ run[m].step \notin {"done", "ended"}
  /\ run' = [run EXCEPT ![m].step = "ended"]
  /\ UNCHANGED <<log, recorded, present, reverted, runs>>

MigrateStep(m) ==
  \/ SkipVersion(m) \/ TakeVersion(m) \/ ApplyUp(m) \/ ApplyDown(m) \/ RecordVersion(m)
  \/ EndRun(m)

MigrateNext ==
  \E m \in Migrator : StartUp(m) \/ StartDown(m) \/ MigrateStep(m)

MigrateSpec == MigrateInit /\ [][MigrateNext]_migrateVars

-----------------------------------------------------------------------------
(* Runner.Up returns nil only when every version's tables were created,    *)
(* whatever other runs did meanwhile and wherever earlier ones ended: a    *)
(* table missing after Up was dropped by a Runner.Down.                    *)
UpLeavesSchema ==
  \A m \in Migrator : run[m].cmd = "up" /\ run[m].step = "done" =>
    Version \subseteq present \cup reverted
=============================================================================
