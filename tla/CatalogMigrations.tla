-------------------------- MODULE CatalogMigrations --------------------------
(***************************************************************************)
(* The migration of the catalog's schema as every process of a new release *)
(* runs it before it serves: take the cutover lock, plan, back up an       *)
(* existing catalog that is about to change, adopt the history of the      *)
(* earlier migration system, let Knex apply what is pending, release.      *)
(*                                                                         *)
(* On SQLite the lock is a file that names its owner and that another      *)
(* process may reclaim, and all pending migrations are one transaction.    *)
(* On MySQL the lock is an advisory lock that goes with its connection,    *)
(* every statement of a migration takes effect at once, and Knex's own     *)
(* lock row (latch) is set before the first and cleared after the last.    *)
(* Knex is modelled from the way the source configures and calls it.       *)
(***************************************************************************)
EXTENDS Naturals, Sequences

CONSTANTS
    Processes,      \* processes of the host, used again after they ended
    MaxFaults,      \* failing calls, processes that die, scripts cut off
    NoOne,          \* nobody has the lock
    Gone,           \* the lock file of a process that is gone
    NoTable         \* knex_migrations does not exist

ASSUME ProcessesAssumption ==
    /\ NoOne \notin Processes /\ Gone \notin Processes /\ NoOne # Gone
    /\ MaxFaults \in Nat

VARIABLES
    database,       \* CATALOG_PROVIDER: "sqlite" or "mysql"
    schema,         \* what the schema has, of Features
    history,        \* the names in knex_migrations, or NoTable
    legacy,         \* the ids in managed_skill_hub_schema_migrations
    latch,          \* the row of knex_migrations_lock says locked
    lock,           \* who has the cutover lock
    process,        \* what every process is doing
    original,       \* the schema the upgrade began with
    backedUp,       \* a backup was made of that schema
    lost,           \* replacing an index of the last repair was broken off
    faults          \* faults so far

database_vars == <<database, schema, history, legacy, latch, original, lost>>
migration_vars == <<database_vars, lock, process, backedUp, faults>>

-----------------------------------------------------------------------------
(* The migrations *)

\* catalogMigrations, in their order.
Order == <<"baseline", "addReuse", "normalize", "finalizeParity",
           "verifyIndexes", "addOperations", "addDedupe">>
Migrations == {Order[i] : i \in 1..7}

\* What the statements of a migration make sure of, group after group: the tables,
\* columns, an index that may support a foreign key (keyIndex, tagIndex), the
\* frozen foreign keys and constraints (parity).  Every statement of a group only
\* adds what is missing, so a group is taken as one statement, except where an
\* index is replaced under a foreign key.
Statements(m) ==
    CASE m = "baseline"       -> <<"tables">>
      [] m = "addReuse"       -> <<"reuse">>
      [] m = "normalize"      -> <<"columns", "keyIndex">>
      [] m = "finalizeParity" -> <<"parity">>
      [] m = "verifyIndexes"  -> <<"keyIndex", "tagIndex">>
      [] m = "addOperations"  -> <<"operations">>
      [] m = "addDedupe"      -> <<"dedupe">>

ASSUME NoTableAssumption == \A S \in SUBSET Migrations : S # NoTable

Makes(m) == {Statements(m)[i] : i \in 1..Len(Statements(m))}
Features == UNION {Makes(m) : m \in Migrations}

\* CREATE TABLE IF NOT EXISTS makes the tables of the baseline with all that was
\* frozen into them, and leaves a table alone that is there.  The index of the
\* proposals' files has another name there than the later migrations give it.
Made(f) ==
    IF f = "tables" /\ "tables" \notin schema
    THEN {"tables", "columns", "tagIndex", "parity"}
    ELSE {f}

Recorded == IF history = NoTable THEN {} ELSE history
Pending == Migrations \ Recorded

\* The first migration that is not recorded.
IsCurrent(m) ==
    \E i \in 1..7 :
        /\ m = Order[i] /\ Order[i] \in Pending
        /\ \A j \in 1..(i - 1) : Order[j] \in Recorded

\* What readPlan takes for applied: Knex's table if it exists, or the legacy one.
Applied == IF history = NoTable THEN legacy ELSE history

\* A backup is needed if something is pending for an existing catalog.
RequiresBackup == Migrations \ Applied # {} /\ "tables" \in schema

-----------------------------------------------------------------------------
(* Processes *)

\* A process is of the new release (an API server, or the CLI that only migrates)
\* or the API server of the release before it ("old").  The CLI's exit code tells
\* whether it is done.
Process(stage, kind) == [stage |-> stage, kind |-> kind, at |-> 1]
Ended == {"none", "done"}
Alive(p) == process[p].stage \notin Ended
At(p, stage) == process[p].stage = stage

\* Between its statements a process has Knex's lock row.
Applying == {"apply", "index", "restore"}
UnderLock == {"plan", "backup", "adopt", "copy", "latest"} \cup Applying
Stages == Ended \cup UnderLock \cup
    {"load", "link", "inspect", "reclaim", "open", "release", "unwind", "build", "listen", "serving",
     "hung"}

GoTo(p, stage) == process' = [process EXCEPT ![p].stage = stage]
End(p, result) == process' = [process EXCEPT ![p] = Process(result, "none")]

\* An index of the last repair was taken from its foreign key and the key is not
\* back: a retry finds the key gone and does not add it.
Breaks(p) == process[p].stage \in {"index", "restore"} /\ IsCurrent("verifyIndexes")

\* What is left of a process that goes away, whatever it was doing: a lock file
\* stays, an advisory lock goes with its connection, Knex's lock row stays.
Killed(p) ==
    /\ End(p, "none")
    /\ lock' = IF lock # p THEN lock ELSE IF database = "sqlite" THEN Gone ELSE NoOne
    /\ lost' = (lost \/ Breaks(p))
    /\ UNCHANGED <<database, schema, history, legacy, latch, original, backedUp>>

-----------------------------------------------------------------------------
(* The cutover lock *)

\* link() of the candidate file or GET_LOCK gets the lock; whoever finds the file
\* taken looks at its owner, whoever finds the advisory lock taken waits.
Acquire(p) ==
    /\ At(p, "link")
    /\ \/ lock = NoOne /\ lock' = p /\ GoTo(p, IF database = "sqlite" THEN "open" ELSE "plan")
       \/ lock # NoOne /\ database = "sqlite" /\ GoTo(p, "inspect") /\ UNCHANGED lock
    /\ UNCHANGED <<database_vars, backedUp, faults>>

\* The linked file is opened by its name: one that was renamed away meanwhile is an
\* error, one that another process has linked since is taken for the own.
OpenLock(p) ==
    /\ At(p, "open")
    /\ IF lock = NoOne THEN End(p, "none") ELSE GoTo(p, "plan")
    /\ UNCHANGED <<database_vars, lock, backedUp, faults>>

\* The thirty seconds pass while the lock is taken.
GiveUp(p) ==
    /\ At(p, "link") /\ lock # NoOne
    /\ End(p, "none")
    /\ UNCHANGED <<database_vars, lock, backedUp, faults>>

\* The owner is read from the file.  A file that cannot be read, as it was
\* removed by now, counts as one without an owner.
Inspect(p) ==
    /\ At(p, "inspect")
    /\ GoTo(p, IF lock \in {NoOne, Gone} THEN "reclaim" ELSE "link")
    /\ UNCHANGED <<database_vars, lock, backedUp, faults>>

\* The file is renamed away, whoever it belongs to by now.
Reclaim(p) ==
    /\ At(p, "reclaim")
    /\ lock' = NoOne
    /\ GoTo(p, "link")
    /\ UNCHANGED <<database_vars, backedUp, faults>>

\* The finally of withCutoverLock: the file is unlinked, whoever it belongs to,
\* and the advisory lock released.
Release(p) ==
    /\ At(p, "release") \/ At(p, "unwind")
    /\ lock' = IF database = "sqlite" \/ lock = p THEN NoOne ELSE lock
    /\ IF At(p, "unwind") THEN End(p, "none")
       ELSE IF process[p].kind = "cli" THEN End(p, "done") ELSE GoTo(p, "build")
    /\ UNCHANGED <<database_vars, backedUp, faults>>

-----------------------------------------------------------------------------
(* Under the lock *)

\* Mutant: a catalog without a history of migrations counts as a fresh one.
PlanForVersioned(p) ==
    /\ At(p, "plan")
    /\ GoTo(p, IF RequiresBackup /\ Applied # {} THEN "backup" ELSE "adopt")
    /\ UNCHANGED <<database_vars, lock, backedUp, faults>>

Plan(p) ==
    /\ At(p, "plan")
    /\ GoTo(p, IF RequiresBackup THEN "backup" ELSE "adopt")
    /\ UNCHANGED <<database_vars, lock, backedUp, faults>>

\* The backup script ends well.
Backup(p) ==
    /\ At(p, "backup")
    /\ backedUp' = (backedUp \/ schema = original)
    /\ GoTo(p, "adopt")
    /\ UNCHANGED <<database_vars, lock, faults>>

\* adoptLegacyState: migrate.list makes Knex's tables, ...
Adopt(p) ==
    /\ At(p, "adopt")
    /\ history' = Recorded
    /\ GoTo(p, "copy")
    /\ UNCHANGED <<database, schema, legacy, latch, original, lost, lock, backedUp, faults>>

\* ... and without a row in them the legacy ids are copied.
CopyLegacy(p) ==
    /\ At(p, "copy")
    /\ history' = IF Recorded = {} THEN legacy \cap Migrations ELSE history
    /\ GoTo(p, "latest")
    /\ UNCHANGED <<database, schema, legacy, latch, original, lost, lock, backedUp, faults>>

\* The plan is read again, and nothing is pending.
NothingPending(p) ==
    /\ At(p, "latest") /\ Pending = {}
    /\ GoTo(p, "release")
    /\ UNCHANGED <<database_vars, lock, backedUp, faults>>

\* migrate.latest on SQLite: one transaction for the migrations and their rows.
LatestInTransaction(p) ==
    /\ At(p, "latest") /\ Pending # {} /\ database = "sqlite"
    /\ schema' = schema \cup UNION {Made(f) : f \in UNION {Makes(m) : m \in Pending}}
    /\ history' = Migrations
    /\ GoTo(p, "release")
    /\ UNCHANGED <<database, legacy, latch, original, lost, lock, backedUp, faults>>

\* migrate.latest on MySQL takes Knex's lock row; if a process that died has it,
\* that is an error.
LatestByStatements(p) ==
    /\ At(p, "latest") /\ Pending # {} /\ database = "mysql"
    /\ process' = [process EXCEPT ![p].stage = IF latch THEN "unwind" ELSE "apply",
                                  ![p].at = 1]
    /\ latch' = TRUE
    /\ UNCHANGED <<database, schema, history, legacy, original, lost, lock, backedUp, faults>>

\* The statement a process has come to in the migration m.
Statement(p, m) == Statements(m)[process[p].at]
InMigration(p, m) == IsCurrent(m) /\ process[p].at <= Len(Statements(m))

\* An index can only be replaced without the foreign key that depends on it.
Dependent(f) == f \in {"keyIndex", "tagIndex"} \ schema /\ "parity" \in schema

\* The tables, columns, indexes or constraints of a group that are missing are added.
AddIfMissing(p, m) ==
    /\ At(p, "apply") /\ InMigration(p, m)
    /\ ~Dependent(Statement(p, m))
    /\ schema' = schema \cup Made(Statement(p, m))
    /\ process' = [process EXCEPT ![p].at = @ + 1]
    /\ UNCHANGED <<database, history, legacy, latch, original, lost, lock, backedUp, faults>>

\* addIndexIfMissing for an index under a foreign key drops the key, ...
DropForeignKey(p, m) ==
    /\ At(p, "apply") /\ InMigration(p, m)
    /\ Dependent(Statement(p, m))
    /\ schema' = schema \ {"parity"}
    /\ GoTo(p, "index")
    /\ UNCHANGED <<database, history, legacy, latch, original, lost, lock, backedUp, faults>>

\* ... makes the index anew, ...
CreateIndex(p, m) ==
    /\ At(p, "index") /\ InMigration(p, m)
    /\ schema' = schema \cup {Statement(p, m)}
    /\ GoTo(p, "restore")
    /\ UNCHANGED <<database, history, legacy, latch, original, lost, lock, backedUp, faults>>

\* Mutant: the key is not added again.
ForgetForeignKey(p) ==
    /\ At(p, "restore")
    /\ process' = [process EXCEPT ![p].stage = "apply", ![p].at = @ + 1]
    /\ UNCHANGED <<database_vars, lock, backedUp, faults>>

\* ... and adds the key again.
RestoreForeignKey(p) ==
    /\ At(p, "restore")
    /\ schema' = schema \cup {"parity"}
    /\ process' = [process EXCEPT ![p].stage = "apply", ![p].at = @ + 1]
    /\ UNCHANGED <<database, history, legacy, latch, original, lost, lock, backedUp, faults>>

\* Knex writes the row of a migration whose up has ended.
Record(p, m) ==
    /\ At(p, "apply") /\ IsCurrent(m) /\ process[p].at > Len(Statements(m))
    /\ history' = Recorded \cup {m}
    /\ process' = [process EXCEPT ![p].at = 1]
    /\ UNCHANGED <<database, schema, legacy, latch, original, lost, lock, backedUp, faults>>

\* All is done, and Knex clears its lock row.
LatestDone(p) ==
    /\ At(p, "apply") /\ Pending = {}
    /\ latch' = FALSE
    /\ GoTo(p, "release")
    /\ UNCHANGED <<database, schema, history, legacy, original, lost, lock, backedUp, faults>>

Migrate(p) ==
    \/ Acquire(p) \/ OpenLock(p) \/ GiveUp(p) \/ Inspect(p) \/ Reclaim(p) \/ Release(p)
    \/ Plan(p) \/ Backup(p) \/ Adopt(p) \/ CopyLegacy(p)
    \/ NothingPending(p) \/ LatestInTransaction(p) \/ LatestByStatements(p)
    \/ \E m \in Migrations :
           AddIfMissing(p, m) \/ DropForeignKey(p, m) \/ CreateIndex(p, m) \/ Record(p, m)
    \/ RestoreForeignKey(p) \/ LatestDone(p)

-----------------------------------------------------------------------------
(* Faults *)

Fault == faults < MaxFaults /\ faults' = faults + 1

\* A query or the backup script fails: Knex gives its lock row back if it has it,
\* and the lock is released on the way out.
CallFails(p) ==
    /\ process[p].stage \in UnderLock
    /\ Fault
    /\ process' = [process EXCEPT ![p].stage = "unwind", ![p].at = 1]
    /\ latch' = (latch /\ process[p].stage \notin Applying)
    /\ lost' = (lost \/ Breaks(p))
    /\ UNCHANGED <<database, schema, history, legacy, original, lock, backedUp>>

\* A process crashes or is killed from outside.
Dies(p) == Alive(p) /\ Fault /\ Killed(p)

\* An operator who is sure that nothing migrates clears Knex's lock row by hand.
Unlock ==
    /\ latch /\ \A p \in Processes : process[p].stage \notin UnderLock
    /\ latch' = FALSE
    /\ UNCHANGED <<database, schema, history, legacy, original, lost, lock, process, backedUp, faults>>
=============================================================================
