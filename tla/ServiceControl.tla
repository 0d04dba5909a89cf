---------------------------- MODULE ServiceControl ----------------------------
(***************************************************************************)
(* Bringing a release into service: the scripts that stop, migrate and     *)
(* start it (restart-server.sh, install_and_start.sh), any number of which *)
(* may run at a time, the start of the API server up to the moment it      *)
(* listens, the migration CLI and the server started by hand, and the      *)
(* server of the release before, running or not at the beginning.          *)
(***************************************************************************)
EXTENDS CatalogMigrations

CONSTANTS
    Scripts,        \* runs of a script at a time
    Catalogs        \* catalogs an upgrade may find: [database, schema, history, legacy]

\* Migrations were always applied in their order, and what is recorded has been
\* made; legacy records count until knex_migrations has a row.
InOrder(S) == \A i \in 1..7 : Order[i] \in S => \A j \in 1..i : Order[j] \in S

ASSUME CatalogsAssumption ==
    \A c \in Catalogs :
        /\ c.database \in {"sqlite", "mysql"}
        /\ c.schema \subseteq Features
        /\ c.history = NoTable \/ c.history \subseteq Migrations
        /\ LET applied == IF c.history \in {NoTable, {}} THEN c.legacy \cap Migrations ELSE c.history
           IN  InOrder(applied) /\ UNION {Makes(m) : m \in applied} \subseteq c.schema

VARIABLES
    script,         \* every run of a script: its step, the process it waits for
    pidfile,        \* .tmp/api.pid: a process, or NoOne
    loose           \* an API server may be up that is neither in the PID file nor the
                    \* one a script is about to write there

vars == <<migration_vars, script, pidfile, loose>>

Steps == {"idle", "stop", "ports", "migrate", "migrating", "spawn", "record", "alive", "health", "cleanup"}

Script(step, own) == [step |-> step, own |-> own]
Becomes(s, step, own) == script' = [script EXCEPT ![s] = Script(step, own)]
GoesTo(s, step) == Becomes(s, step, NoOne)

\* Between having looked at the ports and its end a script has an API to start.
Starting(s) == script[s].step \in {"spawn", "record", "alive", "health", "cleanup"}

Serves(p) == At(p, "serving")
PortFree == ~\E p \in Processes : Serves(p)
OldServes == \E p \in Processes : Serves(p) /\ process[p].kind = "old"

\* A process slot that nothing refers to.
Unused(p) == ~Alive(p) /\ pidfile # p /\ lock # p /\ \A s \in Scripts : script[s].own # p

-----------------------------------------------------------------------------
(* The API server's start *)

\* loadConfig, which may refuse the settings as they are now.
Load(p) ==
    /\ At(p, "load")
    /\ GoTo(p, "link") \/ End(p, "none")
    /\ UNCHANGED <<database_vars, lock, backedUp, faults, script, pidfile, loose>>

\* buildContainer after the migration: the adapters, then the judger, whose model,
\* module or interface may turn out to be missing only now; then the identity
\* provider's discovery.  On an error start().catch only sets the exit code: once
\* connections of MySQL's pool were used they keep the process alive.
Build(p) ==
    /\ At(p, "build")
    /\ \/ GoTo(p, "listen")
       \/ End(p, "none")
       \/ database = "mysql" /\ GoTo(p, "hung")
    /\ UNCHANGED <<database_vars, lock, backedUp, faults, script, pidfile, loose>>

\* app.listen: a second listener gets EADDRINUSE and exits.
Listen(p) ==
    /\ At(p, "listen")
    /\ IF PortFree THEN GoTo(p, "serving") ELSE End(p, "none")
    /\ UNCHANGED <<database_vars, lock, backedUp, faults, script, pidfile, loose>>

-----------------------------------------------------------------------------
(* The scripts *)

\* An operator runs a script, perhaps beside another one: nothing keeps them apart.
\* start begins with a look at the ports, the others stop first.
Run(s) ==
    /\ script[s].step = "idle"
    /\ \E step \in {"stop", "ports"} : GoesTo(s, step)
    /\ UNCHANGED <<migration_vars, pidfile, loose>>

\* Mutant: the PID file is removed, the process is left to itself.
ForgetPidFile(s) ==
    /\ script[s].step \in {"stop", "cleanup"}
    /\ pidfile' = NoOne
    /\ GoesTo(s, IF script[s].step = "stop" THEN "ports" ELSE "idle")
    /\ UNCHANGED <<migration_vars, loose>>

\* stop_pid_file: TERM, and KILL after ten seconds, for the recorded process if
\* it is alive; the file is removed.  After a failed start that is all.
StopPidFile(s) ==
    /\ script[s].step \in {"stop", "cleanup"}
    /\ IF pidfile # NoOne /\ Alive(pidfile)
       THEN Killed(pidfile) /\ UNCHANGED faults
       ELSE UNCHANGED migration_vars
    /\ pidfile' = NoOne
    /\ GoesTo(s, IF script[s].step = "stop" THEN "ports" ELSE "idle")
    /\ UNCHANGED loose

\* Mutant: the ports are not looked at.
GoOnWithoutPorts(s) ==
    /\ script[s].step = "ports"
    /\ \E step \in {"idle", "migrate", "spawn"} : GoesTo(s, step)
    /\ UNCHANGED <<migration_vars, pidfile, loose>>

\* require_ports_free: an unknown listener ends the script, and an API of another
\* script that is not listening yet goes unnoticed.  Here the programs part: stop
\* ends, install_and_start.sh all goes on to migrate, start and restart to the API.
RequirePortsFree(s) ==
    /\ script[s].step = "ports"
    /\ \E step \in {"idle"} \cup (IF PortFree THEN {"migrate", "spawn"} ELSE {}) : GoesTo(s, step)
    /\ loose' = (loose \/ (Starting(s)' /\ \E other \in Scripts \ {s} : Starting(other)))
    /\ UNCHANGED <<migration_vars, pidfile>>

\* The migration CLI as a child of the script.
MigrateRelease(s, p) ==
    /\ script[s].step = "migrate" /\ Unused(p)
    /\ process' = [process EXCEPT ![p] = Process("load", "cli")]
    /\ Becomes(s, "migrating", p)
    /\ UNCHANGED <<database_vars, lock, backedUp, faults, pidfile, loose>>

\* It ended: with an error so does the script, otherwise the release is started
\* by restart-server.sh, which stops and looks at the ports once more.  (That it may
\* then end or migrate again, which only a script run anew does, adds to the model.)
MigrationEnds(s) ==
    /\ script[s].step = "migrating" /\ ~Alive(script[s].own)
    /\ GoesTo(s, IF At(script[s].own, "done") THEN "stop" ELSE "idle")
    /\ UNCHANGED <<migration_vars, pidfile, loose>>

\* start_services: the API with nohup, ...
Spawn(s, p) ==
    /\ script[s].step = "spawn" /\ Unused(p)
    /\ process' = [process EXCEPT ![p] = Process("load", "api")]
    /\ Becomes(s, "record", p)
    /\ UNCHANGED <<database_vars, lock, backedUp, faults, pidfile, loose>>

\* ... its PID written to the file, ...
WritePidFile(s) ==
    /\ script[s].step = "record"
    /\ pidfile' = script[s].own
    /\ Becomes(s, "alive", script[s].own)
    /\ UNCHANGED <<migration_vars, loose>>

\* ... and wait_for_http: as long as the process is there, ...
StillAlive(s) ==
    /\ script[s].step = "alive"
    /\ IF Alive(script[s].own) THEN Becomes(s, "health", script[s].own) ELSE GoesTo(s, "cleanup")
    /\ UNCHANGED <<migration_vars, pidfile, loose>>

\* ... whoever answers at the port is taken for it.
Healthy(s) ==
    /\ script[s].step = "health" /\ ~PortFree
    /\ GoesTo(s, "idle")
    /\ UNCHANGED <<migration_vars, pidfile, loose>>

\* No answer: once more, or the timeout has come.  The frontend, started and
\* asked after the API, may time out in the same way.
NoAnswer(s) ==
    /\ script[s].step = "health"
    /\ Becomes(s, "alive", script[s].own) \/ GoesTo(s, "cleanup")
    /\ UNCHANGED <<migration_vars, pidfile, loose>>

\* The script is cut off; what it started goes on.
Interrupt(s) ==
    /\ script[s].step # "idle"
    /\ Fault
    /\ loose' = (loose \/ script[s].step \in {"record", "alive", "health", "cleanup"})
    /\ GoesTo(s, "idle")
    /\ UNCHANGED <<database_vars, lock, process, backedUp, pidfile>>

-----------------------------------------------------------------------------
(* By hand *)

\* install_and_start.sh migrate, or the CLI, by an operator who has seen to it that
\* nothing serves.
MigrateByHand(p) ==
    /\ PortFree /\ Unused(p)
    /\ process' = [process EXCEPT ![p] = Process("load", "cli")]
    /\ UNCHANGED <<database_vars, lock, backedUp, faults, script, pidfile, loose>>

\* server.ts, by an operator who has stopped the release before.  It migrates before
\* it finds that another server has the port.
StartByHand(p) ==
    /\ ~OldServes /\ Unused(p)
    /\ process' = [process EXCEPT ![p] = Process("load", "api")]
    /\ loose' = TRUE
    /\ UNCHANGED <<database_vars, lock, backedUp, faults, script, pidfile>>

\* An operator ends a server that is up, or one that failed and did not go away.
StopByHand(p) ==
    /\ process[p].stage \in {"serving", "hung"}
    /\ End(p, "none")
    /\ UNCHANGED <<database_vars, lock, backedUp, faults, script, pidfile, loose>>

-----------------------------------------------------------------------------
(* The specification *)

\* A catalog as it was found, perhaps with the release before serving from it,
\* started by its script or not.
Init ==
    /\ \E c \in Catalogs :
          /\ database = c.database /\ schema = c.schema
          /\ history = c.history /\ legacy = c.legacy
    /\ original = schema
    /\ latch = FALSE /\ lost = FALSE /\ backedUp = FALSE /\ faults = 0
    /\ lock \in (IF database = "sqlite" THEN {NoOne, Gone} ELSE {NoOne})
    /\ script = [s \in Scripts |-> Script("idle", NoOne)] /\ loose = FALSE
    /\ \/ /\ process = [p \in Processes |-> Process("none", "none")]
          /\ pidfile = NoOne
       \/ \E old \in Processes :
             /\ "tables" \in schema
             /\ process = [p \in Processes |-> IF p = old THEN Process("serving", "old")
                                                           ELSE Process("none", "none")]
             /\ pidfile \in {NoOne, old}

Scripted(s) ==
    \/ Run(s) \/ StopPidFile(s) \/ RequirePortsFree(s) \/ MigrationEnds(s)
    \/ WritePidFile(s) \/ StillAlive(s) \/ Healthy(s) \/ NoAnswer(s) \/ Interrupt(s)
    \/ \E p \in Processes : MigrateRelease(s, p) \/ Spawn(s, p)

Running(p) ==
    \/ Load(p) \/ Build(p) \/ Listen(p)
    \/ Migrate(p) /\ UNCHANGED <<script, pidfile, loose>>
    \/ (CallFails(p) \/ Dies(p)) /\ UNCHANGED <<script, pidfile, loose>>

Next ==
    \/ \E s \in Scripts : Scripted(s)
    \/ \E p \in Processes : MigrateByHand(p) \/ StartByHand(p) \/ StopByHand(p) \/ Running(p)
    \/ Unlock /\ UNCHANGED <<script, pidfile, loose>>

Spec == Init /\ [][Next]_vars
-----------------------------------------------------------------------------
(* Properties *)

ScriptState == [step : Steps, own : Processes \cup {NoOne}]
ProcessState == [stage : Stages, kind : {"none", "api", "cli", "old"}, at : Nat \ {0}]

\* The catalog, the locks, the processes and the scripts keep their shape.
TypeOK ==
    /\ database \in {"sqlite", "mysql"} /\ schema \subseteq Features /\ original \subseteq Features
    /\ history = NoTable \/ history \subseteq Migrations
    /\ latch \in BOOLEAN /\ lost \in BOOLEAN /\ backedUp \in BOOLEAN /\ loose \in BOOLEAN
    /\ lock \in Processes \cup {NoOne, Gone}
    /\ process \in [Processes -> ProcessState]
    /\ faults \in 0..MaxFaults
    /\ script \in [Scripts -> ScriptState]
    /\ pidfile \in Processes \cup {NoOne}

\* Whoever of the new release is past its migration, and serves in the end, has
\* every migration recorded and everything they make in the schema, through
\* failures, deaths and retries at every group of statements (runCatalogMigrations,
\* buildContainer).  Only the foreign keys may be missing, and only after the
\* last repair was broken off between dropping and adding one.
ServingIsMigrated ==
    \A p \in Processes :
        process[p].stage \in {"build", "listen", "hung"} \/ (Serves(p) /\ process[p].kind = "api") =>
            /\ Pending = {}
            /\ Features \ (IF lost THEN {"parity"} ELSE {}) \subseteq schema

\* As soon as an existing catalog differs from what the upgrade found, there is a
\* backup of what it found (CatalogMigrations.spec.md), though every later attempt
\* plans from what the earlier ones left.
OriginalKept == "tables" \in original /\ schema # original => backedUp

\* The schema never changes under a server that serves
\* (CatalogMigrations.spec.md: while the previous release is quiesced).
MigratesQuiesced == [][~PortFree => schema' = schema]_vars

\* What a script reports as healthy is a server of the new release.  It is the one
\* that this script started, unless an API server may be up that neither the PID file
\* nor a script knows: after a script was cut off once it had started one, after an
\* operator started one by hand, or after two scripts started theirs over each other
\* (wait_for_http looks at its process, and asks whoever answers).
HealthyIsOwn ==
    [][\A s \in Scripts : Healthy(s) =>
          /\ ~OldServes
          /\ ~loose => Serves(script[s].own)]_vars
=============================================================================
