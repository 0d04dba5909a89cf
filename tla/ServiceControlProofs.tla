------------------------- MODULE ServiceControlProofs -------------------------
(***************************************************************************)
(* What holds of bringing a release into service for any number of         *)
(* processes and faults, and for every catalog an upgrade may find.  The   *)
(* types are inductive as they are.  Everything else rests on Inv: what    *)
(* each stage of a process says about the locks, about the catalog, and    *)
(* about the script that started the process.                              *)
(***************************************************************************)
EXTENDS ServiceControl, TLAPS

-----------------------------------------------------------------------------
(* The migrations *)

LEMMA OrderIs ==
    /\ Order[1] = "baseline" /\ Order[2] = "addReuse" /\ Order[3] = "normalize"
    /\ Order[4] = "finalizeParity" /\ Order[5] = "verifyIndexes"
    /\ Order[6] = "addOperations" /\ Order[7] = "addDedupe"
BY DEF Order

LEMMA MigrationsAre ==
    Migrations = {"baseline", "addReuse", "normalize", "finalizeParity",
                  "verifyIndexes", "addOperations", "addDedupe"}
<1>1. 1..7 = {1, 2, 3, 4, 5, 6, 7}
  OBVIOUS
<1> QED
  BY <1>1, OrderIs DEF Migrations

LEMMA StatementsShape ==
    ASSUME NEW m \in Migrations
    PROVE  /\ Len(Statements(m)) \in {1, 2}
           /\ Statements(m)[1] \in {"tables", "reuse", "columns", "parity", "keyIndex", "operations", "dedupe"}
           /\ Len(Statements(m)) = 2 => Statements(m)[2] \in {"keyIndex", "tagIndex"}
BY MigrationsAre DEF Statements

\* Only two migrations make an index that a foreign key may depend on, and the
\* frozen foreign keys come with a migration between them.
LEMMA IndexMakers ==
    ASSUME NEW m \in Migrations, NEW i \in 1..Len(Statements(m)),
           Statements(m)[i] \in {"keyIndex", "tagIndex"}
    PROVE  m \in {"normalize", "verifyIndexes"}
BY MigrationsAre, StatementsShape DEF Statements

LEMMA ParityMaker ==
    ASSUME NEW m \in Migrations
    PROVE  "parity" \in Makes(m) <=> m = "finalizeParity"
BY MigrationsAre, StatementsShape DEF Statements, Makes

LEMMA IndexMakersKeepParity ==
    ASSUME NEW m \in {"normalize", "verifyIndexes"}, NEW i \in 1..Len(Statements(m))
    PROVE  Statements(m)[i] # "parity"
BY MigrationsAre, StatementsShape DEF Statements

LEMMA FeaturesAre ==
    /\ \A m \in Migrations : Makes(m) \subseteq Features
    /\ {"tables", "reuse", "columns", "parity", "keyIndex", "tagIndex", "operations", "dedupe"} \subseteq Features
<1>1. \A m \in Migrations : Makes(m) \subseteq Features
  BY DEF Features
<1>2. /\ "tables" \in Makes("baseline") /\ "reuse" \in Makes("addReuse")
      /\ "columns" \in Makes("normalize") /\ "parity" \in Makes("finalizeParity")
      /\ "keyIndex" \in Makes("verifyIndexes") /\ "tagIndex" \in Makes("verifyIndexes")
      /\ "operations" \in Makes("addOperations") /\ "dedupe" \in Makes("addDedupe")
  BY DEF Makes, Statements
<1> QED
  BY <1>1, <1>2, MigrationsAre

LEMMA MadeFeatures ==
    ASSUME NEW f \in Features
    PROVE  f \in Made(f) /\ Made(f) \subseteq Features
BY FeaturesAre DEF Made

LEMMA StatementFeature ==
    ASSUME NEW m \in Migrations, NEW i \in 1..Len(Statements(m))
    PROVE  Statements(m)[i] \in Makes(m) /\ Statements(m)[i] \in Features
BY FeaturesAre DEF Makes

-----------------------------------------------------------------------------
(* Types *)

LEMMA TypeInit == Init => TypeOK
<1> SUFFICES ASSUME Init PROVE TypeOK
  OBVIOUS
<1>1. PICK c \in Catalogs :
        database = c.database /\ schema = c.schema /\ history = c.history /\ legacy = c.legacy
  BY DEF Init
<1>2. /\ database \in {"sqlite", "mysql"} /\ schema \subseteq Features /\ original \subseteq Features
      /\ history = NoTable \/ history \subseteq Migrations
  BY <1>1, CatalogsAssumption DEF Init
<1>3. process \in [Processes -> ProcessState]
  BY DEF Init, ProcessState, Process, Stages, Ended
<1>4. script \in [Scripts -> ScriptState]
  BY DEF Init, ScriptState, Script, Steps
<1>5. lock \in Processes \cup {NoOne, Gone} /\ pidfile \in Processes \cup {NoOne}
  BY DEF Init
<1>6. latch \in BOOLEAN /\ lost \in BOOLEAN /\ backedUp \in BOOLEAN /\ loose \in BOOLEAN
  BY DEF Init
<1>7. faults \in 0..MaxFaults
  BY ProcessesAssumption DEF Init
<1> QED
  BY <1>2, <1>3, <1>4, <1>5, <1>6, <1>7 DEF TypeOK

\* The three ways in which a process moves on.
LEMMA GoToTyped ==
    ASSUME TypeOK, NEW p \in Processes, NEW stage \in Stages, GoTo(p, stage)
    PROVE  process' \in [Processes -> ProcessState]
BY DEF TypeOK, GoTo, ProcessState

LEMMA EndTyped ==
    ASSUME TypeOK, NEW p \in Processes, NEW result \in Ended, End(p, result)
    PROVE  process' \in [Processes -> ProcessState]
BY DEF TypeOK, End, ProcessState, Process, Stages

LEMMA AdvanceTyped ==
    ASSUME TypeOK, NEW p \in Processes, NEW stage \in Stages, NEW n \in Nat \ {0},
           process' = [process EXCEPT ![p].stage = stage, ![p].at = n]
    PROVE  process' \in [Processes -> ProcessState]
BY DEF TypeOK, ProcessState

LEMMA ResetTyped ==
    ASSUME TypeOK, NEW p \in Processes, NEW stage \in Stages
    PROVE  [process EXCEPT ![p].stage = stage, ![p].at = 1] \in [Processes -> ProcessState]
<1> DEFINE first == [process EXCEPT ![p].stage = stage]
<1>1. first \in [Processes -> ProcessState]
  BY DEF TypeOK, ProcessState
<1> HIDE DEF first
<1>2. [first EXCEPT ![p].at = 1] \in [Processes -> ProcessState]
  BY <1>1 DEF ProcessState
<1> QED
  BY <1>2 DEF first

LEMMA StagesAre ==
    /\ Ended \subseteq Stages /\ UnderLock \subseteq Stages /\ Applying \subseteq UnderLock
    /\ Ended = {"none", "done"} /\ Applying = {"apply", "index", "restore"}
    /\ UnderLock = {"plan", "backup", "adopt", "copy", "latest", "apply", "index", "restore"}
    /\ {"load", "link", "inspect", "reclaim", "open", "release", "unwind", "build", "listen",
        "serving", "hung"} \subseteq Stages
BY DEF Stages, Ended, UnderLock, Applying

LEMMA KilledTyped ==
    ASSUME TypeOK, NEW p \in Processes, Killed(p)
    PROVE  /\ process' \in [Processes -> ProcessState]
           /\ lock' \in Processes \cup {NoOne, Gone}
           /\ lost' \in BOOLEAN
<1>1. process' \in [Processes -> ProcessState]
  BY EndTyped, StagesAre DEF Killed
<1>2. lock' \in Processes \cup {NoOne, Gone}
  BY DEF Killed, TypeOK
<1>3. lost' \in BOOLEAN
  BY Zenon DEF Killed
<1> QED
  BY <1>1, <1>2, <1>3

\* The catalog's variables.
CatalogTyped ==
    /\ schema \subseteq Features
    /\ history = NoTable \/ history \subseteq Migrations

LEMMA StatementOf ==
    ASSUME TypeOK, NEW p \in Processes, NEW m \in Migrations, InMigration(p, m)
    PROVE  /\ process[p].at \in 1..Len(Statements(m))
           /\ Statement(p, m) \in Makes(m) /\ Statement(p, m) \in Features
<1>1. process[p].at \in Nat \ {0}
  BY DEF TypeOK, ProcessState
<1>2. process[p].at \in 1..Len(Statements(m))
  BY <1>1, StatementsShape DEF InMigration
<1> QED
  BY <1>2, StatementFeature DEF Statement

LEMMA MigrateTyped ==
    ASSUME TypeOK, NEW p \in Processes, Migrate(p)
    PROVE  /\ CatalogTyped'
           /\ process' \in [Processes -> ProcessState]
           /\ lock' \in Processes \cup {NoOne, Gone}
           /\ latch' \in BOOLEAN /\ backedUp' \in BOOLEAN
           /\ UNCHANGED <<database, legacy, original, lost, faults>>
<1> USE DEF TypeOK, CatalogTyped
<1>0. process[p].at \in Nat \ {0}
  BY DEF ProcessState
<1>1. CASE Acquire(p)
  BY <1>1, GoToTyped, StagesAre DEF Acquire, database_vars
<1>2. CASE OpenLock(p) \/ GiveUp(p)
  BY <1>2, GoToTyped, EndTyped, StagesAre DEF OpenLock, GiveUp, database_vars
<1>3. CASE Inspect(p)
  BY <1>3, GoToTyped, StagesAre DEF Inspect, database_vars
<1>4. CASE Reclaim(p)
  BY <1>4, GoToTyped, StagesAre DEF Reclaim, database_vars
<1>5. CASE Release(p)
  BY <1>5, GoToTyped, EndTyped, StagesAre DEF Release, database_vars
<1>6. CASE Plan(p)
  BY <1>6, GoToTyped, StagesAre DEF Plan, database_vars
<1>7. CASE Backup(p)
  <2>1. backedUp' \in BOOLEAN
    BY <1>7, Zenon DEF Backup
  <2> QED
    BY <1>7, <2>1, GoToTyped, StagesAre DEF Backup, database_vars
<1>8. CASE Adopt(p)
  BY <1>8, GoToTyped, StagesAre DEF Adopt, Recorded
<1>9. CASE CopyLegacy(p)
  BY <1>9, GoToTyped, StagesAre DEF CopyLegacy
<1>10. CASE NothingPending(p)
  BY <1>10, GoToTyped, StagesAre DEF NothingPending, database_vars
<1>11. CASE LatestInTransaction(p)
  <2>1. \A m \in Pending : \A f \in Makes(m) : Made(f) \subseteq Features
    BY FeaturesAre, MadeFeatures DEF Pending
  <2>2. schema' \subseteq Features
    BY <1>11, <2>1 DEF LatestInTransaction
  <2> QED
    BY <1>11, <2>2, GoToTyped, StagesAre DEF LatestInTransaction
<1>12. CASE LatestByStatements(p)
  <2>1. ASSUME latch PROVE process' \in [Processes -> ProcessState]
    <3>1. process' = [process EXCEPT ![p].stage = "unwind", ![p].at = 1]
      BY <1>12, <2>1 DEF LatestByStatements
    <3> QED
      BY <3>1, ResetTyped, StagesAre
  <2>2. ASSUME ~latch PROVE process' \in [Processes -> ProcessState]
    <3>1. process' = [process EXCEPT ![p].stage = "apply", ![p].at = 1]
      BY <1>12, <2>2 DEF LatestByStatements
    <3> QED
      BY <3>1, ResetTyped, StagesAre
  <2>3. process' \in [Processes -> ProcessState]
    BY <2>1, <2>2
  <2> QED
    BY <1>12, <2>3 DEF LatestByStatements
<1>13. ASSUME NEW m \in Migrations, AddIfMissing(p, m) \/ DropForeignKey(p, m) \/ CreateIndex(p, m) \/ Record(p, m)
       PROVE  /\ CatalogTyped' /\ process' \in [Processes -> ProcessState]
              /\ UNCHANGED <<database, legacy, original, lost, faults, lock, latch, backedUp>>
  <2>1. CASE AddIfMissing(p, m)
    <3>1. schema' \subseteq Features
      BY <2>1, StatementOf, MadeFeatures DEF AddIfMissing
    <3> QED
      BY <2>1, <3>1, <1>0 DEF AddIfMissing, ProcessState
  <2>2. CASE DropForeignKey(p, m)
    BY <2>2, GoToTyped, StagesAre DEF DropForeignKey
  <2>3. CASE CreateIndex(p, m)
    BY <2>3, StatementOf, GoToTyped, StagesAre DEF CreateIndex
  <2>4. CASE Record(p, m)
    <3>1. process' \in [Processes -> ProcessState]
      <4>1. process' = [process EXCEPT ![p].at = 1]
        BY <2>4 DEF Record
      <4> QED
        BY <4>1 DEF ProcessState
    <3>2. history' \subseteq Migrations
      BY <2>4 DEF Record, Recorded
    <3> QED
      BY <2>4, <3>1, <3>2 DEF Record
  <2> QED
    BY <1>13, <2>1, <2>2, <2>3, <2>4
<1>14. CASE RestoreForeignKey(p)
  <2>1. process' \in [Processes -> ProcessState]
    <3>1. process[p].at + 1 \in Nat \ {0}
      BY <1>0
    <3>2. process' = [process EXCEPT ![p].stage = "apply", ![p].at = process[p].at + 1]
      BY <1>14 DEF RestoreForeignKey
    <3> QED
      BY <3>1, <3>2, AdvanceTyped, StagesAre
  <2> QED
    BY <1>14, <2>1, FeaturesAre DEF RestoreForeignKey
<1>15. CASE LatestDone(p)
  BY <1>15, GoToTyped, StagesAre DEF LatestDone
<1> QED
  BY <1>1, <1>2, <1>3, <1>4, <1>5, <1>6, <1>7, <1>8, <1>9, <1>10, <1>11, <1>12, <1>13, <1>14, <1>15
     DEF Migrate

LEMMA FaultTyped ==
    ASSUME TypeOK, NEW p \in Processes, CallFails(p) \/ Dies(p)
    PROVE  /\ process' \in [Processes -> ProcessState]
           /\ lock' \in Processes \cup {NoOne, Gone}
           /\ latch' \in BOOLEAN /\ lost' \in BOOLEAN /\ faults' \in 0..MaxFaults
           /\ UNCHANGED <<database, schema, history, legacy, original, backedUp>>
<1>1. Fault
  BY DEF CallFails, Dies
<1>2. faults' \in 0..MaxFaults
  BY <1>1, ProcessesAssumption DEF Fault, TypeOK
<1>3. CASE CallFails(p)
  <2>1. process' \in [Processes -> ProcessState]
    BY <1>3, ResetTyped, StagesAre DEF CallFails
  <2>2. latch' \in BOOLEAN /\ lost' \in BOOLEAN
    BY <1>3, Zenon DEF CallFails
  <2> QED
    BY <1>2, <1>3, <2>1, <2>2 DEF CallFails, TypeOK
<1>4. CASE Dies(p)
  <2>1. Killed(p)
    BY <1>4 DEF Dies
  <2> QED
    BY <1>2, <2>1, KilledTyped DEF Killed, TypeOK
<1> QED
  BY <1>3, <1>4

LEMMA StartTyped ==
    ASSUME TypeOK, NEW p \in Processes, NEW kind \in {"api", "cli"},
           process' = [process EXCEPT ![p] = Process("load", kind)]
    PROVE  process' \in [Processes -> ProcessState]
<1>1. Process("load", kind) \in ProcessState
  BY StagesAre DEF Process, ProcessState
<1> QED
  BY <1>1 DEF TypeOK

LEMMA StepsAre ==
    {"idle", "stop", "ports", "migrate", "migrating", "spawn", "record", "alive", "health", "cleanup"} = Steps
BY DEF Steps

\* A script goes on to a step; the others stay where they are.
OtherScripts(s) == \A other \in Scripts \ {s} : script'[other] = script[other]

LEMMA BecomesIs ==
    ASSUME TypeOK, NEW s \in Scripts, NEW step \in Steps, NEW own \in Processes \cup {NoOne},
           Becomes(s, step, own)
    PROVE  /\ script' \in [Scripts -> ScriptState]
           /\ script'[s].step = step /\ script'[s].own = own
           /\ OtherScripts(s)
BY DEF TypeOK, Becomes, Script, ScriptState, OtherScripts

LEMMA GoesToIs ==
    ASSUME TypeOK, NEW s \in Scripts, NEW step \in Steps, GoesTo(s, step)
    PROVE  /\ script' \in [Scripts -> ScriptState]
           /\ script'[s].step = step
           /\ OtherScripts(s)
<1>1. Becomes(s, step, NoOne) /\ NoOne \in Processes \cup {NoOne}
  BY DEF GoesTo
<1> QED
  BY <1>1, BecomesIs

\* What each step of a script makes of it.
LEMMA ScriptIs ==
    ASSUME TypeOK, NEW s \in Scripts
    PROVE  /\ Run(s) => script'[s].step \in {"stop", "ports"}
           /\ StopPidFile(s) => script'[s].step \in {"ports", "idle"}
           /\ RequirePortsFree(s) => \/ script'[s].step = "idle"
                                     \/ PortFree /\ script'[s].step \in {"migrate", "spawn"}
           /\ MigrationEnds(s) => script'[s].step \in {"stop", "idle"}
           /\ Run(s) \/ StopPidFile(s) \/ RequirePortsFree(s) \/ MigrationEnds(s) =>
                 script' \in [Scripts -> ScriptState] /\ OtherScripts(s)
<1>1. Run(s) => script'[s].step \in {"stop", "ports"} /\ script' \in [Scripts -> ScriptState] /\ OtherScripts(s)
  BY GoesToIs, StepsAre DEF Run
<1>2. StopPidFile(s) => script'[s].step \in {"ports", "idle"} /\ script' \in [Scripts -> ScriptState] /\ OtherScripts(s)
  BY GoesToIs, StepsAre DEF StopPidFile
<1>3. RequirePortsFree(s) =>
          /\ \/ script'[s].step = "idle"
             \/ PortFree /\ script'[s].step \in {"migrate", "spawn"}
          /\ script' \in [Scripts -> ScriptState] /\ OtherScripts(s)
  BY GoesToIs, StepsAre DEF RequirePortsFree
<1>4. MigrationEnds(s) => script'[s].step \in {"stop", "idle"} /\ script' \in [Scripts -> ScriptState] /\ OtherScripts(s)
  BY GoesToIs, StepsAre DEF MigrationEnds
<1> QED
  BY <1>1, <1>2, <1>3, <1>4

LEMMA WaitIs ==
    ASSUME TypeOK, NEW s \in Scripts
    PROVE  /\ WritePidFile(s) => script'[s].step = "alive" /\ script'[s].own = script[s].own
           /\ StillAlive(s) \/ NoAnswer(s) =>
                 \/ script'[s].step \in {"alive", "health"} /\ script'[s].own = script[s].own
                 \/ script'[s].step = "cleanup" /\ (StillAlive(s) => ~Alive(script[s].own))
           /\ Healthy(s) \/ Interrupt(s) => script'[s].step = "idle"
           /\ WritePidFile(s) \/ StillAlive(s) \/ NoAnswer(s) \/ Healthy(s) \/ Interrupt(s) =>
                 script' \in [Scripts -> ScriptState] /\ OtherScripts(s)
<1>0. script[s].own \in Processes \cup {NoOne}
  BY DEF TypeOK, ScriptState
<1>1. WritePidFile(s) => /\ script'[s].step = "alive" /\ script'[s].own = script[s].own
                         /\ script' \in [Scripts -> ScriptState] /\ OtherScripts(s)
  BY <1>0, BecomesIs, StepsAre DEF WritePidFile
<1>2. StillAlive(s) => /\ \/ script'[s].step = "health" /\ script'[s].own = script[s].own
                          \/ script'[s].step = "cleanup" /\ ~Alive(script[s].own)
                       /\ script' \in [Scripts -> ScriptState] /\ OtherScripts(s)
  BY <1>0, BecomesIs, GoesToIs, StepsAre DEF StillAlive
<1>3. NoAnswer(s) => /\ \/ script'[s].step = "alive" /\ script'[s].own = script[s].own
                        \/ script'[s].step = "cleanup"
                     /\ script' \in [Scripts -> ScriptState] /\ OtherScripts(s)
  BY <1>0, BecomesIs, GoesToIs, StepsAre DEF NoAnswer
<1>4. Healthy(s) \/ Interrupt(s) => script'[s].step = "idle" /\ script' \in [Scripts -> ScriptState] /\ OtherScripts(s)
  BY GoesToIs, StepsAre DEF Healthy, Interrupt
<1>5. StillAlive(s) /\ NoAnswer(s) => FALSE
  BY DEF StillAlive, NoAnswer
<1> QED
  BY <1>1, <1>2, <1>3, <1>4, <1>5

LEMMA LaunchIs ==
    ASSUME TypeOK, NEW s \in Scripts, NEW p \in Processes
    PROVE  /\ MigrateRelease(s, p) => script'[s].step = "migrating"
           /\ Spawn(s, p) => script'[s].step = "record" /\ script'[s].own = p
           /\ MigrateRelease(s, p) \/ Spawn(s, p) => script' \in [Scripts -> ScriptState] /\ OtherScripts(s)
BY BecomesIs, StepsAre DEF MigrateRelease, Spawn

LEMMA TypeNext == TypeOK /\ [Next]_vars => TypeOK'
<1> SUFFICES ASSUME TypeOK, [Next]_vars PROVE TypeOK'
  OBVIOUS
<1>1. CASE UNCHANGED vars
  BY <1>1 DEF vars, migration_vars, database_vars, TypeOK
<1>2. ASSUME NEW s \in Scripts, Run(s) \/ MigrationEnds(s) PROVE TypeOK'
  <2>1. script' \in [Scripts -> ScriptState]
    BY <1>2, ScriptIs
  <2> QED
    BY <1>2, <2>1 DEF Run, MigrationEnds, TypeOK, migration_vars, database_vars
<1>3. ASSUME NEW s \in Scripts, StopPidFile(s) PROVE TypeOK'
  <2>1. script' \in [Scripts -> ScriptState]
    BY <1>3, ScriptIs
  <2>2. CASE pidfile # NoOne /\ Alive(pidfile)
    <3>1. pidfile \in Processes /\ Killed(pidfile)
      BY <1>3, <2>2 DEF StopPidFile, TypeOK
    <3> QED
      BY <1>3, <2>1, <2>2, <3>1, KilledTyped DEF StopPidFile, Killed, TypeOK
  <2>3. CASE ~(pidfile # NoOne /\ Alive(pidfile))
    BY <1>3, <2>1, <2>3 DEF StopPidFile, TypeOK, migration_vars, database_vars
  <2> QED
    BY <2>2, <2>3
<1>4. ASSUME NEW s \in Scripts, RequirePortsFree(s) PROVE TypeOK'
  <2>1. script' \in [Scripts -> ScriptState]
    BY <1>4, ScriptIs
  <2>2. loose' \in BOOLEAN
    BY <1>4, Zenon DEF RequirePortsFree
  <2> QED
    BY <1>4, <2>1, <2>2 DEF RequirePortsFree, TypeOK, migration_vars, database_vars
<1>6. ASSUME NEW s \in Scripts, WritePidFile(s) \/ StillAlive(s) \/ Healthy(s) \/ NoAnswer(s) PROVE TypeOK'
  <2>1. script' \in [Scripts -> ScriptState]
    BY <1>6, WaitIs
  <2>2. pidfile' \in Processes \cup {NoOne}
    BY <1>6 DEF WritePidFile, StillAlive, Healthy, NoAnswer, TypeOK, ScriptState
  <2> QED
    BY <1>6, <2>1, <2>2
       DEF WritePidFile, StillAlive, Healthy, NoAnswer, TypeOK, migration_vars, database_vars
<1>7. ASSUME NEW s \in Scripts, Interrupt(s) PROVE TypeOK'
  <2>1. script' \in [Scripts -> ScriptState]
    BY <1>7, WaitIs
  <2>2. loose' \in BOOLEAN
    BY <1>7, Zenon DEF Interrupt
  <2>3. faults' \in 0..MaxFaults
    BY <1>7, ProcessesAssumption DEF Interrupt, Fault, TypeOK
  <2> QED
    BY <1>7, <2>1, <2>2, <2>3 DEF Interrupt, TypeOK, database_vars
<1>8. ASSUME NEW s \in Scripts, NEW p \in Processes, MigrateRelease(s, p) \/ Spawn(s, p) PROVE TypeOK'
  <2>1. process' \in [Processes -> ProcessState]
    BY <1>8, StartTyped DEF MigrateRelease, Spawn
  <2>2. script' \in [Scripts -> ScriptState]
    BY <1>8, LaunchIs
  <2> QED
    BY <1>8, <2>1, <2>2 DEF MigrateRelease, Spawn, TypeOK, database_vars
<1>9. ASSUME NEW p \in Processes, MigrateByHand(p) \/ StartByHand(p) \/ StopByHand(p) PROVE TypeOK'
  <2>1. process' \in [Processes -> ProcessState]
    BY <1>9, StartTyped, EndTyped, StagesAre DEF MigrateByHand, StartByHand, StopByHand
  <2> QED
    BY <1>9, <2>1 DEF MigrateByHand, StartByHand, StopByHand, TypeOK, database_vars
<1>10. ASSUME NEW p \in Processes, Running(p) PROVE TypeOK'
  <2>1. CASE Load(p) \/ Build(p) \/ Listen(p)
    <3>1. process' \in [Processes -> ProcessState]
      BY <2>1, GoToTyped, EndTyped, StagesAre DEF Load, Build, Listen
    <3> QED
      BY <2>1, <3>1 DEF Load, Build, Listen, TypeOK, database_vars
  <2>2. CASE Migrate(p) /\ UNCHANGED <<script, pidfile, loose>>
    BY <2>2, MigrateTyped DEF TypeOK, CatalogTyped
  <2>3. CASE (CallFails(p) \/ Dies(p)) /\ UNCHANGED <<script, pidfile, loose>>
    BY <2>3, FaultTyped DEF TypeOK
  <2> QED
    BY <1>10, <2>1, <2>2, <2>3 DEF Running
<1>11. CASE Unlock /\ UNCHANGED <<script, pidfile, loose>>
  BY <1>11 DEF Unlock, TypeOK
<1> QED
  BY <1>1, <1>2, <1>3, <1>4, <1>6, <1>7, <1>8, <1>9, <1>10, <1>11 DEF Next, Scripted

\* The catalog, the processes, the locks and the scripts keep their shape, for any
\* number of processes and faults and every catalog.
THEOREM TypeCorrect == Spec => []TypeOK
BY TypeInit, TypeNext, PTL DEF Spec

-----------------------------------------------------------------------------
(* The invariant *)

\* Which program is at which stage; an "old" server is one that serves.
Kinds ==
    \A p \in Processes :
        /\ process[p].stage \in {"build", "listen", "hung"} => process[p].kind = "api"
        /\ Serves(p) => process[p].kind \in {"api", "old"}
        /\ process[p].kind = "old" => Serves(p)
        /\ Alive(p) <=> process[p].kind # "none"

\* On MySQL whoever is under the cutover lock has it; only SQLite's lock is
\* ever reclaimed.
Owned ==
    \A p \in Processes :
        /\ process[p].stage \in {"inspect", "reclaim", "open"} => database = "sqlite"
        /\ database = "mysql" /\ process[p].stage \in UnderLock \cup {"release", "unwind"} => lock = p

\* Statement by statement migrates one process at a time, behind Knex's lock row.
Latched ==
    \A p \in Processes : process[p].stage \in Applying =>
        /\ database = "mysql" /\ latch
        /\ \A q \in Processes : process[q].stage \in Applying => q = p

\* What counts as migrated once the legacy records are copied, and that they are.
Effective == IF Recorded = {} THEN legacy \cap Migrations ELSE Recorded
Copied == Recorded # {} \/ legacy \cap Migrations = {}

Secured == backedUp \/ "tables" \notin original

\* Past the release of the lock.
Settled(p) == process[p].stage \in {"release", "build", "listen", "hung"}
              \/ (Serves(p) /\ process[p].kind = "api")

\* A catalog that existed is backed up before anything is done to it that changes
\* it; whoever goes on without a backup has found nothing to do, and still will.
PreparedAt(p) ==
    /\ process[p].stage \in {"latest"} \cup Applying => Copied
    /\ process[p].stage \in {"adopt", "copy", "latest"} => Secured \/ Effective = Migrations
    /\ process[p].stage \in Applying => Secured
    /\ Settled(p) => Pending = {}

Prepared ==
    /\ schema # original => Secured
    /\ "tables" \in original => "tables" \in schema
    /\ \A p \in Processes : PreparedAt(p)

\* A foreign key was taken away for its index.
Replacing(p) == process[p].stage \in {"index", "restore"}

\* What is recorded was applied in order and is there, but for foreign keys that
\* are being replaced or were lost.
Sound ==
    /\ InOrder(Effective)
    /\ \A m \in Effective : \A f \in Makes(m) :
          f \in schema \/ (f = "parity" /\ (lost \/ \E p \in Processes : Replacing(p)))

\* The statements before the one a process is at have been made; a process that
\* replaces a key is at a statement that makes an index.
DoneAt(p) ==
    \A m \in Migrations : IsCurrent(m) =>
        \A i \in 1..Len(Statements(m)) : i < process[p].at => Statements(m)[i] \in schema

ReplacesAt(p) ==
    \E m \in Migrations :
        /\ InMigration(p, m)
        /\ Statement(p, m) \in {"keyIndex", "tagIndex"}
        /\ At(p, "restore") => Statement(p, m) \in schema

ProgressAt(p) ==
    /\ process[p].stage \in Applying => DoneAt(p)
    /\ Replacing(p) => ReplacesAt(p)

Progress == \A p \in Processes : ProgressAt(p)

\* Beside an old server there is nobody else and no script has passed the ports.
OldAlone ==
    \A p \in Processes : process[p].kind = "old" =>
        /\ \A s \in Scripts : script[s].step \in {"idle", "stop", "ports"}
        /\ \A q \in Processes \ {p} : process[q].kind = "none"

\* How far the script s, if it is about to start an API, knows of the API process p.
Knows(s, p) ==
    /\ script[s].step # "spawn"
    /\ script[s].step \in {"record", "alive", "health"} => script[s].own = p
    /\ script[s].step \in {"alive", "health", "cleanup"} => pidfile = p

\* Unless an API may be up that nobody knows, one script at a time starts one, and
\* there is no other; without such a script the one there is serves and is in the
\* PID file.
Tracked ==
    /\ OldAlone
    /\ ~loose =>
          /\ \A s, other \in Scripts : Starting(s) /\ Starting(other) => s = other
          /\ \A p \in Processes : process[p].kind = "api" =>
                /\ \A s \in Scripts : Starting(s) => Knows(s, p)
                /\ (\A s \in Scripts : ~Starting(s)) => Serves(p) /\ pidfile = p

Inv == TypeOK /\ Kinds /\ Owned /\ Latched /\ Prepared /\ Sound /\ Progress /\ Tracked

-----------------------------------------------------------------------------
(* How a process moves *)

Others(p) == \A q \in Processes \ {p} : process'[q] = process[q]

LEMMA GoToIs ==
    ASSUME TypeOK, NEW p \in Processes, NEW stage \in Stages, GoTo(p, stage)
    PROVE  /\ process'[p].stage = stage /\ process'[p].kind = process[p].kind
           /\ process'[p].at = process[p].at /\ Others(p)
BY DEF TypeOK, GoTo, ProcessState, Others

LEMMA EndIs ==
    ASSUME TypeOK, NEW p \in Processes, NEW result \in Ended, End(p, result)
    PROVE  process'[p].stage = result /\ process'[p].kind = "none" /\ Others(p)
BY DEF TypeOK, End, Process, Others

LEMMA StartIs ==
    ASSUME TypeOK, NEW p \in Processes, NEW kind \in {"api", "cli"},
           process' = [process EXCEPT ![p] = Process("load", kind)]
    PROVE  process'[p].stage = "load" /\ process'[p].kind = kind /\ Others(p)
BY DEF TypeOK, Process, Others

LEMMA FailsIs ==
    ASSUME TypeOK, NEW p \in Processes, CallFails(p)
    PROVE  process'[p].stage = "unwind" /\ process'[p].kind = process[p].kind /\ Others(p)
BY DEF TypeOK, CallFails, ProcessState, Others

LEMMA LatestByStatementsIs ==
    ASSUME TypeOK, NEW p \in Processes, LatestByStatements(p)
    PROVE  /\ latch => process'[p].stage = "unwind"
           /\ ~latch => process'[p].stage = "apply"
           /\ process'[p].at = 1 /\ process'[p].kind = process[p].kind /\ Others(p)
           /\ At(p, "latest")
BY DEF TypeOK, LatestByStatements, ProcessState, Others

LEMMA StatementIs ==
    ASSUME TypeOK, NEW p \in Processes, NEW m \in Migrations
    PROVE  /\ AddIfMissing(p, m) =>
                /\ process'[p].stage = "apply" /\ process'[p].at = process[p].at + 1
                /\ process'[p].kind = process[p].kind /\ Others(p)
           /\ Record(p, m) =>
                /\ process'[p].stage = "apply" /\ process'[p].at = 1
                /\ process'[p].kind = process[p].kind /\ Others(p)
<1>1. ASSUME AddIfMissing(p, m)
      PROVE  /\ process'[p].stage = "apply" /\ process'[p].at = process[p].at + 1
             /\ process'[p].kind = process[p].kind /\ Others(p)
  <2>1. At(p, "apply") /\ process' = [process EXCEPT ![p].at = @ + 1]
    BY <1>1 DEF AddIfMissing
  <2> QED
    BY <2>1 DEF TypeOK, ProcessState, Others, At
<1>2. ASSUME Record(p, m)
      PROVE  /\ process'[p].stage = "apply" /\ process'[p].at = 1
             /\ process'[p].kind = process[p].kind /\ Others(p)
  <2>1. At(p, "apply") /\ process' = [process EXCEPT ![p].at = 1]
    BY <1>2 DEF Record
  <2> QED
    BY <2>1 DEF TypeOK, ProcessState, Others, At
<1> QED
  BY <1>1, <1>2

LEMMA RestoreIs ==
    ASSUME TypeOK, NEW p \in Processes, RestoreForeignKey(p)
    PROVE  /\ process'[p].stage = "apply" /\ process'[p].at = process[p].at + 1
           /\ process'[p].kind = process[p].kind /\ Others(p)
           /\ At(p, "restore")
<1>1. At(p, "restore") /\ process' = [process EXCEPT ![p].stage = "apply", ![p].at = @ + 1]
  BY DEF RestoreForeignKey
<1> QED
  BY <1>1 DEF TypeOK, ProcessState, Others

\* What a migrating process may become.
LEMMA MigrateMoves ==
    ASSUME TypeOK, NEW p \in Processes, Migrate(p)
    PROVE  /\ Others(p)
           /\ process[p].stage \in UnderLock \cup {"link", "inspect", "reclaim", "open", "release", "unwind"}
           /\ \/ process'[p].kind = process[p].kind /\ process'[p].stage \notin Ended \cup {"serving", "listen", "hung", "load"}
              \/ process'[p].kind = "none" /\ process'[p].stage \in Ended
           /\ process'[p].stage = "build" => process[p].kind # "cli" /\ At(p, "release")
<1> USE StagesAre DEF At
<1>1. CASE Acquire(p)
  BY <1>1, GoToIs DEF Acquire
<1>2. CASE OpenLock(p) \/ GiveUp(p)
  BY <1>2, GoToIs, EndIs DEF OpenLock, GiveUp
<1>3. CASE Inspect(p)
  BY <1>3, GoToIs DEF Inspect
<1>4. CASE Reclaim(p)
  BY <1>4, GoToIs DEF Reclaim
<1>5. CASE Release(p)
  BY <1>5, GoToIs, EndIs DEF Release
<1>6. CASE Plan(p) \/ Backup(p)
  BY <1>6, GoToIs DEF Plan, Backup
<1>7. CASE Adopt(p) \/ CopyLegacy(p)
  BY <1>7, GoToIs DEF Adopt, CopyLegacy
<1>8. CASE NothingPending(p) \/ LatestInTransaction(p)
  BY <1>8, GoToIs DEF NothingPending, LatestInTransaction
<1>9. CASE LatestByStatements(p)
  BY <1>9, LatestByStatementsIs
<1>10. ASSUME NEW m \in Migrations, AddIfMissing(p, m) \/ DropForeignKey(p, m) \/ CreateIndex(p, m) \/ Record(p, m)
       PROVE  /\ Others(p) /\ process[p].stage \in Applying /\ process'[p].stage \in Applying
              /\ process'[p].kind = process[p].kind
  BY <1>10, GoToIs, StatementIs DEF AddIfMissing, DropForeignKey, CreateIndex, Record
<1>11. CASE RestoreForeignKey(p)
  BY <1>11, RestoreIs
<1>12. CASE LatestDone(p)
  BY <1>12, GoToIs DEF LatestDone
<1> QED
  BY <1>1, <1>2, <1>3, <1>4, <1>5, <1>6, <1>7, <1>8, <1>9, <1>10, <1>11, <1>12 DEF Migrate

\* A process is started in a slot that nothing refers to.
Starts(p) ==
    /\ ~Alive(p) /\ lock # p
    /\ \E kind \in {"api", "cli"} : process' = [process EXCEPT ![p] = Process("load", kind)]
    /\ UNCHANGED <<database_vars, lock, backedUp>>

\* A step of the scripts or the operator that moves no process.
Aside ==
    /\ UNCHANGED <<database, schema, history, legacy, original, lost, process, lock, backedUp>>
    /\ latch' = latch \/ Unlock

\* An API server's own steps, and its end by hand.
Life(p) == Load(p) \/ Build(p) \/ Listen(p) \/ StopByHand(p)

LEMMA NextMoves ==
    ASSUME TypeOK, [Next]_vars
    PROVE  \/ Aside
           \/ \E p \in Processes :
                 \/ Migrate(p) \/ CallFails(p) \/ (Killed(p) /\ Alive(p) /\ latch' = latch)
                 \/ Life(p) \/ Starts(p)
<1> DEFINE moves == \E p \in Processes :
                       \/ Migrate(p) \/ CallFails(p) \/ (Killed(p) /\ Alive(p) /\ latch' = latch)
                       \/ Life(p) \/ Starts(p)
<1>1. CASE UNCHANGED vars
  BY <1>1 DEF vars, migration_vars, database_vars, Aside
<1>2. ASSUME NEW s \in Scripts, Run(s) PROVE Aside
  BY <1>2 DEF Run, migration_vars, database_vars, Aside
<1>3. ASSUME NEW s \in Scripts, StopPidFile(s) PROVE Aside \/ moves
  <2>1. CASE pidfile # NoOne /\ Alive(pidfile)
    BY <1>3, <2>1 DEF StopPidFile, Killed, TypeOK
  <2>2. CASE ~(pidfile # NoOne /\ Alive(pidfile))
    BY <1>3, <2>2 DEF StopPidFile, migration_vars, database_vars, Aside
  <2> QED
    BY <2>1, <2>2
<1>4. ASSUME NEW s \in Scripts,
             RequirePortsFree(s) \/ MigrationEnds(s) \/ WritePidFile(s) \/ StillAlive(s)
                \/ Healthy(s) \/ NoAnswer(s)
      PROVE  Aside
  BY <1>4 DEF RequirePortsFree, MigrationEnds, WritePidFile, StillAlive, Healthy, NoAnswer,
              migration_vars, database_vars, Aside
<1>5. ASSUME NEW s \in Scripts, Interrupt(s) PROVE Aside
  BY <1>5 DEF Interrupt, database_vars, Aside
<1>6. ASSUME NEW p \in Processes,
             (\E s \in Scripts : MigrateRelease(s, p) \/ Spawn(s, p)) \/ MigrateByHand(p) \/ StartByHand(p)
      PROVE  Starts(p)
  <2>1. Unused(p)
    BY <1>6 DEF MigrateRelease, Spawn, MigrateByHand, StartByHand
  <2>2. UNCHANGED <<database_vars, lock, backedUp>>
    BY <1>6 DEF MigrateRelease, Spawn, MigrateByHand, StartByHand
  <2>3. \E kind \in {"api", "cli"} : process' = [process EXCEPT ![p] = Process("load", kind)]
    BY <1>6 DEF MigrateRelease, Spawn, MigrateByHand, StartByHand
  <2> QED
    BY <2>1, <2>2, <2>3 DEF Starts, Unused
<1>7. ASSUME NEW p \in Processes, Running(p) \/ StopByHand(p) PROVE moves
  BY <1>7 DEF Running, Dies, Killed, Life
<1>8. CASE Unlock /\ UNCHANGED <<script, pidfile, loose>>
  BY <1>8 DEF Unlock, Aside
<1> HIDE DEF moves
<1>9. ASSUME NEW s \in Scripts, Scripted(s) PROVE Aside \/ moves
  <2>1. ASSUME NEW p \in Processes, MigrateRelease(s, p) \/ Spawn(s, p) PROVE moves
    BY <1>6, <2>1 DEF moves
  <2> QED
    BY <1>2, <1>3, <1>4, <1>5, <1>9, <2>1 DEF Scripted
<1>10. ASSUME NEW p \in Processes, MigrateByHand(p) \/ StartByHand(p) PROVE moves
  BY <1>6, <1>10 DEF moves
<1>11. CASE Next
  <2>1. CASE \E s \in Scripts : Scripted(s)
    BY <1>9, <2>1 DEF moves
  <2>2. CASE \E p \in Processes : MigrateByHand(p) \/ StartByHand(p) \/ StopByHand(p) \/ Running(p)
    BY <1>7, <1>10, <2>2 DEF moves
  <2> QED
    BY <1>8, <1>11, <2>1, <2>2 DEF Next
<1> QED
  BY <1>1, <1>11

\* What becomes of an API server's process.
LEMMA LifeIs ==
    ASSUME TypeOK, NEW p \in Processes, Life(p)
    PROVE  /\ Others(p)
           /\ \/ process'[p].stage = "none" /\ process'[p].kind = "none"
              \/ /\ process'[p].kind = process[p].kind
                 /\ \/ At(p, "load") /\ process'[p].stage = "link"
                    \/ At(p, "build") /\ process'[p].stage \in {"listen", "hung"}
                    \/ At(p, "listen") /\ process'[p].stage = "serving"
           /\ process[p].stage \in {"load", "build", "listen", "serving", "hung"}
           /\ UNCHANGED <<database_vars, lock, backedUp>>
<1>1. CASE Load(p)
  BY <1>1, GoToIs, EndIs, StagesAre DEF Load, At
<1>2. CASE Build(p)
  BY <1>2, GoToIs, EndIs, StagesAre DEF Build, At
<1>3. CASE Listen(p)
  BY <1>3, GoToIs, EndIs, StagesAre DEF Listen, At
<1>4. CASE StopByHand(p)
  BY <1>4, EndIs, StagesAre DEF StopByHand
<1> QED
  BY <1>1, <1>2, <1>3, <1>4 DEF Life

LEMMA KindsNext == TypeOK /\ Kinds /\ [Next]_vars => Kinds'
<1> SUFFICES ASSUME TypeOK, Kinds, [Next]_vars PROVE Kinds'
  OBVIOUS
<1> USE DEF Kinds, Serves, At, Alive, Others
<1>1. CASE Aside
  BY <1>1 DEF Aside
<1>2. ASSUME NEW p \in Processes,
             \/ Migrate(p) \/ CallFails(p) \/ (Killed(p) /\ Alive(p) /\ latch' = latch)
             \/ Life(p) \/ Starts(p)
      PROVE  Kinds'
  <2>0. process[p].kind \in {"none", "api", "cli", "old"}
    BY DEF TypeOK, ProcessState
  <2>1. CASE Migrate(p)
    <3>1. process[p].kind \in {"api", "cli"}
      BY <2>0, <2>1, MigrateMoves, StagesAre
    <3>2. \/ process'[p].kind = "none" /\ process'[p].stage \in Ended
          \/ /\ process'[p].kind = process[p].kind
             /\ process'[p].stage \notin Ended \cup {"serving", "listen", "hung"}
             /\ process'[p].stage = "build" => process[p].kind = "api"
      BY <2>1, <3>1, MigrateMoves
    <3> QED
      BY <2>1, <3>1, <3>2, MigrateMoves, StagesAre
  <2>2. CASE CallFails(p)
    <3>1. process[p].stage \in UnderLock
      BY <2>2 DEF CallFails
    <3> QED
      BY <2>0, <2>2, <3>1, FailsIs, StagesAre
  <2>3. CASE Killed(p) /\ Alive(p)
    BY <2>3, EndIs, StagesAre DEF Killed
  <2>4. CASE Life(p)
    <3>1. CASE process'[p].stage = "none" /\ process'[p].kind = "none"
      BY <2>4, <3>1, LifeIs, StagesAre
    <3>2. CASE process'[p].kind = process[p].kind
      BY <2>4, <3>2, LifeIs, StagesAre
    <3> QED
      BY <2>4, <3>1, <3>2, LifeIs
  <2>5. CASE Starts(p)
    <3>1. Others(p) /\ process'[p].stage = "load" /\ process'[p].kind \in {"api", "cli"}
      BY <2>5, StartIs DEF Starts
    <3> QED
      BY <3>1, StagesAre
  <2> QED
    BY <1>2, <2>1, <2>2, <2>3, <2>4, <2>5
<1> QED
  BY <1>1, <1>2, NextMoves

LEMMA OwnedNext == TypeOK /\ Owned /\ [Next]_vars => Owned'
<1> SUFFICES ASSUME TypeOK, Owned, [Next]_vars PROVE Owned'
  OBVIOUS
<1> USE DEF Owned, At, Others
<1>1. CASE Aside
  BY <1>1 DEF Aside
<1>2. ASSUME NEW p \in Processes,
             \/ Migrate(p) \/ CallFails(p) \/ (Killed(p) /\ Alive(p) /\ latch' = latch)
             \/ Life(p) \/ Starts(p)
      PROVE  Owned'
  <2>1. CASE Migrate(p)
    <3>1. CASE Acquire(p)
      BY <3>1, GoToIs, StagesAre, ProcessesAssumption DEF Acquire, database_vars
    <3>2. CASE OpenLock(p) \/ GiveUp(p)
      BY <3>2, GoToIs, EndIs, StagesAre DEF OpenLock, GiveUp, database_vars
    <3>3. CASE Inspect(p) \/ Reclaim(p)
      BY <3>3, GoToIs, StagesAre DEF Inspect, Reclaim, database_vars
    <3>4. CASE Release(p)
      BY <3>4, GoToIs, EndIs, StagesAre, ProcessesAssumption DEF Release, database_vars
    <3>5. ASSUME ~Acquire(p), ~OpenLock(p), ~GiveUp(p), ~Inspect(p), ~Reclaim(p), ~Release(p)
          PROVE  Owned'
      <4>1. process[p].stage \in UnderLock /\ UNCHANGED <<lock, database>>
        <5>1. ASSUME NEW m \in Migrations, AddIfMissing(p, m) \/ DropForeignKey(p, m) \/ CreateIndex(p, m) \/ Record(p, m)
              PROVE  process[p].stage \in UnderLock /\ UNCHANGED <<lock, database>>
          BY <5>1, StagesAre DEF AddIfMissing, DropForeignKey, CreateIndex, Record
        <5>2. CASE Plan(p) \/ Backup(p) \/ NothingPending(p)
          BY <5>2, StagesAre DEF Plan, Backup, NothingPending, database_vars
        <5>3. CASE Adopt(p) \/ CopyLegacy(p) \/ LatestInTransaction(p) \/ LatestDone(p)
          BY <5>3, StagesAre DEF Adopt, CopyLegacy, LatestInTransaction, LatestDone
        <5>4. CASE LatestByStatements(p) \/ RestoreForeignKey(p)
          BY <5>4, StagesAre DEF LatestByStatements, RestoreForeignKey
        <5> QED
          BY <2>1, <3>5, <5>1, <5>2, <5>3, <5>4 DEF Migrate
      <4>2. Others(p) /\ process'[p].stage \notin {"inspect", "reclaim", "open"}
        <5>1. ASSUME NEW m \in Migrations, AddIfMissing(p, m) \/ DropForeignKey(p, m) \/ CreateIndex(p, m) \/ Record(p, m)
              PROVE  process'[p].stage \notin {"inspect", "reclaim", "open"}
          BY <5>1, GoToIs, StatementIs, StagesAre DEF DropForeignKey, CreateIndex
        <5>2. CASE Plan(p) \/ Backup(p) \/ NothingPending(p)
          BY <5>2, MigrateMoves, GoToIs, StagesAre DEF Plan, Backup, NothingPending
        <5>3. CASE Adopt(p) \/ CopyLegacy(p) \/ LatestInTransaction(p) \/ LatestDone(p)
          BY <5>3, MigrateMoves, GoToIs, StagesAre DEF Adopt, CopyLegacy, LatestInTransaction, LatestDone
        <5>4. CASE LatestByStatements(p) \/ RestoreForeignKey(p)
          BY <5>4, LatestByStatementsIs, RestoreIs
        <5> QED
          BY <2>1, <3>5, <5>1, <5>2, <5>3, <5>4, MigrateMoves DEF Migrate
      <4> QED
        BY <4>1, <4>2
    <3> QED
      BY <3>1, <3>2, <3>3, <3>4, <3>5
  <2>2. CASE CallFails(p)
    BY <2>2, FailsIs, StagesAre DEF CallFails
  <2>3. CASE Killed(p) /\ Alive(p)
    BY <2>3, EndIs, StagesAre DEF Killed
  <2>4. CASE Life(p)
    BY <2>4, LifeIs, StagesAre DEF database_vars
  <2>5. CASE Starts(p)
    BY <2>5, StartIs, StagesAre DEF Starts, database_vars
  <2> QED
    BY <1>2, <2>1, <2>2, <2>3, <2>4, <2>5
<1> QED
  BY <1>1, <1>2, NextMoves

\* The steps in which nothing becomes of the catalog and its preparation.
Harmless == {"none", "done", "load", "link", "inspect", "reclaim", "open", "plan", "unwind"}
Quiet(p) ==
    /\ UNCHANGED <<database, schema, history, legacy, original, backedUp>>
    /\ Others(p)
    /\ lost => lost'
    /\ Replacing(p) /\ IsCurrent("verifyIndexes") => lost'
    /\ \/ process'[p].stage \in Harmless
       \/ /\ process[p].stage \in {"release", "build", "listen"}
          /\ process'[p].stage \in {"build", "listen", "hung", "serving"}
       \/ process'[p].stage = "done"

\* The steps that prepare and change the catalog.
Applies(p, m) == AddIfMissing(p, m) \/ DropForeignKey(p, m) \/ CreateIndex(p, m) \/ Record(p, m)
Works(p) ==
    \/ Plan(p) \/ Backup(p) \/ Adopt(p) \/ CopyLegacy(p) \/ NothingPending(p)
    \/ LatestInTransaction(p) \/ LatestByStatements(p) \/ RestoreForeignKey(p) \/ LatestDone(p)
    \/ \E m \in Migrations : Applies(p, m)

LEMMA QuietOrWorks ==
    ASSUME TypeOK, [Next]_vars
    PROVE  Aside \/ \E p \in Processes : Quiet(p) \/ Works(p)
<1> USE DEF Quiet, Harmless, Replacing, At
<1>1. ASSUME NEW p \in Processes,
             \/ Migrate(p) \/ CallFails(p) \/ (Killed(p) /\ Alive(p) /\ latch' = latch)
             \/ Life(p) \/ Starts(p)
      PROVE  Quiet(p) \/ Works(p)
  <2>1. CASE Migrate(p)
    <3>1. CASE Acquire(p)
      BY <3>1, GoToIs, StagesAre DEF Acquire, database_vars
    <3>2. CASE OpenLock(p) \/ GiveUp(p)
      BY <3>2, GoToIs, EndIs, StagesAre DEF OpenLock, GiveUp, database_vars
    <3>3. CASE Inspect(p)
      BY <3>3, GoToIs, StagesAre DEF Inspect, database_vars
    <3>4. CASE Reclaim(p)
      BY <3>4, GoToIs, StagesAre DEF Reclaim, database_vars
    <3>5. CASE Release(p)
      BY <3>5, GoToIs, EndIs, StagesAre DEF Release, database_vars
    <3> QED
      BY <2>1, <3>1, <3>2, <3>3, <3>4, <3>5 DEF Migrate, Works, Applies
  <2>2. CASE CallFails(p)
    <3>1. lost' = (lost \/ Breaks(p))
      BY <2>2 DEF CallFails
    <3>2. /\ lost => lost'
          /\ Replacing(p) /\ IsCurrent("verifyIndexes") => lost'
      BY <3>1, Zenon DEF Breaks
    <3> QED
      BY <2>2, <3>2, FailsIs DEF CallFails
  <2>3. CASE Killed(p)
    <3>1. lost' = (lost \/ Breaks(p))
      BY <2>3 DEF Killed
    <3>2. /\ lost => lost'
          /\ Replacing(p) /\ IsCurrent("verifyIndexes") => lost'
      BY <3>1, Zenon DEF Breaks
    <3> QED
      BY <2>3, <3>2, EndIs, StagesAre DEF Killed
  <2>4. CASE Life(p)
    BY <2>4, LifeIs, StagesAre DEF database_vars
  <2>5. CASE Starts(p)
    BY <2>5, StartIs, StagesAre DEF Starts, database_vars, Alive
  <2> QED
    BY <1>1, <2>1, <2>2, <2>3, <2>4, <2>5
<1> QED
  BY <1>1, NextMoves

LEMMA LatchedNext == TypeOK /\ Latched /\ [Next]_vars => Latched'
<1> SUFFICES ASSUME TypeOK, Latched, [Next]_vars PROVE Latched'
  OBVIOUS
<1> USE DEF Latched, At, Others
<1>1. CASE Aside
  BY <1>1, StagesAre DEF Aside, Unlock
<1>2. ASSUME NEW p \in Processes,
             \/ Migrate(p) \/ CallFails(p) \/ (Killed(p) /\ Alive(p) /\ latch' = latch)
             \/ Life(p) \/ Starts(p)
      PROVE  Latched'
  <2>1. CASE Migrate(p)
    <3>1. ASSUME process'[p].stage \notin Applying, database' = database, latch' = latch PROVE Latched'
      BY <2>1, <3>1, MigrateMoves
    <3>2. CASE Acquire(p) \/ OpenLock(p) \/ GiveUp(p) \/ Inspect(p) \/ Reclaim(p) \/ Release(p)
      <4>1. database' = database /\ latch' = latch
        BY <3>2 DEF Acquire, OpenLock, GiveUp, Inspect, Reclaim, Release, database_vars
      <4>2. process'[p].stage \notin Applying
        BY <3>2, GoToIs, EndIs, StagesAre DEF Acquire, OpenLock, GiveUp, Inspect, Reclaim, Release
      <4> QED
        BY <3>1, <4>1, <4>2
    <3>3. CASE Plan(p) \/ Backup(p) \/ Adopt(p) \/ CopyLegacy(p) \/ NothingPending(p) \/ LatestInTransaction(p)
      <4>1. database' = database /\ latch' = latch
        BY <3>3 DEF Plan, Backup, Adopt, CopyLegacy, NothingPending, LatestInTransaction, database_vars
      <4>2. process'[p].stage \notin Applying
        BY <3>3, GoToIs, StagesAre DEF Plan, Backup, Adopt, CopyLegacy, NothingPending, LatestInTransaction
      <4> QED
        BY <3>1, <4>1, <4>2
    <3>4. CASE LatestByStatements(p)
      <4>1. latch' /\ database = "mysql" /\ database' = database /\ Others(p)
        BY <3>4, LatestByStatementsIs DEF LatestByStatements
      <4>2. CASE latch
        <5>1. process'[p].stage \notin Applying
          BY <3>4, <4>2, LatestByStatementsIs, StagesAre
        <5> QED
          BY <4>1, <5>1
      <4>3. CASE ~latch
        <5>1. \A q \in Processes : process[q].stage \notin Applying
          BY <4>3
        <5> QED
          BY <4>1, <5>1
      <4> QED
        BY <4>2, <4>3
    <3>5. ASSUME NEW m \in Migrations, AddIfMissing(p, m) \/ DropForeignKey(p, m) \/ CreateIndex(p, m) \/ Record(p, m)
          PROVE  process[p].stage \in Applying /\ UNCHANGED <<database, latch>>
      BY <3>5, StagesAre DEF AddIfMissing, DropForeignKey, CreateIndex, Record
    <3>6. ASSUME RestoreForeignKey(p) PROVE process[p].stage \in Applying /\ UNCHANGED <<database, latch>>
      BY <3>6, RestoreIs, StagesAre DEF RestoreForeignKey
    <3>7. CASE LatestDone(p)
      BY <3>7, GoToIs, StagesAre DEF LatestDone
    <3>8. CASE process[p].stage \in Applying /\ UNCHANGED <<database, latch>>
      BY <2>1, <3>8, MigrateMoves
    <3> QED
      BY <2>1, <3>2, <3>3, <3>4, <3>5, <3>6, <3>7, <3>8 DEF Migrate
  <2>2. CASE CallFails(p)
    <3>0. database' = database
      BY <2>2 DEF CallFails
    <3>1. process'[p].stage \notin Applying /\ Others(p)
      BY <2>2, FailsIs, StagesAre
    <3>2. process[p].stage \notin Applying /\ latch => latch'
      BY <2>2, Zenon DEF CallFails
    <3> QED
      BY <3>0, <3>1, <3>2
  <2>3. CASE Killed(p) /\ Alive(p) /\ latch' = latch
    BY <2>3, EndIs, StagesAre DEF Killed
  <2>4. CASE Life(p)
    BY <2>4, LifeIs, StagesAre DEF database_vars
  <2>5. CASE Starts(p)
    BY <2>5, StartIs, StagesAre DEF Starts, database_vars
  <2> QED
    BY <1>2, <2>1, <2>2, <2>3, <2>4, <2>5
<1> QED
  BY <1>1, <1>2, NextMoves

-----------------------------------------------------------------------------
(* What is recorded *)

LEMMA RecordedTyped == TypeOK => Recorded \subseteq Migrations /\ Recorded # NoTable
BY NoTableAssumption DEF TypeOK, Recorded

LEMMA CurrentIs ==
    ASSUME NEW m \in Migrations, IsCurrent(m)
    PROVE  /\ m \in Pending /\ m \notin Recorded /\ Pending # {}
           /\ \A n \in Migrations : IsCurrent(n) => n = m
<1>1. m \in Pending
  BY DEF IsCurrent
<1>2. ASSUME NEW n \in Migrations, IsCurrent(n) PROVE n = m
  <2>1. PICK i \in 1..7 : m = Order[i] /\ Order[i] \in Pending /\ \A k \in 1..(i - 1) : Order[k] \in Recorded
    BY DEF IsCurrent
  <2>2. PICK j \in 1..7 : n = Order[j] /\ Order[j] \in Pending /\ \A k \in 1..(j - 1) : Order[k] \in Recorded
    BY <1>2 DEF IsCurrent
  <2>3. \A k \in 1..7 : Order[k] \in Pending => Order[k] \notin Recorded
    BY DEF Pending
  <2>4. ~(i < j) /\ ~(j < i)
    BY <2>1, <2>2, <2>3
  <2> QED
    BY <2>1, <2>2, <2>4
<1> QED
  BY <1>1, <1>2 DEF Pending

LEMMA SameRecord ==
    ASSUME Recorded' = Recorded
    PROVE  Pending' = Pending /\ \A m \in Migrations : IsCurrent(m)' <=> IsCurrent(m)
BY DEF Pending, IsCurrent

\* No step takes a record back, and only three kinds of step add one.
LEMMA RecordGrows ==
    ASSUME TypeOK, [Next]_vars
    PROVE  Recorded \subseteq Recorded' /\ Pending' \subseteq Pending
<1>1. Recorded \subseteq Recorded'
  <2>1. CASE history' = history
    BY <2>1 DEF Recorded
  <2>2. ASSUME NEW p \in Processes, Works(p) PROVE Recorded \subseteq Recorded'
    <3>1. CASE Adopt(p)
      BY <3>1 DEF Adopt, Recorded
    <3>2. CASE CopyLegacy(p)
      BY <3>2 DEF CopyLegacy, Recorded
    <3>3. CASE LatestInTransaction(p)
      BY <3>3, RecordedTyped, NoTableAssumption DEF LatestInTransaction, Recorded
    <3>4. ASSUME NEW m \in Migrations, Applies(p, m) PROVE Recorded \subseteq Recorded'
      <4>1. CASE Record(p, m)
        <5>1. history' = Recorded \cup {m} /\ history' \subseteq Migrations
          BY <4>1, RecordedTyped DEF Record
        <5> QED
          BY <5>1, NoTableAssumption DEF Recorded
      <4>2. CASE AddIfMissing(p, m) \/ DropForeignKey(p, m) \/ CreateIndex(p, m)
        BY <2>1, <4>2 DEF AddIfMissing, DropForeignKey, CreateIndex
      <4> QED
        BY <3>4, <4>1, <4>2 DEF Applies
    <3>5. CASE Plan(p) \/ Backup(p) \/ NothingPending(p) \/ LatestByStatements(p) \/ RestoreForeignKey(p) \/ LatestDone(p)
      BY <2>1, <3>5 DEF Plan, Backup, NothingPending, LatestByStatements, RestoreForeignKey, LatestDone, database_vars
    <3> QED
      BY <2>2, <3>1, <3>2, <3>3, <3>4, <3>5 DEF Works
  <2> QED
    BY <2>1, <2>2, QuietOrWorks DEF Quiet, Aside
<1> QED
  BY <1>1 DEF Pending

LEMMA WorksLegacy ==
    ASSUME NEW p \in Processes, Works(p)
    PROVE  UNCHANGED <<database, legacy, original>>
<1>1. ASSUME NEW m \in Migrations, Applies(p, m) PROVE UNCHANGED <<database, legacy, original>>
  BY <1>1 DEF Applies, AddIfMissing, DropForeignKey, CreateIndex, Record
<1>2. CASE Plan(p) \/ Backup(p) \/ NothingPending(p)
  BY <1>2 DEF Plan, Backup, NothingPending, database_vars
<1>3. CASE Adopt(p) \/ CopyLegacy(p) \/ LatestInTransaction(p)
  BY <1>3 DEF Adopt, CopyLegacy, LatestInTransaction
<1>4. CASE LatestByStatements(p) \/ RestoreForeignKey(p) \/ LatestDone(p)
  BY <1>4 DEF LatestByStatements, RestoreForeignKey, LatestDone
<1> QED
  BY <1>1, <1>2, <1>3, <1>4 DEF Works

\* Copying the legacy records changes nothing of what counts as migrated.
LEMMA EffectiveSteps ==
    ASSUME TypeOK, Prepared, [Next]_vars
    PROVE  /\ \/ Effective' = Effective
              \/ \E p \in Processes : LatestInTransaction(p) /\ Effective' = Migrations
              \/ \E p \in Processes : \E m \in Migrations : Record(p, m) /\ Effective' = Effective \cup {m}
           /\ Copied => Copied'
<1> DEFINE steps == \/ Effective' = Effective
                    \/ \E p \in Processes : LatestInTransaction(p) /\ Effective' = Migrations
                    \/ \E p \in Processes : \E m \in Migrations : Record(p, m) /\ Effective' = Effective \cup {m}
<1>0. Recorded \subseteq Migrations /\ Recorded \subseteq Recorded'
  BY RecordedTyped, RecordGrows
<1>1. ASSUME Recorded' = Recorded, legacy' = legacy PROVE steps /\ (Copied => Copied')
  BY <1>1 DEF Effective, Copied
<1>2. CASE history' = history /\ legacy' = legacy
  BY <1>1, <1>2 DEF Recorded
<1>3. ASSUME NEW p \in Processes, Works(p) PROVE steps /\ (Copied => Copied')
  <2>0. legacy' = legacy
    BY <1>3, WorksLegacy
  <2>1. CASE Adopt(p)
    <3>1. Recorded' = Recorded
      BY <1>0, <2>1, NoTableAssumption DEF Adopt, Recorded
    <3> QED
      BY <1>1, <2>0, <3>1
  <2>2. CASE CopyLegacy(p)
    <3>1. CASE Recorded = {}
      <4>1. history' = legacy \cap Migrations
        BY <2>2, <3>1 DEF CopyLegacy
      <4>2. Recorded' = legacy \cap Migrations
        BY <4>1, NoTableAssumption DEF Recorded
      <4>3. Effective' = Effective
        BY <2>0, <3>1, <4>2 DEF Effective
      <4>4. Copied'
        BY <2>0, <4>2 DEF Copied
      <4> QED
        BY <4>3, <4>4
    <3>2. CASE Recorded # {}
      <4>1. Recorded' = Recorded
        BY <2>2, <3>2 DEF CopyLegacy, Recorded
      <4> QED
        BY <1>1, <2>0, <4>1
    <3> QED
      BY <3>1, <3>2
  <2>3. CASE LatestInTransaction(p)
    <3>1. Recorded' = Migrations
      BY <2>3, NoTableAssumption DEF LatestInTransaction, Recorded
    <3>2. Migrations # {}
      BY MigrationsAre
    <3> QED
      BY <2>3, <3>1, <3>2 DEF Effective, Copied
  <2>4. ASSUME NEW m \in Migrations, Applies(p, m) PROVE steps /\ (Copied => Copied')
    <3>1. CASE Record(p, m)
      <4>1. Copied
        BY <3>1, StagesAre DEF Record, At, Prepared, PreparedAt
      <4>2. history' = Recorded \cup {m} /\ history' \subseteq Migrations
        BY <1>0, <3>1 DEF Record
      <4>3. Recorded' = Recorded \cup {m}
        BY <4>2, NoTableAssumption DEF Recorded
      <4>4. Effective = Recorded
        BY <4>1 DEF Copied, Effective
      <4>5. Effective' = Effective \cup {m} /\ Copied'
        BY <4>3, <4>4 DEF Effective, Copied
      <4> QED
        BY <3>1, <4>5
    <3>2. CASE AddIfMissing(p, m) \/ DropForeignKey(p, m) \/ CreateIndex(p, m)
      BY <1>2, <2>0, <3>2 DEF AddIfMissing, DropForeignKey, CreateIndex
    <3> QED
      BY <2>4, <3>1, <3>2 DEF Applies
  <2>5. CASE Plan(p) \/ Backup(p) \/ NothingPending(p)
    BY <1>2, <2>0, <2>5 DEF Plan, Backup, NothingPending, database_vars
  <2>6. CASE LatestByStatements(p) \/ RestoreForeignKey(p) \/ LatestDone(p)
    BY <1>2, <2>0, <2>6 DEF LatestByStatements, RestoreForeignKey, LatestDone
  <2> QED
    BY <1>3, <2>1, <2>2, <2>3, <2>4, <2>5, <2>6 DEF Works
<1> QED
  BY <1>2, <1>3, QuietOrWorks DEF Quiet, Aside

\* What was prepared stays so.
LEMMA PreparationStays ==
    ASSUME TypeOK, Prepared, [Next]_vars
    PROVE  /\ Secured => Secured'
           /\ Copied => Copied'
           /\ Effective = Migrations => Effective' = Migrations
           /\ Pending = {} => Pending' = {}
           /\ UNCHANGED <<original, legacy>>
<1>1. original' = original /\ legacy' = legacy
  BY QuietOrWorks, WorksLegacy DEF Quiet, Aside
<1>2. backedUp => backedUp'
  <2>1. ASSUME NEW p \in Processes, Works(p) PROVE backedUp => backedUp'
    <3>1. CASE Backup(p)
      BY <3>1, Zenon DEF Backup
    <3>2. ASSUME NEW m \in Migrations, Applies(p, m) PROVE backedUp' = backedUp
      BY <3>2 DEF Applies, AddIfMissing, DropForeignKey, CreateIndex, Record
    <3>3. CASE Plan(p) \/ NothingPending(p) \/ Adopt(p) \/ CopyLegacy(p) \/ LatestInTransaction(p)
      BY <3>3 DEF Plan, NothingPending, Adopt, CopyLegacy, LatestInTransaction
    <3>4. CASE LatestByStatements(p) \/ RestoreForeignKey(p) \/ LatestDone(p)
      BY <3>4 DEF LatestByStatements, RestoreForeignKey, LatestDone
    <3> QED
      BY <2>1, <3>1, <3>2, <3>3, <3>4 DEF Works
  <2> QED
    BY <2>1, QuietOrWorks DEF Quiet, Aside
<1>3. Secured => Secured'
  BY <1>1, <1>2, Zenon DEF Secured
<1>4. Effective = Migrations => Effective' = Migrations
  BY EffectiveSteps
<1>5. Pending = {} => Pending' = {}
  BY RecordGrows
<1> QED
  BY <1>1, <1>3, <1>4, <1>5, EffectiveSteps

\* Whoever comes to the pending migrations of an existing catalog has a backup.
LEMMA PendingIsSecured ==
    ASSUME TypeOK, Prepared, NEW p \in Processes, At(p, "latest"), Pending # {}
    PROVE  Secured /\ Copied
<1>1. Copied /\ (Secured \/ Effective = Migrations)
  BY DEF Prepared, PreparedAt, At
<1>2. Effective # Migrations
  BY <1>1, MigrationsAre DEF Copied, Effective, Pending
<1> QED
  BY <1>1, <1>2

LEMMA SchemaKept ==
    ASSUME NEW p \in Processes, Works(p)
    PROVE  \/ schema' = schema
           \/ LatestInTransaction(p)
           \/ process[p].stage \in Applying
<1>1. ASSUME NEW m \in Migrations, Applies(p, m) PROVE process[p].stage \in Applying
  BY <1>1, StagesAre DEF Applies, AddIfMissing, DropForeignKey, CreateIndex, Record, At
<1>2. CASE Plan(p) \/ Backup(p) \/ NothingPending(p) \/ Adopt(p) \/ CopyLegacy(p)
  BY <1>2 DEF Plan, Backup, NothingPending, Adopt, CopyLegacy, database_vars
<1>3. CASE LatestByStatements(p) \/ LatestDone(p)
  BY <1>3 DEF LatestByStatements, LatestDone
<1>4. CASE RestoreForeignKey(p)
  BY <1>4, StagesAre DEF RestoreForeignKey, At
<1> QED
  BY <1>1, <1>2, <1>3, <1>4 DEF Works

LEMMA TablesKept ==
    ASSUME NEW p \in Processes, Works(p), "tables" \in schema
    PROVE  "tables" \in schema'
<1>1. ASSUME NEW m \in Migrations, Applies(p, m) PROVE "tables" \in schema'
  BY <1>1 DEF Applies, AddIfMissing, DropForeignKey, CreateIndex, Record
<1>2. CASE LatestInTransaction(p)
  BY <1>2 DEF LatestInTransaction
<1>3. CASE Plan(p) \/ Backup(p) \/ NothingPending(p) \/ Adopt(p) \/ CopyLegacy(p)
  BY <1>3 DEF Plan, Backup, NothingPending, Adopt, CopyLegacy, database_vars
<1>4. CASE LatestByStatements(p) \/ LatestDone(p) \/ RestoreForeignKey(p)
  BY <1>4 DEF LatestByStatements, LatestDone, RestoreForeignKey
<1> QED
  BY <1>1, <1>2, <1>3, <1>4 DEF Works

LEMMA PreparedNext == TypeOK /\ Prepared /\ [Next]_vars => Prepared'
<1> SUFFICES ASSUME TypeOK, Prepared, [Next]_vars PROVE Prepared'
  OBVIOUS
<1>0. /\ Secured => Secured'
      /\ Copied => Copied'
      /\ Effective = Migrations => Effective' = Migrations
      /\ Pending = {} => Pending' = {}
      /\ UNCHANGED <<original, legacy>>
  BY PreparationStays
<1>1. ASSUME NEW q \in Processes, process'[q] = process[q] PROVE PreparedAt(q)'
  <2>1. PreparedAt(q)
    BY DEF Prepared
  <2>2. Settled(q)' <=> Settled(q)
    BY <1>1 DEF Settled, Serves, At
  <2> QED
    BY <1>0, <1>1, <2>1, <2>2 DEF PreparedAt
<1>2. CASE Aside
  <2>1. \A q \in Processes : PreparedAt(q)'
    BY <1>1, <1>2 DEF Aside
  <2> QED
    BY <1>0, <1>2, <2>1 DEF Prepared, Aside
<1>3. ASSUME NEW p \in Processes, Quiet(p) PROVE Prepared'
  <2>1. PreparedAt(p)'
    <3>1. CASE process'[p].stage \in Harmless \/ process'[p].stage = "done"
      BY <3>1, StagesAre DEF PreparedAt, Settled, Serves, At, Harmless
    <3>2. CASE process[p].stage \in {"release", "build", "listen"}
               /\ process'[p].stage \in {"build", "listen", "hung", "serving"}
      <4>1. Pending = {}
        BY <3>2 DEF Prepared, PreparedAt, Settled, Serves, At
      <4> QED
        BY <1>0, <3>2, <4>1, StagesAre DEF PreparedAt, Settled, Serves, At
    <3> QED
      BY <1>3, <3>1, <3>2 DEF Quiet
  <2>2. \A q \in Processes : PreparedAt(q)'
    BY <1>1, <1>3, <2>1 DEF Quiet, Others
  <2> QED
    BY <1>0, <1>3, <2>2 DEF Prepared, Quiet
<1>4. ASSUME NEW p \in Processes, Works(p) PROVE Prepared'
  <2>1. PreparedAt(p)'
    <3> USE DEF At
    <3>1. CASE Plan(p)
      <4>1. process'[p].stage = "backup" \/ (process'[p].stage = "adopt" /\ ~RequiresBackup)
        BY <3>1, GoToIs, StagesAre DEF Plan
      <4>2. ~RequiresBackup => Secured \/ Effective = Migrations
        <5>1. ASSUME Migrations \ Applied = {} PROVE Effective = Migrations
          BY <5>1, MigrationsAre DEF Applied, Effective, Recorded, TypeOK
        <5>2. ASSUME "tables" \notin schema PROVE Secured
          BY <5>2 DEF Prepared, Secured
        <5> QED
          BY <5>1, <5>2 DEF RequiresBackup
      <4> QED
        BY <1>0, <4>1, <4>2, StagesAre DEF PreparedAt, Settled, Serves
    <3>2. CASE Backup(p)
      <4>1. process'[p].stage = "adopt"
        BY <3>2, GoToIs, StagesAre DEF Backup
      <4>2. backedUp' \/ schema # original
        BY <3>2, Zenon DEF Backup
      <4>3. Secured'
        BY <1>0, <4>2 DEF Prepared, Secured
      <4> QED
        BY <4>1, <4>3, StagesAre DEF PreparedAt, Settled, Serves
    <3>3. CASE Adopt(p)
      <4>1. process'[p].stage = "copy" /\ process[p].stage = "adopt"
        BY <3>3, GoToIs, StagesAre DEF Adopt
      <4>2. Secured \/ Effective = Migrations
        BY <4>1 DEF Prepared, PreparedAt
      <4> QED
        BY <1>0, <4>1, <4>2, StagesAre DEF PreparedAt, Settled, Serves
    <3>4. CASE CopyLegacy(p)
      <4>1. process'[p].stage = "latest" /\ process[p].stage = "copy"
        BY <3>4, GoToIs, StagesAre DEF CopyLegacy
      <4>2. Secured \/ Effective = Migrations
        BY <4>1 DEF Prepared, PreparedAt
      <4>3. Copied'
        <5>1. CASE Recorded = {}
          <6>1. history' = legacy \cap Migrations
            BY <3>4, <5>1 DEF CopyLegacy
          <6>2. Recorded' = legacy \cap Migrations
            BY <6>1, NoTableAssumption DEF Recorded
          <6> QED
            BY <1>0, <6>2 DEF Copied
        <5>2. CASE Recorded # {}
          BY <1>0, <5>2 DEF Copied
        <5> QED
          BY <5>1, <5>2
      <4> QED
        BY <1>0, <4>1, <4>2, <4>3, StagesAre DEF PreparedAt, Settled, Serves
    <3>5. CASE NothingPending(p) \/ LatestDone(p)
      <4>1. process'[p].stage = "release" /\ Pending = {}
        BY <3>5, GoToIs, StagesAre DEF NothingPending, LatestDone
      <4> QED
        BY <1>0, <4>1, StagesAre DEF PreparedAt, Settled, Serves
    <3>6. CASE LatestInTransaction(p)
      <4>1. process'[p].stage = "release" /\ history' = Migrations
        BY <3>6, GoToIs, StagesAre DEF LatestInTransaction
      <4>2. Pending' = {}
        BY <4>1, NoTableAssumption DEF Pending, Recorded
      <4> QED
        BY <4>1, <4>2, StagesAre DEF PreparedAt, Settled, Serves
    <3>7. CASE LatestByStatements(p)
      <4>1. process'[p].stage \in {"unwind", "apply"}
        BY <3>7, LatestByStatementsIs
      <4>2. Secured /\ Copied
        BY <3>7, PendingIsSecured DEF LatestByStatements
      <4> QED
        BY <1>0, <4>1, <4>2, StagesAre DEF PreparedAt, Settled, Serves
    <3>8. ASSUME process[p].stage \in Applying, process'[p].stage \in Applying PROVE PreparedAt(p)'
      <4>1. Secured /\ Copied
        BY <3>8 DEF Prepared, PreparedAt
      <4> QED
        BY <1>0, <3>8, <4>1, StagesAre DEF PreparedAt, Settled, Serves
    <3>9. ASSUME NEW m \in Migrations, Applies(p, m) PROVE PreparedAt(p)'
      <4>1. process[p].stage \in Applying /\ process'[p].stage \in Applying
        BY <3>9, GoToIs, StatementIs, StagesAre
           DEF Applies, AddIfMissing, DropForeignKey, CreateIndex, Record
      <4> QED
        BY <3>8, <4>1
    <3>10. CASE RestoreForeignKey(p)
      BY <3>8, <3>10, RestoreIs, StagesAre
    <3> QED
      BY <1>4, <3>1, <3>2, <3>3, <3>4, <3>5, <3>6, <3>7, <3>9, <3>10 DEF Works
  <2>2. Others(p)
    BY <1>4, MigrateMoves DEF Works, Applies, Migrate
  <2>3. \A q \in Processes : PreparedAt(q)'
    BY <1>1, <2>1, <2>2 DEF Others
  <2>4. schema' # original => Secured'
    <3>1. CASE schema' = schema
      BY <1>0, <3>1 DEF Prepared
    <3>2. CASE LatestInTransaction(p)
      BY <1>0, <3>2, PendingIsSecured DEF LatestInTransaction
    <3>3. CASE process[p].stage \in Applying
      BY <1>0, <3>3 DEF Prepared, PreparedAt
    <3> QED
      BY <1>4, <3>1, <3>2, <3>3, SchemaKept
  <2>5. "tables" \in original => "tables" \in schema'
    BY <1>4, TablesKept DEF Prepared
  <2> QED
    BY <1>0, <2>3, <2>4, <2>5 DEF Prepared
<1> QED
  BY <1>2, <1>3, <1>4, QuietOrWorks

-----------------------------------------------------------------------------
(* What the migrations make *)

LEMMA OrderInjective ==
    ASSUME NEW i \in 1..7, NEW j \in 1..7, Order[i] = Order[j]
    PROVE  i = j
BY OrderIs

LEMMA OrderInMigrations == \A i \in 1..7 : Order[i] \in Migrations
BY DEF Migrations

\* A foreign key that is missed is being replaced by the last repair.
LEMMA ReplacesLast ==
    ASSUME TypeOK, Prepared, Sound, Progress, NEW p \in Processes, Replacing(p),
           "finalizeParity" \in Effective
    PROVE  IsCurrent("verifyIndexes")
<1>1. Copied
  BY StagesAre DEF Prepared, PreparedAt, Replacing
<1>2. Effective = Recorded
  BY <1>1 DEF Effective, Copied
<1>3. "normalize" \in Recorded
  <2>1. \A i \in 1..7 : Order[i] \in Recorded => \A j \in 1..i : Order[j] \in Recorded
    BY <1>2 DEF Sound, InOrder
  <2>2. Order[4] \in Recorded
    BY <1>2, OrderIs
  <2>3. Order[3] \in Recorded
    BY <2>1, <2>2
  <2> QED
    BY <2>3, OrderIs
<1>4. PICK m \in Migrations : InMigration(p, m) /\ Statement(p, m) \in {"keyIndex", "tagIndex"}
  BY DEF Progress, ProgressAt, ReplacesAt
<1>5. m \in {"normalize", "verifyIndexes"}
  BY <1>4, StatementOf, IndexMakers DEF Statement
<1>6. m \notin Recorded
  BY <1>4, CurrentIs DEF InMigration
<1> QED
  BY <1>3, <1>4, <1>5, <1>6 DEF InMigration

LEMMA OrderNext ==
    ASSUME TypeOK, Prepared, Sound, [Next]_vars
    PROVE  InOrder(Effective)'
<1> USE DEF InOrder
<1>1. CASE Effective' = Effective
  BY <1>1 DEF Sound
<1>2. CASE Effective' = Migrations
  BY <1>2, OrderInMigrations
<1>3. ASSUME NEW p \in Processes, NEW m \in Migrations, Record(p, m), Effective' = Effective \cup {m}
      PROVE  InOrder(Effective)'
  <2>1. Copied
    BY <1>3, StagesAre DEF Record, At, Prepared, PreparedAt
  <2>2. Effective = Recorded
    BY <2>1 DEF Effective, Copied
  <2>3. PICK i \in 1..7 : m = Order[i] /\ \A j \in 1..(i - 1) : Order[j] \in Recorded
    BY <1>3 DEF Record, IsCurrent
  <2>4. ASSUME NEW k \in 1..7, Order[k] \in Effective', NEW j \in 1..k PROVE Order[j] \in Effective'
    <3>1. CASE Order[k] \in Effective
      BY <1>3, <3>1 DEF Sound
    <3>2. CASE Order[k] = m
      <4>1. k = i
        BY <2>3, <3>2, OrderInjective
      <4>2. j = i \/ j \in 1..(i - 1)
        BY <4>1
      <4> QED
        BY <1>3, <2>2, <2>3, <4>2
    <3> QED
      BY <1>3, <2>4, <3>1, <3>2
  <2> QED
    BY <2>4
<1> QED
  BY <1>1, <1>2, <1>3, EffectiveSteps

\* A feature of what is migrated is there, or is the key that is missed.
Present(f) == f \in schema \/ (f = "parity" /\ (lost \/ \E p \in Processes : Replacing(p)))

LEMMA SoundNext == TypeOK /\ Prepared /\ Sound /\ Progress /\ [Next]_vars => Sound'
<1> SUFFICES ASSUME TypeOK, Prepared, Sound, Progress, [Next]_vars PROVE Sound'
  OBVIOUS
<1>0. \A m \in Effective : \A f \in Makes(m) : Present(f)
  BY DEF Sound, Present
<1>1. ASSUME Effective' = Effective, \A f \in Features : Present(f) => Present(f)'
      PROVE  \A m \in Effective' : \A f \in Makes(m) : Present(f)'
  <2>1. Effective \subseteq Migrations
    BY RecordedTyped DEF Effective
  <2> QED
    BY <1>0, <1>1, <2>1, FeaturesAre
<1>2. CASE Aside
  <2>1. Effective' = Effective
    BY <1>2 DEF Aside, Effective, Recorded
  <2>2. \A f \in Features : Present(f) => Present(f)'
    BY <1>2 DEF Aside, Present, Replacing
  <2> QED
    BY <1>1, <2>1, <2>2, OrderNext DEF Sound, Present
<1>3. ASSUME NEW p \in Processes, Quiet(p) PROVE Sound'
  <2>1. Effective' = Effective
    BY <1>3 DEF Quiet, Effective, Recorded
  <2>2. \A m \in Effective : \A f \in Makes(m) : Present(f)'
    <3> SUFFICES ASSUME NEW m \in Effective, NEW f \in Makes(m), f \notin schema PROVE Present(f)'
      BY <1>3 DEF Quiet, Present
    <3>1. m \in Migrations
      BY RecordedTyped DEF Effective
    <3>2. f = "parity" /\ m = "finalizeParity"
      BY <1>0, <3>1, ParityMaker DEF Present
    <3>3. CASE lost
      BY <1>3, <3>2, <3>3 DEF Quiet, Present
    <3>4. ASSUME NEW q \in Processes, Replacing(q) PROVE Present(f)'
      <4>1. CASE q = p
        BY <1>3, <3>2, <3>4, <4>1, ReplacesLast DEF Quiet, Present
      <4>2. CASE q # p
        BY <1>3, <3>2, <3>4, <4>2 DEF Quiet, Others, Present, Replacing
      <4> QED
        BY <4>1, <4>2
    <3> QED
      BY <1>0, <3>3, <3>4 DEF Present
  <2> QED
    BY <2>1, <2>2, OrderNext DEF Sound, Present
<1>4. ASSUME NEW p \in Processes, Works(p) PROVE Sound'
  <2>0. Others(p)
    BY <1>4, MigrateMoves DEF Works, Applies, Migrate
  <2>1. ASSUME lost' = lost, schema \subseteq schema',
               Replacing(p) => Replacing(p)' \/ "parity" \in schema'
        PROVE  \A f \in Features : Present(f) => Present(f)'
    BY <2>0, <2>1 DEF Present, Others, Replacing
  <2>2. ASSUME lost' = lost, schema \subseteq schema', history' = history, legacy' = legacy,
               Replacing(p) => Replacing(p)' \/ "parity" \in schema'
        PROVE  Sound'
    <3>1. Effective' = Effective
      BY <2>2 DEF Effective, Recorded
    <3> QED
      BY <1>1, <2>1, <2>2, <3>1, OrderNext DEF Sound, Present
  <2>3. CASE Adopt(p) \/ CopyLegacy(p)
    <3>1. lost' = lost /\ schema' = schema /\ ~Replacing(p)
      BY <2>3 DEF Adopt, CopyLegacy, Replacing, At
    <3>2. Effective' = Effective
      <4>1. ~LatestInTransaction(p) /\ \A m \in Migrations : ~Record(p, m)
        BY <2>3 DEF Adopt, CopyLegacy, LatestInTransaction, Record, At
      <4>2. CASE Adopt(p)
        <5>1. Recorded' = Recorded /\ legacy' = legacy
          BY <4>2, RecordedTyped, NoTableAssumption DEF Adopt, Recorded
        <5> QED
          BY <5>1 DEF Effective
      <4>3. CASE CopyLegacy(p)
        <5>1. CASE Recorded = {}
          <6>1. history' = legacy \cap Migrations /\ legacy' = legacy
            BY <4>3, <5>1 DEF CopyLegacy
          <6>2. Recorded' = legacy \cap Migrations
            BY <6>1, NoTableAssumption DEF Recorded
          <6> QED
            BY <5>1, <6>1, <6>2 DEF Effective
        <5>2. CASE Recorded # {}
          BY <4>3, <5>2 DEF CopyLegacy, Effective, Recorded
        <5> QED
          BY <5>1, <5>2
      <4> QED
        BY <2>3, <4>2, <4>3
    <3> QED
      BY <1>1, <2>1, <3>1, <3>2, OrderNext DEF Sound, Present
  <2>4. CASE Plan(p) \/ Backup(p) \/ NothingPending(p)
    BY <2>2, <2>4 DEF Plan, Backup, NothingPending, database_vars, Replacing, At
  <2>5. CASE LatestByStatements(p) \/ LatestDone(p)
    BY <2>2, <2>5 DEF LatestByStatements, LatestDone, Replacing, At
  <2>6. CASE RestoreForeignKey(p)
    BY <2>2, <2>6 DEF RestoreForeignKey
  <2>7. CASE LatestInTransaction(p)
    <3>1. /\ schema' = schema \cup UNION {Made(f) : f \in UNION {Makes(m) : m \in Pending}}
          /\ lost' = lost /\ ~Replacing(p)
      BY <2>7 DEF LatestInTransaction, Replacing, At
    <3>2. ASSUME NEW m \in Migrations, NEW f \in Makes(m) PROVE Present(f)'
      <4>1. f \in Features
        BY FeaturesAre
      <4>2. CASE m \in Recorded
        <5>1. Present(f)
          BY <1>0, <4>2 DEF Effective
        <5> QED
          BY <2>1, <3>1, <4>1, <5>1
      <4>3. CASE m \in Pending
        <5>1. f \in schema'
          BY <3>1, <4>1, <4>3, MadeFeatures
        <5> QED
          BY <5>1 DEF Present
      <4> QED
        BY <4>2, <4>3 DEF Pending
    <3>3. Effective' \subseteq Migrations
      BY TypeNext, RecordedTyped DEF Effective, Recorded, TypeOK
    <3> QED
      BY <3>2, <3>3, OrderNext DEF Sound, Present
  <2>8. ASSUME NEW m \in Migrations, Applies(p, m) PROVE Sound'
    <3>1. CASE AddIfMissing(p, m)
      BY <2>2, <3>1 DEF AddIfMissing, Replacing, At
    <3>2. CASE DropForeignKey(p, m)
      <4>1. Replacing(p)'
        BY <3>2, GoToIs, StagesAre DEF DropForeignKey, Replacing
      <4>2. schema' = schema \ {"parity"} /\ lost' = lost /\ ~Replacing(p)
        BY <3>2 DEF DropForeignKey, Replacing, At
      <4>3. \A f \in Features : Present(f) => Present(f)'
        BY <4>1, <4>2 DEF Present
      <4>4. Effective' = Effective
        BY <3>2 DEF DropForeignKey, Effective, Recorded
      <4> QED
        BY <1>1, <4>3, <4>4, OrderNext DEF Sound, Present
    <3>3. CASE CreateIndex(p, m)
      <4>1. Replacing(p)'
        BY <3>3, GoToIs, StagesAre DEF CreateIndex, Replacing
      <4> QED
        BY <2>2, <3>3, <4>1 DEF CreateIndex
    <3>4. CASE Record(p, m)
      <4>1. lost' = lost /\ schema' = schema /\ ~Replacing(p)
        BY <3>4 DEF Record, Replacing, At
      <4>2. \A f \in Makes(m) : f \in schema
        <5>1. IsCurrent(m) /\ process[p].at > Len(Statements(m)) /\ process[p].stage \in Applying
          BY <3>4, StagesAre DEF Record, At
        <5>2. \A i \in 1..Len(Statements(m)) : Statements(m)[i] \in schema
          <6>1. process[p].at \in Nat /\ Len(Statements(m)) \in Nat
            BY StatementsShape DEF TypeOK, ProcessState
          <6> QED
            BY <5>1, <6>1 DEF Progress, ProgressAt, DoneAt
        <5> QED
          BY <5>2 DEF Makes
      <4>3. Effective' = Effective \cup {m}
        <5>1. Copied
          BY <3>4, StagesAre DEF Record, At, Prepared, PreparedAt
        <5>2. history' = Recorded \cup {m} /\ history' \subseteq Migrations
          BY <3>4, RecordedTyped DEF Record
        <5>3. Recorded' = Recorded \cup {m}
          BY <5>2, NoTableAssumption DEF Recorded
        <5> QED
          BY <5>1, <5>3 DEF Copied, Effective
      <4>4. \A f \in Features : Present(f) => Present(f)'
        BY <2>1, <4>1
      <4>5. \A n \in Effective' : \A f \in Makes(n) : Present(f)'
        <5>1. Effective \subseteq Migrations
          BY RecordedTyped DEF Effective
        <5>2. \A f \in Makes(m) : Present(f)'
          BY <4>1, <4>2 DEF Present
        <5>3. \A n \in Effective : \A f \in Makes(n) : Present(f)'
          BY <1>0, <4>4, <5>1, FeaturesAre
        <5> QED
          BY <4>3, <5>2, <5>3
      <4> QED
        BY <4>5, OrderNext DEF Sound, Present
    <3> QED
      BY <2>8, <3>1, <3>2, <3>3, <3>4 DEF Applies
  <2> QED
    BY <1>4, <2>3, <2>4, <2>5, <2>6, <2>7, <2>8 DEF Works
<1> QED
  BY <1>2, <1>3, <1>4, QuietOrWorks

-----------------------------------------------------------------------------
(* How far a process has come *)

\* Beside a process that applies migrations the others leave the schema and the
\* records alone.
LEMMA OthersWait ==
    ASSUME TypeOK, Copied, database = "mysql", NEW p \in Processes, Works(p),
           process[p].stage \notin Applying
    PROVE  schema' = schema /\ Recorded' = Recorded
<1>1. ASSUME NEW m \in Migrations, Applies(p, m) PROVE FALSE
  BY <1>1, StagesAre DEF Applies, AddIfMissing, DropForeignKey, CreateIndex, Record, At
<1>2. CASE Plan(p) \/ Backup(p) \/ NothingPending(p) \/ LatestByStatements(p)
  BY <1>2 DEF Plan, Backup, NothingPending, LatestByStatements, database_vars, Recorded
<1>3. CASE Adopt(p)
  BY <1>3, RecordedTyped DEF Adopt, Recorded
<1>4. CASE CopyLegacy(p)
  <2>1. CASE Recorded = {}
    BY <1>4, <2>1, NoTableAssumption DEF CopyLegacy, Recorded, Copied
  <2>2. CASE Recorded # {}
    BY <1>4, <2>2 DEF CopyLegacy, Recorded
  <2> QED
    BY <1>4, <2>1, <2>2 DEF CopyLegacy
<1>5. ~LatestInTransaction(p) /\ ~RestoreForeignKey(p) /\ ~LatestDone(p)
  BY StagesAre DEF LatestInTransaction, RestoreForeignKey, LatestDone, At
<1> QED
  BY <1>1, <1>2, <1>3, <1>4, <1>5 DEF Works

\* A process that stays where it is keeps what it has done, as long as the schema
\* and the records do.
LEMMA ProgressKept ==
    ASSUME NEW q \in Processes, ProgressAt(q), process'[q] = process[q],
           schema' = schema, Recorded' = Recorded
    PROVE  ProgressAt(q)'
<1>1. \A m \in Migrations : IsCurrent(m)' <=> IsCurrent(m)
  BY SameRecord
<1>2. DoneAt(q) => DoneAt(q)'
  BY <1>1 DEF DoneAt
<1>3. ReplacesAt(q) => ReplacesAt(q)'
  BY <1>1 DEF ReplacesAt, InMigration, Statement, At
<1> QED
  BY <1>2, <1>3 DEF ProgressAt, Replacing

\* One more statement of the migration has taken effect.
LEMMA ProgressAdvances ==
    ASSUME TypeOK, NEW p \in Processes, NEW m \in Migrations, InMigration(p, m), DoneAt(p),
           schema \subseteq schema', Statement(p, m) \in schema', Recorded' = Recorded,
           process'[p].stage = "apply", process'[p].at = process[p].at + 1
    PROVE  ProgressAt(p)'
<1>1. \A n \in Migrations : IsCurrent(n)' <=> IsCurrent(n)
  BY SameRecord
<1>2. process[p].at \in Nat
  BY DEF TypeOK, ProcessState
<1>3. ASSUME NEW n \in Migrations, IsCurrent(n)', NEW i \in 1..Len(Statements(n)), i < process[p].at + 1
      PROVE  Statements(n)[i] \in schema'
  <2>1. IsCurrent(n) /\ n = m
    BY <1>1, <1>3, CurrentIs DEF InMigration
  <2>2. Len(Statements(n)) \in Nat
    BY StatementsShape
  <2>3. i < process[p].at \/ i = process[p].at
    BY <1>2, <1>3, <2>2
  <2> QED
    BY <2>1, <2>3 DEF DoneAt, Statement
<1>4. DoneAt(p)'
  BY <1>3 DEF DoneAt
<1> QED
  BY <1>4 DEF ProgressAt, Replacing

LEMMA ProgressNext ==
    TypeOK /\ Latched /\ Prepared /\ Progress /\ [Next]_vars => Progress'
<1> SUFFICES ASSUME TypeOK, Latched, Prepared, Progress, [Next]_vars PROVE Progress'
  OBVIOUS
<1>1. CASE Aside
  BY <1>1, ProgressKept DEF Aside, Progress, Recorded
<1>2. ASSUME NEW p \in Processes, Quiet(p) PROVE Progress'
  <2>1. ProgressAt(p)'
    <3>1. process'[p].stage \notin Applying /\ ~Replacing(p)'
      BY <1>2, StagesAre DEF Quiet, Harmless, Replacing
    <3> QED
      BY <3>1 DEF ProgressAt
  <2>2. \A q \in Processes \ {p} : ProgressAt(q)'
    BY <1>2, ProgressKept DEF Quiet, Others, Progress, Recorded
  <2> QED
    BY <2>1, <2>2 DEF Progress
<1>3. ASSUME NEW p \in Processes, Works(p) PROVE Progress'
  <2>1. Others(p)
    BY <1>3, MigrateMoves DEF Works, Applies, Migrate
  <2>2. ASSUME NEW q \in Processes \ {p} PROVE ProgressAt(q)'
    <3>1. CASE process[q].stage \notin Applying
      <4>1. process'[q].stage \notin Applying /\ ~Replacing(q)'
        BY <2>1, <3>1, StagesAre DEF Others, Replacing
      <4> QED
        BY <4>1 DEF ProgressAt
    <3>2. CASE process[q].stage \in Applying
      <4>1. Copied /\ database = "mysql" /\ process[p].stage \notin Applying
        BY <3>2 DEF Latched, Prepared, PreparedAt
      <4>2. schema' = schema /\ Recorded' = Recorded
        BY <1>3, <4>1, OthersWait
      <4> QED
        BY <2>1, <4>2, ProgressKept DEF Others, Progress
    <3> QED
      BY <3>1, <3>2
  <2>3. ProgressAt(p)'
    <3>1. ASSUME process'[p].stage \notin Applying PROVE ProgressAt(p)'
      BY <3>1, StagesAre DEF ProgressAt, Replacing
    <3>2. ASSUME process'[p].stage = "apply", process'[p].at = 1 PROVE ProgressAt(p)'
      <4>1. DoneAt(p)'
        BY <3>2 DEF DoneAt
      <4> QED
        BY <3>2, <4>1 DEF ProgressAt, Replacing
    <3>3. CASE Plan(p) \/ Backup(p) \/ Adopt(p) \/ CopyLegacy(p) \/ NothingPending(p) \/ LatestInTransaction(p)
      BY <3>1, <3>3, GoToIs, StagesAre DEF Plan, Backup, Adopt, CopyLegacy, NothingPending, LatestInTransaction
    <3>4. CASE LatestByStatements(p)
      BY <3>1, <3>2, <3>4, LatestByStatementsIs, StagesAre
    <3>5. CASE LatestDone(p)
      BY <3>1, <3>5, GoToIs, StagesAre DEF LatestDone
    <3>6. CASE RestoreForeignKey(p)
      <4>1. process'[p].stage = "apply" /\ process'[p].at = process[p].at + 1 /\ process[p].stage = "restore"
        BY <3>6, RestoreIs DEF At
      <4>2. DoneAt(p) /\ ReplacesAt(p)
        BY <4>1, StagesAre DEF Progress, ProgressAt, Replacing
      <4>3. PICK m \in Migrations : InMigration(p, m) /\ Statement(p, m) \in schema
        BY <4>1, <4>2 DEF ReplacesAt, At
      <4>4. schema \subseteq schema' /\ Recorded' = Recorded
        BY <3>6 DEF RestoreForeignKey, Recorded
      <4> QED
        BY <4>1, <4>2, <4>3, <4>4, ProgressAdvances
    <3>7. ASSUME NEW m \in Migrations, Applies(p, m) PROVE ProgressAt(p)'
      <4>1. CASE AddIfMissing(p, m)
        <5>1. /\ InMigration(p, m) /\ process[p].stage = "apply"
              /\ schema' = schema \cup Made(Statement(p, m)) /\ Recorded' = Recorded
          BY <4>1 DEF AddIfMissing, At, Recorded
        <5>2. Statement(p, m) \in schema'
          BY <5>1, StatementOf, MadeFeatures
        <5>3. DoneAt(p)
          BY <5>1, StagesAre DEF Progress, ProgressAt
        <5>4. process'[p].stage = "apply" /\ process'[p].at = process[p].at + 1
          BY <4>1, StatementIs
        <5> QED
          BY <5>1, <5>2, <5>3, <5>4, ProgressAdvances
      <4>2. ASSUME DropForeignKey(p, m) \/ CreateIndex(p, m) PROVE ProgressAt(p)'
        <5>1. /\ InMigration(p, m) /\ process[p].stage \in Applying /\ Recorded' = Recorded
              /\ schema \ {"parity"} \subseteq schema'
          BY <4>2, StagesAre DEF DropForeignKey, CreateIndex, At, Recorded
        <5>2. /\ process'[p].stage \in {"index", "restore"} /\ process'[p].at = process[p].at
              /\ process'[p].stage = "restore" => CreateIndex(p, m)
          BY <4>2, GoToIs, StagesAre DEF DropForeignKey, CreateIndex
        <5>3. Statement(p, m) \in {"keyIndex", "tagIndex"}
          <6>1. CASE DropForeignKey(p, m)
            BY <6>1 DEF DropForeignKey, Dependent
          <6>2. CASE CreateIndex(p, m)
            <7>1. ReplacesAt(p)
              BY <6>2 DEF CreateIndex, At, Progress, ProgressAt, Replacing
            <7> QED
              BY <5>1, <7>1, CurrentIs DEF ReplacesAt, InMigration
          <6> QED
            BY <4>2, <6>1, <6>2
        <5>4. \A n \in Migrations : IsCurrent(n)' <=> IsCurrent(n)
          BY <5>1, SameRecord
        <5>5. DoneAt(p)'
          <6>1. ASSUME NEW n \in Migrations, IsCurrent(n)', NEW i \in 1..Len(Statements(n)), i < process[p].at
                PROVE  Statements(n)[i] \in schema'
            <7>1. IsCurrent(n) /\ n = m
              BY <5>1, <5>4, <6>1, CurrentIs DEF InMigration
            <7>2. n \in {"normalize", "verifyIndexes"}
              BY <5>1, <5>3, <7>1, StatementOf, IndexMakers DEF Statement
            <7>3. Statements(n)[i] # "parity"
              BY <7>2, IndexMakersKeepParity
            <7>4. Statements(n)[i] \in schema
              BY <5>1, <6>1, <7>1 DEF Progress, ProgressAt, DoneAt
            <7> QED
              BY <5>1, <7>3, <7>4
          <6> QED
            BY <5>2, <6>1 DEF DoneAt
        <5>6. ReplacesAt(p)'
          <6>1. InMigration(p, m)'
            BY <5>1, <5>2, <5>4 DEF InMigration
          <6>2. Statement(p, m)' = Statement(p, m)
            BY <5>2 DEF Statement
          <6>3. CreateIndex(p, m) => Statement(p, m) \in schema'
            BY DEF CreateIndex
          <6> QED
            BY <5>2, <5>3, <6>1, <6>2, <6>3 DEF ReplacesAt, At
        <5> QED
          BY <5>5, <5>6 DEF ProgressAt
      <4>3. CASE Record(p, m)
        BY <3>2, <4>3, StatementIs
      <4> QED
        BY <3>7, <4>1, <4>2, <4>3 DEF Applies
    <3> QED
      BY <1>3, <3>3, <3>4, <3>5, <3>6, <3>7 DEF Works
  <2> QED
    BY <2>2, <2>3 DEF Progress
<1> QED
  BY <1>1, <1>2, <1>3, QuietOrWorks

-----------------------------------------------------------------------------
(* The scripts and the processes they start *)

\* A process that goes on by itself keeps its kind until it ends, and a serving
\* one only ever ends.
LEMMA RunningIs ==
    ASSUME TypeOK, Kinds, NEW p \in Processes, Running(p)
    PROVE  /\ Others(p) /\ process[p].kind # "none"
           /\ process'[p].kind \in {process[p].kind, "none"}
           /\ Serves(p) => process'[p].kind = "none"
           /\ UNCHANGED <<script, pidfile, loose>>
<1>0. Alive(p) => process[p].kind # "none"
  BY DEF Kinds
<1> USE StagesAre DEF Alive, Serves, At
<1>1. CASE Load(p) \/ Build(p) \/ Listen(p)
  <2>1. UNCHANGED <<script, pidfile, loose>>
    BY <1>1 DEF Load, Build, Listen
  <2>2. Life(p)
    BY <1>1 DEF Life
  <2> QED
    BY <1>0, <2>1, <2>2, LifeIs
<1>2. CASE Migrate(p) /\ UNCHANGED <<script, pidfile, loose>>
  BY <1>0, <1>2, MigrateMoves
<1>3. CASE CallFails(p) /\ UNCHANGED <<script, pidfile, loose>>
  <2>1. process[p].stage \in UnderLock
    BY <1>3 DEF CallFails
  <2> QED
    BY <1>0, <1>3, <2>1, FailsIs
<1>4. CASE Dies(p) /\ UNCHANGED <<script, pidfile, loose>>
  BY <1>0, <1>4, EndIs DEF Dies, Killed
<1> QED
  BY <1>1, <1>2, <1>3, <1>4 DEF Running

\* While a script waits for an answer no server of the old release is there, and
\* whoever serves is the server that the script has started.
LEMMA AnswerIsOwn ==
    ASSUME Kinds, Tracked, NEW s \in Scripts, script[s].step = "health", NEW p \in Processes, Serves(p)
    PROVE  process[p].kind # "old" /\ (~loose => p = script[s].own /\ pidfile = p)
<1>1. process[p].kind # "old"
  BY DEF Tracked, OldAlone
<1>2. process[p].kind = "api"
  BY <1>1 DEF Kinds
<1> QED
  BY <1>1, <1>2 DEF Tracked, Starting, Knows

\* Nothing is started, and no script passes the ports, beside a server of the old
\* release.
LEMMA OldAloneNext == TypeOK /\ Kinds /\ OldAlone /\ [Next]_vars => OldAlone'
<1> SUFFICES ASSUME TypeOK, Kinds, OldAlone, [Next]_vars,
                    NEW p \in Processes, process'[p].kind = "old"
             PROVE  /\ \A s \in Scripts : script'[s].step \in {"idle", "stop", "ports"}
                    /\ \A q \in Processes \ {p} : process'[q].kind = "none"
  BY DEF OldAlone
<1>1. ASSUME NEW q \in Processes, Others(q), process'[q].kind \in {process[q].kind, "none"},
             script' = script
      PROVE  /\ \A s \in Scripts : script'[s].step \in {"idle", "stop", "ports"}
             /\ \A r \in Processes \ {p} : process'[r].kind = "none"
  <2>1. process[p].kind = "old"
    BY <1>1 DEF Others
  <2> QED
    BY <1>1, <2>1 DEF Others, OldAlone
<1>2. ASSUME NEW s \in Scripts, OtherScripts(s), process[p].kind = "old",
             script'[s].step \in {"idle", "stop", "ports"},
             \A q \in Processes \ {p} : process'[q].kind \in {process[q].kind, "none"}
      PROVE  /\ \A other \in Scripts : script'[other].step \in {"idle", "stop", "ports"}
             /\ \A q \in Processes \ {p} : process'[q].kind = "none"
  BY <1>2 DEF OtherScripts, OldAlone
<1>3. ASSUME NEW s \in Scripts, process' = process,
             Run(s) \/ RequirePortsFree(s) \/ MigrationEnds(s)
      PROVE  script'[s].step \in {"idle", "stop", "ports"} /\ OtherScripts(s)
  <2>1. ~PortFree
    BY <1>3 DEF Kinds, PortFree
  <2> QED
    BY <1>3, <2>1, ScriptIs
<1>4. ASSUME NEW s \in Scripts, Scripted(s)
      PROVE  /\ \A other \in Scripts : script'[other].step \in {"idle", "stop", "ports"}
             /\ \A q \in Processes \ {p} : process'[q].kind = "none"
  <2>1. CASE Run(s) \/ RequirePortsFree(s) \/ MigrationEnds(s)
    <3>1. process' = process
      BY <2>1 DEF Run, RequirePortsFree, MigrationEnds, migration_vars
    <3> QED
      BY <1>2, <1>3, <2>1, <3>1
  <2>2. CASE StopPidFile(s)
    <3>1. script'[s].step \in {"ports", "idle"} /\ OtherScripts(s)
      BY <2>2, ScriptIs
    <3>2. CASE pidfile # NoOne /\ Alive(pidfile)
      <4>1. pidfile \in Processes /\ End(pidfile, "none")
        BY <2>2, <3>2 DEF StopPidFile, Killed, TypeOK
      <4>2. process'[pidfile].kind = "none" /\ Others(pidfile)
        BY <4>1, EndIs, StagesAre
      <4>3. \A q \in Processes : process'[q].kind \in {process[q].kind, "none"}
        BY <4>1, <4>2 DEF Others
      <4>4. process[p].kind = "old"
        BY <4>3
      <4> QED
        BY <1>2, <3>1, <4>3, <4>4
    <3>3. CASE ~(pidfile # NoOne /\ Alive(pidfile))
      <4>1. process' = process
        BY <2>2, <3>3 DEF StopPidFile, migration_vars
      <4> QED
        BY <1>2, <3>1, <4>1
    <3> QED
      BY <3>2, <3>3
  <2>3. CASE WritePidFile(s) \/ StillAlive(s) \/ Healthy(s) \/ NoAnswer(s)
    <3>1. process' = process /\ script[s].step \in {"record", "alive", "health"}
      BY <2>3 DEF WritePidFile, StillAlive, Healthy, NoAnswer, migration_vars
    <3> QED
      BY <3>1 DEF OldAlone
  <2>4. CASE Interrupt(s)
    <3>1. process' = process /\ script'[s].step = "idle" /\ OtherScripts(s)
      BY <2>4, WaitIs DEF Interrupt
    <3> QED
      BY <1>2, <3>1
  <2>5. ASSUME NEW q \in Processes, MigrateRelease(s, q) \/ Spawn(s, q) PROVE FALSE
    <3>1. process'[q].kind # "old" /\ Others(q) /\ script[s].step \in {"migrate", "spawn"}
      BY <2>5, StartIs DEF MigrateRelease, Spawn
    <3>2. process[p].kind = "old"
      BY <3>1 DEF Others
    <3> QED
      BY <3>1, <3>2 DEF OldAlone
  <2> QED
    BY <1>4, <2>1, <2>2, <2>3, <2>4, <2>5 DEF Scripted
<1>5. ASSUME NEW q \in Processes, MigrateByHand(q) \/ StartByHand(q) PROVE FALSE
  <2>1. process'[q].kind # "old" /\ Others(q)
    BY <1>5, StartIs DEF MigrateByHand, StartByHand
  <2>2. process[p].kind = "old" /\ Serves(p)
    BY <2>1 DEF Others, Kinds
  <2> QED
    BY <1>5, <2>2 DEF MigrateByHand, StartByHand, PortFree, OldServes
<1>6. ASSUME NEW q \in Processes, StopByHand(q) \/ Running(q)
      PROVE  Others(q) /\ process'[q].kind \in {process[q].kind, "none"} /\ script' = script
  BY <1>6, RunningIs, EndIs, StagesAre DEF StopByHand
<1>7. CASE process' = process /\ script' = script
  BY <1>7 DEF OldAlone
<1>8. (Unlock /\ UNCHANGED <<script, pidfile, loose>>) \/ UNCHANGED vars => process' = process /\ script' = script
  BY DEF Unlock, vars, migration_vars
<1> QED
  BY <1>1, <1>4, <1>5, <1>6, <1>7, <1>8 DEF Next

\* The scripts that start an API, and the APIs, as Tracked relates them.
Lone == \A s, other \in Scripts : Starting(s) /\ Starting(other) => s = other
Known(p) ==
    /\ \A s \in Scripts : Starting(s) => Knows(s, p)
    /\ (\A s \in Scripts : ~Starting(s)) => Serves(p) /\ pidfile = p

\* As long as the scripts and the PID file stay as they are, processes may end.
LEMMA KnownStays ==
    ASSUME NEW p \in Processes, Known(p), Serves(p) => Serves(p)',
           UNCHANGED <<script, pidfile>>
    PROVE  Known(p)'
BY DEF Known, Knows, Starting

\* A script that starts no API may go on to another step of the kind.
LEMMA KnownBeside ==
    ASSUME NEW s \in Scripts, OtherScripts(s), ~Starting(s), ~Starting(s)', pidfile' = pidfile,
           NEW p \in Processes, Known(p), Serves(p) => Serves(p)'
    PROVE  Known(p)'
BY DEF Known, Knows, Starting, OtherScripts

LEMMA LoneStays ==
    ASSUME NEW s \in Scripts, OtherScripts(s), Lone, Starting(s)' => Starting(s)
    PROVE  Lone'
BY DEF Lone, Starting, OtherScripts

\* The script that starts an API is the only one to do so.
LEMMA KnownAlone ==
    ASSUME NEW s \in Scripts, Lone', Starting(s)', NEW p \in Processes, Knows(s, p)'
    PROVE  Known(p)'
BY DEF Lone, Known

\* What Tracked says but for OldAlone.
TrackedHere == ~loose => Lone /\ \A p \in Processes : process[p].kind = "api" => Known(p)

LEMMA ScriptTracks ==
    ASSUME TypeOK, Kinds, OldAlone, TrackedHere, NEW s \in Scripts, Scripted(s)
    PROVE  TrackedHere'
<1> SUFFICES ASSUME ~loose' PROVE Lone' /\ \A p \in Processes : process'[p].kind = "api" => Known(p)'
  BY DEF TrackedHere
<1> USE StepsAre
<1>1. CASE Run(s) \/ MigrationEnds(s)
  <2>1. /\ loose' = loose /\ pidfile' = pidfile /\ process' = process /\ ~Starting(s)
    BY <1>1 DEF Run, MigrationEnds, migration_vars, Starting
  <2>2. OtherScripts(s) /\ ~Starting(s)'
    BY <1>1, ScriptIs DEF Starting
  <2>3. \A p \in Processes : Serves(p) => Serves(p)'
    BY <2>1 DEF Serves, At
  <2> QED
    BY <2>1, <2>2, <2>3, LoneStays, KnownBeside DEF TrackedHere
<1>2. CASE StopPidFile(s)
  <2>1. /\ script[s].step \in {"stop", "cleanup"} /\ pidfile' = NoOne /\ loose' = loose
        /\ OtherScripts(s) /\ ~Starting(s)'
    BY <1>2, ScriptIs DEF StopPidFile, Starting
  <2>2. Lone'
    BY <2>1, LoneStays DEF TrackedHere
  <2>3. ASSUME NEW p \in Processes, process'[p].kind = "api"
        PROVE  process[p].kind = "api" /\ pidfile # p
    <3>1. CASE pidfile # NoOne /\ Alive(pidfile)
      <4>1. pidfile \in Processes /\ End(pidfile, "none")
        BY <1>2, <3>1 DEF StopPidFile, Killed, TypeOK
      <4>2. process'[pidfile].kind = "none" /\ Others(pidfile)
        BY <4>1, EndIs, StagesAre
      <4> QED
        BY <2>3, <4>1, <4>2 DEF Others
    <3>2. CASE ~(pidfile # NoOne /\ Alive(pidfile))
      <4>1. process' = process
        BY <1>2, <3>2 DEF StopPidFile, migration_vars
      <4> QED
        BY <2>3, <3>2, <4>1, ProcessesAssumption DEF Kinds
    <3> QED
      BY <3>1, <3>2
  <2>4. ASSUME NEW p \in Processes, process'[p].kind = "api" PROVE Known(p)'
    <3>1. Known(p) /\ pidfile # p
      BY <2>1, <2>3, <2>4 DEF TrackedHere
    <3>2. PICK other \in Scripts : Starting(other)
      BY <3>1 DEF Known
    <3>3. script[other].step = "record" /\ script[other].own = p
      BY <3>1, <3>2 DEF Known, Knows, Starting
    <3>4. other # s /\ script'[other] = script[other]
      BY <2>1, <3>3 DEF OtherScripts
    <3>5. Starting(other)' /\ Knows(other, p)'
      BY <3>3, <3>4 DEF Starting, Knows
    <3> QED
      BY <2>2, <3>5, KnownAlone
  <2> QED
    BY <2>2, <2>4
<1>3. CASE RequirePortsFree(s)
  <2>1. /\ script[s].step = "ports" /\ UNCHANGED <<process, pidfile>>
        /\ OtherScripts(s) /\ ~Starting(s)
        /\ \/ script'[s].step = "idle"
           \/ PortFree /\ script'[s].step \in {"migrate", "spawn"}
    BY <1>3, ScriptIs DEF RequirePortsFree, migration_vars, Starting
  <2>2. ~loose /\ (Starting(s)' => \A other \in Scripts \ {s} : ~Starting(other))
    BY <1>3, Zenon DEF RequirePortsFree
  <2>3. \A p \in Processes : Serves(p) => Serves(p)'
    BY <2>1 DEF Serves, At
  <2>4. CASE ~Starting(s)'
    BY <2>1, <2>2, <2>3, <2>4, LoneStays, KnownBeside DEF TrackedHere
  <2>5. CASE Starting(s)'
    <3>1. PortFree /\ \A other \in Scripts : ~Starting(other)
      BY <2>1, <2>2, <2>5 DEF Starting
    <3>2. Lone'
      BY <2>1, <3>1 DEF Lone, Starting, OtherScripts
    <3>3. \A p \in Processes : process[p].kind # "api"
      BY <2>2, <3>1 DEF TrackedHere, Known, PortFree
    <3> QED
      BY <2>1, <3>2, <3>3
  <2> QED
    BY <2>4, <2>5
<1>4. CASE WritePidFile(s)
  <2>1. /\ script[s].step = "record" /\ pidfile' = script[s].own /\ UNCHANGED <<process, loose>>
        /\ script'[s].step = "alive" /\ script'[s].own = script[s].own /\ OtherScripts(s)
    BY <1>4, WaitIs DEF WritePidFile, migration_vars
  <2>2. Starting(s) /\ Starting(s)'
    BY <2>1 DEF Starting
  <2>3. Lone'
    BY <2>1, <2>2, LoneStays DEF TrackedHere
  <2>4. ASSUME NEW p \in Processes, process[p].kind = "api" PROVE Knows(s, p)'
    BY <2>1, <2>2, <2>4 DEF TrackedHere, Known, Knows
  <2> QED
    BY <2>1, <2>2, <2>3, <2>4, KnownAlone
<1>5. CASE StillAlive(s) \/ NoAnswer(s)
  <2>1. /\ script[s].step \in {"alive", "health"} /\ UNCHANGED <<process, loose, pidfile>> /\ OtherScripts(s)
        /\ \/ script'[s].step \in {"alive", "health"} /\ script'[s].own = script[s].own
           \/ script'[s].step = "cleanup"
    BY <1>5, WaitIs DEF StillAlive, NoAnswer, migration_vars
  <2>2. Starting(s) /\ Starting(s)'
    BY <2>1 DEF Starting
  <2>3. Lone'
    BY <2>1, <2>2, LoneStays DEF TrackedHere
  <2>4. ASSUME NEW p \in Processes, process[p].kind = "api" PROVE Knows(s, p)'
    BY <2>1, <2>2, <2>4 DEF TrackedHere, Known, Knows
  <2> QED
    BY <2>1, <2>2, <2>3, <2>4, KnownAlone
<1>6. CASE Healthy(s)
  <2>1. /\ script[s].step = "health" /\ UNCHANGED <<process, loose, pidfile>> /\ OtherScripts(s)
        /\ ~Starting(s)' /\ Starting(s)
    BY <1>6, WaitIs DEF Healthy, migration_vars, Starting
  <2>2. PICK q \in Processes : Serves(q)
    BY <1>6 DEF Healthy, PortFree
  <2>3. process[q].kind = "api"
    BY <2>1, <2>2 DEF Kinds, OldAlone
  <2>4. ASSUME NEW p \in Processes, process[p].kind = "api" PROVE p = script[s].own /\ pidfile = p
    BY <2>1, <2>4 DEF TrackedHere, Known, Knows
  <2>5. \A other \in Scripts : ~Starting(other)'
    BY <2>1 DEF TrackedHere, Lone, Starting, OtherScripts
  <2>6. ASSUME NEW p \in Processes, process[p].kind = "api" PROVE Serves(p)' /\ pidfile' = p
    BY <2>1, <2>2, <2>3, <2>4, <2>6 DEF Serves, At
  <2> QED
    BY <2>1, <2>5, <2>6 DEF Lone, Known
<1>7. CASE Interrupt(s)
  <2>1. /\ UNCHANGED <<process, pidfile>> /\ OtherScripts(s) /\ script'[s].step = "idle"
        /\ loose' = (loose \/ script[s].step \in {"record", "alive", "health", "cleanup"})
    BY <1>7, WaitIs DEF Interrupt
  <2>2. ~loose /\ script[s].step \notin {"record", "alive", "health", "cleanup"}
    BY <2>1, Zenon
  <2>3. \A p \in Processes : Serves(p) => Serves(p)'
    BY <2>1 DEF Serves, At
  <2>4. ~Starting(s)'
    BY <2>1 DEF Starting
  <2>5. CASE ~Starting(s)
    BY <2>1, <2>2, <2>3, <2>4, <2>5, LoneStays, KnownBeside DEF TrackedHere
  <2>6. CASE script[s].step = "spawn"
    <3>1. \A p \in Processes : process[p].kind # "api"
      BY <2>2, <2>6 DEF TrackedHere, Known, Knows, Starting
    <3> QED
      BY <2>1, <2>2, <2>4, <3>1, LoneStays DEF TrackedHere
  <2> QED
    BY <2>2, <2>5, <2>6 DEF Starting
<1>8. ASSUME NEW p \in Processes, MigrateRelease(s, p)
      PROVE  Lone' /\ \A q \in Processes : process'[q].kind = "api" => Known(q)'
  <2>1. /\ script[s].step = "migrate" /\ script'[s].step = "migrating" /\ OtherScripts(s)
        /\ UNCHANGED <<pidfile, loose>>
    BY <1>8, LaunchIs DEF MigrateRelease
  <2>2. process'[p].kind = "cli" /\ Others(p) /\ ~Starting(s) /\ ~Starting(s)'
    BY <1>8, <2>1, StartIs DEF MigrateRelease, Starting
  <2>3. ASSUME NEW q \in Processes, process'[q].kind = "api"
        PROVE  process[q].kind = "api" /\ (Serves(q) => Serves(q)')
    BY <2>2, <2>3 DEF Others, Serves, At
  <2> QED
    BY <2>1, <2>2, <2>3, LoneStays, KnownBeside DEF TrackedHere
<1>9. ASSUME NEW p \in Processes, Spawn(s, p)
      PROVE  Lone' /\ \A q \in Processes : process'[q].kind = "api" => Known(q)'
  <2>1. /\ script[s].step = "spawn" /\ script'[s].step = "record" /\ script'[s].own = p
        /\ OtherScripts(s) /\ UNCHANGED <<pidfile, loose>>
    BY <1>9, LaunchIs DEF Spawn
  <2>2. process'[p].kind = "api" /\ Others(p) /\ Starting(s) /\ Starting(s)'
    BY <1>9, <2>1, StartIs DEF Spawn, Starting
  <2>3. Lone'
    BY <2>1, <2>2, LoneStays DEF TrackedHere
  <2>4. ASSUME NEW q \in Processes, process'[q].kind = "api" PROVE q = p
    <3>1. ASSUME q # p PROVE FALSE
      <4>1. process[q].kind = "api"
        BY <2>2, <2>4, <3>1 DEF Others
      <4> QED
        BY <2>1, <2>2, <4>1 DEF TrackedHere, Known, Knows
    <3> QED
      BY <3>1
  <2>5. Knows(s, p)'
    BY <2>1 DEF Knows
  <2> QED
    BY <2>2, <2>3, <2>4, <2>5, KnownAlone
<1> QED
  BY <1>1, <1>2, <1>3, <1>4, <1>5, <1>6, <1>7, <1>8, <1>9 DEF Scripted

LEMMA TrackedNext == TypeOK /\ Kinds /\ Tracked /\ [Next]_vars => Tracked'
<1> SUFFICES ASSUME TypeOK, Kinds, Tracked, [Next]_vars PROVE Tracked'
  OBVIOUS
<1>1. Tracked => OldAlone /\ TrackedHere
  BY DEF Tracked, TrackedHere, Lone, Known
<1>2. OldAlone'
  BY <1>1, OldAloneNext
<1>3. ASSUME NEW p \in Processes, Running(p) \/ MigrateByHand(p) \/ StopByHand(p) PROVE TrackedHere'
  <2>1. UNCHANGED <<script, pidfile, loose>>
    BY <1>3, RunningIs DEF MigrateByHand, StopByHand
  <2>2. /\ Others(p)
        /\ process'[p].kind = "api" => process[p].kind = "api" /\ ~Serves(p)
    <3>1. CASE Running(p)
      BY <3>1, RunningIs
    <3>2. CASE MigrateByHand(p)
      BY <3>2, StartIs DEF MigrateByHand
    <3>3. CASE StopByHand(p)
      BY <3>3, EndIs, StagesAre DEF StopByHand
    <3> QED
      BY <1>3, <3>1, <3>2, <3>3
  <2>3. ASSUME NEW q \in Processes, process'[q].kind = "api"
        PROVE  process[q].kind = "api" /\ (Serves(q) => Serves(q)')
    BY <2>2, <2>3 DEF Others, Serves, At
  <2>4. Lone => Lone'
    BY <2>1 DEF Lone, Starting
  <2> QED
    BY <1>1, <2>1, <2>3, <2>4, KnownStays DEF TrackedHere
<1>4. ASSUME NEW p \in Processes, StartByHand(p) PROVE TrackedHere'
  BY <1>4 DEF StartByHand, TrackedHere
<1>5. ASSUME NEW s \in Scripts, Scripted(s) PROVE TrackedHere'
  BY <1>1, <1>5, ScriptTracks
<1>6. ASSUME process' = process, script' = script, pidfile' = pidfile, loose' = loose PROVE TrackedHere'
  <2>1. \A p \in Processes : Serves(p) => Serves(p)'
    BY <1>6 DEF Serves, At
  <2>2. Lone => Lone'
    BY <1>6 DEF Lone, Starting
  <2> QED
    BY <1>1, <1>6, <2>1, <2>2, KnownStays DEF TrackedHere
<1>7. TrackedHere'
  <2>1. CASE \E s \in Scripts : Scripted(s)
    BY <1>5, <2>1
  <2>2. CASE \E p \in Processes : MigrateByHand(p) \/ StartByHand(p) \/ StopByHand(p) \/ Running(p)
    BY <1>3, <1>4, <2>2
  <2>3. CASE Unlock /\ UNCHANGED <<script, pidfile, loose>>
    BY <1>6, <2>3 DEF Unlock
  <2>4. CASE UNCHANGED vars
    BY <1>6, <2>4 DEF vars, migration_vars
  <2> QED
    BY <2>1, <2>2, <2>3, <2>4 DEF Next
<1> QED
  BY <1>2, <1>7 DEF Tracked, TrackedHere, Lone, Known

-----------------------------------------------------------------------------
(* The invariant holds *)

LEMMA InvInit == Init => Inv
<1> SUFFICES ASSUME Init PROVE Inv
  OBVIOUS
<1>0. TypeOK
  BY TypeInit
<1>1. \A p \in Processes :
          \/ process[p].stage = "none" /\ process[p].kind = "none"
          \/ process[p].stage = "serving" /\ process[p].kind = "old"
  <2>1. CASE process = [p \in Processes |-> Process("none", "none")]
    BY <2>1 DEF Process
  <2>2. ASSUME NEW old \in Processes,
               process = [p \in Processes |-> IF p = old THEN Process("serving", "old")
                                                         ELSE Process("none", "none")]
        PROVE  \A p \in Processes : \/ process[p].stage = "none" /\ process[p].kind = "none"
                                    \/ process[p].stage = "serving" /\ process[p].kind = "old"
    BY <2>2 DEF Process
  <2> QED
    BY <2>1, <2>2 DEF Init
<1>2. \A p \in Processes : process[p].kind = "old" => \A q \in Processes \ {p} : process[q].kind = "none"
  <2>1. CASE process = [p \in Processes |-> Process("none", "none")]
    BY <2>1 DEF Process
  <2>2. ASSUME NEW old \in Processes,
               process = [p \in Processes |-> IF p = old THEN Process("serving", "old")
                                                         ELSE Process("none", "none")]
        PROVE  \A p \in Processes : process[p].kind = "old" => \A q \in Processes \ {p} : process[q].kind = "none"
    BY <2>2 DEF Process
  <2> QED
    BY <2>1, <2>2 DEF Init
<1>3. schema = original /\ \A s \in Scripts : script[s].step = "idle"
  BY DEF Init, Script
<1>4. Kinds
  BY <1>1 DEF Kinds, Alive, Ended, Serves, At
<1>5. Owned /\ Latched /\ Progress
  BY <1>1, StagesAre DEF Owned, Latched, Progress, ProgressAt, Replacing
<1>6. Prepared
  BY <1>1, <1>3, StagesAre DEF Prepared, PreparedAt, Settled, Serves, At
<1>7. Sound
  <2>1. PICK c \in Catalogs : schema = c.schema /\ history = c.history /\ legacy = c.legacy
    BY DEF Init
  <2>2. Effective = IF c.history \in {NoTable, {}} THEN c.legacy \cap Migrations ELSE c.history
    BY <2>1 DEF Effective, Recorded
  <2>3. InOrder(Effective) /\ UNION {Makes(m) : m \in Effective} \subseteq schema
    BY <2>1, <2>2, CatalogsAssumption
  <2> QED
    BY <2>3 DEF Sound
<1>8. Tracked
  BY <1>1, <1>2, <1>3 DEF Tracked, OldAlone, Starting
<1> QED
  BY <1>0, <1>4, <1>5, <1>6, <1>7, <1>8 DEF Inv

LEMMA InvNext == Inv /\ [Next]_vars => Inv'
BY TypeNext, KindsNext, OwnedNext, LatchedNext, PreparedNext, SoundNext, ProgressNext, TrackedNext
   DEF Inv

LEMMA Invariance == Spec => []Inv
BY InvInit, InvNext, PTL DEF Spec

-----------------------------------------------------------------------------
(* What it gives *)

\* While nothing is pending no process is in the middle of a migration.
LEMMA NothingReplaced ==
    ASSUME Inv, Pending = {}, NEW p \in Processes
    PROVE  ~Replacing(p) /\ \A m \in Migrations : ~IsCurrent(m)
BY CurrentIs DEF Inv, Progress, ProgressAt, ReplacesAt, InMigration

LEMMA InvServing == Inv => ServingIsMigrated
<1> SUFFICES ASSUME Inv, NEW p \in Processes, Settled(p)
             PROVE  Pending = {} /\ Features \ (IF lost THEN {"parity"} ELSE {}) \subseteq schema
  BY DEF ServingIsMigrated, Settled
<1>1. Pending = {}
  BY DEF Inv, Prepared, PreparedAt
<1>2. Effective = Migrations
  BY <1>1, RecordedTyped, MigrationsAre DEF Inv, Pending, Effective
<1>3. ASSUME NEW f \in Features PROVE f \in schema \/ (f = "parity" /\ lost)
  <2>1. PICK m \in Migrations : f \in Makes(m)
    BY DEF Features
  <2> QED
    BY <1>1, <1>2, <2>1, NothingReplaced DEF Inv, Sound
<1> QED
  BY <1>1, <1>3

\* No process past its migration, and no API server that serves, is behind the
\* schema: every migration is recorded and all that they make is there, but for
\* foreign keys if the last repair was broken off, after any number of failures,
\* deaths and retries at any statement (runCatalogMigrations, buildContainer).
THEOREM MigratedBeforeServing == Spec => []ServingIsMigrated
BY Invariance, InvServing, PTL

LEMMA InvOriginal == Inv => OriginalKept
BY Zenon DEF Inv, Prepared, Secured, OriginalKept

\* An existing catalog that differs from what the upgrade found was backed up as it
\* was found, however many attempts there were (runCatalogMigrations).
THEOREM BackedUpAsFound == Spec => []OriginalKept
BY Invariance, InvOriginal, PTL

\* The statement by statement work on the schema, and the transaction, need a
\* migration that is pending.
LEMMA ChangesPending ==
    ASSUME Inv, NEW p \in Processes, Works(p), schema' # schema
    PROVE  Pending # {} /\ process[p].stage \in UnderLock
<1> SUFFICES ASSUME Pending = {} PROVE FALSE
  <2>1. process[p].stage \in {"latest"} \cup Applying
    BY SchemaKept DEF LatestInTransaction, At
  <2> QED
    BY <2>1, StagesAre
<1>1. ~Replacing(p) /\ \A m \in Migrations : ~IsCurrent(m)
  BY NothingReplaced
<1>2. ASSUME NEW m \in Migrations, Applies(p, m) PROVE schema' = schema
  BY <1>1, <1>2 DEF Applies, AddIfMissing, DropForeignKey, CreateIndex, Record, InMigration
<1>3. ~RestoreForeignKey(p) /\ ~LatestInTransaction(p)
  BY <1>1 DEF RestoreForeignKey, LatestInTransaction, Replacing, At
<1>4. CASE Plan(p) \/ Backup(p) \/ NothingPending(p) \/ Adopt(p) \/ CopyLegacy(p)
  BY <1>4 DEF Plan, Backup, NothingPending, Adopt, CopyLegacy, database_vars
<1>5. CASE LatestByStatements(p) \/ LatestDone(p)
  BY <1>5 DEF LatestByStatements, LatestDone
<1> QED
  BY <1>2, <1>3, <1>4, <1>5 DEF Works

LEMMA QuiescedStep == Inv /\ [Next]_vars => [~PortFree => schema' = schema]_vars
<1> SUFFICES ASSUME Inv, [Next]_vars, ~PortFree, schema' # schema PROVE FALSE
  OBVIOUS
<1>1. PICK p \in Processes : Works(p)
  BY QuietOrWorks DEF Inv, Quiet, Aside
<1>2. Pending # {} /\ process[p].stage \in UnderLock
  BY <1>1, ChangesPending
<1>3. PICK q \in Processes : Serves(q)
  BY DEF PortFree
<1>4. q # p /\ process[p].kind # "none"
  BY <1>2, <1>3, StagesAre DEF Inv, Kinds, Alive, Serves, At
<1>5. CASE process[q].kind = "api"
  BY <1>2, <1>3, <1>5 DEF Inv, Prepared, PreparedAt, Settled
<1>6. CASE process[q].kind = "old"
  BY <1>4, <1>6 DEF Inv, Tracked, OldAlone
<1> QED
  BY <1>3, <1>5, <1>6 DEF Inv, Kinds

\* The schema never changes while a server serves: not under the release before,
\* which the scripts stop and whose absence they check first, and not under a new
\* one, which finds nothing left to do (restart-server.sh, install_and_start.sh).
THEOREM SchemaQuiesced == Spec => MigratesQuiesced
BY Invariance, QuiescedStep, PTL DEF Spec, MigratesQuiesced

LEMMA HealthyStep ==
    ASSUME Inv, [Next]_vars, NEW s \in Scripts, Healthy(s)
    PROVE  ~OldServes /\ (~loose => Serves(script[s].own))
<1>1. PICK q \in Processes : Serves(q)
  BY DEF Healthy, PortFree
<1>2. \A p \in Processes : Serves(p) => process[p].kind # "old" /\ (~loose => p = script[s].own)
  BY AnswerIsOwn DEF Inv, Healthy
<1> QED
  BY <1>1, <1>2 DEF OldServes

\* What a script reports as healthy is never the server of the release before.  It is
\* the server that this script has started, unless a script was cut off after it had
\* started one, an operator has started one by hand, or two scripts were starting
\* theirs at the same time: whoever answers is taken for it (wait_for_http), and
\* nothing keeps two scripts apart.
THEOREM HealthOfOwnServer == Spec => HealthyIsOwn
<1> DEFINE Kept == \A s \in Scripts : Healthy(s) =>
                      /\ ~OldServes
                      /\ ~loose => Serves(script[s].own)
<1>1. Inv /\ [Next]_vars => [Kept]_vars
  BY HealthyStep
<1>2. Spec => []Inv
  BY Invariance
<1> HIDE DEF Kept
<1>3. Spec => [][Kept]_vars
  BY <1>1, <1>2, PTL DEF Spec
<1> QED
  BY <1>3 DEF HealthyIsOwn, Kept

\* What knex_migrations says, or the legacy records before they are copied, is a
\* prefix of the migrations, and all that it says is in the schema, but for foreign
\* keys that are being replaced or were lost (adoptLegacyState, migrate.latest).
THEOREM RecordsAreTrue == Spec => []Sound
<1>1. Inv => Sound
  BY DEF Inv
<1> QED
  BY <1>1, Invariance, PTL

\* One process at a time under the cutover lock of MySQL.
OneUnderLock ==
    database = "mysql" =>
        \A p, q \in Processes :
            process[p].stage \in UnderLock /\ process[q].stage \in UnderLock => p = q

\* On MySQL nobody plans, backs up or migrates beside another process, through
\* deaths and lost waits (withCutoverLock); on SQLite a process that takes a lock
\* for abandoned may (removeStaleSqliteCutoverLock), and MigratedBeforeServing and
\* BackedUpAsFound hold all the same.
THEOREM LockExcludes == Spec => []OneUnderLock
<1>1. Inv => OneUnderLock
  BY DEF Inv, Owned, OneUnderLock
<1> QED
  BY <1>1, Invariance, PTL
=============================================================================
