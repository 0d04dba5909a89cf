------------------------ MODULE SkillRegistryProofs -------------------------
(***************************************************************************)
(* Theorems about SkillRegistry, and about SkillReading, which composes it *)
(* with the readers of the skill: for any number of handlers, versions,    *)
(* contents, paths and readers and for every policy.                       *)
(***************************************************************************)
EXTENDS SkillReading, WellFoundedInduction, TLAPS

-----------------------------------------------------------------------------
(* Type correctness *)

\* What a handler's stage says about the version and the command it carries.
WellPlaced(s) ==
    /\ s.stage \notin {"idle", "wipe", "refill", "reindex"} => s.version \in Versions
    /\ s.stage = "copy" /\ s.op = "update" => s.version - 1 \in Versions
    /\ s.stage \in {"save", "catalog", "audit"} => s.op \in Reviews \cup {"draft"}

TypeInv == StoresOK /\ \A h \in Handlers : WellPlaced(handler[h])

\* The values handlers start from have their shapes.
LEMMA InitialShapes ==
    /\ NoSkill \in Aggregate /\ Existing(NoSkill) = {}
    /\ Idle \in HandlerState /\ WellPlaced(Idle)
<1>1. NoSkill \in Aggregate /\ Existing(NoSkill) = {}
  BY DEF NoSkill, Aggregate, Existing
<1>2. 0 \in 0..MaxVersion
  BY RegistryAssumption
<1>3. Idle \in HandlerState
  BY <1>1, <1>2 DEF Idle, HandlerState, Stages
<1> QED
  BY <1>1, <1>3 DEF Idle, WellPlaced

\* A version in the aggregate is a record, and a record is never mistaken for
\* the absence of one.
LEMMA ExistingIsRecord ==
    ASSUME NEW A \in Aggregate, NEW v \in Versions
    PROVE  /\ v \in Existing(A) => A[v] \in VersionRecord
           /\ A[v] \in VersionRecord => v \in Existing(A)
BY NoVersionAssumption DEF Aggregate, Existing

\* Hydrating keeps the versions and their statuses.
LEMMA HydratedShape ==
    ASSUME NEW A \in Aggregate
    PROVE  /\ Hydrated(A) \in Aggregate
           /\ Existing(Hydrated(A)) = Existing(A)
           /\ \A v \in Existing(A) : Hydrated(A)[v].status = A[v].status
<1>1. ASSUME NEW v \in Versions, A[v] # NoVersion
      PROVE  /\ Hydrated(A)[v] \in VersionRecord
             /\ Hydrated(A)[v].status = A[v].status
  <2>1. A[v] \in VersionRecord
    BY <1>1 DEF Aggregate
  <2>2. [A[v] EXCEPT !.stamps = {}] \in VersionRecord
    BY <2>1 DEF VersionRecord
  <2>3. Hydrated(A)[v] = [A[v] EXCEPT !.stamps = {}]
    BY <1>1 DEF Hydrated
  <2> QED
    BY <2>1, <2>2, <2>3 DEF VersionRecord
<1>2. ASSUME NEW v \in Versions, A[v] = NoVersion PROVE Hydrated(A)[v] = NoVersion
  BY <1>2 DEF Hydrated
<1>3. Hydrated(A) \in Aggregate
  <2>1. \A v \in Versions : Hydrated(A)[v] \in VersionRecord \cup {NoVersion}
    BY <1>1, <1>2
  <2>2. Hydrated(A) = [v \in Versions |-> Hydrated(A)[v]]
    BY DEF Hydrated
  <2> QED
    BY <2>1, <2>2 DEF Aggregate
<1>4. Existing(Hydrated(A)) = Existing(A)
  BY <1>1, <1>2, NoVersionAssumption DEF Existing
<1> QED
  BY <1>1, <1>3, <1>4 DEF Existing

\* What a handler loads is an aggregate, from whichever store.
LEMMA LoadedShape ==
    ASSUME TypeInv
    PROVE  LoadedSkill \in Aggregate
BY HydratedShape DEF TypeInv, StoresOK, LoadedSkill

\* A command leads to a status and, but for submit, leaves its stamp.
LEMMA OperationFacts ==
    ASSUME NEW op \in Reviews
    PROVE  TargetStatus(op) \in Statuses
           /\ (op # "submit" => TargetStatus(op) \in Stamps)
BY DEF Reviews, TargetStatus, Statuses, Stamps

\* A transition yields an aggregate that differs in one version's status.
LEMMA TransitionedShape ==
    ASSUME NEW A \in Aggregate, NEW op \in Reviews, NEW v \in Versions, Permitted(A, op, v)
    PROVE  /\ Transitioned(A, op, v) \in Aggregate
           /\ Existing(Transitioned(A, op, v)) = Existing(A)
           /\ \A w \in Existing(A) :
                Transitioned(A, op, v)[w].status = IF w = v THEN TargetStatus(op) ELSE A[w].status
<1> DEFINE stamps == IF op = "submit" THEN {} ELSE A[v].stamps \cup {TargetStatus(op)}
           rec == [A[v] EXCEPT !.status = TargetStatus(op), !.stamps = stamps]
<1>1. A[v] \in VersionRecord
  BY ExistingIsRecord DEF Permitted
<1>2. stamps \in SUBSET Stamps
  BY <1>1, OperationFacts DEF VersionRecord
<1> HIDE DEF stamps
<1>3. rec \in VersionRecord /\ rec.status = TargetStatus(op)
  BY <1>1, <1>2, OperationFacts DEF VersionRecord
<1>4. Transitioned(A, op, v) = [A EXCEPT ![v] = rec]
  BY DEF Transitioned, stamps, Aggregate
<1> HIDE DEF rec
<1>5. Transitioned(A, op, v) \in Aggregate
  BY <1>3, <1>4 DEF Aggregate
<1>6. \A w \in Versions : Transitioned(A, op, v)[w] = IF w = v THEN rec ELSE A[w]
  BY <1>4 DEF Aggregate
<1> QED
  BY <1>1, <1>3, <1>5, <1>6, NoVersionAssumption DEF Existing, Aggregate

\* A handler about to save carries its command, its version and the aggregate.
LEMMA SavingShape ==
    ASSUME NEW A \in Aggregate, NEW op \in Reviews \cup {"draft"}, NEW v \in Versions
    PROVE  /\ Saving(op, v, A) \in HandlerState /\ WellPlaced(Saving(op, v, A))
           /\ Saving(op, v, A).stage = "save" /\ Saving(op, v, A).op = op
           /\ Saving(op, v, A).version = v /\ Saving(op, v, A).skill = A
<1>1. v \in 0..MaxVersion
  BY RegistryAssumption DEF Versions
<1>2. Existing(A) \in SUBSET Versions
  BY DEF Existing
<1>3. /\ Saving(op, v, A).stage = "save" /\ Saving(op, v, A).op = op
      /\ Saving(op, v, A).version = v /\ Saving(op, v, A).skill = A
  BY InitialShapes DEF Saving, HandlerState
<1>4. Saving(op, v, A) \in HandlerState
  BY <1>1, <1>2, InitialShapes DEF Saving, HandlerState, Stages
<1> QED
  BY <1>3, <1>4 DEF WellPlaced

\* One handler moves on, well placed.
LEMMA HandlerStep ==
    ASSUME TypeInv, NEW h \in Handlers, NEW s \in HandlerState, WellPlaced(s),
           handler' = [handler EXCEPT ![h] = s]
    PROVE  handler' \in [Handlers -> HandlerState] /\ \A g \in Handlers : WellPlaced(handler'[g])
BY DEF TypeInv, StoresOK

\* Advancing a handler that keeps its version and command.
LEMMA StageShape ==
    ASSUME NEW s \in HandlerState, WellPlaced(s), NEW stage \in Stages,
           s.stage \notin {"idle", "wipe", "refill", "reindex"},
           stage \in {"save", "catalog", "audit"} => s.stage \in {"save", "catalog", "audit"},
           stage # "copy"
    PROVE  /\ [s EXCEPT !.stage = stage] \in HandlerState
           /\ WellPlaced([s EXCEPT !.stage = stage])
BY DEF HandlerState, WellPlaced

\* The registry starts empty, with every handler idle.
LEMMA TypeInvInit == Init => TypeInv
<1> SUFFICES ASSUME Init PROVE TypeInv
  OBVIOUS
<1>1. yaml \in Aggregate /\ rows \in Aggregate /\ handler \in [Handlers -> HandlerState]
  BY InitialShapes DEF Init
<1>2. \A h \in Handlers : WellPlaced(handler[h])
  BY InitialShapes DEF Init
<1> QED
  BY <1>1, <1>2 DEF Init, TypeInv, StoresOK

\* Every step of a handler keeps the shapes of the stores and handlers.
LEMMA TypeInvStep == TypeInv /\ [Next]_vars => TypeInv'
<1> SUFFICES ASSUME TypeInv, [Next]_vars PROVE TypeInv'
  OBVIOUS
<1>0. /\ yaml \in Aggregate /\ rows \in Aggregate
      /\ files \in [Versions -> Contents \cup {NoContent}]
      /\ index \subseteq Versions /\ judged \subseteq Versions
      /\ audit \subseteq Versions \X AuditActions
      /\ handler \in [Handlers -> HandlerState]
      /\ \A h \in Handlers : WellPlaced(handler[h])
  BY DEF TypeInv, StoresOK
\* Only the handler changes.
<1>1. ASSUME NEW h \in Handlers, NEW s \in HandlerState, WellPlaced(s),
             handler' = [handler EXCEPT ![h] = s],
             UNCHANGED <<yaml, rows, files, index, judged, audit>>
      PROVE  TypeInv'
  BY <1>1, <1>0, HandlerStep DEF TypeInv, StoresOK
<1>2. ASSUME NEW h \in Handlers, NEW op \in Reviews, NEW v \in Versions, Review(h, op, v)
      PROVE  TypeInv'
  <2>1. Transitioned(LoadedSkill, op, v) \in Aggregate
    BY <1>2, LoadedShape, TransitionedShape DEF Review
  <2> DEFINE s == Saving(op, v, Transitioned(LoadedSkill, op, v))
  <2>2. s \in HandlerState /\ WellPlaced(s)
    BY <2>1, SavingShape
  <2> HIDE DEF s
  <2> QED
    BY <1>1, <1>2, <2>2 DEF Review, s
<1>3. ASSUME NEW h \in Handlers, NEW v \in Versions, NEW override \in BOOLEAN,
             BeginPublish(h, v, override)
      PROVE  TypeInv'
  <2> DEFINE s == [Idle EXCEPT !.stage = "gate", !.op = "publish", !.version = v,
                               !.skill = LoadedSkill, !.override = override]
  <2>1. v \in 0..MaxVersion
    BY RegistryAssumption DEF Versions
  <2>2. s \in HandlerState
    BY <2>1, InitialShapes, LoadedShape DEF HandlerState, Stages, Reviews
  <2>3. s.stage = "gate" /\ s.version = v /\ s.op = "publish"
    BY InitialShapes DEF HandlerState
  <2>4. WellPlaced(s)
    BY <2>3 DEF WellPlaced
  <2> HIDE DEF s
  <2> QED
    BY <1>1, <1>3, <2>2, <2>4 DEF BeginPublish, s
<1>4. ASSUME NEW h \in Handlers, PassGate(h) PROVE TypeInv'
  <2> DEFINE v == handler[h].version
             skill == handler[h].skill
             s == IF GateOpen(h) /\ Permitted(skill, "publish", v)
                  THEN Saving("publish", v, Transitioned(skill, "publish", v)) ELSE Idle
  <2>1. v \in Versions /\ skill \in Aggregate
    BY <1>0, <1>4 DEF PassGate, WellPlaced, HandlerState
  <2>2. "publish" \in Reviews
    BY DEF Reviews
  <2>3. s \in HandlerState /\ WellPlaced(s)
    BY <2>1, <2>2, TransitionedShape, SavingShape, InitialShapes
  <2>4. GateEntries(h) \subseteq Versions \X AuditActions
    BY <2>1 DEF GateEntries, AuditActions
  <2>5. handler' = [handler EXCEPT ![h] = s] /\ audit' = audit \cup GateEntries(h)
    BY <1>4 DEF PassGate
  <2> HIDE DEF s
  <2>6. UNCHANGED <<yaml, rows, files, index, judged>>
    BY <1>4 DEF PassGate
  <2> QED
    BY <1>0, <2>3, <2>4, <2>5, <2>6, HandlerStep DEF TypeInv, StoresOK
<1>5. ASSUME NEW h \in Handlers, NEW content \in Contents, BeginCreate(h, content)
      PROVE  TypeInv'
  <2> DEFINE s == [Idle EXCEPT !.stage = "copy", !.op = "create", !.version = 1,
                               !.content = content]
  <2>1. 1 \in Versions /\ 1 \in 0..MaxVersion
    BY RegistryAssumption DEF Versions
  <2>2. s \in HandlerState
    BY <2>1, InitialShapes DEF HandlerState, Stages, Drafting
  <2>3. s.stage = "copy" /\ s.version = 1 /\ s.op = "create"
    BY InitialShapes DEF HandlerState
  <2>4. WellPlaced(s)
    BY <2>1, <2>3 DEF WellPlaced
  <2> HIDE DEF s
  <2> QED
    BY <1>1, <1>5, <2>2, <2>4 DEF BeginCreate, s
<1>6. ASSUME NEW h \in Handlers, BeginUpdate(h) PROVE TypeInv'
  <2>1. PICK base \in Existing(LoadedSkill) :
          /\ base < MaxVersion
          /\ handler' = [handler EXCEPT ![h] =
                [Idle EXCEPT !.stage = "copy", !.op = "update", !.version = base + 1,
                             !.skill = LoadedSkill]]
    BY <1>6 DEF BeginUpdate
  <2> DEFINE next == base + 1
             s == [Idle EXCEPT !.stage = "copy", !.op = "update", !.version = next,
                               !.skill = LoadedSkill]
  <2>2. base \in Versions /\ next \in Versions /\ next \in 0..MaxVersion /\ next - 1 = base
    BY <2>1, RegistryAssumption DEF Versions, Existing
  <2> HIDE DEF next
  <2>3. s \in HandlerState
    BY <2>2, InitialShapes, LoadedShape DEF HandlerState, Stages, Drafting
  <2>4. s.stage = "copy" /\ s.version = next
    BY InitialShapes DEF HandlerState
  <2>5. WellPlaced(s)
    BY <2>2, <2>4 DEF WellPlaced
  <2>6. handler' = [handler EXCEPT ![h] = s]
    BY <2>1 DEF next
  <2> HIDE DEF s
  <2> QED
    BY <1>1, <1>6, <2>3, <2>5, <2>6 DEF BeginUpdate
<1>7. ASSUME NEW h \in Handlers, NEW base \in Versions, NEW content \in Contents,
             BeginEdit(h, base, content)
      PROVE  TypeInv'
  <2> DEFINE next == base + 1
             s == [Idle EXCEPT !.stage = "copy", !.op = "edit", !.version = next,
                               !.skill = LoadedSkill, !.content = content]
  <2>1. next \in Versions /\ next \in 0..MaxVersion
    BY <1>7, RegistryAssumption DEF BeginEdit, Versions
  <2>2. handler' = [handler EXCEPT ![h] = s]
    BY <1>7 DEF BeginEdit
  <2> HIDE DEF next
  <2>3. s \in HandlerState
    BY <2>1, InitialShapes, LoadedShape DEF HandlerState, Stages, Drafting
  <2>4. s.stage = "copy" /\ s.version = next /\ s.op = "edit"
    BY InitialShapes DEF HandlerState
  <2>5. WellPlaced(s)
    BY <2>1, <2>4 DEF WellPlaced
  <2> HIDE DEF s
  <2> QED
    BY <1>1, <1>7, <2>2, <2>3, <2>5 DEF BeginEdit
<1>8. ASSUME NEW h \in Handlers, StoreArtifacts(h) PROVE TypeInv'
  <2> DEFINE v == handler[h].version
             skill == handler[h].skill
             content == IF handler[h].op = "update" THEN files[v - 1] ELSE handler[h].content
             next == [skill EXCEPT ![v] = DraftOf(content)]
             s == IF skill[v] = NoVersion THEN Saving("draft", v, next) ELSE Idle
  <2>1. v \in Versions /\ skill \in Aggregate /\ handler[h].content \in Contents \cup {NoContent}
    BY <1>0, <1>8 DEF StoreArtifacts, WellPlaced, HandlerState
  <2>2. content \in Contents \cup {NoContent}
    BY <1>0, <1>8, <2>1 DEF StoreArtifacts, WellPlaced
  <2>3. files' = [files EXCEPT ![v] = content] /\ handler' = [handler EXCEPT ![h] = s]
    BY <1>8 DEF StoreArtifacts
  <2> HIDE DEF content
  <2>4. DraftOf(content) \in VersionRecord
    BY <2>2 DEF DraftOf, VersionRecord, Statuses, Stamps
  <2>5. next \in Aggregate
    BY <2>1, <2>4 DEF Aggregate
  <2> HIDE DEF next
  <2>6. s \in HandlerState /\ WellPlaced(s)
    BY <2>1, <2>5, SavingShape, InitialShapes
  <2>7. files' \in [Versions -> Contents \cup {NoContent}]
    BY <1>0, <2>2, <2>3
  <2>8. UNCHANGED <<yaml, rows, index, judged, audit>>
    BY <1>8 DEF StoreArtifacts
  <2> HIDE DEF s
  <2> QED
    BY <1>0, <2>3, <2>6, <2>7, <2>8, HandlerStep DEF TypeInv, StoresOK
<1>9. ASSUME NEW h \in Handlers, WriteYaml(h) PROVE TypeInv'
  <2> DEFINE v == CHOOSE w \in handler[h].unsaved : \A u \in handler[h].unsaved : w <= u
             left == handler[h].unsaved \ {v}
             stage == IF left = {} THEN "catalog" ELSE "save"
             s == [handler[h] EXCEPT !.unsaved = left, !.stage = stage]
  <2>1. yaml' = [yaml EXCEPT ![v] = handler[h].skill[v]] /\ handler' = [handler EXCEPT ![h] = s]
    BY <1>9 DEF WriteYaml
  <2>2. handler[h] \in HandlerState /\ handler[h].stage = "save" /\ WellPlaced(handler[h])
    BY <1>0, <1>9 DEF WriteYaml
  <2>3. left \in SUBSET Versions /\ stage \in {"catalog", "save"}
    BY <2>2 DEF HandlerState
  <2>4. yaml' \in Aggregate
    <3>1. handler[h].skill \in Aggregate
      BY <2>2 DEF HandlerState
    <3> HIDE DEF v
    <3> QED
      BY <1>0, <2>1, <3>1 DEF Aggregate
  <2> HIDE DEF left, stage
  <2>5. s \in HandlerState
    BY <2>2, <2>3 DEF HandlerState, Stages
  <2>6. s.stage = stage /\ s.version = handler[h].version /\ s.op = handler[h].op
    BY <2>2 DEF HandlerState
  <2>7. WellPlaced(s)
    BY <2>2, <2>3, <2>6 DEF WellPlaced
  <2> HIDE DEF s
  <2>8. UNCHANGED <<rows, files, index, judged, audit>>
    BY <1>9 DEF WriteYaml
  <2> QED
    BY <1>0, <2>1, <2>4, <2>5, <2>7, <2>8, HandlerStep DEF TypeInv, StoresOK
<1>10. ASSUME NEW h \in Handlers, UpsertCatalog(h) PROVE TypeInv'
  <2> DEFINE s == [handler[h] EXCEPT !.stage = "audit", !.skill = NoSkill]
  <2>1. handler[h] \in HandlerState /\ handler[h].stage = "catalog" /\ WellPlaced(handler[h])
    BY <1>0, <1>10 DEF UpsertCatalog
  <2>2. rows' = handler[h].skill /\ handler' = [handler EXCEPT ![h] = s]
    BY <1>10 DEF UpsertCatalog
  <2>3. s \in HandlerState
    BY <2>1, InitialShapes DEF HandlerState, Stages
  <2>4. s.stage = "audit" /\ s.version = handler[h].version /\ s.op = handler[h].op
    BY <2>1 DEF HandlerState
  <2>5. WellPlaced(s)
    BY <2>1, <2>4 DEF WellPlaced
  <2>6. rows' \in Aggregate
    BY <2>1, <2>2 DEF HandlerState
  <2>7. UNCHANGED <<yaml, files, index, judged, audit>>
    BY <1>10 DEF UpsertCatalog
  <2> HIDE DEF s
  <2> QED
    BY <1>0, <2>2, <2>3, <2>5, <2>6, <2>7, HandlerStep DEF TypeInv, StoresOK
<1>11. ASSUME NEW h \in Handlers, AppendAudit(h) PROVE TypeInv'
  <2> DEFINE op == handler[h].op
             s == CASE op = "publish"   -> [handler[h] EXCEPT !.stage = "index"]
                    [] op = "deprecate" -> [handler[h] EXCEPT !.stage = "unindex"]
                    [] OTHER            -> Idle
  <2>1. /\ handler[h] \in HandlerState /\ handler[h].stage = "audit" /\ WellPlaced(handler[h])
        /\ handler' = [handler EXCEPT ![h] = s]
    BY <1>0, <1>11 DEF AppendAudit
  <2>2. s \in HandlerState /\ WellPlaced(s)
    BY <2>1, StageShape, InitialShapes DEF Stages
  <2>3. audit' \subseteq Versions \X AuditActions
    BY <1>0, <1>11, <2>1 DEF AppendAudit, WellPlaced, AuditActions
  <2>4. UNCHANGED <<yaml, rows, files, index, judged>>
    BY <1>11 DEF AppendAudit
  <2> HIDE DEF s
  <2> QED
    BY <1>0, <2>1, <2>2, <2>3, <2>4, HandlerStep DEF TypeInv, StoresOK
<1>12. ASSUME NEW h \in Handlers, IndexVersion(h) \/ RemoveVersion(h) PROVE TypeInv'
  <2>1. handler[h].version \in Versions
    BY <1>0, <1>12 DEF IndexVersion, RemoveVersion, WellPlaced
  <2>2. index' \subseteq Versions
    BY <1>0, <1>12, <2>1 DEF IndexVersion, RemoveVersion
  <2>3. /\ handler' = [handler EXCEPT ![h] = Idle]
        /\ UNCHANGED <<yaml, rows, files, judged, audit>>
    BY <1>12 DEF IndexVersion, RemoveVersion
  <2> QED
    BY <1>0, <2>2, <2>3, InitialShapes, HandlerStep DEF TypeInv, StoresOK
<1>13. ASSUME NEW h \in Handlers, BeginRebuild(h) PROVE TypeInv'
  <2> DEFINE s == [Idle EXCEPT !.stage = "wipe", !.op = "rebuild", !.skill = yaml]
  <2>1. s \in HandlerState
    BY <1>0, InitialShapes DEF HandlerState, Stages
  <2>2. s.stage = "wipe"
    BY InitialShapes DEF HandlerState
  <2>3. WellPlaced(s)
    BY <2>2 DEF WellPlaced
  <2> HIDE DEF s
  <2> QED
    BY <1>1, <1>13, <2>1, <2>3 DEF BeginRebuild, s
<1>14. ASSUME NEW h \in Handlers, WipeCatalog(h) \/ RefillCatalog(h) PROVE TypeInv'
  <2>1. PICK stage \in {"refill", "reindex"} :
          handler' = [handler EXCEPT ![h] = [handler[h] EXCEPT !.stage = stage]]
    BY <1>14 DEF WipeCatalog, RefillCatalog
  <2> DEFINE s == [handler[h] EXCEPT !.stage = stage]
  <2>2. s \in HandlerState /\ s.stage = stage
    BY <1>0, <2>1 DEF HandlerState, Stages
  <2>3. WellPlaced(s)
    BY <2>2 DEF WellPlaced
  <2>4. rows' \in Aggregate
    BY <1>0, <1>14, InitialShapes DEF WipeCatalog, RefillCatalog, HandlerState
  <2>5. UNCHANGED <<yaml, files, index, judged, audit>>
    BY <1>14 DEF WipeCatalog, RefillCatalog
  <2> HIDE DEF s
  <2> QED
    BY <1>0, <2>1, <2>2, <2>3, <2>4, <2>5, HandlerStep DEF TypeInv, StoresOK, s
<1>15. ASSUME NEW h \in Handlers, ReindexAll(h) PROVE TypeInv'
  <2>1. index' \subseteq Versions
    BY <1>15 DEF ReindexAll, Published, Existing
  <2>2. /\ handler' = [handler EXCEPT ![h] = Idle]
        /\ UNCHANGED <<yaml, rows, files, judged, audit>>
    BY <1>15 DEF ReindexAll
  <2> QED
    BY <1>0, <2>1, <2>2, InitialShapes, HandlerStep DEF TypeInv, StoresOK
<1>16. ASSUME NEW h \in Handlers, Abort(h) PROVE TypeInv'
  BY <1>1, <1>16, InitialShapes DEF Abort
<1>17. ASSUME NEW v \in Versions, JudgeVersion(v) PROVE TypeInv'
  BY <1>0, <1>17 DEF JudgeVersion, TypeInv, StoresOK
<1>18. CASE UNCHANGED vars
  BY <1>0, <1>18 DEF vars, TypeInv, StoresOK
<1> QED
  <2>1. Overrides \subseteq BOOLEAN
    BY DEF Overrides
  <2> QED
    BY <2>1, <1>2, <1>3, <1>4, <1>5, <1>6, <1>7, <1>8, <1>9, <1>10, <1>11, <1>12, <1>13,
       <1>14, <1>15, <1>16, <1>17, <1>18 DEF Next, Command, Continue

LEMMA HistoryInit == Init => HistoryOK
<1> SUFFICES ASSUME Init PROVE HistoryOK
  OBVIOUS
<1>1. faults \in 0..MaxFaults
  <2>1. faults = 0
    BY Zenon DEF Init
  <2> QED
    BY <2>1, RegistryAssumption
<1>2. cut \in BOOLEAN
  BY Zenon DEF Init
<1> QED
  BY <1>1, <1>2 DEF HistoryOK

\* The history counts the interruptions, and only an interruption changes it
\* other than by a complete rebuild.
LEMMA HistoryStep == HistoryOK /\ [Next]_vars => HistoryOK'
<1> SUFFICES ASSUME HistoryOK, [Next]_vars PROVE HistoryOK'
  OBVIOUS
<1>1. ASSUME NEW h \in Handlers, Command(h) PROVE UNCHANGED history
  BY <1>1 DEF Command, Review, BeginPublish, BeginCreate, BeginUpdate, BeginEdit, BeginRebuild
<1>2. ASSUME NEW h \in Handlers, Continue(h), ~ReindexAll(h) PROVE UNCHANGED history
  BY <1>2 DEF Continue, PassGate, StoreArtifacts, WriteYaml, UpsertCatalog, AppendAudit,
              IndexVersion, RemoveVersion, WipeCatalog, RefillCatalog
<1>3. ASSUME NEW h \in Handlers, ReindexAll(h) PROVE HistoryOK'
  BY <1>3 DEF ReindexAll, HistoryOK
<1>4. ASSUME NEW h \in Handlers, Abort(h) PROVE HistoryOK'
  BY <1>4, RegistryAssumption DEF Abort, HistoryOK
<1>5. ASSUME NEW v \in Versions, JudgeVersion(v) PROVE UNCHANGED history
  BY <1>5 DEF JudgeVersion
<1>6. UNCHANGED history => HistoryOK'
  BY DEF history, HistoryOK
<1>7. CASE UNCHANGED vars
  BY <1>7 DEF vars, HistoryOK
<1> QED
  BY <1>1, <1>2, <1>3, <1>4, <1>5, <1>6, <1>7 DEF Next

\* The stores, the handlers and the history keep their shape.
THEOREM TypeCorrect == Spec => []TypeOK
<1>1. Spec => []TypeInv
  BY TypeInvInit, TypeInvStep, PTL DEF Spec
<1>2. Spec => []HistoryOK
  BY HistoryInit, HistoryStep, PTL DEF Spec
<1>3. TypeInv /\ HistoryOK => TypeOK
  BY DEF TypeInv, TypeOK
<1> QED
  BY <1>1, <1>2, <1>3, PTL

-----------------------------------------------------------------------------
(* The audit log explains every status, as long as no handler dies.         *)
(*                                                                          *)
(* The catalog's statuses alone are not inductive: a handler may write any  *)
(* aggregate it has read before.  What is, is that every aggregate anywhere *)
(* - in the catalog, in the artifact storage, in a handler's memory - shows *)
(* only statuses whose commands are audited or about to be; and no command  *)
(* that was accounted for ever stops being so.                              *)

Accounted == {entry \in Versions \X Reviews : AuditedOrPending(entry[1], entry[2])}

Explained(A, entries) ==
    \A v \in Existing(A) : \A op \in History(A[v].status) : <<v, op>> \in entries

CopiesExplained(entries) ==
    /\ Explained(rows, entries) /\ Explained(yaml, entries)
    /\ \A h \in Handlers : Explained(handler[h].skill, entries)

ExplainInv == CopiesExplained(Accounted)

\* An aggregate stays explained while entries are only added.
LEMMA ExplainedGrows ==
    ASSUME NEW A, NEW S, NEW T, S \subseteq T, Explained(A, S)
    PROVE  Explained(A, T)
BY DEF Explained

\* The empty aggregate needs no explanation.
LEMMA NothingToExplain ==
    ASSUME NEW S
    PROVE  Explained(NoSkill, S)
BY InitialShapes DEF Explained

\* A command adds itself, at most, to what a version's status tells.
LEMMA HistoryGrows ==
    ASSUME NEW op \in Reviews, NEW status \in SourceStatuses(op)
    PROVE  History(TargetStatus(op)) \subseteq History(status) \cup {op}
BY DEF Reviews, SourceStatuses, TargetStatus, History

\* A permitted transition stays explained once its command is accounted for.
LEMMA TransitionedExplained ==
    ASSUME NEW A \in Aggregate, NEW op \in Reviews, NEW v \in Versions, Permitted(A, op, v),
           NEW S, Explained(A, S), <<v, op>> \in S
    PROVE  Explained(Transitioned(A, op, v), S)
<1> DEFINE B == Transitioned(A, op, v)
<1>1. /\ Existing(B) = Existing(A)
      /\ \A w \in Existing(A) : B[w].status = IF w = v THEN TargetStatus(op) ELSE A[w].status
  BY TransitionedShape
<1>2. v \in Existing(A) /\ A[v].status \in SourceStatuses(op)
  BY DEF Permitted
<1>3. History(TargetStatus(op)) \subseteq History(A[v].status) \cup {op}
  BY <1>2, HistoryGrows
<1> HIDE DEF B
<1>4. Explained(B, S)
  <2> SUFFICES ASSUME NEW w \in Existing(A), NEW c \in History(B[w].status)
               PROVE  <<w, c>> \in S
    BY <1>1 DEF Explained
  <2>1. CASE w = v
    <3>1. c \in History(A[v].status) \cup {op}
      BY <1>1, <1>3, <2>1
    <3> QED
      BY <1>2, <2>1, <3>1 DEF Explained
  <2>2. CASE w # v
    <3>1. c \in History(A[w].status)
      BY <1>1, <2>2
    <3> QED
      BY <3>1 DEF Explained
  <2> QED
    BY <2>1, <2>2
<1> QED
  BY <1>4 DEF B

\* What a handler loads is as explained as the stores are.
LEMMA LoadedExplained ==
    ASSUME TypeInv, NEW S, CopiesExplained(S)
    PROVE  Explained(LoadedSkill, S)
<1>1. CASE Existing(rows) # {}
  <2>1. /\ Existing(Hydrated(rows)) = Existing(rows)
        /\ \A v \in Existing(rows) : Hydrated(rows)[v].status = rows[v].status
    BY HydratedShape DEF TypeInv, StoresOK
  <2> QED
    BY <1>1, <2>1 DEF LoadedSkill, CopiesExplained, Explained
<1>2. CASE Existing(rows) = {}
  BY <1>2 DEF LoadedSkill, CopiesExplained
<1> QED
  BY <1>1, <1>2

\* A handler that works towards an audit entry keeps working towards it.
LEMMA AccountedGrows ==
    ASSUME TypeInv, HistoryOK, Next, MaxFaults = 0
    PROVE  Accounted \subseteq Accounted'
<1>0. handler \in [Handlers -> HandlerState]
  BY DEF TypeInv, StoresOK
<1>1. ASSUME NEW h \in Handlers, NEW s, handler' = [handler EXCEPT ![h] = s],
             audit \subseteq audit',
             \/ handler[h].stage \notin {"save", "catalog", "audit"}
             \/ <<handler[h].version, handler[h].op>> \in audit'
             \/ /\ s.version = handler[h].version /\ s.op = handler[h].op
                /\ s.stage \in {"save", "catalog", "audit"}
      PROVE  Accounted \subseteq Accounted'
  <2> SUFFICES ASSUME NEW v \in Versions, NEW op \in Reviews, AuditedOrPending(v, op)
               PROVE  AuditedOrPending(v, op)'
    BY DEF Accounted
  <2>1. CASE <<v, op>> \in audit
    BY <1>1, <2>1 DEF AuditedOrPending
  <2>2. ASSUME NEW g \in Handlers, handler[g].version = v, handler[g].op = op,
               handler[g].stage \in {"save", "catalog", "audit"}
        PROVE  AuditedOrPending(v, op)'
    <3>1. CASE g # h
      <4>1. handler'[g] = handler[g]
        BY <1>0, <1>1, <3>1
      <4> QED
        BY <2>2, <4>1 DEF AuditedOrPending, Pending
    <3>2. CASE g = h
      <4>1. handler'[h] = s
        BY <1>0, <1>1
      <4> QED
        BY <1>1, <2>2, <3>2, <4>1 DEF AuditedOrPending, Pending
    <3> QED
      BY <3>1, <3>2
  <2> QED
    BY <2>1, <2>2 DEF AuditedOrPending, Pending
<1>2. ASSUME NEW h \in Handlers, Command(h) PROVE Accounted \subseteq Accounted'
  <2>1. PICK s : handler' = [handler EXCEPT ![h] = s]
    BY <1>2 DEF Command, Review, BeginPublish, BeginCreate, BeginUpdate, BeginEdit, BeginRebuild
  <2>2. handler[h].stage = "idle" /\ audit' = audit
    BY <1>2 DEF Command, Review, BeginPublish, BeginCreate, BeginUpdate, BeginEdit, BeginRebuild
  <2> QED
    BY <1>1, <2>1, <2>2
<1>3. ASSUME NEW h \in Handlers, PassGate(h) \/ StoreArtifacts(h) PROVE Accounted \subseteq Accounted'
  <2>1. PICK s : handler' = [handler EXCEPT ![h] = s]
    BY <1>3 DEF PassGate, StoreArtifacts
  <2>2. handler[h].stage \in {"gate", "copy"} /\ audit \subseteq audit'
    BY <1>3 DEF PassGate, StoreArtifacts
  <2> QED
    BY <1>1, <2>1, <2>2
<1>4. ASSUME NEW h \in Handlers, WriteYaml(h) PROVE Accounted \subseteq Accounted'
  <2> DEFINE v == CHOOSE w \in handler[h].unsaved : \A u \in handler[h].unsaved : w <= u
             left == handler[h].unsaved \ {v}
             stage == IF left = {} THEN "catalog" ELSE "save"
             s == [handler[h] EXCEPT !.unsaved = left, !.stage = stage]
  <2>1. handler' = [handler EXCEPT ![h] = s] /\ stage \in {"catalog", "save"}
    BY <1>4 DEF WriteYaml
  <2> HIDE DEF left, stage
  <2>2. s.version = handler[h].version /\ s.op = handler[h].op /\ s.stage = stage
    BY <1>0 DEF HandlerState
  <2>3. audit' = audit
    BY <1>4 DEF WriteYaml
  <2> HIDE DEF s
  <2> QED
    BY <1>1, <2>1, <2>2, <2>3
<1>5. ASSUME NEW h \in Handlers, UpsertCatalog(h) PROVE Accounted \subseteq Accounted'
  <2> DEFINE s == [handler[h] EXCEPT !.stage = "audit", !.skill = NoSkill]
  <2>1. handler' = [handler EXCEPT ![h] = s] /\ audit' = audit
    BY <1>5 DEF UpsertCatalog
  <2>2. s.version = handler[h].version /\ s.op = handler[h].op /\ s.stage = "audit"
    BY <1>0 DEF HandlerState
  <2> HIDE DEF s
  <2> QED
    BY <1>1, <2>1, <2>2
<1>6. ASSUME NEW h \in Handlers, AppendAudit(h) PROVE Accounted \subseteq Accounted'
  <2>1. PICK s : handler' = [handler EXCEPT ![h] = s]
    BY <1>6 DEF AppendAudit
  <2>2. audit' = audit \cup {<<handler[h].version, handler[h].op>>}
    BY <1>6 DEF AppendAudit
  <2> QED
    BY <1>1, <2>1, <2>2
<1>7. ASSUME NEW h \in Handlers,
             \/ IndexVersion(h) \/ RemoveVersion(h)
             \/ WipeCatalog(h) \/ RefillCatalog(h) \/ ReindexAll(h)
      PROVE  Accounted \subseteq Accounted'
  <2>1. PICK s : handler' = [handler EXCEPT ![h] = s]
    BY <1>7 DEF IndexVersion, RemoveVersion, WipeCatalog, RefillCatalog, ReindexAll
  <2>2. handler[h].stage \notin {"save", "catalog", "audit"} /\ audit' = audit
    BY <1>7 DEF IndexVersion, RemoveVersion, WipeCatalog, RefillCatalog, ReindexAll
  <2> QED
    BY <1>1, <2>1, <2>2
<1>8. ASSUME NEW v \in Versions, JudgeVersion(v) PROVE Accounted \subseteq Accounted'
  BY <1>8 DEF JudgeVersion, Accounted, AuditedOrPending, Pending
<1> QED
  <2>1. \A h \in Handlers : ~Abort(h)
    BY DEF Abort, HistoryOK
  <2> QED
    BY <2>1, <1>2, <1>3, <1>4, <1>5, <1>6, <1>7, <1>8 DEF Next, Continue

\* A step decides on a transition: a review command that starts, or a publication
\* that passes the judgement gate.
Decides(h, op, v) ==
    \/ Review(h, op, v)
    \/ /\ PassGate(h) /\ GateOpen(h)
       /\ op = "publish" /\ v = handler[h].version
       /\ Permitted(handler[h].skill, op, v)

\* No step lets a status into any copy of the aggregate that the entries T do not
\* explain, if they hold those that explained the copies before and the
\* transition the step decides on; interruptions included.
LEMMA CopiesStep ==
    ASSUME TypeInv, Next, NEW S, NEW T, S \subseteq T, CopiesExplained(S),
           \A h \in Handlers, op \in Reviews, v \in Versions :
                Decides(h, op, v) => <<v, op>> \in T
    PROVE  /\ Explained(rows', T) /\ Explained(yaml', T)
           /\ \A h \in Handlers : Explained(handler'[h].skill, T)
<1>0. /\ yaml \in Aggregate /\ rows \in Aggregate /\ handler \in [Handlers -> HandlerState]
      /\ \A h \in Handlers : WellPlaced(handler[h]) /\ handler[h].skill \in Aggregate
  BY DEF TypeInv, StoresOK, HandlerState
<1> DEFINE Now == /\ Explained(rows', T) /\ Explained(yaml', T)
                  /\ \A h \in Handlers : Explained(handler'[h].skill, T)
<1> SUFFICES Now
  OBVIOUS
<1>2. S \subseteq T
  OBVIOUS
<1>4. Explained(LoadedSkill, T) /\ LoadedSkill \in Aggregate /\ Explained(NoSkill, T)
  BY <1>2, LoadedShape, LoadedExplained, ExplainedGrows, NothingToExplain
<1>5. \A h \in Handlers : Explained(handler[h].skill, T)
  BY <1>2, ExplainedGrows DEF CopiesExplained
<1>6. Idle.skill = NoSkill
  BY DEF Idle
<1> HIDE DEF Now
\* Each store keeps what was explained or takes an explained aggregate, and so
\* does the handler that moves.
<1>3. ASSUME NEW h \in Handlers, NEW s,
             handler' = [handler EXCEPT ![h] = s], Explained(s.skill, T),
             Explained(rows', T) \/ rows' = rows,
             Explained(yaml', T) \/ yaml' = yaml
      PROVE  Now
  <2>1. Explained(rows', T) /\ Explained(yaml', T)
    BY <1>2, <1>3, ExplainedGrows DEF CopiesExplained
  <2>2. ASSUME NEW g \in Handlers PROVE Explained(handler'[g].skill, T)
    <3>1. handler'[g] = IF g = h THEN s ELSE handler[g]
      BY <1>0, <1>3
    <3>2. Explained(handler[g].skill, T)
      BY <1>2, ExplainedGrows DEF CopiesExplained
    <3> QED
      BY <1>3, <3>1, <3>2
  <2> QED
    BY <2>1, <2>2 DEF Now
<1>7. ASSUME NEW h \in Handlers, NEW A \in Aggregate, NEW op \in Reviews, NEW v \in Versions,
             Permitted(A, op, v), Explained(A, T), UNCHANGED <<yaml, rows>>, <<v, op>> \in T,
             handler' = [handler EXCEPT ![h] = Saving(op, v, Transitioned(A, op, v))]
      PROVE  Now
  <2> DEFINE s == Saving(op, v, Transitioned(A, op, v))
  <2>1. Transitioned(A, op, v) \in Aggregate
    BY <1>7, TransitionedShape
  <2>2. s.skill = Transitioned(A, op, v)
    BY <2>1, SavingShape
  <2> HIDE DEF s
  <2>3. Explained(s.skill, T)
    BY <1>7, <2>2, TransitionedExplained
  <2> QED
    BY <1>3, <1>7, <2>3 DEF s
<1>8. ASSUME NEW h \in Handlers, NEW op \in Reviews, NEW v \in Versions, Review(h, op, v)
      PROVE  Now
  BY <1>4, <1>7, <1>8 DEF Review, Decides
<1>9. ASSUME NEW h \in Handlers, NEW s, UNCHANGED <<yaml, rows>>,
             handler' = [handler EXCEPT ![h] = s],
             s.skill \in {NoSkill, LoadedSkill, yaml, handler[h].skill}
      PROVE  Now
  <2>1. Explained(s.skill, T)
    BY <1>2, <1>4, <1>5, <1>9, ExplainedGrows DEF CopiesExplained
  <2> QED
    BY <1>3, <1>9, <2>1
<1>10. ASSUME NEW h \in Handlers, NEW v \in Versions, NEW override, BeginPublish(h, v, override)
       PROVE  Now
  <2> DEFINE s == [Idle EXCEPT !.stage = "gate", !.op = "publish", !.version = v,
                               !.skill = LoadedSkill, !.override = override]
  <2>1. s.skill = LoadedSkill
    BY DEF Idle
  <2> HIDE DEF s
  <2> QED
    BY <1>9, <1>10, <2>1 DEF BeginPublish, s
<1>11. ASSUME NEW h \in Handlers, PassGate(h) PROVE Now
  <2> DEFINE v == handler[h].version
             skill == handler[h].skill
  <2>1. v \in Versions /\ skill \in Aggregate /\ Explained(skill, T)
    BY <1>0, <1>5, <1>11 DEF PassGate, WellPlaced
  <2>2. "publish" \in Reviews
    BY DEF Reviews
  <2>3. UNCHANGED <<yaml, rows>>
    BY <1>11 DEF PassGate
  <2>4. CASE /\ GateOpen(h) /\ Permitted(skill, "publish", v)
             /\ handler' = [handler EXCEPT ![h] =
                   Saving("publish", v, Transitioned(skill, "publish", v))]
    <3>1. <<v, "publish">> \in T
      BY <1>11, <2>1, <2>2, <2>4 DEF Decides
    <3> QED
      BY <1>7, <2>1, <2>2, <2>3, <2>4, <3>1
  <2>5. CASE handler' = [handler EXCEPT ![h] = Idle]
    BY <1>6, <1>9, <2>3, <2>5
  <2> QED
    BY <1>11, <2>4, <2>5 DEF PassGate
<1>12. ASSUME NEW h \in Handlers, NEW content \in Contents, BeginCreate(h, content)
       PROVE  Now
  <2> DEFINE s == [Idle EXCEPT !.stage = "copy", !.op = "create", !.version = 1,
                               !.content = content]
  <2>1. s.skill = NoSkill
    BY DEF Idle
  <2> HIDE DEF s
  <2> QED
    BY <1>9, <1>12, <2>1 DEF BeginCreate, s
<1>13. ASSUME NEW h \in Handlers, BeginUpdate(h) PROVE Now
  <2>1. PICK base : handler' = [handler EXCEPT ![h] =
                [Idle EXCEPT !.stage = "copy", !.op = "update", !.version = base + 1,
                             !.skill = LoadedSkill]]
    BY <1>13 DEF BeginUpdate
  <2> DEFINE next == base + 1
             s == [Idle EXCEPT !.stage = "copy", !.op = "update", !.version = next,
                               !.skill = LoadedSkill]
  <2>2. handler' = [handler EXCEPT ![h] = s]
    BY <2>1
  <2> HIDE DEF next
  <2>3. s.skill = LoadedSkill
    BY DEF Idle
  <2> HIDE DEF s
  <2> QED
    BY <1>9, <1>13, <2>2, <2>3 DEF BeginUpdate
<1>14. ASSUME NEW h \in Handlers, NEW base \in Versions, NEW content \in Contents,
              BeginEdit(h, base, content)
       PROVE  Now
  <2> DEFINE next == base + 1
             s == [Idle EXCEPT !.stage = "copy", !.op = "edit", !.version = next,
                               !.skill = LoadedSkill, !.content = content]
  <2>1. handler' = [handler EXCEPT ![h] = s]
    BY <1>14 DEF BeginEdit
  <2> HIDE DEF next
  <2>2. s.skill = LoadedSkill
    BY DEF Idle
  <2> HIDE DEF s
  <2> QED
    BY <1>9, <1>14, <2>1, <2>2 DEF BeginEdit
<1>15. ASSUME NEW h \in Handlers, StoreArtifacts(h) PROVE Now
  <2> DEFINE v == handler[h].version
             skill == handler[h].skill
             content == IF handler[h].op = "update" THEN files[v - 1] ELSE handler[h].content
             next == [skill EXCEPT ![v] = DraftOf(content)]
             s == IF skill[v] = NoVersion THEN Saving("draft", v, next) ELSE Idle
  <2>1. v \in Versions /\ skill \in Aggregate /\ Explained(skill, T)
    BY <1>0, <1>5, <1>15 DEF StoreArtifacts, WellPlaced
  <2>2. content \in Contents \cup {NoContent}
    BY <1>0, <1>15 DEF TypeInv, StoresOK, StoreArtifacts, WellPlaced, HandlerState
  <2>3. handler' = [handler EXCEPT ![h] = s] /\ UNCHANGED <<yaml, rows>>
    BY <1>15 DEF StoreArtifacts
  <2> HIDE DEF content
  <2>4. DraftOf(content) \in VersionRecord /\ DraftOf(content).status = "draft"
    BY <2>2 DEF DraftOf, VersionRecord, Statuses, Stamps
  <2>5. next \in Aggregate /\ \A w \in Versions : next[w] = IF w = v THEN DraftOf(content) ELSE skill[w]
    BY <2>1, <2>4 DEF Aggregate
  <2> HIDE DEF next
  <2>6. Explained(next, T)
    <3> SUFFICES ASSUME NEW w \in Existing(next), NEW c \in History(next[w].status)
                 PROVE  <<w, c>> \in T
      BY DEF Explained
    <3>1. w \in Versions /\ w # v
      BY <2>4, <2>5 DEF Existing, History
    <3>2. next[w] = skill[w] /\ w \in Existing(skill)
      BY <2>5, <3>1 DEF Existing
    <3> QED
      BY <2>1, <3>2 DEF Explained
  <2>7. Saving("draft", v, next).skill = next
    BY <2>1, <2>5, SavingShape
  <2>8. Explained(s.skill, T)
    BY <1>4, <1>6, <2>6, <2>7
  <2> HIDE DEF s
  <2> QED
    BY <1>3, <2>3, <2>8
<1>16. ASSUME NEW h \in Handlers, WriteYaml(h) PROVE Now
  <2> DEFINE v == CHOOSE w \in handler[h].unsaved : \A u \in handler[h].unsaved : w <= u
             left == handler[h].unsaved \ {v}
             stage == IF left = {} THEN "catalog" ELSE "save"
             skill == handler[h].skill
             s == [handler[h] EXCEPT !.unsaved = left, !.stage = stage]
  <2>1. /\ handler' = [handler EXCEPT ![h] = s] /\ rows' = rows
        /\ yaml' = [yaml EXCEPT ![v] = skill[v]]
    BY <1>16 DEF WriteYaml
  <2> HIDE DEF left, stage
  <2>2. s.skill = skill
    BY <1>0 DEF HandlerState
  <2> HIDE DEF s, v
  <2>3. Explained(skill, T) /\ Explained(yaml, T)
    BY <1>2, <1>5, ExplainedGrows DEF CopiesExplained
  <2>4. \A w \in Versions : yaml'[w] = IF w = v THEN skill[w] ELSE yaml[w]
    BY <1>0, <2>1 DEF Aggregate
  <2>5. Explained(yaml', T)
    <3> SUFFICES ASSUME NEW w \in Existing(yaml'), NEW c \in History(yaml'[w].status)
                 PROVE  <<w, c>> \in T
      BY DEF Explained
    <3>1. w \in Versions /\ yaml'[w] # NoVersion
      BY DEF Existing
    <3>2. CASE w = v
      BY <2>3, <2>4, <3>1, <3>2 DEF Explained, Existing
    <3>3. CASE w # v
      BY <2>3, <2>4, <3>1, <3>3 DEF Explained, Existing
    <3> QED
      BY <3>2, <3>3
  <2> QED
    BY <1>3, <2>1, <2>2, <2>3, <2>5
<1>17. ASSUME NEW h \in Handlers, UpsertCatalog(h) PROVE Now
  <2> DEFINE s == [handler[h] EXCEPT !.stage = "audit", !.skill = NoSkill]
  <2>1. handler' = [handler EXCEPT ![h] = s] /\ rows' = handler[h].skill /\ yaml' = yaml
    BY <1>17 DEF UpsertCatalog
  <2>2. s.skill = NoSkill
    BY <1>0 DEF HandlerState
  <2> HIDE DEF s
  <2> QED
    BY <1>3, <1>4, <1>5, <2>1, <2>2
<1>18. ASSUME NEW h \in Handlers, AppendAudit(h) PROVE Now
  <2>1. PICK s \in {[handler[h] EXCEPT !.stage = "index"],
                    [handler[h] EXCEPT !.stage = "unindex"], Idle} :
          handler' = [handler EXCEPT ![h] = s]
    BY <1>18 DEF AppendAudit
  <2>2. s.skill \in {NoSkill, handler[h].skill}
    BY <1>0, <1>6, <2>1 DEF HandlerState
  <2> QED
    BY <1>9, <1>18, <2>1, <2>2 DEF AppendAudit
<1>19. ASSUME NEW h \in Handlers, IndexVersion(h) \/ RemoveVersion(h) \/ ReindexAll(h)
       PROVE  Now
  BY <1>6, <1>9, <1>19 DEF IndexVersion, RemoveVersion, ReindexAll
<1>20. ASSUME NEW h \in Handlers, BeginRebuild(h) PROVE Now
  <2> DEFINE s == [Idle EXCEPT !.stage = "wipe", !.op = "rebuild", !.skill = yaml]
  <2>1. s.skill = yaml
    BY DEF Idle
  <2> HIDE DEF s
  <2> QED
    BY <1>9, <1>20, <2>1 DEF BeginRebuild, s
<1>21. ASSUME NEW h \in Handlers, WipeCatalog(h) \/ RefillCatalog(h) PROVE Now
  <2>1. PICK stage \in {"refill", "reindex"} :
          handler' = [handler EXCEPT ![h] = [handler[h] EXCEPT !.stage = stage]]
    BY <1>21 DEF WipeCatalog, RefillCatalog
  <2> DEFINE s == [handler[h] EXCEPT !.stage = stage]
  <2>2. s.skill = handler[h].skill
    BY <1>0 DEF HandlerState
  <2> HIDE DEF s
  <2>3. rows' \in {NoSkill, handler[h].skill} /\ yaml' = yaml
    BY <1>21 DEF WipeCatalog, RefillCatalog
  <2> QED
    BY <1>3, <1>4, <1>5, <2>1, <2>2, <2>3 DEF s
<1>22. ASSUME NEW v \in Versions, JudgeVersion(v) PROVE Now
  BY <1>2, <1>22, ExplainedGrows DEF JudgeVersion, CopiesExplained, Now
<1>23. ASSUME NEW h \in Handlers, Abort(h) PROVE Now
  BY <1>6, <1>9, <1>23 DEF Abort
<1> QED
  BY <1>8, <1>10, <1>11, <1>12, <1>13, <1>14, <1>15, <1>16, <1>17, <1>18, <1>19, <1>20, <1>21,
     <1>22, <1>23 DEF Next, Command, Continue

\* No step lets an unexplained status into any aggregate.
LEMMA ExplainStep ==
    MaxFaults = 0 /\ TypeInv /\ HistoryOK /\ ExplainInv /\ [Next]_vars => ExplainInv'
<1> SUFFICES ASSUME MaxFaults = 0, TypeInv, HistoryOK, ExplainInv, [Next]_vars PROVE ExplainInv'
  OBVIOUS
<1>1. CASE UNCHANGED vars
  BY <1>1 DEF vars, ExplainInv, CopiesExplained, Accounted, AuditedOrPending, Pending
<1>2. CASE Next
  <2>0. handler \in [Handlers -> HandlerState]
    BY DEF TypeInv, StoresOK
  <2>1. Accounted \subseteq Accounted'
    BY <1>2, AccountedGrows
  <2>2. ASSUME NEW h \in Handlers, NEW op \in Reviews, NEW v \in Versions, Decides(h, op, v)
        PROVE  <<v, op>> \in Accounted'
    <3>1. PICK A \in Aggregate : handler' = [handler EXCEPT ![h] = Saving(op, v, A)]
      <4>1. ASSUME NEW A \in Aggregate, Permitted(A, op, v)
            PROVE  Transitioned(A, op, v) \in Aggregate
        BY <4>1, TransitionedShape
      <4>2. LoadedSkill \in Aggregate /\ handler[h].skill \in Aggregate
        BY <2>0, LoadedShape DEF HandlerState
      <4> QED
        BY <2>2, <4>1, <4>2 DEF Decides, Review, PassGate
    <3> DEFINE s == Saving(op, v, A)
    <3>2. s.stage = "save" /\ s.op = op /\ s.version = v
      BY SavingShape
    <3> HIDE DEF s
    <3>3. handler'[h] = s
      BY <2>0, <3>1 DEF s
    <3> QED
      BY <3>2, <3>3 DEF Accounted, AuditedOrPending, Pending
  <2> DEFINE S == Accounted
             T == Accounted'
  <2> HIDE DEF S, T
  <2>3. CopiesExplained(S) /\ S \subseteq T
    BY <2>1 DEF ExplainInv, S, T
  <2>4. \A h \in Handlers, op \in Reviews, v \in Versions : Decides(h, op, v) => <<v, op>> \in T
    BY <2>2 DEF T
  <2>5. /\ Explained(rows', T) /\ Explained(yaml', T)
        /\ \A h \in Handlers : Explained(handler'[h].skill, T)
    BY <1>2, <2>3, <2>4, CopiesStep
  <2> QED
    BY <2>5 DEF ExplainInv, CopiesExplained, T
<1> QED
  BY <1>1, <1>2

\* Each command behind a version's status in the catalog has left its audit
\* entry or is about to (review-skill.usecase.ts saves before it audits), for
\* any number of handlers, as long as none of them dies between the two.
THEOREM Audited == ASSUME MaxFaults = 0 PROVE Spec => []AuditExplainsStatus
<1>1. Init => ExplainInv
  BY InitialShapes, NothingToExplain DEF Init, ExplainInv, CopiesExplained, Idle
<1>2. Spec => [](TypeInv /\ HistoryOK /\ ExplainInv)
  BY <1>1, HistoryInit, TypeInvInit, TypeInvStep, HistoryStep, ExplainStep, PTL DEF Spec
<1>3. ExplainInv => AuditExplainsStatus
  BY DEF ExplainInv, CopiesExplained, Explained, Accounted, AuditExplainsStatus
<1> QED
  BY <1>2, <1>3, PTL

-----------------------------------------------------------------------------
(* Nothing is published past the judgement gate, under any policy and       *)
(* however often a handler is cut off.                                      *)
(*                                                                          *)
(* The gate is passed once, long before the catalog shows the publication,  *)
(* and by then the status may have travelled through other handlers and     *)
(* both stores.  So the invariant is, again, about every copy of the        *)
(* aggregate: a status that publish lies behind is one of a version that    *)
(* may be published, and a version that may never stops being one.          *)

Gated ==
    {v \in Versions :
        \/ Policy = "disabled"
        \/ v \in judged
        \/ \E entry \in {"override", "ungated"} : <<v, entry>> \in audit}

PastGate == {entry \in Versions \X Reviews : entry[2] = "publish" => entry[1] \in Gated}

\* Judgements and audit entries are only added.
LEMMA GatedGrows ==
    ASSUME Next
    PROVE  judged \subseteq judged' /\ audit \subseteq audit'
<1>1. ASSUME NEW h \in Handlers, Command(h) PROVE judged' = judged /\ audit' = audit
  BY <1>1 DEF Command, Review, BeginPublish, BeginCreate, BeginUpdate, BeginEdit, BeginRebuild
<1>2. ASSUME NEW h \in Handlers, Continue(h) PROVE judged' = judged /\ audit \subseteq audit'
  BY <1>2 DEF Continue, PassGate, StoreArtifacts, WriteYaml, UpsertCatalog, AppendAudit,
              IndexVersion, RemoveVersion, WipeCatalog, RefillCatalog, ReindexAll
<1>3. ASSUME NEW h \in Handlers, Abort(h) PROVE judged' = judged /\ audit' = audit
  BY <1>3 DEF Abort
<1>4. ASSUME NEW v \in Versions, JudgeVersion(v) PROVE judged \subseteq judged' /\ audit' = audit
  BY <1>4 DEF JudgeVersion
<1> QED
  BY <1>1, <1>2, <1>3, <1>4 DEF Next

\* A publication that passes the gate is judged, or leaves the entry that says
\* why it was let through.
LEMMA GateLeavesReason ==
    ASSUME TypeInv, NEW h \in Handlers, PassGate(h), GateOpen(h)
    PROVE  handler[h].version \in Gated'
<1> DEFINE v == handler[h].version
<1>1. v \in Versions
  BY DEF TypeInv, WellPlaced, PassGate
<1>2. audit' = audit \cup GateEntries(h) /\ judged' = judged
  BY DEF PassGate
<1>3. CASE Ungated(v)
  BY <1>1, <1>2, <1>3 DEF Ungated, Gated
<1>4. CASE ~Ungated(v) /\ Policy = "warn"
  <2>1. GateEntries(h) = {<<v, "ungated">>}
    BY <1>4 DEF GateEntries
  <2> QED
    BY <1>1, <1>2, <2>1 DEF Gated
<1>5. CASE ~Ungated(v) /\ Policy = "required" /\ handler[h].override
  <2>1. GateEntries(h) = {<<v, "override">>}
    BY <1>5 DEF GateEntries
  <2> QED
    BY <1>1, <1>2, <2>1 DEF Gated
<1> QED
  BY <1>3, <1>4, <1>5, RegistryAssumption DEF GateOpen, Ungated

GateInv == CopiesExplained(PastGate)

LEMMA GateStep == TypeInv /\ GateInv /\ [Next]_vars => GateInv'
<1> SUFFICES ASSUME TypeInv, GateInv, [Next]_vars PROVE GateInv'
  OBVIOUS
<1>1. CASE UNCHANGED vars
  BY <1>1 DEF vars, GateInv, CopiesExplained, PastGate, Gated
<1>2. CASE Next
  <2>1. PastGate \subseteq PastGate'
    BY <1>2, GatedGrows DEF PastGate, Gated
  <2>2. ASSUME NEW h \in Handlers, NEW op \in Reviews, NEW v \in Versions, Decides(h, op, v)
        PROVE  <<v, op>> \in PastGate'
    <3>1. CASE op # "publish"
      BY <3>1 DEF PastGate
    <3>2. CASE op = "publish"
      <4>1. PassGate(h) /\ GateOpen(h) /\ v = handler[h].version
        BY <2>2, <3>2 DEF Decides, Review
      <4>2. v \in Gated'
        BY <4>1, GateLeavesReason
      <4> QED
        BY <4>2 DEF PastGate
    <3> QED
      BY <3>1, <3>2
  <2> DEFINE S == PastGate
             T == PastGate'
  <2> HIDE DEF S, T
  <2>3. CopiesExplained(S) /\ S \subseteq T
    BY <2>1 DEF GateInv, S, T
  <2>4. \A h \in Handlers, op \in Reviews, v \in Versions : Decides(h, op, v) => <<v, op>> \in T
    BY <2>2 DEF T
  <2>5. /\ Explained(rows', T) /\ Explained(yaml', T)
        /\ \A h \in Handlers : Explained(handler'[h].skill, T)
    BY <1>2, <2>3, <2>4, CopiesStep
  <2> QED
    BY <2>5 DEF GateInv, CopiesExplained, T
<1> QED
  BY <1>1, <1>2

\* A version the catalog shows as published was judged, or the audit log says on
\* whose word or under which policy it was let through
\* (enforcePublishJudgementPolicy), for any number of handlers and any policy,
\* even when handlers are cut off between two writes.
THEOREM GateHolds == Spec => []GateRespected
<1>1. Init => GateInv
  BY InitialShapes, NothingToExplain DEF Init, GateInv, CopiesExplained, Idle
<1>2. Spec => [](TypeInv /\ GateInv)
  BY <1>1, TypeInvInit, TypeInvStep, GateStep, PTL DEF Spec
<1>3. GateInv => GateRespected
  <2> SUFFICES ASSUME GateInv, NEW v \in Published(rows) PROVE v \in Gated
    BY DEF GateRespected, Gated
  <2>1. v \in Existing(rows) /\ "publish" \in History(rows[v].status)
    BY DEF Published, History
  <2>2. <<v, "publish">> \in PastGate
    BY <2>1 DEF GateInv, CopiesExplained, Explained
  <2> QED
    BY <2>2 DEF PastGate
<1> QED
  BY <1>2, <1>3, PTL

-----------------------------------------------------------------------------
(* The search index shows only what somebody published, as long as no       *)
(* handler dies.                                                            *)

\* A handler about to index has written its entry.
AuditedBeforeIndexed ==
    \A h \in Handlers :
        handler[h].stage = "index" => <<handler[h].version, "publish">> \in Accounted

IndexInv == AuditedBeforeIndexed /\ \A v \in index : <<v, "publish">> \in Accounted

LEMMA IndexStep ==
    MaxFaults = 0 /\ TypeInv /\ HistoryOK /\ ExplainInv /\ IndexInv /\ [Next]_vars => IndexInv'
<1> SUFFICES ASSUME MaxFaults = 0, TypeInv, HistoryOK, ExplainInv, IndexInv, [Next]_vars
             PROVE  IndexInv'
  OBVIOUS
<1>1. CASE UNCHANGED vars
  BY <1>1 DEF vars, IndexInv, AuditedBeforeIndexed, Accounted, AuditedOrPending, Pending
<1>2. CASE Next
  <2>0. /\ handler \in [Handlers -> HandlerState]
        /\ \A h \in Handlers : WellPlaced(handler[h])
    BY DEF TypeInv, StoresOK
  <2> DEFINE T == Accounted'
  <2>1. Accounted \subseteq T
    BY <1>2, AccountedGrows
  <2> HIDE DEF T
  \* The handler that moves does not come to index unaudited, and what it adds to
  \* the index is accounted for.
  <2>2. ASSUME NEW h \in Handlers, NEW s, handler' = [handler EXCEPT ![h] = s],
               s.stage = "index" => <<s.version, "publish">> \in T,
               \A v \in index' : v \in index \/ <<v, "publish">> \in T
        PROVE  IndexInv'
    <3>1. ASSUME NEW g \in Handlers, handler'[g].stage = "index"
          PROVE  <<handler'[g].version, "publish">> \in T
      <4>1. handler'[g] = IF g = h THEN s ELSE handler[g]
        BY <2>0, <2>2
      <4>2. CASE g = h
        BY <2>2, <3>1, <4>1, <4>2
      <4>3. CASE g # h
        BY <2>1, <3>1, <4>1, <4>3 DEF IndexInv, AuditedBeforeIndexed
      <4> QED
        BY <4>2, <4>3
    <3>2. \A v \in index' : <<v, "publish">> \in T
      BY <2>1, <2>2 DEF IndexInv
    <3> QED
      BY <3>1, <3>2 DEF IndexInv, AuditedBeforeIndexed, T
  <2>3. ASSUME NEW h \in Handlers, Command(h) PROVE IndexInv'
    <3> DEFINE Moves == \E s : handler' = [handler EXCEPT ![h] = s] /\ s.stage # "index"
    <3>0. ASSUME NEW s, handler' = [handler EXCEPT ![h] = s], s.stage # "index" PROVE Moves
      BY <3>0
    <3>1. Moves
      <4> HIDE DEF Moves
      <4>1. ASSUME NEW op \in Reviews, NEW v \in Versions, Review(h, op, v) PROVE Moves
        <5>1. Saving(op, v, Transitioned(LoadedSkill, op, v)).stage # "index"
          BY DEF Saving, Idle
        <5> QED
          BY <3>0, <4>1, <5>1 DEF Review
      <4>2. ASSUME NEW v \in Versions, NEW override \in Overrides, BeginPublish(h, v, override)
            PROVE  Moves
        <5> DEFINE s == [Idle EXCEPT !.stage = "gate", !.op = "publish", !.version = v,
                                     !.skill = LoadedSkill, !.override = override]
        <5>1. s.stage # "index"
          BY DEF Idle
        <5> HIDE DEF s
        <5> QED
          BY <3>0, <4>2, <5>1 DEF BeginPublish, s
      <4>3. ASSUME NEW content \in Contents, BeginCreate(h, content) PROVE Moves
        <5> DEFINE s == [Idle EXCEPT !.stage = "copy", !.op = "create", !.version = 1,
                                     !.content = content]
        <5>1. s.stage # "index"
          BY DEF Idle
        <5> HIDE DEF s
        <5> QED
          BY <3>0, <4>3, <5>1 DEF BeginCreate, s
      <4>4. CASE BeginUpdate(h)
        <5>1. PICK base : handler' = [handler EXCEPT ![h] =
                      [Idle EXCEPT !.stage = "copy", !.op = "update", !.version = base + 1,
                                   !.skill = LoadedSkill]]
          BY <4>4 DEF BeginUpdate
        <5> DEFINE next == base + 1
                   s == [Idle EXCEPT !.stage = "copy", !.op = "update", !.version = next,
                                     !.skill = LoadedSkill]
        <5>2. handler' = [handler EXCEPT ![h] = s]
          BY <5>1
        <5> HIDE DEF next
        <5>3. s.stage # "index"
          BY DEF Idle
        <5> HIDE DEF s
        <5> QED
          BY <3>0, <5>2, <5>3
      <4>5. ASSUME NEW base \in Versions, NEW content \in Contents, BeginEdit(h, base, content)
            PROVE  Moves
        <5> DEFINE next == base + 1
                   s == [Idle EXCEPT !.stage = "copy", !.op = "edit", !.version = next,
                                     !.skill = LoadedSkill, !.content = content]
        <5>1. handler' = [handler EXCEPT ![h] = s]
          BY <4>5 DEF BeginEdit
        <5> HIDE DEF next
        <5>2. s.stage # "index"
          BY DEF Idle
        <5> HIDE DEF s
        <5> QED
          BY <3>0, <5>1, <5>2
      <4>6. CASE BeginRebuild(h)
        <5> DEFINE s == [Idle EXCEPT !.stage = "wipe", !.op = "rebuild", !.skill = yaml]
        <5>1. s.stage # "index"
          BY DEF Idle
        <5> HIDE DEF s
        <5> QED
          BY <3>0, <4>6, <5>1 DEF BeginRebuild, s
      <4> QED
        BY <2>3, <4>1, <4>2, <4>3, <4>4, <4>5, <4>6 DEF Command
    <3>2. index' = index
      BY <2>3 DEF Command, Review, BeginPublish, BeginCreate, BeginUpdate, BeginEdit, BeginRebuild
    <3> QED
      BY <2>2, <3>1, <3>2
  <2>4. ASSUME NEW h \in Handlers, PassGate(h) \/ StoreArtifacts(h) PROVE IndexInv'
    <3>1. PICK s : handler' = [handler EXCEPT ![h] = s] /\ s.stage \in {"save", "idle"}
      <4>1. \A op, v, A : Saving(op, v, A).stage = "save"
        BY DEF Saving, Idle
      <4>2. Idle.stage = "idle"
        BY DEF Idle
      <4>3. CASE PassGate(h)
        <5> DEFINE v == handler[h].version
                   skill == handler[h].skill
                   s == IF GateOpen(h) /\ Permitted(skill, "publish", v)
                        THEN Saving("publish", v, Transitioned(skill, "publish", v)) ELSE Idle
        <5>1. handler' = [handler EXCEPT ![h] = s]
          BY <4>3 DEF PassGate
        <5>2. s.stage \in {"save", "idle"}
          BY <4>1, <4>2
        <5> QED
          BY <5>1, <5>2
      <4>4. CASE StoreArtifacts(h)
        <5> DEFINE v == handler[h].version
                   skill == handler[h].skill
                   content == IF handler[h].op = "update" THEN files[v - 1]
                                                          ELSE handler[h].content
                   s == IF skill[v] = NoVersion
                        THEN Saving("draft", v, [skill EXCEPT ![v] = DraftOf(content)]) ELSE Idle
        <5>1. handler' = [handler EXCEPT ![h] = s]
          BY <4>4 DEF StoreArtifacts
        <5>2. s.stage \in {"save", "idle"}
          BY <4>1, <4>2
        <5> QED
          BY <5>1, <5>2
      <4> QED
        BY <2>4, <4>3, <4>4
    <3>2. index' = index
      BY <2>4 DEF PassGate, StoreArtifacts
    <3> QED
      BY <2>2, <3>1, <3>2
  <2>5. ASSUME NEW h \in Handlers, WriteYaml(h) PROVE IndexInv'
    <3> DEFINE v == CHOOSE w \in handler[h].unsaved : \A u \in handler[h].unsaved : w <= u
               left == handler[h].unsaved \ {v}
               stage == IF left = {} THEN "catalog" ELSE "save"
               s == [handler[h] EXCEPT !.unsaved = left, !.stage = stage]
    <3>1. handler' = [handler EXCEPT ![h] = s] /\ index' = index
      BY <2>5 DEF WriteYaml
    <3> HIDE DEF left, v
    <3>2. s.stage # "index"
      BY <2>0 DEF HandlerState
    <3> HIDE DEF s
    <3> QED
      BY <2>2, <3>1, <3>2
  <2>6. ASSUME NEW h \in Handlers, UpsertCatalog(h) \/ WipeCatalog(h) \/ RefillCatalog(h)
        PROVE  IndexInv'
    <3>1. PICK s : handler' = [handler EXCEPT ![h] = s] /\ s.stage # "index"
      BY <2>0, <2>6 DEF UpsertCatalog, WipeCatalog, RefillCatalog, HandlerState
    <3>2. index' = index
      BY <2>6 DEF UpsertCatalog, WipeCatalog, RefillCatalog
    <3> QED
      BY <2>2, <3>1, <3>2
  <2>7. ASSUME NEW h \in Handlers, AppendAudit(h) PROVE IndexInv'
    <3>1. index' = index /\ <<handler[h].version, handler[h].op>> \in audit'
      BY <2>7 DEF AppendAudit
    <3>2. CASE handler[h].op = "publish"
      <4> DEFINE s == [handler[h] EXCEPT !.stage = "index"]
      <4>1. handler' = [handler EXCEPT ![h] = s]
        BY <2>7, <3>2 DEF AppendAudit
      <4>2. s.version = handler[h].version
        BY <2>0 DEF HandlerState
      <4>3. <<s.version, "publish">> \in T
        <5>1. handler[h].version \in Versions /\ "publish" \in Reviews
          BY <2>0, <2>7 DEF AppendAudit, WellPlaced, Reviews
        <5> QED
          BY <3>1, <3>2, <4>2, <5>1 DEF T, Accounted, AuditedOrPending
      <4> HIDE DEF s
      <4> QED
        BY <2>2, <3>1, <4>1, <4>3
    <3>3. CASE handler[h].op # "publish"
      <4>1. PICK s \in {[handler[h] EXCEPT !.stage = "unindex"], Idle} :
              handler' = [handler EXCEPT ![h] = s]
        BY <2>7, <3>3 DEF AppendAudit
      <4>2. s.stage # "index"
        BY <2>0, <4>1 DEF HandlerState, Idle
      <4> QED
        BY <2>2, <3>1, <4>1, <4>2
    <3> QED
      BY <3>2, <3>3
  <2>8. ASSUME NEW h \in Handlers, IndexVersion(h) \/ RemoveVersion(h) \/ ReindexAll(h)
        PROVE  IndexInv'
    <3>1. handler' = [handler EXCEPT ![h] = Idle] /\ Idle.stage # "index"
      BY <2>8 DEF IndexVersion, RemoveVersion, ReindexAll, Idle
    <3>2. CASE IndexVersion(h)
      <4>1. <<handler[h].version, "publish">> \in T
        BY <2>1, <3>2 DEF IndexVersion, IndexInv, AuditedBeforeIndexed
      <4> QED
        BY <2>2, <3>1, <3>2, <4>1 DEF IndexVersion
    <3>3. CASE RemoveVersion(h)
      BY <2>2, <3>1, <3>3 DEF RemoveVersion
    <3>4. CASE ReindexAll(h)
      <4>1. ASSUME NEW v \in Published(handler[h].skill) PROVE <<v, "publish">> \in T
        BY <2>1 DEF Published, ExplainInv, CopiesExplained, Explained, History
      <4> QED
        BY <2>2, <3>1, <3>4, <4>1 DEF ReindexAll
    <3> QED
      BY <2>8, <3>2, <3>3, <3>4
  <2>9. ASSUME NEW v \in Versions, JudgeVersion(v) PROVE IndexInv'
    BY <2>1, <2>9 DEF JudgeVersion, IndexInv, AuditedBeforeIndexed, T
  <2>10. \A h \in Handlers : ~Abort(h)
    BY DEF Abort, HistoryOK
  <2> QED
    BY <1>2, <2>3, <2>4, <2>5, <2>6, <2>7, <2>8, <2>9, <2>10 DEF Next, Continue
<1> QED
  BY <1>1, <1>2

\* Whatever the search index holds was published by somebody, and the audit log
\* says so or is about to (review-skill.usecase.ts audits before it indexes; a
\* rebuild indexes the aggregate it read), for any number of handlers.
THEOREM IndexAudited == ASSUME MaxFaults = 0 PROVE Spec => []IndexExplained
<1>1. Init => ExplainInv /\ IndexInv
  BY InitialShapes, NothingToExplain
     DEF Init, ExplainInv, CopiesExplained, IndexInv, AuditedBeforeIndexed, Idle
<1>2. Spec => [](TypeInv /\ HistoryOK /\ ExplainInv /\ IndexInv)
  BY <1>1, HistoryInit, TypeInvInit, TypeInvStep, HistoryStep, ExplainStep, IndexStep, PTL DEF Spec
<1>3. IndexInv => IndexExplained
  BY DEF IndexInv, IndexExplained, Accounted
<1> QED
  BY <1>2, <1>3, PTL
-----------------------------------------------------------------------------
(* One command after the other                                              *)
(*                                                                          *)
(* What follows is about a single handler: overlapping commands overwrite   *)
(* each other's copies, and nothing below holds of them.  The invariant     *)
(* says, stage by stage, what the copy being worked on has to do with the   *)
(* stores: Ahead, whatever was cut off before; Tidy, as long as nothing was *)
(* cut off that a rebuild has not made good.  s is a handler's state, Y the *)
(* stored yaml, R the catalog's rows and I the search index.                *)

\* Commands do not overlap.
OneHandler == \E h \in Handlers : \A g \in Handlers : g = h

\* The aggregate that commands act on and readers see.
ShownOf(Y, R) == IF Existing(R) # {} THEN R ELSE Y
Shown == ShownOf(yaml, rows)

StatusIn(A, v) == IF A[v] = NoVersion THEN NoVersion ELSE A[v].status

\* The transitions of the abstract specification that commands make.
Steps ==
    {<<NoVersion, "draft">>, <<"draft", "in_review">>, <<"in_review", "approved">>,
     <<"approved", "published">>, <<"published", "deprecated">>,
     <<"draft", "rejected">>, <<"in_review", "rejected">>, <<"approved", "rejected">>}

\* B is at most one transition of each version ahead of A.
Follows(B, A) ==
    \A v \in Versions :
        StatusIn(B, v) = StatusIn(A, v) \/ <<StatusIn(A, v), StatusIn(B, v)>> \in Steps

Alike(A, B) == \A v \in Versions : StatusIn(A, v) = StatusIn(B, v)

\* The files are at most one transition ahead of what is shown, and so is a copy
\* being saved, of which the files already have what was written.
Ahead(s, Y, R) ==
    /\ Follows(Y, ShownOf(Y, R))
    /\ s.stage \in {"gate", "copy"} => Alike(s.skill, ShownOf(Y, R))
    /\ s.stage \in {"save", "catalog"} => Follows(s.skill, ShownOf(Y, R))
    /\ s.stage = "save" => s.unsaved # {} /\ s.unsaved \subseteq Existing(s.skill)
    /\ s.stage = "save" => \A v \in Existing(s.skill) \ s.unsaved : Y[v] = s.skill[v]
    /\ s.stage = "catalog" => \A v \in Existing(s.skill) : Y[v] = s.skill[v]
    /\ s.stage = "index" => s.op = "publish"
    /\ s.stage = "unindex" => s.op = "deprecate"
    /\ s.stage \in {"wipe", "refill", "reindex"} => s.skill = Y
    /\ s.stage = "refill" => Existing(R) = {}
    /\ s.stage = "reindex" => R = Y

\* What the search index still lacks of the published versions of A is the document
\* that the command is about to write or to remove.
Indexing(op, v, A, I) ==
    /\ op = "publish" => I \cup {v} = Published(A)
    /\ op = "deprecate" => I \ {v} = Published(A)
    /\ op \notin {"publish", "deprecate"} => I = Published(A)

\* The stores agree but for what the command has yet to write.
Tidy(s, Y, R, I) ==
    /\ s.stage \in {"idle", "gate", "copy"} => R = Y /\ I = Published(R)
    /\ s.stage \in {"save", "catalog"} =>
          Existing(Y) \subseteq Existing(s.skill) /\ Indexing(s.op, s.version, s.skill, I)
    /\ s.stage \in {"audit", "index", "unindex"} => R = Y /\ Indexing(s.op, s.version, R, I)

SoloInv ==
    \A h \in Handlers :
        /\ Ahead(handler[h], yaml, rows)
        /\ ~cut => Tidy(handler[h], yaml, rows, index)


\* What two aggregates with the same statuses have in common, and what follows
\* from the one follows from the other.
LEMMA AlikeFacts ==
    ASSUME NEW A \in Aggregate, NEW B \in Aggregate, Alike(A, B)
    PROVE  Existing(A) = Existing(B) /\ Published(A) = Published(B) /\ Follows(A, B)
<1>1. ASSUME NEW v \in Versions
      PROVE  /\ A[v] = NoVersion <=> B[v] = NoVersion
             /\ A[v] # NoVersion => A[v].status = B[v].status
  <2>1. /\ A[v] = NoVersion \/ A[v].status \in Statuses
        /\ B[v] = NoVersion \/ B[v].status \in Statuses
    BY DEF Aggregate, VersionRecord
  <2> QED
    BY <2>1, NoVersionAssumption DEF Alike, StatusIn
<1> QED
  BY <1>1 DEF Existing, Published, Follows, Alike

\* No transition leads to the absence of a version, or from it to another status
\* than draft.
LEMMA FollowsFacts ==
    ASSUME NEW A \in Aggregate, NEW B \in Aggregate, Follows(B, A)
    PROVE  /\ Existing(A) \subseteq Existing(B)
           /\ \A v \in Versions : A[v] = NoVersion /\ B[v] # NoVersion => B[v].status = "draft"
<1>1. ASSUME NEW v \in Versions
      PROVE  /\ A[v] # NoVersion => B[v] # NoVersion
             /\ A[v] = NoVersion /\ B[v] # NoVersion => B[v].status = "draft"
  <2>1. /\ A[v] = NoVersion \/ A[v].status \in Statuses
        /\ B[v] = NoVersion \/ B[v].status \in Statuses
    BY DEF Aggregate, VersionRecord
  <2> QED
    BY <2>1, NoVersionAssumption DEF Follows, StatusIn, Steps, Statuses
<1> QED
  BY <1>1 DEF Existing

LEMMA LoadedAlike ==
    ASSUME TypeInv
    PROVE  Shown \in Aggregate /\ LoadedSkill \in Aggregate /\ Alike(LoadedSkill, Shown)
<1>1. yaml \in Aggregate /\ rows \in Aggregate /\ LoadedSkill \in Aggregate
  BY LoadedShape DEF TypeInv, StoresOK
<1>2. CASE Existing(rows) # {}
  <2>1. LoadedSkill = Hydrated(rows) /\ Shown = rows
    BY <1>2 DEF LoadedSkill, Shown, ShownOf
  <2> QED
    BY <1>1, <2>1, HydratedShape DEF Alike, StatusIn, Existing
<1>3. CASE Existing(rows) = {}
  BY <1>1, <1>3 DEF LoadedSkill, Shown, ShownOf, Alike
<1> QED
  BY <1>2, <1>3

\* A review command moves its version along the table.
LEMMA TransitionedFollows ==
    ASSUME NEW A \in Aggregate, NEW B \in Aggregate, Alike(A, B),
           NEW op \in Reviews, NEW v \in Versions, Permitted(A, op, v)
    PROVE  LET T == Transitioned(A, op, v) IN
           /\ Follows(T, B)
           /\ op = "publish" => Published(T) = Published(A) \cup {v}
           /\ op = "deprecate" => Published(T) = Published(A) \ {v}
           /\ op \notin {"publish", "deprecate"} => Published(T) = Published(A)
<1> DEFINE T == Transitioned(A, op, v)
<1>1. /\ T \in Aggregate /\ Existing(T) = Existing(A)
      /\ \A w \in Existing(A) : T[w].status = IF w = v THEN TargetStatus(op) ELSE A[w].status
  BY TransitionedShape
<1>2. v \in Existing(A) /\ A[v].status \in SourceStatuses(op)
  BY DEF Permitted
<1>3. <<A[v].status, TargetStatus(op)>> \in Steps
  BY <1>2 DEF Reviews, SourceStatuses, TargetStatus, Steps
<1>4. /\ TargetStatus(op) = "published" <=> op = "publish"
      /\ A[v].status = "published" <=> op = "deprecate"
  BY <1>2 DEF Reviews, SourceStatuses, TargetStatus
<1> HIDE DEF T
<1>5. \A w \in Versions : /\ T[w] = NoVersion <=> A[w] = NoVersion
                          /\ A[w] # NoVersion /\ w # v => T[w].status = A[w].status
  BY <1>1 DEF Existing
<1>6. A[v] # NoVersion /\ T[v] # NoVersion /\ T[v].status = TargetStatus(op)
  BY <1>1, <1>2 DEF Existing
<1>7. Follows(T, B)
  <2> SUFFICES ASSUME NEW w \in Versions
               PROVE  \/ StatusIn(T, w) = StatusIn(B, w)
                      \/ <<StatusIn(B, w), StatusIn(T, w)>> \in Steps
    BY DEF Follows
  <2>1. StatusIn(A, w) = StatusIn(B, w)
    BY DEF Alike
  <2>2. CASE w = v
    BY <1>3, <1>6, <2>1, <2>2 DEF StatusIn
  <2>3. CASE w # v
    BY <1>5, <2>1, <2>3 DEF StatusIn
  <2> QED
    BY <2>2, <2>3
<1>8. /\ op = "publish" => Published(T) = Published(A) \cup {v}
      /\ op = "deprecate" => Published(T) = Published(A) \ {v}
      /\ op \notin {"publish", "deprecate"} => Published(T) = Published(A)
  <2>1. /\ Published(T) = {w \in Existing(A) : T[w].status = "published"}
        /\ Published(A) = {w \in Existing(A) : A[w].status = "published"}
    BY <1>1 DEF Published
  <2> QED
    BY <1>1, <1>2, <1>4, <2>1
<1> QED
  BY <1>7, <1>8 DEF T

\* A new version is a draft.
LEMMA DraftFollows ==
    ASSUME NEW A \in Aggregate, NEW B \in Aggregate, Alike(A, B),
           NEW v \in Versions, A[v] = NoVersion, NEW content \in Contents \cup {NoContent}
    PROVE  LET D == [A EXCEPT ![v] = DraftOf(content)] IN
           /\ D \in Aggregate /\ Follows(D, B)
           /\ Existing(D) = Existing(A) \cup {v} /\ Published(D) = Published(A)
<1> DEFINE d == DraftOf(content)
           D == [A EXCEPT ![v] = d]
<1>1. d \in VersionRecord /\ d.status = "draft" /\ d # NoVersion
  BY NoVersionAssumption DEF DraftOf, VersionRecord, Statuses, Stamps
<1> HIDE DEF d
<1>2. D \in Aggregate /\ \A w \in Versions : D[w] = IF w = v THEN d ELSE A[w]
  BY <1>1 DEF Aggregate
<1> HIDE DEF D
<1>3. Existing(D) = Existing(A) \cup {v}
  BY <1>1, <1>2 DEF Existing
<1>4. Published(D) = Published(A)
  BY <1>1, <1>2, <1>3 DEF Published, Existing
<1>5. Follows(D, B)
  <2> SUFFICES ASSUME NEW w \in Versions
               PROVE  \/ StatusIn(D, w) = StatusIn(B, w)
                      \/ <<StatusIn(B, w), StatusIn(D, w)>> \in Steps
    BY DEF Follows
  <2>1. StatusIn(A, w) = StatusIn(B, w)
    BY DEF Alike
  <2>2. CASE w = v
    BY <1>1, <1>2, <2>1, <2>2 DEF StatusIn, Steps
  <2>3. CASE w # v
    BY <1>2, <2>1, <2>3 DEF StatusIn
  <2> QED
    BY <2>2, <2>3
<1> QED
  BY <1>2, <1>3, <1>4, <1>5 DEF D, d

\* A set of numbers has a least one.
LEMMA Least ==
    ASSUME NEW S \in SUBSET Nat, S # {}
    PROVE  \E n \in S : \A m \in S : n <= m
<1> DEFINE R == OpToRel(<, Nat)
<1>1. IsWellFoundedOn(R, Nat)
  BY NatLessThanWellFounded
<1> HIDE DEF R
<1>2. \E n \in S : \A m \in S : ~(<<m, n>> \in R)
  BY <1>1, WFMin
<1>3. PICK n \in S : \A m \in S : ~(<<m, n>> \in R)
  BY <1>2
<1>4. ASSUME NEW m \in S PROVE n <= m
  <2>1. m \in Nat /\ n \in Nat
    OBVIOUS
  <2>2. m < n => <<m, n>> \in R
    BY <2>1 DEF R, OpToRel
  <2>3. ~(m < n)
    BY <1>3, <2>2
  <2> QED
    BY <2>1, <2>3
<1> QED
  BY <1>4

\* The version written next is one of those that are not written yet.
LEMMA FirstUnsaved ==
    ASSUME NEW S \in SUBSET Versions, S # {}
    PROVE  (CHOOSE w \in S : \A u \in S : w <= u) \in S
<1>1. S \subseteq Nat
  BY RegistryAssumption DEF Versions
<1> QED
  BY <1>1, Least

\* A command begins to save a copy that has everything the files have.
LEMMA SaveBegun ==
    ASSUME NEW Y \in Aggregate, NEW R \in Aggregate, NEW I, NEW A \in Aggregate,
           NEW op \in Reviews \cup {"draft"}, NEW v \in Versions,
           Follows(Y, ShownOf(Y, R)), Follows(A, ShownOf(Y, R)), Existing(A) # {}
    PROVE  /\ Ahead(Saving(op, v, A), Y, R)
           /\ Existing(Y) \subseteq Existing(A) /\ Indexing(op, v, A, I)
                => Tidy(Saving(op, v, A), Y, R, I)
<1> DEFINE s == Saving(op, v, A)
<1>1. s.stage = "save" /\ s.op = op /\ s.version = v /\ s.skill = A
  BY SavingShape
<1>2. s.unsaved = Existing(A)
  BY DEF Saving, Idle
<1> HIDE DEF s
<1>3. Ahead(s, Y, R)
  BY <1>1, <1>2 DEF Ahead
<1>4. Existing(Y) \subseteq Existing(A) /\ Indexing(op, v, A, I) => Tidy(s, Y, R, I)
  BY <1>1 DEF Tidy
<1> QED
  BY <1>3, <1>4 DEF s

\* One version of the copy reaches the files.
LEMMA YamlWritten ==
    ASSUME NEW Y \in Aggregate, NEW R \in Aggregate, NEW A \in Aggregate, NEW v \in Existing(A),
           Follows(Y, ShownOf(Y, R)), Follows(A, ShownOf(Y, R)),
           NEW Z, \A w \in Versions : Z[w] = IF w = v THEN A[w] ELSE Y[w]
    PROVE  /\ Follows(Z, ShownOf(Z, R)) /\ Follows(A, ShownOf(Z, R))
           /\ Follows(ShownOf(Z, R), ShownOf(Y, R))
           /\ Existing(Z) = Existing(Y) \cup {v}
<1>1. v \in Versions /\ A[v] # NoVersion
  BY DEF Existing
<1>2. Existing(Z) = Existing(Y) \cup {v}
  BY <1>1 DEF Existing
<1>3. \A w \in Versions : StatusIn(Z, w) = IF w = v THEN StatusIn(A, w) ELSE StatusIn(Y, w)
  BY DEF StatusIn
<1>4. CASE Existing(R) # {}
  <2>1. ShownOf(Z, R) = R /\ ShownOf(Y, R) = R
    BY <1>4 DEF ShownOf
  <2>2. Follows(Z, R)
    BY <1>3, <2>1 DEF Follows
  <2> QED
    BY <1>2, <2>1, <2>2 DEF Follows
<1>5. CASE Existing(R) = {}
  <2>1. ShownOf(Z, R) = Z /\ ShownOf(Y, R) = Y
    BY <1>5 DEF ShownOf
  <2>2. Follows(A, Z) /\ Follows(Z, Z) /\ Follows(Z, Y)
    BY <1>3, <2>1 DEF Follows
  <2> QED
    BY <1>2, <2>1, <2>2
<1> QED
  BY <1>4, <1>5

\* The copy, all of it in the files, replaces the rows.
LEMMA CatalogWritten ==
    ASSUME NEW Y \in Aggregate, NEW R \in Aggregate, NEW A \in Aggregate,
           Follows(Y, ShownOf(Y, R)), Follows(A, ShownOf(Y, R)),
           \A v \in Existing(A) : Y[v] = A[v]
    PROVE  /\ Follows(Y, ShownOf(Y, A)) /\ Follows(ShownOf(Y, A), ShownOf(Y, R))
           /\ Existing(Y) \subseteq Existing(A) => A = Y
<1>1. Existing(Y) \subseteq Existing(A) => A = Y
  BY DEF Existing, Aggregate
<1>2. CASE Existing(A) = {}
  BY <1>1, <1>2 DEF ShownOf, Follows
<1>3. CASE Existing(A) # {}
  <2> DEFINE S == ShownOf(Y, R)
  <2>0. S \in Aggregate
    BY DEF ShownOf
  <2>1. ShownOf(Y, A) = A
    BY <1>3 DEF ShownOf
  <2> HIDE DEF S
  <2>2. ASSUME NEW v \in Versions
        PROVE  StatusIn(Y, v) = StatusIn(A, v) \/ <<StatusIn(A, v), StatusIn(Y, v)>> \in Steps
    <3>1. CASE v \in Existing(A)
      BY <3>1 DEF StatusIn
    <3>2. CASE v \notin Existing(A)
      <4>1. v \notin Existing(S)
        BY <2>0, <3>2, FollowsFacts DEF S
      <4>2. StatusIn(A, v) = NoVersion /\ StatusIn(S, v) = NoVersion
        BY <3>2, <4>1 DEF StatusIn, Existing
      <4> QED
        BY <4>2 DEF S, Follows
    <3> QED
      BY <3>1, <3>2
  <2> QED
    BY <1>1, <2>1, <2>2 DEF Follows
<1> QED
  BY <1>2, <1>3

\* The only handler moves to s.
LEMMA SoloMoves ==
    ASSUME OneHandler, TypeInv, NEW h \in Handlers, NEW s, handler' = [handler EXCEPT ![h] = s],
           Ahead(s, yaml', rows'), ~cut' => Tidy(s, yaml', rows', index')
    PROVE  SoloInv'
<1>1. \A g \in Handlers : handler'[g] = s
  BY DEF OneHandler, TypeInv, StoresOK
<1> QED
  BY <1>1 DEF SoloInv

\* A command that has begun shows nothing yet.
LEMMA CommandSolo ==
    ASSUME OneHandler, TypeInv, SoloInv, NEW h \in Handlers, Command(h)
    PROVE  SoloInv' /\ Follows(Shown', Shown)
<1>0. /\ yaml \in Aggregate /\ rows \in Aggregate /\ handler[h].stage = "idle"
      /\ UNCHANGED <<yaml, rows, index, cut>>
  BY DEF TypeInv, StoresOK, Command, Review, BeginPublish, BeginCreate, BeginUpdate, BeginEdit,
         BeginRebuild, history
<1>1. /\ Follows(yaml, Shown)
      /\ ~cut => rows = yaml /\ index = Published(rows)
  BY <1>0 DEF SoloInv, Ahead, Tidy, Shown
<1>2. Follows(Shown', Shown)
  BY <1>0 DEF Shown, Follows
<1>3. Shown \in Aggregate /\ LoadedSkill \in Aggregate /\ Alike(LoadedSkill, Shown)
  BY LoadedAlike
<1>4. ASSUME ~cut PROVE Shown = yaml /\ Existing(LoadedSkill) = Existing(yaml)
                        /\ Published(LoadedSkill) = index
  <2>1. Shown = yaml
    BY <1>1, <1>4 DEF Shown, ShownOf
  <2> QED
    BY <1>0, <1>1, <1>3, <1>4, <2>1, AlikeFacts
\* A handler with a copy of what is shown.
<1>5. ASSUME NEW s, handler' = [handler EXCEPT ![h] = s],
             s.stage \in {"gate", "copy"}, Alike(s.skill, Shown)
      PROVE  SoloInv'
  <2>1. Ahead(s, yaml', rows')
    BY <1>0, <1>1, <1>5 DEF Ahead, Shown
  <2>2. ~cut' => Tidy(s, yaml', rows', index')
    BY <1>0, <1>1, <1>5 DEF Tidy
  <2> QED
    BY <1>5, <2>1, <2>2, SoloMoves
<1>6. ASSUME NEW op \in Reviews, NEW v \in Versions, Review(h, op, v) PROVE SoloInv'
  <2> DEFINE A == LoadedSkill
             T == Transitioned(A, op, v)
  <2>1. op # "publish" /\ Permitted(A, op, v) /\ handler' = [handler EXCEPT ![h] = Saving(op, v, T)]
    BY <1>6 DEF Review
  <2>2. /\ T \in Aggregate /\ Existing(T) = Existing(A) /\ Existing(A) # {}
        /\ Follows(T, Shown)
        /\ op = "deprecate" => Published(T) = Published(A) \ {v}
        /\ op \notin {"publish", "deprecate"} => Published(T) = Published(A)
    BY <1>3, <2>1, TransitionedShape, TransitionedFollows DEF Permitted
  <2> HIDE DEF A, T
  <2>3. ~cut => Existing(yaml) \subseteq Existing(T) /\ Indexing(op, v, T, index)
    BY <1>4, <2>1, <2>2 DEF Indexing, A
  <2>4. /\ Ahead(Saving(op, v, T), yaml, rows)
        /\ Existing(yaml) \subseteq Existing(T) /\ Indexing(op, v, T, index)
              => Tidy(Saving(op, v, T), yaml, rows, index)
    BY <1>0, <1>1, <2>2, SaveBegun DEF Shown
  <2>5. Ahead(Saving(op, v, T), yaml', rows') /\ (~cut' => Tidy(Saving(op, v, T), yaml', rows', index'))
    BY <1>0, <2>3, <2>4
  <2> QED
    BY <2>1, <2>5, SoloMoves
<1>7. ASSUME NEW v \in Versions, NEW override \in Overrides, BeginPublish(h, v, override)
      PROVE  SoloInv'
  <2> DEFINE s == [Idle EXCEPT !.stage = "gate", !.op = "publish", !.version = v,
                               !.skill = LoadedSkill, !.override = override]
  <2>1. s.stage = "gate" /\ s.skill = LoadedSkill
    BY DEF Idle
  <2>2. handler' = [handler EXCEPT ![h] = s]
    BY <1>7 DEF BeginPublish
  <2> HIDE DEF s
  <2> QED
    BY <1>3, <1>5, <2>1, <2>2
<1>8. ASSUME NEW content \in Contents, BeginCreate(h, content) PROVE SoloInv'
  <2> DEFINE s == [Idle EXCEPT !.stage = "copy", !.op = "create", !.version = 1,
                               !.content = content]
  <2>1. s.stage = "copy" /\ s.skill = NoSkill
    BY DEF Idle
  <2>2. handler' = [handler EXCEPT ![h] = s] /\ Existing(yaml) = {}
    BY <1>8 DEF BeginCreate, SkillDirectoryExists, Existing
  <2>3. Existing(Shown) = {}
    BY <1>0, <1>1, <1>3, <2>2, FollowsFacts
  <2>4. Alike(NoSkill, Shown)
    BY <2>3 DEF Alike, StatusIn, NoSkill, Existing
  <2> HIDE DEF s
  <2> QED
    BY <1>5, <2>1, <2>2, <2>4
<1>9. ASSUME BeginUpdate(h) PROVE SoloInv'
  <2>1. PICK base \in Existing(LoadedSkill) :
          handler' = [handler EXCEPT ![h] =
             [Idle EXCEPT !.stage = "copy", !.op = "update", !.version = base + 1,
                          !.skill = LoadedSkill]]
    BY <1>9 DEF BeginUpdate
  <2> DEFINE s == [Idle EXCEPT !.stage = "copy", !.op = "update", !.version = base + 1,
                               !.skill = LoadedSkill]
  <2>2. s.stage = "copy" /\ s.skill = LoadedSkill
    BY DEF Idle
  <2>3. handler' = [handler EXCEPT ![h] = s]
    BY <2>1
  <2> HIDE DEF s
  <2> QED
    BY <1>3, <1>5, <2>2, <2>3
<1>10. ASSUME NEW base \in Versions, NEW content \in Contents, BeginEdit(h, base, content)
       PROVE  SoloInv'
  <2> DEFINE s == [Idle EXCEPT !.stage = "copy", !.op = "edit", !.version = base + 1,
                               !.skill = LoadedSkill, !.content = content]
  <2>1. s.stage = "copy" /\ s.skill = LoadedSkill
    BY DEF Idle
  <2>2. handler' = [handler EXCEPT ![h] = s]
    BY <1>10 DEF BeginEdit
  <2> HIDE DEF s
  <2> QED
    BY <1>3, <1>5, <2>1, <2>2
<1>11. ASSUME BeginRebuild(h) PROVE SoloInv'
  <2> DEFINE s == [Idle EXCEPT !.stage = "wipe", !.op = "rebuild", !.skill = yaml]
  <2>1. s.stage = "wipe" /\ s.skill = yaml
    BY DEF Idle
  <2>2. handler' = [handler EXCEPT ![h] = s]
    BY <1>11 DEF BeginRebuild
  <2> HIDE DEF s
  <2>3. Ahead(s, yaml', rows') /\ Tidy(s, yaml', rows', index')
    BY <1>0, <1>1, <2>1 DEF Ahead, Tidy, Shown
  <2> QED
    BY <2>2, <2>3, SoloMoves
<1> QED
  BY <1>2, <1>6, <1>7, <1>8, <1>9, <1>10, <1>11 DEF Command

\* Going on with a command shows at most what the command has decided.
LEMMA ContinueSolo ==
    ASSUME OneHandler, TypeInv, SoloInv, NEW h \in Handlers, Continue(h)
    PROVE  SoloInv' /\ Follows(Shown', Shown)
<1>0. /\ yaml \in Aggregate /\ rows \in Aggregate /\ handler[h] \in HandlerState
      /\ files \in [Versions -> Contents \cup {NoContent}]
      /\ WellPlaced(handler[h]) /\ Ahead(handler[h], yaml, rows)
      /\ ~cut => Tidy(handler[h], yaml, rows, index)
  BY DEF TypeInv, StoresOK, SoloInv
<1>1. /\ handler[h].skill \in Aggregate /\ handler[h].unsaved \in SUBSET Versions
      /\ handler[h].content \in Contents \cup {NoContent}
  BY <1>0 DEF HandlerState
<1>2. Follows(yaml, Shown)
  BY <1>0 DEF Ahead, Shown
<1>3. /\ Shown \in Aggregate
      /\ UNCHANGED <<yaml, rows>> => Follows(Shown', Shown)
  BY <1>0 DEF Shown, ShownOf, Follows
\* A handler that has nothing left to do.
<1>4. ASSUME handler' = [handler EXCEPT ![h] = Idle], UNCHANGED <<yaml, rows>>,
             ~cut' => rows = yaml /\ index' = Published(rows)
      PROVE  SoloInv' /\ Follows(Shown', Shown)
  <2>1. Idle.stage = "idle"
    BY DEF Idle
  <2>2. Ahead(Idle, yaml', rows') /\ (~cut' => Tidy(Idle, yaml', rows', index'))
    BY <1>2, <1>4, <2>1 DEF Ahead, Tidy, Shown
  <2> QED
    BY <1>3, <1>4, <2>2, SoloMoves
\* A handler that begins to save a copy.
<1>5. ASSUME NEW A \in Aggregate, NEW op \in Reviews \cup {"draft"}, NEW v \in Versions,
             handler' = [handler EXCEPT ![h] = Saving(op, v, A)],
             UNCHANGED <<yaml, rows, index, cut>>, Follows(A, Shown), Existing(A) # {},
             ~cut => Existing(yaml) \subseteq Existing(A) /\ Indexing(op, v, A, index)
      PROVE  SoloInv' /\ Follows(Shown', Shown)
  <2>1. /\ Ahead(Saving(op, v, A), yaml, rows)
        /\ Existing(yaml) \subseteq Existing(A) /\ Indexing(op, v, A, index)
              => Tidy(Saving(op, v, A), yaml, rows, index)
    BY <1>0, <1>2, <1>5, SaveBegun DEF Shown
  <2>2. Ahead(Saving(op, v, A), yaml', rows') /\ (~cut' => Tidy(Saving(op, v, A), yaml', rows', index'))
    BY <1>5, <2>1
  <2> QED
    BY <1>3, <1>5, <2>2, SoloMoves
\* What a copy of what is shown has in common with the stores.
<1>6. ASSUME handler[h].stage \in {"gate", "copy"}
      PROVE  /\ Alike(handler[h].skill, Shown)
             /\ ~cut => /\ rows = yaml /\ index = Published(rows)
                        /\ Existing(handler[h].skill) = Existing(yaml)
                        /\ Published(handler[h].skill) = index
  <2>1. Alike(handler[h].skill, Shown)
    BY <1>0, <1>6 DEF Ahead, Shown
  <2>2. ASSUME ~cut PROVE rows = yaml /\ index = Published(rows) /\ Shown = yaml
    BY <1>0, <1>6, <2>2 DEF Tidy, Shown, ShownOf
  <2> QED
    BY <1>1, <1>3, <2>1, <2>2, AlikeFacts
<1>7. CASE PassGate(h)
  <2> DEFINE v == handler[h].version
             A == handler[h].skill
             T == Transitioned(A, "publish", v)
  <2>1. /\ handler[h].stage = "gate" /\ UNCHANGED <<yaml, rows, index, cut>>
        /\ v \in Versions /\ A \in Aggregate /\ Alike(A, Shown)
    BY <1>0, <1>1, <1>6, <1>7 DEF PassGate, history, WellPlaced
  <2>2. CASE GateOpen(h) /\ Permitted(A, "publish", v)
    <3>1. handler' = [handler EXCEPT ![h] = Saving("publish", v, T)]
      BY <1>7, <2>2 DEF PassGate
    <3>2. "publish" \in Reviews
      BY DEF Reviews
    <3>3. /\ T \in Aggregate /\ Existing(T) = Existing(A) /\ Existing(A) # {}
          /\ Follows(T, Shown) /\ Published(T) = Published(A) \cup {v}
      BY <1>3, <2>1, <2>2, <3>2, TransitionedShape, TransitionedFollows DEF Permitted
    <3> HIDE DEF T
    <3>4. ~cut => Existing(yaml) \subseteq Existing(T) /\ Indexing("publish", v, T, index)
      BY <1>6, <2>1, <3>3 DEF Indexing
    <3> HIDE DEF v, A
    <3> QED
      BY <1>5, <2>1, <3>1, <3>2, <3>3, <3>4
  <2>3. CASE ~(GateOpen(h) /\ Permitted(A, "publish", v))
    <3>1. handler' = [handler EXCEPT ![h] = Idle]
      BY <1>7, <2>3 DEF PassGate
    <3> QED
      BY <1>4, <1>6, <2>1, <3>1
  <2> QED
    BY <2>2, <2>3
<1>8. CASE StoreArtifacts(h)
  <2> DEFINE v == handler[h].version
             A == handler[h].skill
             content == IF handler[h].op = "update" THEN files[v - 1] ELSE handler[h].content
             D == [A EXCEPT ![v] = DraftOf(content)]
  <2>1. /\ handler[h].stage = "copy" /\ UNCHANGED <<yaml, rows, index, cut>>
        /\ v \in Versions /\ A \in Aggregate /\ Alike(A, Shown)
    BY <1>0, <1>1, <1>6, <1>8 DEF StoreArtifacts, history, WellPlaced
  <2>2. content \in Contents \cup {NoContent}
    BY <1>0, <1>1, <2>1 DEF WellPlaced
  <2>3. handler' = [handler EXCEPT ![h] = IF A[v] = NoVersion THEN Saving("draft", v, D) ELSE Idle]
    BY <1>8 DEF StoreArtifacts
  <2> HIDE DEF content
  <2>4. CASE A[v] = NoVersion
    <3>1. /\ D \in Aggregate /\ Follows(D, Shown)
          /\ Existing(D) = Existing(A) \cup {v} /\ Published(D) = Published(A)
      BY <1>3, <2>1, <2>2, <2>4, DraftFollows
    <3>2. handler' = [handler EXCEPT ![h] = Saving("draft", v, D)]
      BY <2>3, <2>4
    <3> HIDE DEF D
    <3>3. ~cut => Existing(yaml) \subseteq Existing(D) /\ Indexing("draft", v, D, index)
      BY <1>6, <2>1, <3>1 DEF Indexing
    <3> HIDE DEF v, A
    <3> QED
      BY <1>5, <2>1, <3>1, <3>2, <3>3
  <2>5. CASE A[v] # NoVersion
    <3>1. handler' = [handler EXCEPT ![h] = Idle]
      BY <2>3, <2>5
    <3> QED
      BY <1>4, <1>6, <2>1, <3>1
  <2> QED
    BY <2>4, <2>5
<1>9. CASE WriteYaml(h)
  <2> DEFINE A == handler[h].skill
             v == CHOOSE w \in handler[h].unsaved : \A u \in handler[h].unsaved : w <= u
             left == handler[h].unsaved \ {v}
             stage == IF left = {} THEN "catalog" ELSE "save"
             s == [handler[h] EXCEPT !.unsaved = left, !.stage = stage]
             Z == [yaml EXCEPT ![v] = A[v]]
  <2>1. /\ handler[h].stage = "save" /\ UNCHANGED <<rows, index, cut>>
        /\ yaml' = Z /\ handler' = [handler EXCEPT ![h] = s]
    BY <1>9 DEF WriteYaml, history
  <2>2. /\ handler[h].unsaved # {} /\ handler[h].unsaved \subseteq Existing(A)
        /\ Follows(A, Shown)
        /\ \A w \in Existing(A) \ handler[h].unsaved : yaml[w] = A[w]
    BY <1>0, <2>1 DEF Ahead, Shown
  <2>3. v \in handler[h].unsaved
    BY <1>1, <2>2, FirstUnsaved
  <2> HIDE DEF v
  <2>4. /\ s.stage = stage /\ s.unsaved = left /\ s.skill = A
        /\ s.op = handler[h].op /\ s.version = handler[h].version
    BY <1>0 DEF HandlerState
  <2>5. v \in Existing(A)
    BY <2>2, <2>3
  <2>6. /\ Follows(Z, ShownOf(Z, rows)) /\ Follows(A, ShownOf(Z, rows))
        /\ Follows(ShownOf(Z, rows), ShownOf(yaml, rows))
        /\ Existing(Z) = Existing(yaml) \cup {v}
        /\ \A w \in Versions : Z[w] = IF w = v THEN A[w] ELSE yaml[w]
    <3>1. Follows(yaml, ShownOf(yaml, rows)) /\ Follows(A, ShownOf(yaml, rows))
      BY <1>2, <2>2 DEF Shown
    <3>2. A \in Aggregate
      BY <1>1
    <3>3. yaml \in Aggregate /\ rows \in Aggregate
      BY <1>0
    <3>4. \A w \in Versions : Z[w] = IF w = v THEN A[w] ELSE yaml[w]
      BY <3>3 DEF Aggregate
    <3> HIDE DEF A, Z
    <3>5. /\ Follows(Z, ShownOf(Z, rows)) /\ Follows(A, ShownOf(Z, rows))
          /\ Follows(ShownOf(Z, rows), ShownOf(yaml, rows))
          /\ Existing(Z) = Existing(yaml) \cup {v}
      BY <2>5, <3>1, <3>2, <3>3, <3>4, YamlWritten
    <3> QED
      BY <3>4, <3>5
  <2> HIDE DEF Z, s
  <2>7. \A w \in Existing(A) \ left : Z[w] = A[w]
    BY <2>2, <2>6 DEF Existing
  <2>8. Ahead(s, Z, rows)
    <3>1. CASE left = {}
      BY <2>4, <2>6, <2>7, <3>1 DEF Ahead
    <3>2. CASE left # {}
      BY <2>2, <2>4, <2>6, <2>7, <3>2 DEF Ahead
    <3> QED
      BY <3>1, <3>2
  <2>9. ~cut => Tidy(s, Z, rows, index)
    <3>1. stage \in {"save", "catalog"}
      OBVIOUS
    <3> HIDE DEF stage
    <3> QED
      BY <1>0, <2>1, <2>4, <2>5, <2>6, <3>1 DEF Tidy
  <2>10. Ahead(s, yaml', rows') /\ (~cut' => Tidy(s, yaml', rows', index'))
    BY <2>1, <2>8, <2>9
  <2>11. Shown' = ShownOf(Z, rows)
    BY <2>1 DEF Shown
  <2> HIDE DEF A, left, stage
  <2> QED
    BY <2>1, <2>6, <2>10, <2>11, SoloMoves DEF Shown
<1>10. CASE UpsertCatalog(h)
  <2> DEFINE A == handler[h].skill
             s == [handler[h] EXCEPT !.stage = "audit", !.skill = NoSkill]
  <2>1. /\ handler[h].stage = "catalog" /\ UNCHANGED <<yaml, index, cut>>
        /\ rows' = A /\ handler' = [handler EXCEPT ![h] = s]
    BY <1>10 DEF UpsertCatalog, history
  <2>2. s.stage = "audit" /\ s.op = handler[h].op /\ s.version = handler[h].version
    BY <1>0 DEF HandlerState
  <2> HIDE DEF s
  <2>3. /\ Follows(yaml, ShownOf(yaml, A)) /\ Follows(ShownOf(yaml, A), Shown)
        /\ Existing(yaml) \subseteq Existing(A) => A = yaml
    <3>1. Follows(yaml, ShownOf(yaml, rows)) /\ Follows(A, ShownOf(yaml, rows))
      BY <1>0, <2>1 DEF Ahead
    <3>2. \A v \in Existing(A) : yaml[v] = A[v]
      BY <1>0, <2>1 DEF Ahead
    <3> HIDE DEF A
    <3> QED
      BY <1>0, <1>1, <3>1, <3>2, CatalogWritten DEF A, Shown
  <2>4. Ahead(s, yaml, A)
    BY <2>2, <2>3 DEF Ahead
  <2>5. ~cut => Tidy(s, yaml, A, index)
    BY <1>0, <2>1, <2>2, <2>3 DEF Tidy
  <2>6. Ahead(s, yaml', rows') /\ (~cut' => Tidy(s, yaml', rows', index'))
    BY <2>1, <2>4, <2>5
  <2>7. Shown' = ShownOf(yaml, A)
    BY <2>1 DEF Shown
  <2> HIDE DEF A
  <2> QED
    BY <2>1, <2>3, <2>6, <2>7, SoloMoves
<1>11. CASE AppendAudit(h)
  <2> DEFINE op == handler[h].op
             Moved(stage) == [handler[h] EXCEPT !.stage = stage]
  <2>1. /\ handler[h].stage = "audit" /\ UNCHANGED <<yaml, rows, index, cut>>
        /\ ~cut => rows = yaml /\ Indexing(op, handler[h].version, rows, index)
    BY <1>0, <1>11 DEF AppendAudit, history, Tidy
  <2>2. ASSUME NEW stage \in {"index", "unindex"}, handler' = [handler EXCEPT ![h] = Moved(stage)],
               stage = "index" => op = "publish", stage = "unindex" => op = "deprecate"
        PROVE  SoloInv' /\ Follows(Shown', Shown)
    <3>1. /\ Moved(stage).stage = stage /\ Moved(stage).op = op
          /\ Moved(stage).version = handler[h].version
      BY <1>0 DEF HandlerState
    <3> DEFINE s == Moved(stage)
    <3> HIDE DEF s
    <3>2. /\ Ahead(s, yaml', rows')
          /\ ~cut' => Tidy(s, yaml', rows', index')
      BY <1>2, <2>1, <2>2, <3>1 DEF Ahead, Tidy, Shown, s
    <3> QED
      BY <1>3, <2>1, <2>2, <3>2, SoloMoves DEF s
  <2>3. CASE op = "publish"
    <3>1. handler' = [handler EXCEPT ![h] = Moved("index")]
      BY <1>11, <2>3 DEF AppendAudit
    <3> QED
      BY <2>2, <2>3, <3>1
  <2>4. CASE op = "deprecate"
    <3>1. handler' = [handler EXCEPT ![h] = Moved("unindex")]
      BY <1>11, <2>4 DEF AppendAudit
    <3> QED
      BY <2>2, <2>4, <3>1
  <2>5. CASE op \notin {"publish", "deprecate"}
    <3>1. handler' = [handler EXCEPT ![h] = Idle]
      BY <1>11, <2>5 DEF AppendAudit
    <3> QED
      BY <1>4, <2>1, <2>5, <3>1 DEF Indexing
  <2> QED
    BY <2>3, <2>4, <2>5
<1>12. CASE IndexVersion(h)
  <2>1. /\ handler[h].stage = "index" /\ UNCHANGED <<yaml, rows, cut>>
        /\ index' = index \cup {handler[h].version} /\ handler' = [handler EXCEPT ![h] = Idle]
    BY <1>12 DEF IndexVersion, history
  <2>2. ~cut => rows = yaml /\ index' = Published(rows)
    BY <1>0, <2>1 DEF Ahead, Tidy, Indexing
  <2> QED
    BY <1>4, <2>1, <2>2
<1>13. CASE RemoveVersion(h)
  <2>1. /\ handler[h].stage = "unindex" /\ UNCHANGED <<yaml, rows, cut>>
        /\ index' = index \ {handler[h].version} /\ handler' = [handler EXCEPT ![h] = Idle]
    BY <1>13 DEF RemoveVersion, history
  <2>2. ~cut => rows = yaml /\ index' = Published(rows)
    BY <1>0, <2>1 DEF Ahead, Tidy, Indexing
  <2> QED
    BY <1>4, <2>1, <2>2
<1>14. CASE WipeCatalog(h)
  <2> DEFINE s == [handler[h] EXCEPT !.stage = "refill"]
  <2>1. /\ handler[h].stage = "wipe" /\ UNCHANGED <<yaml, index, cut>>
        /\ rows' = NoSkill /\ handler' = [handler EXCEPT ![h] = s]
    BY <1>14 DEF WipeCatalog, history
  <2>2. s.stage = "refill" /\ s.skill = handler[h].skill
    BY <1>0 DEF HandlerState
  <2> HIDE DEF s
  <2>3. ShownOf(yaml, NoSkill) = yaml
    BY InitialShapes DEF ShownOf
  <2>4. Ahead(s, yaml', rows') /\ Tidy(s, yaml', rows', index')
    BY <1>0, <2>1, <2>2, <2>3, InitialShapes DEF Ahead, Tidy, Follows
  <2>5. Shown' = yaml
    BY <2>1, <2>3 DEF Shown
  <2> QED
    BY <1>2, <2>1, <2>4, <2>5, SoloMoves
<1>15. CASE RefillCatalog(h)
  <2> DEFINE s == [handler[h] EXCEPT !.stage = "reindex"]
  <2>1. /\ handler[h].stage = "refill" /\ UNCHANGED <<yaml, index, cut>>
        /\ rows' = handler[h].skill /\ handler' = [handler EXCEPT ![h] = s]
    BY <1>15 DEF RefillCatalog, history
  <2>2. s.stage = "reindex" /\ s.skill = handler[h].skill
    BY <1>0 DEF HandlerState
  <2> HIDE DEF s
  <2>3. handler[h].skill = yaml /\ Shown = yaml /\ ShownOf(yaml, yaml) = yaml
    BY <1>0, <2>1 DEF Ahead, Shown, ShownOf
  <2>4. Ahead(s, yaml', rows') /\ Tidy(s, yaml', rows', index')
    BY <2>1, <2>2, <2>3 DEF Ahead, Tidy, Follows
  <2>5. Shown' = yaml
    BY <2>1, <2>3 DEF Shown
  <2> QED
    BY <1>2, <2>1, <2>3, <2>4, <2>5, SoloMoves
<1>16. CASE ReindexAll(h)
  <2>1. /\ handler[h].stage = "reindex" /\ UNCHANGED <<yaml, rows>>
        /\ index' = Published(handler[h].skill) /\ handler' = [handler EXCEPT ![h] = Idle]
    BY <1>16 DEF ReindexAll
  <2>2. rows = yaml /\ index' = Published(rows)
    BY <1>0, <2>1 DEF Ahead
  <2> QED
    BY <1>4, <2>1, <2>2
<1> QED
  BY <1>7, <1>8, <1>9, <1>10, <1>11, <1>12, <1>13, <1>14, <1>15, <1>16 DEF Continue

\* Every step keeps the invariant and shows at most one transition of each version.
LEMMA SoloStep ==
    OneHandler /\ TypeInv /\ SoloInv /\ [Next]_vars => SoloInv' /\ Follows(Shown', Shown)
<1> SUFFICES ASSUME OneHandler, TypeInv, SoloInv, [Next]_vars
             PROVE  SoloInv' /\ Follows(Shown', Shown)
  OBVIOUS
<1>1. ASSUME NEW h \in Handlers, Abort(h) PROVE SoloInv' /\ Follows(Shown', Shown)
  <2>1. /\ handler' = [handler EXCEPT ![h] = Idle] /\ cut' = TRUE /\ UNCHANGED <<yaml, rows>>
        /\ Ahead(handler[h], yaml, rows) /\ Idle.stage = "idle"
    BY <1>1 DEF Abort, SoloInv, Idle
  <2>2. Ahead(Idle, yaml', rows') /\ ~(~cut') /\ Follows(Shown', Shown)
    BY <2>1 DEF Ahead, Shown, Follows
  <2> QED
    BY <2>1, <2>2, SoloMoves
<1>2. ASSUME UNCHANGED <<yaml, rows, index, handler, cut>> PROVE SoloInv' /\ Follows(Shown', Shown)
  BY <1>2 DEF SoloInv, Shown, Follows
<1> QED
  BY <1>1, <1>2, CommandSolo, ContinueSolo DEF Next, JudgeVersion, vars, history

LEMMA SoloInit == Init => SoloInv
<1> SUFFICES ASSUME Init PROVE SoloInv
  OBVIOUS
<1>1. /\ yaml = NoSkill /\ rows = NoSkill /\ index = {}
      /\ \A h \in Handlers : handler[h].stage = "idle"
  BY DEF Init, Idle
<1>2. Published(NoSkill) = {}
  BY InitialShapes DEF Published
<1> QED
  BY <1>1, <1>2 DEF SoloInv, Ahead, Tidy, Follows, ShownOf

\* When commands do not overlap, the invariant holds of every state, and every
\* step shows at most one transition of each version.
LEMMA Solo == ASSUME OneHandler PROVE Spec => [](TypeInv /\ SoloInv)
<1>1. TypeInv /\ SoloInv /\ [Next]_vars => SoloInv'
  BY SoloStep
<1> QED
  BY <1>1, SoloInit, TypeInvInit, TypeInvStep, PTL DEF Spec

\* While commands do not overlap, and none was cut off that a complete rebuild
\* has not made good, the catalog repeats the stored files between commands, and
\* the search index holds the published versions (save of the repository, the
\* index calls of review-skill.usecase.ts, rebuild-projections.usecase.ts).
THEOREM Repaired == ASSUME OneHandler PROVE Spec => []RebuildRepairs
<1>1. SoloInv => RebuildRepairs
  <2> SUFFICES ASSUME SoloInv, AllIdle, ~cut PROVE rows = yaml /\ index = Published(rows)
    BY DEF RebuildRepairs
  <2>1. PICK h \in Handlers : TRUE
    BY DEF OneHandler
  <2>2. handler[h].stage = "idle" /\ Tidy(handler[h], yaml, rows, index)
    BY DEF SoloInv, AllIdle
  <2> QED
    BY <2>2 DEF Tidy
<1> QED
  BY <1>1, Solo, PTL

\* A transition that commands make is one the domain's table allows.
LEMMA StepsAllowed ==
    ASSUME NEW from, NEW to, <<from, to>> \in Steps
    PROVE  Lifecycle!CanTransition(from, to)
BY DEF Steps, Lifecycle!CanTransition, Lifecycle!AllowedTransitions, Lifecycle!Statuses

\* While commands do not overlap, the status a reader sees of each version starts
\* absent and only ever moves along the table of SkillStatus.ts, wherever a
\* command or a rebuild is cut off (skill.ts, review-skill.usecase.ts,
\* update-skill.usecase.ts, rebuild-projections.usecase.ts).
THEOREM Refinement == ASSUME OneHandler PROVE Spec => LifecycleRefined
<1> DEFINE seen == [v \in Versions |-> VisibleStatus(v)]
<1>0. \A v \in Versions : VisibleStatus(v) = StatusIn(Shown, v)
  BY DEF VisibleStatus, StatusIn, Shown, ShownOf
<1>1. Init => Lifecycle!Init
  BY <1>0, InitialShapes DEF Init, Lifecycle!Init, StatusIn, Shown, ShownOf, NoSkill
<1>2. ASSUME TypeInv, TypeInv', SoloInv, [Next]_vars PROVE [Lifecycle!Next]_seen
  <2>1. Follows(Shown', Shown)
    BY <1>2, SoloStep
  <2>2. Shown' \in Aggregate
    BY <1>2 DEF TypeInv, StoresOK, Shown, ShownOf
  <2> DEFINE now(v) == StatusIn(Shown, v)
             then(v) == StatusIn(Shown', v)
             S == {v \in Versions : then(v) # now(v)}
  <2>3. seen = [v \in Versions |-> now(v)] /\ seen' = [v \in Versions |-> then(v)]
    BY DEF VisibleStatus, StatusIn, Shown, ShownOf
  <2>4. \A v \in Versions : then(v) \in Statuses \cup {NoVersion}
    BY <2>2 DEF StatusIn, Aggregate, VersionRecord
  <2>5. \A v \in S : Lifecycle!CanTransition(now(v), then(v))
    BY <2>1, StepsAllowed DEF Follows
  <2> HIDE DEF now, then, seen
  <2>6. \A v \in Versions : v \notin S => then(v) = now(v)
    OBVIOUS
  <2>7. CASE S = {}
    BY <2>3, <2>6, <2>7
  <2>8. CASE S # {}
    <3>1. S \in SUBSET Versions
      OBVIOUS
    <3>2. seen' \in [Versions -> Statuses \cup {NoVersion}]
      BY <2>3, <2>4
    <3>3. /\ \A v \in S : Lifecycle!CanTransition(seen[v], seen'[v])
          /\ \A v \in Versions : v \notin S => seen'[v] = seen[v]
      BY <2>3, <2>5, <2>6
    <3> HIDE DEF S
    <3>4. Lifecycle!Move(S)
      BY <2>8, <3>1, <3>2, <3>3 DEF Lifecycle!Move, Lifecycle!Statuses, Statuses, seen
    <3> QED
      BY <3>1, <3>4 DEF Lifecycle!Next
  <2> QED
    BY <2>7, <2>8
<1> QED
  BY <1>1, <1>2, Solo, TypeInvStep, PTL DEF Spec, LifecycleRefined, Lifecycle!Spec

-----------------------------------------------------------------------------
(* The readers of the skill                                                 *)
(*                                                                          *)
(* What the public is shown was published, and the files of a package are   *)
(* those of one version.  A request of the public may hold a version for    *)
(* long after it asked for its status, so the invariant speaks of the       *)
(* version held as well as of those shown.  Both were published in some     *)
(* copy of the aggregate, or had a search document, when they were read;    *)
(* the registry's own invariants say that publishing such a version is      *)
(* accounted for by then, and what is accounted for stays so.               *)

Fields == {"stage", "op", "version", "staff", "listing", "todo", "got", "shown", "steady"}

\* The stages of a request that has settled on a version.
Holding == {"confirm", "list", "file_confirm", "file_list", "file_read", "hit", "read"}

PublishedVersions(S) == {v \in Versions : <<v, "publish">> \in S}

Supported(s, S) ==
    \/ s.staff
    \/ /\ s.shown \subseteq PublishedVersions(S)
       /\ s.stage \in Holding => s.version \in PublishedVersions(S)

ReaderShape ==
    /\ DOMAIN reader = Readers
    /\ \A r \in Readers : DOMAIN reader[r] = Fields

ReadersSupported(S) == \A r \in Readers : Supported(reader[r], S)

ReadingInv == ReaderShape /\ ReadersSupported(Accounted)

\* What was supported stays so while the accounts grow.
LEMMA SupportGrows ==
    ASSUME NEW s, NEW S, NEW T, S \subseteq T, Supported(s, S)
    PROVE  Supported(s, T)
BY DEF Supported, PublishedVersions

\* A reader moves to a supported record.
LEMMA ReaderMoves ==
    ASSUME ReaderShape, NEW T, ReadersSupported(T), NEW r \in Readers, NEW s,
           reader' = [reader EXCEPT ![r] = s], DOMAIN s = Fields, Supported(s, T)
    PROVE  ReaderShape' /\ \A q \in Readers : Supported(reader'[q], T)
BY DEF ReaderShape, ReadersSupported

\* The fields of a record that another one differs from in some.
LEMMA MovesOn ==
    ASSUME NEW s, DOMAIN s = Fields, NEW stage
    PROVE  LET t == [s EXCEPT !.stage = stage]
           IN  /\ DOMAIN t = Fields /\ t.stage = stage
               /\ t.staff = s.staff /\ t.shown = s.shown /\ t.version = s.version
BY DEF Fields

LEMMA Settles ==
    ASSUME NEW s, DOMAIN s = Fields, NEW stage, NEW v, NEW b
    PROVE  LET t == [s EXCEPT !.stage = stage, !.version = v, !.steady = b]
           IN  /\ DOMAIN t = Fields /\ t.stage = stage
               /\ t.staff = s.staff /\ t.shown = s.shown /\ t.version = v
BY DEF Fields
\* What a request starts and ends with.
LEMMA Beginnings ==
    ASSUME NEW stage, NEW op, NEW v, NEW staff, NEW wanted, NEW b
    PROVE  LET t == [Open EXCEPT !.stage = stage, !.op = op, !.version = v,
                                 !.staff = staff, !.todo = wanted, !.steady = b]
           IN  DOMAIN t = Fields /\ t.stage = stage /\ t.shown = {}
BY DEF Open, Fields

LEMMA Endings ==
    ASSUME NEW stage, NEW seen
    PROVE  LET t == [Open EXCEPT !.stage = stage, !.shown = seen]
           IN  DOMAIN t = Fields /\ t.stage = stage /\ t.shown = seen
BY DEF Open, Fields

LEMMA Refusal ==
    LET t == [Open EXCEPT !.stage = "refused"]
    IN  DOMAIN t = Fields /\ t.stage = "refused" /\ t.shown = {}
BY DEF Open, Fields

\* A version some copy of the aggregate, or the index, has as published is
\* accounted for.
LEMMA PublishedAccounted ==
    ASSUME TypeInv, ExplainInv, IndexInv
    PROVE  /\ Published(rows) \subseteq PublishedVersions(Accounted)
           /\ Published(yaml) \subseteq PublishedVersions(Accounted)
           /\ Published(LoadedSkill) \subseteq PublishedVersions(Accounted)
           /\ index \subseteq PublishedVersions(Accounted)
<1> DEFINE S == Accounted
<1>1. ASSUME NEW A, Explained(A, S) PROVE Published(A) \subseteq PublishedVersions(S)
  <2> SUFFICES ASSUME NEW v \in Versions, v \in Existing(A), A[v].status = "published"
               PROVE  <<v, "publish">> \in S
    BY DEF Published, Existing, PublishedVersions
  <2>1. "publish" \in History("published")
    BY DEF History
  <2> QED
    BY <1>1, <2>1 DEF Explained
<1>2. CopiesExplained(S)
  BY DEF ExplainInv
<1>3. Explained(rows, S) /\ Explained(yaml, S)
  BY <1>2 DEF CopiesExplained
<1>4. Explained(LoadedSkill, S)
  BY <1>2, LoadedExplained
<1>5. index \subseteq PublishedVersions(S)
  BY DEF IndexInv, PublishedVersions, TypeInv, StoresOK
<1> HIDE DEF S
<1> QED
  BY <1>1, <1>3, <1>4, <1>5 DEF S

\* What a request of the public settles on is published.
LEMMA SettledIsVisible ==
    ASSUME NEW A, NEW v, NEW staff, ~staff
    PROVE  Settled(A, v, staff) \subseteq Published(A)
BY DEF Settled, Visible
\* No read of a request makes it hold or show what nobody published.
LEMMA ReadStep ==
    ASSUME TypeInv, ExplainInv, IndexInv, ReadingInv, NEW r \in Readers, Read(r)
    PROVE  ReaderShape' /\ \A q \in Readers : Supported(reader'[q], Accounted)
<1> DEFINE S == Accounted
           P == PublishedVersions(S)
           s == reader[r]
           Goal == ReaderShape' /\ \A q \in Readers : Supported(reader'[q], S)
<1>1. /\ Published(rows) \subseteq P /\ Published(yaml) \subseteq P
      /\ Published(LoadedSkill) \subseteq P /\ index \subseteq P
  BY PublishedAccounted
<1>2. ReaderShape /\ ReadersSupported(S)
  BY DEF ReadingInv
<1>3. DOMAIN reader = Readers /\ DOMAIN s = Fields /\ Supported(s, S)
  BY <1>2 DEF ReaderShape, ReadersSupported
<1> HIDE DEF S
<1>4. ASSUME NEW t, reader' = [reader EXCEPT ![r] = t], DOMAIN t = Fields, Supported(t, S)
      PROVE  Goal
  BY <1>2, <1>4, ReaderMoves
<1>5. ASSUME NEW stage, GoOn(r, stage), stage \in Holding => s.stage \in Holding
      PROVE  Goal
  <2> DEFINE t == [s EXCEPT !.stage = stage]
  <2>1. reader' = [reader EXCEPT ![r] = t]
    BY <1>5 DEF GoOn
  <2>2. /\ DOMAIN t = Fields /\ t.stage = stage
        /\ t.staff = s.staff /\ t.shown = s.shown /\ t.version = s.version
    BY <1>3, MovesOn
  <2> HIDE DEF t
  <2>3. Supported(t, S)
    BY <1>3, <1>5, <2>2 DEF Supported
  <2> QED
    BY <1>4, <2>1, <2>2, <2>3
<1>6. ASSUME Refuse(r) PROVE Goal
  <2> DEFINE t == [Open EXCEPT !.stage = "refused"]
  <2>1. DOMAIN t = Fields /\ t.stage = "refused" /\ t.shown = {}
    BY Refusal
  <2>2. reader' = [reader EXCEPT ![r] = t]
    BY <1>6 DEF Refuse
  <2> HIDE DEF t
  <2>3. Supported(t, S)
    BY <2>1 DEF Supported, Holding
  <2> QED
    BY <1>4, <2>1, <2>2, <2>3
<1>7. ASSUME NEW seen, Answer(r, seen), ~s.staff => seen \subseteq P PROVE Goal
  <2> DEFINE shown == IF s.staff THEN {} ELSE seen
             t == [Open EXCEPT !.stage = "answered", !.shown = shown]
  <2>1. shown \subseteq P
    BY <1>7
  <2>2. reader' = [reader EXCEPT ![r] = t]
    BY <1>7 DEF Answer
  <2> HIDE DEF shown
  <2>3. DOMAIN t = Fields /\ t.stage = "answered" /\ t.shown = shown
    BY Endings
  <2> HIDE DEF t
  <2>4. Supported(t, S)
    BY <2>1, <2>3 DEF Supported, Holding
  <2> QED
    BY <1>4, <2>2, <2>3, <2>4
<1>8. ASSUME NEW v, NEW stage, SettleOn(r, v, stage), ~s.staff => v \in P PROVE Goal
  <2> DEFINE b == IF s.version = Latest THEN ~s.staff /\ Standing(v, rows, replaced)
                                        ELSE s.steady
             t == [s EXCEPT !.stage = stage, !.version = v, !.steady = b]
  <2>1. reader' = [reader EXCEPT ![r] = t]
    BY <1>3, <1>8 DEF SettleOn
  <2> HIDE DEF b
  <2>2. /\ DOMAIN t = Fields /\ t.stage = stage
        /\ t.staff = s.staff /\ t.shown = s.shown /\ t.version = v
    BY <1>3, Settles
  <2> HIDE DEF t
  <2>3. Supported(t, S)
    BY <1>3, <1>8, <2>2 DEF Supported
  <2> QED
    BY <1>4, <2>1, <2>2, <2>3
<1>9. ASSUME NEW op, NEW v, NEW staff, Ask(r, op, v, staff), op \in Offered(staff)
      PROVE  Goal
  <2> DEFINE b == ~staff /\ Standing(v, rows, replaced)
  <2>1. PICK wanted : reader' = [reader EXCEPT ![r] =
              [Open EXCEPT !.stage = FirstRead(op), !.op = op, !.version = v,
                           !.staff = staff, !.todo = wanted, !.steady = b]]
    BY <1>9 DEF Ask
  <2> DEFINE t == [Open EXCEPT !.stage = FirstRead(op), !.op = op, !.version = v,
                               !.staff = staff, !.todo = wanted, !.steady = b]
  <2>2. FirstRead(op) \notin Holding
    BY <1>9 DEF FirstRead, Offered, ForBoth, ForStaff, ForPublic, Holding
  <2> HIDE DEF b
  <2>3. DOMAIN t = Fields /\ t.stage = FirstRead(op) /\ t.shown = {}
    BY Beginnings
  <2>4. reader' = [reader EXCEPT ![r] = t]
    BY <2>1
  <2> HIDE DEF t
  <2>5. Supported(t, S)
    BY <2>2, <2>3 DEF Supported
  <2> QED
    BY <1>4, <2>3, <2>4, <2>5
<1> SUFFICES Goal
  BY DEF S
<1>10. CASE Resolve(r)
  <2> DEFINE found == Settled(rows, s.version, FALSE)
  <2>1. found \subseteq P
    BY <1>1, SettledIsVisible
  <2>2. \/ Refuse(r)
        \/ Answer(r, found)
        \/ \E v \in found : SettleOn(r, v, "confirm")
        \/ \E v \in found : SettleOn(r, v, "file_confirm")
    BY <1>10 DEF Resolve
  <2> HIDE DEF found
  <2> QED
    BY <1>6, <1>7, <1>8, <2>1, <2>2
<1>11. CASE ConfirmListing(r) \/ ConfirmFile(r) \/ FindFile(r)
  <2>1. /\ s.stage \in Holding
        /\ \/ Refuse(r)
           \/ GoOn(r, "list") \/ GoOn(r, "file_list") \/ GoOn(r, "file_read")
    BY <1>11 DEF ConfirmListing, ConfirmFile, FindFile, Holding
  <2> QED
    BY <1>5, <1>6, <2>1
<1>12. CASE ListFiles(r)
  <2>1. s.stage \in Holding
    BY <1>12 DEF ListFiles, Holding
  <2>2. CASE Refuse(r)
    BY <1>6, <2>2
  <2>3. CASE ~Refuse(r)
    <3> DEFINE t == [s EXCEPT !.stage = "file_confirm", !.listing = rows[s.version].digest,
                              !.todo = rows[s.version].digest]
    <3>1. reader' = [reader EXCEPT ![r] = t]
      BY <1>3, <1>12, <2>3 DEF ListFiles
    <3>2. /\ DOMAIN t = Fields
          /\ t.staff = s.staff /\ t.shown = s.shown /\ t.version = s.version
      BY <1>3 DEF Fields
    <3> HIDE DEF t
    <3>3. Supported(t, S)
      BY <1>3, <2>1, <3>2 DEF Supported
    <3> QED
      BY <1>4, <3>1, <3>2, <3>3
  <2> QED
    BY <2>2, <2>3
<1>13. CASE ReadFile(r)
  <2>1. s.stage \in Holding
    BY <1>13 DEF ReadFile, Holding
  <2>2. CASE Refuse(r)
    BY <1>6, <2>2
  <2>3. CASE ~Refuse(r)
    <3> DEFINE content == files[Fetched(r)]
               left == s.todo \ {NextFile(r)}
               stage == IF left = {} THEN "answered" ELSE "file_confirm"
               t == [s EXCEPT !.got = s.got \cup {content}, !.todo = left,
                              !.shown = {s.version}, !.stage = stage]
    <3>1. reader' = [reader EXCEPT ![r] = t]
      BY <1>3, <1>13, <2>3 DEF ReadFile
    <3> HIDE DEF content, left, stage
    <3>2. /\ DOMAIN t = Fields
          /\ t.staff = s.staff /\ t.shown = {s.version} /\ t.version = s.version
      BY <1>3 DEF Fields
    <3> HIDE DEF t
    <3>3. Supported(t, S)
      BY <1>3, <2>1, <3>2 DEF Supported
    <3> QED
      BY <1>4, <3>1, <3>2, <3>3
  <2> QED
    BY <2>2, <2>3
<1>14. CASE Look(r)
  <2>1. Answer(r, IF s.op = "versions" THEN Published(rows) ELSE Settled(rows, Latest, FALSE))
    BY <1>14 DEF Look
  <2>2. Settled(rows, Latest, FALSE) \subseteq P
    BY <1>1, SettledIsVisible
  <2> QED
    BY <1>1, <1>7, <2>1, <2>2
<1>15. CASE ReadLatest(r)
  <2> DEFINE found == Settled(rows, Latest, s.staff)
             t == [s EXCEPT !.stage = "all", !.shown = found]
  <2>1. CASE Refuse(r)
    BY <1>6, <2>1
  <2>2. CASE ~Refuse(r)
    <3>1. reader' = [reader EXCEPT ![r] = t]
      BY <1>3, <1>15, <2>2 DEF ReadLatest
    <3>2. ~s.staff => found \subseteq P
      BY <1>1, SettledIsVisible
    <3> HIDE DEF found
    <3>3. /\ DOMAIN t = Fields /\ t.stage = "all"
          /\ t.staff = s.staff /\ t.shown = found
      BY <1>3 DEF Fields
    <3> HIDE DEF t
    <3>4. Supported(t, S)
      BY <3>2, <3>3 DEF Supported, Holding
    <3> QED
      BY <1>4, <3>1, <3>3, <3>4
  <2> QED
    BY <2>1, <2>2
<1>16. CASE ReadVersions(r)
  <2>1. Answer(r, s.shown \cup Visible(rows, s.staff))
    BY <1>16 DEF ReadVersions
  <2>2. ~s.staff => s.shown \subseteq P /\ Visible(rows, s.staff) \subseteq P
    BY <1>1, <1>3 DEF Supported, Visible
  <2> QED
    BY <1>7, <2>1, <2>2
<1>17. CASE SearchIndex(r)
  <2>1. CASE Answer(r, {})
    BY <1>7, <2>1
  <2>2. CASE ~Answer(r, {})
    <3>1. PICK v \in index : reader' = [reader EXCEPT ![r].stage = "hit", ![r].version = v]
      BY <1>17, <2>2 DEF SearchIndex
    <3> DEFINE t == [s EXCEPT !.stage = "hit", !.version = v]
    <3>2. reader' = [reader EXCEPT ![r] = t]
      BY <1>3, <3>1
    <3>3. /\ DOMAIN t = Fields
          /\ t.staff = s.staff /\ t.shown = s.shown /\ t.version = v
      BY <1>3 DEF Fields
    <3> HIDE DEF t
    <3>4. Supported(t, S)
      BY <1>1, <1>3, <3>3 DEF Supported
    <3> QED
      BY <1>4, <3>2, <3>3, <3>4
  <2> QED
    BY <2>1, <2>2
<1>18. CASE ShowHit(r)
  <2> DEFINE seen == IF Published(rows) = {} THEN {s.version} ELSE Settled(rows, Latest, FALSE)
  <2>1. Answer(r, seen) /\ s.stage \in Holding
    BY <1>18 DEF ShowHit, Holding
  <2>2. ~s.staff => seen \subseteq P
    BY <1>1, <1>3, <2>1, SettledIsVisible DEF Supported
  <2> QED
    BY <1>7, <2>1, <2>2
<1>19. CASE Find(r)
  <2> DEFINE found == Settled(rows, s.version, s.staff)
  <2>1. ~s.staff => found \subseteq P
    BY <1>1, SettledIsVisible
  <2>2. GoOn(r, "find_again") \/ \E v \in found : SettleOn(r, v, "read")
    BY <1>19 DEF Find
  <2>3. "find_again" \notin Holding
    BY DEF Holding
  <2> HIDE DEF found
  <2> QED
    BY <1>5, <1>8, <2>1, <2>2, <2>3
<1>20. CASE FindAgain(r)
  <2> DEFINE skill == IF s.op = "view" THEN LoadedSkill ELSE yaml
             found == Settled(skill, s.version, s.staff)
  <2>1. Published(skill) \subseteq P
    BY <1>1
  <2>2. ~s.staff => found \subseteq P
    BY <2>1, SettledIsVisible
  <2>3. Refuse(r) \/ \E v \in found : SettleOn(r, v, "read")
    BY <1>20 DEF FindAgain
  <2> HIDE DEF found
  <2> QED
    BY <1>6, <1>8, <2>2, <2>3
<1>21. CASE ReadArtifact(r)
  <2>1. s.stage \in Holding /\ (Refuse(r) \/ Answer(r, {s.version}))
    BY <1>21 DEF ReadArtifact, Holding
  <2>2. ~s.staff => {s.version} \subseteq P
    BY <1>3, <2>1 DEF Supported
  <2> QED
    BY <1>6, <1>7, <2>1, <2>2
<1> QED
  BY <1>9, <1>10, <1>11, <1>12, <1>13, <1>14, <1>15, <1>16, <1>17, <1>18, <1>19, <1>20,
     <1>21 DEF Read

\* A step of the registry changes nothing a reader holds or shows, and what was
\* accounted for stays so.
LEMMA ChangeStep ==
    ASSUME TypeInv, HistoryOK, MaxFaults = 0, ReadingInv, Change
    PROVE  ReadingInv'
<1> DEFINE T == Accounted'
           moved == [r \in Readers |-> [reader[r] EXCEPT
                        !.steady = @ /\ Standing(reader[r].version, rows', replaced')]]
<1>1. Accounted \subseteq T
  BY AccountedGrows DEF Change
<1>2. reader' = moved
  BY DEF Change
<1> HIDE DEF T
<1>3. ASSUME NEW r \in Readers
      PROVE  DOMAIN reader'[r] = Fields /\ Supported(reader'[r], T)
  <2> DEFINE s == reader[r]
             b == s.steady /\ Standing(s.version, rows', replaced')
             t == [s EXCEPT !.steady = b]
  <2>1. DOMAIN s = Fields /\ Supported(s, T)
    BY <1>1, SupportGrows DEF ReadingInv, ReaderShape, ReadersSupported
  <2>2. reader'[r] = t
    BY <1>2
  <2> HIDE DEF b
  <2>3. /\ DOMAIN t = Fields /\ t.stage = s.stage
        /\ t.staff = s.staff /\ t.shown = s.shown /\ t.version = s.version
    BY <2>1 DEF Fields
  <2> HIDE DEF t
  <2> QED
    BY <2>1, <2>2, <2>3 DEF Supported
<1>4. DOMAIN reader' = Readers
  BY <1>2
<1> QED
  BY <1>3, <1>4 DEF ReadingInv, ReaderShape, ReadersSupported, T

RegistryInv == TypeInv /\ HistoryOK /\ ExplainInv /\ IndexInv

\* The registry is as it would be without readers.
LEMMA RegistryStep ==
    MaxFaults = 0 /\ RegistryInv /\ [ReadingNext]_allVars => RegistryInv'
<1> SUFFICES ASSUME MaxFaults = 0, RegistryInv, [ReadingNext]_allVars PROVE RegistryInv'
  OBVIOUS
<1>1. [Next]_vars
  BY DEF ReadingNext, allVars, Change, registry, vars
<1> QED
  BY <1>1, TypeInvStep, HistoryStep, ExplainStep, IndexStep DEF RegistryInv

LEMMA ReadingStep ==
    MaxFaults = 0 /\ RegistryInv /\ ReadingInv /\ [ReadingNext]_allVars => ReadingInv'
<1> SUFFICES ASSUME MaxFaults = 0, RegistryInv, ReadingInv, [ReadingNext]_allVars
             PROVE  ReadingInv'
  OBVIOUS
<1>1. CASE Change
  BY <1>1, ChangeStep DEF RegistryInv
<1>2. ASSUME UNCHANGED registry PROVE Accounted' = Accounted
  BY <1>2 DEF registry, Accounted, AuditedOrPending, Pending
<1>3. ASSUME NEW r \in Readers, Read(r), UNCHANGED registry PROVE ReadingInv'
  BY <1>2, <1>3, ReadStep DEF RegistryInv, ReadingInv, ReadersSupported
<1>4. CASE UNCHANGED allVars
  BY <1>2, <1>4 DEF allVars, ReadingInv, ReaderShape, ReadersSupported
<1> QED
  BY <1>1, <1>3, <1>4 DEF ReadingNext

\* Whatever the public is shown was published by somebody, and the audit log says
\* so or is about to, for any number of readers and handlers.
THEOREM ShownPublished == ASSUME MaxFaults = 0 PROVE ReadingSpec => []ShownWasPublished
<1>1. ReadingInit => RegistryInv
  BY InitialShapes, NothingToExplain, TypeInvInit, HistoryInit
     DEF ReadingInit, RegistryInv, Init, ExplainInv, CopiesExplained, IndexInv,
         AuditedBeforeIndexed, Idle
<1>2. ReadingInit => ReadingInv
  <2>1. DOMAIN Open = Fields /\ Open.shown = {} /\ Open.stage = "idle"
    BY DEF Open, Fields
  <2>2. Supported(Open, Accounted)
    BY <2>1 DEF Supported, Holding
  <2> QED
    BY <2>1, <2>2 DEF ReadingInit, ReadingInv, ReaderShape, ReadersSupported
<1>3. ReadingSpec => [](RegistryInv /\ ReadingInv)
  BY <1>1, <1>2, RegistryStep, ReadingStep, PTL DEF ReadingSpec
<1>4. ReadingInv => ShownWasPublished
  BY DEF ReadingInv, ReadersSupported, Supported, PublishedVersions, Accounted,
         ShownWasPublished
<1> QED
  BY <1>3, <1>4, PTL
-----------------------------------------------------------------------------
(* The files of a package are those of one version.  A handler may hold a   *)
(* copy of the aggregate for as long as it likes, and stores artifacts long *)
(* before the aggregate knows of them; what ties a reader's files together  *)
(* is that every copy, wherever it is, has of a version the digest of what  *)
(* was stored for it first.                                                 *)

Faithful(A, stored, lost) ==
    \A v \in Existing(A) :
        stored[v] # NoContent /\ (v \notin lost => A[v].digest = stored[v])

\* What a handler is about to store is something.
Provided(s, stored) ==
    s.stage = "copy" =>
        IF s.op = "update" THEN stored[s.version - 1] # NoContent ELSE s.content # NoContent

CopiesFaithful ==
    /\ Faithful(rows, files, replaced) /\ Faithful(yaml, files, replaced)
    /\ \A h \in Handlers :
          Faithful(handler[h].skill, files, replaced) /\ Provided(handler[h], files)

\* Artifacts are never removed, and those that are overwritten are remembered.
Kept(stored, lost, after, gone) ==
    /\ lost \subseteq gone
    /\ \A v \in Versions : stored[v] # NoContent =>
          after[v] # NoContent /\ (v \notin gone => after[v] = stored[v])

LEMMA FaithfulKept ==
    ASSUME NEW A, NEW stored, NEW lost, NEW after, NEW gone,
           Kept(stored, lost, after, gone), Faithful(A, stored, lost)
    PROVE  Faithful(A, after, gone)
BY DEF Faithful, Kept, Existing

LEMMA ProvidedKept ==
    ASSUME NEW s, WellPlaced(s), NEW stored, NEW lost, NEW after, NEW gone,
           Kept(stored, lost, after, gone), Provided(s, stored)
    PROVE  Provided(s, after)
BY DEF Provided, Kept, WellPlaced

LEMMA NothingUnfaithful ==
    ASSUME NEW stored, NEW lost
    PROVE  Faithful(NoSkill, stored, lost)
BY InitialShapes DEF Faithful

\* Neither hydrating nor a transition touches a digest.
LEMMA HydratedDigest ==
    ASSUME NEW A \in Aggregate, NEW v \in Existing(A)
    PROVE  Hydrated(A)[v].digest = A[v].digest
<1>1. v \in Versions /\ A[v] \in VersionRecord /\ A[v] # NoVersion
  BY ExistingIsRecord DEF Existing
<1>2. Hydrated(A)[v] = [A[v] EXCEPT !.stamps = {}]
  BY <1>1 DEF Hydrated
<1> QED
  BY <1>1, <1>2 DEF VersionRecord

LEMMA LoadedFaithful ==
    ASSUME TypeInv, CopiesFaithful
    PROVE  Faithful(LoadedSkill, files, replaced)
<1>1. CASE Existing(rows) # {}
  <2>1. rows \in Aggregate
    BY DEF TypeInv, StoresOK
  <2>2. /\ Existing(Hydrated(rows)) = Existing(rows)
        /\ \A v \in Existing(rows) : Hydrated(rows)[v].digest = rows[v].digest
    BY <2>1, HydratedShape, HydratedDigest
  <2> QED
    BY <1>1, <2>2 DEF LoadedSkill, CopiesFaithful, Faithful
<1>2. CASE Existing(rows) = {}
  BY <1>2 DEF LoadedSkill, CopiesFaithful
<1> QED
  BY <1>1, <1>2

LEMMA TransitionedFaithful ==
    ASSUME NEW A \in Aggregate, NEW op \in Reviews, NEW v \in Versions, Permitted(A, op, v),
           NEW stored, NEW lost, Faithful(A, stored, lost)
    PROVE  Faithful(Transitioned(A, op, v), stored, lost)
<1> DEFINE B == Transitioned(A, op, v)
           stamps == IF op = "submit" THEN {} ELSE A[v].stamps \cup {TargetStatus(op)}
           rec == [A[v] EXCEPT !.status = TargetStatus(op), !.stamps = stamps]
<1>1. Existing(B) = Existing(A)
  BY TransitionedShape
<1>2. A[v] \in VersionRecord
  BY ExistingIsRecord DEF Permitted
<1>3. B = [A EXCEPT ![v] = rec]
  BY DEF Transitioned, Aggregate
<1> HIDE DEF stamps, B
<1>4. rec.digest = A[v].digest
  BY <1>2 DEF VersionRecord
<1> HIDE DEF rec
<1>5. \A w \in Versions : B[w] = IF w = v THEN rec ELSE A[w]
  BY <1>3 DEF Aggregate
<1>6. \A w \in Existing(A) : w \in Versions /\ B[w].digest = A[w].digest
  BY <1>4, <1>5 DEF Existing
<1> QED
  BY <1>1, <1>6 DEF Faithful, B

\* Nothing is stored that is not something, so no artifacts vanish.
LEMMA FilesKept ==
    ASSUME TypeInv, CopiesFaithful, Change
    PROVE  Kept(files, replaced, files', replaced')
<1>0. files \in [Versions -> Contents \cup {NoContent}]
  BY DEF TypeInv, StoresOK
<1>1. replaced' = replaced \cup {v \in Versions : files[v] # NoContent /\ files'[v] # files[v]}
  BY DEF Change
<1>2. ASSUME \A v \in Versions : files[v] # NoContent => files'[v] # NoContent
      PROVE  Kept(files, replaced, files', replaced')
  BY <1>1, <1>2 DEF Kept
<1>3. CASE files' = files
  BY <1>2, <1>3
<1>4. ASSUME NEW h \in Handlers, StoreArtifacts(h)
      PROVE  \A v \in Versions : files[v] # NoContent => files'[v] # NoContent
  <2> DEFINE content == IF handler[h].op = "update" THEN files[handler[h].version - 1]
                                                    ELSE handler[h].content
  <2>1. content # NoContent
    BY <1>4 DEF StoreArtifacts, CopiesFaithful, Provided
  <2>2. files' = [files EXCEPT ![handler[h].version] = content]
    BY <1>4 DEF StoreArtifacts
  <2> HIDE DEF content
  <2> QED
    BY <1>0, <2>1, <2>2
<1>5. files' = files \/ \E h \in Handlers : StoreArtifacts(h)
  BY DEF Change, Next, Command, Continue, Review, BeginPublish, BeginCreate, BeginUpdate,
         BeginEdit, BeginRebuild, PassGate, WriteYaml, UpsertCatalog, AppendAudit,
         IndexVersion, RemoveVersion, WipeCatalog, RefillCatalog, ReindexAll, JudgeVersion, Abort
<1> QED
  BY <1>2, <1>3, <1>4, <1>5

\* No step of the registry puts a digest into any copy of the aggregate that is
\* not the one of what was stored first.
LEMMA FaithfulStep ==
    ASSUME TypeInv, CopiesFaithful, Change
    PROVE  CopiesFaithful'
<1> DEFINE F(A) == Faithful(A, files', replaced')
           Now == /\ F(rows') /\ F(yaml')
                  /\ \A h \in Handlers : F(handler'[h].skill) /\ Provided(handler'[h], files')
<1>0. /\ yaml \in Aggregate /\ rows \in Aggregate /\ handler \in [Handlers -> HandlerState]
      /\ \A h \in Handlers : WellPlaced(handler[h]) /\ handler[h].skill \in Aggregate
  BY DEF TypeInv, StoresOK, HandlerState
<1>1. Next /\ Kept(files, replaced, files', replaced')
  BY FilesKept DEF Change
<1>2. ASSUME NEW A, Faithful(A, files, replaced) PROVE F(A)
  BY <1>1, <1>2, FaithfulKept
<1> HIDE DEF F
<1>3. F(rows) /\ F(yaml) /\ \A h \in Handlers : F(handler[h].skill)
  BY <1>2 DEF CopiesFaithful
<1>4. F(LoadedSkill) /\ LoadedSkill \in Aggregate
  BY <1>2, LoadedFaithful, LoadedShape
<1>5. F(NoSkill) /\ Idle.skill = NoSkill /\ Idle.stage = "idle"
  BY NothingUnfaithful DEF F, Idle
<1>6. SUFFICES Now
  BY DEF F, CopiesFaithful
<1> HIDE DEF Now
\* Each store keeps what was faithful or takes a faithful aggregate, and so does
\* the handler that moves; it has something to store if it is about to.
<1>7. ASSUME NEW h \in Handlers, NEW s, handler' = [handler EXCEPT ![h] = s],
             F(s.skill), s.stage # "copy" \/ Provided(s, files'),
             F(rows') \/ rows' = rows, F(yaml') \/ yaml' = yaml
      PROVE  Now
  <2>1. F(rows') /\ F(yaml')
    BY <1>3, <1>7
  <2>2. Provided(s, files')
    BY <1>7 DEF Provided
  <2>3. ASSUME NEW g \in Handlers PROVE F(handler'[g].skill) /\ Provided(handler'[g], files')
    <3>1. handler'[g] = IF g = h THEN s ELSE handler[g]
      BY <1>0, <1>7
    <3>2. Provided(handler[g], files')
      BY <1>0, <1>1, ProvidedKept DEF CopiesFaithful
    <3> QED
      BY <1>3, <1>7, <2>2, <3>1, <3>2
  <2> QED
    BY <2>1, <2>3 DEF Now
<1>8. ASSUME NEW h \in Handlers, NEW A \in Aggregate, NEW op \in Reviews, NEW v \in Versions,
             Permitted(A, op, v), F(A), UNCHANGED <<yaml, rows>>,
             handler' = [handler EXCEPT ![h] = Saving(op, v, Transitioned(A, op, v))]
      PROVE  Now
  <2> DEFINE s == Saving(op, v, Transitioned(A, op, v))
  <2>1. Transitioned(A, op, v) \in Aggregate
    BY <1>8, TransitionedShape
  <2>2. s.skill = Transitioned(A, op, v) /\ s.stage = "save"
    BY <2>1, SavingShape
  <2> HIDE DEF s
  <2>3. F(s.skill)
    BY <1>8, <2>2, TransitionedFaithful DEF F
  <2> QED
    BY <1>7, <1>8, <2>2, <2>3 DEF s
<1>9. ASSUME NEW h \in Handlers, NEW op \in Reviews, NEW v \in Versions, Review(h, op, v)
      PROVE  Now
  BY <1>4, <1>8, <1>9 DEF Review
<1>10. ASSUME NEW h \in Handlers, NEW s, UNCHANGED <<yaml, rows>>,
              handler' = [handler EXCEPT ![h] = s],
              s.skill \in {NoSkill, LoadedSkill, yaml, handler[h].skill},
              s.stage # "copy" \/ Provided(s, files')
       PROVE  Now
  BY <1>3, <1>4, <1>5, <1>7, <1>10
<1>11. ASSUME NEW h \in Handlers, NEW v \in Versions, NEW override, BeginPublish(h, v, override)
       PROVE  Now
  <2> DEFINE s == [Idle EXCEPT !.stage = "gate", !.op = "publish", !.version = v,
                               !.skill = LoadedSkill, !.override = override]
  <2>1. s.skill = LoadedSkill /\ s.stage = "gate"
    BY DEF Idle
  <2> HIDE DEF s
  <2> QED
    BY <1>10, <1>11, <2>1 DEF BeginPublish, s
<1>12. ASSUME NEW h \in Handlers, PassGate(h) PROVE Now
  <2> DEFINE v == handler[h].version
             skill == handler[h].skill
  <2>1. v \in Versions /\ skill \in Aggregate /\ F(skill)
    BY <1>0, <1>3, <1>12 DEF PassGate, WellPlaced
  <2>2. "publish" \in Reviews
    BY DEF Reviews
  <2>3. UNCHANGED <<yaml, rows>>
    BY <1>12 DEF PassGate
  <2>4. CASE /\ Permitted(skill, "publish", v)
             /\ handler' = [handler EXCEPT ![h] =
                   Saving("publish", v, Transitioned(skill, "publish", v))]
    BY <1>8, <2>1, <2>2, <2>3, <2>4
  <2>5. CASE handler' = [handler EXCEPT ![h] = Idle]
    BY <1>5, <1>10, <2>3, <2>5
  <2> QED
    BY <1>12, <2>4, <2>5 DEF PassGate
<1>13. ASSUME NEW h \in Handlers, NEW content \in Contents, BeginCreate(h, content)
       PROVE  Now
  <2> DEFINE s == [Idle EXCEPT !.stage = "copy", !.op = "create", !.version = 1,
                               !.content = content]
  <2>1. s.skill = NoSkill /\ s.op = "create" /\ s.content = content
    BY DEF Idle
  <2> HIDE DEF s
  <2>2. Provided(s, files')
    BY <2>1, RegistryAssumption DEF Provided
  <2> QED
    BY <1>10, <1>13, <2>1, <2>2 DEF BeginCreate, s
<1>14. ASSUME NEW h \in Handlers, BeginUpdate(h) PROVE Now
  <2>1. PICK base \in Existing(LoadedSkill) : handler' = [handler EXCEPT ![h] =
                [Idle EXCEPT !.stage = "copy", !.op = "update", !.version = base + 1,
                             !.skill = LoadedSkill]]
    BY <1>14 DEF BeginUpdate
  <2> DEFINE next == base + 1
             s == [Idle EXCEPT !.stage = "copy", !.op = "update", !.version = next,
                               !.skill = LoadedSkill]
  <2>2. handler' = [handler EXCEPT ![h] = s]
    BY <2>1
  <2>3. base \in Nat /\ next - 1 = base /\ files'[base] # NoContent
    BY <1>4, RegistryAssumption DEF F, Faithful, Existing, Versions
  <2> HIDE DEF next
  <2>4. s.skill = LoadedSkill /\ s.op = "update" /\ s.version = next
    BY DEF Idle
  <2> HIDE DEF s
  <2>5. Provided(s, files')
    BY <2>3, <2>4 DEF Provided
  <2> QED
    BY <1>10, <1>14, <2>2, <2>4, <2>5 DEF BeginUpdate
<1>15. ASSUME NEW h \in Handlers, NEW base \in Versions, NEW content \in Contents,
              BeginEdit(h, base, content)
       PROVE  Now
  <2> DEFINE next == base + 1
             s == [Idle EXCEPT !.stage = "copy", !.op = "edit", !.version = next,
                               !.skill = LoadedSkill, !.content = content]
  <2>1. handler' = [handler EXCEPT ![h] = s]
    BY <1>15 DEF BeginEdit
  <2> HIDE DEF next
  <2>2. s.skill = LoadedSkill /\ s.op = "edit" /\ s.content = content
    BY DEF Idle
  <2> HIDE DEF s
  <2>3. Provided(s, files')
    BY <2>2, RegistryAssumption DEF Provided
  <2> QED
    BY <1>10, <1>15, <2>1, <2>2, <2>3 DEF BeginEdit
<1>16. ASSUME NEW h \in Handlers, StoreArtifacts(h) PROVE Now
  <2> DEFINE v == handler[h].version
             skill == handler[h].skill
             content == IF handler[h].op = "update" THEN files[v - 1] ELSE handler[h].content
             next == [skill EXCEPT ![v] = DraftOf(content)]
             s == IF skill[v] = NoVersion THEN Saving("draft", v, next) ELSE Idle
  <2>1. v \in Versions /\ skill \in Aggregate /\ F(skill)
    BY <1>0, <1>3, <1>16 DEF StoreArtifacts, WellPlaced
  <2>2. content \in Contents
    BY <1>0, <1>16 DEF TypeInv, StoresOK, StoreArtifacts, WellPlaced, HandlerState,
                       CopiesFaithful, Provided
  <2>3. /\ handler' = [handler EXCEPT ![h] = s] /\ UNCHANGED <<yaml, rows>>
        /\ files' = [files EXCEPT ![v] = content]
    BY <1>16 DEF StoreArtifacts
  <2> HIDE DEF content
  <2>4. DraftOf(content) \in VersionRecord /\ DraftOf(content).digest = content
    BY <2>2 DEF DraftOf, VersionRecord, Statuses, Stamps
  <2>5. next \in Aggregate /\ \A w \in Versions : next[w] = IF w = v THEN DraftOf(content) ELSE skill[w]
    BY <2>1, <2>4 DEF Aggregate
  <2>6. files'[v] = content /\ content # NoContent
    BY <2>1, <2>2, <2>3, RegistryAssumption DEF TypeInv, StoresOK
  <2> HIDE DEF next
  <2>7. F(next)
    <3> SUFFICES ASSUME NEW w \in Existing(next)
                 PROVE  files'[w] # NoContent /\ (w \notin replaced' => next[w].digest = files'[w])
      BY DEF F, Faithful
    <3>1. CASE w = v
      BY <2>1, <2>4, <2>5, <2>6, <3>1
    <3>2. CASE w # v
      <4>1. w \in Existing(skill) /\ next[w] = skill[w]
        BY <2>5, <3>2 DEF Existing
      <4> QED
        BY <2>1, <4>1 DEF F, Faithful
    <3> QED
      BY <3>1, <3>2
  <2>8. Saving("draft", v, next).skill = next /\ Saving("draft", v, next).stage = "save"
    BY <2>1, <2>5, SavingShape
  <2>9. F(s.skill) /\ s.stage # "copy"
    BY <1>5, <2>7, <2>8
  <2> HIDE DEF s
  <2> QED
    BY <1>7, <2>3, <2>9
<1>17. ASSUME NEW h \in Handlers, WriteYaml(h) PROVE Now
  <2> DEFINE v == CHOOSE w \in handler[h].unsaved : \A u \in handler[h].unsaved : w <= u
             left == handler[h].unsaved \ {v}
             stage == IF left = {} THEN "catalog" ELSE "save"
             skill == handler[h].skill
             s == [handler[h] EXCEPT !.unsaved = left, !.stage = stage]
  <2>1. /\ handler' = [handler EXCEPT ![h] = s] /\ rows' = rows
        /\ yaml' = [yaml EXCEPT ![v] = skill[v]]
    BY <1>17 DEF WriteYaml
  <2>2. stage # "copy"
    OBVIOUS
  <2> HIDE DEF left, stage
  <2>3. s.skill = skill /\ s.stage = stage
    BY <1>0 DEF HandlerState
  <2> HIDE DEF s, v
  <2>4. \A w \in Versions : yaml'[w] = IF w = v THEN skill[w] ELSE yaml[w]
    BY <1>0, <2>1 DEF Aggregate
  <2>5. F(skill) /\ F(yaml)
    BY <1>3
  <2>6. F(yaml')
    <3> SUFFICES ASSUME NEW w \in Existing(yaml')
                 PROVE  files'[w] # NoContent /\ (w \notin replaced' => yaml'[w].digest = files'[w])
      BY DEF F, Faithful
    <3>1. w \in Versions /\ yaml'[w] # NoVersion
      BY DEF Existing
    <3>2. CASE w = v
      BY <2>4, <2>5, <3>1, <3>2 DEF F, Faithful, Existing
    <3>3. CASE w # v
      BY <2>4, <2>5, <3>1, <3>3 DEF F, Faithful, Existing
    <3> QED
      BY <3>2, <3>3
  <2> QED
    BY <1>7, <2>1, <2>2, <2>3, <2>5, <2>6
<1>18. ASSUME NEW h \in Handlers, UpsertCatalog(h) PROVE Now
  <2> DEFINE s == [handler[h] EXCEPT !.stage = "audit", !.skill = NoSkill]
  <2>1. handler' = [handler EXCEPT ![h] = s] /\ rows' = handler[h].skill /\ yaml' = yaml
    BY <1>18 DEF UpsertCatalog
  <2>2. s.skill = NoSkill /\ s.stage = "audit"
    BY <1>0 DEF HandlerState
  <2> HIDE DEF s
  <2> QED
    BY <1>3, <1>5, <1>7, <2>1, <2>2
<1>19. ASSUME NEW h \in Handlers, AppendAudit(h) PROVE Now
  <2>1. PICK s \in {[handler[h] EXCEPT !.stage = "index"],
                    [handler[h] EXCEPT !.stage = "unindex"], Idle} :
          handler' = [handler EXCEPT ![h] = s]
    BY <1>19 DEF AppendAudit
  <2>2. s.skill \in {NoSkill, handler[h].skill} /\ s.stage # "copy"
    BY <1>0, <1>5, <2>1 DEF HandlerState
  <2> QED
    BY <1>10, <1>19, <2>1, <2>2 DEF AppendAudit
<1>20. ASSUME NEW h \in Handlers, IndexVersion(h) \/ RemoveVersion(h) \/ ReindexAll(h) \/ Abort(h)
       PROVE  Now
  BY <1>5, <1>10, <1>20 DEF IndexVersion, RemoveVersion, ReindexAll, Abort
<1>21. ASSUME NEW h \in Handlers, BeginRebuild(h) PROVE Now
  <2> DEFINE s == [Idle EXCEPT !.stage = "wipe", !.op = "rebuild", !.skill = yaml]
  <2>1. s.skill = yaml /\ s.stage = "wipe"
    BY DEF Idle
  <2> HIDE DEF s
  <2> QED
    BY <1>10, <1>21, <2>1 DEF BeginRebuild, s
<1>22. ASSUME NEW h \in Handlers, WipeCatalog(h) \/ RefillCatalog(h) PROVE Now
  <2>1. PICK stage \in {"refill", "reindex"} :
          handler' = [handler EXCEPT ![h] = [handler[h] EXCEPT !.stage = stage]]
    BY <1>22 DEF WipeCatalog, RefillCatalog
  <2> DEFINE s == [handler[h] EXCEPT !.stage = stage]
  <2>2. s.skill = handler[h].skill /\ s.stage = stage
    BY <1>0 DEF HandlerState
  <2> HIDE DEF s
  <2>3. rows' \in {NoSkill, handler[h].skill} /\ yaml' = yaml
    BY <1>22 DEF WipeCatalog, RefillCatalog
  <2> QED
    BY <1>3, <1>5, <1>7, <2>1, <2>2, <2>3 DEF s
<1>23. ASSUME NEW v \in Versions, JudgeVersion(v) PROVE Now
  <2>1. \A h \in Handlers : Provided(handler[h], files')
    BY <1>0, <1>1, ProvidedKept DEF CopiesFaithful
  <2> QED
    BY <1>3, <1>23, <2>1 DEF JudgeVersion, Now
<1> QED
  BY <1>1, <1>9, <1>11, <1>12, <1>13, <1>14, <1>15, <1>16, <1>17, <1>18, <1>19, <1>20, <1>21,
     <1>22, <1>23 DEF Next, Command, Continue

-----------------------------------------------------------------------------
(* A package, from the request for it to its last file *)

Listing == {"resolve", "confirm", "list"}
Fetching == {"file_confirm", "file_list", "file_read", "answered"}

\* Nothing is fetched before the files are listed; once they are, they are those
\* stored for the version, and so is whatever was fetched.
Uniform(s, stored, lost) ==
    s.op = "package" =>
        /\ s.stage \in Listing \cup Fetching
        /\ s.stage \in Listing => s.got = {}
        /\ s.stage \in Fetching =>
              /\ s.version \in Versions /\ stored[s.version] # NoContent
              /\ s.version \notin lost =>
                    s.listing = stored[s.version] /\ s.got \subseteq {s.listing}

PackagesUniform == \A r \in Readers : Uniform(reader[r], files, replaced)

LEMMA UniformKept ==
    ASSUME NEW s, NEW t, NEW stored, NEW lost, NEW after, NEW gone,
           Kept(stored, lost, after, gone), Uniform(s, stored, lost),
           t.op = s.op, t.stage = s.stage, t.version = s.version,
           t.listing = s.listing, t.got = s.got
    PROVE  Uniform(t, after, gone)
BY DEF Uniform, Kept

\* A request for something else holds nothing of a package.
LEMMA OthersUniform ==
    ASSUME NEW s, NEW stored, NEW lost, s.op # "package"
    PROVE  Uniform(s, stored, lost)
BY DEF Uniform

LEMMA UniformMoves ==
    ASSUME ReaderShape, PackagesUniform, NEW r \in Readers, NEW s,
           reader' = [reader EXCEPT ![r] = s], DOMAIN s = Fields,
           Uniform(s, files, replaced),
           UNCHANGED <<files, replaced>>
    PROVE  ReaderShape' /\ PackagesUniform'
BY DEF ReaderShape, PackagesUniform

\* No read of a package's request brings it a file of anything but the version
\* listed.
LEMMA UniformRead ==
    ASSUME TypeInv, CopiesFaithful, ReaderShape, PackagesUniform,
           NEW r \in Readers, Read(r), UNCHANGED <<files, replaced>>
    PROVE  ReaderShape' /\ PackagesUniform'
<1> DEFINE s == reader[r]
           Goal == ReaderShape' /\ PackagesUniform'
           U(t) == Uniform(t, files, replaced)
<1>1. DOMAIN reader = Readers /\ DOMAIN s = Fields /\ U(s)
  BY DEF ReaderShape, PackagesUniform
<1>2. ASSUME NEW t, reader' = [reader EXCEPT ![r] = t], DOMAIN t = Fields, U(t) PROVE Goal
  BY <1>2, UniformMoves
<1>3. ASSUME NEW t, reader' = [reader EXCEPT ![r] = t], DOMAIN t = Fields, t.op # "package"
      PROVE  Goal
  BY <1>2, <1>3, OthersUniform
<1> SUFFICES Goal
  OBVIOUS
<1> HIDE DEF U, Goal
<1>4. ASSUME Refuse(r) PROVE Goal
  <2> DEFINE t == [Open EXCEPT !.stage = "refused"]
  <2>1. DOMAIN t = Fields /\ t.op # "package"
    BY DEF Open, Fields
  <2> HIDE DEF t
  <2> QED
    BY <1>3, <1>4, <2>1 DEF Refuse, t
<1>5. ASSUME NEW seen, Answer(r, seen) PROVE Goal
  <2> DEFINE shown == IF s.staff THEN {} ELSE seen
             t == [Open EXCEPT !.stage = "answered", !.shown = shown]
  <2>1. reader' = [reader EXCEPT ![r] = t]
    BY <1>5 DEF Answer
  <2> HIDE DEF shown
  <2>2. DOMAIN t = Fields /\ t.op # "package"
    BY DEF Open, Fields
  <2> HIDE DEF t
  <2> QED
    BY <1>3, <2>1, <2>2
<1>6. ASSUME NEW stage, GoOn(r, stage),
             \/ s.stage \in Listing /\ stage \in Listing
             \/ s.stage \in Fetching /\ stage \in Fetching
             \/ s.op # "package"
      PROVE  Goal
  <2> DEFINE t == [s EXCEPT !.stage = stage]
  <2>1. reader' = [reader EXCEPT ![r] = t]
    BY <1>6 DEF GoOn
  <2>2. /\ DOMAIN t = Fields /\ t.stage = stage /\ t.op = s.op /\ t.version = s.version
        /\ t.listing = s.listing /\ t.got = s.got
    BY <1>1 DEF Fields
  <2> HIDE DEF t
  <2>3. U(t)
    BY <1>1, <1>6, <2>2 DEF U, Uniform, Listing, Fetching
  <2> QED
    BY <1>2, <2>1, <2>2, <2>3
<1>7. ASSUME NEW v, NEW stage, SettleOn(r, v, stage),
             s.op # "package" \/ (s.stage \in Listing /\ stage \in Listing)
      PROVE  Goal
  <2> DEFINE b == IF s.version = Latest THEN ~s.staff /\ Standing(v, rows, replaced)
                                        ELSE s.steady
             t == [s EXCEPT !.stage = stage, !.version = v, !.steady = b]
  <2>1. reader' = [reader EXCEPT ![r] = t]
    BY <1>1, <1>7 DEF SettleOn
  <2> HIDE DEF b
  <2>2. DOMAIN t = Fields /\ t.stage = stage /\ t.op = s.op /\ t.got = s.got
    BY <1>1 DEF Fields
  <2> HIDE DEF t
  <2>3. U(t)
    BY <1>1, <1>7, <2>2 DEF U, Uniform, Listing, Fetching
  <2> QED
    BY <1>2, <2>1, <2>2, <2>3
<1>8. ASSUME NEW op, NEW v, NEW staff, Ask(r, op, v, staff) PROVE Goal
  <2> DEFINE b == ~staff /\ Standing(v, rows, replaced)
  <2>1. PICK wanted : reader' = [reader EXCEPT ![r] =
              [Open EXCEPT !.stage = FirstRead(op), !.op = op, !.version = v,
                           !.staff = staff, !.todo = wanted, !.steady = b]]
    BY <1>8 DEF Ask
  <2> DEFINE first == FirstRead(op)
             t == [Open EXCEPT !.stage = first, !.op = op, !.version = v,
                               !.staff = staff, !.todo = wanted, !.steady = b]
  <2>2. reader' = [reader EXCEPT ![r] = t]
    BY <2>1
  <2>3. op = "package" => first \in Listing
    BY DEF FirstRead, Listing
  <2> HIDE DEF b, first
  <2>4. DOMAIN t = Fields /\ t.stage = first /\ t.op = op /\ t.got = {}
    BY DEF Open, Fields
  <2> HIDE DEF t
  <2>5. U(t)
    BY <2>3, <2>4 DEF U, Uniform, Listing, Fetching
  <2> QED
    BY <1>2, <2>2, <2>4, <2>5
<1>9. CASE Resolve(r)
  <2> DEFINE found == Settled(rows, s.version, FALSE)
  <2>1. \/ Refuse(r)
        \/ Answer(r, found)
        \/ s.stage \in Listing /\ \E v \in found : SettleOn(r, v, "confirm")
        \/ s.op # "package" /\ \E v \in found : SettleOn(r, v, "file_confirm")
    BY <1>9 DEF Resolve, Listing
  <2>2. "confirm" \in Listing
    BY DEF Listing
  <2> HIDE DEF found
  <2> QED
    BY <1>4, <1>5, <1>7, <2>1, <2>2
<1>10. CASE ConfirmListing(r) \/ ConfirmFile(r) \/ FindFile(r)
  <2>1. \/ Refuse(r)
        \/ s.stage \in Listing /\ GoOn(r, "list")
        \/ s.stage \in Fetching /\ (GoOn(r, "file_list") \/ GoOn(r, "file_read"))
    BY <1>10 DEF ConfirmListing, ConfirmFile, FindFile, Listing, Fetching
  <2>2. "list" \in Listing /\ "file_list" \in Fetching /\ "file_read" \in Fetching
    BY DEF Listing, Fetching
  <2> QED
    BY <1>4, <1>6, <2>1, <2>2
<1>11. CASE ListFiles(r)
  <2>1. CASE Refuse(r)
    BY <1>4, <2>1
  <2>2. CASE ~Refuse(r)
    <3> DEFINE digest == rows[s.version].digest
               t == [s EXCEPT !.stage = "file_confirm", !.listing = digest, !.todo = digest]
    <3>1. reader' = [reader EXCEPT ![r] = t] /\ s.version \in Existing(rows) /\ s.stage = "list"
      BY <1>1, <1>11, <2>2 DEF ListFiles
    <3>2. /\ s.version \in Versions /\ files[s.version] # NoContent
          /\ s.version \notin replaced => digest = files[s.version]
      BY <3>1 DEF CopiesFaithful, Faithful, Existing
    <3> HIDE DEF digest
    <3>3. /\ DOMAIN t = Fields /\ t.stage = "file_confirm" /\ t.op = s.op /\ t.version = s.version
          /\ t.listing = digest /\ t.got = s.got
      BY <1>1 DEF Fields
    <3> HIDE DEF t
    <3>4. U(t)
      BY <1>1, <3>1, <3>2, <3>3 DEF U, Uniform, Listing, Fetching
    <3> QED
      BY <1>2, <3>1, <3>3, <3>4
  <2> QED
    BY <2>1, <2>2
<1>12. CASE ReadFile(r)
  <2>1. CASE Refuse(r)
    BY <1>4, <2>1
  <2>2. CASE ~Refuse(r)
    <3> DEFINE content == files[s.version]
               left == s.todo \ {NextFile(r)}
               stage == IF left = {} THEN "answered" ELSE "file_confirm"
               got == s.got \cup {content}
               t == [s EXCEPT !.got = got, !.todo = left,
                              !.shown = {s.version}, !.stage = stage]
    <3>1. reader' = [reader EXCEPT ![r] = t] /\ s.stage = "file_read"
      BY <1>1, <1>12, <2>2 DEF ReadFile, Fetched
    <3>2. stage \in Fetching
      BY DEF Fetching
    <3> HIDE DEF left, stage, got
    <3>3. /\ DOMAIN t = Fields /\ t.stage = stage /\ t.op = s.op /\ t.version = s.version
          /\ t.listing = s.listing /\ t.got = got
      BY <1>1 DEF Fields
    <3> HIDE DEF t
    <3>4. U(t)
      BY <1>1, <3>1, <3>2, <3>3 DEF U, Uniform, Listing, Fetching, got
    <3> QED
      BY <1>2, <3>1, <3>3, <3>4
  <2> QED
    BY <2>1, <2>2
<1>13. CASE Look(r) \/ ReadVersions(r) \/ ShowHit(r) \/ ReadArtifact(r)
  <2>1. PICK seen \in
            {IF s.op = "versions" THEN Published(rows) ELSE Settled(rows, Latest, FALSE),
             s.shown \cup Visible(rows, s.staff),
             IF Published(rows) = {} THEN {s.version} ELSE Settled(rows, Latest, FALSE),
             {s.version}} : Refuse(r) \/ Answer(r, seen)
    BY <1>13 DEF Look, ReadVersions, ShowHit, ReadArtifact
  <2> QED
    BY <1>4, <1>5, <2>1
<1>14. CASE ReadLatest(r)
  <2>1. s.op # "package"
    BY <1>1, <1>14 DEF ReadLatest, U, Uniform, Listing, Fetching
  <2> DEFINE found == Settled(rows, Latest, s.staff)
             t == [s EXCEPT !.stage = "all", !.shown = found]
  <2>2. Refuse(r) \/ reader' = [reader EXCEPT ![r] = t]
    BY <1>1, <1>14 DEF ReadLatest
  <2> HIDE DEF found
  <2>3. DOMAIN t = Fields /\ t.op = s.op
    BY <1>1 DEF Fields
  <2> HIDE DEF t
  <2> QED
    BY <1>3, <1>4, <2>1, <2>2, <2>3
<1>15. CASE SearchIndex(r)
  <2>1. s.op # "package"
    BY <1>1, <1>15 DEF SearchIndex, U, Uniform, Listing, Fetching
  <2>2. CASE Answer(r, {})
    BY <1>5, <2>2
  <2>3. CASE ~Answer(r, {})
    <3>1. PICK v \in index : reader' = [reader EXCEPT ![r].stage = "hit", ![r].version = v]
      BY <1>15, <2>3 DEF SearchIndex
    <3> DEFINE t == [s EXCEPT !.stage = "hit", !.version = v]
    <3>2. reader' = [reader EXCEPT ![r] = t]
      BY <1>1, <3>1
    <3>3. DOMAIN t = Fields /\ t.op = s.op
      BY <1>1 DEF Fields
    <3> HIDE DEF t
    <3> QED
      BY <1>3, <2>1, <3>2, <3>3
  <2> QED
    BY <2>2, <2>3
<1>16. CASE Find(r) \/ FindAgain(r)
  <2>1. s.op # "package"
    BY <1>1, <1>16 DEF Find, FindAgain, U, Uniform, Listing, Fetching
  <2>2. \/ Refuse(r) \/ GoOn(r, "find_again")
        \/ \E v \in Settled(rows, s.version, s.staff) \cup Settled(LoadedSkill, s.version, s.staff)
                    \cup Settled(yaml, s.version, s.staff) : SettleOn(r, v, "read")
    BY <1>16 DEF Find, FindAgain
  <2> QED
    BY <1>4, <1>6, <1>7, <2>1, <2>2
<1> QED
  BY <1>8, <1>9, <1>10, <1>11, <1>12, <1>13, <1>14, <1>15, <1>16 DEF Read

\* A step of the registry changes nothing a reader holds, and keeps what it relies on.
LEMMA UniformChange ==
    ASSUME TypeInv, CopiesFaithful, ReaderShape, PackagesUniform, Change
    PROVE  ReaderShape' /\ PackagesUniform'
<1> DEFINE moved == [r \in Readers |-> [reader[r] EXCEPT
                        !.steady = @ /\ Standing(reader[r].version, rows', replaced')]]
<1>1. reader' = moved /\ Kept(files, replaced, files', replaced')
  BY FilesKept DEF Change
<1>2. ASSUME NEW r \in Readers
      PROVE  DOMAIN reader'[r] = Fields /\ Uniform(reader'[r], files', replaced')
  <2> DEFINE s == reader[r]
             b == s.steady /\ Standing(s.version, rows', replaced')
             t == [s EXCEPT !.steady = b]
  <2>1. DOMAIN s = Fields /\ Uniform(s, files, replaced)
    BY DEF ReaderShape, PackagesUniform
  <2>2. reader'[r] = t
    BY <1>1
  <2> HIDE DEF b
  <2>3. /\ DOMAIN t = Fields /\ t.stage = s.stage /\ t.op = s.op /\ t.version = s.version
        /\ t.listing = s.listing /\ t.got = s.got
    BY <2>1 DEF Fields
  <2> HIDE DEF t, s
  <2>4. Uniform(t, files', replaced')
    BY <1>1, <2>1, <2>3, UniformKept
  <2> QED
    BY <2>2, <2>3, <2>4
<1>3. DOMAIN reader' = Readers
  BY <1>1
<1> QED
  BY <1>2, <1>3 DEF ReaderShape, PackagesUniform

PackageInv == TypeInv /\ CopiesFaithful /\ ReaderShape /\ PackagesUniform

LEMMA PackageStep == PackageInv /\ [ReadingNext]_allVars => PackageInv'
<1> SUFFICES ASSUME PackageInv, [ReadingNext]_allVars PROVE PackageInv'
  OBVIOUS
<1> USE DEF PackageInv
<1>1. [Next]_vars
  BY DEF ReadingNext, allVars, Change, registry, vars
<1>2. TypeInv'
  BY <1>1, TypeInvStep
<1>3. CASE Change
  BY <1>2, <1>3, FaithfulStep, UniformChange
<1>4. ASSUME UNCHANGED <<registry, replaced>> PROVE CopiesFaithful'
  BY <1>4 DEF registry, CopiesFaithful
<1>5. ASSUME NEW r \in Readers, Read(r), UNCHANGED <<registry, replaced>> PROVE PackageInv'
  BY <1>2, <1>4, <1>5, UniformRead DEF registry
<1>6. CASE UNCHANGED allVars
  BY <1>2, <1>4, <1>6 DEF allVars, registry, ReaderShape, PackagesUniform
<1> QED
  BY <1>3, <1>5, <1>6 DEF ReadingNext

LEMMA PackageInit == ReadingInit => PackageInv
<1> SUFFICES ASSUME ReadingInit PROVE PackageInv
  OBVIOUS
<1>1. TypeInv
  BY TypeInvInit DEF ReadingInit
<1>2. CopiesFaithful
  BY NothingUnfaithful DEF ReadingInit, Init, CopiesFaithful, Provided, Idle
<1>3. DOMAIN Open = Fields /\ Open.op # "package"
  BY DEF Open, Fields
<1>4. ReaderShape /\ PackagesUniform
  BY <1>3, OthersUniform DEF ReadingInit, ReaderShape, PackagesUniform
<1> QED
  BY <1>1, <1>2, <1>4 DEF PackageInv

\* The files of a package are those of one version as that version was listed,
\* unless its artifacts were overwritten: for any number of readers and handlers,
\* and even if handlers are cut off.
THEOREM PackageWhole == ReadingSpec => []PackageIsOneVersion
<1>1. ReadingSpec => []PackageInv
  BY PackageInit, PackageStep, PTL DEF ReadingSpec
<1>2. PackageInv => PackageIsOneVersion
  BY DEF PackageInv, PackagesUniform, Uniform, Fetching, Listing, PackageIsOneVersion
<1> QED
  BY <1>1, <1>2, PTL
-----------------------------------------------------------------------------
(* The public is refused only for cause.  A request that was steady so far  *)
(* finds its version at every read, since the catalog has it as published,  *)
(* and its artifacts, since the catalog's digest is that of what is stored; *)
(* and there is a version to settle on while one is published.              *)

FileStages == {"file_confirm", "file_list", "file_read"}

\* What a stage says about the request, and that it still wants a file.
Underway(s) ==
    /\ s.stage \in {"confirm", "list"} => s.op = "package"
    /\ s.stage \in FileStages => s.op \in {"package", "file"}
    /\ s.op = "file" /\ s.stage # "answered" => s.todo # {}
    /\ s.stage \in {"confirm", "list", "read"} \cup FileStages => s.version \in Versions
    /\ s.stage = "latest" => s.version = Latest

\* What a steady request may expect to find: its version in the catalog, so that
\* it need not look elsewhere, and of a package the files that were listed.
Promised(s, catalog, lost) ==
    s.steady =>
        /\ s.stage # "find_again"
        /\ s.stage # "hit" => ~s.staff /\ Standing(s.version, catalog, lost)
        /\ s.op = "package" /\ s.stage \in FileStages => s.todo # {} /\ s.todo \subseteq s.listing

RequestsPromised ==
    \A r \in Readers : Underway(reader[r]) /\ Promised(reader[r], rows, replaced)

\* There is a latest version among some.
LEMMA LastIsOne ==
    ASSUME NEW S \in SUBSET Versions, S # {}
    PROVE  Last(S) \in S
<1> DEFINE T == {n \in Versions : \E v \in S : v = MaxVersion + 1 - n}
<1>1. MaxVersion \in Nat /\ S \subseteq 1..MaxVersion /\ T \subseteq Nat
  BY RegistryAssumption DEF Versions
<1>2. ASSUME NEW v \in S PROVE MaxVersion + 1 - v \in T
  BY <1>1, <1>2 DEF Versions
<1>3. T # {}
  BY <1>2
<1>4. ASSUME NEW n \in T PROVE MaxVersion + 1 - n \in S
  BY <1>1
<1> HIDE DEF T
<1>5. PICK n \in T : \A m \in T : n <= m
  BY <1>1, <1>3, Least
<1>6. ASSUME NEW u \in S PROVE u <= MaxVersion + 1 - n
  <2>1. n <= MaxVersion + 1 - u /\ n \in Nat /\ u \in Nat
    BY <1>1, <1>2, <1>5
  <2> QED
    BY <1>1, <2>1
<1> QED
  BY <1>4, <1>6 DEF Last

\* Whoever may expect to find a version settles on one.
LEMMA StandingSettles ==
    ASSUME NEW A, NEW v, NEW lost, NEW staff, ~staff, Standing(v, A, lost)
    PROVE  Settled(A, v, staff) # {}
<1>1. Visible(A, staff) = Published(A) /\ Published(A) \subseteq Versions
  BY DEF Visible, Published, Existing
<1>2. CASE v = Latest
  BY <1>1, <1>2, LastIsOne DEF Standing, Settled
<1>3. CASE v # Latest
  BY <1>1, <1>3 DEF Standing, Settled
<1> QED
  BY <1>2, <1>3

\* A request settles on a version, and on the one it names.
LEMMA SettledOn ==
    ASSUME NEW A, NEW v, NEW staff, NEW w \in Settled(A, v, staff)
    PROVE  w \in Versions /\ (v # Latest => w = v)
BY DEF Settled, Visible, Published, Existing

LEMMA NotLatest == \A v \in Versions : v # Latest
BY RegistryAssumption DEF Versions, Latest

\* What stands in the catalog is stored as the catalog says, and is something.
LEMMA StandingStored ==
    ASSUME TypeInv, CopiesFaithful, NEW v \in Versions, Standing(v, rows, replaced)
    PROVE  /\ v \in Existing(rows) /\ v \notin replaced
           /\ files[v] # NoContent /\ files[v] # {} /\ rows[v].digest = files[v]
<1>1. v \in Published(rows) \ replaced
  BY NotLatest DEF Standing
<1>2. v \in Existing(rows)
  BY <1>1 DEF Published
<1>3. files[v] # NoContent /\ rows[v].digest = files[v]
  BY <1>1, <1>2 DEF CopiesFaithful, Faithful
<1>4. files[v] \in Contents
  BY <1>3 DEF TypeInv, StoresOK
<1>5. \A c \in Contents : c # {}
  BY ReadingAssumption
<1> QED
  BY <1>1, <1>2, <1>3, <1>4, <1>5

LEMMA Wanted ==
    ASSUME NEW r \in Readers, reader[r].todo # {}
    PROVE  NextFile(r) \in reader[r].todo
BY DEF NextFile

\* A read leaves the other requests alone.
LEMMA ReadsOwn ==
    ASSUME ReaderShape, NEW q \in Readers, Read(q), NEW r \in Readers, q # r
    PROVE  reader'[r] = reader[r]
BY DEF ReaderShape, Read, Ask, Resolve, ConfirmListing, ListFiles, ConfirmFile, FindFile,
       ReadFile, Look, ReadLatest, ReadVersions, SearchIndex, ShowHit, Find, FindAgain,
       ReadArtifact, Refuse, Answer, GoOn, SettleOn

\* No read makes a request expect what it cannot find.
LEMMA PromisedRead ==
    ASSUME PackageInv, RequestsPromised, NEW r \in Readers, Read(r),
           UNCHANGED <<registry, replaced>>
    PROVE  RequestsPromised'
<1> DEFINE s == reader[r]
           P(t) == Promised(t, rows, replaced)
<1>1. /\ DOMAIN reader = Readers /\ DOMAIN s = Fields /\ Underway(s) /\ P(s)
      /\ rows' = rows /\ replaced' = replaced
      /\ TypeInv /\ CopiesFaithful
  BY DEF PackageInv, ReaderShape, RequestsPromised, registry
<1>2. ASSUME NEW t, reader' = [reader EXCEPT ![r] = t], Underway(t), P(t)
      PROVE  RequestsPromised'
  <2>1. ASSUME NEW q \in Readers PROVE Underway(reader'[q]) /\ P(reader'[q])
    <3>1. CASE q = r
      BY <1>1, <1>2, <3>1
    <3>2. CASE q # r
      BY <1>1, <1>2, <3>2 DEF RequestsPromised
    <3> QED
      BY <3>1, <3>2
  <2> QED
    BY <1>1, <2>1 DEF RequestsPromised
<1> SUFFICES RequestsPromised'
  OBVIOUS
<1>3. ASSUME NEW t, reader' = [reader EXCEPT ![r] = t], t.op = "none",
             t.stage \in Ended, t.steady = FALSE
      PROVE  RequestsPromised'
  <2>1. Underway(t) /\ P(t)
    BY <1>3 DEF Underway, Promised, Ended, FileStages
  <2> QED
    BY <1>2, <1>3, <2>1
<1> HIDE DEF P
<1>4. ASSUME Refuse(r) PROVE RequestsPromised'
  <2> DEFINE t == [Open EXCEPT !.stage = "refused"]
  <2>1. t.op = "none" /\ t.stage \in Ended /\ t.steady = FALSE
    BY DEF Open, Ended
  <2> HIDE DEF t
  <2> QED
    BY <1>3, <1>4, <2>1 DEF Refuse, t
<1>5. ASSUME NEW seen, Answer(r, seen) PROVE RequestsPromised'
  <2> DEFINE shown == IF s.staff THEN {} ELSE seen
             t == [Open EXCEPT !.stage = "answered", !.shown = shown]
  <2>1. reader' = [reader EXCEPT ![r] = t]
    BY <1>5 DEF Answer
  <2> HIDE DEF shown
  <2>2. t.op = "none" /\ t.stage \in Ended /\ t.steady = FALSE
    BY DEF Open, Ended
  <2> HIDE DEF t
  <2> QED
    BY <1>3, <2>1, <2>2
<1>6. ASSUME NEW stage, GoOn(r, stage),
             \/ s.stage = "confirm" /\ stage = "list"
             \/ s.stage \in FileStages /\ stage \in FileStages
             \/ s.stage = "find" /\ stage = "find_again" /\ ~s.steady
      PROVE  RequestsPromised'
  <2> DEFINE t == [s EXCEPT !.stage = stage]
  <2>1. reader' = [reader EXCEPT ![r] = t]
    BY <1>6 DEF GoOn
  <2>2. /\ t.stage = stage /\ t.op = s.op /\ t.version = s.version /\ t.todo = s.todo
        /\ t.listing = s.listing /\ t.staff = s.staff /\ t.steady = s.steady
    BY <1>1 DEF Fields
  <2> HIDE DEF t
  <2>3. Underway(t)
    BY <1>1, <1>6, <2>2 DEF Underway, FileStages
  <2>4. P(t)
    BY <1>1, <1>6, <2>2 DEF P, Promised, FileStages
  <2> QED
    BY <1>2, <2>1, <2>3, <2>4
<1>7. ASSUME NEW A, NEW staff, NEW v \in Settled(A, s.version, staff), NEW stage,
             SettleOn(r, v, stage),
             \/ s.stage = "resolve" /\ s.op = "package" /\ stage = "confirm"
             \/ s.stage = "resolve" /\ s.op = "file" /\ stage = "file_confirm"
             \/ s.stage \in {"find", "find_again"} /\ stage = "read"
      PROVE  RequestsPromised'
  <2> DEFINE b == IF s.version = Latest THEN ~s.staff /\ Standing(v, rows, replaced)
                                        ELSE s.steady
             t == [s EXCEPT !.stage = stage, !.version = v, !.steady = b]
  <2>1. reader' = [reader EXCEPT ![r] = t]
    BY <1>1, <1>7 DEF SettleOn
  <2>2. v \in Versions /\ (s.version # Latest => v = s.version)
    BY <1>7, SettledOn
  <2>3. b => \/ ~s.staff /\ Standing(v, rows, replaced)
             \/ s.steady /\ v = s.version
    BY <2>2
  <2> HIDE DEF b
  <2>4. /\ t.stage = stage /\ t.op = s.op /\ t.version = v /\ t.todo = s.todo
        /\ t.listing = s.listing /\ t.staff = s.staff /\ t.steady = b
    BY <1>1 DEF Fields
  <2> HIDE DEF t
  <2>5. Underway(t)
    BY <1>1, <1>7, <2>2, <2>4 DEF Underway, FileStages
  <2>6. ~s.staff /\ Standing(v, rows, replaced) => P(t)
    BY <1>7, <2>4 DEF P, Promised, FileStages
  <2>7. s.steady /\ v = s.version => ~s.staff /\ Standing(v, rows, replaced)
    BY <1>1, <1>7 DEF P, Promised
  <2>8. ~b => P(t)
    BY <2>4 DEF P, Promised
  <2>9. P(t)
    BY <2>3, <2>6, <2>7, <2>8
  <2> QED
    BY <1>2, <2>1, <2>5, <2>9
<1>8. ASSUME NEW staff, NEW v, NEW op \in Offered(staff), Ask(r, op, v, staff)
      PROVE  RequestsPromised'
  <2> DEFINE b == ~staff /\ Standing(v, rows, replaced)
  <2>1. PICK wanted \in IF op = "file" THEN {{p} : p \in Paths} ELSE {{}} :
            reader' = [reader EXCEPT ![r] =
              [Open EXCEPT !.stage = FirstRead(op), !.op = op, !.version = v,
                           !.staff = staff, !.todo = wanted, !.steady = b]]
    BY <1>8 DEF Ask
  <2> DEFINE first == FirstRead(op)
             t == [Open EXCEPT !.stage = first, !.op = op, !.version = v,
                               !.staff = staff, !.todo = wanted, !.steady = b]
  <2>2. reader' = [reader EXCEPT ![r] = t]
    BY <2>1
  <2>3. op = "file" => wanted # {}
    BY <2>1
  <2>4. op \in Unversioned => v = Latest
    BY <1>8 DEF Ask
  <2>5. first \in {"resolve", "look", "search", "latest", "find"} /\ (first = "latest" => v = Latest)
    BY <1>8, <2>4 DEF FirstRead, Offered, ForBoth, ForStaff, ForPublic, Unversioned
  <2>6. b => ~staff /\ Standing(v, rows, replaced)
    OBVIOUS
  <2> HIDE DEF b, first
  <2>7. /\ t.stage = first /\ t.op = op /\ t.version = v /\ t.todo = wanted
        /\ t.staff = staff /\ t.steady = b
    BY DEF Open, Fields
  <2> HIDE DEF t
  <2>8. Underway(t)
    BY <2>3, <2>5, <2>7 DEF Underway, FileStages
  <2>9. P(t)
    BY <2>5, <2>6, <2>7 DEF P, Promised, FileStages
  <2> QED
    BY <1>2, <2>2, <2>8, <2>9
<1>9. CASE Resolve(r)
  <2> DEFINE found == Settled(rows, s.version, FALSE)
  <2>1. /\ s.stage = "resolve"
        /\ \/ Refuse(r)
           \/ Answer(r, found)
           \/ s.op = "package" /\ \E v \in found : SettleOn(r, v, "confirm")
           \/ s.op = "file" /\ \E v \in found : SettleOn(r, v, "file_confirm")
    BY <1>9 DEF Resolve
  <2>2. CASE Refuse(r)
    BY <1>4, <2>2
  <2>3. CASE Answer(r, found)
    BY <1>5, <2>3
  <2>4. CASE s.op = "package" /\ \E v \in found : SettleOn(r, v, "confirm")
    BY <1>7, <2>1, <2>4
  <2>5. CASE s.op = "file" /\ \E v \in found : SettleOn(r, v, "file_confirm")
    BY <1>7, <2>1, <2>5
  <2> QED
    BY <2>1, <2>2, <2>3, <2>4, <2>5
<1>10. CASE ConfirmListing(r) \/ ConfirmFile(r) \/ FindFile(r)
  <2>1. \/ Refuse(r)
        \/ s.stage = "confirm" /\ GoOn(r, "list")
        \/ s.stage \in FileStages /\ (GoOn(r, "file_list") \/ GoOn(r, "file_read"))
    BY <1>10 DEF ConfirmListing, ConfirmFile, FindFile, FileStages
  <2>2. "file_list" \in FileStages /\ "file_read" \in FileStages
    BY DEF FileStages
  <2> QED
    BY <1>4, <1>6, <2>1, <2>2
<1>11. CASE ListFiles(r)
  <2>1. CASE Refuse(r)
    BY <1>4, <2>1
  <2>2. CASE ~Refuse(r)
    <3> DEFINE digest == rows[s.version].digest
               t == [s EXCEPT !.stage = "file_confirm", !.listing = digest, !.todo = digest]
    <3>1. reader' = [reader EXCEPT ![r] = t] /\ s.stage = "list"
      BY <1>1, <1>11, <2>2 DEF ListFiles
    <3>2. s.version \in Versions /\ s.op = "package"
      BY <1>1, <3>1 DEF Underway
    <3>3. s.steady => ~s.staff /\ Standing(s.version, rows, replaced)
      BY <1>1, <3>1 DEF P, Promised
    <3>4. s.steady => digest # {}
      BY <1>1, <3>2, <3>3, StandingStored
    <3> HIDE DEF digest
    <3>5. /\ t.stage = "file_confirm" /\ t.op = s.op /\ t.version = s.version
          /\ t.listing = digest /\ t.todo = digest /\ t.staff = s.staff /\ t.steady = s.steady
      BY <1>1 DEF Fields
    <3> HIDE DEF t
    <3>6. Underway(t)
      BY <3>2, <3>5 DEF Underway, FileStages
    <3>7. P(t)
      BY <3>3, <3>4, <3>5 DEF P, Promised
    <3> QED
      BY <1>2, <3>1, <3>6, <3>7
  <2> QED
    BY <2>1, <2>2
<1>12. CASE ReadFile(r)
  <2>1. CASE Refuse(r)
    BY <1>4, <2>1
  <2>2. CASE ~Refuse(r)
    <3> DEFINE content == files[s.version]
               left == s.todo \ {NextFile(r)}
               stage == IF left = {} THEN "answered" ELSE "file_confirm"
               got == s.got \cup {content}
               t == [s EXCEPT !.got = got, !.todo = left,
                              !.shown = {s.version}, !.stage = stage]
    <3>1. reader' = [reader EXCEPT ![r] = t] /\ s.stage = "file_read"
      BY <1>1, <1>12, <2>2 DEF ReadFile, Fetched
    <3>2. /\ stage \in {"answered", "file_confirm"} /\ (stage = "file_confirm" => left # {})
          /\ left \subseteq s.todo
      OBVIOUS
    <3> HIDE DEF left, stage, got
    <3>3. /\ t.stage = stage /\ t.op = s.op /\ t.version = s.version
          /\ t.listing = s.listing /\ t.todo = left /\ t.staff = s.staff /\ t.steady = s.steady
      BY <1>1 DEF Fields
    <3> HIDE DEF t
    <3>4. Underway(t)
      BY <1>1, <3>1, <3>2, <3>3 DEF Underway, FileStages
    <3>5. P(t)
      BY <1>1, <3>1, <3>2, <3>3 DEF P, Promised, FileStages
    <3> QED
      BY <1>2, <3>1, <3>4, <3>5
  <2> QED
    BY <2>1, <2>2
<1>13. CASE Look(r) \/ ReadVersions(r) \/ ShowHit(r) \/ ReadArtifact(r)
  <2>1. PICK seen \in
            {IF s.op = "versions" THEN Published(rows) ELSE Settled(rows, Latest, FALSE),
             s.shown \cup Visible(rows, s.staff),
             IF Published(rows) = {} THEN {s.version} ELSE Settled(rows, Latest, FALSE),
             {s.version}} : Refuse(r) \/ Answer(r, seen)
    BY <1>13 DEF Look, ReadVersions, ShowHit, ReadArtifact
  <2> QED
    BY <1>4, <1>5, <2>1
<1>14. CASE ReadLatest(r)
  <2> DEFINE found == Settled(rows, Latest, s.staff)
             t == [s EXCEPT !.stage = "all", !.shown = found]
  <2>1. s.stage = "latest" /\ (Refuse(r) \/ reader' = [reader EXCEPT ![r] = t])
    BY <1>1, <1>14 DEF ReadLatest
  <2> HIDE DEF found
  <2>2. /\ t.stage = "all" /\ t.op = s.op /\ t.version = s.version /\ t.todo = s.todo
        /\ t.listing = s.listing /\ t.staff = s.staff /\ t.steady = s.steady
    BY <1>1 DEF Fields
  <2> HIDE DEF t
  <2>3. Underway(t)
    BY <1>1, <2>1, <2>2 DEF Underway, FileStages
  <2>4. P(t)
    BY <1>1, <2>1, <2>2 DEF P, Promised, FileStages
  <2> QED
    BY <1>2, <1>4, <2>1, <2>3, <2>4
<1>15. CASE SearchIndex(r)
  <2>1. CASE Answer(r, {})
    BY <1>5, <2>1
  <2>2. CASE ~Answer(r, {})
    <3>1. PICK v \in index : reader' = [reader EXCEPT ![r].stage = "hit", ![r].version = v]
      BY <1>15, <2>2 DEF SearchIndex
    <3> DEFINE t == [s EXCEPT !.stage = "hit", !.version = v]
    <3>2. reader' = [reader EXCEPT ![r] = t] /\ s.stage = "search"
      BY <1>1, <1>15, <3>1 DEF SearchIndex
    <3>3. t.stage = "hit" /\ t.op = s.op /\ t.todo = s.todo
      BY <1>1 DEF Fields
    <3> HIDE DEF t
    <3>4. Underway(t)
      BY <1>1, <3>2, <3>3 DEF Underway, FileStages
    <3>5. P(t)
      BY <3>3 DEF P, Promised, FileStages
    <3> QED
      BY <1>2, <3>2, <3>4, <3>5
  <2> QED
    BY <2>1, <2>2
<1>16. CASE Find(r)
  <2> DEFINE found == Settled(rows, s.version, s.staff)
  <2>1. /\ s.stage = "find"
        /\ \/ found = {} /\ GoOn(r, "find_again")
           \/ \E v \in found : SettleOn(r, v, "read")
    BY <1>16 DEF Find
  <2>2. found = {} => ~s.steady
    <3> SUFFICES ASSUME s.steady PROVE found # {}
      OBVIOUS
    <3>1. ~s.staff /\ Standing(s.version, rows, replaced)
      BY <1>1, <2>1 DEF P, Promised
    <3> QED
      BY <3>1, StandingSettles
  <2>3. CASE found = {} /\ GoOn(r, "find_again")
    BY <1>6, <2>1, <2>2, <2>3
  <2>4. CASE \E v \in found : SettleOn(r, v, "read")
    BY <1>7, <2>1, <2>4
  <2> QED
    BY <2>1, <2>3, <2>4
<1>17. CASE FindAgain(r)
  <2>1. /\ s.stage = "find_again"
        /\ \/ Refuse(r)
           \/ \E v \in Settled(LoadedSkill, s.version, s.staff) : SettleOn(r, v, "read")
           \/ \E v \in Settled(yaml, s.version, s.staff) : SettleOn(r, v, "read")
    BY <1>17 DEF FindAgain
  <2>2. CASE \E v \in Settled(LoadedSkill, s.version, s.staff) : SettleOn(r, v, "read")
    BY <1>7, <2>1, <2>2
  <2>3. CASE \E v \in Settled(yaml, s.version, s.staff) : SettleOn(r, v, "read")
    BY <1>7, <2>1, <2>3
  <2> QED
    BY <1>4, <2>1, <2>2, <2>3
<1> QED
  BY <1>8, <1>9, <1>10, <1>11, <1>12, <1>13, <1>14, <1>15, <1>16, <1>17 DEF Read

\* A step of the registry ends the steadiness of whom it takes the version from.
LEMMA PromisedChange ==
    ASSUME ReaderShape, RequestsPromised, Change
    PROVE  RequestsPromised'
<1> SUFFICES ASSUME NEW r \in Readers
             PROVE  Underway(reader'[r]) /\ Promised(reader'[r], rows', replaced')
  BY DEF RequestsPromised
<1> DEFINE s == reader[r]
           stands == Standing(s.version, rows', replaced')
           b == s.steady /\ stands
           t == [s EXCEPT !.steady = b]
<1>1. DOMAIN s = Fields /\ Underway(s) /\ Promised(s, rows, replaced)
  BY DEF ReaderShape, RequestsPromised
<1>2. reader'[r] = t
  BY DEF Change
<1>3. b => s.steady /\ stands
  OBVIOUS
<1> HIDE DEF b
<1>4. /\ t.stage = s.stage /\ t.op = s.op /\ t.version = s.version /\ t.todo = s.todo
      /\ t.listing = s.listing /\ t.staff = s.staff /\ t.steady = b
  BY <1>1 DEF Fields
<1> HIDE DEF t
<1>5. Underway(t)
  BY <1>1, <1>4 DEF Underway
<1>6. ~b => Promised(t, rows', replaced')
  BY <1>4 DEF Promised
<1>7. b => Promised(t, rows', replaced')
  BY <1>1, <1>3, <1>4 DEF Promised
<1> QED
  BY <1>2, <1>5, <1>6, <1>7

LEMMA PromisedStep ==
    PackageInv /\ RequestsPromised /\ [ReadingNext]_allVars => RequestsPromised'
<1> SUFFICES ASSUME PackageInv, RequestsPromised, [ReadingNext]_allVars PROVE RequestsPromised'
  OBVIOUS
<1>1. CASE Change
  BY <1>1, PromisedChange DEF PackageInv
<1>2. ASSUME NEW r \in Readers, Read(r), UNCHANGED <<registry, replaced>>
      PROVE  RequestsPromised'
  BY <1>2, PromisedRead
<1>3. CASE UNCHANGED allVars
  BY <1>3 DEF allVars, registry, RequestsPromised
<1> QED
  BY <1>1, <1>2, <1>3 DEF ReadingNext

\* A steady request of the public is refused only if the file it wants is not one
\* of its version.
LEMMA Caused ==
    ASSUME PackageInv, RequestsPromised, NEW r \in Readers, Read(r),
           reader[r].steady, reader[r].stage \notin Ended, reader'[r].stage = "refused"
    PROVE  /\ reader[r].op = "file"
           /\ ~(reader[r].todo \subseteq rows[reader[r].version].digest)
<1> DEFINE s == reader[r]
           Goal == s.op = "file" /\ ~(s.todo \subseteq rows[s.version].digest)
<1> SUFFICES Goal
  OBVIOUS
<1>1. /\ DOMAIN reader = Readers /\ DOMAIN s = Fields /\ Underway(s)
      /\ Promised(s, rows, replaced) /\ Uniform(s, files, replaced)
      /\ TypeInv /\ CopiesFaithful
  BY DEF PackageInv, ReaderShape, RequestsPromised, PackagesUniform
<1>2. s.stage # "find_again" /\ (s.stage # "hit" => ~s.staff /\ Standing(s.version, rows, replaced))
  BY <1>1 DEF Promised
<1>3. s.stage # "hit" => Settled(rows, s.version, FALSE) # {} /\ Settled(rows, s.version, s.staff) # {}
  BY <1>2, StandingSettles
<1>4. s.stage \in {"confirm", "list", "read"} \cup FileStages =>
          /\ s.version \in Existing(rows) /\ s.version \notin replaced
          /\ files[s.version] # NoContent /\ rows[s.version].digest = files[s.version]
  <2> SUFFICES ASSUME s.stage \in {"confirm", "list", "read"} \cup FileStages
               PROVE  /\ s.version \in Existing(rows) /\ s.version \notin replaced
                      /\ files[s.version] # NoContent /\ rows[s.version].digest = files[s.version]
    OBVIOUS
  <2>1. s.version \in Versions /\ s.stage # "hit"
    BY <1>1 DEF Underway, FileStages
  <2> QED
    BY <1>1, <1>2, <2>1, StandingStored
<1>5. s.stage \in FileStages /\ NextFile(r) \notin rows[s.version].digest => Goal
  <2> SUFFICES ASSUME s.stage \in FileStages, NextFile(r) \notin rows[s.version].digest
               PROVE  Goal
    OBVIOUS
  <2>1. s.todo # {}
    BY <1>1 DEF Underway, Promised, FileStages
  <2>2. NextFile(r) \in s.todo
    BY <2>1, Wanted
  <2>3. s.op # "package"
    <3> SUFFICES ASSUME s.op = "package" PROVE FALSE
      OBVIOUS
    <3>1. s.todo \subseteq s.listing
      BY <1>1 DEF Promised
    <3>2. s.listing = files[s.version]
      BY <1>1, <1>4 DEF Uniform, Fetching, FileStages
    <3> QED
      BY <1>4, <2>2, <3>1, <3>2
  <2> QED
    BY <1>1, <2>2, <2>3 DEF Underway
<1> HIDE DEF Goal
<1>6. ASSUME NEW t, reader' = [reader EXCEPT ![r] = t] PROVE t.stage = "refused"
  BY <1>1, <1>6
<1>7. ASSUME NEW stage, GoOn(r, stage) PROVE stage = "refused"
  BY <1>1, <1>7 DEF GoOn, Fields
<1>8. ASSUME NEW v, NEW stage, SettleOn(r, v, stage) PROVE stage = "refused"
  BY <1>1, <1>8 DEF SettleOn, Fields
<1>9. ASSUME NEW seen, Answer(r, seen) PROVE FALSE
  BY <1>1, <1>9 DEF Answer, Open
<1>10. CASE \E staff \in BOOLEAN, v \in {Latest} \cup Versions :
               \E op \in Offered(staff) : Ask(r, op, v, staff)
  BY <1>10 DEF Ask
<1>11. CASE Resolve(r)
  BY <1>3, <1>8, <1>9, <1>11 DEF Resolve
<1>12. CASE ConfirmListing(r)
  BY <1>3, <1>7, <1>12 DEF ConfirmListing
<1>13. CASE ListFiles(r)
  <2>1. s.version \in Existing(rows)
    BY <1>4, <1>13 DEF ListFiles
  <2>2. reader' = [reader EXCEPT ![r].stage = "file_confirm",
                                 ![r].listing = rows[s.version].digest,
                                 ![r].todo = rows[s.version].digest]
    BY <1>13, <2>1 DEF ListFiles
  <2> QED
    BY <1>1, <2>2 DEF Fields
<1>14. CASE ConfirmFile(r)
  BY <1>3, <1>7, <1>14 DEF ConfirmFile, Fetched
<1>15. CASE FindFile(r)
  <2>1. s.version \in Existing(rows)
    BY <1>4, <1>15 DEF FindFile, FileStages
  <2> QED
    BY <1>5, <1>7, <1>15, <2>1 DEF FindFile, Fetched, FileStages
<1>16. CASE ReadFile(r)
  <2>1. s.stage = "file_read" /\ s.stage \in FileStages
    BY <1>16 DEF ReadFile, FileStages
  <2>2. files[s.version] # NoContent /\ rows[s.version].digest = files[s.version]
    BY <1>4, <2>1
  <2>3. CASE NextFile(r) \notin files[s.version]
    BY <1>5, <2>1, <2>2, <2>3
  <2>4. CASE NextFile(r) \in files[s.version]
    <3> DEFINE left == s.todo \ {NextFile(r)}
               stage == IF left = {} THEN "answered" ELSE "file_confirm"
               got == s.got \cup {files[s.version]}
               t == [s EXCEPT !.got = got, !.todo = left,
                              !.shown = {s.version}, !.stage = stage]
    <3>1. reader' = [reader EXCEPT ![r] = t] /\ stage # "refused"
      BY <1>1, <1>16, <2>2, <2>4 DEF ReadFile, Fetched
    <3> HIDE DEF left, stage, got
    <3>2. t.stage = stage
      BY <1>1 DEF Fields
    <3> HIDE DEF t
    <3> QED
      BY <1>6, <3>1, <3>2
  <2> QED
    BY <2>3, <2>4
<1>17. CASE Look(r) \/ ReadVersions(r) \/ ShowHit(r)
  BY <1>9, <1>17 DEF Look, ReadVersions, ShowHit
<1>18. CASE ReadLatest(r)
  <2>1. s.version = Latest /\ s.stage = "latest"
    BY <1>1, <1>18 DEF ReadLatest, Underway
  <2> DEFINE found == Settled(rows, Latest, s.staff)
             t == [s EXCEPT !.stage = "all", !.shown = found]
  <2>2. found # {}
    BY <1>3, <2>1
  <2>3. reader' = [reader EXCEPT ![r] = t]
    BY <1>1, <1>18, <2>2 DEF ReadLatest
  <2> HIDE DEF found
  <2>4. t.stage = "all"
    BY <1>1 DEF Fields
  <2> HIDE DEF t
  <2> QED
    BY <1>6, <2>3, <2>4
<1>19. CASE SearchIndex(r)
  <2>1. PICK v \in index : reader' = [reader EXCEPT ![r].stage = "hit", ![r].version = v]
    BY <1>9, <1>19 DEF SearchIndex
  <2> QED
    BY <1>1, <2>1 DEF Fields
<1>20. CASE Find(r)
  BY <1>3, <1>8, <1>20 DEF Find
<1>21. CASE FindAgain(r)
  BY <1>2, <1>21 DEF FindAgain
<1>22. CASE ReadArtifact(r)
  <2>1. s.stage = "read"
    BY <1>22 DEF ReadArtifact
  <2>2. files[s.version] # NoContent
    BY <1>4, <2>1
  <2> QED
    BY <1>9, <1>22, <2>2 DEF ReadArtifact
<1> QED
  BY <1>10, <1>11, <1>12, <1>13, <1>14, <1>15, <1>16, <1>17, <1>18, <1>19, <1>20, <1>21, <1>22
     DEF Read

\* The public is refused only for cause: what it asked for was not published, or
\* was overwritten, at some moment since it asked, or the file is not one of the
\* version; for any number of readers and handlers, and even if handlers are cut
\* off (resolvePublishedCatalogVersion asks again at every read).
THEOREM RefusalCaused == ReadingSpec => RefusedForCause
<1> DEFINE ForCause == \A r \in Readers :
          reader[r].stage \notin Ended /\ reader'[r].stage = "refused" =>
              \/ ~reader[r].steady
              \/ /\ reader[r].op = "file"
                 /\ ~(reader[r].todo \subseteq rows[reader[r].version].digest)
<1>1. ReadingInit => PackageInv /\ RequestsPromised
  <2> SUFFICES ASSUME ReadingInit PROVE RequestsPromised
    BY PackageInit
  <2>1. Open.stage = "idle" /\ Open.op = "none" /\ Open.steady = FALSE
    BY DEF Open
  <2> QED
    BY <2>1 DEF ReadingInit, RequestsPromised, Underway, Promised, FileStages
<1>2. PackageInv /\ RequestsPromised /\ [ReadingNext]_allVars => [ForCause]_allVars
  <2> SUFFICES ASSUME PackageInv, RequestsPromised, ReadingNext, NEW r \in Readers,
                      reader[r].stage \notin Ended, reader'[r].stage = "refused",
                      reader[r].steady
               PROVE  /\ reader[r].op = "file"
                      /\ ~(reader[r].todo \subseteq rows[reader[r].version].digest)
    OBVIOUS
  <2>1. DOMAIN reader = Readers /\ DOMAIN reader[r] = Fields
    BY DEF PackageInv, ReaderShape
  <2>2. CASE Change
    <3> DEFINE b == reader[r].steady /\ Standing(reader[r].version, rows', replaced')
    <3>1. reader'[r] = [reader[r] EXCEPT !.steady = b]
      BY <2>2 DEF Change
    <3> HIDE DEF b
    <3> QED
      BY <2>1, <3>1 DEF Fields, Ended
  <2>3. ASSUME NEW q \in Readers, Read(q)
        PROVE  /\ reader[r].op = "file"
               /\ ~(reader[r].todo \subseteq rows[reader[r].version].digest)
    <3>1. CASE q = r
      BY <2>3, <3>1, Caused
    <3>2. CASE q # r
      <4>1. reader'[r] = reader[r]
        BY <2>3, <3>2, ReadsOwn DEF PackageInv
      <4> QED
        BY <4>1 DEF Ended
    <3> QED
      BY <3>1, <3>2
  <2> QED
    BY <2>2, <2>3 DEF ReadingNext
<1>3. ReadingSpec => [](PackageInv /\ RequestsPromised)
  BY <1>1, PackageStep, PromisedStep, PTL DEF ReadingSpec
<1> HIDE DEF ForCause
<1>4. ReadingSpec => [][ForCause]_allVars
  BY <1>2, <1>3, PTL DEF ReadingSpec
<1> QED
  BY <1>4 DEF ForCause, RefusedForCause
=============================================================================
