--------------------------- MODULE SkillRegistry ----------------------------
(***************************************************************************)
(* One skill of the registry: the aggregate's stored form (skill.yaml of   *)
(* each version), the artifact storage, the catalog rows, the search index *)
(* and the audit log, and the handlers that work on them.  A handler is an *)
(* HTTP request or a background worker running one use case.  It reads the *)
(* skill once, changes the aggregate in memory and writes the stores one   *)
(* after the other; between two writes any other handler may run.  No      *)
(* store is locked and no write is conditional on what was read.           *)
(*                                                                         *)
(* Versions are numbered by their patch number: every new version of this  *)
(* code is a patch bump, so version n+1 is the only successor of n.        *)
(***************************************************************************)
EXTENDS Naturals, FiniteSets

CONSTANTS
    Handlers,       \* the requests and workers that may be in flight
    MaxVersion,     \* bound on the number of versions of the skill
    Contents,       \* what a version's artifacts may contain
    Policy,         \* PUBLISH_JUDGEMENT_POLICY
    Rebuilds,       \* may an administrator rebuild the projections?
    MaxFaults,      \* bound on how often a handler dies or fails between two writes
    NoVersion,      \* there is no such version
    NoContent       \* nothing stored

ASSUME RegistryAssumption ==
    /\ MaxVersion \in Nat \ {0}
    /\ Policy \in {"disabled", "warn", "required"}
    /\ Rebuilds \in BOOLEAN /\ MaxFaults \in Nat
    /\ NoContent \notin Contents

VARIABLES
    yaml,       \* skill.yaml of every version
    rows,       \* the catalog's rows of the skill
    files,      \* the artifacts stored for every version
    index,      \* the versions that have a search document
    judged,     \* the versions all of whose targets have a real judgement
    audit,      \* the audit entries about this skill
    handler,    \* what every handler is doing
    faults,     \* how many handlers were cut off
    cut         \* has one been cut off since the last complete rebuild?

history == <<faults, cut>>
vars == <<yaml, rows, files, index, judged, audit, handler, faults, cut>>

Versions == 1..MaxVersion
Statuses == {"draft", "in_review", "approved", "rejected", "published", "deprecated"}

\* Who did what to a version, as far as a stored record can tell.
Stamps == {"approved", "published", "rejected", "deprecated"}

VersionRecord == [status : Statuses, stamps : SUBSET Stamps, digest : Contents \cup {NoContent}]
ASSUME NoVersionAssumption == NoVersion \notin VersionRecord \cup Statuses

Aggregate == [Versions -> VersionRecord \cup {NoVersion}]
NoSkill == [v \in Versions |-> NoVersion]

Existing(skill) == {v \in Versions : skill[v] # NoVersion}
Published(skill) == {v \in Existing(skill) : skill[v].status = "published"}

Reviews == {"submit", "approve", "publish", "reject", "deprecate"}
Drafting == {"create", "update", "edit"}    \* audited alike, as a new draft
Stages == {"idle", "gate", "copy", "save", "catalog", "audit", "index",
           "unindex", "wipe", "refill", "reindex"}
AuditActions == Reviews \cup {"draft", "override", "ungated"}

Idle == [stage |-> "idle", op |-> "none", version |-> 0, skill |-> NoSkill,
         content |-> NoContent, unsaved |-> {}, override |-> FALSE]

Init ==
    /\ yaml = NoSkill
    /\ rows = NoSkill
    /\ files = [v \in Versions |-> NoContent]
    /\ index = {}
    /\ judged = {}
    /\ audit = {}
    /\ handler = [h \in Handlers |-> Idle]
    /\ faults = 0
    /\ cut = FALSE

-----------------------------------------------------------------------------
(* Loading the aggregate *)

\* The catalog rows keep who approved, published, rejected or deprecated a
\* version, but the hydrator builds every version with SkillVersion.create,
\* which has none of it.
Hydrated(skill) ==
    [v \in Versions |-> IF skill[v] = NoVersion THEN NoVersion
                                                ELSE [skill[v] EXCEPT !.stamps = {}]]

\* Mutant: the artifact storage is preferred to the catalog.
LoadedFromStorage == IF Existing(yaml) # {} THEN yaml ELSE Hydrated(rows)

LoadedSkill == IF Existing(rows) # {} THEN Hydrated(rows) ELSE yaml

\* The status commands act on and readers see.
VisibleStatus(v) ==
    LET skill == IF Existing(rows) # {} THEN rows ELSE yaml
    IN  IF skill[v] = NoVersion THEN NoVersion ELSE skill[v].status

-----------------------------------------------------------------------------
(* The aggregate's transitions *)

\* Mutant: approval can be skipped.
SourceStatusesUnapproved(op) ==
    CASE op = "submit"    -> {"draft"}
      [] op = "approve"   -> {"in_review"}
      [] op = "publish"   -> {"in_review", "approved"}
      [] op = "reject"    -> {"draft", "in_review", "approved"}
      [] op = "deprecate" -> {"published"}

SourceStatuses(op) ==
    CASE op = "submit"    -> {"draft"}
      [] op = "approve"   -> {"in_review"}
      [] op = "publish"   -> {"approved"}
      [] op = "reject"    -> {"draft", "in_review", "approved"}
      [] op = "deprecate" -> {"published"}

\* Mutant: the command's name is stored as the status.
TargetStatusOfName(op) == op

TargetStatus(op) ==
    CASE op = "submit"    -> "in_review"
      [] op = "approve"   -> "approved"
      [] op = "publish"   -> "published"
      [] op = "reject"    -> "rejected"
      [] op = "deprecate" -> "deprecated"

\* Submitting builds a fresh version; the other transitions add who and when.
Transitioned(skill, op, v) ==
    [skill EXCEPT ![v].status = TargetStatus(op),
                  ![v].stamps = IF op = "submit" THEN {} ELSE @ \cup {TargetStatus(op)}]

\* Mutant: the domain's transition check is dropped.
PermittedAnyStatus(skill, op, v) == v \in Existing(skill)

Permitted(skill, op, v) ==
    v \in Existing(skill) /\ skill[v].status \in SourceStatuses(op)

DraftOf(content) == [status |-> "draft", stamps |-> {}, digest |-> content]

Saving(op, v, skill) ==
    [Idle EXCEPT !.stage = "save", !.op = op, !.version = v,
                 !.skill = skill, !.unsaved = Existing(skill)]

-----------------------------------------------------------------------------
(* Review commands: load, change, save, audit, index *)

\* A command the domain refuses has no effect and is not represented.
Review(h, op, v) ==
    /\ handler[h].stage = "idle"
    /\ op \in Reviews \ {"publish"}
    /\ Permitted(LoadedSkill, op, v)
    /\ handler' = [handler EXCEPT ![h] = Saving(op, v, Transitioned(LoadedSkill, op, v))]
    /\ UNCHANGED <<yaml, rows, files, index, judged, audit, history>>

\* An administrator's reason to publish without judgements is read only by the
\* required policy.
Overrides == IF Policy = "required" THEN BOOLEAN ELSE {FALSE}

\* publish loads the skill before the judgement gate and changes it after.
BeginPublish(h, v, override) ==
    /\ handler[h].stage = "idle"
    /\ v \in Existing(LoadedSkill)
    /\ handler' = [handler EXCEPT ![h] =
          [Idle EXCEPT !.stage = "gate", !.op = "publish", !.version = v,
                       !.skill = LoadedSkill, !.override = override]]
    /\ UNCHANGED <<yaml, rows, files, index, judged, audit, history>>

\* enforcePublishJudgementPolicy: the gate may leave an audit entry even if
\* the transition that follows it is refused.
Ungated(v) == Policy = "disabled" \/ v \in judged

\* Mutant: an override leaves no entry.
GateEntriesOnWarning(h) ==
    IF Policy = "warn" /\ ~Ungated(handler[h].version)
    THEN {<<handler[h].version, "ungated">>} ELSE {}

GateEntries(h) ==
    LET v == handler[h].version
    IN  CASE Ungated(v)                                   -> {}
          [] ~Ungated(v) /\ Policy = "warn"               -> {<<v, "ungated">>}
          [] ~Ungated(v) /\ Policy = "required" /\ handler[h].override
                                                          -> {<<v, "override">>}
          [] OTHER                                        -> {}

GateOpen(h) == Ungated(handler[h].version) \/ Policy = "warn" \/ handler[h].override

PassGate(h) ==
    LET v == handler[h].version
        skill == handler[h].skill
    IN
    /\ handler[h].stage = "gate"
    /\ audit' = audit \cup GateEntries(h)
    /\ handler' = [handler EXCEPT ![h] =
          IF GateOpen(h) /\ Permitted(skill, "publish", v)
          THEN Saving("publish", v, Transitioned(skill, "publish", v))
          ELSE Idle]
    /\ UNCHANGED <<yaml, rows, files, index, judged, history>>
-----------------------------------------------------------------------------
(* Commands that add a version *)

\* A directory of the skill exists as soon as an artifact was stored in it.
SkillDirectoryExists == \E v \in Versions : yaml[v] # NoVersion \/ files[v] # NoContent

BeginCreate(h, content) ==
    /\ handler[h].stage = "idle"
    /\ ~SkillDirectoryExists
    /\ handler' = [handler EXCEPT ![h] =
          [Idle EXCEPT !.stage = "copy", !.op = "create", !.version = 1, !.content = content]]
    /\ UNCHANGED <<yaml, rows, files, index, judged, audit, history>>

\* updateSkill takes the last version of the aggregate and its artifacts.
BeginUpdate(h) ==
    \E base \in Existing(LoadedSkill) :
        /\ handler[h].stage = "idle"
        /\ \A v \in Existing(LoadedSkill) : v <= base
        /\ base < MaxVersion
        /\ handler' = [handler EXCEPT ![h] =
              [Idle EXCEPT !.stage = "copy", !.op = "update", !.version = base + 1,
                           !.skill = LoadedSkill]]
    /\ UNCHANGED <<yaml, rows, files, index, judged, audit, history>>

\* uploadFile, moveFile and deleteFile name their base version, which need not
\* be the last one; the artifacts of the new version differ from the base's.
BeginEdit(h, base, content) ==
    /\ handler[h].stage = "idle"
    /\ base \in Existing(LoadedSkill)
    /\ base < MaxVersion
    /\ handler' = [handler EXCEPT ![h] =
          [Idle EXCEPT !.stage = "copy", !.op = "edit", !.version = base + 1,
                       !.skill = LoadedSkill, !.content = content]]
    /\ UNCHANGED <<yaml, rows, files, index, judged, audit, history>>

\* The artifacts are stored first; only then does addVersion find out whether
\* the aggregate has that version already.
StoreArtifacts(h) ==
    LET v == handler[h].version
        skill == handler[h].skill
        content == IF handler[h].op = "update" THEN files[v - 1] ELSE handler[h].content
    IN
    /\ handler[h].stage = "copy"
    /\ files' = [files EXCEPT ![v] = content]
    /\ handler' = [handler EXCEPT ![h] =
          IF skill[v] = NoVersion
          THEN Saving("draft", v, [skill EXCEPT ![v] = DraftOf(content)])
          ELSE Idle]
    /\ UNCHANGED <<yaml, rows, index, judged, audit, history>>

-----------------------------------------------------------------------------
(* Saving: every version's yaml in order, then the catalog rows, the audit  *)
(* entry and the search index                                               *)

WriteYaml(h) ==
    LET v == CHOOSE w \in handler[h].unsaved : \A u \in handler[h].unsaved : w <= u
        left == handler[h].unsaved \ {v}
    IN
    /\ handler[h].stage = "save"
    /\ yaml' = [yaml EXCEPT ![v] = handler[h].skill[v]]
    /\ handler' = [handler EXCEPT ![h].unsaved = left,
                                  ![h].stage = IF left = {} THEN "catalog" ELSE "save"]
    /\ UNCHANGED <<rows, files, index, judged, audit, history>>

\* upsertSkill deletes every row of the skill and inserts the aggregate's.
UpsertCatalog(h) ==
    /\ handler[h].stage = "catalog"
    /\ rows' = handler[h].skill
    /\ handler' = [handler EXCEPT ![h].stage = "audit", ![h].skill = NoSkill]
    /\ UNCHANGED <<yaml, files, index, judged, audit, history>>

\* Mutant: publishing does not index.
AppendAuditUnindexed(h) ==
    LET op == handler[h].op
    IN
    /\ handler[h].stage = "audit"
    /\ audit' = audit \cup {<<handler[h].version, op>>}
    /\ handler' = [handler EXCEPT ![h] =
          IF op = "deprecate" THEN [@ EXCEPT !.stage = "unindex"] ELSE Idle]
    /\ UNCHANGED <<yaml, rows, files, index, judged, history>>

\* Mutant: deprecating leaves the search document.
AppendAuditKeepingIndex(h) ==
    LET op == handler[h].op
    IN
    /\ handler[h].stage = "audit"
    /\ audit' = audit \cup {<<handler[h].version, op>>}
    /\ handler' = [handler EXCEPT ![h] =
          IF op = "publish" THEN [@ EXCEPT !.stage = "index"] ELSE Idle]
    /\ UNCHANGED <<yaml, rows, files, index, judged, history>>

AppendAudit(h) ==
    LET op == handler[h].op
    IN
    /\ handler[h].stage = "audit"
    /\ audit' = audit \cup {<<handler[h].version, op>>}
    /\ handler' = [handler EXCEPT ![h] =
          CASE op = "publish"   -> [@ EXCEPT !.stage = "index"]
            [] op = "deprecate" -> [@ EXCEPT !.stage = "unindex"]
            [] OTHER            -> Idle]
    /\ UNCHANGED <<yaml, rows, files, index, judged, history>>

IndexVersion(h) ==
    /\ handler[h].stage = "index"
    /\ index' = index \cup {handler[h].version}
    /\ handler' = [handler EXCEPT ![h] = Idle]
    /\ UNCHANGED <<yaml, rows, files, judged, audit, history>>

RemoveVersion(h) ==
    /\ handler[h].stage = "unindex"
    /\ index' = index \ {handler[h].version}
    /\ handler' = [handler EXCEPT ![h] = Idle]
    /\ UNCHANGED <<yaml, rows, files, judged, audit, history>>
-----------------------------------------------------------------------------
(* Rebuilding the projections from the stored aggregates *)

BeginRebuild(h) ==
    /\ Rebuilds
    /\ handler[h].stage = "idle"
    /\ handler' = [handler EXCEPT ![h] =
          [Idle EXCEPT !.stage = "wipe", !.op = "rebuild", !.skill = yaml]]
    /\ UNCHANGED <<yaml, rows, files, index, judged, audit, history>>

WipeCatalog(h) ==
    /\ handler[h].stage = "wipe"
    /\ rows' = NoSkill
    /\ handler' = [handler EXCEPT ![h].stage = "refill"]
    /\ UNCHANGED <<yaml, files, index, judged, audit, history>>

RefillCatalog(h) ==
    /\ handler[h].stage = "refill"
    /\ rows' = handler[h].skill
    /\ handler' = [handler EXCEPT ![h].stage = "reindex"]
    /\ UNCHANGED <<yaml, files, index, judged, audit, history>>

\* Mutant: a rebuild indexes every version, whatever its status.
ReindexEverything(h) ==
    /\ handler[h].stage = "reindex"
    /\ index' = Existing(handler[h].skill)
    /\ handler' = [handler EXCEPT ![h] = Idle]
    /\ cut' = FALSE
    /\ UNCHANGED <<yaml, rows, files, judged, audit, faults>>

ReindexAll(h) ==
    /\ handler[h].stage = "reindex"
    /\ index' = Published(handler[h].skill)
    /\ handler' = [handler EXCEPT ![h] = Idle]
    /\ cut' = FALSE
    /\ UNCHANGED <<yaml, rows, files, judged, audit, faults>>

-----------------------------------------------------------------------------
(* What happens around the handlers *)

\* A judgement run stores a real judgement of the version and its files; only
\* the gate of publish reads it.
JudgeVersion(v) ==
    /\ Policy # "disabled"
    /\ v \in Existing(rows) \cup Existing(yaml)
    /\ judged' = judged \cup {v}
    /\ UNCHANGED <<yaml, rows, files, index, audit, handler, history>>

\* The process stops, or a store rejects the next write.
Abort(h) ==
    /\ faults < MaxFaults
    /\ handler[h].stage # "idle"
    /\ handler' = [handler EXCEPT ![h] = Idle]
    /\ faults' = faults + 1
    /\ cut' = TRUE
    /\ UNCHANGED <<yaml, rows, files, index, judged, audit>>

-----------------------------------------------------------------------------
Command(h) ==
    \/ \E op \in Reviews, v \in Versions : Review(h, op, v)
    \/ \E v \in Versions, override \in Overrides : BeginPublish(h, v, override)
    \/ \E content \in Contents : BeginCreate(h, content)
    \/ BeginUpdate(h)
    \/ \E base \in Versions, content \in Contents : BeginEdit(h, base, content)
    \/ BeginRebuild(h)

Continue(h) ==
    \/ PassGate(h)
    \/ StoreArtifacts(h)
    \/ WriteYaml(h)
    \/ UpsertCatalog(h)
    \/ AppendAudit(h)
    \/ IndexVersion(h)
    \/ RemoveVersion(h)
    \/ WipeCatalog(h)
    \/ RefillCatalog(h)
    \/ ReindexAll(h)

Next ==
    \/ \E h \in Handlers : Command(h) \/ Continue(h) \/ Abort(h)
    \/ \E v \in Versions : JudgeVersion(v)

Spec == Init /\ [][Next]_vars

\* Every promise a handler waits for is settled, so a handler that has started
\* goes on; nothing forces a command to arrive.
FairSpec == Spec /\ \A h \in Handlers : WF_vars(Continue(h))

-----------------------------------------------------------------------------
(* Properties *)

HandlerState ==
    [stage : Stages, op : Reviews \cup Drafting \cup {"draft", "rebuild", "none"},
     version : 0..MaxVersion, skill : Aggregate, content : Contents \cup {NoContent},
     unsaved : SUBSET Versions, override : BOOLEAN]

StoresOK ==
    /\ yaml \in Aggregate
    /\ rows \in Aggregate
    /\ files \in [Versions -> Contents \cup {NoContent}]
    /\ index \subseteq Versions
    /\ judged \subseteq Versions
    /\ audit \subseteq Versions \X AuditActions
    /\ handler \in [Handlers -> HandlerState]

HistoryOK == faults \in 0..MaxFaults /\ cut \in BOOLEAN

\* Every store and every handler holds a value of its shape.
TypeOK == StoresOK /\ HistoryOK

AllIdle == \A h \in Handlers : handler[h].stage = "idle"

Lifecycle == INSTANCE SkillLifecycle
    WITH Absent <- NoVersion, status <- [v \in Versions |-> VisibleStatus(v)]

\* What commands see of a version only ever moves along the transition table
\* of SkillStatus.ts, whichever stores an interrupted handler left behind.
LifecycleRefined == Lifecycle!Spec

\* With no handler in flight, and no command cut off that a complete rebuild has
\* not made good since, the catalog repeats the stored aggregate and the search
\* index holds the published versions (save of the repository, review-skill and
\* rebuild-projections use cases).
RebuildRepairs == (AllIdle /\ ~cut) => (rows = yaml /\ index = Published(rows))

\* A published version gets its search document, unless it stops being
\* published first or a command is cut off (publish of review-skill.usecase.ts
\* indexes after the audit).
PublishedBecomesSearchable ==
    \A v \in Versions :
        VisibleStatus(v) = "published" ~>
            (v \in index \/ VisibleStatus(v) # "published" \/ cut)

\* The review commands a version must have been through to have a status.
History(status) ==
    CASE status = "draft"      -> {}
      [] status = "in_review"  -> {"submit"}
      [] status = "approved"   -> {"submit", "approve"}
      [] status = "rejected"   -> {"reject"}
      [] status = "published"  -> {"submit", "approve", "publish"}
      [] status = "deprecated" -> {"submit", "approve", "publish", "deprecate"}

Pending(v, op) ==
    \E h \in Handlers :
        /\ handler[h].version = v /\ handler[h].op = op
        /\ handler[h].stage \in {"save", "catalog", "audit"}

AuditedOrPending(v, op) == <<v, op>> \in audit \/ Pending(v, op)

\* Each command behind a version's status is in the audit log, or its handler
\* is still about to write the entry; in particular nothing is published that
\* was not approved, however handlers interleave (Skill.spec.md).
AuditExplainsStatus ==
    \A v \in Existing(rows) : \A op \in History(rows[v].status) : AuditedOrPending(v, op)

\* A search document exists only for a version somebody published.
IndexExplained == \A v \in index : AuditedOrPending(v, "publish")

\* Nothing is published past the judgement gate without a judgement or an
\* audit entry that says why (enforcePublishJudgementPolicy).
GateRespected ==
    \A v \in Published(rows) :
        \/ Policy = "disabled"
        \/ v \in judged
        \/ \E entry \in {"override", "ungated"} : <<v, entry>> \in audit

\* The artifacts of a version the catalog knows never change
\* (SkillVersion.spec.md, UpdateSkillUseCase.spec.md).
VersionsImmutable == [][\A v \in Existing(rows) : files'[v] = files[v]]_vars
=============================================================================
