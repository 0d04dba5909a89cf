----------------------------- MODULE Proposals ------------------------------
(***************************************************************************)
(* The proposals one submitter makes for one skill: proposal.yaml, the     *)
(* uploaded files, the catalog row, the audit entries that are read back,  *)
(* and the versions of the skill made from them.  Submitters open, fill    *)
(* and finalize an upload, which is then judged and perhaps published      *)
(* without a reviewer; reviewers judge again, edit, reject, convert and    *)
(* clean up.  Each loads a proposal once, waits for models and stores, and *)
(* writes its copy back, first to proposal.yaml and then to the catalog.   *)
(*                                                                         *)
(* Metadata other than the files is left out: nothing the commands decide  *)
(* depends on it.  Every file is one that is extracted and judged.         *)
(***************************************************************************)
EXTENDS Naturals, FiniteSets

CONSTANTS
    Handlers,       \* the requests and workers that may be in flight
    Proposals,      \* the identifiers of the submitter's proposals
    Paths,          \* the paths of the files that may be uploaded
    MaxFiles,       \* the configured limit of files per proposal
    Verdicts,       \* what a judgement may say
    MaxVersion,     \* bound on the versions of the skill
    AutoPublish,    \* AUTO_PUBLISH_ON_GREEN
    MaxFaults,      \* bound on handlers that die or whose write is rejected
    NoProposal,     \* there is no such proposal
    NoPath          \* no path

ASSUME ProposalsAssumption ==
    /\ MaxFiles \in Nat /\ MaxVersion \in Nat
    /\ Verdicts \subseteq {"green", "red"}
    /\ AutoPublish \in BOOLEAN /\ MaxFaults \in Nat
    /\ NoPath \notin Paths

Text == NoPath      \* the target of the judgement on the proposal as a whole
Targets == Paths \cup {Text}
Numbers == 1..MaxVersion

\* 'approved' is only passed through in memory and never stored.
Statuses == {"in_upload", "submitted", "judged", "rejected", "converted"}
Undecided == {"submitted", "judged"}

Judgements == [Targets -> Verdicts \cup {"none"}]
Unjudged == [t \in Targets |-> "none"]

Aggregate == [status : Statuses, files : SUBSET Paths, verdict : Judgements]
ASSUME NoProposalAssumption ==
    NoProposal \notin Aggregate /\ NoProposal \notin Proposals /\ NoProposal \notin Statuses

VARIABLES
    yaml,       \* proposal.yaml
    stored,     \* the files in the proposal's directory
    row,        \* the catalog's row with its files and judgements
    latest,     \* the number of the skill's last version, 0 if there is no skill
    versions,   \* the versions made from proposals: <<number, proposal>>
    released,   \* those of them published without a reviewer
    audit,      \* who did what, as far as it is read back
    handler,    \* what every handler is doing
    faults      \* how many handlers died or had a write rejected

stores == <<yaml, stored, row, latest, versions, released, audit>>
vars == <<yaml, stored, row, latest, versions, released, audit, handler, faults>>

Ops == {"submit", "attach", "update", "finalize", "resume", "judge_text",
        "judge_files", "delete", "reject", "edit", "rejudge", "convert"}
Stages == {"idle", "store", "validate", "judge_text", "judge_files", "collect",
           "judging", "save", "row", "audit", "remove", "remove_row",
           "evaluate", "screen", "classify", "resolve", "create", "release"}

Idle == [stage |-> "idle", op |-> "none", proposal |-> NoProposal, agg |-> NoProposal,
         target |-> NoPath, results |-> Unjudged, number |-> 0, auto |-> FALSE]

Init ==
    /\ yaml = [p \in Proposals |-> NoProposal]
    /\ stored = [p \in Proposals |-> {}]
    /\ row = [p \in Proposals |-> NoProposal]
    /\ latest = 0
    /\ versions = {}
    /\ released = {}
    /\ audit = {}
    /\ handler = [h \in Handlers |-> Idle]
    /\ faults = 0

-----------------------------------------------------------------------------
(* The aggregate *)

WithStatus(agg, status) == [agg EXCEPT !.status = status]
WithFile(agg, path) == [agg EXCEPT !.files = agg.files \cup {path}]

NewProposal == [status |-> "in_upload", files |-> {}, verdict |-> Unjudged]

\* Mutant: a judgement marks every proposal as judged.
AddJudgementAlways(agg, target, verdict) ==
    [agg EXCEPT !.verdict[target] = verdict, !.status = "judged"]

\* addJudgement: a later judgement of a target supersedes the earlier ones.
AddJudgement(agg, target, verdict) ==
    [agg EXCEPT !.verdict[target] = verdict,
                !.status = IF agg.status \in {"rejected", "converted"} THEN agg.status
                                                                       ELSE "judged"]

Judged(agg, S) == \A t \in S : agg.verdict[t] # "none"

\* Mutant: the files need not be green.
FullyGreenText(agg) == agg.verdict[Text] = "green"

FullyGreen(agg) == \A t \in agg.files \cup {Text} : agg.verdict[t] = "green"

\* Reviewers and submitters load proposal.yaml first, judges the catalog.
Either(first, second) == IF first # NoProposal THEN first ELSE second
LoadedForCommand(p) == Either(yaml[p], row[p])
LoadedForJudge(p) == Either(row[p], yaml[p])

HasStatus(agg, S) == agg # NoProposal /\ agg.status \in S

\* h starts an operation on p, continuing at the given stage with a loaded copy.
Begin(h, stage, op, p, agg) ==
    /\ handler[h].stage = "idle"
    /\ handler' = [handler EXCEPT ![h] =
          [Idle EXCEPT !.stage = stage, !.op = op, !.proposal = p, !.agg = agg]]
    /\ UNCHANGED stores

Goto(h, stage) == handler' = [handler EXCEPT ![h].stage = stage]
Stop(h) == handler' = [handler EXCEPT ![h] = Idle]

-----------------------------------------------------------------------------
(* Submitters *)

OpenUploads == {q \in Proposals : HasStatus(yaml[q], {"in_upload"})}

\* A proposal whose identifier is taken is returned as it is; another open
\* upload of the submitter for the skill makes the call fail.
\* Mutant: open uploads are not looked for.
BeginSubmitAnother(h, p) ==
    /\ LoadedForCommand(p) = NoProposal
    /\ Begin(h, "save", "submit", p, NewProposal)

BeginSubmit(h, p) ==
    /\ LoadedForCommand(p) = NoProposal
    /\ OpenUploads = {}
    /\ Begin(h, "save", "submit", p, NewProposal)

BeginUpdate(h, p) ==
    /\ HasStatus(LoadedForCommand(p), {"in_upload"})
    /\ Begin(h, "save", "update", p, LoadedForCommand(p))

BeginAttach(h, p, path) ==
    LET agg == LoadedForCommand(p) IN
    /\ handler[h].stage = "idle"
    /\ HasStatus(agg, {"in_upload"})
    /\ path \in agg.files \/ Cardinality(agg.files) < MaxFiles
    /\ handler' = [handler EXCEPT ![h] =
          [Idle EXCEPT !.stage = "store", !.op = "attach", !.proposal = p,
                       !.agg = agg, !.target = path]]
    /\ UNCHANGED stores

StoreFile(h) ==
    LET path == handler[h].target IN
    /\ handler[h].stage = "store"
    /\ stored' = [stored EXCEPT ![handler[h].proposal] =
                              stored[handler[h].proposal] \cup {path}]
    /\ handler' = [handler EXCEPT ![h].stage = "save",
                                  ![h].agg = WithFile(handler[h].agg, path)]
    /\ UNCHANGED <<yaml, row, latest, versions, released, audit>>

\* A proposal past its upload resumes where a worker was interrupted; one that
\* is converted has nothing left to do.
BeginFinalize(h, p) ==
    LET agg == LoadedForCommand(p) IN
    /\ HasStatus(agg, {"in_upload"} \cup Undecided)
    /\ agg.files # {}
    /\ IF agg.status = "in_upload" THEN Begin(h, "validate", "finalize", p, agg)
                                   ELSE Begin(h, "audit", "resume", p, agg)

\* validateUpload reads the proposal again, but what is finalized is the copy
\* loaded before.  Whether an open upload's references are sound is open here.
Validate(h) ==
    LET fresh == LoadedForCommand(handler[h].proposal) IN
    /\ handler[h].stage = "validate"
    /\ \/ /\ HasStatus(fresh, {"in_upload", "submitted", "judged", "converted"})
          /\ fresh.status = "in_upload" => fresh.files # {}
          /\ handler' = [handler EXCEPT ![h].stage = "save",
                                        ![h].agg = WithStatus(handler[h].agg, "submitted")]
       \/ /\ ~HasStatus(fresh, {"submitted", "judged", "converted"})
          /\ Stop(h)
    /\ UNCHANGED stores

\* A judgement that fails leaves the copy as it is.  A proposal that has a
\* judgement of the kind already is not judged again.
JudgeText(h) ==
    LET agg == handler[h].agg IN
    /\ handler[h].stage = "judge_text"
    /\ \/ Goto(h, "judge_files")
       \/ /\ ~Judged(agg, {Text})
          /\ \E v \in Verdicts : handler' = [handler EXCEPT
                ![h].stage = "save", ![h].op = "judge_text",
                ![h].agg = AddJudgement(agg, Text, v)]
    /\ UNCHANGED stores

\* All files are judged before the first judgement is saved; a file that
\* cannot be read or judged stays without one.
JudgeFiles(h) ==
    LET agg == handler[h].agg
        judgeable == agg.files \cap stored[handler[h].proposal]
    IN
    /\ handler[h].stage = "judge_files"
    /\ IF Judged(agg, agg.files)
       THEN Goto(h, "evaluate")
       ELSE \E results \in Judgements :
               /\ \A t \in Targets \ judgeable : results[t] = "none"
               /\ handler' = [handler EXCEPT ![h].stage = "collect", ![h].results = results]
    /\ UNCHANGED stores

\* One save per file that was judged.
CollectJudgement(h) ==
    LET results == handler[h].results IN
    /\ handler[h].stage = "collect"
    /\ \/ \E path \in Paths :
             /\ results[path] # "none"
             /\ handler' = [handler EXCEPT
                   ![h].stage = "save", ![h].op = "judge_files",
                   ![h].agg = AddJudgement(handler[h].agg, path, results[path]),
                   ![h].results = [results EXCEPT ![path] = "none"]]
       \/ results = Unjudged /\ Goto(h, "evaluate")
    /\ UNCHANGED stores

-----------------------------------------------------------------------------
(* Reviewers and their judges *)

\* Both the submitter and an administrator may delete an open upload.
BeginDelete(h, p) ==
    /\ HasStatus(LoadedForCommand(p), {"in_upload"})
    /\ Begin(h, "remove", "delete", p, LoadedForCommand(p))

\* Mutant: the catalog is not told.
RemoveDirectoryOnly(h) ==
    LET p == handler[h].proposal IN
    /\ handler[h].stage = "remove"
    /\ yaml' = [yaml EXCEPT ![p] = NoProposal]
    /\ stored' = [stored EXCEPT ![p] = {}]
    /\ Goto(h, "audit")
    /\ UNCHANGED <<row, latest, versions, released, audit>>

RemoveDirectory(h) ==
    LET p == handler[h].proposal IN
    /\ handler[h].stage = "remove"
    /\ yaml' = [yaml EXCEPT ![p] = NoProposal]
    /\ stored' = [stored EXCEPT ![p] = {}]
    /\ Goto(h, "remove_row")
    /\ UNCHANGED <<row, latest, versions, released, audit>>

RemoveRow(h) ==
    /\ handler[h].stage = "remove_row"
    /\ row' = [row EXCEPT ![handler[h].proposal] = NoProposal]
    /\ Goto(h, "audit")
    /\ UNCHANGED <<yaml, stored, latest, versions, released, audit>>

BeginReject(h, p) ==
    LET agg == LoadedForCommand(p) IN
    /\ HasStatus(agg, Undecided)
    /\ Begin(h, "save", "reject", p, WithStatus(agg, "rejected"))

\* An administrator's edit is audited under another actor than the submitter's
\* update, and only the former counts as an intervention.
BeginEdit(h, p) ==
    /\ HasStatus(LoadedForCommand(p), {"in_upload"} \cup Undecided)
    /\ Begin(h, "save", "edit", p, LoadedForCommand(p))

\* JudgeProposalUseCase judges the proposal as a whole or one stored file,
\* whatever the proposal's status is, and saves when the model has answered.
BeginRejudge(h, p, target) ==
    LET agg == LoadedForJudge(p) IN
    /\ handler[h].stage = "idle"
    /\ agg # NoProposal
    /\ target \in (agg.files \cap stored[p]) \cup {Text}
    /\ handler' = [handler EXCEPT ![h] =
          [Idle EXCEPT !.stage = "judging", !.op = "rejudge", !.proposal = p,
                       !.agg = agg, !.target = target]]
    /\ UNCHANGED stores

Rejudged(h) ==
    /\ handler[h].stage = "judging"
    /\ \/ Stop(h)
       \/ \E v \in Verdicts : handler' = [handler EXCEPT
             ![h].stage = "save",
             ![h].agg = AddJudgement(handler[h].agg, handler[h].target, v)]
    /\ UNCHANGED stores

-----------------------------------------------------------------------------
(* Conversion into a version of the skill *)

\* The bound on versions, counting those about to be made.
Room == latest + Cardinality({h \in Handlers : handler[h].stage \in {"resolve", "create"}})
            < MaxVersion

\* approve().convert() is checked on the loaded copy before anything is made.
BeginConvert(h, p) ==
    /\ Room
    /\ HasStatus(LoadedForCommand(p), Undecided)
    /\ Begin(h, "resolve", "convert", p, LoadedForCommand(p))

\* The skill is loaded, which settles the number of the new version.
ResolveVersion(h) ==
    /\ handler[h].stage = "resolve"
    /\ handler' = [handler EXCEPT ![h].stage = "create", ![h].number = latest + 1]
    /\ UNCHANGED stores

\* Mutant: the proposal is saved as converted, a version being made later.
CreateVersionLater(h) ==
    LET agg == handler[h].agg IN
    /\ handler[h].stage = "create"
    /\ IF agg.files \subseteq stored[handler[h].proposal]
       THEN handler' = [handler EXCEPT ![h].stage = "save",
                                       ![h].agg = WithStatus(agg, "converted")]
       ELSE Stop(h)
    /\ UNCHANGED stores

\* Mutant: the approval is not followed by the conversion.
CreateVersionApproved(h) ==
    LET p == handler[h].proposal
        agg == handler[h].agg
        n == handler[h].number
    IN
    /\ handler[h].stage = "create"
    /\ IF agg.files \subseteq stored[p] /\ (n = 1 => latest = 0)
       THEN /\ versions' = versions \cup {<<n, p>>}
            /\ latest' = IF n > latest THEN n ELSE latest
            /\ handler' = [handler EXCEPT ![h].stage = "save",
                                          ![h].agg = WithStatus(agg, "approved")]
       ELSE Stop(h) /\ UNCHANGED <<latest, versions>>
    /\ UNCHANGED <<yaml, stored, row, released, audit>>

\* The proposal's files are read.  createSkill refuses if the skill has come to
\* exist meanwhile; a later version is appended to the skill as it was loaded,
\* so it may replace one of the same number.
CreateVersion(h) ==
    LET p == handler[h].proposal
        agg == handler[h].agg
        n == handler[h].number
    IN
    /\ handler[h].stage = "create"
    /\ IF agg.files \subseteq stored[p] /\ (n = 1 => latest = 0)
       THEN /\ versions' = versions \cup {<<n, p>>}
            /\ latest' = IF n > latest THEN n ELSE latest
            /\ handler' = [handler EXCEPT ![h].stage = "save",
                                          ![h].agg = WithStatus(agg, "converted")]
       ELSE Stop(h) /\ UNCHANGED <<latest, versions>>
    /\ UNCHANGED <<yaml, stored, row, released, audit>>

-----------------------------------------------------------------------------
(* Automatic publication, at the end of finalizing *)

Intervened(p) == \E op \in {"edit", "reject"} : <<p, op>> \in audit

Evaluate(h) ==
    LET fresh == LoadedForCommand(handler[h].proposal) IN
    /\ handler[h].stage = "evaluate"
    /\ handler' = [handler EXCEPT ![h] =
          IF AutoPublish /\ HasStatus(fresh, Statuses \ {"in_upload"})
          THEN [handler[h] EXCEPT !.stage = "screen", !.agg = fresh]
          ELSE Idle]
    /\ UNCHANGED stores

Screen(h) ==
    /\ handler[h].stage = "screen"
    /\ IF ~Intervened(handler[h].proposal) /\ FullyGreen(handler[h].agg)
       THEN Goto(h, "classify")
       ELSE Stop(h)
    /\ UNCHANGED stores

\* Duplicates, similarity and the category classifier may block; otherwise the
\* conversion loads the proposal again.
Classify(h) ==
    LET fresh == LoadedForCommand(handler[h].proposal) IN
    /\ handler[h].stage = "classify"
    /\ \/ Stop(h)
       \/ /\ Room
          /\ HasStatus(fresh, Undecided)
          /\ handler' = [handler EXCEPT ![h].stage = "resolve", ![h].op = "convert",
                                        ![h].agg = fresh, ![h].auto = TRUE]
    /\ UNCHANGED stores

\* submitForReview, approve and publish of the version that was made.
Release(h) ==
    /\ handler[h].stage = "release"
    /\ released' = released \cup {<<handler[h].number, handler[h].proposal>>}
    /\ Stop(h)
    /\ UNCHANGED <<yaml, stored, row, latest, versions, audit>>

-----------------------------------------------------------------------------
(* Saving: proposal.yaml, then the catalog row, then the audit entry *)

WriteYaml(h) ==
    /\ handler[h].stage = "save"
    /\ yaml' = [yaml EXCEPT ![handler[h].proposal] = handler[h].agg]
    /\ Goto(h, "row")
    /\ UNCHANGED <<stored, row, latest, versions, released, audit>>

\* Mutant: finalizing goes on to judge without leaving its entry.
UpsertRowUnaudited(h) ==
    /\ handler[h].stage = "row"
    /\ row' = [row EXCEPT ![handler[h].proposal] = handler[h].agg]
    /\ Goto(h, CASE handler[h].op \in {"judge_text", "finalize"} -> "judge_files"
                 [] handler[h].op = "judge_files"               -> "collect"
                 [] OTHER                                       -> "audit")
    /\ UNCHANGED <<yaml, stored, latest, versions, released, audit>>

\* The judgements made while finalizing are saved without an audit entry.
UpsertRow(h) ==
    /\ handler[h].stage = "row"
    /\ row' = [row EXCEPT ![handler[h].proposal] = handler[h].agg]
    /\ Goto(h, CASE handler[h].op = "judge_text"  -> "judge_files"
                 [] handler[h].op = "judge_files" -> "collect"
                 [] OTHER                         -> "audit")
    /\ UNCHANGED <<yaml, stored, latest, versions, released, audit>>

Recorded == {"finalize", "edit", "reject", "convert"}

AppendAudit(h) ==
    LET op == handler[h].op IN
    /\ handler[h].stage = "audit"
    /\ audit' = audit \cup ({<<handler[h].proposal, op>>} \cap (Proposals \X Recorded))
    /\ IF op \in {"finalize", "resume"} THEN Goto(h, "judge_text")
       ELSE IF op = "convert" /\ handler[h].auto THEN Goto(h, "release")
       ELSE Stop(h)
    /\ UNCHANGED <<yaml, stored, row, latest, versions, released>>

Fault == faults < MaxFaults /\ faults' = faults + 1

\* The process stops, or a store rejects the next write.
Abort(h) ==
    /\ Fault
    /\ handler[h].stage # "idle"
    /\ Stop(h)
    /\ UNCHANGED stores

\* judgeProposalText catches a failing save, but goes on with the judged copy.
SwallowFailedSave(h) ==
    /\ Fault
    /\ handler[h].stage \in {"save", "row"}
    /\ handler[h].op = "judge_text"
    /\ Goto(h, "judge_files")
    /\ UNCHANGED stores

-----------------------------------------------------------------------------
Command(h) == \E p \in Proposals :
    \/ BeginSubmit(h, p)
    \/ BeginUpdate(h, p)
    \/ \E path \in Paths : BeginAttach(h, p, path)
    \/ BeginFinalize(h, p)
    \/ BeginDelete(h, p)
    \/ BeginReject(h, p)
    \/ BeginEdit(h, p)
    \/ \E target \in Targets : BeginRejudge(h, p, target)
    \/ BeginConvert(h, p)

Continue(h) ==
    \/ StoreFile(h)
    \/ Validate(h)
    \/ JudgeText(h)
    \/ JudgeFiles(h)
    \/ CollectJudgement(h)
    \/ RemoveDirectory(h)
    \/ RemoveRow(h)
    \/ Rejudged(h)
    \/ ResolveVersion(h)
    \/ CreateVersion(h)
    \/ Evaluate(h)
    \/ Screen(h)
    \/ Classify(h)
    \/ Release(h)
    \/ WriteYaml(h)
    \/ UpsertRow(h)
    \/ AppendAudit(h)

Next == \E h \in Handlers :
    \/ (Command(h) \/ Continue(h)) /\ UNCHANGED faults
    \/ Abort(h)
    \/ SwallowFailedSave(h)

Spec == Init /\ [][Next]_vars

-----------------------------------------------------------------------------
(* Properties *)

Copies == Aggregate \cup {NoProposal}

HandlerState ==
    [stage : Stages, op : Ops \cup {"none"}, proposal : Proposals \cup {NoProposal},
     agg : Copies, target : Targets, results : Judgements, number : Nat,
     auto : BOOLEAN]

\* Every store and every handler holds a value of its shape.
TypeOK ==
    /\ yaml \in [Proposals -> Copies]
    /\ stored \in [Proposals -> SUBSET Paths]
    /\ row \in [Proposals -> Copies]
    /\ latest \in Nat
    /\ versions \subseteq Nat \X Proposals
    /\ released \subseteq Nat \X Proposals
    /\ audit \subseteq Proposals \X Recorded
    /\ handler \in [Handlers -> HandlerState]
    /\ faults \in 0..MaxFaults

AllIdle == \A h \in Handlers : handler[h].stage = "idle"
MadeFrom(p) == {e \in versions : e[2] = p}

\* What getDetail tells a reader: the catalog, and without a row the file.
VisibleStatus(p) ==
    IF LoadedForJudge(p) = NoProposal THEN NoProposal ELSE LoadedForJudge(p).status

Lifecycle == INSTANCE ProposalLifecycle
    WITH Absent <- NoProposal,
         status <- [p \in Proposals |-> VisibleStatus(p)],
         versions <- [p \in Proposals |-> Cardinality(MadeFrom(p))]

\* As long as commands neither overlap nor are cut off, readers see one open
\* upload of a submitter at a time, decisions that are final, and one version per
\* converted proposal, however submitters, reviewers and automation take turns.
LifecycleRefined ==
    Lifecycle!Init /\ [][faults' = 0 => [Lifecycle!Next]_(Lifecycle!seen)]_vars

\* With nothing in flight and nothing cut off before, the catalog row repeats
\* proposal.yaml, and every file a proposal lists is in storage (saveProposal,
\* attachFile, deleteProposal).
QuiescentAgreement ==
    AllIdle /\ faults = 0 =>
        /\ row = yaml
        /\ \A p \in Proposals : yaml[p] # NoProposal => yaml[p].files \subseteq stored[p]

\* Automation publishes only a proposal whose current judgements are all there
\* and green and that no reviewer has edited or rejected (the spec of
\* AutoPublishProposalUseCase).
ReleaseJustified ==
    [][\A e \in released' \ released :
          /\ \A t \in yaml[e[2]].files \cup {Text} : yaml[e[2]].verdict[t] = "green"
          /\ {<<e[2], "edit">>, <<e[2], "reject">>} \cap audit = {}]_vars

Pending(p, op) ==
    \E h \in Handlers :
        /\ handler[h].proposal = p /\ handler[h].op = op
        /\ handler[h].stage \in {"save", "row", "audit"}

Accounted(p, op) == <<p, op>> \in audit \/ Pending(p, op)

\* The commands a proposal must have been through to have a status.
History(status) ==
    CASE status = "submitted" -> {"finalize"}
      [] status = "rejected"  -> {"reject"}
      [] status = "converted" -> {"convert"}
      [] OTHER                -> {}

\* Whatever commands overwrite of each other, and as long as none is cut off, a
\* stored proposal is submitted, rejected or converted only if a command that did
\* so is audited or still about to write its entry (finalizeUpload,
\* rejectProposal, convertProposal).
AuditExplainsStatus ==
    faults = 0 => \A p \in Proposals :
        /\ yaml[p] # NoProposal => \A op \in History(yaml[p].status) : Accounted(p, op)
        /\ row[p] # NoProposal => \A op \in History(row[p].status) : Accounted(p, op)

\* No copy of a proposal says converted before a version was made from it,
\* even if commands overlap and are cut off (convertProposal).
ConversionHasVersion ==
    \A p \in Proposals :
        (HasStatus(yaml[p], {"converted"}) \/ HasStatus(row[p], {"converted"})) => MadeFrom(p) # {}

\* A decision readers were shown is never taken back
\* (JudgeProposalUseCase.spec.md).
DecisionIsFinal ==
    [][\A p \in Proposals :
          VisibleStatus(p) \in {"rejected", "converted"} => VisibleStatus(p)' = VisibleStatus(p)]_row
=============================================================================
