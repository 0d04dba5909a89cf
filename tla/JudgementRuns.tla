---------------------------- MODULE JudgementRuns ----------------------------
(***************************************************************************)
(* Runs of the judge: of a skill version as a whole and then of its files, *)
(* one after the other; of a proposal or one of its files; and the checks  *)
(* of a proposal's category and of duplicates.  All of them call one       *)
(* provider through one limiter, which hands a free slot to whoever waits  *)
(* longest.  A version made from a proposal takes over the verdicts on     *)
(* what the proposal's judges were asked about already.                    *)
(*                                                                         *)
(* A run reads the material of a target when it gets to it; the material   *)
(* may be replaced at any time, and every call is awaited.                 *)
(***************************************************************************)
EXTENDS Naturals, Sequences, FiniteSets

CONSTANTS
    Runs,           \* calls of the use cases that may be under way at once
    Paths,          \* files of the version and of the proposal
    Contents,       \* what a file, or the metadata, may say
    Identities,     \* models a process may be configured with; None: it does not tell
    Replies,        \* what the provider may answer: the risks it names
    MaxConcurrent,  \* judgerMaxConcurrency
    MaxJudgements,  \* bound: judgements in the proposal
    MaxChanges,     \* bound: replacements of material
    MaxFaults,      \* bound: store errors and process stops
    None

ASSUME JudgementAssumption ==
    /\ MaxConcurrent \in Nat \ {0} /\ {MaxJudgements, MaxChanges, MaxFaults} \subseteq Nat
    /\ None \notin Contents \cup Paths

VARIABLES
    material,     \* per target: what storage, or the catalog, says now
    identity,     \* modelIdentity of the running process
    active,       \* slots of the limiter that are taken
    waiting,      \* runs waiting for a slot, the longest first
    run,          \* what every run is doing
    proposal,     \* judgements in the proposal
    changes, faults

limiter == <<active, waiting>>
vars == <<material, identity, limiter, run, proposal, changes, faults>>

Whole == "whole"
Targets == Paths \cup {Whole}

Risks == <<"low", "medium", "high", "critical">>

\* The overall risk is the worst of the dimensions.
OverallRisk(risks) ==
    Risks[CHOOSE i \in 1..4 : Risks[i] \in risks /\ \A k \in i + 1 .. 4 : Risks[k] \notin risks]

\* An answer without one of the dimensions, or with an unknown risk, is no judgement.
WellFormed(reply) == reply # {} /\ reply \subseteq {Risks[i] : i \in 1..4}

\* Without a model nothing is judged, and the verdict says so.
Unjudged == "no_judge_available"

\* What a judgement is about and what it says.  The fingerprint of its input covers
\* the content, the title (a file's path) and the model.
Input == [target : Targets, content : Contents, model : Identities]
Judgement == [about : Input, verdict : {Risks[i] : i \in 1..4} \cup {Unjudged}]

Kinds == {"version", "proposal", "check"}

Idle == [stage |-> "idle", kind |-> "version", target |-> Whole, content |-> None,
         todo |-> {}, loaded |-> {}, reused |-> FALSE, judgement |-> None]

Init ==
    /\ \E c \in Contents : material = [t \in Targets |-> c]
    /\ identity \in Identities
    /\ active = 0 /\ waiting = <<>>
    /\ run = [r \in Runs |-> Idle]
    /\ proposal = {}
    /\ changes = 0 /\ faults = 0

-----------------------------------------------------------------------------
(* The limiter *)

\* A run asks for a slot, or waits for one.
Acquire(r, at) ==
    IF active < MaxConcurrent
    THEN /\ active' = active + 1
         /\ run' = [run EXCEPT ![r] = [at EXCEPT !.stage = "asking"]]
         /\ UNCHANGED waiting
    ELSE /\ waiting' = Append(waiting, r)
         /\ run' = [run EXCEPT ![r] = [at EXCEPT !.stage = "waiting"]]
         /\ UNCHANGED active

\* Mutant: a slot is given back only when nobody waits for it.
ReleaseKeeping(r, at) ==
    /\ active' = IF waiting = <<>> THEN active - 1 ELSE active
    /\ run' = [run EXCEPT ![r] = at]
    /\ UNCHANGED waiting

\* The slot goes to the longest waiting run, or is given back.
Release(r, at) ==
    IF waiting # <<>>
    THEN /\ run' = [run EXCEPT ![r] = at, ![Head(waiting)].stage = "asking"]
         /\ waiting' = Tail(waiting)
         /\ UNCHANGED active
    ELSE /\ run' = [run EXCEPT ![r] = at]
         /\ active' = active - 1
         /\ UNCHANGED waiting

-----------------------------------------------------------------------------
(* A target is judged *)

\* What is to be judged, by whom.
Wanted(at) == [target |-> at.target, content |-> at.content, model |-> identity]

\* Mutant: whoever judged it, with which model.
ReusableOfAnyModel(at) ==
    {j \in at.loaded : /\ at.kind = "version" /\ identity \notin {None, "noop"}
                       /\ [j.about EXCEPT !.model = identity] = Wanted(at)}

\* The judgements of the proposal a conversion may take over.
Reusable(at) ==
    {j \in at.loaded : /\ at.kind = "version" /\ identity \notin {None, "noop"}
                       /\ j.about = Wanted(at)}

\* The first write after a judgement: a version's is audited before it is stored,
\* a version's file's is stored before it is audited.
FirstWrite(at) ==
    CASE at.kind = "proposal" -> "save"
      [] at.target = Whole -> "audit"
      [] OTHER -> "store"

TurnTo(r, at) ==
    IF Reusable(at) # {}
    THEN /\ run' = [run EXCEPT ![r] =
                     [at EXCEPT !.stage = FirstWrite(at), !.reused = TRUE,
                                !.judgement = CHOOSE j \in Reusable(at) : TRUE]]
         /\ UNCHANGED limiter
    ELSE Acquire(r, [at EXCEPT !.reused = FALSE])

\* A version is judged on request, or as the draft made from a proposal, whose
\* judgements were loaded with it.
BeginVersion(r, loaded) ==
    /\ run[r] = Idle
    /\ TurnTo(r, [Idle EXCEPT !.kind = "version", !.content = material[Whole],
                              !.loaded = loaded])
    /\ UNCHANGED <<material, identity, proposal, changes, faults>>

\* The proposal, or one of its files; a file that is not there is refused.
BeginProposal(r, t) ==
    /\ run[r] = Idle /\ material[t] # None /\ Cardinality(proposal) < MaxJudgements
    /\ TurnTo(r, [Idle EXCEPT !.kind = "proposal", !.target = t, !.content = material[t],
                              !.loaded = proposal])
    /\ UNCHANGED <<material, identity, proposal, changes, faults>>

\* A category is checked, or a candidate compared.
BeginCheck(r) ==
    /\ run[r] = Idle
    /\ TurnTo(r, [Idle EXCEPT !.kind = "check"])
    /\ UNCHANGED <<material, identity, proposal, changes, faults>>

-----------------------------------------------------------------------------
(* The provider *)

\* The call succeeded: what was said is the judgement of what was asked.
Said(r, verdict) ==
    Release(r, IF run[r].kind = "check" THEN Idle
               ELSE [run[r] EXCEPT
                       !.stage = FirstWrite(run[r]),
                       !.judgement = [about |-> Wanted(run[r]), verdict |-> verdict]])

Answer(r, reply) ==
    /\ run[r].stage = "asking" /\ identity # "noop" /\ WellFormed(reply)
    /\ Said(r, OverallRisk(reply))
    /\ UNCHANGED <<material, identity, proposal, changes, faults>>

\* No provider is configured.
AnswerUnjudged(r) ==
    /\ run[r].stage = "asking" /\ identity = "noop"
    /\ Said(r, Unjudged)
    /\ UNCHANGED <<material, identity, proposal, changes, faults>>

\* An audit entry about the failure is to be written.
Failing(at) == [at EXCEPT !.stage = "note failure", !.content = None, !.judgement = None,
                          !.loaded = IF at.kind = "version" THEN @ ELSE {}]

\* Mutant: the slot is released after success only.
CallFailsKeepingSlot(r) ==
    /\ run[r].stage = "asking" /\ identity # "noop"
    /\ run' = [run EXCEPT ![r] = IF run[r].kind = "check" THEN Idle ELSE Failing(run[r])]
    /\ UNCHANGED <<material, identity, limiter, proposal, changes, faults>>

\* The call is aborted by its timeout, refused, or answered with no judgement.
\* A check that fails is its caller's concern.
CallFails(r) ==
    /\ run[r].stage = "asking" /\ identity # "noop"
    /\ Release(r, IF run[r].kind = "check" THEN Idle ELSE Failing(run[r]))
    /\ UNCHANGED <<material, identity, proposal, changes, faults>>

-----------------------------------------------------------------------------
(* What a run writes *)

Goes(r, at) == run' = [run EXCEPT ![r] = at]
Quiet == UNCHANGED <<material, identity, limiter, changes, faults>>

\* The run is through with its target: a version's files are next.
Through(at) ==
    CASE at.kind = "proposal" -> Idle
      [] OTHER -> [at EXCEPT !.stage = IF at.target = Whole THEN "list files" ELSE "next file",
                             !.content = None, !.judgement = None, !.reused = FALSE]

AfterReuse(at) == IF at.reused THEN [at EXCEPT !.stage = "audit reuse"] ELSE Through(at)

\* The audit entry of a judgement.
Record(r) ==
    /\ run[r].stage = "audit"
    /\ Goes(r, IF run[r].target = Whole /\ run[r].kind = "version"
               THEN [run[r] EXCEPT !.stage = "store"] ELSE AfterReuse(run[r]))
    /\ UNCHANGED proposal /\ Quiet

\* upsertSkillJudgement.
Store(r) ==
    /\ run[r].stage = "store"
    /\ Goes(r, IF run[r].target = Whole THEN AfterReuse(run[r])
               ELSE [run[r] EXCEPT !.stage = "audit"])
    /\ UNCHANGED proposal /\ Quiet

\* The audit entry about the reuse.
RecordReuse(r) ==
    /\ run[r].stage = "audit reuse"
    /\ Goes(r, Through(run[r]))
    /\ UNCHANGED proposal /\ Quiet

\* The proposal is saved as it was loaded, with its new judgement.
Save(r) ==
    /\ run[r].stage = "save"
    /\ proposal' = run[r].loaded \cup {run[r].judgement}
    /\ Goes(r, [run[r] EXCEPT !.stage = "audit", !.loaded = {}])
    /\ Quiet

\* The audit entry of a failure.  A version whose metadata could not be judged
\* has no file judged; a file that could not be judged is passed over.
RecordFailure(r) ==
    /\ run[r].stage = "note failure"
    /\ Goes(r, IF run[r].kind = "version" /\ run[r].target # Whole
               THEN Through(run[r]) ELSE Idle)
    /\ UNCHANGED proposal /\ Quiet

\* The files of the version, each with the digest it has now.
Listing == {<<p, material[p]>> : p \in {q \in Paths : material[q] # None}}

ListFiles(r) ==
    /\ run[r].stage = "list files"
    /\ Goes(r, [run[r] EXCEPT !.stage = "next file", !.todo = Listing])
    /\ UNCHANGED proposal /\ Quiet

\* The next file is read and its text extracted, which may fail; a file that is
\* gone is passed over.  The digest stays the listed one: of a file replaced since,
\* digest and text are not those of any judgement, and nothing is taken over.
NextFile(r) ==
    /\ run[r].stage = "next file" /\ run[r].todo # {}
    /\ LET f == CHOOSE q \in run[r].todo : TRUE
           p == f[1]
           at == [run[r] EXCEPT !.target = p, !.content = material[p], !.todo = @ \ {f}]
       IN \/ material[p] = None /\ Goes(r, at) /\ UNCHANGED limiter
          \/ material[p] = f[2] /\ TurnTo(r, at)
          \/ material[p] \notin {None, f[2]} /\ Acquire(r, [at EXCEPT !.reused = FALSE])
          \/ /\ material[p] # None
             /\ Goes(r, Failing(at))
             /\ UNCHANGED limiter
    /\ UNCHANGED <<material, identity, proposal, changes, faults>>

EndOfFiles(r) ==
    /\ run[r].stage = "next file" /\ run[r].todo = {}
    /\ Goes(r, Idle)
    /\ UNCHANGED proposal /\ Quiet

\* A store refuses a write.  About a file this is caught and noted; about the
\* metadata, or in the note itself, it ends the run.
WriteFails(r) ==
    /\ faults < MaxFaults
    /\ run[r].stage \in {"audit", "store", "audit reuse", "save", "note failure"}
    /\ Goes(r, IF run[r].target # Whole /\ run[r].stage # "note failure"
               THEN Failing(run[r]) ELSE Idle)
    /\ faults' = faults + 1
    /\ UNCHANGED <<material, identity, limiter, proposal, changes>>

-----------------------------------------------------------------------------
(* The surroundings *)

\* The metadata or a file is replaced, or a file removed.
Replace(t, c) ==
    /\ changes < MaxChanges /\ changes' = changes + 1
    /\ c # material[t] /\ (c # None \/ t # Whole)
    /\ material' = [material EXCEPT ![t] = c]
    /\ UNCHANGED <<identity, limiter, run, proposal, faults>>

\* The process stops and comes back, perhaps with another model.
Restart(i) ==
    /\ faults < MaxFaults /\ faults' = faults + 1
    /\ identity' = i
    /\ active' = 0 /\ waiting' = <<>>
    /\ run' = [r \in Runs |-> Idle]
    /\ UNCHANGED <<material, proposal, changes>>

Write(r) == Record(r) \/ Store(r) \/ RecordReuse(r) \/ Save(r) \/ RecordFailure(r)

Settles(r) == (\E reply \in Replies : Answer(r, reply)) \/ AnswerUnjudged(r) \/ CallFails(r)

\* What a run does on its own once it has begun.
GoesOn(r) ==
    Settles(r) \/ Write(r) \/ ListFiles(r) \/ NextFile(r) \/ EndOfFiles(r)

Begin(r) ==
    \/ \E loaded \in {{}, proposal} : BeginVersion(r, loaded)
    \/ \E t \in Targets : BeginProposal(r, t)
    \/ BeginCheck(r)

Next ==
    \/ \E r \in Runs : Begin(r) \/ GoesOn(r) \/ WriteFails(r)
    \/ \E t \in Targets, c \in Contents \cup {None} : Replace(t, c)
    \/ \E i \in Identities : Restart(i)

Spec == Init /\ [][Next]_vars

\* Every call settles: the provider's by its timeout, the stores' by themselves.
FairSpec == Spec /\ \A r \in Runs : WF_vars(GoesOn(r))

-----------------------------------------------------------------------------
(* Properties *)

Asking == {r \in Runs : run[r].stage = "asking"}

Stages == {"idle", "waiting", "asking", "audit", "store", "audit reuse", "save",
           "note failure", "list files", "next file"}

RunState ==
    [stage : Stages, kind : Kinds, target : Targets, content : Contents \cup {None},
     todo : SUBSET (Paths \X Contents), loaded : SUBSET Judgement, reused : BOOLEAN,
     judgement : Judgement \cup {None}]

\* Material, runs and judgements keep their shape.
TypeOK ==
    /\ material \in [Targets -> Contents \cup {None}] /\ material[Whole] # None
    /\ identity \in Identities
    /\ run \in [Runs -> RunState]
    /\ proposal \subseteq Judgement

\* A slot is taken exactly while a call to the provider is under way, and nobody
\* waits while one is free: no slot is lost to an error, a timeout or the hand-over
\* (BoundedSkillJudger).
SlotsExact ==
    /\ active = Cardinality(Asking) /\ active <= MaxConcurrent
    /\ waiting # <<>> => active = MaxConcurrent
    /\ {waiting[i] : i \in DOMAIN waiting} = {r \in Runs : run[r].stage = "waiting"}

\* What a run writes of a version's metadata or file is what the model of that
\* process said when asked about that very material, be it now or while the
\* proposal was judged, whatever was replaced or reconfigured in between
\* (findReusableJudgement, cloneJudgementForTarget).
VerdictsFit ==
    \A r \in Runs : run[r].stage \in {"store", "audit", "audit reuse", "save"}
                     => run[r].judgement.about = Wanted(run[r])

\* Every run ends, however many wait for a slot before it.
RunsEnd == \A r \in Runs : run[r] # Idle ~> run[r] = Idle
=============================================================================
