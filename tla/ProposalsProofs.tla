-------------------------- MODULE ProposalsProofs ---------------------------
(***************************************************************************)
(* Theorems about Proposals for any number of handlers, proposals, files  *)
(* and versions.  What a step may do is summed up once, in Moves, action  *)
(* by action; the invariants that overlapping commands keep are then      *)
(* shown from that summary alone.  What holds only of commands that do    *)
(* not overlap is shown for a single handler, by an invariant about the   *)
(* copy it is working on, stage by stage.                                 *)
(***************************************************************************)
EXTENDS Proposals, FiniteSetTheorems, TLAPS

-----------------------------------------------------------------------------
(* What one step of a handler does *)

\* What a handler's stage says about what it carries.
WellPlaced(s) ==
    /\ s.stage # "idle" => s.proposal \in Proposals /\ s.agg \in Aggregate
    /\ s.stage = "store" => s.target \in Paths
    /\ s.stage = "validate" => s.op = "finalize"
    /\ s.stage \in {"resolve", "create"} => s.op = "convert"

TypeInv == TypeOK /\ \A h \in Handlers : WellPlaced(handler[h])

\* The stages that say nothing more.
Later == Stages \ {"idle", "store", "validate", "resolve", "create"}
Writing == {"save", "row", "audit"}
Deciding == {"finalize", "reject", "convert"}

\* The status a deciding command saves.
Outcome(op) ==
    CASE op = "finalize" -> "submitted"
      [] op = "reject"   -> "rejected"
      [] op = "convert"  -> "converted"

\* Only h moves, to a state of the right shape.
Shaped(h) ==
    /\ handler' = [handler EXCEPT ![h] = handler'[h]]
    /\ handler'[h] \in HandlerState
    /\ WellPlaced(handler'[h])

\* Where the status of the copy that h carries comes from: from the copy it
\* carried, from a store, from a fresh or judged proposal, or from its decision,
\* a conversion having made its version.
Sourced(h) ==
    LET s == handler'[h] IN
    \/ s.stage = "idle"
    \/ /\ handler[h].stage # "idle"
       /\ s.proposal = handler[h].proposal
       /\ s.agg.status = handler[h].agg.status
    \/ s.agg \in {yaml[s.proposal], row[s.proposal]}
    \/ s.agg.status \in {"in_upload", "judged"}
    \/ /\ s.stage = "save" /\ s.op \in Deciding
       /\ s.agg.status = Outcome(s.op)
       /\ s.op = "convert" => <<s.number, s.proposal>> \in versions'

\* A store keeps a proposal, loses it, or takes over the copy of h.
Written(h, old, new) ==
    \A p \in Proposals :
        \/ new[p] \in {old[p], NoProposal}
        \/ /\ handler[h].stage # "idle"
           /\ p = handler[h].proposal
           /\ new[p] = handler[h].agg

\* Nothing recorded is lost, and a decision on its way to the audit log stays
\* on its way, unless its handler is cut off.
Tracked(h) ==
    /\ audit \subseteq audit' /\ versions \subseteq versions'
    /\ handler[h].stage \in Writing /\ handler[h].op \in Deciding =>
          \/ <<handler[h].proposal, handler[h].op>> \in audit'
          \/ /\ handler'[h].stage \in Writing
             /\ handler'[h].op = handler[h].op
             /\ handler'[h].proposal = handler[h].proposal
          \/ faults' # 0

StoresShaped ==
    /\ yaml \in [Proposals -> Copies]
    /\ stored \in [Proposals -> SUBSET Paths]
    /\ row \in [Proposals -> Copies]
    /\ latest \in Nat
    /\ versions \subseteq Nat \X Proposals
    /\ released \subseteq Nat \X Proposals
    /\ audit \subseteq Proposals \X Recorded

Moves(h) ==
    /\ Shaped(h)
    /\ Sourced(h)
    /\ Written(h, yaml, yaml')
    /\ Written(h, row, row')
    /\ Tracked(h)
    /\ StoresShaped'

\* Idle handlers, new proposals and judged ones have their shapes.
LEMMA InitialShapes ==
    /\ Idle \in HandlerState /\ WellPlaced(Idle) /\ Idle.stage = "idle"
    /\ NewProposal \in Aggregate /\ NewProposal.status = "in_upload"
<1>1. Text \in Targets /\ Unjudged \in Judgements
  BY DEF Text, Targets, Unjudged, Judgements
<1>2. Idle \in HandlerState /\ Idle.stage = "idle"
  BY <1>1 DEF Idle, HandlerState, Stages, Copies, Text
<1>3. NewProposal \in Aggregate /\ NewProposal.status = "in_upload"
  BY <1>1 DEF NewProposal, Aggregate, Statuses
<1> QED
  BY <1>2, <1>3 DEF WellPlaced

\* Changes of an aggregate yield aggregates.
LEMMA AggregateShapes ==
    ASSUME NEW agg \in Aggregate
    PROVE  /\ \A status \in Statuses :
                /\ WithStatus(agg, status) \in Aggregate
                /\ WithStatus(agg, status).status = status
           /\ \A path \in Paths :
                /\ WithFile(agg, path) \in Aggregate
                /\ WithFile(agg, path).status = agg.status
           /\ \A t \in Targets, v \in Verdicts :
                /\ AddJudgement(agg, t, v) \in Aggregate
                /\ AddJudgement(agg, t, v).status \in {agg.status, "judged"}
<1>1. ASSUME NEW status \in Statuses
      PROVE  WithStatus(agg, status) \in Aggregate /\ WithStatus(agg, status).status = status
  BY DEF WithStatus, Aggregate
<1>2. ASSUME NEW path \in Paths
      PROVE  WithFile(agg, path) \in Aggregate /\ WithFile(agg, path).status = agg.status
  BY DEF WithFile, Aggregate
<1>3. ASSUME NEW t \in Targets, NEW v \in Verdicts
      PROVE  /\ AddJudgement(agg, t, v) \in Aggregate
             /\ AddJudgement(agg, t, v).status \in {agg.status, "judged"}
  <2> DEFINE verdict == [agg.verdict EXCEPT ![t] = v]
             status == IF agg.status \in {"rejected", "converted"} THEN agg.status ELSE "judged"
  <2>1. verdict \in Judgements
    BY DEF Aggregate, Judgements
  <2>2. status \in Statuses /\ status \in {agg.status, "judged"}
    BY DEF Aggregate, Statuses
  <2>3. AddJudgement(agg, t, v) = [agg EXCEPT !.verdict = verdict, !.status = status]
    BY DEF AddJudgement, Aggregate
  <2> HIDE DEF verdict, status
  <2> QED
    BY <2>1, <2>2, <2>3 DEF Aggregate
<1> QED
  BY <1>1, <1>2, <1>3

\* What is loaded comes from a store, and is an aggregate if it has a status.
LEMMA LoadedShapes ==
    ASSUME TypeInv, NEW p \in Proposals
    PROVE  /\ LoadedForCommand(p) \in {yaml[p], row[p]}
           /\ LoadedForJudge(p) \in {yaml[p], row[p]}
           /\ LoadedForCommand(p) # NoProposal => LoadedForCommand(p) \in Aggregate
           /\ LoadedForJudge(p) # NoProposal => LoadedForJudge(p) \in Aggregate
BY DEF TypeInv, TypeOK, LoadedForCommand, LoadedForJudge, Either, Copies

\* A handler that changes no store and is not writing may go anywhere in shape.
LEMMA QuietMoves ==
    ASSUME TypeInv, NEW h \in Handlers, NEW s \in HandlerState, WellPlaced(s),
           handler' = [handler EXCEPT ![h] = s], UNCHANGED stores,
           handler[h].stage \notin Writing,
           \/ s.stage = "idle"
           \/ /\ handler[h].stage # "idle"
              /\ s.proposal = handler[h].proposal
              /\ s.agg.status = handler[h].agg.status
           \/ s.agg \in {yaml[s.proposal], row[s.proposal]}
           \/ s.agg.status \in {"in_upload", "judged"}
           \/ /\ s.stage = "save" /\ s.op \in Deciding \ {"convert"}
              /\ s.agg.status = Outcome(s.op)
    PROVE  Moves(h)
<1>1. handler'[h] = s
  BY DEF TypeInv, TypeOK
<1>2. Shaped(h)
  BY <1>1 DEF Shaped
<1>3. Sourced(h)
  BY <1>1 DEF Sourced
<1>4. Written(h, yaml, yaml') /\ Written(h, row, row') /\ Tracked(h)
  BY DEF Written, Tracked, stores
<1>5. StoresShaped'
  BY DEF StoresShaped, TypeInv, TypeOK, stores
<1> QED
  BY <1>2, <1>3, <1>4, <1>5 DEF Moves

\* Starting an operation on a loaded, new or decided copy.
LEMMA BeginMoves ==
    ASSUME TypeInv, NEW h \in Handlers, NEW stage \in Later \cup {"validate", "resolve"},
           NEW op \in Ops, stage = "validate" => op = "finalize",
           stage = "resolve" => op = "convert",
           NEW p \in Proposals, NEW agg \in Aggregate, Begin(h, stage, op, p, agg),
           \/ agg \in {yaml[p], row[p]}
           \/ agg.status \in {"in_upload", "judged"}
           \/ stage = "save" /\ op \in Deciding \ {"convert"} /\ agg.status = Outcome(op)
    PROVE  Moves(h)
<1> DEFINE s == [Idle EXCEPT !.stage = stage, !.op = op, !.proposal = p, !.agg = agg]
<1>1. s \in HandlerState
  BY InitialShapes DEF HandlerState, Copies, Later, Stages
<1>2. s.stage = stage /\ s.op = op /\ s.proposal = p /\ s.agg = agg
  BY InitialShapes DEF HandlerState
<1>3. handler' = [handler EXCEPT ![h] = s] /\ UNCHANGED stores /\ handler[h].stage = "idle"
  BY DEF Begin
<1> HIDE DEF s
<1>4. WellPlaced(s) /\ "idle" \notin Writing
  BY <1>2 DEF WellPlaced, Writing, Later
<1> QED
  BY <1>1, <1>2, <1>3, <1>4, QuietMoves

\* Going on with the same copy.
LEMMA GotoShape ==
    ASSUME TypeInv, NEW h \in Handlers, NEW stage \in Later,
           handler[h].stage # "idle", Goto(h, stage)
    PROVE  /\ Shaped(h) /\ Sourced(h)
           /\ handler'[h].stage = stage /\ handler'[h].op = handler[h].op
           /\ handler'[h].proposal = handler[h].proposal /\ handler'[h].agg = handler[h].agg
<1> DEFINE s == [handler[h] EXCEPT !.stage = stage]
<1>1. handler[h] \in HandlerState /\ WellPlaced(handler[h])
  BY DEF TypeInv, TypeOK
<1>2. s \in HandlerState
  BY <1>1 DEF HandlerState, Later
<1>3. s.stage = stage /\ s.op = handler[h].op /\ s.proposal = handler[h].proposal
      /\ s.agg = handler[h].agg
  BY <1>1 DEF HandlerState
<1>4. handler' = [handler EXCEPT ![h] = s] /\ handler'[h] = s
  BY DEF Goto, TypeInv, TypeOK
<1> HIDE DEF s
<1>5. WellPlaced(s)
  BY <1>1, <1>3 DEF WellPlaced, Later
<1>6. Shaped(h) /\ Sourced(h)
  BY <1>2, <1>3, <1>4, <1>5 DEF Shaped, Sourced
<1> QED
  BY <1>3, <1>4, <1>6

LEMMA GotoMoves ==
    ASSUME TypeInv, NEW h \in Handlers, NEW stage \in Later,
           handler[h].stage \notin Writing \cup {"idle"}, Goto(h, stage), UNCHANGED stores
    PROVE  Moves(h)
<1>1. Shaped(h) /\ Sourced(h)
  BY GotoShape
<1>2. Written(h, yaml, yaml') /\ Written(h, row, row') /\ Tracked(h)
  BY DEF Written, Tracked, stores
<1>3. StoresShaped'
  BY DEF StoresShaped, TypeInv, TypeOK, stores
<1> QED
  BY <1>1, <1>2, <1>3 DEF Moves

\* Coming to an end, of its own or not.
LEMMA StopShape ==
    ASSUME TypeInv, NEW h \in Handlers, Stop(h)
    PROVE  Shaped(h) /\ Sourced(h)
<1>1. handler'[h] = Idle /\ handler' = [handler EXCEPT ![h] = Idle]
  BY DEF Stop, TypeInv, TypeOK
<1> QED
  BY <1>1, InitialShapes DEF Shaped, Sourced

LEMMA StopMoves ==
    ASSUME TypeInv, NEW h \in Handlers, Stop(h), UNCHANGED stores,
           faults' # 0 \/ handler[h].stage \notin Writing
    PROVE  Moves(h)
<1>1. Shaped(h) /\ Sourced(h)
  BY StopShape
<1>2. Written(h, yaml, yaml') /\ Written(h, row, row') /\ Tracked(h)
  BY DEF Written, Tracked, stores
<1>3. StoresShaped'
  BY DEF StoresShaped, TypeInv, TypeOK, stores
<1> QED
  BY <1>1, <1>2, <1>3 DEF Moves

\* A command that arrives loads a copy, or starts a new one.
LEMMA CommandMoves ==
    ASSUME TypeInv, NEW h \in Handlers, Command(h)
    PROVE  Moves(h)
<1>0. PICK p \in Proposals :
        \/ BeginSubmit(h, p)
        \/ BeginUpdate(h, p)
        \/ \E path \in Paths : BeginAttach(h, p, path)
        \/ BeginFinalize(h, p)
        \/ BeginDelete(h, p)
        \/ BeginReject(h, p)
        \/ BeginEdit(h, p)
        \/ \E target \in Targets : BeginRejudge(h, p, target)
        \/ BeginConvert(h, p)
  BY DEF Command
<1> DEFINE agg == LoadedForCommand(p)
<1>1. agg \in {yaml[p], row[p]} /\ (agg # NoProposal => agg \in Aggregate)
  BY LoadedShapes
<1>2. {"save", "validate", "audit", "remove", "resolve"} \subseteq Later \cup {"validate", "resolve"}
  BY DEF Later, Stages
<1>3. {"submit", "update", "finalize", "resume", "delete", "reject", "edit", "convert"} \subseteq Ops
  BY DEF Ops
<1> HIDE DEF agg
<1>4. CASE BeginSubmit(h, p)
  BY <1>2, <1>3, <1>4, InitialShapes, BeginMoves DEF BeginSubmit
<1>5. CASE BeginUpdate(h, p)
  BY <1>1, <1>2, <1>3, <1>5, BeginMoves DEF BeginUpdate, HasStatus, agg
<1>6. ASSUME NEW path \in Paths, BeginAttach(h, p, path) PROVE Moves(h)
  <2> DEFINE s == [Idle EXCEPT !.stage = "store", !.op = "attach", !.proposal = p,
                               !.agg = agg, !.target = path]
  <2>1. agg \in Aggregate /\ agg \in {yaml[p], row[p]}
    BY <1>1, <1>6 DEF BeginAttach, HasStatus, agg
  <2>2. s \in HandlerState
    BY <2>1, InitialShapes DEF HandlerState, Copies, Stages, Ops, Targets
  <2>3. s.stage = "store" /\ s.proposal = p /\ s.agg = agg /\ s.target = path
    BY InitialShapes DEF HandlerState
  <2>4. handler' = [handler EXCEPT ![h] = s] /\ UNCHANGED stores /\ handler[h].stage = "idle"
    BY <1>6 DEF BeginAttach, agg
  <2> HIDE DEF s
  <2>5. WellPlaced(s) /\ "idle" \notin Writing
    BY <2>1, <2>3 DEF WellPlaced, Writing
  <2> QED
    BY <2>1, <2>2, <2>3, <2>4, <2>5, QuietMoves
<1>7. CASE BeginFinalize(h, p)
  BY <1>1, <1>2, <1>3, <1>7, BeginMoves DEF BeginFinalize, HasStatus, agg
<1>8. CASE BeginDelete(h, p)
  BY <1>1, <1>2, <1>3, <1>8, BeginMoves DEF BeginDelete, HasStatus, agg
<1>9. CASE BeginReject(h, p)
  <2>1. agg \in Aggregate /\ Begin(h, "save", "reject", p, WithStatus(agg, "rejected"))
    BY <1>1, <1>9 DEF BeginReject, HasStatus, agg
  <2>2. /\ WithStatus(agg, "rejected") \in Aggregate
        /\ WithStatus(agg, "rejected").status = "rejected"
    BY <2>1, AggregateShapes DEF Statuses
  <2> QED
    BY <1>2, <1>3, <2>1, <2>2, BeginMoves DEF Deciding, Outcome
<1>10. CASE BeginEdit(h, p)
  BY <1>1, <1>2, <1>3, <1>10, BeginMoves DEF BeginEdit, HasStatus, agg
<1>11. ASSUME NEW target \in Targets, BeginRejudge(h, p, target) PROVE Moves(h)
  <2> DEFINE loaded == LoadedForJudge(p)
             s == [Idle EXCEPT !.stage = "judging", !.op = "rejudge", !.proposal = p,
                               !.agg = loaded, !.target = target]
  <2>1. loaded \in Aggregate /\ loaded \in {yaml[p], row[p]}
    BY <1>11, LoadedShapes DEF BeginRejudge
  <2>2. handler' = [handler EXCEPT ![h] = s] /\ UNCHANGED stores /\ handler[h].stage = "idle"
    BY <1>11 DEF BeginRejudge
  <2> HIDE DEF loaded
  <2>3. s \in HandlerState
    BY <2>1, InitialShapes DEF HandlerState, Copies, Stages, Ops
  <2>4. s.stage = "judging" /\ s.proposal = p /\ s.agg = loaded
    BY InitialShapes DEF HandlerState
  <2> HIDE DEF s
  <2>5. WellPlaced(s) /\ "idle" \notin Writing
    BY <2>1, <2>4 DEF WellPlaced, Writing
  <2> QED
    BY <2>1, <2>2, <2>3, <2>4, <2>5, QuietMoves
<1>12. CASE BeginConvert(h, p)
  BY <1>1, <1>2, <1>3, <1>12, BeginMoves DEF BeginConvert, HasStatus, agg
<1> QED
  BY <1>0, <1>4, <1>5, <1>6, <1>7, <1>8, <1>9, <1>10, <1>11, <1>12

\* A handler that carries on with another copy, perhaps under another name.
Resumed(s, stage, op, agg, results) ==
    [s EXCEPT !.stage = stage, !.op = op, !.agg = agg, !.results = results]

LEMMA ResumedShape ==
    ASSUME NEW s \in HandlerState, WellPlaced(s), s.stage # "idle",
           NEW stage \in Later, NEW op \in Ops \cup {"none"},
           NEW agg \in Aggregate, NEW results \in Judgements
    PROVE  /\ Resumed(s, stage, op, agg, results) \in HandlerState
           /\ WellPlaced(Resumed(s, stage, op, agg, results))
           /\ Resumed(s, stage, op, agg, results).stage = stage
           /\ Resumed(s, stage, op, agg, results).op = op
           /\ Resumed(s, stage, op, agg, results).agg = agg
           /\ Resumed(s, stage, op, agg, results).proposal = s.proposal
<1> DEFINE t == Resumed(s, stage, op, agg, results)
<1>1. t \in HandlerState
  BY DEF HandlerState, Copies, Later, Resumed
<1>2. t.stage = stage /\ t.op = op /\ t.agg = agg /\ t.proposal = s.proposal
  BY DEF HandlerState, Resumed
<1>3. s.proposal \in Proposals
  BY DEF WellPlaced
<1> HIDE DEF t
<1>4. WellPlaced(t)
  BY <1>2, <1>3 DEF WellPlaced, Later
<1> QED
  BY <1>1, <1>2, <1>4 DEF t

\* What waits for a model or reads the stores again changes none of them.
LEMMA WaitingMoves ==
    ASSUME TypeInv, NEW h \in Handlers,
           \/ Validate(h) \/ JudgeText(h) \/ JudgeFiles(h) \/ CollectJudgement(h)
           \/ Rejudged(h) \/ ResolveVersion(h) \/ Evaluate(h) \/ Screen(h) \/ Classify(h)
    PROVE  Moves(h)
<1> DEFINE s == handler[h]
<1>0. /\ s \in HandlerState /\ WellPlaced(s)
      /\ handler \in [Handlers -> HandlerState]
      /\ s.op \in Ops \cup {"none"} /\ s.results \in Judgements /\ s.target \in Targets
  BY DEF TypeInv, TypeOK, HandlerState
<1>1. /\ s.stage \notin Writing \cup {"idle"}
      /\ s.proposal \in Proposals /\ s.agg \in Aggregate
      /\ UNCHANGED stores
  BY <1>0 DEF Validate, JudgeText, JudgeFiles, CollectJudgement, Rejudged, ResolveVersion,
              Evaluate, Screen, Classify, Writing, WellPlaced
<1>2. {"save", "judge_text", "judge_files", "collect", "evaluate", "screen", "classify"}
         \subseteq Later
  BY DEF Later, Stages
<1>3. {"judge_text", "judge_files", "convert"} \subseteq Ops
  BY DEF Ops
<1>4. ASSUME NEW stage \in Later, Goto(h, stage) PROVE Moves(h)
  BY <1>1, <1>4, GotoMoves
<1>5. ASSUME Stop(h) PROVE Moves(h)
  BY <1>1, <1>5, StopMoves
\* The copy is kept, replaced by what a store holds, or judged.
<1>6. ASSUME NEW stage \in Later, NEW op \in Ops \cup {"none"},
             NEW agg \in Aggregate, NEW results \in Judgements,
             \/ agg.status \in {s.agg.status, "judged"}
             \/ agg \in {yaml[s.proposal], row[s.proposal]}
             \/ stage = "save" /\ op \in Deciding \ {"convert"} /\ agg.status = Outcome(op),
             handler' = [handler EXCEPT ![h] = Resumed(s, stage, op, agg, results)]
      PROVE  Moves(h)
  <2> DEFINE t == Resumed(s, stage, op, agg, results)
  <2>1. /\ t \in HandlerState /\ WellPlaced(t)
        /\ t.stage = stage /\ t.op = op /\ t.agg = agg /\ t.proposal = s.proposal
    BY <1>0, <1>1, ResumedShape
  <2>2. handler' = [handler EXCEPT ![h] = t]
    BY <1>6
  <2> HIDE DEF t
  <2> QED
    BY <1>1, <1>6, <2>1, <2>2, QuietMoves
<1>7. CASE Validate(h)
  <2>1. CASE Stop(h)
    BY <1>5, <2>1
  <2>2. CASE ~Stop(h)
    <3> DEFINE agg == WithStatus(s.agg, "submitted")
    <3>1. agg \in Aggregate /\ agg.status = "submitted"
      BY <1>1, AggregateShapes DEF Statuses
    <3>2. handler' = [handler EXCEPT ![h].stage = "save", ![h].agg = agg]
      BY <1>7, <2>2 DEF Validate
    <3> HIDE DEF agg
    <3>3. handler' = [handler EXCEPT ![h] = Resumed(s, "save", s.op, agg, s.results)]
      BY <1>0, <3>2 DEF HandlerState, Resumed
    <3>4. s.op = "finalize"
      BY <1>0, <1>7 DEF Validate, WellPlaced
    <3> QED
      BY <1>0, <1>2, <1>6, <3>1, <3>3, <3>4 DEF Deciding, Outcome
  <2> QED
    BY <2>1, <2>2
<1>8. CASE JudgeText(h)
  <2>1. CASE Goto(h, "judge_files")
    BY <1>2, <1>4, <2>1
  <2>2. ASSUME NEW v \in Verdicts, handler' = [handler EXCEPT
                  ![h].stage = "save", ![h].op = "judge_text",
                  ![h].agg = AddJudgement(s.agg, Text, v)]
        PROVE  Moves(h)
    <3> DEFINE agg == AddJudgement(s.agg, Text, v)
    <3>1. agg \in Aggregate /\ agg.status \in {s.agg.status, "judged"}
      BY <1>1, AggregateShapes DEF Targets
    <3>2. handler' = [handler EXCEPT ![h].stage = "save", ![h].op = "judge_text", ![h].agg = agg]
      BY <2>2
    <3> HIDE DEF agg
    <3>3. handler' = [handler EXCEPT ![h] = Resumed(s, "save", "judge_text", agg, s.results)]
      BY <1>0, <3>2 DEF HandlerState, Resumed
    <3> QED
      BY <1>0, <1>2, <1>3, <1>6, <3>1, <3>3
  <2> QED
    BY <1>8, <2>1, <2>2 DEF JudgeText
<1>9. CASE JudgeFiles(h)
  <2>1. CASE Goto(h, "evaluate")
    BY <1>2, <1>4, <2>1
  <2>2. ASSUME NEW results \in Judgements,
               handler' = [handler EXCEPT ![h].stage = "collect", ![h].results = results]
        PROVE  Moves(h)
    <3>1. handler' = [handler EXCEPT ![h] = Resumed(s, "collect", s.op, s.agg, results)]
      BY <1>0, <2>2 DEF HandlerState, Resumed
    <3> QED
      BY <1>0, <1>1, <1>2, <1>6, <3>1
  <2> QED
    BY <1>9, <2>1, <2>2 DEF JudgeFiles
<1>10. CASE CollectJudgement(h)
  <2>1. CASE Goto(h, "evaluate")
    BY <1>2, <1>4, <2>1
  <2>2. ASSUME NEW path \in Paths, s.results[path] # "none",
               handler' = [handler EXCEPT
                  ![h].stage = "save", ![h].op = "judge_files",
                  ![h].agg = AddJudgement(s.agg, path, s.results[path]),
                  ![h].results = [s.results EXCEPT ![path] = "none"]]
        PROVE  Moves(h)
    <3> DEFINE agg == AddJudgement(s.agg, path, s.results[path])
               results == [s.results EXCEPT ![path] = "none"]
    <3>1. path \in Targets /\ s.results[path] \in Verdicts /\ results \in Judgements
      BY <1>0, <2>2 DEF Targets, Judgements
    <3>2. agg \in Aggregate /\ agg.status \in {s.agg.status, "judged"}
      BY <1>1, <3>1, AggregateShapes
    <3>3. handler' = [handler EXCEPT ![h].stage = "save", ![h].op = "judge_files",
                                     ![h].agg = agg, ![h].results = results]
      BY <2>2
    <3> HIDE DEF agg, results
    <3>4. handler' = [handler EXCEPT ![h] = Resumed(s, "save", "judge_files", agg, results)]
      BY <1>0, <3>3 DEF HandlerState, Resumed
    <3> QED
      BY <1>2, <1>3, <1>6, <3>1, <3>2, <3>4
  <2> QED
    BY <1>10, <2>1, <2>2 DEF CollectJudgement
<1>11. CASE Rejudged(h)
  <2>1. CASE Stop(h)
    BY <1>5, <2>1
  <2>2. ASSUME NEW v \in Verdicts, handler' = [handler EXCEPT
                  ![h].stage = "save", ![h].agg = AddJudgement(s.agg, s.target, v)]
        PROVE  Moves(h)
    <3> DEFINE agg == AddJudgement(s.agg, s.target, v)
    <3>1. agg \in Aggregate /\ agg.status \in {s.agg.status, "judged"}
      BY <1>0, <1>1, AggregateShapes
    <3>2. handler' = [handler EXCEPT ![h].stage = "save", ![h].agg = agg]
      BY <2>2
    <3> HIDE DEF agg
    <3>3. handler' = [handler EXCEPT ![h] = Resumed(s, "save", s.op, agg, s.results)]
      BY <1>0, <3>2 DEF HandlerState, Resumed
    <3> QED
      BY <1>0, <1>2, <1>6, <3>1, <3>3
  <2> QED
    BY <1>11, <2>1, <2>2 DEF Rejudged
<1>12. CASE ResolveVersion(h)
  <2> DEFINE n == latest + 1
             t == [s EXCEPT !.stage = "create", !.number = n]
  <2>1. handler' = [handler EXCEPT ![h] = t] /\ s.op = "convert"
    BY <1>0, <1>12 DEF ResolveVersion, WellPlaced
  <2>2. n \in Nat
    BY DEF TypeInv, TypeOK
  <2> HIDE DEF n
  <2>3. t \in HandlerState
    BY <1>0, <2>2 DEF HandlerState, Stages
  <2>4. t.stage = "create" /\ t.proposal = s.proposal /\ t.agg = s.agg /\ t.op = s.op
    BY <1>0 DEF HandlerState
  <2> HIDE DEF t
  <2>5. WellPlaced(t)
    BY <1>1, <2>1, <2>4 DEF WellPlaced
  <2> QED
    BY <1>1, <2>1, <2>3, <2>4, <2>5, QuietMoves
<1>13. ASSUME HasStatus(LoadedForCommand(s.proposal), Statuses)
       PROVE  /\ LoadedForCommand(s.proposal) \in Aggregate
              /\ LoadedForCommand(s.proposal) \in {yaml[s.proposal], row[s.proposal]}
  BY <1>1, <1>13, LoadedShapes DEF HasStatus
<1>14. CASE Evaluate(h)
  <2> DEFINE fresh == LoadedForCommand(s.proposal)
  <2>1. CASE /\ HasStatus(fresh, Statuses)
             /\ handler' = [handler EXCEPT ![h] =
                               [s EXCEPT !.stage = "screen", !.agg = fresh]]
    <3>1. fresh \in Aggregate /\ fresh \in {yaml[s.proposal], row[s.proposal]}
      BY <1>13, <2>1
    <3>2. handler' = [handler EXCEPT ![h] = [s EXCEPT !.stage = "screen", !.agg = fresh]]
      BY <2>1
    <3> HIDE DEF fresh
    <3>3. handler' = [handler EXCEPT ![h] = Resumed(s, "screen", s.op, fresh, s.results)]
      BY <1>0, <3>2 DEF HandlerState, Resumed
    <3> QED
      BY <1>0, <1>2, <1>6, <3>1, <3>3
  <2>2. CASE Stop(h)
    BY <1>5, <2>2
  <2> QED
    BY <1>14, <2>1, <2>2 DEF Evaluate, Stop, HasStatus
<1>15. CASE Screen(h)
  BY <1>2, <1>4, <1>5, <1>15 DEF Screen
<1>16. CASE Classify(h)
  <2> DEFINE fresh == LoadedForCommand(s.proposal)
             t == [s EXCEPT !.stage = "resolve", !.op = "convert", !.agg = fresh, !.auto = TRUE]
  <2>1. CASE Stop(h)
    BY <1>5, <2>1
  <2>2. CASE ~Stop(h)
    <3>1. HasStatus(fresh, Statuses)
      BY <1>16, <2>2 DEF Classify, HasStatus, Undecided, Statuses
    <3>2. fresh \in Aggregate /\ fresh \in {yaml[s.proposal], row[s.proposal]}
      BY <1>13, <3>1
    <3>3. handler' = [handler EXCEPT ![h] = t]
      BY <1>16, <2>2 DEF Classify
    <3> HIDE DEF fresh
    <3>4. t \in HandlerState
      BY <1>0, <3>2 DEF HandlerState, Stages, Ops, Copies
    <3>5. t.stage = "resolve" /\ t.proposal = s.proposal /\ t.agg = fresh /\ t.op = "convert"
      BY <1>0 DEF HandlerState
    <3> HIDE DEF t
    <3>6. WellPlaced(t)
      BY <1>1, <3>2, <3>5 DEF WellPlaced
    <3> QED
      BY <1>1, <3>2, <3>3, <3>4, <3>5, <3>6, QuietMoves
  <2> QED
    BY <2>1, <2>2
<1> QED
  BY <1>7, <1>8, <1>9, <1>10, <1>11, <1>12, <1>14, <1>15, <1>16

\* What writes a store writes the copy the handler carries, or removes it.
LEMMA WritingMoves ==
    ASSUME TypeInv, NEW h \in Handlers,
           \/ StoreFile(h) \/ RemoveDirectory(h) \/ RemoveRow(h) \/ CreateVersion(h)
           \/ Release(h) \/ WriteYaml(h) \/ UpsertRow(h) \/ AppendAudit(h)
           \/ Abort(h) \/ SwallowFailedSave(h)
    PROVE  Moves(h)
<1> DEFINE s == handler[h]
<1>0. /\ s \in HandlerState /\ WellPlaced(s)
      /\ handler \in [Handlers -> HandlerState]
      /\ s.op \in Ops \cup {"none"} /\ s.results \in Judgements /\ s.number \in Nat
      /\ StoresShaped
  BY DEF TypeInv, TypeOK, HandlerState, StoresShaped
<1>1. s.stage # "idle" /\ s.proposal \in Proposals /\ s.agg \in Aggregate
  BY <1>0 DEF StoreFile, RemoveDirectory, RemoveRow, CreateVersion, Release, WriteYaml,
              UpsertRow, AppendAudit, Abort, SwallowFailedSave, WellPlaced
<1>2. {"save", "row", "audit", "remove_row", "release", "judge_text", "judge_files", "collect"}
         \subseteq Later
  BY DEF Later, Stages
<1>3. NoProposal \in Copies /\ s.agg \in Copies
  BY <1>1 DEF Copies
<1>4. CASE StoreFile(h)
  <2> DEFINE path == s.target
             agg == WithFile(s.agg, path)
             t == Resumed(s, "save", s.op, agg, s.results)
  <2>1. s.stage = "store" /\ path \in Paths
    BY <1>0, <1>4 DEF StoreFile, WellPlaced
  <2>2. agg \in Aggregate /\ agg.status = s.agg.status
    BY <1>1, <2>1, AggregateShapes
  <2>3. handler' = [handler EXCEPT ![h].stage = "save", ![h].agg = agg]
    BY <1>4 DEF StoreFile
  <2>4. UNCHANGED <<yaml, row, latest, versions, released, audit>>
        /\ stored' = [stored EXCEPT ![s.proposal] = stored[s.proposal] \cup {path}]
    BY <1>4 DEF StoreFile
  <2> HIDE DEF agg
  <2>5. handler' = [handler EXCEPT ![h] = t]
    BY <1>0, <2>3 DEF HandlerState, Resumed
  <2> HIDE DEF s
  <2>6. t \in HandlerState /\ WellPlaced(t) /\ t.agg = agg /\ t.proposal = s.proposal
    <3>1. "save" \in Later
      BY <1>2
    <3> QED
      BY <1>0, <1>1, <2>2, <3>1, ResumedShape
  <2> USE DEF s
  <2> HIDE DEF t
  <2>7. Shaped(h) /\ handler'[h] = t
    BY <1>0, <2>5, <2>6 DEF Shaped
  <2>8. Sourced(h)
    BY <1>1, <2>2, <2>6, <2>7 DEF Sourced
  <2>9. Written(h, yaml, yaml') /\ Written(h, row, row') /\ Tracked(h)
    BY <2>1, <2>4 DEF Written, Tracked, Writing
  <2>10. StoresShaped'
    BY <1>0, <2>1, <2>4 DEF StoresShaped
  <2> QED
    BY <2>7, <2>8, <2>9, <2>10 DEF Moves
<1>5. CASE RemoveDirectory(h)
  <2>1. Goto(h, "remove_row") /\ s.stage = "remove" /\ "remove_row" \in Later
    BY <1>2, <1>5 DEF RemoveDirectory
  <2>2. Shaped(h) /\ Sourced(h)
    BY <1>1, <2>1, GotoShape
  <2>3. Written(h, yaml, yaml') /\ Written(h, row, row') /\ Tracked(h)
    BY <1>0, <1>5, <2>1 DEF RemoveDirectory, Written, Tracked, Writing, StoresShaped
  <2>4. StoresShaped'
    BY <1>0, <1>1, <1>3, <1>5 DEF RemoveDirectory, StoresShaped
  <2> QED
    BY <2>2, <2>3, <2>4 DEF Moves
<1>6. CASE RemoveRow(h)
  <2>1. Goto(h, "audit") /\ s.stage = "remove_row" /\ "audit" \in Later
    BY <1>2, <1>6 DEF RemoveRow
  <2>2. Shaped(h) /\ Sourced(h)
    BY <1>1, <2>1, GotoShape
  <2>3. Written(h, yaml, yaml') /\ Written(h, row, row') /\ Tracked(h)
    BY <1>0, <1>6, <2>1 DEF RemoveRow, Written, Tracked, Writing, StoresShaped
  <2>4. StoresShaped'
    BY <1>0, <1>1, <1>3, <1>6 DEF RemoveRow, StoresShaped
  <2> QED
    BY <2>2, <2>3, <2>4 DEF Moves
<1>7. CASE CreateVersion(h)
  <2>1. /\ s.stage = "create"
        /\ UNCHANGED <<yaml, stored, row, released, audit>>
    BY <1>7 DEF CreateVersion
  <2>2. Written(h, yaml, yaml') /\ Written(h, row, row')
    BY <2>1 DEF Written
  <2>3. CASE Stop(h) /\ UNCHANGED <<latest, versions>>
    <3>1. UNCHANGED stores /\ s.stage \notin Writing
      BY <2>1, <2>3 DEF stores, Writing
    <3> QED
      BY <2>3, <3>1, StopMoves
  <2>4. CASE /\ versions' = versions \cup {<<s.number, s.proposal>>}
             /\ latest' = IF s.number > latest THEN s.number ELSE latest
             /\ handler' = [handler EXCEPT ![h].stage = "save",
                                           ![h].agg = WithStatus(s.agg, "converted")]
    <3> DEFINE agg == WithStatus(s.agg, "converted")
               t == [s EXCEPT !.stage = "save", !.agg = agg]
    <3>1. agg \in Aggregate /\ agg.status = "converted"
      BY <1>1, AggregateShapes DEF Statuses
    <3>2. handler' = [handler EXCEPT ![h] = t]
      BY <2>4
    <3> HIDE DEF agg
    <3>3. t \in HandlerState
      BY <1>0, <3>1 DEF HandlerState, Stages, Copies
    <3>4. /\ t.stage = "save" /\ t.agg = agg /\ t.proposal = s.proposal
          /\ t.number = s.number /\ t.op = s.op
      BY <1>0 DEF HandlerState
    <3> HIDE DEF t
    <3>5. WellPlaced(t)
      BY <1>1, <3>1, <3>4 DEF WellPlaced
    <3>6. Shaped(h) /\ handler'[h] = t
      BY <1>0, <3>2, <3>3, <3>5 DEF Shaped
    <3>7. s.op = "convert"
      BY <1>0, <2>1 DEF WellPlaced
    <3>8. Sourced(h)
      <4>1. <<t.number, t.proposal>> \in versions'
        BY <2>4, <3>4
      <4>2. t.stage = "save" /\ t.op \in Deciding /\ t.agg.status = Outcome(t.op)
        BY <3>1, <3>4, <3>7 DEF Deciding, Outcome
      <4> QED
        BY <3>6, <4>1, <4>2 DEF Sourced
    <3>9. Tracked(h)
      BY <2>1, <2>4 DEF Tracked, Writing
    <3>10. StoresShaped'
      BY <1>0, <1>1, <2>1, <2>4 DEF StoresShaped
    <3> QED
      BY <2>2, <3>6, <3>8, <3>9, <3>10 DEF Moves
  <2> QED
    BY <1>7, <2>3, <2>4 DEF CreateVersion
<1>8. CASE Release(h)
  <2>1. Stop(h) /\ s.stage = "release"
        /\ UNCHANGED <<yaml, stored, row, latest, versions, audit>>
        /\ released' = released \cup {<<s.number, s.proposal>>}
    BY <1>8 DEF Release
  <2>2. Shaped(h) /\ Sourced(h)
    BY <2>1, StopShape
  <2>3. Written(h, yaml, yaml') /\ Written(h, row, row') /\ Tracked(h)
    BY <2>1 DEF Written, Tracked, Writing
  <2>4. StoresShaped'
    BY <1>0, <1>1, <2>1 DEF StoresShaped
  <2> QED
    BY <2>2, <2>3, <2>4 DEF Moves
\* Writing on, with what is being written unchanged.
<1>9. ASSUME NEW stage \in Later, Goto(h, stage), UNCHANGED <<latest, versions, released, audit>>,
             stage \in Writing \/ s.op \notin Deciding
      PROVE  Shaped(h) /\ Sourced(h) /\ Tracked(h)
  <2>1. /\ Shaped(h) /\ Sourced(h)
        /\ handler'[h].stage = stage /\ handler'[h].op = s.op
        /\ handler'[h].proposal = s.proposal
    BY <1>1, <1>9, GotoShape
  <2> QED
    BY <1>9, <2>1 DEF Tracked
<1>10. CASE WriteYaml(h)
  <2>1. Shaped(h) /\ Sourced(h) /\ Tracked(h)
    BY <1>2, <1>9, <1>10 DEF WriteYaml, Writing
  <2>2. Written(h, yaml, yaml') /\ Written(h, row, row')
    BY <1>0, <1>1, <1>10 DEF WriteYaml, Written, StoresShaped
  <2>3. StoresShaped'
    BY <1>0, <1>1, <1>3, <1>10 DEF WriteYaml, StoresShaped
  <2> QED
    BY <2>1, <2>2, <2>3 DEF Moves
<1>11. CASE UpsertRow(h)
  <2>1. PICK stage \in {"judge_files", "collect", "audit"} :
           Goto(h, stage) /\ (stage \in Writing \/ s.op \notin Deciding)
    BY <1>11 DEF UpsertRow, Writing, Deciding
  <2>2. Shaped(h) /\ Sourced(h) /\ Tracked(h)
    BY <1>2, <1>9, <1>11, <2>1 DEF UpsertRow
  <2>3. Written(h, yaml, yaml') /\ Written(h, row, row')
    BY <1>0, <1>1, <1>11 DEF UpsertRow, Written, StoresShaped
  <2>4. StoresShaped'
    BY <1>0, <1>1, <1>3, <1>11 DEF UpsertRow, StoresShaped
  <2> QED
    BY <2>2, <2>3, <2>4 DEF Moves
<1>12. CASE AppendAudit(h)
  <2>1. /\ audit' = audit \cup ({<<s.proposal, s.op>>} \cap (Proposals \X Recorded))
        /\ UNCHANGED <<yaml, stored, row, latest, versions, released>>
    BY <1>12 DEF AppendAudit
  <2>2. Goto(h, "judge_text") \/ Goto(h, "release") \/ Stop(h)
    BY <1>12 DEF AppendAudit
  <2>3. "judge_text" \in Later /\ "release" \in Later
    BY DEF Later, Stages
  <2>4. Shaped(h) /\ Sourced(h)
    BY <1>1, <2>2, <2>3, GotoShape, StopShape
  <2>5. s.op \in Deciding => <<s.proposal, s.op>> \in audit'
    BY <1>1, <2>1 DEF Deciding, Recorded
  <2>6. Written(h, yaml, yaml') /\ Written(h, row, row') /\ Tracked(h)
    BY <2>1, <2>5 DEF Written, Tracked
  <2>7. StoresShaped'
    BY <1>0, <2>1 DEF StoresShaped
  <2> QED
    BY <2>4, <2>6, <2>7 DEF Moves
<1>13. CASE Abort(h)
  <2>1. faults' # 0
    BY <1>13, ProposalsAssumption DEF Abort, Fault, TypeInv, TypeOK
  <2> QED
    BY <1>13, <2>1, StopMoves DEF Abort
<1>14. CASE SwallowFailedSave(h)
  <2>1. Shaped(h) /\ Sourced(h) /\ Tracked(h)
    BY <1>2, <1>9, <1>14 DEF SwallowFailedSave, Deciding, stores
  <2>2. Written(h, yaml, yaml') /\ Written(h, row, row') /\ StoresShaped'
    BY <1>0, <1>14 DEF SwallowFailedSave, Written, StoresShaped, stores
  <2> QED
    BY <2>1, <2>2 DEF Moves
<1> QED
  BY <1>4, <1>5, <1>6, <1>7, <1>8, <1>10, <1>11, <1>12, <1>13, <1>14

LEMMA NextMoves == TypeInv /\ Next => \E h \in Handlers : Moves(h)
BY CommandMoves, WaitingMoves, WritingMoves DEF Next, Continue

-----------------------------------------------------------------------------
(* Type correctness *)

LEMMA TypeInvInit == Init => TypeInv
BY InitialShapes, ProposalsAssumption DEF Init, TypeInv, TypeOK, Copies

LEMMA TypeInvStep == TypeInv /\ [Next]_vars => TypeInv'
<1> SUFFICES ASSUME TypeInv, [Next]_vars PROVE TypeInv'
  OBVIOUS
<1>1. CASE UNCHANGED vars
  BY <1>1 DEF vars, TypeInv, TypeOK
<1>2. CASE Next
  <2>1. PICK h \in Handlers : Moves(h)
    BY <1>2, NextMoves
  <2>2. StoresShaped'
    BY <2>1 DEF Moves
  <2>3. /\ handler' = [handler EXCEPT ![h] = handler'[h]]
        /\ handler'[h] \in HandlerState /\ WellPlaced(handler'[h])
    BY <2>1 DEF Moves, Shaped
  <2>4. handler' \in [Handlers -> HandlerState] /\ \A g \in Handlers : WellPlaced(handler'[g])
    BY <2>3 DEF TypeInv, TypeOK
  <2>5. faults' \in 0..MaxFaults
    BY <1>2, ProposalsAssumption DEF Next, Abort, SwallowFailedSave, Fault, TypeInv, TypeOK
  <2> QED
    BY <2>2, <2>4, <2>5 DEF TypeInv, TypeOK, StoresShaped
<1> QED
  BY <1>1, <1>2

LEMMA TypeInvariant == Spec => []TypeInv
<1> QED
  BY TypeInvInit, TypeInvStep, PTL DEF Spec

\* Every store and every handler always holds a value of its shape.
THEOREM TypeCorrect == Spec => []TypeOK
<1>1. TypeInv => TypeOK
  BY DEF TypeInv
<1> QED
  BY <1>1, TypeInvariant, PTL

-----------------------------------------------------------------------------
(* What may be said of every copy of a proposal *)

\* Each copy, stored or carried, has one of the statuses F gives its proposal.
CopiesIn(y, r, H, F) ==
    /\ \A p \in Proposals : y[p] # NoProposal => <<p, y[p].status>> \in F
    /\ \A p \in Proposals : r[p] # NoProposal => <<p, r[p].status>> \in F
    /\ \A h \in Handlers : H[h].stage # "idle" => <<H[h].proposal, H[h].agg.status>> \in F

\* No step makes a copy with a status that F did not give, unless the step is
\* a decision that G accepts.
LEMMA CopiesStep ==
    ASSUME TypeInv, NEW h \in Handlers, Moves(h), NEW F, NEW G,
           CopiesIn(yaml, row, handler, F), F \subseteq G,
           Proposals \X {"in_upload", "judged"} \subseteq G,
           (/\ handler'[h].stage = "save" /\ handler'[h].op \in Deciding
            /\ handler'[h].op = "convert" =>
                  <<handler'[h].number, handler'[h].proposal>> \in versions')
              => <<handler'[h].proposal, Outcome(handler'[h].op)>> \in G
    PROVE  CopiesIn(yaml', row', handler', G)
<1> DEFINE s == handler'[h]
<1>1. ASSUME NEW old, NEW new, Written(h, old, new),
             \A p \in Proposals : old[p] # NoProposal => <<p, old[p].status>> \in F
      PROVE  \A p \in Proposals : new[p] # NoProposal => <<p, new[p].status>> \in G
  BY <1>1 DEF Written, CopiesIn
<1>2. /\ \A p \in Proposals : yaml'[p] # NoProposal => <<p, yaml'[p].status>> \in G
      /\ \A p \in Proposals : row'[p] # NoProposal => <<p, row'[p].status>> \in G
  BY <1>1 DEF Moves, CopiesIn
<1>3. s.stage # "idle" => <<s.proposal, s.agg.status>> \in G
  <2> SUFFICES ASSUME s.stage # "idle" PROVE <<s.proposal, s.agg.status>> \in G
    OBVIOUS
  <2>1. s.proposal \in Proposals /\ s.agg \in Aggregate /\ s.agg # NoProposal
    BY NoProposalAssumption DEF Moves, Shaped, WellPlaced
  <2>2. CASE /\ handler[h].stage # "idle"
             /\ s.proposal = handler[h].proposal
             /\ s.agg.status = handler[h].agg.status
    BY <2>2 DEF CopiesIn
  <2>3. CASE s.agg \in {yaml[s.proposal], row[s.proposal]}
    BY <2>1, <2>3 DEF CopiesIn
  <2>4. CASE s.agg.status \in {"in_upload", "judged"}
    BY <2>1, <2>4
  <2>5. CASE /\ s.stage = "save" /\ s.op \in Deciding /\ s.agg.status = Outcome(s.op)
             /\ s.op = "convert" => <<s.number, s.proposal>> \in versions'
    BY <2>5
  <2> QED
    BY <2>2, <2>3, <2>4, <2>5 DEF Moves, Sourced
<1>4. ASSUME NEW g \in Handlers, handler'[g].stage # "idle"
      PROVE  <<handler'[g].proposal, handler'[g].agg.status>> \in G
  <2>1. g # h => handler'[g] = handler[g]
    BY DEF Moves, Shaped, TypeInv, TypeOK
  <2> QED
    BY <1>3, <1>4, <2>1 DEF CopiesIn
<1> QED
  BY <1>2, <1>4 DEF CopiesIn

-----------------------------------------------------------------------------
(* A conversion has its version *)

\* The statuses a proposal may have, given the versions that were made.
Versioned ==
    {q \in Proposals \X Statuses :
        q[2] = "converted" => \E n \in Nat : <<n, q[1]>> \in versions}

ConversionInv == CopiesIn(yaml, row, handler, Versioned)

LEMMA ConversionInvInit == Init => ConversionInv
BY DEF Init, ConversionInv, CopiesIn, Idle

LEMMA ConversionInvStep == TypeInv /\ ConversionInv /\ [Next]_vars => ConversionInv'
<1> SUFFICES ASSUME TypeInv, ConversionInv, [Next]_vars PROVE ConversionInv'
  OBVIOUS
<1>1. CASE UNCHANGED vars
  BY <1>1 DEF vars, ConversionInv, CopiesIn, Versioned
<1>2. CASE Next
  <2>1. PICK h \in Handlers : Moves(h)
    BY <1>2, NextMoves
  <2> DEFINE next == Versioned'
             s == handler'[h]
  <2>2. Versioned \subseteq next
    BY <2>1 DEF Moves, Tracked, Versioned
  <2>3. Proposals \X {"in_upload", "judged"} \subseteq next
    BY DEF Versioned, Statuses
  <2>4. ASSUME s.stage = "save", s.op \in Deciding,
               s.op = "convert" => <<s.number, s.proposal>> \in versions'
        PROVE  <<s.proposal, Outcome(s.op)>> \in next
    <3>1. s.proposal \in Proposals /\ s.number \in Nat
      BY <2>1, <2>4 DEF Moves, Shaped, WellPlaced, HandlerState
    <3>2. Outcome(s.op) \in Statuses /\ (Outcome(s.op) = "converted" => s.op = "convert")
      BY <2>4 DEF Deciding, Outcome, Statuses
    <3> QED
      BY <2>4, <3>1, <3>2 DEF Versioned
  <2> HIDE DEF next
  <2>5. CopiesIn(yaml', row', handler', next)
    BY <2>1, <2>2, <2>3, <2>4, CopiesStep DEF ConversionInv
  <2> QED
    BY <2>5 DEF ConversionInv, next
<1> QED
  BY <1>1, <1>2

\* No copy of a proposal ever says converted before a version was made from
\* it, whatever commands overlap and wherever they are cut off.
THEOREM Converted == Spec => []ConversionHasVersion
<1>1. ConversionInv => ConversionHasVersion
  <2> SUFFICES ASSUME ConversionInv, NEW p \in Proposals,
                      HasStatus(yaml[p], {"converted"}) \/ HasStatus(row[p], {"converted"})
               PROVE  MadeFrom(p) # {}
    BY DEF ConversionHasVersion
  <2>1. <<p, "converted">> \in Versioned
    BY DEF ConversionInv, CopiesIn, HasStatus
  <2>2. PICK n \in Nat : <<n, p>> \in versions
    BY <2>1 DEF Versioned
  <2> QED
    BY <2>2 DEF MadeFrom
<1> QED
  BY <1>1, ConversionInvInit, ConversionInvStep, TypeInvariant, PTL DEF Spec

-----------------------------------------------------------------------------
(* Statuses are explained by the audit log *)

Explained == {q \in Proposals \X Statuses : \A op \in History(q[2]) : Accounted(q[1], op)}

ExplainInv == faults = 0 => CopiesIn(yaml, row, handler, Explained)

\* A decision on its way to the audit log arrives there.
LEMMA AccountedGrows ==
    ASSUME faults' = 0, TypeInv, NEW h \in Handlers, Moves(h),
           NEW p \in Proposals, NEW op \in Deciding, Accounted(p, op)
    PROVE  Accounted(p, op)'
<1>1. CASE <<p, op>> \in audit
  BY <1>1 DEF Moves, Tracked, Accounted
<1>2. ASSUME NEW g \in Handlers, handler[g].proposal = p, handler[g].op = op,
             handler[g].stage \in Writing
      PROVE  Accounted(p, op)'
  <2>1. CASE g # h
    <3>1. handler'[g] = handler[g]
      BY <2>1 DEF Moves, Shaped, TypeInv, TypeOK
    <3> QED
      BY <1>2, <3>1 DEF Accounted, Pending, Writing
  <2>2. CASE g = h
    BY <1>2, <2>2 DEF Moves, Tracked, Accounted, Pending, Writing
  <2> QED
    BY <2>1, <2>2
<1> QED
  BY <1>1, <1>2 DEF Accounted, Pending, Writing

LEMMA ExplainInvInit == Init => ExplainInv
BY DEF Init, ExplainInv, CopiesIn, Idle

LEMMA ExplainInvStep == TypeInv /\ ExplainInv /\ [Next]_vars => ExplainInv'
<1> SUFFICES ASSUME TypeInv, ExplainInv, [Next]_vars, faults' = 0
             PROVE  CopiesIn(yaml', row', handler', Explained')
  BY DEF ExplainInv
<1>0. CopiesIn(yaml, row, handler, Explained)
  <2>1. faults \in Nat /\ (faults' = faults \/ faults' = faults + 1)
    BY ProposalsAssumption DEF Next, Abort, SwallowFailedSave, Fault, vars, TypeInv, TypeOK
  <2> QED
    BY <2>1 DEF ExplainInv
<1>1. CASE UNCHANGED vars
  BY <1>0, <1>1 DEF vars, CopiesIn, Explained, Accounted, Pending
<1>2. CASE Next
  <2>1. PICK h \in Handlers : Moves(h)
    BY <1>2, NextMoves
  <2> DEFINE next == Explained'
             s == handler'[h]
  <2>2. Explained \subseteq next
    <3>1. \A status \in Statuses : History(status) \subseteq Deciding
      BY DEF History, Statuses, Deciding
    <3>2. \A p \in Proposals, op \in Deciding : Accounted(p, op) => Accounted(p, op)'
      BY <2>1, AccountedGrows
    <3> QED
      BY <3>1, <3>2 DEF Explained
  <2>3. Proposals \X {"in_upload", "judged"} \subseteq next
    BY DEF Explained, Statuses, History
  <2>4. ASSUME s.stage = "save", s.op \in Deciding
        PROVE  <<s.proposal, Outcome(s.op)>> \in next
    <3>1. s.proposal \in Proposals
      BY <2>1, <2>4 DEF Moves, Shaped, WellPlaced
    <3>2. Outcome(s.op) \in Statuses /\ History(Outcome(s.op)) = {s.op}
      BY <2>4 DEF Deciding, Outcome, Statuses, History
    <3>3. ASSUME NEW p, NEW op, p = s.proposal, op = s.op PROVE Accounted(p, op)'
      BY <2>4, <3>3 DEF Accounted, Pending
    <3> QED
      BY <3>1, <3>2, <3>3 DEF Explained
  <2> HIDE DEF next
  <2>5. CopiesIn(yaml', row', handler', next)
    BY <1>0, <2>1, <2>2, <2>3, <2>4, CopiesStep
  <2> QED
    BY <2>5 DEF next
<1> QED
  BY <1>1, <1>2

\* As long as no command is cut off, every submitted, rejected or converted
\* proposal in a store is so because of a command whose audit entry is written
\* or about to be.
THEOREM Audited == Spec => []AuditExplainsStatus
<1>1. ExplainInv => AuditExplainsStatus
  BY DEF ExplainInv, CopiesIn, Explained, AuditExplainsStatus
<1>2. TypeInv /\ ExplainInv /\ [Next]_vars => ExplainInv'
  BY ExplainInvStep
<1> QED
  BY <1>1, <1>2, ExplainInvInit, TypeInvariant, PTL DEF Spec

-----------------------------------------------------------------------------
(* One command after the other.  What follows is about a single handler:   *)
(* overlapping commands overwrite each other's copies, and nothing below    *)
(* holds of them.  The invariant says what the copy being worked on has to  *)
(* do with the stores, stage by stage; Whole is the part that an            *)
(* interruption ends for good.                                              *)

Decided == {"rejected", "converted"}

\* What a handler's stage says about the command it carries out.
Placed(h) ==
    LET s == handler[h] IN
    /\ s.stage = "store" => s.op = "attach"
    /\ s.stage = "judging" => s.op = "rejudge"
    /\ s.stage \in {"remove", "remove_row"} => s.op = "delete" /\ s.agg.status = "in_upload"
    /\ s.op = "delete" => s.stage \in {"remove", "remove_row", "audit"}
    /\ s.stage = "validate" => s.agg.status = "in_upload"
    /\ s.stage \in {"resolve", "create"} => s.agg.status \in Undecided
    /\ s.stage = "release" => s.auto
    /\ s.auto => s.op = "convert" /\ s.stage \in {"resolve", "create", "save", "row", "audit", "release"}

\* A decision that the catalog shows is the one that proposal.yaml and the copy
\* being worked on have.
Firm(h) ==
    LET s == handler[h] IN
    /\ \A p \in Proposals :
          HasStatus(row[p], Decided) => yaml[p] # NoProposal /\ yaml[p].status = row[p].status
    /\ s.stage # "idle" /\ HasStatus(row[s.proposal], Decided) =>
          s.agg.status = row[s.proposal].status
    /\ s.stage = "row" => yaml[s.proposal] = s.agg
    /\ s.stage = "remove_row" => yaml[s.proposal] = NoProposal

\* What automation has found out about the proposal is still so.
Cleared(h) ==
    LET s == handler[h] IN
    /\ s.stage \in {"screen", "classify"} => LoadedForCommand(s.proposal) = s.agg
    /\ s.stage = "classify" \/ s.auto => FullyGreen(s.agg) /\ ~Intervened(s.proposal)
    /\ s.auto /\ s.stage \in {"row", "audit", "release"} => yaml[s.proposal] = s.agg

\* The status a command may give a proposal that readers see with another.
Succeeds(op, old, new) ==
    IF op = "convert" THEN old \in Undecided /\ new = "converted"
    ELSE \/ new = old
         \/ old = "in_upload" /\ new = "submitted"
         \/ old \in {"in_upload"} \cup Undecided /\ new = "judged"
         \/ old \in Undecided /\ new = "rejected"

\* The copy about to be saved is a new proposal, or what the catalog has, moved on.
Due(h) ==
    LET s == handler[h]
        old == row[s.proposal] IN
    IF old = NoProposal
    THEN /\ s.op # "convert" /\ s.agg.status = "in_upload"
         /\ \A q \in Proposals : ~HasStatus(row[q], {"in_upload"})
    ELSE Succeeds(s.op, old.status, s.agg.status)

Making(h) == handler[h].op = "convert" /\ handler[h].stage \in {"save", "row"}

\* Nothing was cut off: the stores agree but for what is being written, whatever a
\* copy lists is stored, and only a conversion has made a version.
Whole(h) ==
    LET s == handler[h]
        p == s.proposal IN
    faults = 0 =>
        /\ \A q \in Proposals : row[q] = yaml[q] \/ (q = p /\ s.stage \in {"row", "remove_row"})
        /\ \A q \in Proposals : yaml[q] # NoProposal => yaml[q].files \subseteq stored[q]
        /\ s.stage \in {"save", "row"} => s.agg.files \subseteq stored[p] /\ Due(h)
        /\ s.stage \notin {"idle", "save", "row"} /\ ~(s.stage = "audit" /\ s.op = "delete") =>
              row[p] = s.agg
        /\ \A q \in Proposals :
              \/ MadeFrom(q) = {} \/ HasStatus(row[q], {"converted"})
              \/ q = p /\ Making(h)
        /\ Making(h) => MadeFrom(p) = {<<s.number, p>>}

SoloInv == \A h \in Handlers : Placed(h) /\ Firm(h) /\ Cleared(h) /\ Whole(h)

\* What a changed copy keeps of the copy it was made from.
LEMMA CopyFields ==
    ASSUME NEW agg \in Aggregate
    PROVE  /\ \A status \in Statuses :
                /\ WithStatus(agg, status).files = agg.files
                /\ FullyGreen(agg) => FullyGreen(WithStatus(agg, status))
           /\ \A path \in Paths : WithFile(agg, path).files = agg.files \cup {path}
           /\ \A t \in Targets, v \in Verdicts :
                /\ AddJudgement(agg, t, v).files = agg.files
                /\ AddJudgement(agg, t, v).status =
                      IF agg.status \in Decided THEN agg.status ELSE "judged"
<1>1. ASSUME NEW status \in Statuses
      PROVE  /\ WithStatus(agg, status).files = agg.files
             /\ FullyGreen(agg) => FullyGreen(WithStatus(agg, status))
  <2>1. /\ WithStatus(agg, status).files = agg.files
        /\ WithStatus(agg, status).verdict = agg.verdict
    BY DEF WithStatus, Aggregate
  <2> QED
    BY <2>1 DEF FullyGreen
<1>2. ASSUME NEW path \in Paths PROVE WithFile(agg, path).files = agg.files \cup {path}
  BY DEF WithFile, Aggregate
<1>3. ASSUME NEW t \in Targets, NEW v \in Verdicts
      PROVE  /\ AddJudgement(agg, t, v).files = agg.files
             /\ AddJudgement(agg, t, v).status =
                   IF agg.status \in Decided THEN agg.status ELSE "judged"
  <2> DEFINE verdict == [agg.verdict EXCEPT ![t] = v]
             status == IF agg.status \in Decided THEN agg.status ELSE "judged"
  <2>1. AddJudgement(agg, t, v) = [agg EXCEPT !.verdict = verdict, !.status = status]
    BY DEF AddJudgement, Aggregate, Decided
  <2> HIDE DEF verdict, status
  <2>2. AddJudgement(agg, t, v).files = agg.files /\ AddJudgement(agg, t, v).status = status
    BY <2>1 DEF Aggregate
  <2> QED
    BY <2>2 DEF status
<1> QED
  BY <1>1, <1>2, <1>3

\* The fields of a handler that begins, goes on, takes up another copy or stops.
LEMMA BeginFields ==
    ASSUME TypeInv, NEW h \in Handlers, NEW stage, NEW op, NEW p, NEW agg,
           Begin(h, stage, op, p, agg)
    PROVE  /\ handler[h].stage = "idle" /\ UNCHANGED stores
           /\ handler'[h].stage = stage /\ handler'[h].op = op
           /\ handler'[h].proposal = p /\ handler'[h].agg = agg /\ ~handler'[h].auto
<1> DEFINE t == [Idle EXCEPT !.stage = stage, !.op = op, !.proposal = p, !.agg = agg]
<1>1. handler' = [handler EXCEPT ![h] = t] /\ handler[h].stage = "idle" /\ UNCHANGED stores
  BY DEF Begin
<1>2. t.stage = stage /\ t.op = op /\ t.proposal = p /\ t.agg = agg /\ t.auto = FALSE
  BY DEF Idle
<1> HIDE DEF t
<1>3. handler'[h] = t
  BY <1>1 DEF TypeInv, TypeOK
<1> QED
  BY <1>1, <1>2, <1>3

LEMMA ResumedFields ==
    ASSUME NEW s \in HandlerState, NEW stage, NEW op, NEW agg, NEW results
    PROVE  LET t == Resumed(s, stage, op, agg, results) IN
           /\ t.stage = stage /\ t.op = op /\ t.proposal = s.proposal
           /\ t.agg = agg /\ t.number = s.number /\ t.auto = s.auto
BY DEF Resumed, HandlerState

LEMMA GotoFields ==
    ASSUME TypeInv, NEW h \in Handlers, NEW stage, Goto(h, stage)
    PROVE  LET s == handler[h]
               t == handler'[h] IN
           /\ t.stage = stage /\ t.op = s.op /\ t.proposal = s.proposal
           /\ t.agg = s.agg /\ t.number = s.number /\ t.auto = s.auto
<1> DEFINE s == handler[h]
           t == [s EXCEPT !.stage = stage]
<1>1. s \in HandlerState
  BY DEF TypeInv, TypeOK
<1>2. handler'[h] = t
  BY DEF Goto, TypeInv, TypeOK
<1>3. /\ t.stage = stage /\ t.op = s.op /\ t.proposal = s.proposal
      /\ t.agg = s.agg /\ t.number = s.number /\ t.auto = s.auto
  BY <1>1 DEF HandlerState
<1> HIDE DEF t
<1> QED
  BY <1>2, <1>3

LEMMA StopFields ==
    ASSUME TypeInv, NEW h \in Handlers, Stop(h)
    PROVE  handler'[h].stage = "idle" /\ handler'[h].op = "none" /\ handler'[h].auto = FALSE
<1>1. handler'[h] = Idle
  BY DEF Stop, TypeInv, TypeOK
<1> QED
  BY <1>1 DEF Idle

\* What is loaded agrees with what readers are shown.
LEMMA LoadedSolo ==
    ASSUME TypeInv, NEW h \in Handlers, Firm(h), Whole(h), NEW p \in Proposals,
           handler[h].stage \notin {"row", "remove_row"}
    PROVE  /\ HasStatus(row[p], Decided) =>
                 /\ LoadedForCommand(p).status = row[p].status
                 /\ LoadedForJudge(p).status = row[p].status
           /\ faults = 0 =>
                 /\ LoadedForCommand(p) = row[p] /\ LoadedForJudge(p) = row[p]
                 /\ row[p] # NoProposal => row[p].files \subseteq stored[p]
BY DEF Firm, Whole, HasStatus, LoadedForCommand, LoadedForJudge, Either

\* A step that changes no store keeps the invariant if the copy it takes up is
\* what the stores have, or is about to be saved as what may follow from it.
LEMMA QuietSolo ==
    ASSUME TypeInv, NEW h \in Handlers, Firm(h), Cleared(h), Whole(h),
           UNCHANGED <<stores, faults>>, Placed(h)', Shaped(h),
           handler[h].stage \notin {"save", "row", "remove_row"},
           LET t == handler'[h]
               p == t.proposal IN
           /\ t.stage \notin {"row", "remove_row"}
           /\ t.stage # "idle" /\ HasStatus(row[p], Decided) => t.agg.status = row[p].status
           /\ t.stage \in {"screen", "classify"} => LoadedForCommand(p) = t.agg
           /\ t.stage = "classify" \/ t.auto => FullyGreen(t.agg) /\ ~Intervened(p)
           /\ t.auto => t.stage \notin {"audit", "release"}
           /\ faults = 0 /\ t.stage = "save" =>
                 t.op # "convert" /\ t.agg.files \subseteq stored[p] /\ Due(h)'
           /\ faults = 0 /\ t.stage \notin {"idle", "save"} => row[p] = t.agg
    PROVE  Firm(h)' /\ Cleared(h)' /\ Whole(h)'
<1> DEFINE s == handler[h]
           t == handler'[h]
<1>1. /\ yaml' = yaml /\ row' = row /\ stored' = stored /\ audit' = audit
      /\ versions' = versions /\ faults' = faults
  BY DEF stores
<1>2. Firm(h)'
  BY <1>1 DEF Firm, HasStatus
<1>3. Cleared(h)'
  BY <1>1 DEF Cleared, LoadedForCommand, Either, Intervened
<1>4. \A q \in Proposals : MadeFrom(q)' = MadeFrom(q)
  BY <1>1 DEF MadeFrom
<1>5. ~Making(h) /\ (faults = 0 => ~Making(h)')
  BY DEF Making
<1>6. ASSUME faults = 0
      PROVE  /\ \A q \in Proposals : row[q] = yaml[q]
             /\ \A q \in Proposals : yaml[q] # NoProposal => yaml[q].files \subseteq stored[q]
             /\ \A q \in Proposals : MadeFrom(q) = {} \/ HasStatus(row[q], {"converted"})
  BY <1>5, <1>6 DEF Whole
<1>7. Whole(h)'
  BY <1>1, <1>4, <1>5, <1>6 DEF Whole, HasStatus
<1> QED
  BY <1>2, <1>3, <1>7

\* The same when the handler stops, whatever it was doing if it was cut off.
LEMMA StopSolo ==
    ASSUME TypeInv, NEW h \in Handlers, Firm(h), Cleared(h), Whole(h), Stop(h),
           UNCHANGED <<yaml, row, stored, versions>>,
           \/ faults' # 0
           \/ faults' = faults /\ handler[h].stage \notin {"save", "row", "remove_row"}
    PROVE  Placed(h)' /\ Firm(h)' /\ Cleared(h)' /\ Whole(h)'
<1>1. handler'[h].stage = "idle" /\ handler'[h].op = "none" /\ handler'[h].auto = FALSE
  BY StopFields
<1>2. Placed(h)'
  BY <1>1 DEF Placed
<1>3. Firm(h)'
  BY <1>1 DEF Firm, HasStatus
<1>4. Cleared(h)'
  BY <1>1 DEF Cleared
<1>5. Whole(h)'
  <2> SUFFICES ASSUME faults' = 0 PROVE Whole(h)'
    BY DEF Whole
  <2>1. \A q \in Proposals : MadeFrom(q)' = MadeFrom(q)
    BY DEF MadeFrom
  <2>2. ~Making(h) /\ ~Making(h)'
    BY <1>1 DEF Making
  <2> QED
    BY <1>1, <2>1, <2>2 DEF Whole, HasStatus
<1> QED
  BY <1>2, <1>3, <1>4, <1>5

\* A command that arrives.
LEMMA CommandSolo ==
    ASSUME TypeInv, NEW h \in Handlers, Placed(h), Firm(h), Cleared(h), Whole(h),
           Command(h), UNCHANGED faults
    PROVE  Placed(h)' /\ Firm(h)' /\ Cleared(h)' /\ Whole(h)'
<1> DEFINE s == handler[h]
           t == handler'[h]
           Goal == Placed(h)' /\ Firm(h)' /\ Cleared(h)' /\ Whole(h)'
<1>0. PICK p \in Proposals :
        \/ BeginSubmit(h, p)
        \/ BeginUpdate(h, p)
        \/ \E path \in Paths : BeginAttach(h, p, path)
        \/ BeginFinalize(h, p)
        \/ BeginDelete(h, p)
        \/ BeginReject(h, p)
        \/ BeginEdit(h, p)
        \/ \E target \in Targets : BeginRejudge(h, p, target)
        \/ BeginConvert(h, p)
  BY DEF Command
<1>1. Shaped(h)
  BY CommandMoves DEF Moves
<1>2. s.stage = "idle" /\ UNCHANGED stores
  BY <1>0 DEF BeginSubmit, BeginUpdate, BeginAttach, BeginFinalize, BeginDelete, BeginReject,
              BeginEdit, BeginRejudge, BeginConvert, Begin
<1>3. /\ HasStatus(row[p], Decided) =>
            /\ LoadedForCommand(p).status = row[p].status
            /\ LoadedForJudge(p).status = row[p].status
      /\ faults = 0 =>
            /\ LoadedForCommand(p) = row[p] /\ LoadedForJudge(p) = row[p]
            /\ row[p] # NoProposal => row[p].files \subseteq stored[p]
  BY <1>2, LoadedSolo
<1>4. /\ LoadedForCommand(p) # NoProposal => LoadedForCommand(p) \in Aggregate
      /\ LoadedForJudge(p) # NoProposal => LoadedForJudge(p) \in Aggregate
  BY LoadedShapes
<1>5. row' = row /\ stored' = stored
  BY <1>2 DEF stores
\* A copy of what the stores have is taken up.
<1>6. ASSUME t.proposal = p, t.agg \in {LoadedForCommand(p), LoadedForJudge(p)},
             t.agg # NoProposal, ~t.auto, Placed(h)',
             t.stage \notin {"row", "remove_row", "screen", "classify"},
             t.op # "convert" \/ t.stage = "resolve"
      PROVE  Goal
  <2>1. t.stage = "save" /\ faults = 0 => Due(h)'
    BY <1>3, <1>5, <1>6 DEF Due, Succeeds
  <2>2. t.stage # "idle" /\ HasStatus(row[p], Decided) => t.agg.status = row[p].status
    BY <1>3, <1>6
  <2>3. faults = 0 => row[p] = t.agg /\ t.agg.files \subseteq stored[p]
    BY <1>3, <1>6
  <2> QED
    BY <1>1, <1>2, <1>6, <2>1, <2>2, <2>3, QuietSolo
<1>7. CASE BeginSubmit(h, p)
  <2>1. /\ LoadedForCommand(p) = NoProposal /\ OpenUploads = {}
        /\ Begin(h, "save", "submit", p, NewProposal)
    BY <1>7 DEF BeginSubmit
  <2>2. /\ t.stage = "save" /\ t.op = "submit" /\ t.proposal = p
        /\ t.agg = NewProposal /\ ~t.auto
    BY <2>1, BeginFields
  <2>3. Placed(h)'
    BY <2>2 DEF Placed
  <2>4. row[p] = NoProposal
    BY <2>1 DEF LoadedForCommand, Either
  <2>5. NewProposal.files = {} /\ NewProposal.status = "in_upload"
    BY DEF NewProposal
  <2>6. faults = 0 => Due(h)'
    <3>1. faults = 0 => \A q \in Proposals : ~HasStatus(row[q], {"in_upload"})
      BY <1>2, <2>1 DEF OpenUploads, Whole
    <3> QED
      BY <1>5, <2>2, <2>4, <2>5, <3>1 DEF Due, HasStatus
  <2> QED
    BY <1>1, <1>2, <2>2, <2>3, <2>4, <2>5, <2>6, QuietSolo DEF HasStatus
<1>8. CASE BeginUpdate(h, p) \/ BeginEdit(h, p)
  <2>1. PICK op \in {"update", "edit"} : Begin(h, "save", op, p, LoadedForCommand(p))
    BY <1>8 DEF BeginUpdate, BeginEdit
  <2>2. LoadedForCommand(p) # NoProposal
    BY <1>8 DEF BeginUpdate, BeginEdit, HasStatus
  <2>3. /\ t.stage = "save" /\ t.op = op /\ t.proposal = p
        /\ t.agg = LoadedForCommand(p) /\ ~t.auto
    BY <2>1, BeginFields
  <2>4. Placed(h)'
    BY <2>3 DEF Placed
  <2> QED
    BY <1>6, <2>2, <2>3, <2>4
<1>9. ASSUME NEW path \in Paths, BeginAttach(h, p, path) PROVE Goal
  <2> DEFINE agg == LoadedForCommand(p)
             u == [Idle EXCEPT !.stage = "store", !.op = "attach", !.proposal = p,
                               !.agg = agg, !.target = path]
  <2>1. handler' = [handler EXCEPT ![h] = u] /\ agg # NoProposal
    BY <1>9 DEF BeginAttach, HasStatus
  <2> HIDE DEF agg
  <2>2. u.stage = "store" /\ u.op = "attach" /\ u.proposal = p /\ u.agg = agg /\ u.auto = FALSE
    BY DEF Idle
  <2> HIDE DEF u
  <2>3. t = u
    BY <2>1 DEF TypeInv, TypeOK
  <2>4. Placed(h)'
    BY <2>2, <2>3 DEF Placed
  <2> QED
    BY <1>6, <2>1, <2>2, <2>3, <2>4 DEF agg
<1>10. CASE BeginFinalize(h, p)
  <2> DEFINE agg == LoadedForCommand(p)
  <2>1. /\ agg # NoProposal
        /\ \/ agg.status = "in_upload" /\ Begin(h, "validate", "finalize", p, agg)
           \/ Begin(h, "audit", "resume", p, agg)
    BY <1>10 DEF BeginFinalize, HasStatus
  <2> HIDE DEF agg
  <2>2. /\ t.proposal = p /\ t.agg = agg /\ ~t.auto
        /\ \/ t.stage = "validate" /\ t.op = "finalize" /\ agg.status = "in_upload"
           \/ t.stage = "audit" /\ t.op = "resume"
    BY <2>1, BeginFields
  <2>3. Placed(h)'
    BY <2>2 DEF Placed
  <2> QED
    BY <1>6, <2>1, <2>2, <2>3 DEF agg
<1>11. CASE BeginDelete(h, p)
  <2> DEFINE agg == LoadedForCommand(p)
  <2>1. agg # NoProposal /\ agg.status = "in_upload" /\ Begin(h, "remove", "delete", p, agg)
    BY <1>11 DEF BeginDelete, HasStatus
  <2> HIDE DEF agg
  <2>2. t.stage = "remove" /\ t.op = "delete" /\ t.proposal = p /\ t.agg = agg /\ ~t.auto
    BY <2>1, BeginFields
  <2>3. Placed(h)'
    BY <2>1, <2>2 DEF Placed
  <2> QED
    BY <1>6, <2>1, <2>2, <2>3 DEF agg
<1>12. CASE BeginReject(h, p)
  <2> DEFINE agg == LoadedForCommand(p)
             rejected == WithStatus(agg, "rejected")
  <2>1. /\ agg # NoProposal /\ agg.status \in Undecided
        /\ Begin(h, "save", "reject", p, rejected)
    BY <1>12 DEF BeginReject, HasStatus
  <2>2. agg \in Aggregate
    BY <1>4, <2>1
  <2>3. rejected.files = agg.files /\ rejected.status = "rejected"
    BY <2>2, CopyFields, AggregateShapes DEF Statuses
  <2> HIDE DEF rejected
  <2>4. /\ t.stage = "save" /\ t.op = "reject" /\ t.proposal = p
        /\ t.agg = rejected /\ ~t.auto
    BY <2>1, BeginFields
  <2>5. Placed(h)'
    BY <2>4 DEF Placed
  <2>6. ~HasStatus(row[p], Decided)
    BY <1>3, <2>1 DEF Undecided, Decided, HasStatus
  <2>7. faults = 0 => Due(h)' /\ t.agg.files \subseteq stored[p]
    BY <1>3, <1>5, <2>1, <2>3, <2>4 DEF Due, Succeeds
  <2> QED
    BY <1>1, <1>2, <2>4, <2>5, <2>6, <2>7, QuietSolo
<1>13. ASSUME NEW target \in Targets, BeginRejudge(h, p, target) PROVE Goal
  <2> DEFINE agg == LoadedForJudge(p)
             u == [Idle EXCEPT !.stage = "judging", !.op = "rejudge", !.proposal = p,
                               !.agg = agg, !.target = target]
  <2>1. handler' = [handler EXCEPT ![h] = u] /\ agg # NoProposal
    BY <1>13 DEF BeginRejudge
  <2> HIDE DEF agg
  <2>2. u.stage = "judging" /\ u.op = "rejudge" /\ u.proposal = p /\ u.agg = agg /\ u.auto = FALSE
    BY DEF Idle
  <2> HIDE DEF u
  <2>3. t = u
    BY <2>1 DEF TypeInv, TypeOK
  <2>4. Placed(h)'
    BY <2>2, <2>3 DEF Placed
  <2> QED
    BY <1>6, <2>1, <2>2, <2>3, <2>4 DEF agg
<1>14. CASE BeginConvert(h, p)
  <2> DEFINE agg == LoadedForCommand(p)
  <2>1. agg # NoProposal /\ agg.status \in Undecided /\ Begin(h, "resolve", "convert", p, agg)
    BY <1>14 DEF BeginConvert, HasStatus
  <2> HIDE DEF agg
  <2>2. t.stage = "resolve" /\ t.op = "convert" /\ t.proposal = p /\ t.agg = agg /\ ~t.auto
    BY <2>1, BeginFields
  <2>3. Placed(h)'
    BY <2>1, <2>2 DEF Placed
  <2> QED
    BY <1>6, <2>1, <2>2, <2>3 DEF agg
<1> QED
  BY <1>0, <1>7, <1>8, <1>9, <1>10, <1>11, <1>12, <1>13, <1>14

\* What waits for a model or reads the stores again.
LEMMA WaitingSolo ==
    ASSUME TypeInv, NEW h \in Handlers, Placed(h), Firm(h), Cleared(h), Whole(h),
           UNCHANGED faults,
           \/ Validate(h) \/ JudgeText(h) \/ JudgeFiles(h) \/ CollectJudgement(h)
           \/ Rejudged(h) \/ ResolveVersion(h) \/ Evaluate(h) \/ Screen(h) \/ Classify(h)
    PROVE  Placed(h)' /\ Firm(h)' /\ Cleared(h)' /\ Whole(h)'
<1> DEFINE s == handler[h]
           t == handler'[h]
           p == s.proposal
           Goal == Placed(h)' /\ Firm(h)' /\ Cleared(h)' /\ Whole(h)'
<1>0. /\ s \in HandlerState /\ WellPlaced(s) /\ Shaped(h)
      /\ s.results \in Judgements /\ s.target \in Targets
      /\ handler \in [Handlers -> HandlerState]
  BY WaitingMoves DEF TypeInv, TypeOK, HandlerState, Moves
<1>1. /\ s.stage \notin {"idle", "save", "row", "remove_row", "audit"}
      /\ s.proposal \in Proposals /\ s.agg \in Aggregate
      /\ UNCHANGED stores
  BY <1>0 DEF Validate, JudgeText, JudgeFiles, CollectJudgement, Rejudged, ResolveVersion,
              Evaluate, Screen, Classify, WellPlaced
<1>2. /\ HasStatus(row[p], Decided) => LoadedForCommand(p).status = row[p].status
      /\ HasStatus(row[p], Decided) => s.agg.status = row[p].status
      /\ faults = 0 => row[p] = s.agg /\ LoadedForCommand(p) = row[p]
                       /\ s.agg.files \subseteq stored[p]
  <2>1. faults = 0 => row[p] = s.agg /\ s.agg # NoProposal
    BY <1>1, NoProposalAssumption DEF Whole
  <2> QED
    BY <1>1, <2>1, LoadedSolo DEF Firm
<1>3. row' = row /\ stored' = stored
  BY <1>1 DEF stores
<1>4. ASSUME Stop(h) PROVE Goal
  BY <1>1, <1>4, StopSolo DEF stores
\* The copy is kept.
<1>5. ASSUME NEW stage, t.stage = stage, t.op = s.op, t.proposal = p, t.agg = s.agg, t.auto = s.auto,
             \/ stage \in {"judge_files", "collect", "evaluate"} /\ ~s.auto /\ s.op # "delete"
             \/ stage = "classify" /\ s.stage = "screen" /\ ~s.auto /\ s.op # "delete"
                /\ FullyGreen(s.agg) /\ ~Intervened(p)
             \/ stage = "create" /\ s.stage = "resolve"
      PROVE  Goal
  <2>1. Placed(h)'
    BY <1>5 DEF Placed
  <2>2. t.stage \in {"screen", "classify"} => LoadedForCommand(p) = t.agg
    BY <1>5 DEF Cleared
  <2>3. t.stage = "classify" \/ t.auto => FullyGreen(t.agg) /\ ~Intervened(p)
    BY <1>5 DEF Cleared
  <2> QED
    BY <1>0, <1>1, <1>2, <1>5, <2>1, <2>2, <2>3, QuietSolo
\* The copy is judged and about to be saved.
<1>6. ASSUME NEW target \in Targets, NEW v \in Verdicts, ~s.auto,
             t.stage = "save", t.op \in {"judge_text", "judge_files", "rejudge"}, t.proposal = p,
             t.agg = AddJudgement(s.agg, target, v), t.auto = s.auto
      PROVE  Goal
  <2>1. t.agg.files = s.agg.files
        /\ t.agg.status = IF s.agg.status \in Decided THEN s.agg.status ELSE "judged"
    BY <1>1, <1>6, CopyFields
  <2>2. Placed(h)'
    BY <1>6 DEF Placed
  <2>3. faults = 0 => Due(h)'
    <3>1. s.agg # NoProposal /\ s.agg.status \in Statuses
      BY <1>1, NoProposalAssumption DEF Aggregate
    <3> QED
      BY <1>2, <1>3, <1>6, <2>1, <3>1 DEF Due, Succeeds, Decided, Undecided, Statuses
  <2>4. HasStatus(row[p], Decided) => t.agg.status = row[p].status
    BY <1>2, <2>1 DEF HasStatus
  <2> QED
    BY <1>0, <1>1, <1>2, <1>6, <2>1, <2>2, <2>3, <2>4, QuietSolo
<1>7. CASE Validate(h)
  <2>1. CASE Stop(h)
    BY <1>4, <2>1
  <2>2. CASE ~Stop(h)
    <3> DEFINE agg == WithStatus(s.agg, "submitted")
    <3>1. agg.files = s.agg.files /\ agg.status = "submitted"
      BY <1>1, CopyFields, AggregateShapes DEF Statuses
    <3>2. handler' = [handler EXCEPT ![h].stage = "save", ![h].agg = agg]
      BY <1>7, <2>2 DEF Validate
    <3> HIDE DEF agg
    <3>3. t = Resumed(s, "save", s.op, agg, s.results)
      BY <1>0, <3>2 DEF HandlerState, Resumed
    <3>4. t.stage = "save" /\ t.op = s.op /\ t.proposal = p /\ t.agg = agg /\ t.auto = s.auto
      BY <1>0, <3>3, ResumedFields
    <3>5. s.op = "finalize" /\ s.agg.status = "in_upload" /\ ~s.auto
      BY <1>0, <1>7 DEF Validate, WellPlaced, Placed
    <3>6. Placed(h)'
      BY <3>4, <3>5 DEF Placed
    <3>7. ~HasStatus(row[p], Decided)
      BY <1>2, <3>5 DEF HasStatus, Decided
    <3>8. faults = 0 => Due(h)'
      BY <1>1, <1>2, <1>3, <3>1, <3>4, <3>5, NoProposalAssumption DEF Due, Succeeds
    <3> QED
      BY <1>0, <1>1, <1>2, <3>1, <3>4, <3>5, <3>6, <3>7, <3>8, QuietSolo
  <2> QED
    BY <2>1, <2>2
<1>8. CASE JudgeText(h)
  <2>0. ~s.auto /\ s.op # "delete"
    BY <1>8 DEF JudgeText, Placed
  <2>1. CASE Goto(h, "judge_files")
    BY <1>5, <2>0, <2>1, GotoFields
  <2>2. ASSUME NEW v \in Verdicts, handler' = [handler EXCEPT
                  ![h].stage = "save", ![h].op = "judge_text",
                  ![h].agg = AddJudgement(s.agg, Text, v)]
        PROVE  Goal
    <3> DEFINE agg == AddJudgement(s.agg, Text, v)
    <3>1. handler' = [handler EXCEPT ![h].stage = "save", ![h].op = "judge_text", ![h].agg = agg]
      BY <2>2
    <3> HIDE DEF agg
    <3>2. t = Resumed(s, "save", "judge_text", agg, s.results)
      BY <1>0, <3>1 DEF HandlerState, Resumed
    <3>3. /\ t.stage = "save" /\ t.op = "judge_text" /\ t.proposal = p
          /\ t.agg = agg /\ t.auto = s.auto
      BY <1>0, <3>2, ResumedFields
    <3> QED
      BY <1>6, <2>0, <3>3 DEF agg, Targets
  <2> QED
    BY <1>8, <2>1, <2>2 DEF JudgeText
<1>9. CASE JudgeFiles(h)
  <2>0. ~s.auto /\ s.op # "delete"
    BY <1>9 DEF JudgeFiles, Placed
  <2>1. CASE Goto(h, "evaluate")
    BY <1>5, <2>0, <2>1, GotoFields
  <2>2. ASSUME NEW results \in Judgements,
               handler' = [handler EXCEPT ![h].stage = "collect", ![h].results = results]
        PROVE  Goal
    <3>1. t = Resumed(s, "collect", s.op, s.agg, results)
      BY <1>0, <2>2 DEF HandlerState, Resumed
    <3>2. /\ t.stage = "collect" /\ t.op = s.op /\ t.proposal = p
          /\ t.agg = s.agg /\ t.auto = s.auto
      BY <1>0, <3>1, ResumedFields
    <3> QED
      BY <1>5, <2>0, <3>2
  <2> QED
    BY <1>9, <2>1, <2>2 DEF JudgeFiles
<1>10. CASE CollectJudgement(h)
  <2>0. ~s.auto /\ s.op # "delete"
    BY <1>10 DEF CollectJudgement, Placed
  <2>1. CASE Goto(h, "evaluate")
    BY <1>5, <2>0, <2>1, GotoFields
  <2>2. ASSUME NEW path \in Paths, s.results[path] # "none",
               handler' = [handler EXCEPT
                  ![h].stage = "save", ![h].op = "judge_files",
                  ![h].agg = AddJudgement(s.agg, path, s.results[path]),
                  ![h].results = [s.results EXCEPT ![path] = "none"]]
        PROVE  Goal
    <3> DEFINE agg == AddJudgement(s.agg, path, s.results[path])
               results == [s.results EXCEPT ![path] = "none"]
    <3>1. path \in Targets /\ s.results[path] \in Verdicts
      BY <1>0, <2>2 DEF Targets, Judgements
    <3>2. handler' = [handler EXCEPT ![h].stage = "save", ![h].op = "judge_files",
                                     ![h].agg = agg, ![h].results = results]
      BY <2>2
    <3> HIDE DEF agg, results
    <3>3. t = Resumed(s, "save", "judge_files", agg, results)
      BY <1>0, <3>2 DEF HandlerState, Resumed
    <3>4. /\ t.stage = "save" /\ t.op = "judge_files" /\ t.proposal = p
          /\ t.agg = agg /\ t.auto = s.auto
      BY <1>0, <3>3, ResumedFields
    <3> QED
      BY <1>6, <2>0, <3>1, <3>4 DEF agg
  <2> QED
    BY <1>10, <2>1, <2>2 DEF CollectJudgement
<1>11. CASE Rejudged(h)
  <2>0. ~s.auto /\ s.op = "rejudge"
    BY <1>11 DEF Rejudged, Placed
  <2>1. CASE Stop(h)
    BY <1>4, <2>1
  <2>2. ASSUME NEW v \in Verdicts, handler' = [handler EXCEPT
                  ![h].stage = "save", ![h].agg = AddJudgement(s.agg, s.target, v)]
        PROVE  Goal
    <3> DEFINE agg == AddJudgement(s.agg, s.target, v)
    <3>1. handler' = [handler EXCEPT ![h].stage = "save", ![h].agg = agg]
      BY <2>2
    <3> HIDE DEF agg
    <3>2. t = Resumed(s, "save", s.op, agg, s.results)
      BY <1>0, <3>1 DEF HandlerState, Resumed
    <3>3. t.stage = "save" /\ t.op = s.op /\ t.proposal = p /\ t.agg = agg /\ t.auto = s.auto
      BY <1>0, <3>2, ResumedFields
    <3> QED
      BY <1>0, <1>6, <2>0, <3>3 DEF agg
  <2> QED
    BY <1>11, <2>1, <2>2 DEF Rejudged
<1>12. CASE ResolveVersion(h)
  <2> DEFINE n == latest + 1
             u == [s EXCEPT !.stage = "create", !.number = n]
  <2>1. handler' = [handler EXCEPT ![h] = u] /\ s.stage = "resolve"
    BY <1>0, <1>12 DEF ResolveVersion
  <2> HIDE DEF n
  <2>2. /\ u.stage = "create" /\ u.proposal = s.proposal /\ u.agg = s.agg
        /\ u.op = s.op /\ u.auto = s.auto
    BY <1>0 DEF HandlerState
  <2> HIDE DEF u
  <2>3. t = u
    BY <1>0, <2>1
  <2> QED
    BY <1>5, <2>1, <2>2, <2>3
<1>13. CASE Evaluate(h)
  <2> DEFINE fresh == LoadedForCommand(p)
  <2>0. ~s.auto /\ s.op # "delete"
    BY <1>13 DEF Evaluate, Placed
  <2>1. CASE handler' = [handler EXCEPT ![h] = [s EXCEPT !.stage = "screen", !.agg = fresh]]
    <3> HIDE DEF fresh
    <3>1. t = Resumed(s, "screen", s.op, fresh, s.results)
      BY <1>0, <2>1 DEF HandlerState, Resumed
    <3>2. t.stage = "screen" /\ t.op = s.op /\ t.proposal = p /\ t.agg = fresh /\ t.auto = s.auto
      BY <1>0, <3>1, ResumedFields
    <3>3. Placed(h)'
      BY <2>0, <3>2 DEF Placed
    <3> QED
      BY <1>0, <1>1, <1>2, <2>0, <3>2, <3>3, QuietSolo DEF fresh
  <2>2. CASE Stop(h)
    BY <1>4, <2>2
  <2> QED
    BY <1>13, <2>1, <2>2 DEF Evaluate, Stop
<1>14. CASE Screen(h)
  <2>0. s.stage = "screen" /\ ~s.auto /\ s.op # "delete"
    BY <1>14 DEF Screen, Placed
  <2>1. CASE FullyGreen(s.agg) /\ ~Intervened(p) /\ Goto(h, "classify")
    BY <1>5, <2>0, <2>1, GotoFields
  <2>2. CASE Stop(h)
    BY <1>4, <2>2
  <2> QED
    BY <1>14, <2>1, <2>2 DEF Screen
<1>15. CASE Classify(h)
  <2> DEFINE fresh == LoadedForCommand(p)
             u == [s EXCEPT !.stage = "resolve", !.op = "convert", !.agg = fresh, !.auto = TRUE]
  <2>1. CASE Stop(h)
    BY <1>4, <2>1
  <2>2. CASE ~Stop(h)
    <3>1. fresh # NoProposal /\ fresh.status \in Undecided /\ s.stage = "classify"
      BY <1>15, <2>2 DEF Classify, HasStatus
    <3>2. handler' = [handler EXCEPT ![h] = u]
      BY <1>0, <1>15, <2>2 DEF Classify, HandlerState
    <3>3. fresh = s.agg /\ FullyGreen(s.agg) /\ ~Intervened(p)
      BY <3>1 DEF Cleared
    <3> HIDE DEF fresh
    <3>4. /\ u.stage = "resolve" /\ u.proposal = p /\ u.agg = fresh
          /\ u.op = "convert" /\ u.auto = TRUE
      BY <1>0 DEF HandlerState
    <3> HIDE DEF u
    <3>5. t = u
      BY <1>0, <3>2
    <3>6. Placed(h)'
      BY <3>1, <3>4, <3>5 DEF Placed
    <3> QED
      BY <1>0, <1>1, <1>2, <3>3, <3>4, <3>5, <3>6, QuietSolo
  <2> QED
    BY <2>1, <2>2
<1> QED
  BY <1>7, <1>8, <1>9, <1>10, <1>11, <1>12, <1>13, <1>14, <1>15

\* What writes a store.
LEMMA WritingSolo ==
    ASSUME TypeInv, NEW h \in Handlers, Placed(h), Firm(h), Cleared(h), Whole(h),
           UNCHANGED faults,
           \/ StoreFile(h) \/ RemoveDirectory(h) \/ RemoveRow(h) \/ CreateVersion(h)
           \/ Release(h) \/ WriteYaml(h) \/ UpsertRow(h) \/ AppendAudit(h)
    PROVE  Placed(h)' /\ Firm(h)' /\ Cleared(h)' /\ Whole(h)'
<1> DEFINE s == handler[h]
           t == handler'[h]
           p == s.proposal
           Goal == Placed(h)' /\ Firm(h)' /\ Cleared(h)' /\ Whole(h)'
<1>0. /\ s \in HandlerState /\ WellPlaced(s)
      /\ handler \in [Handlers -> HandlerState]
      /\ DOMAIN yaml = Proposals /\ DOMAIN row = Proposals /\ DOMAIN stored = Proposals
  BY DEF TypeInv, TypeOK
<1>1. s.stage # "idle" /\ p \in Proposals /\ s.agg \in Aggregate /\ s.agg # NoProposal
  BY <1>0, NoProposalAssumption
     DEF StoreFile, RemoveDirectory, RemoveRow, CreateVersion, Release, WriteYaml,
         UpsertRow, AppendAudit, WellPlaced
<1>2. faults' = faults
  OBVIOUS
<1>3. CASE StoreFile(h)
  <2> DEFINE path == s.target
             agg == WithFile(s.agg, path)
  <2>1. s.stage = "store" /\ path \in Paths /\ s.op = "attach" /\ ~s.auto
    BY <1>0, <1>3 DEF StoreFile, WellPlaced, Placed
  <2>2. agg.status = s.agg.status /\ agg.files = s.agg.files \cup {path}
    BY <1>1, <2>1, AggregateShapes, CopyFields
  <2>3. handler' = [handler EXCEPT ![h].stage = "save", ![h].agg = agg]
    BY <1>3 DEF StoreFile
  <2>4. /\ UNCHANGED <<yaml, row, versions, audit>>
        /\ stored' = [stored EXCEPT ![p] = stored[p] \cup {path}]
    BY <1>3 DEF StoreFile
  <2> HIDE DEF agg
  <2>5. t = Resumed(s, "save", s.op, agg, s.results)
    BY <1>0, <2>3 DEF HandlerState, Resumed
  <2>6. t.stage = "save" /\ t.op = s.op /\ t.proposal = p /\ t.agg = agg /\ t.auto = s.auto
    BY <1>0, <2>5, ResumedFields
  <2>7. \A q \in Proposals : stored'[q] = IF q = p THEN stored[p] \cup {path} ELSE stored[q]
    BY <1>0, <1>1, <2>4
  <2>8. Placed(h)'
    BY <2>1, <2>6 DEF Placed
  <2>9. Firm(h)' /\ Cleared(h)'
    BY <1>1, <2>1, <2>2, <2>4, <2>6 DEF Firm, Cleared, HasStatus
  <2>10. ASSUME faults = 0
         PROVE  /\ \A q \in Proposals : row[q] = yaml[q]
                /\ \A q \in Proposals : yaml[q] # NoProposal => yaml[q].files \subseteq stored[q]
                /\ row[p] = s.agg
                /\ \A q \in Proposals : MadeFrom(q) = {} \/ HasStatus(row[q], {"converted"})
    BY <1>1, <2>1, <2>10 DEF Whole, Making
  <2>11. \A q \in Proposals : MadeFrom(q)' = MadeFrom(q)
    BY <2>4 DEF MadeFrom
  <2>12. faults = 0 => Due(h)' /\ t.agg.files \subseteq stored'[p]
    BY <1>1, <2>1, <2>2, <2>4, <2>6, <2>7, <2>10 DEF Due, Succeeds
  <2>13. ~Making(h)'
    BY <2>1, <2>6 DEF Making
  <2>14. Whole(h)'
    BY <1>2, <2>4, <2>6, <2>7, <2>10, <2>11, <2>12, <2>13 DEF Whole, HasStatus
  <2> QED
    BY <2>8, <2>9, <2>14
<1>4. CASE RemoveDirectory(h)
  <2>1. /\ Goto(h, "remove_row") /\ s.stage = "remove"
        /\ s.op = "delete" /\ s.agg.status = "in_upload" /\ ~s.auto
    BY <1>4 DEF RemoveDirectory, Placed
  <2>2. /\ UNCHANGED <<row, versions, audit>>
        /\ \A q \in Proposals : yaml'[q] = IF q = p THEN NoProposal ELSE yaml[q]
        /\ \A q \in Proposals : stored'[q] = IF q = p THEN {} ELSE stored[q]
    BY <1>0, <1>1, <1>4 DEF RemoveDirectory
  <2>3. /\ t.stage = "remove_row" /\ t.op = s.op /\ t.proposal = p
        /\ t.agg = s.agg /\ t.auto = s.auto
    BY <2>1, GotoFields
  <2>4. Placed(h)' /\ Cleared(h)'
    BY <2>1, <2>3 DEF Placed, Cleared
  <2>5. ~HasStatus(row[p], Decided)
    BY <1>1, <2>1 DEF Firm, HasStatus, Decided
  <2>6. Firm(h)'
    BY <1>1, <2>2, <2>3, <2>5 DEF Firm, HasStatus
  <2>7. \A q \in Proposals : MadeFrom(q)' = MadeFrom(q)
    BY <2>2 DEF MadeFrom
  <2>8. Whole(h)'
    BY <1>1, <1>2, <2>1, <2>2, <2>3, <2>7 DEF Whole, HasStatus, Making
  <2> QED
    BY <2>4, <2>6, <2>8
<1>5. CASE RemoveRow(h)
  <2>1. /\ Goto(h, "audit") /\ s.stage = "remove_row"
        /\ s.op = "delete" /\ s.agg.status = "in_upload" /\ ~s.auto
    BY <1>5 DEF RemoveRow, Placed
  <2>2. /\ UNCHANGED <<yaml, stored, versions, audit>>
        /\ \A q \in Proposals : row'[q] = IF q = p THEN NoProposal ELSE row[q]
    BY <1>0, <1>1, <1>5 DEF RemoveRow
  <2>3. /\ t.stage = "audit" /\ t.op = s.op /\ t.proposal = p
        /\ t.agg = s.agg /\ t.auto = s.auto
    BY <2>1, GotoFields
  <2>4. Placed(h)' /\ Cleared(h)'
    BY <2>1, <2>3 DEF Placed, Cleared
  <2>5. Firm(h)'
    BY <1>1, <2>1, <2>2, <2>3 DEF Firm, HasStatus
  <2>6. \A q \in Proposals : MadeFrom(q)' = MadeFrom(q)
    BY <2>2 DEF MadeFrom
  <2>7. yaml[p] = NoProposal
    BY <2>1 DEF Firm
  <2>8. faults = 0 => MadeFrom(p) = {}
    BY <1>1, <2>1 DEF Whole, HasStatus, Making
  <2>9. Whole(h)'
    BY <1>1, <1>2, <2>1, <2>2, <2>3, <2>6, <2>7, <2>8 DEF Whole, HasStatus, Making
  <2> QED
    BY <2>4, <2>5, <2>9
<1>6. CASE CreateVersion(h)
  <2>1. /\ s.stage = "create" /\ UNCHANGED <<yaml, stored, row, released, audit>>
        /\ s.agg.status \in Undecided /\ s.op = "convert"
    BY <1>0, <1>6 DEF CreateVersion, Placed, WellPlaced
  <2>2. CASE Stop(h) /\ UNCHANGED <<latest, versions>>
    BY <2>1, <2>2, StopSolo
  <2>3. CASE /\ versions' = versions \cup {<<s.number, p>>}
             /\ handler' = [handler EXCEPT ![h].stage = "save",
                                           ![h].agg = WithStatus(s.agg, "converted")]
    <3> DEFINE agg == WithStatus(s.agg, "converted")
    <3>1. /\ agg.status = "converted" /\ agg.files = s.agg.files
          /\ FullyGreen(s.agg) => FullyGreen(agg)
      BY <1>1, AggregateShapes, CopyFields DEF Statuses
    <3>2. handler' = [handler EXCEPT ![h].stage = "save", ![h].agg = agg]
      BY <2>3
    <3> HIDE DEF agg
    <3>3. t = Resumed(s, "save", s.op, agg, s.results)
      BY <1>0, <3>2 DEF HandlerState, Resumed
    <3>4. /\ t.stage = "save" /\ t.op = s.op /\ t.proposal = p
          /\ t.agg = agg /\ t.auto = s.auto /\ t.number = s.number
      BY <1>0, <3>3, ResumedFields
    <3>5. Placed(h)'
      BY <2>1, <3>4 DEF Placed
    <3>6. ~HasStatus(row[p], Decided)
      BY <1>1, <2>1 DEF Firm, HasStatus, Decided, Undecided
    <3>7. Firm(h)'
      BY <2>1, <3>4, <3>6 DEF Firm, HasStatus
    <3>8. Cleared(h)'
      BY <2>1, <3>1, <3>4 DEF Cleared, Intervened
    <3>9. ASSUME faults = 0
          PROVE  /\ \A q \in Proposals : row[q] = yaml[q]
                 /\ \A q \in Proposals : yaml[q] # NoProposal => yaml[q].files \subseteq stored[q]
                 /\ row[p] = s.agg
                 /\ \A q \in Proposals : MadeFrom(q) = {} \/ HasStatus(row[q], {"converted"})
      BY <1>1, <2>1, <3>9 DEF Whole, Making
    <3>10. \A q \in Proposals : q # p => MadeFrom(q)' = MadeFrom(q)
      BY <2>3 DEF MadeFrom
    <3>11. faults = 0 => MadeFrom(p)' = {<<s.number, p>>}
      <4>1. faults = 0 => MadeFrom(p) = {}
        BY <1>1, <2>1, <3>9 DEF HasStatus, Undecided
      <4> DEFINE e == <<s.number, p>>
      <4>2. e[2] = p /\ versions' = versions \cup {e}
        BY <2>3
      <4> HIDE DEF e
      <4>3. ASSUME faults = 0, NEW d \in versions' PROVE d[2] = p <=> d = e
        BY <4>1, <4>2, <4>3 DEF MadeFrom
      <4>4. e \in versions'
        BY <4>2
      <4>5. faults = 0 => MadeFrom(p)' = {e}
        BY <3>4, <4>3, <4>4 DEF MadeFrom
      <4> QED
        BY <4>5 DEF e
    <3>12. faults = 0 => Due(h)' /\ t.agg.files \subseteq stored'[p]
      BY <1>1, <2>1, <3>1, <3>4, <3>9 DEF Due, Succeeds
    <3>13. Making(h)'
      BY <2>1, <3>4 DEF Making
    <3>14. Whole(h)'
      BY <1>2, <2>1, <3>4, <3>9, <3>10, <3>11, <3>12, <3>13 DEF Whole, HasStatus
    <3> QED
      BY <3>5, <3>7, <3>8, <3>14
  <2> QED
    BY <1>6, <2>2, <2>3 DEF CreateVersion
<1>7. CASE Release(h)
  <2>1. s.stage = "release" /\ Stop(h) /\ UNCHANGED <<yaml, row, stored, versions>>
    BY <1>7 DEF Release
  <2> QED
    BY <1>2, <2>1, StopSolo
<1>8. CASE WriteYaml(h)
  <2>1. Goto(h, "row") /\ s.stage = "save" /\ s.op # "delete" /\ s.op = s.op
    BY <1>8 DEF WriteYaml, Placed
  <2>2. /\ UNCHANGED <<row, stored, versions, audit>>
        /\ \A q \in Proposals : yaml'[q] = IF q = p THEN s.agg ELSE yaml[q]
    BY <1>0, <1>1, <1>8 DEF WriteYaml
  <2>3. /\ t.stage = "row" /\ t.op = s.op /\ t.proposal = p
        /\ t.agg = s.agg /\ t.auto = s.auto /\ t.number = s.number
    BY <2>1, GotoFields
  <2>4. Placed(h)'
    BY <2>1, <2>3 DEF Placed
  <2>5. Firm(h)'
    BY <1>1, <2>1, <2>2, <2>3 DEF Firm, HasStatus
  <2>6. Cleared(h)'
    BY <1>1, <2>2, <2>3 DEF Cleared, Intervened
  <2>7. \A q \in Proposals : MadeFrom(q)' = MadeFrom(q)
    BY <2>2 DEF MadeFrom
  <2>8. Making(h)' = Making(h) /\ (Due(h) => Due(h)')
    BY <2>1, <2>2, <2>3 DEF Making, Due, HasStatus
  <2>9. Whole(h)'
    BY <1>1, <1>2, <2>1, <2>2, <2>3, <2>7, <2>8 DEF Whole, HasStatus
  <2> QED
    BY <2>4, <2>5, <2>6, <2>9
<1>9. CASE UpsertRow(h)
  <2>1. PICK stage \in {"judge_files", "collect", "audit"} :
           Goto(h, stage) /\ (s.op = "convert" => stage = "audit")
    BY <1>9 DEF UpsertRow
  <2>2. s.stage = "row" /\ s.op # "delete" /\ yaml[p] = s.agg
    BY <1>9 DEF UpsertRow, Placed, Firm
  <2>3. /\ UNCHANGED <<yaml, stored, versions, audit>>
        /\ \A q \in Proposals : row'[q] = IF q = p THEN s.agg ELSE row[q]
    BY <1>0, <1>1, <1>9 DEF UpsertRow
  <2>4. /\ t.stage = stage /\ t.op = s.op /\ t.proposal = p
        /\ t.agg = s.agg /\ t.auto = s.auto /\ t.number = s.number
    BY <2>1, GotoFields
  <2>5. Placed(h)'
    BY <2>1, <2>2, <2>4 DEF Placed
  <2>6. Firm(h)'
    BY <1>1, <2>1, <2>2, <2>3, <2>4 DEF Firm, HasStatus
  <2>7. Cleared(h)'
    BY <1>1, <2>1, <2>2, <2>3, <2>4 DEF Cleared, Intervened, Placed
  <2>8. \A q \in Proposals : MadeFrom(q)' = MadeFrom(q)
    BY <2>3 DEF MadeFrom
  <2>9. faults = 0 => MadeFrom(p) = {} \/ s.agg.status = "converted"
    <3>1. ASSUME faults = 0, MadeFrom(p) # {} PROVE s.agg.status = "converted"
      <4>1. Due(h) /\ (HasStatus(row[p], {"converted"}) \/ Making(h))
        BY <1>1, <2>2, <3>1 DEF Whole
      <4>2. CASE Making(h)
        BY <4>1, <4>2 DEF Making, Due, Succeeds
      <4>3. CASE HasStatus(row[p], {"converted"})
        BY <4>1, <4>3 DEF HasStatus, Due, Succeeds, Undecided
      <4> QED
        BY <4>1, <4>2, <4>3
    <3> QED
      BY <3>1
  <2>10. ~Making(h)'
    BY <2>1, <2>4 DEF Making
  <2>11. Whole(h)'
    <3> SUFFICES ASSUME faults = 0 PROVE Whole(h)'
      BY <1>2 DEF Whole
    <3>1. \A q \in Proposals : row'[q] = yaml'[q]
      BY <2>2, <2>3 DEF Whole
    <3>2. \A q \in Proposals : yaml'[q] # NoProposal => yaml'[q].files \subseteq stored'[q]
      BY <2>3 DEF Whole
    <3>3. \A q \in Proposals : MadeFrom(q)' = {} \/ HasStatus(row'[q], {"converted"})
      BY <1>1, <2>3, <2>8, <2>9 DEF Whole, HasStatus
    <3> QED
      BY <1>1, <2>1, <2>2, <2>3, <2>4, <2>10, <3>1, <3>2, <3>3 DEF Whole
  <2> QED
    BY <2>5, <2>6, <2>7, <2>11
<1>10. CASE AppendAudit(h)
  <2>1. s.stage = "audit" /\ UNCHANGED <<yaml, row, stored, versions>>
        /\ audit' = audit \cup ({<<p, s.op>>} \cap (Proposals \X Recorded))
    BY <1>10 DEF AppendAudit
  <2>2. CASE Stop(h)
    BY <1>2, <2>1, <2>2, StopSolo
  <2>3. ASSUME NEW stage, Goto(h, stage),
               \/ stage = "judge_text" /\ s.op \in {"finalize", "resume"}
               \/ stage = "release" /\ s.op = "convert" /\ s.auto
        PROVE  Goal
    <3>1. /\ t.stage = stage /\ t.op = s.op /\ t.proposal = p
          /\ t.agg = s.agg /\ t.auto = s.auto /\ t.number = s.number
      BY <2>3, GotoFields
    <3>2. Placed(h)'
      BY <2>3, <3>1 DEF Placed
    <3>3. Firm(h)'
      BY <1>1, <2>1, <2>3, <3>1 DEF Firm, HasStatus
    <3>4. s.op = "convert" /\ ~Intervened(p) => ~Intervened(p)'
      <4>1. ASSUME s.op = "convert", NEW op \in {"edit", "reject"}, <<p, op>> \in audit'
            PROVE  <<p, op>> \in audit
        <5>1. <<p, op>> # <<p, s.op>>
          BY <4>1
        <5> QED
          BY <2>1, <4>1, <5>1
      <4> QED
        BY <3>1, <4>1 DEF Intervened
    <3>5. Cleared(h)'
      BY <1>1, <2>1, <2>3, <3>1, <3>4 DEF Cleared, Placed
    <3>6. \A q \in Proposals : MadeFrom(q)' = MadeFrom(q)
      BY <2>1 DEF MadeFrom
    <3>7. ~Making(h) /\ ~Making(h)'
      BY <2>1, <2>3, <3>1 DEF Making
    <3>8. Whole(h)'
      BY <1>1, <1>2, <2>1, <2>3, <3>1, <3>6, <3>7 DEF Whole, HasStatus
    <3> QED
      BY <3>2, <3>3, <3>5, <3>8
  <2> QED
    BY <1>10, <2>2, <2>3 DEF AppendAudit
<1> QED
  BY <1>3, <1>4, <1>5, <1>6, <1>7, <1>8, <1>9, <1>10

\* What cuts a handler off, or lets it go on with a copy that was not saved.
LEMMA FaultSolo ==
    ASSUME TypeInv, NEW h \in Handlers, Placed(h), Firm(h), Cleared(h), Whole(h),
           Abort(h) \/ SwallowFailedSave(h)
    PROVE  Placed(h)' /\ Firm(h)' /\ Cleared(h)' /\ Whole(h)'
<1>1. faults' # 0 /\ UNCHANGED stores
  BY ProposalsAssumption DEF Abort, SwallowFailedSave, Fault, TypeInv, TypeOK
<1>2. CASE Abort(h)
  BY <1>1, <1>2, StopSolo DEF Abort, stores
<1>3. CASE SwallowFailedSave(h)
  <2> DEFINE s == handler[h]
             t == handler'[h]
  <2>1. /\ Goto(h, "judge_files") /\ s.stage \in {"save", "row"} /\ s.op = "judge_text"
    BY <1>3 DEF SwallowFailedSave
  <2>2. /\ t.stage = "judge_files" /\ t.op = s.op /\ t.proposal = s.proposal
        /\ t.agg = s.agg /\ t.auto = s.auto
    BY <2>1, GotoFields
  <2>3. Placed(h)'
    BY <2>1, <2>2 DEF Placed
  <2>4. Firm(h)'
    BY <1>1, <2>1, <2>2 DEF Firm, HasStatus, stores
  <2>5. Cleared(h)'
    BY <2>1, <2>2 DEF Cleared, Placed
  <2> QED
    BY <1>1, <2>3, <2>4, <2>5 DEF Whole
<1> QED
  BY <1>2, <1>3

\* Commands do not overlap.
OneHandler == \E h \in Handlers : \A g \in Handlers : g = h

LEMMA SoloStep == OneHandler /\ TypeInv /\ SoloInv /\ [Next]_vars => SoloInv'
<1> SUFFICES ASSUME OneHandler, TypeInv, SoloInv, [Next]_vars PROVE SoloInv'
  OBVIOUS
<1>1. ASSUME NEW h \in Handlers, Placed(h)' /\ Firm(h)' /\ Cleared(h)' /\ Whole(h)'
      PROVE  SoloInv'
  BY <1>1 DEF OneHandler, SoloInv
<1>2. ASSUME NEW h \in Handlers,
             \/ (Command(h) \/ Continue(h)) /\ UNCHANGED faults
             \/ Abort(h) \/ SwallowFailedSave(h)
      PROVE  SoloInv'
  <2>1. Placed(h) /\ Firm(h) /\ Cleared(h) /\ Whole(h)
    BY DEF SoloInv
  <2>2. CASE Command(h) /\ UNCHANGED faults
    BY <1>1, <2>1, <2>2, CommandSolo
  <2>3. CASE Continue(h) /\ UNCHANGED faults
    BY <1>1, <2>1, <2>3, WaitingSolo, WritingSolo DEF Continue
  <2>4. CASE Abort(h) \/ SwallowFailedSave(h)
    BY <1>1, <2>1, <2>4, FaultSolo
  <2> QED
    BY <1>2, <2>2, <2>3, <2>4
<1>3. CASE UNCHANGED vars
  BY <1>3 DEF vars, SoloInv, Placed, Firm, Cleared, Whole, Due, Making, MadeFrom, HasStatus,
              LoadedForCommand, Either, Intervened
<1> QED
  BY <1>2, <1>3 DEF Next

LEMMA SoloInit == Init => SoloInv
BY DEF Init, Idle, SoloInv, Placed, Firm, Cleared, Whole, Due, Making, MadeFrom, HasStatus

LEMMA SoloInvariant == ASSUME OneHandler PROVE Spec => [](TypeInv /\ SoloInv)
<1> QED
  BY TypeInvInit, TypeInvStep, SoloInit, SoloStep, PTL DEF Spec

\* The only steps that change the catalog, and the only one that releases.
LEMMA RowWriters ==
    ASSUME Next, row' # row
    PROVE  \E h \in Handlers : UpsertRow(h) \/ RemoveRow(h)
<1>1. ASSUME NEW h \in Handlers, Command(h) PROVE row' = row
  BY <1>1 DEF Command, BeginSubmit, BeginUpdate, BeginAttach, BeginFinalize, BeginDelete,
              BeginReject, BeginEdit, BeginRejudge, BeginConvert, Begin, stores
<1>2. ASSUME NEW h \in Handlers, Continue(h), ~UpsertRow(h), ~RemoveRow(h) PROVE row' = row
  BY <1>2 DEF Continue, StoreFile, Validate, JudgeText, JudgeFiles, CollectJudgement,
              RemoveDirectory, Rejudged, ResolveVersion, CreateVersion, Evaluate, Screen,
              Classify, Release, WriteYaml, AppendAudit, stores
<1>3. ASSUME NEW h \in Handlers, Abort(h) \/ SwallowFailedSave(h) PROVE row' = row
  BY <1>3 DEF Abort, SwallowFailedSave, stores
<1> QED
  BY <1>1, <1>2, <1>3 DEF Next

LEMMA Releasers ==
    ASSUME Next, released' # released
    PROVE  \E h \in Handlers : Release(h)
<1>1. ASSUME NEW h \in Handlers, Command(h) PROVE released' = released
  BY <1>1 DEF Command, BeginSubmit, BeginUpdate, BeginAttach, BeginFinalize, BeginDelete,
              BeginReject, BeginEdit, BeginRejudge, BeginConvert, Begin, stores
<1>2. ASSUME NEW h \in Handlers, Continue(h), ~Release(h) PROVE released' = released
  BY <1>2 DEF Continue, StoreFile, Validate, JudgeText, JudgeFiles, CollectJudgement,
              RemoveDirectory, RemoveRow, Rejudged, ResolveVersion, CreateVersion, Evaluate,
              Screen, Classify, WriteYaml, UpsertRow, AppendAudit, stores
<1>3. ASSUME NEW h \in Handlers, Abort(h) \/ SwallowFailedSave(h) PROVE released' = released
  BY <1>3 DEF Abort, SwallowFailedSave, stores
<1> QED
  BY <1>1, <1>2, <1>3 DEF Next

\* When one command follows the other, an interruption apart, the catalog repeats
\* proposal.yaml between commands and every listed file is stored.
THEOREM Quiescent == ASSUME OneHandler PROVE Spec => []QuiescentAgreement
<1>1. TypeInv /\ SoloInv => QuiescentAgreement
  <2> SUFFICES ASSUME TypeInv, SoloInv, AllIdle, faults = 0
               PROVE  /\ row = yaml
                      /\ \A p \in Proposals :
                            yaml[p] # NoProposal => yaml[p].files \subseteq stored[p]
    BY DEF QuiescentAgreement
  <2>1. PICK h \in Handlers : handler[h].stage = "idle" /\ Whole(h)
    BY DEF OneHandler, AllIdle, SoloInv
  <2>2. \A p \in Proposals : row[p] = yaml[p]
    BY <2>1 DEF Whole
  <2>3. \A p \in Proposals : yaml[p] # NoProposal => yaml[p].files \subseteq stored[p]
    BY <2>1 DEF Whole
  <2> QED
    BY <2>2, <2>3 DEF TypeInv, TypeOK
<1> QED
  BY <1>1, SoloInvariant, PTL

\* When one command follows the other, automation releases only what is judged
\* green throughout and no reviewer has touched, interrupted or not.
THEOREM ReleasesJustified == ASSUME OneHandler PROVE Spec => ReleaseJustified
<1>1. ASSUME TypeInv, SoloInv, [Next]_vars
      PROVE  [\A e \in released' \ released :
                 /\ \A t \in yaml[e[2]].files \cup {Text} : yaml[e[2]].verdict[t] = "green"
                 /\ {<<e[2], "edit">>, <<e[2], "reject">>} \cap audit = {}]_vars
  <2> SUFFICES ASSUME Next, NEW e \in released' \ released
               PROVE  /\ \A t \in yaml[e[2]].files \cup {Text} : yaml[e[2]].verdict[t] = "green"
                      /\ {<<e[2], "edit">>, <<e[2], "reject">>} \cap audit = {}
    BY <1>1
  <2>1. PICK h \in Handlers : Release(h)
    BY Releasers
  <2>2. handler[h].stage = "release" /\ Placed(h) /\ Cleared(h)
    BY <1>1, <2>1 DEF Release, SoloInv
  <2>3. e[2] = handler[h].proposal
    BY <2>1 DEF Release
  <2>4. /\ FullyGreen(handler[h].agg) /\ ~Intervened(handler[h].proposal)
        /\ yaml[handler[h].proposal] = handler[h].agg
    BY <2>2 DEF Placed, Cleared
  <2>5. \A t \in yaml[e[2]].files \cup {Text} : yaml[e[2]].verdict[t] = "green"
    BY <2>3, <2>4 DEF FullyGreen
  <2>6. {<<e[2], "edit">>, <<e[2], "reject">>} \cap audit = {}
    BY <2>3, <2>4 DEF Intervened
  <2> QED
    BY <2>5, <2>6
<1>2. TypeInv /\ SoloInv /\ [Next]_vars =>
         [\A e \in released' \ released :
             /\ \A t \in yaml[e[2]].files \cup {Text} : yaml[e[2]].verdict[t] = "green"
             /\ {<<e[2], "edit">>, <<e[2], "reject">>} \cap audit = {}]_vars
  BY <1>1
<1> QED
  BY <1>2, SoloInvariant, PTL DEF ReleaseJustified, Spec

\* When one command follows the other, a decision that readers were shown stays,
\* also across interruptions.
THEOREM DecisionsFinal == ASSUME OneHandler PROVE Spec => DecisionIsFinal
<1> DEFINE Final == \A p \in Proposals :
        VisibleStatus(p) \in {"rejected", "converted"} => VisibleStatus(p)' = VisibleStatus(p)
<1>1. ASSUME TypeInv, SoloInv, [Next]_vars PROVE [Final]_row
  <2> SUFFICES ASSUME Next, row' # row, NEW p \in Proposals,
                      VisibleStatus(p) \in {"rejected", "converted"}
               PROVE  VisibleStatus(p)' = VisibleStatus(p)
    BY <1>1 DEF vars
  <2>1. PICK h \in Handlers : UpsertRow(h) \/ RemoveRow(h)
    BY RowWriters
  <2>2. Placed(h) /\ Firm(h) /\ DOMAIN row = Proposals /\ handler[h].agg # NoProposal
    <3>1. WellPlaced(handler[h]) /\ handler[h].stage # "idle"
      BY <1>1, <2>1 DEF UpsertRow, RemoveRow, TypeInv
    <3> QED
      BY <1>1, <3>1, NoProposalAssumption DEF SoloInv, TypeInv, TypeOK, WellPlaced
  <2>3. CASE UpsertRow(h)
    <3>1. /\ yaml' = yaml /\ handler[h].stage = "row"
          /\ row'[p] = IF p = handler[h].proposal THEN handler[h].agg ELSE row[p]
      BY <2>2, <2>3 DEF UpsertRow
    <3>2. CASE p = handler[h].proposal
      <4>1. yaml[p] = handler[h].agg
        BY <2>2, <3>1, <3>2 DEF Firm
      <4>2. row[p] = NoProposal \/ row[p].status = handler[h].agg.status
        BY <2>2, <3>1, <3>2 DEF Firm, HasStatus, VisibleStatus, LoadedForJudge, Either, Decided
      <4> QED
        BY <2>2, <3>1, <3>2, <4>1, <4>2 DEF VisibleStatus, LoadedForJudge, Either
    <3> QED
      BY <3>1, <3>2 DEF VisibleStatus, LoadedForJudge, Either
  <2>4. CASE RemoveRow(h)
    <3>1. /\ yaml' = yaml /\ handler[h].stage = "remove_row"
          /\ row'[p] = IF p = handler[h].proposal THEN NoProposal ELSE row[p]
      BY <2>2, <2>4 DEF RemoveRow
    <3>2. p # handler[h].proposal
      BY <2>2, <3>1, NoProposalAssumption
         DEF Firm, HasStatus, VisibleStatus, LoadedForJudge, Either, Statuses, Decided
    <3> QED
      BY <3>1, <3>2 DEF VisibleStatus, LoadedForJudge, Either
  <2> QED
    BY <2>1, <2>3, <2>4
<1>2. TypeInv /\ SoloInv /\ [Next]_vars => [Final]_row
  BY <1>1
<1> QED
  BY <1>2, SoloInvariant, PTL DEF DecisionIsFinal, Spec

-----------------------------------------------------------------------------
(* The refinement of ProposalLifecycle *)

Shown == [p \in Proposals |-> VisibleStatus(p)]
Made == [p \in Proposals |-> Cardinality(MadeFrom(p))]
LifecycleStep == Lifecycle!Next \/ UNCHANGED <<Shown, Made>>

\* A step of the abstract specification, from what it does to one proposal.
LEMMA ShownBecomes ==
    ASSUME NEW p \in Proposals, NEW x, VisibleStatus(p)' = x,
           \A q \in Proposals : q # p => VisibleStatus(q)' = VisibleStatus(q)
    PROVE  Shown' = [Shown EXCEPT ![p] = x]
BY DEF Shown

LEMMA MadeKept == ASSUME UNCHANGED versions PROVE Made' = Made
BY DEF Made, MadeFrom

LEMMA ShownKept ==
    ASSUME \A q \in Proposals : VisibleStatus(q)' = VisibleStatus(q)
    PROVE  Shown' = Shown
BY DEF Shown

LEMMA LifecycleInitial == Init => Lifecycle!Init
<1> SUFFICES ASSUME Init PROVE Lifecycle!Init
  OBVIOUS
<1>1. \A p \in Proposals : VisibleStatus(p) = NoProposal
  BY DEF Init, VisibleStatus, LoadedForJudge, Either
<1>2. \A p \in Proposals : Cardinality(MadeFrom(p)) = 0
  <2>1. \A p \in Proposals : MadeFrom(p) = {}
    BY DEF Init, MadeFrom
  <2> QED
    BY <2>1, FS_EmptySet
<1> QED
  BY <1>1, <1>2 DEF Lifecycle!Init

\* What h does to the stores, while nothing was ever cut off, is a step of the
\* abstract specification or none.
LEMMA WritingRefines ==
    ASSUME TypeInv, NEW h \in Handlers, Placed(h), Firm(h), Whole(h), faults = 0,
           \/ RemoveDirectory(h) \/ RemoveRow(h) \/ CreateVersion(h)
           \/ WriteYaml(h) \/ UpsertRow(h)
    PROVE  LifecycleStep
<1> DEFINE s == handler[h]
<1>0. /\ DOMAIN yaml = Proposals /\ DOMAIN row = Proposals /\ WellPlaced(s)
      /\ yaml \in [Proposals -> Copies] /\ row \in [Proposals -> Copies]
  BY DEF TypeInv, TypeOK
<1>1. PICK p \in Proposals : p = s.proposal /\ s.agg \in Aggregate /\ s.agg # NoProposal
  BY <1>0, NoProposalAssumption
     DEF RemoveDirectory, RemoveRow, CreateVersion, WriteYaml, UpsertRow, WellPlaced
<1>2. NoProposal \notin Statuses /\ s.agg.status \in Statuses
  BY <1>1, NoProposalAssumption, AggregateShapes DEF Aggregate
<1>3. ASSUME UNCHANGED versions,
             \A q \in Proposals : VisibleStatus(q)' = VisibleStatus(q)
      PROVE  LifecycleStep
  BY <1>3, ShownKept, MadeKept DEF LifecycleStep
<1>4. ASSUME NEW x, VisibleStatus(p)' = x, UNCHANGED versions,
             \A q \in Proposals : q # p => VisibleStatus(q)' = VisibleStatus(q)
      PROVE  Shown' = [Shown EXCEPT ![p] = x] /\ Made' = Made
  BY <1>4, ShownBecomes, MadeKept
<1>5. CASE RemoveDirectory(h)
  <2>1. UNCHANGED <<row, versions>> /\ s.stage = "remove"
        /\ \A q \in Proposals : q # p => yaml'[q] = yaml[q]
    BY <1>0, <1>1, <1>5 DEF RemoveDirectory
  <2>2. row[p] = s.agg
    BY <1>1, <2>1 DEF Whole
  <2> QED
    BY <1>1, <1>3, <2>1, <2>2 DEF VisibleStatus, LoadedForJudge, Either
<1>6. CASE RemoveRow(h)
  <2>1. UNCHANGED <<yaml, versions>> /\ s.stage = "remove_row"
        /\ \A q \in Proposals : row'[q] = IF q = p THEN NoProposal ELSE row[q]
    BY <1>0, <1>1, <1>6 DEF RemoveRow
  <2>2. row[p] = s.agg /\ s.agg.status = "in_upload" /\ yaml[p] = NoProposal
    BY <1>1, <2>1 DEF Whole, Placed, Firm
  <2>3. /\ VisibleStatus(p) = "in_upload" /\ VisibleStatus(p)' = NoProposal
        /\ \A q \in Proposals : q # p => VisibleStatus(q)' = VisibleStatus(q)
    BY <1>1, <2>1, <2>2 DEF VisibleStatus, LoadedForJudge, Either
  <2>4. Shown' = [Shown EXCEPT ![p] = NoProposal] /\ Made' = Made
    BY <1>4, <2>1, <2>3
  <2>5. Shown[p] = "in_upload"
    BY <2>3 DEF Shown
  <2>6. Lifecycle!Withdraw(p)
    BY <2>4, <2>5 DEF Lifecycle!Withdraw, Lifecycle!Become, Lifecycle!Open, Shown, Made
  <2> QED
    BY <2>6 DEF LifecycleStep, Lifecycle!Next
<1>7. CASE CreateVersion(h)
  <2>1. /\ s.stage = "create" /\ UNCHANGED <<yaml, row>> /\ s.agg.status \in Undecided
        /\ row[p] = s.agg
    BY <1>1, <1>7 DEF CreateVersion, Placed, Whole
  <2>2. \A q \in Proposals : VisibleStatus(q)' = VisibleStatus(q)
    BY <2>1 DEF VisibleStatus, LoadedForJudge, Either
  <2>3. CASE UNCHANGED versions
    BY <1>3, <2>2, <2>3
  <2>4. CASE versions' = versions \cup {<<s.number, p>>}
    <3> DEFINE e == <<s.number, p>>
    <3>1. versions' = versions \cup {e} /\ e[2] = p
      BY <2>4
    <3> HIDE DEF e
    <3>2. MadeFrom(p) = {}
      BY <1>1, <2>1 DEF Whole, Making, HasStatus, Undecided
    <3>3. \A d \in versions' : d[2] = p <=> d = e
      BY <3>1, <3>2 DEF MadeFrom
    <3>4. MadeFrom(p)' = {e}
      BY <3>1, <3>3 DEF MadeFrom
    <3>5. \A q \in Proposals : q # p => MadeFrom(q)' = MadeFrom(q)
      BY <3>1 DEF MadeFrom
    <3>6. Cardinality(MadeFrom(p)) = 0 /\ Cardinality(MadeFrom(p)') = 1
      BY <3>2, <3>4, FS_EmptySet, FS_Singleton
    <3>7. Made' = [Made EXCEPT ![p] = 1] /\ Made[p] = 0
      <4>1. Made' = [q \in Proposals |-> Cardinality(MadeFrom(q)')]
        BY DEF Made
      <4>2. \A q \in Proposals :
               Cardinality(MadeFrom(q)') = IF q = p THEN 1 ELSE Cardinality(MadeFrom(q))
        BY <3>5, <3>6
      <4> QED
        BY <3>6, <4>1, <4>2 DEF Made
    <3>8. Shown' = Shown /\ Shown[p] \in Undecided
      BY <1>1, <2>1, <2>2, ShownKept DEF Shown, VisibleStatus, LoadedForJudge, Either
    <3>9. Lifecycle!MakeVersion(p)
      BY <3>7, <3>8 DEF Lifecycle!MakeVersion, Lifecycle!Undecided, Undecided, Shown, Made
    <3> QED
      BY <3>9 DEF LifecycleStep, Lifecycle!Next
  <2> QED
    BY <1>1, <1>7, <2>3, <2>4 DEF CreateVersion
<1>8. CASE WriteYaml(h)
  <2>1. /\ UNCHANGED <<row, versions>> /\ s.stage = "save" /\ Due(h)
        /\ \A q \in Proposals : yaml'[q] = IF q = p THEN s.agg ELSE yaml[q]
        /\ \A q \in Proposals : row[q] = yaml[q]
    BY <1>0, <1>1, <1>8 DEF WriteYaml, Whole
  <2>2. CASE row[p] # NoProposal
    BY <1>3, <2>1, <2>2 DEF VisibleStatus, LoadedForJudge, Either
  <2>3. CASE row[p] = NoProposal
    <3>1. s.agg.status = "in_upload" /\ \A q \in Proposals : ~HasStatus(row[q], {"in_upload"})
      BY <1>1, <2>1, <2>3 DEF Due
    <3>2. /\ VisibleStatus(p) = NoProposal /\ VisibleStatus(p)' = "in_upload"
          /\ \A q \in Proposals : q # p => VisibleStatus(q)' = VisibleStatus(q)
      BY <1>1, <2>1, <2>3, <3>1 DEF VisibleStatus, LoadedForJudge, Either
    <3>3. Shown' = [Shown EXCEPT ![p] = "in_upload"] /\ Made' = Made
      BY <1>4, <2>1, <3>2
    <3>4. Shown[p] = NoProposal /\ \A q \in Proposals : Shown[q] # "in_upload"
      BY <1>2, <2>1, <3>1, <3>2
         DEF Shown, VisibleStatus, LoadedForJudge, Either, HasStatus, Statuses
    <3>5. Lifecycle!Submit(p)
      BY <3>3, <3>4 DEF Lifecycle!Submit, Lifecycle!Become, Lifecycle!Open, Shown, Made
    <3> QED
      BY <3>5 DEF LifecycleStep, Lifecycle!Next
  <2> QED
    BY <2>2, <2>3
<1>9. CASE UpsertRow(h)
  <2>1. /\ UNCHANGED <<yaml, versions>> /\ s.stage = "row" /\ Due(h) /\ yaml[p] = s.agg
        /\ \A q \in Proposals : row'[q] = IF q = p THEN s.agg ELSE row[q]
    BY <1>0, <1>1, <1>9 DEF UpsertRow, Whole, Firm
  <2>2. /\ VisibleStatus(p)' = s.agg.status
        /\ \A q \in Proposals : q # p => VisibleStatus(q)' = VisibleStatus(q)
        /\ VisibleStatus(p) = IF row[p] = NoProposal THEN s.agg.status ELSE row[p].status
    BY <1>1, <2>1 DEF VisibleStatus, LoadedForJudge, Either
  <2>3. CASE row[p] = NoProposal \/ row[p].status = s.agg.status
    BY <1>3, <2>1, <2>2, <2>3
  <2>4. CASE row[p] # NoProposal /\ row[p].status # s.agg.status
    <3> DEFINE old == row[p].status
               new == s.agg.status
    <3>1. Succeeds(s.op, old, new)
      BY <1>1, <2>1, <2>4 DEF Due
    <3>2. Shown' = [Shown EXCEPT ![p] = new] /\ Made' = Made /\ Shown[p] = old
      BY <1>4, <2>1, <2>2, <2>4 DEF Shown
    <3> HIDE DEF old, new
    <3>3. CASE s.op = "convert"
      <4>1. MadeFrom(p) = {<<s.number, p>>}
        BY <1>1, <2>1, <3>3 DEF Whole, Making
      <4>2. Made[p] = 1
        BY <4>1, FS_Singleton DEF Made
      <4>3. Lifecycle!Convert(p)
        BY <3>1, <3>2, <3>3, <4>2
           DEF Succeeds, Lifecycle!Convert, Lifecycle!Become, Lifecycle!Undecided, Undecided,
               Shown, Made
      <4> QED
        BY <4>3 DEF LifecycleStep, Lifecycle!Next
    <3>4. CASE old \in Undecided /\ new = "rejected" /\ s.op # "convert"
      <4>1. MadeFrom(p) = {}
        BY <1>1, <2>1, <3>4 DEF Whole, Making, HasStatus, Undecided, old
      <4>2. Made[p] = 0
        BY <4>1, FS_EmptySet DEF Made
      <4>3. Lifecycle!Reject(p)
        BY <3>2, <3>4, <4>2
           DEF Lifecycle!Reject, Lifecycle!Become, Lifecycle!Undecided, Undecided, Shown, Made
      <4> QED
        BY <4>3 DEF LifecycleStep, Lifecycle!Next
    <3>5. CASE old \in {"in_upload"} \cup Undecided /\ new = "judged"
      <4>1. Lifecycle!Judge(p)
        BY <3>2, <3>5
           DEF Lifecycle!Judge, Lifecycle!Become, Lifecycle!Undecided, Lifecycle!Open,
               Undecided, Shown, Made
      <4> QED
        BY <4>1 DEF LifecycleStep, Lifecycle!Next
    <3>6. CASE old = "in_upload" /\ new = "submitted"
      <4>1. Lifecycle!Finalize(p)
        BY <3>2, <3>6 DEF Lifecycle!Finalize, Lifecycle!Become, Lifecycle!Open, Shown, Made
      <4> QED
        BY <4>1 DEF LifecycleStep, Lifecycle!Next
    <3>7. new # old
      BY <2>4 DEF old, new
    <3> QED
      BY <3>1, <3>3, <3>4, <3>5, <3>6, <3>7 DEF Succeeds
  <2> QED
    BY <2>3, <2>4
<1> QED
  BY <1>5, <1>6, <1>7, <1>8, <1>9

\* Everything else leaves what readers see as it is.
LEMMA OtherStepsRefine ==
    ASSUME NEW h \in Handlers, Command(h) \/ Continue(h),
           ~RemoveDirectory(h), ~RemoveRow(h), ~CreateVersion(h), ~WriteYaml(h), ~UpsertRow(h)
    PROVE  LifecycleStep
<1>1. ASSUME Command(h) PROVE UNCHANGED <<yaml, row, versions>>
  BY <1>1 DEF Command, BeginSubmit, BeginUpdate, BeginAttach, BeginFinalize, BeginDelete,
              BeginReject, BeginEdit, BeginRejudge, BeginConvert, Begin, stores
<1>2. ASSUME Continue(h) PROVE UNCHANGED <<yaml, row, versions>>
  BY <1>2 DEF Continue, StoreFile, Validate, JudgeText, JudgeFiles, CollectJudgement,
              Rejudged, ResolveVersion, Evaluate, Screen, Classify, Release, AppendAudit, stores
<1>3. \A q \in Proposals : VisibleStatus(q)' = VisibleStatus(q)
  BY <1>1, <1>2 DEF VisibleStatus, LoadedForJudge, Either
<1> QED
  BY <1>1, <1>2, <1>3, ShownKept, MadeKept DEF LifecycleStep

\* As long as one command follows the other and none is cut off, submitters,
\* reviewers, judges and automation together do what ProposalLifecycle allows: one
\* open upload at a time, final decisions, one version per converted proposal.
THEOREM Refinement == ASSUME OneHandler PROVE Spec => LifecycleRefined
<1> DEFINE Step == faults' = 0 => [Lifecycle!Next]_(Lifecycle!seen)
<1>1. ASSUME TypeInv, SoloInv, [Next]_vars PROVE [Step]_vars
  <2> SUFFICES ASSUME Next, faults' = 0 PROVE LifecycleStep
    BY <1>1 DEF LifecycleStep, Lifecycle!seen, Shown, Made
  <2>1. PICK h \in Handlers : (Command(h) \/ Continue(h)) /\ faults = 0
    BY <1>1, ProposalsAssumption DEF Next, Abort, SwallowFailedSave, Fault, TypeInv, TypeOK
  <2>2. Placed(h) /\ Firm(h) /\ Whole(h)
    BY <1>1 DEF SoloInv
  <2> QED
    BY <1>1, <2>1, <2>2, WritingRefines, OtherStepsRefine
<1>2. TypeInv /\ SoloInv /\ [Next]_vars => [Step]_vars
  BY <1>1
<1> QED
  BY <1>2, SoloInvariant, LifecycleInitial, PTL DEF LifecycleRefined, Spec
=============================================================================
