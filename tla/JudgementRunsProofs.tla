------------------------- MODULE JudgementRunsProofs -------------------------
(* Proofs about JudgementRuns, for any number of runs, files and models.     *)
EXTENDS JudgementRuns, FiniteSetTheorems, TLAPS

Writes == {"store", "audit", "audit reuse", "save"}
Limited == {"waiting", "asking"}

\* What a stage entails: whoever asks about material has it, and whoever writes has
\* the judgement of it.
Sound(at) ==
    /\ at.stage \in Limited /\ at.kind # "check" => at.content \in Contents
    /\ at.stage \in Writes => /\ at.judgement \in Judgement
                              /\ at.judgement.about = Wanted(at)

Good(at) == at \in RunState /\ Sound(at)

RunsGood == run \in [Runs -> RunState] /\ \A r \in Runs : Good(run[r])

\* The queue holds whoever waits, once.
QueueInv ==
    /\ waiting \in Seq(Runs)
    /\ \A i, j \in 1..Len(waiting) : waiting[i] = waiting[j] => i = j
    /\ \A i \in 1..Len(waiting) : run[waiting[i]].stage = "waiting"
    /\ \A r \in Runs : run[r].stage = "waiting" => \E i \in 1..Len(waiting) : waiting[i] = r

SlotInv ==
    /\ IsFiniteSet(Asking)
    /\ active = Cardinality(Asking) /\ active \in 0..MaxConcurrent
    /\ waiting # <<>> => active = MaxConcurrent

LimiterInv == QueueInv /\ SlotInv

StoresInv ==
    /\ material \in [Targets -> Contents \cup {None}] /\ material[Whole] # None
    /\ identity \in Identities
    /\ proposal \subseteq Judgement

Inv == StoresInv /\ RunsGood /\ LimiterInv

LEMMA WantedGood ==
    ASSUME identity \in Identities, NEW at \in RunState, at.content \in Contents
    PROVE  Wanted(at) \in Input
BY DEF Wanted, Input, RunState

-----------------------------------------------------------------------------
(* A run moves without the limiter *)

LEMMA GoesGood ==
    ASSUME RunsGood, identity' = identity, NEW r \in Runs, NEW at, Good(at), Goes(r, at)
    PROVE  RunsGood'
<1>1. \A q \in Runs : run'[q] = IF q = r THEN at ELSE run[q]
  BY DEF Goes, RunsGood
<1>2. run' \in [Runs -> RunState]
  BY DEF Goes, RunsGood, Good
<1>3. \A q \in Runs : Good(run'[q])
  BY <1>1 DEF RunsGood
<1>4. \A q \in Runs : Good(run[q])'
  BY <1>3 DEF Good, Sound, Wanted
<1> QED
  BY <1>2, <1>4 DEF RunsGood

LEMMA GoesLimited ==
    ASSUME RunsGood, LimiterInv, NEW r \in Runs, NEW at, Goes(r, at), UNCHANGED limiter,
           run[r].stage \notin Limited, at.stage \notin Limited
    PROVE  LimiterInv'
<1>1. /\ run'[r] = at
      /\ \A q \in Runs : q # r => run'[q] = run[q]
  BY DEF Goes, RunsGood
<1>2. waiting' = waiting /\ active' = active
  BY DEF limiter
<1>3. Asking' = Asking
  BY <1>1 DEF Asking, Limited
<1>4. \A q \in Runs : run'[q].stage = "waiting" <=> run[q].stage = "waiting"
  BY <1>1 DEF Limited
<1>5. \A i \in 1..Len(waiting) : waiting[i] \in Runs
  BY DEF LimiterInv, QueueInv
<1>6. QueueInv'
  BY <1>2, <1>4, <1>5 DEF LimiterInv, QueueInv
<1> QED
  BY <1>2, <1>3, <1>6 DEF LimiterInv, SlotInv

-----------------------------------------------------------------------------
(* A run asks for a slot *)

\* To be asked about something is all a run needs in order to wait or to ask.
LEMMA StageGood ==
    ASSUME NEW at \in RunState, NEW stage \in Limited,
           at.kind # "check" => at.content \in Contents
    PROVE  Good([at EXCEPT !.stage = stage])
BY DEF Good, Sound, RunState, Stages, Writes, Limited

LEMMA AcquireGood ==
    ASSUME RunsGood, identity' = identity, NEW r \in Runs, NEW at \in RunState,
           at.kind # "check" => at.content \in Contents, Acquire(r, at)
    PROVE  RunsGood'
<1>1. PICK stage \in Limited : Goes(r, [at EXCEPT !.stage = stage])
  BY DEF Acquire, Goes, Limited
<1> QED
  BY <1>1, StageGood, GoesGood

LEMMA AcquireLimited ==
    ASSUME RunsGood, LimiterInv, NEW r \in Runs, NEW at \in RunState, Acquire(r, at),
           run[r].stage \notin Limited
    PROVE  LimiterInv'
<1> USE JudgementAssumption
<1>1. \A q \in Runs : q # r => run'[q] = run[q]
  BY DEF Acquire, RunsGood
<1>2. \A i \in 1..Len(waiting) : waiting[i] \in Runs /\ waiting[i] # r
  BY DEF LimiterInv, QueueInv, Limited
<1>3. CASE active < MaxConcurrent
  <2>1. run'[r].stage = "asking" /\ waiting' = waiting /\ active' = active + 1
    BY <1>3 DEF Acquire, RunsGood, RunState
  <2>2. waiting = <<>>
    BY <1>3 DEF LimiterInv, SlotInv
  <2>3. Asking' = Asking \cup {r} /\ r \notin Asking
    BY <1>1, <2>1 DEF Asking, Limited
  <2>4. IsFiniteSet(Asking') /\ Cardinality(Asking') = Cardinality(Asking) + 1
    BY <2>3, FS_AddElement DEF LimiterInv, SlotInv
  <2>5. SlotInv'
    BY <1>3, <2>1, <2>2, <2>4 DEF LimiterInv, SlotInv
  <2>6. QueueInv'
    BY <1>1, <1>2, <2>1 DEF LimiterInv, QueueInv
  <2> QED
    BY <2>5, <2>6 DEF LimiterInv
<1>4. CASE ~(active < MaxConcurrent)
  <2>1. run'[r].stage = "waiting" /\ waiting' = Append(waiting, r) /\ active' = active
    BY <1>4 DEF Acquire, RunsGood, RunState
  <2>2. Asking' = Asking
    BY <1>1, <2>1 DEF Asking, Limited
  <2>3. SlotInv'
    BY <1>4, <2>1, <2>2 DEF LimiterInv, SlotInv
  <2> DEFINE n == Len(waiting)
  <2>4. /\ waiting \in Seq(Runs) /\ n \in Nat /\ waiting' \in Seq(Runs) /\ Len(waiting') = n + 1
        /\ waiting'[n + 1] = r /\ \A i \in 1..n : waiting'[i] = waiting[i]
    BY <2>1 DEF LimiterInv, QueueInv
  <2>5. \A i, j \in 1..(n + 1) : waiting'[i] = waiting'[j] => i = j
    BY <1>2, <2>4 DEF LimiterInv, QueueInv
  <2>6. \A i \in 1..(n + 1) : run'[waiting'[i]].stage = "waiting"
    BY <1>1, <1>2, <2>1, <2>4 DEF LimiterInv, QueueInv
  <2>7. \A q \in Runs : run'[q].stage = "waiting" => \E i \in 1..(n + 1) : waiting'[i] = q
    <3> SUFFICES ASSUME NEW q \in Runs, run'[q].stage = "waiting"
                 PROVE  \E i \in 1..(n + 1) : waiting'[i] = q
      OBVIOUS
    <3>1. CASE q = r
      BY <2>4, <3>1
    <3>2. CASE q # r
      <4>1. PICK i \in 1..n : waiting[i] = q
        BY <1>1, <3>2 DEF LimiterInv, QueueInv
      <4> QED
        BY <2>4, <4>1
    <3> QED
      BY <3>1, <3>2
  <2>8. QueueInv'
    BY <2>4, <2>5, <2>6, <2>7 DEF QueueInv
  <2> QED
    BY <2>3, <2>8 DEF LimiterInv
<1> QED
  BY <1>3, <1>4

-----------------------------------------------------------------------------
(* A run gives its slot up *)

\* Who waits longest goes on to ask.
LEMMA Hand ==
    ASSUME RunsGood, QueueInv, NEW r \in Runs, NEW at, Release(r, at),
           run[r].stage = "asking", waiting # <<>>
    PROVE  LET w == Head(waiting) IN
           /\ w \in Runs /\ w # r /\ run[w].stage = "waiting"
           /\ run'[r] = at /\ run'[w] = [run[w] EXCEPT !.stage = "asking"]
           /\ DOMAIN run' = Runs
           /\ \A q \in Runs : q \notin {r, w} => run'[q] = run[q]
           /\ waiting' = Tail(waiting) /\ active' = active
<1> DEFINE w == Head(waiting)
<1>1. w = waiting[1] /\ 1 \in 1..Len(waiting)
  BY DEF QueueInv
<1>2. w \in Runs /\ run[w].stage = "waiting"
  BY <1>1 DEF QueueInv
<1>3. w # r
  BY <1>2
<1>4. run' = [run EXCEPT ![r] = at, ![w].stage = "asking"] /\ waiting' = Tail(waiting) /\ active' = active
  BY DEF Release
<1> HIDE DEF w
<1>5. run'[r] = at /\ run'[w] = [run[w] EXCEPT !.stage = "asking"] /\ DOMAIN run' = Runs
  BY <1>2, <1>3, <1>4 DEF RunsGood
<1>6. \A q \in Runs : q \notin {r, w} => run'[q] = run[q]
  BY <1>4 DEF RunsGood
<1> QED
  BY <1>2, <1>3, <1>4, <1>5, <1>6 DEF w

LEMMA ReleaseGood ==
    ASSUME RunsGood, QueueInv, identity' = identity, NEW r \in Runs, NEW at, Good(at),
           run[r].stage = "asking", Release(r, at)
    PROVE  RunsGood'
<1>1. CASE waiting = <<>>
  BY <1>1, GoesGood DEF Release, Goes
<1>2. CASE waiting # <<>>
  <2> DEFINE w == Head(waiting)
  <2>1. /\ w \in Runs /\ w # r /\ run[w].stage = "waiting" /\ DOMAIN run' = Runs
        /\ run'[r] = at /\ run'[w] = [run[w] EXCEPT !.stage = "asking"]
        /\ \A q \in Runs : q \notin {r, w} => run'[q] = run[q]
    BY <1>2, Hand
  <2> HIDE DEF w
  <2>2. Good(run'[w])
    <3>1. run[w] \in RunState /\ (run[w].kind # "check" => run[w].content \in Contents)
      BY <2>1 DEF RunsGood, Good, Sound, Limited
    <3>2. "asking" \in Limited
      BY DEF Limited
    <3>3. Good([run[w] EXCEPT !.stage = "asking"])
      BY <3>1, <3>2, StageGood
    <3> QED
      BY <2>1, <3>3
  <2>3. \A q \in Runs : Good(run'[q])
    BY <2>1, <2>2 DEF RunsGood
  <2>4. run' \in [Runs -> RunState]
    <3>1. run' = [q \in Runs |-> run'[q]]
      BY <1>2, <2>1 DEF Release, RunsGood
    <3> QED
      BY <2>3, <3>1 DEF Good
  <2>5. \A q \in Runs : Good(run[q])'
    BY <2>3 DEF Good, Sound, Wanted
  <2> QED
    BY <2>4, <2>5 DEF RunsGood
<1> QED
  BY <1>1, <1>2

LEMMA ReleaseLimited ==
    ASSUME RunsGood, LimiterInv, NEW r \in Runs, NEW at, at.stage \notin Limited,
           run[r].stage = "asking", Release(r, at)
    PROVE  LimiterInv'
<1> USE JudgementAssumption
<1>0. r \in Asking /\ QueueInv
  BY DEF Asking, LimiterInv
<1>1. CASE waiting = <<>>
  <2>1. /\ run'[r] = at /\ \A q \in Runs : q # r => run'[q] = run[q]
        /\ waiting' = waiting /\ active' = active - 1
    BY <1>1 DEF Release, RunsGood
  <2>2. Asking' = Asking \ {r}
    BY <2>1 DEF Asking, Limited
  <2>3. IsFiniteSet(Asking') /\ Cardinality(Asking') = Cardinality(Asking) - 1
    BY <1>0, <2>2, FS_RemoveElement DEF LimiterInv, SlotInv
  <2>4. Cardinality(Asking') \in Nat
    BY <2>3, FS_CardinalityType
  <2>5. SlotInv'
    BY <1>1, <2>1, <2>3, <2>4 DEF LimiterInv, SlotInv
  <2>6. QueueInv'
    BY <1>1, <2>1 DEF LimiterInv, QueueInv, Limited
  <2> QED
    BY <2>5, <2>6 DEF LimiterInv
<1>2. CASE waiting # <<>>
  <2> DEFINE w == Head(waiting)
             n == Len(waiting)
  <2>1. /\ w \in Runs /\ w # r /\ run[w].stage = "waiting"
        /\ run'[r] = at /\ run'[w] = [run[w] EXCEPT !.stage = "asking"]
        /\ \A q \in Runs : q \notin {r, w} => run'[q] = run[q]
        /\ waiting' = Tail(waiting) /\ active' = active
    BY <1>0, <1>2, Hand
  <2>2. n \in Nat \ {0} /\ w = waiting[1] /\ waiting' \in Seq(Runs) /\ Len(waiting') = n - 1
        /\ \A i \in 1..(n - 1) : waiting'[i] = waiting[i + 1]
    BY <1>0, <1>2, <2>1 DEF QueueInv
  <2> HIDE DEF w, n
  <2>3. run'[w].stage = "asking"
    BY <2>1 DEF RunsGood, RunState
  <2>4. w \notin Asking /\ Asking' = (Asking \ {r}) \cup {w}
    BY <2>1, <2>3 DEF Asking, Limited
  <2>5. IsFiniteSet(Asking \ {r}) /\ Cardinality(Asking \ {r}) = Cardinality(Asking) - 1
    BY <1>0, FS_RemoveElement DEF LimiterInv, SlotInv
  <2>6. IsFiniteSet(Asking') /\ Cardinality(Asking') = Cardinality(Asking \ {r}) + 1
    BY <2>4, <2>5, FS_AddElement
  <2>7. Cardinality(Asking) \in Nat
    BY FS_CardinalityType DEF LimiterInv, SlotInv
  <2>8. SlotInv'
    BY <1>2, <2>1, <2>5, <2>6, <2>7 DEF LimiterInv, SlotInv
  <2>9. \A i \in 1..(n - 1) : i + 1 \in 1..n /\ waiting[i + 1] \in Runs \ {r, w}
                              /\ run[waiting[i + 1]].stage = "waiting"
    <3> SUFFICES ASSUME NEW i \in 1..(n - 1)
                 PROVE  i + 1 \in 1..n /\ waiting[i + 1] \in Runs \ {r, w}
                        /\ run[waiting[i + 1]].stage = "waiting"
      OBVIOUS
    <3>1. i + 1 \in 1..n /\ 1 \in 1..n /\ i + 1 # 1
      BY <2>2
    <3>2. waiting[i + 1] \in Runs /\ run[waiting[i + 1]].stage = "waiting"
      BY <1>0, <3>1 DEF QueueInv, n
    <3>3. waiting[i + 1] # waiting[1]
      BY <1>0, <3>1 DEF QueueInv, n
    <3> QED
      BY <2>2, <3>1, <3>2, <3>3
  <2>10. \A i, j \in 1..(n - 1) : waiting'[i] = waiting'[j] => i = j
    <3> SUFFICES ASSUME NEW i \in 1..(n - 1), NEW j \in 1..(n - 1), waiting'[i] = waiting'[j]
                 PROVE  i = j
      OBVIOUS
    <3>1. i + 1 \in 1..n /\ j + 1 \in 1..n
      BY <2>9
    <3>2. waiting'[i] = waiting[i + 1] /\ waiting'[j] = waiting[j + 1]
      BY <2>2
    <3>3. waiting[i + 1] = waiting[j + 1]
      BY <3>2
    <3>4. i + 1 = j + 1
      BY <1>0, <3>1, <3>3 DEF QueueInv, n
    <3> QED
      BY <2>2, <3>4
  <2>11. \A i \in 1..(n - 1) : run'[waiting'[i]].stage = "waiting"
    <3> SUFFICES ASSUME NEW i \in 1..(n - 1)
                 PROVE  run'[waiting'[i]].stage = "waiting"
      OBVIOUS
    <3>1. waiting'[i] = waiting[i + 1]
      BY <2>2
    <3>2. waiting[i + 1] \in Runs \ {r, w} /\ run[waiting[i + 1]].stage = "waiting"
      BY <2>9
    <3>3. run'[waiting[i + 1]] = run[waiting[i + 1]]
      BY <2>1, <3>2
    <3> QED
      BY <3>1, <3>2, <3>3
  <2>12. \A q \in Runs : run'[q].stage = "waiting" => \E i \in 1..(n - 1) : waiting'[i] = q
    <3> SUFFICES ASSUME NEW q \in Runs, run'[q].stage = "waiting"
                 PROVE  \E i \in 1..(n - 1) : waiting'[i] = q
      OBVIOUS
    <3>1. q # r /\ q # w /\ run[q].stage = "waiting"
      BY <2>1, <2>3 DEF Limited
    <3>2. PICK i \in 1..n : waiting[i] = q
      BY <1>0, <3>1 DEF QueueInv, n
    <3>3. i # 1 /\ i - 1 \in 1..(n - 1) /\ (i - 1) + 1 = i
      BY <2>2, <3>1, <3>2
    <3> QED
      BY <2>2, <3>2, <3>3
  <2>13. QueueInv'
    BY <2>2, <2>10, <2>11, <2>12 DEF QueueInv
  <2> QED
    BY <2>8, <2>13 DEF LimiterInv
<1> QED
  BY <1>1, <1>2

-----------------------------------------------------------------------------
(* The steps *)

\* A run turns to a target it has the material of.
LEMMA TurnGood ==
    ASSUME Inv, identity' = identity, NEW r \in Runs, NEW at \in RunState,
           at.kind # "check" => at.content \in Contents,
           run[r].stage \notin Limited, TurnTo(r, at)
    PROVE  RunsGood' /\ LimiterInv'
<1>1. CASE Reusable(at) # {}
  <2> DEFINE j == CHOOSE k \in Reusable(at) : TRUE
             to == [at EXCEPT !.stage = FirstWrite(at), !.reused = TRUE, !.judgement = j]
  <2>1. j \in Reusable(at)
    BY <1>1
  <2>2. j \in Judgement /\ j.about = Wanted(at)
    BY <2>1 DEF Reusable, RunState
  <2> HIDE DEF j
  <2>3. to \in RunState /\ to.judgement = j /\ to.stage \in Writes
        /\ to.target = at.target /\ to.content = at.content
    BY <2>2 DEF RunState, Stages, FirstWrite, Writes
  <2>4. Wanted(to) = Wanted(at)
    BY <2>3 DEF Wanted
  <2>5. Good(to) /\ to.stage \notin Limited
    BY <2>2, <2>3, <2>4 DEF Good, Sound, Writes, Limited
  <2>6. Goes(r, to) /\ UNCHANGED limiter
    BY <1>1 DEF TurnTo, Goes, j
  <2> HIDE DEF to
  <2> QED
    BY <2>5, <2>6, GoesGood, GoesLimited DEF Inv
<1>2. CASE Reusable(at) = {}
  <2> DEFINE to == [at EXCEPT !.reused = FALSE]
  <2>1. to \in RunState /\ (to.kind # "check" => to.content \in Contents)
    BY DEF RunState
  <2>2. Acquire(r, to)
    BY <1>2 DEF TurnTo
  <2> HIDE DEF to
  <2> QED
    BY <2>1, <2>2, AcquireGood, AcquireLimited DEF Inv
<1> QED
  BY <1>1, <1>2

\* A run goes on without asking and without a judgement to write.
LEMMA QuietGood ==
    ASSUME Inv, identity' = identity, UNCHANGED limiter, NEW r \in Runs, NEW at \in RunState,
           run[r].stage \notin Limited, at.stage \notin Limited \cup Writes, Goes(r, at)
    PROVE  RunsGood' /\ LimiterInv'
<1>1. Good(at)
  BY DEF Good, Sound
<1> QED
  BY <1>1, GoesGood, GoesLimited DEF Inv

LEMMA IdleTyped == Idle \in RunState /\ Idle.stage \notin Limited \cup Writes
BY DEF Idle, RunState, Stages, Kinds, Targets, Limited, Writes

LEMMA FailingTyped ==
    ASSUME NEW at \in RunState
    PROVE  Failing(at) \in RunState /\ Failing(at).stage \notin Limited \cup Writes
BY DEF Failing, RunState, Stages, Limited, Writes

\* What was loaded is judged, or taken over.
LEMMA BeginGood ==
    ASSUME Inv, NEW r \in Runs, Begin(r)
    PROVE  Inv'
<1>0. Idle \in RunState /\ run[r] = Idle /\ run[r].stage \notin Limited
      /\ UNCHANGED <<material, identity, proposal>>
  <2>1. Idle \in RunState /\ Idle.stage \notin Limited
    BY IdleTyped DEF Idle, Limited
  <2>2. run[r] = Idle /\ UNCHANGED <<material, identity, proposal>>
    BY DEF Begin, BeginVersion, BeginProposal, BeginCheck
  <2> QED
    BY <2>1, <2>2
<1>1. StoresInv' /\ identity' = identity
  BY <1>0 DEF Inv, StoresInv
<1>2. ASSUME NEW loaded \in {{}, proposal}, BeginVersion(r, loaded)
      PROVE  RunsGood' /\ LimiterInv'
  <2> DEFINE at == [Idle EXCEPT !.kind = "version", !.content = material[Whole], !.loaded = loaded]
  <2>1. material[Whole] \in Contents /\ loaded \subseteq Judgement
    BY <1>2 DEF Inv, StoresInv, Targets
  <2>2. at \in RunState /\ at.content \in Contents
    BY <1>0, <2>1 DEF RunState, Kinds
  <2>3. TurnTo(r, at)
    BY <1>2 DEF BeginVersion
  <2> HIDE DEF at
  <2> QED
    BY <1>0, <1>1, <2>2, <2>3, TurnGood
<1>3. ASSUME NEW t \in Targets, BeginProposal(r, t)
      PROVE  RunsGood' /\ LimiterInv'
  <2> DEFINE at == [Idle EXCEPT !.kind = "proposal", !.target = t, !.content = material[t],
                                !.loaded = proposal]
  <2>1. material[t] \in Contents /\ proposal \subseteq Judgement
    BY <1>3 DEF Inv, StoresInv, BeginProposal
  <2>2. at \in RunState /\ at.content \in Contents
    BY <1>0, <2>1 DEF RunState, Kinds
  <2>3. TurnTo(r, at)
    BY <1>3 DEF BeginProposal
  <2> HIDE DEF at
  <2> QED
    BY <1>0, <1>1, <2>2, <2>3, TurnGood
<1>4. ASSUME BeginCheck(r)
      PROVE  RunsGood' /\ LimiterInv'
  <2> DEFINE at == [Idle EXCEPT !.kind = "check"]
  <2>1. at \in RunState /\ at.kind = "check"
    BY <1>0 DEF RunState, Kinds
  <2>2. TurnTo(r, at)
    BY <1>4 DEF BeginCheck
  <2> HIDE DEF at
  <2> QED
    BY <1>0, <1>1, <2>1, <2>2, TurnGood
<1> QED
  BY <1>1, <1>2, <1>3, <1>4 DEF Begin, Inv

LEMMA RisksCovered ==
    ASSUME NEW reply, WellFormed(reply)
    PROVE  OverallRisk(reply) \in {Risks[i] : i \in 1..4}
<1>1. {Risks[i] : i \in 1..4} = {"low", "medium", "high", "critical"}
      /\ Risks[1] = "low" /\ Risks[2] = "medium" /\ Risks[3] = "high" /\ Risks[4] = "critical"
  BY DEF Risks
<1>2. \E i \in 1..4 : Risks[i] \in reply /\ \A k \in i + 1 .. 4 : Risks[k] \notin reply
  <2>1. PICK risk \in reply : risk \in {"low", "medium", "high", "critical"}
    BY <1>1 DEF WellFormed
  <2>2. CASE Risks[4] \in reply
    BY <2>2
  <2>3. CASE Risks[4] \notin reply /\ Risks[3] \in reply
    BY <2>3
  <2>4. CASE Risks[4] \notin reply /\ Risks[3] \notin reply /\ Risks[2] \in reply
    <3>1. \A k \in 3..4 : k = 3 \/ k = 4
      OBVIOUS
    <3> QED
      BY <2>4, <3>1
  <2>5. CASE Risks[4] \notin reply /\ Risks[3] \notin reply /\ Risks[2] \notin reply
    <3>1. \A k \in 2..4 : k = 2 \/ k = 3 \/ k = 4
      OBVIOUS
    <3>2. Risks[1] \in reply
      BY <1>1, <2>1, <2>5
    <3> QED
      BY <2>5, <3>1, <3>2
  <2> QED
    BY <2>2, <2>3, <2>4, <2>5
<1> QED
  BY <1>2 DEF OverallRisk

\* A call that settles gives the slot up and leaves the run with its judgement.
LEMMA SettleGood ==
    ASSUME Inv, NEW r \in Runs, Settles(r)
    PROVE  Inv'
<1>0. run[r] \in RunState /\ run[r].stage = "asking" /\ Good(run[r])
      /\ UNCHANGED <<material, identity, proposal>>
  BY DEF Inv, RunsGood, Settles, Answer, AnswerUnjudged, CallFails
<1>1. StoresInv' /\ identity' = identity
  BY <1>0 DEF Inv, StoresInv
<1>2. ASSUME NEW at, Good(at), at.stage \notin Limited, Release(r, at)
      PROVE  RunsGood' /\ LimiterInv'
  BY <1>0, <1>1, <1>2, ReleaseGood, ReleaseLimited DEF Inv, LimiterInv
<1>3. Good(Idle) /\ Idle.stage \notin Limited
  BY IdleTyped DEF Good, Sound
<1>4. ASSUME NEW verdict \in {Risks[i] : i \in 1..4} \cup {Unjudged}, Said(r, verdict)
      PROVE  RunsGood' /\ LimiterInv'
  <2>1. CASE run[r].kind = "check"
    <3>1. Release(r, Idle)
      BY <1>4, <2>1 DEF Said
    <3> QED
      BY <1>2, <1>3, <3>1
  <2>2. CASE run[r].kind # "check"
    <3> DEFINE s == run[r]
               j == [about |-> Wanted(s), verdict |-> verdict]
               to == [s EXCEPT !.stage = FirstWrite(s), !.judgement = j]
    <3>1. s.content \in Contents
      BY <1>0, <2>2 DEF Good, Sound, Limited
    <3>2. j \in Judgement /\ j.about = Wanted(s)
      BY <1>0, <1>4, <3>1, WantedGood DEF Inv, StoresInv, Judgement
    <3> HIDE DEF j
    <3>3. to \in RunState /\ to.judgement = j /\ to.stage \in Writes
          /\ to.target = s.target /\ to.content = s.content
      BY <1>0, <3>2 DEF RunState, Stages, FirstWrite, Writes
    <3>4. Wanted(to) = Wanted(s)
      BY <3>3 DEF Wanted
    <3>5. Good(to) /\ to.stage \notin Limited
      BY <3>2, <3>3, <3>4 DEF Good, Sound, Writes, Limited
    <3>6. Release(r, to)
      BY <1>4, <2>2 DEF Said, j
    <3> HIDE DEF to
    <3> QED
      BY <1>2, <3>5, <3>6
  <2> QED
    BY <2>1, <2>2
<1>5. ASSUME NEW reply, Answer(r, reply) PROVE RunsGood' /\ LimiterInv'
  BY <1>4, <1>5, RisksCovered DEF Answer
<1>6. ASSUME AnswerUnjudged(r) PROVE RunsGood' /\ LimiterInv'
  BY <1>4, <1>6 DEF AnswerUnjudged
<1>7. ASSUME CallFails(r) PROVE RunsGood' /\ LimiterInv'
  <2>1. PICK at \in {Idle, Failing(run[r])} : Release(r, at)
    BY <1>7 DEF CallFails
  <2>2. Good(Failing(run[r])) /\ Failing(run[r]).stage \notin Limited
    BY <1>0, FailingTyped DEF Good, Sound
  <2> QED
    BY <1>2, <1>3, <2>1, <2>2
<1> QED
  BY <1>1, <1>5, <1>6, <1>7 DEF Settles, Inv

\* A write leaves the run before its next write, or without a judgement.
LEMMA WriteGood ==
    ASSUME Inv, NEW r \in Runs, Write(r)
    PROVE  Inv'
<1> DEFINE s == run[r]
<1>0. s \in RunState /\ Good(s) /\ s.stage \in Writes \cup {"note failure"}
      /\ s.stage \notin Limited
  BY DEF Inv, RunsGood, Write, Record, Store, RecordReuse, Save, RecordFailure, Writes, Limited
<1>1. UNCHANGED <<material, identity, active, waiting>> /\ UNCHANGED limiter
  BY DEF Write, Record, Store, RecordReuse, Save, RecordFailure, Quiet, limiter
<1> HIDE DEF s
<1>2. StoresInv'
  <2>1. s.stage = "save" => s.loaded \subseteq Judgement /\ s.judgement \in Judgement
    BY <1>0 DEF Good, Sound, Writes, RunState
  <2>2. proposal' = proposal \/ (s.stage = "save" /\ proposal' = s.loaded \cup {s.judgement})
    BY DEF s, Write, Record, Store, RecordReuse, Save, RecordFailure
  <2> QED
    BY <1>1, <2>1, <2>2 DEF Inv, StoresInv
<1>3. Through(s) \in RunState /\ Through(s).stage \notin Limited \cup Writes
  <2>1. CASE s.kind = "proposal"
    BY <2>1, IdleTyped DEF Through
  <2>2. CASE s.kind # "proposal"
    BY <1>0, <2>2 DEF Through, RunState, Stages, Limited, Writes
  <2> QED
    BY <2>1, <2>2
<1>4. PICK at \in {Idle, Through(s), [s EXCEPT !.stage = "store"], [s EXCEPT !.stage = "audit"],
                  [s EXCEPT !.stage = "audit reuse"], [s EXCEPT !.stage = "audit", !.loaded = {}]} :
           /\ Goes(r, at)
           /\ s.stage \in Writes \/ at = Idle \/ at = Through(s)
  BY DEF s, Write, Record, Store, RecordReuse, Save, RecordFailure, AfterReuse, Writes
<1>5. run[r].stage \notin Limited /\ identity' = identity /\ UNCHANGED limiter /\ Goes(r, at)
  <2>1. run[r].stage \notin Limited
    BY <1>0 DEF s
  <2>2. identity' = identity
    BY <1>1
  <2>3. UNCHANGED limiter
    BY <1>1 DEF limiter
  <2>4. Goes(r, at)
    BY <1>4
  <2> QED
    BY <2>1, <2>2, <2>3, <2>4
<1>6. CASE at = Idle \/ at = Through(s)
  <2>1. at \in RunState /\ at.stage \notin Limited \cup Writes
    BY <1>3, <1>6, IdleTyped
  <2>2. RunsGood' /\ LimiterInv'
    BY <1>5, <2>1, QuietGood
  <2> QED
    BY <1>2, <2>2 DEF Inv
<1>7. CASE ~(at = Idle \/ at = Through(s))
  <2>1. /\ s.judgement \in Judgement /\ s.judgement.about = Wanted(s)
    BY <1>0, <1>4, <1>7 DEF Good, Sound
  <2>2. /\ at \in RunState /\ at.stage \in Writes \ Limited
        /\ at.judgement = s.judgement /\ at.target = s.target /\ at.content = s.content
    <3>1. CASE at = [s EXCEPT !.stage = "audit", !.loaded = {}]
      BY <1>0, <3>1 DEF RunState, Stages, Writes, Limited
    <3>2. ASSUME NEW stage \in {"store", "audit", "audit reuse"}, at = [s EXCEPT !.stage = stage]
          PROVE  /\ at \in RunState /\ at.stage \in Writes \ Limited
                 /\ at.judgement = s.judgement /\ at.target = s.target /\ at.content = s.content
      BY <1>0, <3>2 DEF RunState, Stages, Writes, Limited
    <3> QED
      BY <1>4, <1>7, <3>1, <3>2
  <2>3. Wanted(at) = Wanted(s)
    BY <2>2 DEF Wanted
  <2>4. Good(at)
    BY <2>1, <2>2, <2>3 DEF Good, Sound
  <2> QED
    <3>1. RunsGood' /\ LimiterInv'
      BY <1>5, <2>2, <2>4, GoesGood, GoesLimited DEF Inv
    <3> QED
      BY <1>2, <3>1 DEF Inv
<1> QED
  BY <1>6, <1>7

LEMMA ListGood ==
    ASSUME Inv, NEW r \in Runs, ListFiles(r) \/ EndOfFiles(r)
    PROVE  Inv'
<1>1. run[r] \in RunState /\ run[r].stage \notin Limited
      /\ UNCHANGED <<material, identity, active, waiting, proposal>> /\ UNCHANGED limiter
  BY DEF Inv, RunsGood, ListFiles, EndOfFiles, Quiet, Limited, limiter
<1>2. StoresInv' /\ identity' = identity
  BY <1>1 DEF Inv, StoresInv
<1>3. PICK at \in {Idle, [run[r] EXCEPT !.stage = "next file",
                                       !.todo = Listing]} : Goes(r, at)
  BY DEF ListFiles, EndOfFiles
<1>4. at \in RunState /\ at.stage \notin Limited \cup Writes
  <2>1. CASE at = Idle
    BY <2>1, IdleTyped
  <2>2. CASE at # Idle
    <3>1. Listing \in SUBSET (Paths \X Contents)
      BY DEF Listing, Inv, StoresInv, Targets
    <3>2. at = [run[r] EXCEPT !.stage = "next file", !.todo = Listing]
      BY <1>3, <2>2
    <3> QED
      BY <1>1, <3>1, <3>2 DEF RunState, Stages, Limited, Writes
  <2> QED
    BY <2>1, <2>2
<1>5. RunsGood' /\ LimiterInv'
  BY <1>1, <1>2, <1>3, <1>4, QuietGood
<1> QED
  BY <1>2, <1>5 DEF Inv

LEMMA NextFileGood ==
    ASSUME Inv, NEW r \in Runs, NextFile(r)
    PROVE  Inv'
<1> DEFINE f == CHOOSE q \in run[r].todo : TRUE
           p == f[1]
           at == [run[r] EXCEPT !.target = p, !.content = material[p], !.todo = @ \ {f}]
           anew == [at EXCEPT !.reused = FALSE]
<1>0. run[r] \in RunState /\ run[r].stage = "next file" /\ run[r].stage \notin Limited
      /\ UNCHANGED <<material, identity, proposal>>
  BY DEF Inv, RunsGood, NextFile, Limited
<1>1. StoresInv' /\ identity' = identity
  BY <1>0 DEF Inv, StoresInv
<1>2. p \in Paths /\ p \in Targets /\ f[2] \in Contents
  <2>1. run[r].todo # {} /\ run[r].todo \subseteq Paths \X Contents
    BY <1>0 DEF NextFile, RunState
  <2>2. f \in Paths \X Contents
    BY <2>1
  <2> HIDE DEF f
  <2> QED
    BY <2>2 DEF Targets
<1>3. \/ UNCHANGED limiter /\ material[p] = None /\ Goes(r, at)
      \/ material[p] = f[2] /\ TurnTo(r, at)
      \/ material[p] # None /\ Acquire(r, anew)
      \/ UNCHANGED limiter /\ Goes(r, Failing(at))
  BY DEF NextFile
<1> HIDE DEF p, f
<1>4. at \in RunState /\ at.stage = "next file" /\ at.content = material[p]
      /\ (material[p] # None => material[p] \in Contents)
  BY <1>0, <1>2 DEF Inv, StoresInv, RunState
<1> HIDE DEF at
<1>8. anew \in RunState /\ anew.content = at.content
  BY <1>4 DEF RunState
<1> HIDE DEF anew
<1>9. CASE material[p] # None /\ Acquire(r, anew)
  <2>1. RunsGood'
    BY <1>0, <1>1, <1>4, <1>8, <1>9, AcquireGood DEF Inv
  <2>2. LimiterInv'
    BY <1>0, <1>8, <1>9, AcquireLimited DEF Inv
  <2> QED
    BY <1>1, <2>1, <2>2 DEF Inv
<1>5. Failing(at) \in RunState /\ Failing(at).stage \notin Limited \cup Writes
  BY <1>4, FailingTyped
<1>6. at.stage \notin Limited \cup Writes
  BY <1>4 DEF Limited, Writes
<1>7. CASE ~(material[p] # None /\ Acquire(r, anew))
  <2>1. RunsGood' /\ LimiterInv'
    BY <1>0, <1>1, <1>2, <1>3, <1>4, <1>5, <1>6, <1>7, QuietGood, TurnGood
  <2> QED
    BY <1>1, <2>1 DEF Inv
<1> QED
  BY <1>7, <1>9

LEMMA WriteFailsGood ==
    ASSUME Inv, NEW r \in Runs, WriteFails(r)
    PROVE  Inv'
<1>1. run[r] \in RunState /\ run[r].stage \notin Limited
      /\ UNCHANGED <<material, identity, proposal>> /\ UNCHANGED limiter
  BY DEF Inv, RunsGood, WriteFails, Limited, limiter
<1>2. StoresInv' /\ identity' = identity
  BY <1>1 DEF Inv, StoresInv
<1>3. PICK at \in {Idle, Failing(run[r])} : Goes(r, at)
  BY DEF WriteFails
<1>4. at \in RunState /\ at.stage \notin Limited \cup Writes
  BY <1>1, <1>3, IdleTyped, FailingTyped
<1>5. RunsGood' /\ LimiterInv'
  BY <1>1, <1>2, <1>3, <1>4, QuietGood
<1> QED
  BY <1>2, <1>5 DEF Inv

LEMMA ReplaceGood ==
    ASSUME Inv, NEW t \in Targets, NEW c \in Contents \cup {None}, Replace(t, c)
    PROVE  Inv'
<1>1. StoresInv'
  BY DEF Replace, Inv, StoresInv, Targets
<1>2. UNCHANGED <<identity, active, waiting, run>>
  BY DEF Replace, limiter
<1>3. RunsGood'
  BY <1>2 DEF Inv, RunsGood, Good, Sound, Wanted
<1>4. LimiterInv'
  BY <1>2 DEF Inv, LimiterInv, QueueInv, SlotInv, Asking
<1> QED
  BY <1>1, <1>3, <1>4 DEF Inv

\* Where every run is idle, nobody waits and no slot is taken.
LEMMA IdleGood ==
    ASSUME run = [r \in Runs |-> Idle], active = 0, waiting = <<>>
    PROVE  RunsGood /\ LimiterInv
<1>1. RunsGood
  BY IdleTyped DEF RunsGood, Good, Sound
<1>2. \A r \in Runs : run[r].stage = "idle"
  BY DEF Idle
<1>3. QueueInv
  BY <1>2 DEF QueueInv
<1>4. Asking = {}
  BY <1>2 DEF Asking
<1>5. SlotInv
  BY <1>4, FS_EmptySet, JudgementAssumption DEF SlotInv
<1> QED
  BY <1>1, <1>3, <1>5 DEF LimiterInv

LEMMA RestartGood ==
    ASSUME Inv, NEW i \in Identities, Restart(i)
    PROVE  Inv'
<1>1. StoresInv'
  BY DEF Restart, Inv, StoresInv
<1>2. RunsGood' /\ LimiterInv'
  <2>1. \A r \in Runs : run'[r] = Idle
    BY DEF Restart
  <2>2. run' \in [Runs -> RunState] /\ active' = 0 /\ waiting' = <<>>
    BY IdleTyped DEF Restart
  <2>3. \A r \in Runs : Good(run[r])'
    BY <2>1, IdleTyped DEF Good, Sound
  <2>4. \A r \in Runs : run'[r].stage = "idle"
    BY <2>1 DEF Idle
  <2>5. QueueInv'
    BY <2>2, <2>4 DEF QueueInv
  <2>6. Asking' = {}
    BY <2>4 DEF Asking
  <2>7. SlotInv'
    BY <2>2, <2>6, FS_EmptySet, JudgementAssumption DEF SlotInv
  <2> QED
    BY <2>2, <2>3, <2>5, <2>7 DEF RunsGood, LimiterInv
<1> QED
  BY <1>1, <1>2 DEF Inv

LEMMA InvInit == Init => Inv
<1> SUFFICES ASSUME Init PROVE Inv
  OBVIOUS
<1>1. StoresInv
  BY JudgementAssumption DEF Init, StoresInv, Targets
<1> QED
  BY <1>1, IdleGood DEF Init, Inv

LEMMA InvStep == Inv /\ [Next]_vars => Inv'
<1> SUFFICES ASSUME Inv, [Next]_vars PROVE Inv'
  OBVIOUS
<1>1. CASE UNCHANGED vars
  BY <1>1 DEF vars, limiter, Inv, StoresInv, RunsGood, Good, Sound, Wanted, LimiterInv,
              QueueInv, SlotInv, Asking
<1>2. CASE Next
  BY <1>2, BeginGood, SettleGood, WriteGood, ListGood, NextFileGood, WriteFailsGood,
     ReplaceGood, RestartGood DEF Next, GoesOn
<1> QED
  BY <1>1, <1>2

LEMMA Invariance == Spec => []Inv
<1> QED
  BY InvInit, InvStep, PTL DEF Spec

-----------------------------------------------------------------------------
(* Results *)

\* Material, runs and judgements always keep their shape.
THEOREM TypeCorrect == Spec => []TypeOK
<1>1. Inv => TypeOK
  BY DEF Inv, StoresInv, RunsGood, TypeOK
<1> QED
  BY <1>1, Invariance, PTL

\* The limiter never loses or duplicates a slot and never keeps anyone waiting for a
\* free one, whatever calls fail and however many runs there are.
THEOREM Exact == Spec => []SlotsExact
<1>1. Inv => SlotsExact
  <2> SUFFICES ASSUME Inv PROVE SlotsExact
    OBVIOUS
  <2>1. /\ active = Cardinality(Asking) /\ active <= MaxConcurrent
        /\ waiting # <<>> => active = MaxConcurrent
    BY JudgementAssumption DEF Inv, LimiterInv, SlotInv
  <2>2. DOMAIN waiting = 1..Len(waiting) /\ \A i \in DOMAIN waiting : waiting[i] \in Runs
    BY DEF Inv, LimiterInv, QueueInv
  <2>3. {waiting[i] : i \in DOMAIN waiting} = {r \in Runs : run[r].stage = "waiting"}
    BY <2>2 DEF Inv, LimiterInv, QueueInv
  <2> QED
    BY <2>1, <2>3 DEF SlotsExact
<1> QED
  BY <1>1, Invariance, PTL

\* A judgement is written only about the material and by the model it was made for,
\* whatever is replaced, taken over or reconfigured in between.
THEOREM Fit == Spec => []VerdictsFit
<1>1. Inv => VerdictsFit
  BY DEF Inv, RunsGood, Good, Sound, Writes, VerdictsFit
<1> QED
  BY <1>1, Invariance, PTL
=============================================================================
