----------------------- MODULE AsyncOperationsProofs ------------------------
(***************************************************************************)
(* Theorems about AsyncOperations for any number of processes, requests,   *)
(* keys, records and phases.                                               *)
(***************************************************************************)
EXTENDS AsyncOperations, FiniteSetTheorems, SequenceTheorems, TLAPS

-----------------------------------------------------------------------------
(* The scheduler keeps its shape, and touches only runs it starts or ends *)

\* Only so many runs are under way as there are records.
LEMMA RunningFinite ==
    ASSUME NEW W \in WorkerType
    PROVE  Cardinality(Running(W)) \in Nat
<1>1. IsFiniteSet(Operations)
  BY OperationsAssumption, FS_Interval DEF Operations
<1>2. IsFiniteSet(Running(W))
  BY <1>1, FS_Subset DEF Running
<1> QED
  BY <1>2, FS_CardinalityType

\* What a run looks like before it starts and when drain has started it.
LEMMA RunShapes ==
    /\ NoRun \in RunType /\ NoRun.stage = "none"
    /\ Begun \in RunType /\ Begun.stage = "claim" /\ Begun.phase = 0
<1>1. 0 \in 0..Phases
  BY OperationsAssumption
<1>2. NoRun \in RunType
  BY <1>1 DEF NoRun, RunType
<1>3. NoRun.stage = "none" /\ NoRun.phase = 0
  BY DEF NoRun
<1>4. Begun \in RunType /\ Begun.stage = "claim" /\ Begun.phase = NoRun.phase
  BY <1>2 DEF Begun, RunType
<1> QED
  BY <1>2, <1>3, <1>4

\* drain keeps the shape of the scheduler; a run it changes has just begun.
LEMMA DrainedShape ==
    ASSUME NEW W \in WorkerType
    PROVE  /\ Drained(W) \in WorkerType
           /\ \A o \in Operations : Drained(W).run[o] \in {W.run[o], Begun}
<1> DEFINE busy == Cardinality(Running(W))
           free == IF busy < MaxConcurrent THEN MaxConcurrent - busy ELSE 0
           n == IF free < Len(W.pending) THEN free ELSE Len(W.pending)
           started == {W.pending[i] : i \in 1..n}
           rest == SubSeq(W.pending, n + 1, Len(W.pending))
           run == [o \in Operations |-> IF o \in started THEN Begun ELSE W.run[o]]
<1>1. W.pending \in Seq(Operations) /\ Len(W.pending) \in Nat
  BY DEF WorkerType
<1>2. n \in 0..Len(W.pending)
  BY <1>1, RunningFinite, OperationsAssumption
<1> HIDE DEF n
<1>3. rest \in Seq(Operations)
  <2>1. \A i \in (n + 1)..Len(W.pending) : W.pending[i] \in Operations
    BY <1>1, <1>2
  <2> QED
    BY <1>1, <1>2, <2>1, SubSeqProperties
<1>5. run \in [Operations -> RunType]
  BY RunShapes DEF WorkerType
<1>6. Drained(W) = [W EXCEPT !.pending = rest, !.run = run]
  BY DEF Drained, WorkerType, n
<1> QED
  BY <1>3, <1>5, <1>6 DEF WorkerType

\* What poll, resume and start put in the queue are records.
LEMMA UnscheduledShape ==
    ASSUME NEW W \in WorkerType, NEW ids \in SUBSET Operations,
           NEW queue \in Unscheduled(W, ids)
    PROVE  queue \in Seq(Operations)
<1> DEFINE new == ids \ W.scheduled
<1>1. IsFiniteSet(Operations)
  BY OperationsAssumption, FS_Interval DEF Operations
<1>2. IsFiniteSet(new)
  BY <1>1, FS_Subset
<1>3. Cardinality(new) \in Nat
  BY <1>2, FS_CardinalityType
<1>4. queue \in [1..Cardinality(new) -> new]
  BY DEF Unscheduled
<1> HIDE DEF new
<1>5. queue \in [1..Cardinality(new) -> Operations]
  BY <1>4 DEF new
<1> QED
  BY <1>3, <1>5, IsASeq

\* schedule keeps the shape of the scheduler and starts runs, no more.
LEMMA ScheduledShape ==
    ASSUME NEW W \in WorkerType, NEW queue \in Seq(Operations)
    PROVE  /\ Scheduled(W, queue) \in WorkerType
           /\ \A o \in Operations : Scheduled(W, queue).run[o] \in {W.run[o], Begun}
<1> DEFINE V == [W EXCEPT !.scheduled = @ \cup {queue[i] : i \in DOMAIN queue},
                          !.pending = @ \o queue]
<1>1. V \in WorkerType /\ V.run = W.run
  <2>1. {queue[i] : i \in DOMAIN queue} \subseteq Operations
    OBVIOUS
  <2>2. W.pending \o queue \in Seq(Operations)
    BY DEF WorkerType
  <2> QED
    BY <2>1, <2>2 DEF WorkerType
<1>2. Scheduled(W, queue) = IF queue = <<>> THEN W ELSE Drained(V)
  BY DEF Scheduled
<1> HIDE DEF V
<1> QED
  BY <1>1, <1>2, DrainedShape

\* The finally block of run keeps the shape too; it ends runs and starts runs.
LEMMA EndedShape ==
    ASSUME NEW W \in WorkerType, NEW p \in Operations
    PROVE  /\ Ended(W, p) \in WorkerType
           /\ \A o \in Operations : Ended(W, p).run[o] \in {W.run[o], NoRun, Begun}
<1> DEFINE V == [W EXCEPT !.scheduled = @ \ {p}, !.run[p] = NoRun]
<1>2. V \in WorkerType /\ \A o \in Operations : V.run[o] \in {W.run[o], NoRun}
  BY RunShapes DEF WorkerType
<1>3. Ended(W, p) = Drained(V)
  BY DEF Ended
<1> HIDE DEF V
<1> QED
  BY <1>2, <1>3, DrainedShape

-----------------------------------------------------------------------------
(* Type correctness *)

\* What a run's stage says about its phase.
Sound(run) ==
    /\ run.stage = "claim" => run.phase = 0
    /\ run.stage = "report" => run.phase < Phases
    /\ run.stage = "work" => run.phase > 0

RunsSound == \A w \in Workers, o \in Operations : Sound(worker[w].run[o])

RequestsBound ==
    \A r \in Requests :
        request[r].stage # "idle" => request[r].key \in Keys /\ request[r].at \in Workers

TypeInv == TypeOK /\ RunsSound /\ RequestsBound

\* The step of a scheduler that goes on with no run.
RunsStartOrEnd ==
    \A u \in Workers, p \in Operations :
        worker'[u].run[p] \in {worker[u].run[p], NoRun, Begun}

\* A scheduler that only starts and ends runs keeps the runs sound.
LEMMA SchedulerStep ==
    ASSUME TypeInv, NEW w \in Workers, NEW V \in WorkerType,
           \A o \in Operations : V.run[o] \in {worker[w].run[o], NoRun, Begun},
           worker' = [worker EXCEPT ![w] = V]
    PROVE  worker' \in [Workers -> WorkerType] /\ RunsSound' /\ RunsStartOrEnd
<1>1. worker' \in [Workers -> WorkerType]
  BY DEF TypeInv, TypeOK
<1>2. RunsStartOrEnd
  BY DEF TypeInv, TypeOK, RunsStartOrEnd
<1>3. ASSUME NEW u \in Workers, NEW o \in Operations
      PROVE  Sound(worker'[u].run[o])
  BY <1>2, RunShapes DEF RunsStartOrEnd, TypeInv, RunsSound, Sound
<1> QED
  BY <1>1, <1>2, <1>3 DEF RunsSound

\* So does a step of one run that leaves it sound.
LEMMA RunStep ==
    ASSUME TypeInv, NEW w \in Workers, NEW o \in Operations,
           NEW run \in RunType, Sound(run),
           worker' = [worker EXCEPT ![w].run[o] = run]
    PROVE  worker' \in [Workers -> WorkerType] /\ RunsSound'
<1>1. worker \in [Workers -> WorkerType]
  BY DEF TypeInv, TypeOK
<1>2. worker' \in [Workers -> WorkerType]
  BY <1>1 DEF WorkerType
<1>3. ASSUME NEW u \in Workers, NEW p \in Operations
      PROVE  Sound(worker'[u].run[p])
  <2>1. worker'[u].run[p] = IF u = w /\ p = o THEN run ELSE worker[u].run[p]
    BY <1>1 DEF WorkerType
  <2> QED
    BY <2>1 DEF TypeInv, RunsSound
<1> QED
  BY <1>2, <1>3 DEF RunsSound

\* Ending a run leaves the runs of the process sound.
LEMMA EndRunStep ==
    ASSUME TypeInv, NEW w \in Workers, NEW o \in Operations, EndRun(w, o)
    PROVE  worker' \in [Workers -> WorkerType] /\ RunsSound' /\ RunsStartOrEnd
<1>1. worker[w] \in WorkerType
  BY DEF TypeInv, TypeOK
<1>2. worker' = [worker EXCEPT ![w] = Ended(worker[w], o)]
  BY DEF EndRun
<1> QED
  BY <1>1, <1>2, EndedShape, SchedulerStep

\* Advancing a run to a stage leaves it sound if its phase fits that stage.
LEMMA GotoStep ==
    ASSUME TypeInv, NEW w \in Workers, NEW o \in Operations,
           NEW stage \in {"report", "complete", "fail"}, Goto(w, o, stage),
           stage = "report" => worker[w].run[o].phase < Phases
    PROVE  worker' \in [Workers -> WorkerType] /\ RunsSound'
<1> DEFINE run == [worker[w].run[o] EXCEPT !.stage = stage]
<1>1. worker[w].run[o] \in RunType
  BY DEF TypeInv, TypeOK, WorkerType
<1>2. run \in RunType /\ Sound(run)
  BY <1>1 DEF RunType, Sound
<1>3. worker' = [worker EXCEPT ![w].run[o] = run]
  BY DEF Goto
<1> QED
  BY <1>2, <1>3, RunStep

\* Scheduling records leaves the runs sound.
LEMMA QueueStep ==
    ASSUME TypeInv, NEW w \in Workers, NEW W \in {worker[w], Fresh},
           NEW queue \in Seq(Operations),
           worker' = [worker EXCEPT ![w] = Scheduled(W, queue)]
    PROVE  worker' \in [Workers -> WorkerType] /\ RunsSound' /\ RunsStartOrEnd
<1>1. worker[w] \in WorkerType
  BY DEF TypeInv, TypeOK
<1>2. Fresh \in WorkerType /\ \A o \in Operations : Fresh.run[o] = NoRun
  BY RunShapes, EmptySeq DEF Fresh, WorkerType
<1>3. \A o \in Operations : Scheduled(W, queue).run[o] \in {worker[w].run[o], NoRun, Begun}
  BY <1>1, <1>2, ScheduledShape
<1>4. Scheduled(W, queue) \in WorkerType
  BY <1>1, <1>2, ScheduledShape
<1> QED
  BY <1>3, <1>4, SchedulerStep

\* The store starts empty and no process has started a run.
LEMMA TypeInvInit == Init => TypeInv
<1> SUFFICES ASSUME Init PROVE TypeInv
  OBVIOUS
<1>1. op \in [Operations -> RecordType] /\ done \in [Operations -> SUBSET (1..Phases)]
  BY OperationsAssumption DEF Init, Unused, RecordType
<1>2. Fresh \in WorkerType /\ \A o \in Operations : Fresh.run[o] = NoRun
  BY RunShapes, EmptySeq DEF Fresh, WorkerType
<1>3. worker \in [Workers -> WorkerType] /\ RunsSound
  BY <1>2, RunShapes DEF Init, RunsSound, Sound
<1>4. request \in [Requests -> RequestType] /\ RequestsBound /\ faults \in 0..MaxFaults
  BY OperationsAssumption DEF Init, Answered, RequestType, RequestsBound
<1> QED
  BY <1>1, <1>3, <1>4 DEF TypeInv, TypeOK

\* Every statement of the store and of the schedulers keeps the shapes.
LEMMA TypeInvStep == TypeInv /\ [Next]_vars => TypeInv'
<1> SUFFICES ASSUME TypeInv, [Next]_vars PROVE TypeInv'
  OBVIOUS
<1> USE DEF TypeInv, TypeOK
<1>1. ASSUME NEW r \in Requests, NEW k \in Keys, NEW w \in Workers, Find(r, k, w)
      PROVE  TypeInv'
  BY <1>1 DEF Find, RequestType, RequestsBound, RunsSound
<1>2. ASSUME NEW r \in Requests, Create(r)
      PROVE  TypeInv'
  <2> DEFINE k == request[r].key
             w == request[r].at
  <2>1. request[r].stage = "create" /\ k \in Keys /\ w \in Workers
    BY <1>2 DEF Create, RequestsBound
  <2>2. CASE request' = [request EXCEPT ![r].stage = "lookup"] /\ UNCHANGED <<op, worker>>
    BY <1>2, <2>1, <2>2 DEF Create, RequestType, RequestsBound, RunsSound
  <2>3. ASSUME NEW o \in Operations,
               op' = [op EXCEPT ![o] = [Unused EXCEPT !.state = "queued", !.key = k, !.dedupe = k]],
               worker' = [worker EXCEPT ![w] = Scheduled(worker[w], <<o>>)],
               request' = [request EXCEPT ![r] = Answered]
        PROVE  TypeInv'
    <3>1. Unused \in RecordType
      BY OperationsAssumption DEF Unused, RecordType
    <3>2. [Unused EXCEPT !.state = "queued", !.key = k, !.dedupe = k] \in RecordType
      BY <2>1, <3>1 DEF RecordType
    <3>3. op' \in [Operations -> RecordType]
      BY <2>3, <3>2
    <3>4. worker' \in [Workers -> WorkerType] /\ RunsSound'
      <4>1. <<o>> \in Seq(Operations)
        OBVIOUS
      <4> HIDE DEF TypeInv, w
      <4> QED
        BY <2>1, <2>3, <4>1, QueueStep
    <3>5. request' \in [Requests -> RequestType] /\ RequestsBound'
      BY <2>3 DEF Answered, RequestType, RequestsBound
    <3> QED
      BY <1>2, <3>3, <3>4, <3>5 DEF Create
  <2> QED
    BY <1>2, <2>2, <2>3 DEF Create
<1>3. ASSUME NEW r \in Requests, Lookup(r)
      PROVE  TypeInv'
  <2> DEFINE w == request[r].at
  <2>1. request[r].stage = "lookup" /\ w \in Workers
    BY <1>3 DEF Lookup, RequestsBound
  <2>2. PICK queue \in Unscheduled(worker[w], ActiveFor(request[r].key)) :
            worker' = [worker EXCEPT ![w] = Scheduled(worker[w], queue)]
    BY <1>3 DEF Lookup
  <2>3. queue \in Seq(Operations)
    BY <2>1, <2>2, UnscheduledShape DEF ActiveFor
  <2>4. worker' \in [Workers -> WorkerType] /\ RunsSound'
    BY <2>1, <2>2, <2>3, QueueStep
  <2>5. request' \in [Requests -> RequestType] /\ RequestsBound'
    BY <1>3 DEF Lookup, Answered, RequestType, RequestsBound
  <2> QED
    BY <1>3, <2>4, <2>5 DEF Lookup
<1>4. ASSUME NEW w \in Workers, Poll(w)
      PROVE  TypeInv'
  <2>1. PICK queue \in Unscheduled(worker[w], {o \in Operations : Claimable(o)}) :
            worker' = [worker EXCEPT ![w] = Scheduled(worker[w], queue)]
    BY <1>4 DEF Poll
  <2>2. queue \in Seq(Operations)
    BY <2>1, UnscheduledShape
  <2>3. worker' \in [Workers -> WorkerType] /\ RunsSound'
    BY <2>1, <2>2, QueueStep
  <2> QED
    BY <1>4, <2>3 DEF Poll, RequestsBound
<1>5. ASSUME NEW w \in Workers, Restart(w)
      PROVE  TypeInv'
  <2>1. PICK queue \in Unscheduled(Fresh, {o \in Operations : Claimable(o)}) :
            worker' = [worker EXCEPT ![w] = Scheduled(Fresh, queue)]
    BY <1>5 DEF Restart
  <2>2. Fresh \in WorkerType
    BY RunShapes, EmptySeq DEF Fresh, WorkerType
  <2>3. queue \in Seq(Operations)
    BY <2>1, <2>2, UnscheduledShape
  <2>4. worker' \in [Workers -> WorkerType] /\ RunsSound'
    BY <2>1, <2>3, QueueStep
  <2>5. request' \in [Requests -> RequestType] /\ RequestsBound'
    BY <1>5 DEF Restart, Answered, RequestType, RequestsBound
  <2>6. faults' \in 0..MaxFaults
    BY <1>5, OperationsAssumption DEF Restart, Fault
  <2> QED
    BY <1>5, <2>4, <2>5, <2>6 DEF Restart
<1>6. ASSUME NEW w \in Workers, NEW o \in Operations, Claim(w, o) \/ LoseClaim(w, o)
      PROVE  TypeInv'
  <2>1. CASE Claimable(o)
    <3>1. worker[w].run[o].phase < Phases
      BY <1>6, OperationsAssumption DEF Claim, LoseClaim, RunsSound, Sound
    <3>2. worker' \in [Workers -> WorkerType] /\ RunsSound'
      BY <1>6, <2>1, <3>1, GotoStep DEF Claim, LoseClaim
    <3>3. op' \in [Operations -> RecordType]
      <4>1. \A rec \in RecordType :
               [rec EXCEPT !.state = "running", !.owner = w, !.expired = FALSE] \in RecordType
        BY DEF RecordType
      <4>2. op' = [op EXCEPT ![o] = [op[o] EXCEPT !.state = "running", !.owner = w,
                                                  !.expired = FALSE]]
        BY <1>6, <2>1 DEF Claim, LoseClaim
      <4> QED
        BY <4>1, <4>2
    <3>4. done' \in [Operations -> SUBSET (1..Phases)]
      BY <1>6, <2>1 DEF Claim, LoseClaim
    <3>5. faults' \in 0..MaxFaults
      BY <1>6, OperationsAssumption DEF Claim, LoseClaim, Fault
    <3> QED
      BY <1>6, <3>2, <3>3, <3>4, <3>5 DEF Claim, LoseClaim, RequestsBound
  <2>2. CASE ~Claimable(o)
    BY <1>6, <2>2, EndRunStep DEF Claim, LoseClaim, RequestsBound
  <2> QED
    BY <2>1, <2>2
<1>7. ASSUME NEW w \in Workers, NEW o \in Operations, Report(w, o)
      PROVE  TypeInv'
  <2> DEFINE run == worker[w].run[o]
  <2>0. run \in RunType /\ run.stage = "report" /\ run.phase + 1 \in 1..Phases
    BY <1>7, OperationsAssumption DEF Report, RunsSound, Sound, WorkerType, RunType
  <2>1. CASE Holds(w, o) /\ ~run.lost
    <3> DEFINE next == [run EXCEPT !.stage = "work", !.phase = run.phase + 1]
    <3>1. next \in RunType /\ Sound(next)
      <4> DEFINE p == run.phase + 1
      <4>1. p \in 0..Phases /\ p > 0
        BY <2>0
      <4>2. \A q \in 0..Phases : [run EXCEPT !.stage = "work", !.phase = q] \in RunType
        BY <2>0 DEF RunType
      <4>3. next.stage = "work" /\ next.phase = p
        BY <2>0 DEF RunType
      <4> QED
        BY <4>1, <4>2, <4>3 DEF Sound
    <3>2. worker' = [worker EXCEPT ![w].run[o] = next]
      BY <1>7, <2>1 DEF Report
    <3>3. worker' \in [Workers -> WorkerType] /\ RunsSound'
      BY <3>1, <3>2, RunStep
    <3>4. op' \in [Operations -> RecordType]
      <4>1. \A rec \in RecordType, p \in 0..Phases :
               [rec EXCEPT !.phase = p, !.expired = FALSE] \in RecordType
        BY DEF RecordType
      <4>2. op' = [op EXCEPT ![o] = [op[o] EXCEPT !.phase = run.phase + 1, !.expired = FALSE]]
        BY <1>7, <2>1 DEF Report
      <4>3. run.phase + 1 \in 0..Phases
        BY <2>0
      <4>4. [op[o] EXCEPT !.phase = run.phase + 1, !.expired = FALSE] \in RecordType
        BY <4>1, <4>3
      <4> QED
        BY <4>2, <4>4
    <3> QED
      BY <1>7, <3>3, <3>4 DEF Report, RequestsBound
  <2>2. CASE ~(Holds(w, o) /\ ~run.lost)
    BY <1>7, <2>2, EndRunStep DEF Report, RequestsBound
  <2> QED
    BY <2>1, <2>2
<1>8. ASSUME NEW w \in Workers, NEW o \in Operations, Work(w, o)
      PROVE  TypeInv'
  <2> DEFINE run == worker[w].run[o]
  <2>1. run.phase \in 1..Phases
    BY <1>8 DEF Work, RunsSound, Sound, WorkerType, RunType
  <2>2. worker' \in [Workers -> WorkerType] /\ RunsSound'
    BY <1>8, GotoStep DEF Work
  <2>3. done' \in [Operations -> SUBSET (1..Phases)]
    BY <1>8, <2>1 DEF Work
  <2> QED
    BY <1>8, <2>2, <2>3 DEF Work, RequestsBound
<1>9. ASSUME NEW w \in Workers, NEW o \in Operations, WorkFails(w, o)
      PROVE  TypeInv'
  BY <1>9, GotoStep DEF WorkFails, RequestsBound
<1>10. ASSUME NEW w \in Workers, NEW o \in Operations, Complete(w, o) \/ Fail(w, o)
       PROVE  TypeInv'
  <2>1. \A state \in {"completed", "failed"} : Closed(op[o], state) \in RecordType
    BY DEF Closed, RecordType
  <2>2. op' \in [Operations -> RecordType]
    BY <1>10, <2>1 DEF Complete, Fail
  <2>3. worker' \in [Workers -> WorkerType] /\ RunsSound'
    BY <1>10, EndRunStep DEF Complete, Fail
  <2> QED
    BY <1>10, <2>2, <2>3 DEF Complete, Fail, RequestsBound
<1>11. ASSUME NEW w \in Workers, NEW o \in Operations, ReadBeat(w, o)
       PROVE  TypeInv'
  <2> DEFINE run == worker[w].run[o]
             next == IF op[o].state = "running" THEN [run EXCEPT !.beat = op[o].phase]
                                                ELSE [run EXCEPT !.lost = TRUE]
  <2>1. run \in RunType /\ Sound(run) /\ op[o].phase \in 0..Phases
    BY DEF RunsSound, WorkerType, RecordType
  <2>2. next \in RunType /\ Sound(next)
    BY <2>1 DEF RunType, Sound
  <2>3. worker' = [worker EXCEPT ![w].run[o] = next]
    BY <1>11 DEF ReadBeat
  <2>4. worker' \in [Workers -> WorkerType] /\ RunsSound'
    BY <2>2, <2>3, RunStep
  <2> QED
    BY <1>11, <2>4 DEF ReadBeat, RequestsBound
<1>12. ASSUME NEW w \in Workers, NEW o \in Operations, WriteBeat(w, o)
       PROVE  TypeInv'
  <2> DEFINE run == worker[w].run[o]
             held == [run EXCEPT !.beat = NoBeat]
             lost == [run EXCEPT !.beat = NoBeat, !.lost = TRUE]
  <2>1. run \in RunType /\ Sound(run)
    BY DEF RunsSound, WorkerType
  <2>2. held \in RunType /\ Sound(held) /\ lost \in RunType /\ Sound(lost)
    BY <2>1 DEF RunType, Sound
  <2>3. \/ worker' = [worker EXCEPT ![w].run[o] = held]
        \/ worker' = [worker EXCEPT ![w].run[o] = lost]
    BY <1>12 DEF WriteBeat
  <2>4. worker' \in [Workers -> WorkerType] /\ RunsSound'
    BY <2>2, <2>3, RunStep
  <2>5. run.beat \in 0..Phases
    BY <1>12, <2>1 DEF WriteBeat, RunType
  <2>6. op' \in [Operations -> RecordType]
    BY <1>12, <2>5 DEF WriteBeat, RecordType
  <2> QED
    BY <1>12, <2>4, <2>6 DEF WriteBeat, RequestsBound
<1>13. ASSUME NEW w \in Workers, NEW o \in Operations, RejectWrite(w, o)
       PROVE  TypeInv'
  <2>1. worker' \in [Workers -> WorkerType] /\ RunsSound'
    BY <1>13, GotoStep, EndRunStep DEF RejectWrite
  <2>2. faults' \in 0..MaxFaults
    BY <1>13, OperationsAssumption DEF RejectWrite, Fault
  <2> QED
    BY <1>13, <2>1, <2>2 DEF RejectWrite, RequestsBound
<1>14. ASSUME NEW o \in Operations, Lapse(o)
       PROVE  TypeInv'
  <2>1. faults' \in 0..MaxFaults
    BY <1>14, OperationsAssumption DEF Lapse
  <2>2. op' \in [Operations -> RecordType]
    <3>1. op' = [op EXCEPT ![o].expired = TRUE]
      BY <1>14 DEF Lapse
    <3>2. op \in [Operations -> RecordType]
      OBVIOUS
    <3>3. [op[o] EXCEPT !.expired = TRUE] \in RecordType
      BY <3>2 DEF RecordType
    <3> HIDE DEF TypeInv, TypeOK
    <3> QED
      BY <3>1, <3>2, <3>3
  <2> QED
    BY <1>14, <2>1, <2>2 DEF Lapse, RequestsBound, RunsSound
<1>15. CASE UNCHANGED vars
  BY <1>15 DEF vars, RequestsBound, RunsSound
<1> QED
  BY <1>1, <1>2, <1>3, <1>4, <1>5, <1>6, <1>7, <1>8, <1>9, <1>10, <1>11, <1>12, <1>13,
     <1>14, <1>15 DEF Next, Start, Step, Beat

\* The store, the schedulers and the requests keep their shape.
THEOREM TypeCorrect == Spec => []TypeOK
<1>1. Spec => []TypeInv
  BY TypeInvInit, TypeInvStep, PTL DEF Spec
<1>2. TypeInv => TypeOK
  BY DEF TypeInv
<1> QED
  BY <1>1, <1>2, PTL

-----------------------------------------------------------------------------
(* The records implement the lifecycle promised to clients *)

\* The unique dedupe column holds the key of every active record and of no
\* other, which is what makes the index refuse a second active record.
Keyed ==
    /\ \A o \in Operations :
          IF op[o].state \in Active THEN op[o].key \in Keys /\ op[o].dedupe = op[o].key
                                   ELSE op[o].dedupe = NoKey
    /\ \A o, p \in Operations : op[o].dedupe = op[p].dedupe => o = p \/ op[o].dedupe = NoKey

SameLifecycle(o) ==
    op'[o].state = op[o].state /\ op'[o].key = op[o].key /\ op'[o].dedupe = op[o].dedupe

Created(o, k) ==
    /\ op[o].state = "unused"
    /\ \A p \in Operations : op[p].dedupe # k
    /\ op'[o].state = "queued" /\ op'[o].key = k /\ op'[o].dedupe = k

Claimed(o) ==
    /\ op[o].state = "queued" /\ op'[o].state = "running"
    /\ op'[o].key = op[o].key /\ op'[o].dedupe = op[o].dedupe

Ends(o) ==
    /\ op[o].state = "running" /\ op'[o].state \in {"completed", "failed"}
    /\ op'[o].key = op[o].key /\ op'[o].dedupe = NoKey

\* What a step may do to the lifecycle of the records: nothing, or one move of
\* one record.
LifecycleStep ==
    \/ \A o \in Operations : SameLifecycle(o)
    \/ \E o \in Operations :
          /\ (\E k \in Keys : Created(o, k)) \/ Claimed(o) \/ Ends(o)
          /\ \A p \in Operations \ {o} : SameLifecycle(p)

\* Each statement queues, claims or ends a record, or a client sees no change.
LEMMA StepsAreLifecycleSteps == TypeInv /\ [Next]_vars => LifecycleStep
<1> SUFFICES ASSUME TypeInv, [Next]_vars PROVE LifecycleStep
  OBVIOUS
<1>0. op \in [Operations -> RecordType]
  BY DEF TypeInv, TypeOK
<1>1. ASSUME UNCHANGED op PROVE LifecycleStep
  BY <1>1 DEF LifecycleStep, SameLifecycle
<1>2. ASSUME NEW r \in Requests, Create(r) PROVE LifecycleStep
  <2>1. request[r].key \in Keys
    BY <1>2 DEF Create, TypeInv, RequestsBound
  <2>2. CASE UNCHANGED op
    BY <1>1, <2>2
  <2>3. ASSUME NEW o \in Operations, op[o].state = "unused",
               \A p \in Operations : op[p].dedupe # request[r].key,
               op' = [op EXCEPT ![o] = [Unused EXCEPT !.state = "queued",
                                          !.key = request[r].key, !.dedupe = request[r].key]]
        PROVE  LifecycleStep
    <3>1. op'[o] = [Unused EXCEPT !.state = "queued", !.key = request[r].key,
                                  !.dedupe = request[r].key]
      BY <1>0, <2>3
    <3>2. Created(o, request[r].key)
      <4>1. Unused \in RecordType
        BY OperationsAssumption DEF Unused, RecordType
      <4>2. /\ op'[o].state = "queued"
            /\ op'[o].key = request[r].key /\ op'[o].dedupe = request[r].key
        BY <3>1, <4>1 DEF RecordType
      <4> QED
        BY <2>3, <4>2 DEF Created
    <3>3. \A p \in Operations \ {o} : SameLifecycle(p)
      BY <1>0, <2>3 DEF SameLifecycle
    <3> QED
      BY <2>1, <3>2, <3>3 DEF LifecycleStep
  <2> QED
    BY <1>2, <2>2, <2>3 DEF Create
<1>3. ASSUME NEW w \in Workers, NEW o \in Operations, Claim(w, o) \/ LoseClaim(w, o) PROVE LifecycleStep
  <2>1. CASE Claimable(o)
    <3>1. op' = [op EXCEPT ![o].state = "running", ![o].owner = w, ![o].expired = FALSE]
      BY <1>3, <2>1 DEF Claim, LoseClaim
    <3>2. /\ op'[o].state = "running"
          /\ op'[o].key = op[o].key /\ op'[o].dedupe = op[o].dedupe
      BY <1>0, <3>1 DEF RecordType
    <3>3. \A p \in Operations \ {o} : SameLifecycle(p)
      BY <1>0, <3>1 DEF SameLifecycle
    <3>4. CASE op[o].state = "queued"
      BY <3>2, <3>3, <3>4 DEF LifecycleStep, Claimed
    <3>5. CASE op[o].state = "running"
      BY <3>2, <3>3, <3>5 DEF LifecycleStep, SameLifecycle
    <3> QED
      BY <2>1, <3>4, <3>5 DEF Claimable
  <2>2. CASE ~Claimable(o)
    BY <1>1, <1>3, <2>2 DEF Claim, LoseClaim
  <2> QED
    BY <2>1, <2>2
<1>4. ASSUME NEW w \in Workers, NEW o \in Operations,
             Report(w, o) \/ WriteBeat(w, o)
      PROVE  LifecycleStep
  <2>1. \A p \in Operations : SameLifecycle(p)
    BY <1>0, <1>4 DEF Report, WriteBeat, SameLifecycle, RecordType
  <2> QED
    BY <2>1 DEF LifecycleStep
<1>5. ASSUME NEW w \in Workers, NEW o \in Operations, NEW s \in {"completed", "failed"},
             op' = [op EXCEPT ![o] = Closed(op[o], s)], Holds(w, o)
      PROVE  LifecycleStep
  <2>1. op'[o] = Closed(op[o], s)
    BY <1>0, <1>5
  <2>2. Ends(o)
    BY <1>0, <1>5, <2>1 DEF Ends, Closed, Holds, RecordType
  <2>3. \A p \in Operations \ {o} : SameLifecycle(p)
    BY <1>0, <1>5 DEF SameLifecycle
  <2> QED
    BY <2>2, <2>3 DEF LifecycleStep
<1>6. ASSUME NEW w \in Workers, NEW o \in Operations, Complete(w, o) PROVE LifecycleStep
  BY <1>1, <1>5, <1>6 DEF Complete
<1>7. ASSUME NEW w \in Workers, NEW o \in Operations, Fail(w, o) PROVE LifecycleStep
  BY <1>1, <1>5, <1>7 DEF Fail
<1>8. ASSUME NEW o \in Operations, Lapse(o) PROVE LifecycleStep
  <2>1. \A p \in Operations : SameLifecycle(p)
    BY <1>0, <1>8 DEF Lapse, SameLifecycle, RecordType
  <2> QED
    BY <2>1 DEF LifecycleStep
<1>9. ASSUME NEW r \in Requests, NEW k \in Keys, NEW w \in Workers,
              Find(r, k, w)
       PROVE  LifecycleStep
  BY <1>1, <1>9 DEF Find
<1>10. ASSUME NEW r \in Requests, Lookup(r) PROVE LifecycleStep
  BY <1>1, <1>10 DEF Lookup
<1>11. ASSUME NEW w \in Workers, Poll(w) \/ Restart(w) PROVE LifecycleStep
  BY <1>1, <1>11 DEF Poll, Restart
<1>12. ASSUME NEW w \in Workers, NEW o \in Operations,
              Work(w, o) \/ WorkFails(w, o) \/ ReadBeat(w, o) \/ RejectWrite(w, o)
       PROVE  LifecycleStep
  BY <1>1, <1>12 DEF Work, WorkFails, ReadBeat, RejectWrite
<1>13. CASE UNCHANGED vars
  BY <1>1, <1>13 DEF vars
<1> QED
  BY <1>2, <1>3, <1>4, <1>6, <1>7, <1>8, <1>9, <1>10, <1>11, <1>12, <1>13
     DEF Next, Start, Step, Beat

\* No record exists, so none lacks its dedupe key.
LEMMA KeyedInit == Init => Keyed
BY DEF Init, Unused, Keyed, Active

\* A record keeps its dedupe key for as long as it is active.
LEMMA KeyedStep == TypeInv /\ Keyed /\ [Next]_vars => Keyed'
<1> SUFFICES ASSUME TypeInv, Keyed, [Next]_vars PROVE Keyed'
  OBVIOUS
<1>1. LifecycleStep
  BY StepsAreLifecycleSteps
<1>2. CASE \A o \in Operations : SameLifecycle(o)
  BY <1>2 DEF Keyed, SameLifecycle
<1>3. ASSUME NEW o \in Operations, NEW k \in Keys, Created(o, k),
             \A p \in Operations \ {o} : SameLifecycle(p)
      PROVE  Keyed'
  BY <1>3 DEF Keyed, SameLifecycle, Created, Active
<1>4. ASSUME NEW o \in Operations, Claimed(o), \A p \in Operations \ {o} : SameLifecycle(p)
      PROVE  Keyed'
  BY <1>4 DEF Keyed, SameLifecycle, Claimed, Active
<1>5. ASSUME NEW o \in Operations, Ends(o), \A p \in Operations \ {o} : SameLifecycle(p)
      PROVE  Keyed'
  BY <1>5 DEF Keyed, SameLifecycle, Ends, Active
<1> QED
  BY <1>1, <1>2, <1>3, <1>4, <1>5 DEF LifecycleStep

\* Both invariants hold of every behaviour.
LEMMA Invariants == Spec => [](TypeInv /\ Keyed)
<1>1. Init => TypeInv /\ Keyed
  BY TypeInvInit, KeyedInit
<1>2. TypeInv /\ Keyed /\ [Next]_vars => (TypeInv /\ Keyed)'
  BY TypeInvStep, KeyedStep
<1> QED
  BY <1>1, <1>2, PTL DEF Spec

\* However many requests race, however often workers crash or stall, at most
\* one record per kind and target is active: the promise of start.
THEOREM OneActive == Spec => []OneActivePerKey
<1>1. TypeInv /\ Keyed => OneActivePerKey
  <2> SUFFICES ASSUME Keyed, NEW o \in Operations, NEW p \in Operations,
                      op[o].state \in Active, op[p].state \in Active,
                      op[o].key = op[p].key
               PROVE  o = p
    BY DEF OneActivePerKey, Lifecycle!OneActivePerKey, Active, Lifecycle!Active
  <2>1. op[o].dedupe = op[p].dedupe /\ op[o].dedupe \in Keys
    BY DEF Keyed
  <2> QED
    BY <2>1, OperationsAssumption DEF Keyed
<1> QED
  BY <1>1, Invariants, PTL

\* The operation store with its workers, requests, leases and faults
\* implements the lifecycle a client polls.
THEOREM LifecycleImplemented == Spec => LifecycleRefined
<1>1. Init => Lifecycle!Init
  BY DEF Init, Unused, Lifecycle!Init
<1>2. TypeInv /\ Keyed /\ [Next]_vars => [Lifecycle!Next]_(Lifecycle!vars)
  <2> SUFFICES ASSUME TypeInv, Keyed, [Next]_vars, ~UNCHANGED Lifecycle!vars
               PROVE  Lifecycle!Next
    OBVIOUS
  <2> DEFINE state == [o \in Operations |-> op[o].state]
             target == [o \in Operations |-> op[o].key]
  <2>1. PICK o \in Operations :
          /\ (\E k \in Keys : Created(o, k)) \/ Claimed(o) \/ Ends(o)
          /\ \A p \in Operations \ {o} : SameLifecycle(p)
    BY StepsAreLifecycleSteps DEF LifecycleStep, SameLifecycle, Lifecycle!vars
  <2>2. /\ state' = [state EXCEPT ![o] = op'[o].state]
        /\ target' = [target EXCEPT ![o] = op'[o].key]
    BY <2>1 DEF SameLifecycle
  <2>3. ASSUME NEW k \in Keys, Created(o, k) PROVE Lifecycle!Next
    <3>1. \A p \in Operations : target[p] = k => state[p] \notin Active
      BY <2>3 DEF Keyed, Created
    <3>2. state[o] = "unused" /\ op'[o].state = "queued" /\ op'[o].key = k
      BY <2>3 DEF Created
    <3>3. Lifecycle!Submit(o, k)
      BY <2>2, <3>1, <3>2 DEF Lifecycle!Submit, Active, Lifecycle!Active
    <3> QED
      BY <3>3 DEF Lifecycle!Next
  <2>4. CASE Claimed(o)
    BY <2>2, <2>4 DEF Claimed, Lifecycle!Next, Lifecycle!Claim
  <2>5. CASE Ends(o)
    BY <2>2, <2>5 DEF Ends, Lifecycle!Next, Lifecycle!End, Lifecycle!Terminal
  <2> QED
    BY <2>1, <2>3, <2>4, <2>5
<1> QED
  BY <1>1, <1>2, Invariants, PTL DEF Spec, LifecycleRefined, Lifecycle!Spec

-----------------------------------------------------------------------------
(* A completed record was earned *)

\* The phases the holder of a lease has finished, at every stage of its run.
\* A run that lost the lease to another worker claims nothing.
Earned(w, rec, d, run) ==
    rec.owner = w /\ rec.state = "running" =>
        /\ run.stage = "report" => d = 1..run.phase
        /\ run.stage = "work" => d = 1..(run.phase - 1)
        /\ run.stage = "complete" => d = 1..Phases

Earning ==
    \A w \in Workers, o \in Operations : Earned(w, op[o], done[o], worker[w].run[o])

EarnInv == CompletionIsEarned /\ Earning

\* Schedulers may start and end runs as they like.
LEMMA SchedulersEarn ==
    ASSUME TypeInv, Earning, RunsStartOrEnd,
           NEW o \in Operations, op'[o] = op[o], done'[o] = done[o], NEW w \in Workers
    PROVE  Earned(w, op'[o], done'[o], worker'[w].run[o])
<1>1. worker'[w].run[o] \in {worker[w].run[o], NoRun, Begun}
  BY DEF RunsStartOrEnd
<1> QED
  BY <1>1, RunShapes DEF Earning, Earned

\* So may a step that changes one run and nothing of what it relies on.
RunBecomes(w, o, run) ==
    \A u \in Workers, p \in Operations :
        worker'[u].run[p] = IF u = w /\ p = o THEN run ELSE worker[u].run[p]

\* Advancing a run changes its stage only.
LEMMA GotoRun ==
    ASSUME TypeInv, NEW w \in Workers, NEW o \in Operations, NEW run,
           worker' = [worker EXCEPT ![w].run[o] = run]
    PROVE  RunBecomes(w, o, run)
BY DEF TypeInv, TypeOK, WorkerType, RunBecomes

\* It is enough to look at the one record a step is about.
LEMMA EarnFrame ==
    ASSUME TypeInv, EarnInv, NEW o \in Operations,
           \A p \in Operations \ {o} :
              /\ op'[p] = op[p] /\ done'[p] = done[p]
              /\ \A u \in Workers : worker'[u].run[p] \in {worker[u].run[p], NoRun, Begun},
           \A u \in Workers : Earned(u, op'[o], done'[o], worker'[u].run[o]),
           op'[o].state = "completed" => done'[o] = 1..Phases
    PROVE  EarnInv'
<1>1. ASSUME NEW u \in Workers, NEW p \in Operations \ {o}
      PROVE  Earned(u, op'[p], done'[p], worker'[u].run[p])
  BY <1>1, RunShapes DEF EarnInv, Earning, Earned
<1>2. Earning'
  BY <1>1 DEF Earning
<1>3. CompletionIsEarned'
  BY DEF EarnInv, CompletionIsEarned
<1> QED
  BY <1>2, <1>3 DEF EarnInv

\* A step of the schedulers alone leaves what was earned.
LEMMA EarnSchedulers ==
    ASSUME TypeInv, EarnInv, RunsStartOrEnd, UNCHANGED <<op, done>>
    PROVE  EarnInv'
<1>1. Earning'
  BY SchedulersEarn DEF EarnInv, Earning
<1>2. CompletionIsEarned'
  BY DEF EarnInv, CompletionIsEarned
<1> QED
  BY <1>1, <1>2 DEF EarnInv

\* The lease holder alone adds finished phases, one after the other, and a
\* claim starts them from nothing.
LEMMA EarnStep == TypeInv /\ EarnInv /\ [Next]_vars => EarnInv'
<1> SUFFICES ASSUME TypeInv, EarnInv, [Next]_vars PROVE EarnInv'
  OBVIOUS
<1>0. /\ op \in [Operations -> RecordType] /\ done \in [Operations -> SUBSET (1..Phases)]
      /\ worker \in [Workers -> WorkerType]
  BY DEF TypeInv, TypeOK
<1>1. ASSUME UNCHANGED <<op, done, worker>> PROVE EarnInv'
  BY <1>1, EarnSchedulers DEF RunsStartOrEnd
<1>2. ASSUME NEW r \in Requests, NEW k \in Keys, NEW w \in Workers, Find(r, k, w)
      PROVE  EarnInv'
  BY <1>1, <1>2 DEF Find
<1>3. ASSUME NEW r \in Requests, Create(r) PROVE EarnInv'
  <2> DEFINE w == request[r].at
             rec == [Unused EXCEPT !.state = "queued", !.key = request[r].key,
                                   !.dedupe = request[r].key]
  <2>1. w \in Workers
    BY <1>3 DEF Create, TypeInv, RequestsBound
  <2>2. CASE UNCHANGED <<op, worker>>
    BY <1>1, <1>3, <2>2 DEF Create
  <2>3. ASSUME NEW o \in Operations, op' = [op EXCEPT ![o] = rec],
               worker' = [worker EXCEPT ![w] = Scheduled(worker[w], <<o>>)]
        PROVE  EarnInv'
    <3>1. <<o>> \in Seq(Operations)
      OBVIOUS
    <3>2. RunsStartOrEnd
      BY <2>1, <2>3, <3>1, QueueStep
    <3>3. Unused \in RecordType
      BY OperationsAssumption DEF Unused, RecordType
    <3>4. op'[o] = rec /\ rec.state = "queued"
      BY <1>0, <2>3, <3>3 DEF RecordType
    <3>5. \A u \in Workers : Earned(u, op'[o], done'[o], worker'[u].run[o])
      BY <3>4 DEF Earned
    <3>6. \A p \in Operations \ {o} : op'[p] = op[p] /\ done'[p] = done[p]
      BY <1>0, <1>3, <2>3 DEF Create
    <3> QED
      BY <3>2, <3>4, <3>5, <3>6, EarnFrame DEF RunsStartOrEnd
  <2> QED
    BY <1>3, <2>2, <2>3 DEF Create
<1>4. ASSUME NEW r \in Requests, Lookup(r) PROVE EarnInv'
  <2> DEFINE w == request[r].at
  <2>1. w \in Workers
    BY <1>4 DEF Lookup, TypeInv, RequestsBound
  <2>2. PICK queue \in Unscheduled(worker[w], ActiveFor(request[r].key)) :
            worker' = [worker EXCEPT ![w] = Scheduled(worker[w], queue)]
    BY <1>4 DEF Lookup
  <2>3. queue \in Seq(Operations)
    BY <1>0, <2>1, <2>2, UnscheduledShape DEF ActiveFor
  <2>4. RunsStartOrEnd
    BY <2>1, <2>2, <2>3, QueueStep
  <2> QED
    BY <1>4, <2>4, EarnSchedulers DEF Lookup
<1>5. ASSUME NEW w \in Workers, Poll(w) \/ Restart(w) PROVE EarnInv'
  <2>1. PICK W \in {worker[w], Fresh} :
          \E queue \in Unscheduled(W, {o \in Operations : Claimable(o)}) :
            worker' = [worker EXCEPT ![w] = Scheduled(W, queue)]
    BY <1>5 DEF Poll, Restart
  <2>2. W \in WorkerType
    <3>1. Fresh \in WorkerType
      BY RunShapes, EmptySeq DEF Fresh, WorkerType
    <3> QED
      BY <1>0, <3>1
  <2>3. PICK queue \in Unscheduled(W, {o \in Operations : Claimable(o)}) :
            worker' = [worker EXCEPT ![w] = Scheduled(W, queue)]
    BY <2>1
  <2>4. queue \in Seq(Operations)
    BY <2>2, <2>3, UnscheduledShape
  <2>5. RunsStartOrEnd
    BY <2>3, <2>4, QueueStep
  <2> QED
    BY <1>5, <2>5, EarnSchedulers DEF Poll, Restart
<1>6. ASSUME NEW w \in Workers, NEW o \in Operations, EndRun(w, o), UNCHANGED <<op, done>>
      PROVE  EarnInv'
  BY <1>6, EndRunStep, EarnSchedulers
<1>7. ASSUME NEW w \in Workers, NEW o \in Operations, Claim(w, o) \/ LoseClaim(w, o) PROVE EarnInv'
  <2>1. CASE ~Claimable(o)
    BY <1>6, <1>7, <2>1 DEF Claim, LoseClaim
  <2>2. CASE Claimable(o)
    <3>0. PICK stage \in {"report", "fail"} : Goto(w, o, stage)
      BY <1>7, <2>2 DEF Claim, LoseClaim
    <3> DEFINE run == [worker[w].run[o] EXCEPT !.stage = stage]
    <3>1. RunBecomes(w, o, run)
      BY <3>0, GotoRun DEF Goto
    <3>2. run.stage = stage /\ run.phase = 0
      BY <1>0, <1>7 DEF Claim, LoseClaim, TypeInv, RunsSound, Sound, WorkerType, RunType
    <3>3. op'[o].owner = w /\ op'[o].state = "running" /\ done'[o] = {}
      BY <1>0, <1>7, <2>2 DEF Claim, LoseClaim, RecordType
    <3>4. \A p \in Operations \ {o} : op'[p] = op[p] /\ done'[p] = done[p]
      BY <1>0, <1>7, <2>2 DEF Claim, LoseClaim
    <3> HIDE DEF run
    <3>5. 1..0 = {}
      OBVIOUS
    <3>6. Earned(w, op'[o], done'[o], worker'[w].run[o])
      BY <3>1, <3>2, <3>3, <3>5 DEF RunBecomes, Earned
    <3>7. \A u \in Workers : Earned(u, op'[o], done'[o], worker'[u].run[o])
      BY <3>3, <3>6 DEF Earned
    <3>8. \A p \in Operations \ {o} : \A u \in Workers :
             worker'[u].run[p] \in {worker[u].run[p], NoRun, Begun}
      BY <3>1 DEF RunBecomes
    <3> QED
      BY <3>3, <3>4, <3>7, <3>8, EarnFrame
  <2> QED
    BY <2>1, <2>2
<1>8. ASSUME NEW w \in Workers, NEW o \in Operations, Report(w, o) PROVE EarnInv'
  <2> DEFINE run == worker[w].run[o]
             next == [run EXCEPT !.stage = "work", !.phase = run.phase + 1]
  <2>1. CASE ~(Holds(w, o) /\ ~run.lost)
    BY <1>6, <1>8, <2>1 DEF Report
  <2>2. CASE Holds(w, o) /\ ~run.lost
    <3>1. worker' = [worker EXCEPT ![w].run[o] = next]
      BY <1>8, <2>2 DEF Report
    <3>2. RunBecomes(w, o, next)
      BY <3>1, GotoRun
    <3>3. run \in RunType /\ run.stage = "report"
      BY <1>0, <1>8 DEF Report, WorkerType
    <3>4. next.stage = "work" /\ next.phase - 1 = run.phase
      BY <3>3 DEF RunType
    <3>5. op'[o].owner = w /\ op'[o].state = "running" /\ done'[o] = done[o]
      BY <1>0, <1>8, <2>2 DEF Report, Holds, RecordType
    <3>6. \A p \in Operations \ {o} : op'[p] = op[p] /\ done'[p] = done[p]
      BY <1>0, <1>8, <2>2 DEF Report
    <3>7. done[o] = 1..run.phase
      BY <2>2, <3>3 DEF EarnInv, Earning, Earned, Holds
    <3> HIDE DEF next
    <3>8. \A u \in Workers : Earned(u, op'[o], done'[o], worker'[u].run[o])
      BY <3>2, <3>4, <3>5, <3>7 DEF RunBecomes, Earned
    <3> QED
      BY <3>2, <3>5, <3>6, <3>8, EarnFrame DEF RunBecomes
  <2> QED
    BY <2>1, <2>2
<1>9. ASSUME NEW w \in Workers, NEW o \in Operations, Work(w, o) PROVE EarnInv'
  <2> DEFINE run == worker[w].run[o]
             stage == IF run.phase < Phases THEN "report" ELSE "complete"
             next == [run EXCEPT !.stage = stage]
  <2>1. worker' = [worker EXCEPT ![w].run[o] = next]
    BY <1>9 DEF Work, Goto
  <2>2. RunBecomes(w, o, next)
    BY <2>1, GotoRun
  <2>3. run \in RunType /\ run.stage = "work" /\ run.phase \in 1..Phases
    BY <1>0, <1>9 DEF Work, TypeInv, RunsSound, Sound, WorkerType, RunType
  <2>4. next.stage = stage /\ next.phase = run.phase
    BY <2>3 DEF RunType
  <2>5. UNCHANGED op /\ \A p \in Operations \ {o} : done'[p] = done[p]
    BY <1>0, <1>9 DEF Work
  <2>6. CASE Holds(w, o)
    <3>1. done[o] = 1..(run.phase - 1) /\ done'[o] = done[o] \cup {run.phase}
      BY <1>0, <1>9, <2>3, <2>6 DEF Work, EarnInv, Earning, Earned, Holds
    <3>2. done'[o] = 1..run.phase
      BY <2>3, <3>1
    <3>3. stage = "complete" => run.phase = Phases
      BY <2>3, OperationsAssumption
    <3> HIDE DEF next
    <3>4. \A u \in Workers : Earned(u, op'[o], done'[o], worker'[u].run[o])
      BY <2>2, <2>4, <2>5, <2>6, <3>2, <3>3 DEF RunBecomes, Earned, Holds
    <3> QED
      BY <2>2, <2>5, <2>6, <3>4, EarnFrame DEF RunBecomes, Holds
  <2>7. CASE ~Holds(w, o)
    <3>1. done'[o] = done[o]
      BY <1>9, <2>7 DEF Work
    <3> HIDE DEF next
    <3>2. \A u \in Workers : Earned(u, op'[o], done'[o], worker'[u].run[o])
      BY <2>2, <2>5, <2>7, <3>1 DEF RunBecomes, EarnInv, Earning, Earned, Holds
    <3> QED
      BY <2>2, <2>5, <3>1, <3>2, EarnFrame DEF RunBecomes, EarnInv, CompletionIsEarned
  <2> QED
    BY <2>6, <2>7
<1>10. ASSUME NEW w \in Workers, NEW o \in Operations, NEW run \in RunType, UNCHANGED done,
              worker' = [worker EXCEPT ![w].run[o] = run],
              \/ run.stage = "fail"
              \/ /\ run.stage = worker[w].run[o].stage
                 /\ run.phase = worker[w].run[o].phase,
              \A p \in Operations : /\ op'[p].owner = op[p].owner
                                    /\ op'[p].state = op[p].state
       PROVE  EarnInv'
  <2>1. RunBecomes(w, o, run)
    BY <1>10, GotoRun
  <2>2. Earning'
    BY <1>10, <2>1 DEF EarnInv, Earning, Earned, RunBecomes
  <2> QED
    BY <1>10, <2>2 DEF EarnInv, CompletionIsEarned
<1>11. ASSUME NEW w \in Workers, NEW o \in Operations, UNCHANGED <<op, done>>,
              Goto(w, o, "fail")
       PROVE  EarnInv'
  <2> DEFINE run == [worker[w].run[o] EXCEPT !.stage = "fail"]
  <2>1. worker[w].run[o] \in RunType
    BY <1>0 DEF WorkerType
  <2>2. run \in RunType /\ run.stage = "fail"
    BY <2>1 DEF RunType
  <2>3. worker' = [worker EXCEPT ![w].run[o] = run]
    BY <1>11 DEF Goto
  <2> HIDE DEF run
  <2> QED
    BY <1>10, <1>11, <2>2, <2>3
<1>12. ASSUME NEW w \in Workers, NEW o \in Operations, WorkFails(w, o) \/ RejectWrite(w, o)
       PROVE  EarnInv'
  BY <1>6, <1>11, <1>12 DEF WorkFails, RejectWrite
<1>13. ASSUME NEW w \in Workers, NEW o \in Operations, Complete(w, o) \/ Fail(w, o)
       PROVE  EarnInv'
  <2>1. RunsStartOrEnd /\ UNCHANGED done
    BY <1>13, EndRunStep DEF Complete, Fail
  <2>2. CASE UNCHANGED op
    BY <2>1, <2>2, EarnSchedulers
  <2>3. ASSUME NEW s \in {"completed", "failed"}, Holds(w, o),
               op' = [op EXCEPT ![o] = Closed(op[o], s)],
               s = "completed" => Complete(w, o)
        PROVE  EarnInv'
    <3>1. op'[o].state = s
      BY <1>0, <2>3 DEF Closed, RecordType
    <3>2. s = "completed" => done[o] = 1..Phases
      BY <2>3 DEF Complete, EarnInv, Earning, Earned, Holds
    <3>3. \A u \in Workers : Earned(u, op'[o], done'[o], worker'[u].run[o])
      BY <3>1 DEF Earned
    <3>4. \A p \in Operations \ {o} : op'[p] = op[p] /\ done'[p] = done[p]
      BY <1>0, <2>1, <2>3
    <3> QED
      BY <2>1, <3>1, <3>2, <3>3, <3>4, EarnFrame DEF RunsStartOrEnd
  <2> QED
    BY <1>13, <2>2, <2>3 DEF Complete, Fail
<1>14. ASSUME NEW w \in Workers, NEW o \in Operations, ReadBeat(w, o) PROVE EarnInv'
  <2> DEFINE run == worker[w].run[o]
             next == IF op[o].state = "running" THEN [run EXCEPT !.beat = op[o].phase]
                                                ELSE [run EXCEPT !.lost = TRUE]
  <2>1. run \in RunType /\ op[o].phase \in 0..Phases
    BY <1>0 DEF WorkerType, RecordType
  <2>2. next \in RunType /\ next.stage = run.stage /\ next.phase = run.phase
    BY <2>1 DEF RunType
  <2>3. worker' = [worker EXCEPT ![w].run[o] = next]
    BY <1>14 DEF ReadBeat
  <2>4. UNCHANGED <<op, done>>
    BY <1>14 DEF ReadBeat
  <2> HIDE DEF next
  <2> QED
    BY <1>10, <2>2, <2>3, <2>4
<1>15. ASSUME NEW w \in Workers, NEW o \in Operations, WriteBeat(w, o) PROVE EarnInv'
  <2> DEFINE run == worker[w].run[o]
             held == [run EXCEPT !.beat = NoBeat]
             lost == [run EXCEPT !.beat = NoBeat, !.lost = TRUE]
  <2>1. run \in RunType
    BY <1>0 DEF WorkerType
  <2>2. /\ held \in RunType /\ held.stage = run.stage /\ held.phase = run.phase
        /\ lost \in RunType /\ lost.stage = run.stage /\ lost.phase = run.phase
    BY <2>1 DEF RunType
  <2>3. PICK next \in {held, lost} : worker' = [worker EXCEPT ![w].run[o] = next]
    BY <1>15 DEF WriteBeat
  <2>4. \A p \in Operations : op'[p].owner = op[p].owner /\ op'[p].state = op[p].state
    BY <1>0, <1>15 DEF WriteBeat, RecordType
  <2>5. UNCHANGED done
    BY <1>15 DEF WriteBeat
  <2>6. next \in RunType /\ next.stage = run.stage /\ next.phase = run.phase
    BY <2>2, <2>3
  <2> HIDE DEF held, lost
  <2> QED
    BY <1>10, <2>3, <2>4, <2>5, <2>6
<1>16. ASSUME NEW o \in Operations, Lapse(o) PROVE EarnInv'
  <2>1. \A p \in Operations : op'[p].owner = op[p].owner /\ op'[p].state = op[p].state
    BY <1>0, <1>16 DEF Lapse, RecordType
  <2>2. UNCHANGED <<done, worker>>
    BY <1>16 DEF Lapse
  <2> QED
    BY <2>1, <2>2 DEF EarnInv, CompletionIsEarned, Earning, Earned
<1>17. CASE UNCHANGED vars
  BY <1>1, <1>17 DEF vars
<1> QED
  BY <1>2, <1>3, <1>4, <1>5, <1>7, <1>8, <1>9, <1>12, <1>13, <1>14, <1>15, <1>16, <1>17
     DEF Next, Start, Step, Beat

\* A record says completed only if one worker finished the use case of every
\* phase under one lease: a stale worker never completes another's work.
THEOREM Earnt == Spec => []CompletionIsEarned
<1>1. Init => EarnInv
  BY DEF Init, Unused, EarnInv, CompletionIsEarned, Earning, Earned
<1>2. (TypeInv /\ Keyed) /\ EarnInv /\ [Next]_vars => EarnInv'
  BY EarnStep
<1>3. EarnInv => CompletionIsEarned
  BY DEF EarnInv
<1> QED
  BY <1>1, <1>2, <1>3, Invariants, PTL DEF Spec
-----------------------------------------------------------------------------
(* The schedulers *)

\* What is scheduled is waiting once or running, and the slots suffice.
Coherent(W) ==
    /\ W.scheduled = Waiting(W) \cup Running(W)
    /\ Waiting(W) \cap Running(W) = {}
    /\ \A i, j \in DOMAIN W.pending : W.pending[i] = W.pending[j] => i = j
    /\ Cardinality(Running(W)) <= MaxConcurrent

\* Work only waits if every slot is taken.
Busy(W) == W.pending # <<>> => Cardinality(Running(W)) = MaxConcurrent

\* A scheduler only knows records that exist.
Existing == {o \in Operations : op[o].state # "unused"}
Schedulers ==
    \A w \in Workers :
        Coherent(worker[w]) /\ Busy(worker[w]) /\ worker[w].scheduled \subseteq Existing

\* The first elements of a sequence without repetitions are as many as they are.
LEMMA PrefixCardinality ==
    ASSUME NEW S, NEW s \in Seq(S), NEW n \in 0..Len(s), NEW T,
           \A i \in 1..n : s[i] \in T, \A x \in T : \E i \in 1..n : s[i] = x,
           \A i, j \in DOMAIN s : s[i] = s[j] => i = j
    PROVE  IsFiniteSet(T) /\ Cardinality(T) = n
<1> DEFINE f == [i \in 1..n |-> s[i]]
<1>0. n \in Nat /\ 1..n \subseteq DOMAIN s
  BY LenProperties
<1>1. IsFiniteSet(1..n) /\ Cardinality(1..n) = n
  BY <1>0, FS_Interval
<1>2. f \in Surjection(1..n, T)
  BY DEF Surjection
<1>3. f \in Injection(1..n, T)
  BY <1>0 DEF Injection, IsInjective
<1>4. ExistsBijection(1..n, T)
  BY <1>2, <1>3 DEF ExistsBijection, Bijection
<1> QED
  BY <1>1, <1>4, FS_Bijection

\* drain fills the free slots from the head of the queue.
LEMMA DrainedCoherent ==
    ASSUME NEW W \in WorkerType, Coherent(W)
    PROVE  /\ Coherent(Drained(W)) /\ Busy(Drained(W))
           /\ Drained(W).scheduled = W.scheduled
<1> DEFINE p == W.pending
           busy == Cardinality(Running(W))
           free == IF busy < MaxConcurrent THEN MaxConcurrent - busy ELSE 0
           n == IF free < Len(p) THEN free ELSE Len(p)
           started == {p[i] : i \in 1..n}
           rest == SubSeq(p, n + 1, Len(p))
           run == [o \in Operations |-> IF o \in started THEN Begun ELSE W.run[o]]
           V == Drained(W)
<1>1. /\ p \in Seq(Operations) /\ Len(p) \in Nat /\ DOMAIN p = 1..Len(p)
      /\ \A i \in 1..Len(p) : p[i] \in Operations
  BY DEF WorkerType
<1>2. busy \in Nat /\ busy <= MaxConcurrent
  BY RunningFinite DEF Coherent
<1>3. n \in 0..Len(p) /\ busy + n <= MaxConcurrent /\ (n < Len(p) => busy + n = MaxConcurrent)
  BY <1>1, <1>2, OperationsAssumption
<1>4. V = [W EXCEPT !.pending = rest, !.run = run]
  BY DEF Drained, WorkerType
<1> HIDE DEF n, busy
<1>5. V.pending = rest /\ V.run = run /\ V.scheduled = W.scheduled
  <2> HIDE DEF rest, run
  <2> QED
    BY <1>4 DEF WorkerType
<1>6. /\ Len(rest) = Len(p) - n /\ rest \in Seq(Operations)
      /\ DOMAIN rest = 1..(Len(p) - n)
      /\ \A i \in 1..(Len(p) - n) : rest[i] = p[n + i]
  <2>1. n + 1 \in Int /\ Len(p) \in Int /\ \A i \in (n + 1)..Len(p) : p[i] \in Operations
    BY <1>1, <1>3
  <2>2. /\ rest \in Seq(Operations)
        /\ Len(rest) = IF n + 1 <= Len(p) THEN Len(p) - (n + 1) + 1 ELSE 0
        /\ \A i \in 1..(Len(p) - (n + 1) + 1) : rest[i] = p[n + 1 + i - 1]
    BY <2>1, SubSeqProperties
  <2> HIDE DEF rest
  <2>3. Len(rest) = Len(p) - n
    BY <1>1, <1>3, <2>2
  <2>4. DOMAIN rest = 1..(Len(p) - n)
    BY <2>2, <2>3, LenProperties
  <2> QED
    BY <1>1, <1>3, <2>2, <2>3, <2>4
<1> HIDE DEF rest
<1>7. Running(V) = Running(W) \cup started
  <2>1. started \subseteq Operations
    BY <1>1, <1>3
  <2> QED
    BY <1>5, <2>1, RunShapes DEF Running
<1>8. Waiting(W) = {p[i] : i \in 1..Len(p)}
  BY <1>1 DEF Waiting
<1>9. Waiting(V) = {p[i] : i \in (n + 1)..Len(p)}
  <2>1. Waiting(V) = {rest[i] : i \in 1..(Len(p) - n)}
    BY <1>5, <1>6 DEF Waiting
  <2>2. \A i \in 1..(Len(p) - n) : n + i \in (n + 1)..Len(p) /\ rest[i] = p[n + i]
    BY <1>1, <1>3, <1>6
  <2>3. \A i \in (n + 1)..Len(p) : i - n \in 1..(Len(p) - n) /\ p[i] = rest[i - n]
    BY <1>1, <1>3, <1>6
  <2> QED
    BY <2>1, <2>2, <2>3
<1>10. \A i, j \in 1..Len(p) : p[i] = p[j] => i = j
  BY <1>1 DEF Coherent
<1>11. Waiting(V) \cap Running(V) = {} /\ Waiting(V) \cup Running(V) = Waiting(W) \cup Running(W)
  <2>1. \A i \in 1..Len(p) : i \in 1..n \/ i \in (n + 1)..Len(p)
    BY <1>1, <1>3
  <2>2. Waiting(W) = started \cup Waiting(V)
    BY <1>1, <1>3, <1>8, <1>9, <2>1
  <2>3. started \cap Waiting(V) = {}
    BY <1>1, <1>3, <1>9, <1>10
  <2> QED
    BY <1>7, <2>2, <2>3 DEF Coherent
<1>12. Cardinality(Running(V)) = busy + n
  <2>1. IsFiniteSet(started) /\ Cardinality(started) = n
    <3>1. \A i, j \in DOMAIN p : p[i] = p[j] => i = j
      BY DEF Coherent
    <3>2. (\A i \in 1..n : p[i] \in started) /\ \A x \in started : \E i \in 1..n : p[i] = x
      OBVIOUS
    <3> HIDE DEF p, started
    <3> QED
      BY <1>1, <1>3, <3>1, <3>2, PrefixCardinality
  <2>2. IsFiniteSet(Running(W))
    <3>1. IsFiniteSet(Operations)
      BY OperationsAssumption, FS_Interval DEF Operations
    <3> QED
      BY <3>1, FS_Subset DEF Running
  <2>3. Running(W) \cap started = {}
    BY <1>1, <1>3, <1>8 DEF Coherent
  <2>4. Cardinality(Running(W) \cup started) = busy + n - Cardinality({})
    BY <2>1, <2>2, <2>3, FS_Union DEF busy
  <2> QED
    BY <1>2, <1>3, <1>7, <2>4, FS_EmptySet
<1>13. \A i, j \in DOMAIN V.pending : V.pending[i] = V.pending[j] => i = j
  <2>1. \A i, j \in 1..(Len(p) - n) : rest[i] = rest[j] => i = j
    BY <1>1, <1>3, <1>6, <1>10
  <2> QED
    BY <1>5, <1>6, <2>1
<1>14. V.pending # <<>> => busy + n = MaxConcurrent
  <2>1. V.pending # <<>> => Len(rest) # 0
    BY <1>5, <1>6, EmptySeq
  <2> QED
    BY <1>1, <1>3, <1>6, <2>1
<1> QED
  BY <1>3, <1>5, <1>11, <1>12, <1>13, <1>14 DEF Coherent, Busy

\* schedule appends records that are not scheduled yet, and drains.
LEMMA ScheduledCoherent ==
    ASSUME NEW W \in WorkerType, Coherent(W), Busy(W), NEW queue \in Seq(Operations),
           \A i \in DOMAIN queue : queue[i] \notin W.scheduled,
           \A i, j \in DOMAIN queue : queue[i] = queue[j] => i = j
    PROVE  /\ Coherent(Scheduled(W, queue)) /\ Busy(Scheduled(W, queue))
           /\ Scheduled(W, queue).scheduled \subseteq W.scheduled \cup {queue[i] : i \in DOMAIN queue}
<1> DEFINE new == {queue[i] : i \in DOMAIN queue}
           V == [W EXCEPT !.scheduled = @ \cup new, !.pending = @ \o queue]
           p == W.pending
<1>1. CASE queue = <<>>
  BY <1>1 DEF Scheduled
<1>2. CASE queue # <<>>
  <2>0. new \subseteq Operations /\ p \in Seq(Operations) /\ W.run \in [Operations -> RunType]
    BY DEF WorkerType
  <2>1. V.scheduled = W.scheduled \cup new /\ V.pending = p \o queue /\ V.run = W.run
    BY DEF WorkerType
  <2>2. /\ p \o queue \in Seq(Operations) /\ Len(p) \in Nat /\ Len(queue) \in Nat
        /\ DOMAIN (p \o queue) = 1..(Len(p) + Len(queue))
        /\ DOMAIN p = 1..Len(p) /\ DOMAIN queue = 1..Len(queue)
        /\ \A i \in 1..(Len(p) + Len(queue)) :
              (p \o queue)[i] = IF i <= Len(p) THEN p[i] ELSE queue[i - Len(p)]
    BY <2>0, ConcatProperties, LenProperties
  <2>3. V \in WorkerType
    <3> HIDE DEF new
    <3> QED
      BY <2>0, <2>2 DEF WorkerType
  <2>4. Waiting(V) = Waiting(W) \cup new
    <3>1. \A i \in 1..Len(p) : i \in 1..(Len(p) + Len(queue)) /\ (p \o queue)[i] = p[i]
      BY <2>2
    <3>2. \A i \in 1..Len(queue) : /\ i + Len(p) \in 1..(Len(p) + Len(queue))
                                   /\ (p \o queue)[i + Len(p)] = queue[i]
      BY <2>2
    <3>3. \A i \in 1..(Len(p) + Len(queue)) :
              \/ i \in 1..Len(p) /\ (p \o queue)[i] = p[i]
              \/ i - Len(p) \in 1..Len(queue) /\ (p \o queue)[i] = queue[i - Len(p)]
      BY <2>2
    <3>4. Waiting(V) = {(p \o queue)[i] : i \in 1..(Len(p) + Len(queue))}
      BY <2>1, <2>2 DEF Waiting
    <3>5. Waiting(W) = {p[i] : i \in 1..Len(p)}
      BY <2>2 DEF Waiting
    <3>6. new = {queue[i] : i \in 1..Len(queue)}
      BY <2>2
    <3> HIDE DEF p, new, V
    <3>7. Waiting(V) \subseteq Waiting(W) \cup new
      BY <3>3, <3>4, <3>5, <3>6
    <3>8. Waiting(W) \subseteq Waiting(V)
      BY <3>1, <3>4, <3>5
    <3>9. new \subseteq Waiting(V)
      BY <3>2, <3>4, <3>6
    <3> QED
      BY <3>7, <3>8, <3>9
  <2>5. Running(V) = Running(W)
    BY <2>1 DEF Running
  <2>6. new \cap W.scheduled = {}
    OBVIOUS
  <2>7. \A i, j \in DOMAIN V.pending : V.pending[i] = V.pending[j] => i = j
    <3> SUFFICES ASSUME NEW i \in 1..(Len(p) + Len(queue)), NEW j \in 1..(Len(p) + Len(queue)),
                        (p \o queue)[i] = (p \o queue)[j]
                 PROVE  i = j
      BY <2>1, <2>2
    <3>1. \A k \in 1..Len(p), l \in 1..Len(queue) : p[k] # queue[l]
      <4>1. \A k \in 1..Len(p) : p[k] \in W.scheduled
        BY <2>2 DEF Coherent, Waiting
      <4> QED
        BY <2>2, <4>1
    <3>2. \A k, l \in 1..Len(p) : p[k] = p[l] => k = l
      BY <2>2 DEF Coherent
    <3>3. CASE i <= Len(p) /\ j <= Len(p)
      BY <2>2, <3>2, <3>3
    <3>4. CASE i > Len(p) /\ j > Len(p)
      <4>1. /\ i - Len(p) \in 1..Len(queue) /\ j - Len(p) \in 1..Len(queue)
            /\ queue[i - Len(p)] = queue[j - Len(p)]
        BY <2>2, <3>4
      <4>2. i - Len(p) = j - Len(p)
        BY <2>2, <4>1
      <4> QED
        BY <2>2, <4>2
    <3>5. CASE i <= Len(p) /\ j > Len(p)
      BY <2>2, <3>1, <3>5
    <3>6. CASE i > Len(p) /\ j <= Len(p)
      BY <2>2, <3>1, <3>6
    <3> QED
      BY <2>2, <3>3, <3>4, <3>5, <3>6
  <2>8. Coherent(V)
    <3> HIDE DEF V, new
    <3> QED
      BY <2>1, <2>4, <2>5, <2>6, <2>7 DEF Coherent
  <2>9. Scheduled(W, queue) = Drained(V)
    BY <1>2 DEF Scheduled
  <2> HIDE DEF V, new
  <2>10. Scheduled(W, queue).scheduled \subseteq W.scheduled \cup new
    BY <2>1, <2>3, <2>8, <2>9, DrainedCoherent
  <2> QED
    BY <2>3, <2>8, <2>9, <2>10, DrainedCoherent DEF new
<1> QED
  BY <1>1, <1>2

\* The finally block takes the run off the schedule and drains.
LEMMA EndedCoherent ==
    ASSUME NEW W \in WorkerType, Coherent(W), NEW o \in Running(W)
    PROVE  /\ Coherent(Ended(W, o)) /\ Busy(Ended(W, o))
           /\ Ended(W, o).scheduled \subseteq W.scheduled
<1> DEFINE V == [W EXCEPT !.scheduled = @ \ {o}, !.run[o] = NoRun]
<1>1. V \in WorkerType /\ V.scheduled = W.scheduled \ {o} /\ V.pending = W.pending
  BY RunShapes DEF WorkerType
<1>2. Running(V) = Running(W) \ {o}
  BY RunShapes DEF WorkerType, Running
<1>3. Waiting(V) = Waiting(W) /\ o \notin Waiting(W)
  BY <1>1 DEF Waiting, Coherent
<1>4. Cardinality(Running(V)) <= MaxConcurrent
  <2>1. IsFiniteSet(Running(W))
    <3>1. IsFiniteSet(Operations)
      BY OperationsAssumption, FS_Interval DEF Operations
    <3> QED
      BY <3>1, FS_Subset DEF Running
  <2>2. Cardinality(Running(V)) = Cardinality(Running(W)) - 1
    BY <1>2, <2>1, FS_RemoveElement
  <2>3. Cardinality(Running(W)) \in Nat /\ Cardinality(Running(W)) <= MaxConcurrent
    BY RunningFinite DEF Coherent
  <2> QED
    BY <2>2, <2>3, OperationsAssumption
<1>5. Ended(W, o) = Drained(V)
  BY DEF Ended
<1> HIDE DEF V
<1>6. Coherent(V)
  BY <1>1, <1>2, <1>3, <1>4 DEF Coherent
<1> QED
  BY <1>1, <1>5, <1>6, DrainedCoherent

\* A run that goes on stays in its slot.
LEMMA GoesOnCoherent ==
    ASSUME NEW W \in WorkerType, Coherent(W), Busy(W), NEW o \in Running(W),
           NEW run \in RunType, run.stage # "none"
    PROVE  LET V == [W EXCEPT !.run[o] = run]
           IN  V \in WorkerType /\ Coherent(V) /\ Busy(V) /\ V.scheduled = W.scheduled
<1> DEFINE V == [W EXCEPT !.run[o] = run]
<1>1. o \in Operations
  BY DEF Running
<1>2. V \in WorkerType /\ V.scheduled = W.scheduled /\ V.pending = W.pending
  BY <1>1 DEF WorkerType
<1>3. Running(V) = Running(W)
  BY <1>1 DEF WorkerType, Running
<1>4. Waiting(V) = Waiting(W)
  BY <1>2 DEF Waiting
<1> HIDE DEF V
<1>5. Coherent(V) /\ Busy(V)
  BY <1>2, <1>3, <1>4 DEF Coherent, Busy
<1> QED
  BY <1>2, <1>5 DEF V

LEMMA FreshCoherent == Fresh \in WorkerType /\ Coherent(Fresh) /\ Busy(Fresh) /\ Fresh.scheduled = {}
<1>1. Fresh \in WorkerType
  BY RunShapes, EmptySeq DEF Fresh, WorkerType
<1>2. Running(Fresh) = {} /\ Waiting(Fresh) = {} /\ Fresh.scheduled = {} /\ Fresh.pending = <<>>
  BY RunShapes DEF Fresh, Running, Waiting
<1>3. Cardinality({}) = 0
  BY FS_EmptySet
<1> QED
  BY <1>1, <1>2, <1>3, OperationsAssumption DEF Coherent, Busy

-----------------------------------------------------------------------------
\* What poll, resume and start schedule is new to the scheduler, and once.
LEMMA UnscheduledNew ==
    ASSUME NEW W \in WorkerType, NEW ids \in SUBSET Operations,
           NEW queue \in Unscheduled(W, ids)
    PROVE  /\ queue \in Seq(Operations)
           /\ \A i \in DOMAIN queue : queue[i] \notin W.scheduled /\ queue[i] \in ids
           /\ \A i, j \in DOMAIN queue : queue[i] = queue[j] => i = j
<1>1. queue \in Seq(Operations)
  BY UnscheduledShape
<1>2. DOMAIN queue \subseteq Nat
  BY <1>1
<1>3. \A i \in DOMAIN queue : queue[i] \in ids \ W.scheduled /\ queue[i] \in Nat
  <2>1. queue \in [1..Cardinality(ids \ W.scheduled) -> ids \ W.scheduled]
    BY DEF Unscheduled
  <2>2. ids \subseteq Nat
    BY OperationsAssumption DEF Operations
  <2> QED
    BY <2>1, <2>2
<1>4. \A i, j \in DOMAIN queue : i < j => queue[i] < queue[j]
  BY DEF Unscheduled
<1>5. ASSUME NEW i \in DOMAIN queue, NEW j \in DOMAIN queue, queue[i] = queue[j] PROVE i = j
  <2>1. ~(i < j) /\ ~(j < i)
    BY <1>3, <1>4, <1>5
  <2> QED
    BY <1>2, <2>1
<1> QED
  BY <1>1, <1>3, <1>5

\* A record never ceases to exist.
LEMMA ExistingGrows == TypeInv /\ [Next]_vars => Existing \subseteq Existing'
BY StepsAreLifecycleSteps DEF LifecycleStep, SameLifecycle, Created, Claimed, Ends, Existing

\* The schedulers stay coherent if the one that moves does.
LEMMA SchedulersMove ==
    ASSUME TypeInv, Schedulers, [Next]_vars, NEW w \in Workers, NEW V,
           worker' = [worker EXCEPT ![w] = V], Coherent(V), Busy(V),
           V.scheduled \subseteq worker[w].scheduled \cup Existing'
    PROVE  Schedulers'
<1>1. \A u \in Workers : worker'[u] = IF u = w THEN V ELSE worker[u]
  BY DEF TypeInv, TypeOK
<1>2. ASSUME NEW u \in Workers
      PROVE  Coherent(worker'[u]) /\ Busy(worker'[u]) /\ worker'[u].scheduled \subseteq Existing'
  BY <1>1, ExistingGrows DEF Schedulers
<1> QED
  BY <1>2 DEF Schedulers

\* Scheduling what exists.
LEMMA QueueMoves ==
    ASSUME TypeInv, Schedulers, [Next]_vars, NEW w \in Workers, NEW W \in {worker[w], Fresh},
           NEW ids \in SUBSET Existing', NEW queue \in Unscheduled(W, ids),
           worker' = [worker EXCEPT ![w] = Scheduled(W, queue)]
    PROVE  Schedulers'
<1>1. W \in WorkerType /\ Coherent(W) /\ Busy(W) /\ W.scheduled \subseteq worker[w].scheduled
  BY FreshCoherent DEF TypeInv, TypeOK, Schedulers
<1>2. ids \subseteq Operations
  BY DEF Existing
<1>3. /\ queue \in Seq(Operations)
      /\ \A i \in DOMAIN queue : queue[i] \notin W.scheduled /\ queue[i] \in ids
      /\ \A i, j \in DOMAIN queue : queue[i] = queue[j] => i = j
  BY <1>1, <1>2, UnscheduledNew
<1>4. /\ Coherent(Scheduled(W, queue)) /\ Busy(Scheduled(W, queue))
      /\ Scheduled(W, queue).scheduled \subseteq W.scheduled \cup {queue[i] : i \in DOMAIN queue}
  BY <1>1, <1>3, ScheduledCoherent
<1>5. Scheduled(W, queue).scheduled \subseteq worker[w].scheduled \cup Existing'
  BY <1>1, <1>3, <1>4
<1> QED
  BY <1>4, <1>5, SchedulersMove

LEMMA EndMoves ==
    ASSUME TypeInv, Schedulers, [Next]_vars, NEW w \in Workers, NEW o \in Operations,
           worker[w].run[o].stage # "none", EndRun(w, o)
    PROVE  Schedulers'
<1>1. worker[w] \in WorkerType /\ Coherent(worker[w]) /\ o \in Running(worker[w])
  BY DEF TypeInv, TypeOK, Schedulers, Running
<1>2. worker' = [worker EXCEPT ![w] = Ended(worker[w], o)]
  BY DEF EndRun
<1> QED
  BY <1>1, <1>2, EndedCoherent, SchedulersMove

LEMMA RunMoves ==
    ASSUME TypeInv, Schedulers, [Next]_vars, NEW w \in Workers, NEW o \in Operations,
           worker[w].run[o].stage # "none", NEW run \in RunType, run.stage # "none",
           worker' = [worker EXCEPT ![w].run[o] = run]
    PROVE  Schedulers'
<1> DEFINE V == [worker[w] EXCEPT !.run[o] = run]
<1>1. worker[w] \in WorkerType /\ Coherent(worker[w]) /\ Busy(worker[w]) /\ o \in Running(worker[w])
  BY DEF TypeInv, TypeOK, Schedulers, Running
<1>2. Coherent(V) /\ Busy(V) /\ V.scheduled = worker[w].scheduled
  BY <1>1, GoesOnCoherent
<1>3. worker' = [worker EXCEPT ![w] = V]
  OBVIOUS
<1> HIDE DEF V
<1> QED
  BY <1>2, <1>3, SchedulersMove

LEMMA SchedulersStep == TypeInv /\ Schedulers /\ [Next]_vars => Schedulers'
<1> SUFFICES ASSUME TypeInv, Schedulers, [Next]_vars PROVE Schedulers'
  OBVIOUS
<1>0. /\ \A w \in Workers : worker[w] \in WorkerType
      /\ \A w \in Workers, o \in Operations : worker[w].run[o] \in RunType
      /\ op \in [Operations -> RecordType]
  BY DEF TypeInv, TypeOK, WorkerType
<1>1. ASSUME worker' = worker PROVE Schedulers'
  <2>1. ASSUME NEW u \in Workers
        PROVE  Coherent(worker'[u]) /\ Busy(worker'[u]) /\ worker'[u].scheduled \subseteq Existing'
    BY <1>1, ExistingGrows DEF Schedulers
  <2> QED
    BY <2>1 DEF Schedulers
<1>2. Existing \subseteq Existing'
  BY ExistingGrows
<1>3. ASSUME NEW w \in Workers, NEW o \in Operations, worker[w].run[o].stage # "none",
             NEW stage \in {"report", "complete", "fail"}, Goto(w, o, stage)
      PROVE  Schedulers'
  <2> DEFINE run == [worker[w].run[o] EXCEPT !.stage = stage]
  <2>1. run \in RunType /\ run.stage # "none"
    BY <1>0 DEF RunType
  <2>2. worker' = [worker EXCEPT ![w].run[o] = run]
    BY <1>3 DEF Goto
  <2> QED
    BY <1>3, <2>1, <2>2, RunMoves
<1>4. ASSUME NEW r \in Requests, NEW k \in Keys, NEW w \in Workers, Find(r, k, w) PROVE Schedulers'
  BY <1>1, <1>4 DEF Find
<1>5. ASSUME NEW r \in Requests, Create(r) PROVE Schedulers'
  <2> DEFINE w == request[r].at
             k == request[r].key
  <2>1. w \in Workers
    BY <1>5 DEF Create, TypeInv, RequestsBound
  <2>2. CASE UNCHANGED <<op, worker>>
    BY <1>1, <2>2
  <2>3. ASSUME NEW o \in Operations, op[o].state = "unused",
               op' = [op EXCEPT ![o] = [Unused EXCEPT !.state = "queued", !.key = k, !.dedupe = k]],
               worker' = [worker EXCEPT ![w] = Scheduled(worker[w], <<o>>)]
        PROVE  Schedulers'
    <3>1. op'[o].state = "queued"
      <4>1. op'[o] = [Unused EXCEPT !.state = "queued", !.key = k, !.dedupe = k]
        BY <1>0, <2>3
      <4>2. Unused \in RecordType
        BY OperationsAssumption DEF Unused, RecordType
      <4> QED
        BY <4>1, <4>2 DEF RecordType
    <3>2. Coherent(worker[w]) /\ Busy(worker[w]) /\ o \notin worker[w].scheduled
      BY <2>1, <2>3 DEF Schedulers, Existing
    <3>3. /\ <<o>> \in Seq(Operations) /\ DOMAIN <<o>> = {1} /\ <<o>>[1] = o
      OBVIOUS
    <3>4. /\ \A i \in DOMAIN <<o>> : <<o>>[i] \notin worker[w].scheduled
          /\ \A i, j \in DOMAIN <<o>> : <<o>>[i] = <<o>>[j] => i = j
      BY <3>2, <3>3
    <3>5. /\ Coherent(Scheduled(worker[w], <<o>>)) /\ Busy(Scheduled(worker[w], <<o>>))
          /\ Scheduled(worker[w], <<o>>).scheduled \subseteq
                worker[w].scheduled \cup {<<o>>[i] : i \in DOMAIN <<o>>}
      BY <1>0, <2>1, <3>2, <3>3, <3>4, ScheduledCoherent
    <3>6. Scheduled(worker[w], <<o>>).scheduled \subseteq worker[w].scheduled \cup Existing'
      BY <3>1, <3>3, <3>5 DEF Existing
    <3> HIDE DEF w
    <3> QED
      BY <2>1, <2>3, <3>5, <3>6, SchedulersMove
  <2> QED
    BY <1>5, <2>2, <2>3 DEF Create
<1>6. ASSUME NEW r \in Requests, Lookup(r) PROVE Schedulers'
  <2> DEFINE w == request[r].at
  <2>1. w \in Workers
    BY <1>6 DEF Lookup, TypeInv, RequestsBound
  <2>2. PICK queue \in Unscheduled(worker[w], ActiveFor(request[r].key)) :
            worker' = [worker EXCEPT ![w] = Scheduled(worker[w], queue)]
    BY <1>6 DEF Lookup
  <2>3. ActiveFor(request[r].key) \subseteq Existing'
    BY <1>2 DEF ActiveFor, Active, Existing
  <2> QED
    BY <2>1, <2>2, <2>3, QueueMoves
<1>7. {o \in Operations : Claimable(o)} \subseteq Existing'
  BY <1>2 DEF Claimable, Existing
<1>8. ASSUME NEW w \in Workers, Poll(w) PROVE Schedulers'
  <2>1. PICK queue \in Unscheduled(worker[w], {o \in Operations : Claimable(o)}) :
            worker' = [worker EXCEPT ![w] = Scheduled(worker[w], queue)]
    BY <1>8 DEF Poll
  <2> QED
    BY <1>7, <2>1, QueueMoves
<1>9. ASSUME NEW w \in Workers, Restart(w) PROVE Schedulers'
  <2>1. PICK queue \in Unscheduled(Fresh, {o \in Operations : Claimable(o)}) :
            worker' = [worker EXCEPT ![w] = Scheduled(Fresh, queue)]
    BY <1>9 DEF Restart
  <2> QED
    BY <1>7, <2>1, QueueMoves
<1>10. ASSUME NEW w \in Workers, NEW o \in Operations, Claim(w, o) \/ LoseClaim(w, o) PROVE Schedulers'
  BY <1>3, <1>10, EndMoves DEF Claim, LoseClaim
<1>11. ASSUME NEW w \in Workers, NEW o \in Operations, Report(w, o) PROVE Schedulers'
  <2> DEFINE run == worker[w].run[o]
             next == [run EXCEPT !.stage = "work", !.phase = run.phase + 1]
  <2>1. CASE Holds(w, o) /\ ~run.lost
    <3>1. run \in RunType /\ run.stage = "report" /\ run.phase + 1 \in 0..Phases
      BY <1>0, <1>11, OperationsAssumption DEF Report, TypeInv, RunsSound, Sound, RunType
    <3>2. next \in RunType /\ next.stage = "work"
      <4>1. \A q \in 0..Phases : /\ [run EXCEPT !.stage = "work", !.phase = q] \in RunType
                                 /\ [run EXCEPT !.stage = "work", !.phase = q].stage = "work"
        BY <3>1 DEF RunType
      <4> QED
        BY <3>1, <4>1
    <3>3. worker' = [worker EXCEPT ![w].run[o] = next]
      BY <1>11, <2>1 DEF Report
    <3> HIDE DEF next
    <3> QED
      BY <3>1, <3>2, <3>3, RunMoves
  <2>2. CASE ~(Holds(w, o) /\ ~run.lost)
    BY <1>11, <2>2, EndMoves DEF Report
  <2> QED
    BY <2>1, <2>2
<1>12. ASSUME NEW w \in Workers, NEW o \in Operations, Work(w, o) \/ WorkFails(w, o) PROVE Schedulers'
  BY <1>3, <1>12 DEF Work, WorkFails
<1>13. ASSUME NEW w \in Workers, NEW o \in Operations, Complete(w, o) \/ Fail(w, o) PROVE Schedulers'
  BY <1>13, EndMoves DEF Complete, Fail
<1>14. ASSUME NEW w \in Workers, NEW o \in Operations, ReadBeat(w, o) \/ WriteBeat(w, o) PROVE Schedulers'
  <2> DEFINE run == worker[w].run[o]
             read == [run EXCEPT !.beat = op[o].phase]
             gone == [run EXCEPT !.lost = TRUE]
             held == [run EXCEPT !.beat = NoBeat]
             lost == [run EXCEPT !.beat = NoBeat, !.lost = TRUE]
  <2>1. run \in RunType /\ op[o].phase \in 0..Phases
    BY <1>0 DEF RecordType
  <2>2. run.stage # "none"
    BY <1>14 DEF ReadBeat, WriteBeat, Beating
  <2>3. /\ read \in RunType /\ read.stage = run.stage /\ gone \in RunType /\ gone.stage = run.stage
        /\ held \in RunType /\ held.stage = run.stage /\ lost \in RunType /\ lost.stage = run.stage
    BY <2>1 DEF RunType
  <2>4. PICK next \in {read, gone, held, lost} : worker' = [worker EXCEPT ![w].run[o] = next]
    BY <1>14 DEF ReadBeat, WriteBeat
  <2>5. next \in RunType /\ next.stage # "none"
    BY <2>2, <2>3, <2>4
  <2> HIDE DEF read, gone, held, lost
  <2> QED
    BY <2>2, <2>4, <2>5, RunMoves
<1>15. ASSUME NEW w \in Workers, NEW o \in Operations, RejectWrite(w, o) PROVE Schedulers'
  BY <1>3, <1>15, EndMoves DEF RejectWrite
<1>16. ASSUME NEW o \in Operations, Lapse(o) PROVE Schedulers'
  BY <1>1, <1>16 DEF Lapse
<1>17. CASE UNCHANGED vars
  BY <1>1, <1>17 DEF vars
<1> QED
  BY <1>4, <1>5, <1>6, <1>8, <1>9, <1>10, <1>11, <1>12, <1>13, <1>14, <1>15, <1>16, <1>17
     DEF Next, Start, Step, Beat

\* However claims, failures, restarts and lapses follow each other, a process runs
\* no more operations at once than it may, none of them twice, and lets none wait
\* while a slot is free (schedule, drain, the finally block of run).
THEOREM Scheduling == Spec => []SchedulerConsistent
<1>1. Init => Schedulers
  BY FreshCoherent DEF Init, Schedulers
<1>2. (TypeInv /\ Keyed) /\ Schedulers /\ [Next]_vars => Schedulers'
  BY SchedulersStep
<1>3. Schedulers => SchedulerConsistent
  BY DEF Schedulers, Coherent, Busy, SchedulerConsistent
<1> QED
  BY <1>1, <1>2, <1>3, Invariants, PTL DEF Spec
=============================================================================
