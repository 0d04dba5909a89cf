-------------------------- MODULE AsyncOperations ---------------------------
(***************************************************************************)
(* Long-running review work outside the HTTP request.  Requests create     *)
(* operation records in the shared catalog database; the workers of the    *)
(* API processes claim records through a lease, report the phase they are  *)
(* in and end the record.  A lease that was not renewed lapses, and any    *)
(* worker may then claim the record again.                                 *)
(*                                                                         *)
(* Every statement of the store is one step.  updateOperation reads the    *)
(* record before it writes it; the two are one step where the write gives  *)
(* every field itself, and two for a heartbeat, which writes back what it  *)
(* read.  A record is identified by the order of its creation.             *)
(***************************************************************************)
EXTENDS Naturals, Sequences, FiniteSets

CONSTANTS
    Workers,        \* API processes
    Requests,       \* HTTP requests that may start operations
    Keys,           \* kind and target of an operation: its dedupe key
    MaxOperations,  \* bound on the records ever created
    Phases,         \* phases an operation reports, one use case call in each
    MaxConcurrent,  \* MAX_CONCURRENT_OPERATIONS
    MaxFaults,      \* bound on crashes, stalls past the lease and lost writes
    NoKey, Nobody, NoBeat

ASSUME OperationsAssumption ==
    /\ MaxOperations \in Nat /\ Phases \in Nat \ {0} /\ MaxFaults \in Nat
    /\ MaxConcurrent \in Nat \ {0}
    /\ NoKey \notin Keys /\ Nobody \notin Workers /\ NoBeat \notin Nat

VARIABLES
    op,         \* the records of skill_catalog_operations
    done,       \* the phases whose use case the lease holder has finished
    worker,     \* the scheduler of every process and the runs it has started
    request,    \* where every request is in start
    faults      \* how many faults have happened

vars == <<op, done, worker, request, faults>>

Operations == 1..MaxOperations
Active == {"queued", "running"}

Unused == [state |-> "unused", key |-> NoKey, dedupe |-> NoKey, owner |-> Nobody,
           expired |-> FALSE, phase |-> 0]
NoRun == [stage |-> "none", phase |-> 0, lost |-> FALSE, beat |-> NoBeat]
Begun == [NoRun EXCEPT !.stage = "claim"]
Fresh == [scheduled |-> {}, pending |-> <<>>, run |-> [o \in Operations |-> NoRun]]
Answered == [stage |-> "idle", key |-> NoKey, at |-> Nobody]

Init ==
    /\ op = [o \in Operations |-> Unused]
    /\ done = [o \in Operations |-> {}]
    /\ worker = [w \in Workers |-> Fresh]
    /\ request = [r \in Requests |-> Answered]
    /\ faults = 0

-----------------------------------------------------------------------------
(* The scheduler of one process *)

Running(W) == {o \in Operations : W.run[o].stage # "none"}

\* drain: pending work starts while there is a free slot.
Drained(W) ==
    LET busy == Cardinality(Running(W))
        free == IF busy < MaxConcurrent THEN MaxConcurrent - busy ELSE 0
        n == IF free < Len(W.pending) THEN free ELSE Len(W.pending)
        started == {W.pending[i] : i \in 1..n}
    IN  [W EXCEPT !.pending = SubSeq(@, n + 1, Len(@)),
                  !.run = [o \in Operations |-> IF o \in started THEN Begun ELSE @[o]]]

Waiting(W) == {W.pending[i] : i \in DOMAIN W.pending}

\* The records of a list that are not scheduled yet, in the order of creation
\* (there is exactly one such sequence).
Unscheduled(W, ids) ==
    LET new == ids \ W.scheduled
    IN  {queue \in [1..Cardinality(new) -> new] :
            /\ \A i, j \in DOMAIN queue : i < j => queue[i] < queue[j]
            /\ \A o \in new : \E i \in DOMAIN queue : queue[i] = o}

\* schedule, for every record of the queue.
Scheduled(W, queue) ==
    IF queue = <<>>
    THEN W
    ELSE Drained([W EXCEPT !.scheduled = @ \cup {queue[i] : i \in DOMAIN queue},
                           !.pending = @ \o queue])

\* Mutant: the finally block frees the slot and starts nothing.
EndedUndrained(W, o) == [W EXCEPT !.scheduled = @ \ {o}, !.run[o] = NoRun]

\* The finally block of run.
Ended(W, o) ==
    Drained([W EXCEPT !.scheduled = @ \ {o}, !.run[o] = NoRun])

EndRun(w, o) == worker' = [worker EXCEPT ![w] = Ended(@, o)]
Goto(w, o, stage) == worker' = [worker EXCEPT ![w].run[o].stage = stage]

\* Mutant: the claim forgets that the record may have ended.
ClaimableEnded(o) == op[o].state # "unused" /\ (op[o].state = "running" => op[o].expired)

\* Mutant: a lapsed lease is never recovered.
ClaimableQueued(o) == op[o].state = "queued"

Claimable(o) == op[o].state = "queued" \/ (op[o].state = "running" /\ op[o].expired)

-----------------------------------------------------------------------------
(* start: look for an active record, else create one *)

ActiveFor(k) == {o \in Operations : op[o].dedupe = k /\ op[o].state \in Active}

Find(r, k, w) ==
    /\ request[r].stage = "idle"
    /\ ActiveFor(k) = {}
    /\ request' = [request EXCEPT ![r] = [stage |-> "create", key |-> k, at |-> w]]
    /\ UNCHANGED <<op, done, worker, faults>>

\* Mutant: the dedupe key is indexed, but not uniquely.
CreateUnindexed(r) ==
    LET k == request[r].key
    IN
    /\ request[r].stage = "create"
    /\ \E o \in Operations :
          /\ op[o].state = "unused"
          /\ \A p \in Operations : p < o => op[p].state # "unused"
          /\ op' = [op EXCEPT ![o] = [Unused EXCEPT !.state = "queued", !.key = k, !.dedupe = k]]
          /\ worker' = [worker EXCEPT ![request[r].at] = Scheduled(@, <<o>>)]
    /\ request' = [request EXCEPT ![r] = Answered]
    /\ UNCHANGED <<done, faults>>

\* The unique index on dedupe_key refuses a second active record.
Create(r) ==
    LET k == request[r].key
        w == request[r].at
    IN
    /\ request[r].stage = "create"
    /\ \/ /\ \E o \in Operations : op[o].dedupe = k
          /\ request' = [request EXCEPT ![r].stage = "lookup"]
          /\ UNCHANGED <<op, worker>>
       \/ \E o \in Operations :
          /\ op[o].state = "unused"
          /\ \A p \in Operations : p < o => op[p].state # "unused"
          /\ \A p \in Operations : op[p].dedupe # k
          /\ op' = [op EXCEPT ![o] = [Unused EXCEPT !.state = "queued", !.key = k, !.dedupe = k]]
          /\ worker' = [worker EXCEPT ![w] = Scheduled(@, <<o>>)]
          /\ request' = [request EXCEPT ![r] = Answered]
    /\ UNCHANGED <<done, faults>>

\* The loser of the race takes the winner's record; if that has ended in the
\* meantime the request fails.
Lookup(r) ==
    LET w == request[r].at
    IN
    /\ request[r].stage = "lookup"
    /\ \E queue \in Unscheduled(worker[w], ActiveFor(request[r].key)) :
          worker' = [worker EXCEPT ![w] = Scheduled(@, queue)]
    /\ request' = [request EXCEPT ![r] = Answered]
    /\ UNCHANGED <<op, done, faults>>

-----------------------------------------------------------------------------
(* run: claim, execute phase by phase, complete or fail *)

Poll(w) ==
    /\ \E queue \in Unscheduled(worker[w], {o \in Operations : Claimable(o)}) :
          worker' = [worker EXCEPT ![w] = Scheduled(@, queue)]
    /\ UNCHANGED <<op, done, request, faults>>

Claim(w, o) ==
    /\ worker[w].run[o].stage = "claim"
    /\ IF Claimable(o)
       THEN /\ op' = [op EXCEPT ![o].state = "running", ![o].owner = w, ![o].expired = FALSE]
            /\ done' = [done EXCEPT ![o] = {}]
            /\ Goto(w, o, "report")
       ELSE /\ EndRun(w, o)
            /\ UNCHANGED <<op, done>>
    /\ UNCHANGED <<request, faults>>

\* Mutant: updates do not compare the lease owner.
HoldsAnyOwner(w, o) == op[o].state = "running"

\* The condition of every update of a record, the owner's fencing check.
Holds(w, o) == op[o].owner = w /\ op[o].state = "running"

\* report: a lost lease ends the run without a trace.
Report(w, o) ==
    LET run == worker[w].run[o]
    IN
    /\ run.stage = "report"
    /\ IF Holds(w, o) /\ ~run.lost
       THEN /\ op' = [op EXCEPT ![o].phase = run.phase + 1, ![o].expired = FALSE]
            /\ worker' = [worker EXCEPT ![w].run[o] =
                             [run EXCEPT !.stage = "work", !.phase = run.phase + 1]]
       ELSE /\ EndRun(w, o)
            /\ UNCHANGED op
    /\ UNCHANGED <<done, request, faults>>

\* Mutant: one phase too many.
WorkPastTheEnd(w, o) ==
    LET run == worker[w].run[o]
    IN
    /\ run.stage = "work"
    /\ done' = IF Holds(w, o) THEN [done EXCEPT ![o] = @ \cup {run.phase}] ELSE done
    /\ Goto(w, o, IF run.phase <= Phases THEN "report" ELSE "complete")
    /\ UNCHANGED <<op, request, faults>>

\* The use case call of a phase.  Nothing checks the lease before it, or while
\* it is under way.
Work(w, o) ==
    LET run == worker[w].run[o]
    IN
    /\ run.stage = "work"
    /\ done' = IF Holds(w, o) THEN [done EXCEPT ![o] = @ \cup {run.phase}] ELSE done
    /\ Goto(w, o, IF run.phase < Phases THEN "report" ELSE "complete")
    /\ UNCHANGED <<op, request, faults>>

\* The use case throws.
WorkFails(w, o) ==
    /\ worker[w].run[o].stage = "work"
    /\ Goto(w, o, "fail")
    /\ UNCHANGED <<op, done, request, faults>>

\* A terminal record gives up its owner's lease and its dedupe key.
Closed(record, state) == [record EXCEPT !.state = state, !.dedupe = NoKey, !.expired = FALSE]

Complete(w, o) ==
    /\ worker[w].run[o].stage = "complete"
    /\ op' = IF Holds(w, o) /\ ~worker[w].run[o].lost
             THEN [op EXCEPT ![o] = Closed(@, "completed")] ELSE op
    /\ EndRun(w, o)
    /\ UNCHANGED <<done, request, faults>>

Fail(w, o) ==
    /\ worker[w].run[o].stage = "fail"
    /\ op' = IF Holds(w, o) THEN [op EXCEPT ![o] = Closed(@, "failed")] ELSE op
    /\ EndRun(w, o)
    /\ UNCHANGED <<done, request, faults>>
-----------------------------------------------------------------------------
(* The heartbeat of a run: an update that changes no field, between reading  *)
(* the record and writing it back.  The timer is cleared when execute has    *)
(* ended; a write under way is not.                                          *)

Beating == {"report", "work", "complete"}

ReadBeat(w, o) ==
    LET run == worker[w].run[o]
    IN
    /\ run.stage \in Beating /\ ~run.lost /\ run.beat = NoBeat
    /\ worker' = [worker EXCEPT ![w].run[o] =
          IF op[o].state = "running" THEN [@ EXCEPT !.beat = op[o].phase]
                                     ELSE [@ EXCEPT !.lost = TRUE]]
    /\ UNCHANGED <<op, done, request, faults>>

WriteBeat(w, o) ==
    LET run == worker[w].run[o]
    IN
    /\ run.stage \in Beating \cup {"fail"} /\ run.beat # NoBeat
    /\ IF Holds(w, o)
       THEN /\ op' = [op EXCEPT ![o].phase = run.beat, ![o].expired = FALSE]
            /\ worker' = [worker EXCEPT ![w].run[o].beat = NoBeat]
       ELSE /\ worker' = [worker EXCEPT ![w].run[o] = [@ EXCEPT !.beat = NoBeat, !.lost = TRUE]]
            /\ UNCHANGED op
    /\ UNCHANGED <<done, request, faults>>

-----------------------------------------------------------------------------
(* Faults *)

Fault ==
    /\ faults < MaxFaults
    /\ faults' = faults + 1

\* A process stops and is started again: the requests it was serving are gone
\* and so is what it knew of its runs.  At start it resumes what can run.
Restart(w) ==
    /\ Fault
    /\ \E queue \in Unscheduled(Fresh, {o \in Operations : Claimable(o)}) :
          worker' = [worker EXCEPT ![w] = Scheduled(Fresh, queue)]
    /\ request' = [r \in Requests |-> IF request[r].at = w THEN Answered ELSE request[r]]
    /\ UNCHANGED <<op, done>>

\* Five minutes without a renewal.  The process is gone, or it stalls or
\* cannot reach the database, which counts as a fault.
Lapse(o) ==
    /\ op[o].state = "running" /\ ~op[o].expired
    /\ worker[op[o].owner].run[o].stage \in Beating \cup {"fail"} => faults < MaxFaults
    /\ faults' = IF worker[op[o].owner].run[o].stage \in Beating \cup {"fail"}
                 THEN faults + 1 ELSE faults
    /\ op' = [op EXCEPT ![o].expired = TRUE]
    /\ UNCHANGED <<done, worker, request>>

\* The store rejects a claim or an owner's progress, which fails the run; or the
\* failure itself, which is swallowed: the record stays as it is until it is polled,
\* or its lease lapses.
RejectWrite(w, o) ==
    /\ Fault
    /\ \/ worker[w].run[o].stage \in {"claim", "report", "complete"} /\ Goto(w, o, "fail")
       \/ worker[w].run[o].stage = "fail" /\ EndRun(w, o)
    /\ UNCHANGED <<op, done, request>>

\* The claim takes effect and its record cannot be read back.
LoseClaim(w, o) ==
    /\ worker[w].run[o].stage = "claim" /\ Claimable(o)
    /\ Fault
    /\ op' = [op EXCEPT ![o].state = "running", ![o].owner = w, ![o].expired = FALSE]
    /\ done' = [done EXCEPT ![o] = {}]
    /\ Goto(w, o, "fail")
    /\ UNCHANGED request

-----------------------------------------------------------------------------
Start(r) == (\E k \in Keys, w \in Workers : Find(r, k, w)) \/ Create(r) \/ Lookup(r)

Step(w, o) ==
    \/ Claim(w, o)
    \/ Report(w, o)
    \/ Work(w, o)
    \/ WorkFails(w, o)
    \/ Complete(w, o)
    \/ Fail(w, o)

Beat(w, o) == ReadBeat(w, o) \/ WriteBeat(w, o)

Next ==
    \/ \E r \in Requests : Start(r)
    \/ \E w \in Workers : Poll(w) \/ Restart(w)
    \/ \E w \in Workers, o \in Operations :
           Step(w, o) \/ Beat(w, o) \/ RejectWrite(w, o) \/ LoseClaim(w, o)
    \/ \E o \in Operations : Lapse(o)

Spec == Init /\ [][Next]_vars

\* The interval timer polls, started runs go on, and an unrenewed lease runs
\* out with the clock.  Requests, heartbeats and faults may never come.
FairSpec ==
    /\ Spec
    /\ \A w \in Workers : WF_vars(Poll(w))
    /\ \A w \in Workers, o \in Operations : WF_vars(Step(w, o))
    /\ \A o \in Operations : WF_vars(Lapse(o) /\ faults' = faults)

-----------------------------------------------------------------------------
(* Properties *)

RecordType ==
    [state : {"unused", "queued", "running", "completed", "failed"},
     key : Keys \cup {NoKey}, dedupe : Keys \cup {NoKey}, owner : Workers \cup {Nobody},
     expired : BOOLEAN, phase : 0..Phases]

RunType ==
    [stage : {"none", "claim", "report", "work", "complete", "fail"},
     phase : 0..Phases, lost : BOOLEAN, beat : 0..Phases \cup {NoBeat}]

WorkerType ==
    [scheduled : SUBSET Operations, pending : Seq(Operations), run : [Operations -> RunType]]

RequestType ==
    [stage : {"idle", "create", "lookup"}, key : Keys \cup {NoKey},
     at : Workers \cup {Nobody}]

\* Every record, scheduler and request holds a value of its shape.
TypeOK ==
    /\ op \in [Operations -> RecordType]
    /\ done \in [Operations -> SUBSET (1..Phases)]
    /\ worker \in [Workers -> WorkerType]
    /\ request \in [Requests -> RequestType]
    /\ faults \in 0..MaxFaults

Lifecycle == INSTANCE OperationLifecycle
    WITH state <- [o \in Operations |-> op[o].state], target <- [o \in Operations |-> op[o].key]

\* A record is queued once, runs, ends once and never changes after, and a
\* record is created only while no other of its kind and target is active,
\* whatever workers crash, stall or come back (AsyncOperationService.spec.md).
LifecycleRefined == Lifecycle!Spec

\* At most one record per kind and target is active (start's dedupe key).
OneActivePerKey == Lifecycle!OneActivePerKey

\* A record is completed only if one worker, without losing the lease in
\* between, finished the use case of every phase (the owner-bound updates).
CompletionIsEarned ==
    \A o \in Operations : op[o].state = "completed" => done[o] = 1..Phases

\* schedule, drain and the finally block of run agree: what is scheduled is
\* waiting or running, no slot is free while work waits, none is used twice.
SchedulerConsistent ==
    \A w \in Workers :
        LET W == worker[w]
        IN
        /\ W.scheduled = Waiting(W) \cup Running(W)
        /\ Waiting(W) \cap Running(W) = {}
        /\ \A i, j \in DOMAIN W.pending : W.pending[i] = W.pending[j] => i = j
        /\ Cardinality(Running(W)) <= MaxConcurrent
        /\ W.pending # <<>> => Cardinality(Running(W)) = MaxConcurrent

\* Every record ends: a crash, a stalled worker or a lost update delays it
\* until the lease has lapsed, and never leaves it behind (resume, poll).
EveryOperationEnds ==
    \A o \in Operations : (op[o].state = "queued") ~> (op[o].state \in {"completed", "failed"})
=============================================================================
