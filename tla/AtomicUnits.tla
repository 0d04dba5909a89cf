---------------------------- MODULE AtomicUnits ----------------------------
(***************************************************************************)
(* What the database-backed adapters promise their callers: an operation   *)
(* is a sequence of units, a unit takes effect as a whole or not at all,   *)
(* on the rows every caller sees, and an operation that returns has had    *)
(* all its units take effect.                                              *)
(***************************************************************************)
EXTENDS DatabasePrograms

CONSTANTS Tasks,
          None    \* the operation and content of a caller with nothing to do

VARIABLES rows,   \* the rows of every table
          call    \* per caller: the operation, its next unit, how it stands

vars == <<rows, call>>

\* A caller that has its answer, and what it read.
Answered(state, seen) ==
    [op |-> None, content |-> None, unit |-> 0, state |-> state, seen |-> seen]

Init == /\ rows = [t \in Tables |-> Absent]
        /\ call = [t \in Tasks |-> Answered("ok", Absent)]

Unit(t) == Program[call[t].op][call[t].unit]

Begin(t) ==
    /\ call[t].state # "running"
    /\ \E op \in Operations : \E c \in ContentsOf(op) :
         call' = [call EXCEPT ![t] = [op |-> op, content |-> c, unit |-> 1,
                                      state |-> "running", seen |-> Absent]]
    /\ UNCHANGED rows

TakesEffect(t) ==
    /\ rows' = AfterUnit(rows, Unit(t), call[t].content)
    /\ Applicable(rows, Unit(t), call[t].content)

\* After the last unit the operation returns.
Proceeded(t) ==
    IF call[t].unit < Len(Program[call[t].op]) THEN [call[t] EXCEPT !.unit = @ + 1]
    ELSE Answered("ok", IF call[t].op = "findProposal" THEN rows["aggregate"] ELSE Absent)

\* The next unit takes effect.
Apply(t) ==
    /\ call[t].state = "running"
    /\ call' = [call EXCEPT ![t] = Proceeded(t)]
    /\ TakesEffect(t)

\* The operation is rejected; its caller cannot tell whether the unit it was
\* at took effect.
Reject(t) ==
    /\ call[t].state = "running"
    /\ call' = [call EXCEPT ![t] = Answered("failed", Absent)]
    /\ UNCHANGED rows \/ TakesEffect(t)

\* The process stops: every running operation ends where it is.
Stop ==
    /\ call' = [t \in Tasks |-> IF call[t].state = "running"
                                  THEN Answered("failed", Absent) ELSE call[t]]
    /\ UNCHANGED rows

Next == Stop \/ \E t \in Tasks : Begin(t) \/ Apply(t) \/ Reject(t)

Spec == Init /\ [][Next]_vars
=============================================================================
