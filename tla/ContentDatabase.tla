--------------------------- MODULE ContentDatabase ---------------------------
(***************************************************************************)
(* Database-backed persistence: how concurrent operations of the           *)
(* repository, the catalog and the search index reach one database.        *)
(*                                                                         *)
(* On SQLite the content adapters share one connection: every statement    *)
(* and every transaction made outside a transaction's async context queues *)
(* behind the previous one (runExclusive), and the catalog works on a      *)
(* second connection to the same file, synchronously.  On MySQL every      *)
(* unit takes a connection of the pool for as long as it lasts.            *)
(***************************************************************************)
EXTENDS DatabasePrograms

CONSTANTS Tasks,      \* concurrent callers: request handlers, the worker
          PoolSize,   \* connectionLimit of the MySQL pool
          Workloads,  \* sets of operations that run against each other
          None        \* no connection; a row no transaction has written; no operation

ASSUME NoneAssumption == None \notin Tasks \cup Values \cup 1 .. PoolSize
ASSUME PoolAssumption == PoolSize \in Nat \ {0}
ASSUME WorkloadAssumption == Workloads \subseteq SUBSET Operations

VARIABLES
    dialect,   \* "sqlite" or "mysql"
    workload,  \* the operations this behaviour runs
    rows,      \* committed rows
    written,   \* per connection: the rows its open transaction has written
    open,      \* connections with an open transaction
    using,     \* per task: the connection it was given
    queue,     \* tasks waiting for the exclusive slot (SQLite), a connection (MySQL)
    call       \* per task: operation, content, unit, statement, where it stands

vars == <<dialect, workload, rows, written, open, using, queue, call>>

Connections == IF dialect = "sqlite" THEN {1} ELSE 1 .. PoolSize

Ended == {"ok", "failed"}
Held  == {"granted", "open", "undoing"}

Unit(t) == Program[call[t].op][call[t].unit]
Statement(t) == Unit(t).statements[call[t].statement]

Unwritten == [t \in Tables |-> None]

\* The rows a statement sees on connection c.
View(c) == [t \in Tables |-> IF written[c][t] = None THEN rows[t] ELSE written[c][t]]

\* A row another open transaction has written keeps writers waiting (row locks).
Locked(c, s) ==
    /\ s.kind # "read"
    /\ \E d \in open \ {c}, t \in Touched(s) : written[d][t] # None

\* A task that has returned "ok", with what it read, or was rejected.
Answered(at, seen) ==
    [op |-> None, content |-> None, unit |-> 0, statement |-> 0, at |-> at, seen |-> seen]

-----------------------------------------------------------------------------
Init ==
    /\ dialect \in {"sqlite", "mysql"}
    /\ workload \in Workloads
    /\ dialect = "sqlite" => workload \cap {"rebuild", "indexVersion", "removeVersion", "reindexAll"} = {}
    /\ rows = [t \in Tables |-> Absent]
    /\ written = [c \in 1 .. PoolSize |-> Unwritten]
    /\ open = {}
    /\ using = [t \in Tasks |-> None]
    /\ queue = <<>>
    /\ call = [t \in Tasks |-> Answered("ok", Absent)]

\* Task t turns to unit u of operation op.  A statement or transaction outside a
\* transaction's async context takes its place in the queue (runExclusive) or
\* asks the pool for a connection; SQLite's catalog needs neither.
Queued(op, u) == dialect = "mysql" \/ Program[op][u].db = "content"

Turn(t, op, c, u) ==
    /\ call' = [call EXCEPT ![t] =
                 [op |-> op, content |-> c, unit |-> u, statement |-> 1,
                  at |-> IF Queued(op, u) THEN "queued" ELSE "between", seen |-> Absent]]
    /\ queue' = IF Queued(op, u) THEN Append(queue, t) ELSE queue

\* A request starts an operation.
Begin(t) ==
    /\ call[t].at \in Ended
    /\ \E op \in workload : \E c \in ContentsOf(op) : Turn(t, op, c, 1)
    /\ UNCHANGED <<dialect, workload, rows, written, open, using>>

\* The unit is over: the next one follows, or the operation returns.
Advance(t, read) ==
    IF call[t].unit < Len(Program[call[t].op])
      THEN Turn(t, call[t].op, call[t].content, call[t].unit + 1)
      ELSE /\ call' = [call EXCEPT ![t] = Answered("ok", read)]
           /\ UNCHANGED queue

\* Mutant: nothing runs exclusively.
AnyConnection(c) == TRUE

Free(c) == \A t \in Tasks : using[t] # c

\* The first in the queue gets the slot, or a connection, and opens its
\* transaction if it has one.
Grant(t, c) ==
    /\ queue # <<>> /\ Head(queue) = t
    /\ Free(c)
    /\ using' = [using EXCEPT ![t] = c]
    /\ queue' = Tail(queue)
    /\ open' = IF Unit(t).tx THEN open \cup {c} ELSE open
    /\ call' = [call EXCEPT ![t].at = IF Unit(t).tx THEN "open" ELSE "granted"]
    /\ UNCHANGED <<dialect, workload, rows, written>>

\* An error is on its way to the caller, the rollback comes first.
Undoing == Answered("undoing", Absent)

\* The slot, or the connection, is given back however the unit ends.
Release(t) == using' = [using EXCEPT ![t] = None]

\* The statement of task t runs on connection c: it belongs to the transaction
\* open there, and commits on its own when there is none.
Ready(t, c) == ~Locked(c, Statement(t)) /\ Accepts(View(c), Statement(t))

Run(t, c) ==
    LET v == After(View(c), Statement(t), call[t].content)
    IN IF c \in open
         THEN /\ written' = [written EXCEPT ![c] =
                  [r \in Tables |-> IF r \in Touched(Statement(t)) THEN v[r] ELSE @[r]]]
              /\ UNCHANGED rows
         ELSE rows' = v /\ UNCHANGED written

-----------------------------------------------------------------------------
\* A statement of a transaction.
Execute(t, c) ==
    /\ call[t].at = "open" /\ call[t].statement <= Len(Unit(t).statements)
    /\ Ready(t, c) /\ Run(t, c)
    /\ call' = [call EXCEPT ![t].statement = @ + 1]
    /\ UNCHANGED <<dialect, workload, open, using, queue>>

Closed(c) == written' = [written EXCEPT ![c] = Unwritten] /\ open' = open \ {c}

\* COMMIT; on MySQL its answer may be lost, and the error path follows.
Commit(t, c) ==
    /\ call[t].at = "open" /\ call[t].statement > Len(Unit(t).statements)
    /\ rows' = View(c)
    /\ Closed(c)
    /\ \/ Release(t) /\ Advance(t, Absent)
       \/ /\ dialect = "mysql"
          /\ call' = [call EXCEPT ![t] = Undoing] /\ UNCHANGED <<using, queue>>
    /\ UNCHANGED <<dialect, workload>>

\* BEGIN, a statement or COMMIT fails; the transaction is to be rolled back.
TransactionFails(t) ==
    /\ call[t].at = "open"
    /\ call' = [call EXCEPT ![t] = Undoing]
    /\ UNCHANGED <<dialect, workload, rows, written, open, using, queue>>

\* Mutant: the slot is released after success only.
RollbackKeepingSlot(t, c) ==
    /\ call[t].at = "undoing"
    /\ Closed(c)
    /\ call' = [call EXCEPT ![t] = Answered("failed", Absent)]
    /\ UNCHANGED <<dialect, workload, rows, using, queue>>

\* ROLLBACK: the server forgets the writes, the error goes to the caller.
Rollback(t, c) ==
    /\ call[t].at = "undoing"
    /\ Closed(c)
    /\ Release(t)
    /\ call' = [call EXCEPT ![t] = Answered("failed", Absent)]
    /\ UNCHANGED <<dialect, workload, rows, queue>>

-----------------------------------------------------------------------------
\* A statement outside any transaction.
RunAlone(t, c) ==
    /\ call[t].at = "granted"
    /\ Ready(t, c) /\ Run(t, c)
    /\ Advance(t, IF Statement(t).kind = "read" THEN View(c)[Statement(t).table] ELSE Absent)
    /\ Release(t)
    /\ UNCHANGED <<dialect, workload, open>>

\* It fails: rejected by the schema, timed out on a lock, or any other error;
\* on MySQL it may have taken effect before its answer was lost.
AloneFails(t, c) ==
    /\ call[t].at = "granted"
    /\ \/ UNCHANGED <<rows, written>>
       \/ dialect = "mysql" /\ Ready(t, c) /\ Run(t, c)
    /\ call' = [call EXCEPT ![t] = Answered("failed", Absent)]
    /\ Release(t)
    /\ UNCHANGED <<dialect, workload, open, queue>>

\* SQLite's catalog runs its transaction synchronously on its own connection;
\* while the content connection has uncommitted writes the file is locked, and
\* the busy timeout elapses with the whole process blocked.
Busy == \E c \in open : written[c] # Unwritten

Project(t) ==
    /\ call[t].at = "between"
    /\ \/ /\ ~Busy
          /\ rows' = AfterUnit(rows, Unit(t), call[t].content)
          /\ Advance(t, Absent)
       \/ /\ call' = [call EXCEPT ![t] = Answered("failed", Absent)]
          /\ UNCHANGED <<rows, queue>>
    /\ UNCHANGED <<dialect, workload, written, open, using>>

\* The process stops: the database forgets what was not committed.
Crash ==
    /\ \E t \in Tasks : call[t].at \notin Ended
    /\ written' = [c \in 1 .. PoolSize |-> Unwritten]
    /\ open' = {}
    /\ using' = [t \in Tasks |-> None]
    /\ queue' = <<>>
    /\ call' = [t \in Tasks |-> IF call[t].at \in Ended THEN call[t]
                                 ELSE Answered("failed", Absent)]
    /\ UNCHANGED <<dialect, workload, rows>>

On(t, c) ==
    Execute(t, c) \/ Commit(t, c) \/ Rollback(t, c) \/ RunAlone(t, c) \/ AloneFails(t, c)

Continue(t) ==
    \/ TransactionFails(t) \/ Project(t)
    \/ \E c \in Connections : Grant(t, c) \/ (using[t] = c /\ On(t, c))

Next == Crash \/ \E t \in Tasks : Begin(t) \/ Continue(t)

Spec == Init /\ [][Next]_vars

\* The event loop and the database server let every started operation go on.
FairSpec == Spec /\ \A t \in Tasks : WF_vars(Continue(t))

-----------------------------------------------------------------------------
\* The rows and the callers keep their shape: only open transactions have
\* writes, whoever runs holds a connection, and the queue lists who waits.
TypeOK ==
    /\ rows \in [Tables -> Values]
    /\ open \subseteq 1 .. PoolSize
    /\ written \in [1 .. PoolSize -> [Tables -> Values \cup {None}]]
    /\ \A c \in 1 .. PoolSize : written[c] # Unwritten => c \in open
    /\ using \in [Tasks -> Connections \cup {None}]
    /\ \A t \in Tasks :
         /\ call[t].at \in Ended \cup Held \cup {"between", "queued"}
         /\ call[t].at \in Held => using[t] # None
         /\ call[t].at = "queued" <=> \E i \in DOMAIN queue : queue[i] = t

\* Whatever saves, deletes, rebuilds and reindexing overlap, the committed rows
\* of a projection never mix two saves: a row below a proposal, a version or a
\* search document is of the same save as that row, or is missing.
ProjectionWhole ==
    /\ rows["listed"] = rows["listedFile"] /\ rows["listed"] = rows["judgement"]
    /\ \A child \in DOMAIN Parent : rows[child] \in {rows[Parent[child]], Absent}

\* Every unit takes effect as a whole or not at all, on what every caller sees,
\* and a returned operation has had all of its effect: no statement joins, or
\* reads from, a transaction of another request.
Atomic == INSTANCE AtomicUnits WITH
    call <- [t \in Tasks |->
              [op |-> call[t].op, content |-> call[t].content, unit |-> call[t].unit,
               state |-> IF call[t].at = "ok" THEN "ok"
                         ELSE IF call[t].at \in {"undoing", "failed"} THEN "failed"
                         ELSE "running",
               seen |-> call[t].seen]]

UnitsAreAtomic == Atomic!Spec

\* Every operation returns or is rejected, however many wait behind a
\* transaction and whether that transaction commits or is rolled back.
EveryCallReturns ==
    \A t \in Tasks : call[t].at \notin Ended ~> call[t].at \in Ended
=============================================================================
