----------------------------- MODULE AgentAccess -----------------------------
(***************************************************************************)
(* Agent sessions: short-lived codes that stand for the bearer tokens of   *)
(* some areas (which areas is left out).  Creating one counts the active   *)
(* sessions of the origin and then inserts a row; a request that brings a  *)
(* code passes the failure limit of its origin and then looks the row up.  *)
(* Each of these is a call that is awaited, so requests of one origin      *)
(* overlap between them.  The failure buckets live in the memory of the    *)
(* process, with the code that bounds their number.                        *)
(***************************************************************************)
EXTENDS Naturals, FiniteSets

CONSTANTS
    Codes,          \* session codes, one per row
    Origins,        \* addresses that requests come from
    Creators,       \* creations in flight
    Checks,         \* requests that bring a code
    MaxActive,      \* AGENT_SESSION_MAX_ACTIVE
    Ttl,            \* AGENT_SESSION_TTL_SECONDS
    Day,            \* ticks of a calendar day
    Window,         \* the failure limit's window
    MaxFailures,    \* failures of an origin within a window
    MaxBuckets,     \* origins whose failures are counted at a time
    Horizon,        \* bound on the time
    NoEntry         \* no row, no bucket

ASSUME AgentAccessAssumption ==
    /\ {MaxActive, Ttl, Day, Window, MaxFailures, MaxBuckets} \subseteq Nat \ {0}
    /\ Horizon \in Nat
    /\ IsFiniteSet(Codes) /\ IsFiniteSet(Creators) /\ IsFiniteSet(Checks)

VARIABLES
    provider,       \* the database: "sqlite" or "mysql"
    now,            \* the time
    row,            \* agent_sessions, by code
    bucket,         \* failures counted per origin
    cleanedAt,      \* lastSessionFailureCleanupAt
    creator,        \* what every creation is doing
    check           \* what every request with a code is doing

agentVars == <<provider, now, row, bucket, cleanedAt, creator, check>>

Row == [origin : Origins, expires : Nat, revoked : BOOLEAN]
Bucket == [start : 0..Horizon, failures : Nat]
IdleCreator == [stage |-> "idle", origin |-> NoEntry]
IdleCheck == [stage |-> "idle", origin |-> NoEntry, code |-> NoEntry]

\* The rows, buckets and requests keep their shape, and a bucket counts failures.
AgentTypeOK ==
    /\ provider \in {"sqlite", "mysql"}
    /\ now \in 0..Horizon
    /\ row \in [Codes -> {NoEntry} \cup Row]
    /\ bucket \in [Origins -> {NoEntry} \cup Bucket]
    /\ \A o \in Origins : bucket[o] # NoEntry => bucket[o].failures > 0
    /\ cleanedAt \in 0..Horizon
    /\ creator \in [Creators -> [stage : {"idle", "insert"}, origin : Origins \cup {NoEntry}]]
    /\ check \in [Checks -> [stage : {"idle", "find"}, origin : Origins \cup {NoEntry},
                             code : Codes \cup {NoEntry}]]

AgentInit ==
    /\ provider \in {"sqlite", "mysql"}
    /\ now = 0
    /\ row = [c \in Codes |-> NoEntry]
    /\ bucket = [o \in Origins |-> NoEntry]
    /\ cleanedAt = 0
    /\ creator = [h \in Creators |-> IdleCreator]
    /\ check = [h \in Checks |-> IdleCheck]

-----------------------------------------------------------------------------
(* Creating a session *)

\* The SQLite statement compares expires_at, an ISO text with a "T", with
\* datetime('now'), a text with a blank: within one day every time is later.
LaterThanNow(time) ==
    IF provider = "sqlite" THEN time \div Day >= now \div Day ELSE time > now

ActiveRows == {c \in Codes : row[c] # NoEntry /\ ~row[c].revoked /\ LaterThanNow(row[c].expires)}

CountActiveByIp(origin) == Cardinality({c \in ActiveRows : row[c].origin = origin})

\* Mutant: one more session is allowed than configured.
LimitPassed(origin) == CountActiveByIp(origin) > MaxActive

LimitReached(origin) == CountActiveByIp(origin) >= MaxActive

\* The tokens of all requested areas are valid; then the active sessions are
\* counted.  A request with a wrong token or over the limit changes nothing.
CountForCreate(h, origin) ==
    /\ creator[h].stage = "idle"
    /\ ~LimitReached(origin)
    /\ creator' = [creator EXCEPT ![h] = [stage |-> "insert", origin |-> origin]]
    /\ UNCHANGED <<provider, now, row, bucket, cleanedAt, check>>

Create(h, code) ==
    /\ creator[h].stage = "insert"
    /\ row[code] = NoEntry
    /\ row' = [row EXCEPT ![code] = [origin |-> creator[h].origin, expires |-> now + Ttl,
                                     revoked |-> FALSE]]
    /\ creator' = [creator EXCEPT ![h] = IdleCreator]
    /\ UNCHANGED <<provider, now, bucket, cleanedAt, check>>

\* The insert fails: the generated code exists already, or the store is away.
CreateFails(h) ==
    /\ creator[h].stage = "insert"
    /\ creator' = [creator EXCEPT ![h] = IdleCreator]
    /\ UNCHANGED <<provider, now, row, bucket, cleanedAt, check>>

Revoke(code) ==
    /\ row[code] # NoEntry /\ ~row[code].revoked
    /\ row' = [row EXCEPT ![code].revoked = TRUE]
    /\ UNCHANGED <<provider, now, bucket, cleanedAt, creator, check>>

-----------------------------------------------------------------------------
(* The failure limit *)

Counted == {o \in Origins : bucket[o] # NoEntry}

\* Mutant: what blocks an origin is kept.
CleanedOfFree ==
    [o \in Origins |->
        IF bucket[o] = NoEntry
           \/ (now - bucket[o].start >= Window /\ bucket[o].failures < MaxFailures)
        THEN NoEntry ELSE bucket[o]]

Cleaned ==
    [o \in Origins |->
        IF bucket[o] = NoEntry \/ now - bucket[o].start >= Window THEN NoEntry ELSE bucket[o]]

\* At most once per window the buckets that are over are dropped.
CleanupDue == now - cleanedAt >= Window
BucketsAfterCleanup == IF CleanupDue THEN Cleaned ELSE bucket

Blocked(origin) ==
    LET left == BucketsAfterCleanup
    IN  IF left[origin] # NoEntry THEN left[origin].failures >= MaxFailures
        ELSE Cardinality({o \in Origins : left[o] # NoEntry}) >= MaxBuckets

\* Mutant: the number of buckets is not looked at again after the lookup.
AfterFailureUnbounded(origin) ==
    [bucket EXCEPT ![origin] =
        IF bucket[origin] # NoEntry /\ now - bucket[origin].start < Window
        THEN [bucket[origin] EXCEPT !.failures = @ + 1]
        ELSE [start |-> now, failures |-> 1]]

AfterFailure(origin) ==
    IF bucket[origin] = NoEntry /\ Cardinality(Counted) >= MaxBuckets THEN bucket
    ELSE [bucket EXCEPT ![origin] =
            IF bucket[origin] # NoEntry /\ now - bucket[origin].start < Window
            THEN [bucket[origin] EXCEPT !.failures = @ + 1]
            ELSE [start |-> now, failures |-> 1]]

-----------------------------------------------------------------------------
(* A request that brings a code *)

\* A blocked request is refused at once, one that passes looks the code up.
PresentCode(h, origin, code) ==
    /\ check[h].stage = "idle"
    /\ bucket' = BucketsAfterCleanup
    /\ cleanedAt' = IF CleanupDue THEN now ELSE cleanedAt
    /\ check' = IF Blocked(origin) THEN check ELSE [check EXCEPT ![h] =
            [stage |-> "find", origin |-> origin, code |-> code]]
    /\ UNCHANGED <<provider, now, row, creator>>

\* Neither not_found, revoked nor expired.
Known(code) == row[code] # NoEntry /\ ~row[code].revoked /\ row[code].expires >= now

\* findByCode and the verdict on its row.  A known code is marked used, which is
\* only shown, or lacks the area, which is told to the agent and not counted;
\* every other refusal is a failure of the origin.
Find(h) ==
    /\ check[h].stage = "find"
    /\ bucket' = IF Known(check[h].code) THEN bucket ELSE AfterFailure(check[h].origin)
    /\ check' = [check EXCEPT ![h] = IdleCheck]
    /\ UNCHANGED <<provider, now, row, cleanedAt, creator>>

TimePasses ==
    /\ now < Horizon
    /\ now' = now + 1
    /\ UNCHANGED <<provider, row, bucket, cleanedAt, creator, check>>

AgentNext ==
    \/ \E h \in Creators, origin \in Origins : CountForCreate(h, origin)
    \/ \E h \in Creators : CreateFails(h) \/ \E code \in Codes : Create(h, code)
    \/ \E code \in Codes : Revoke(code)
    \/ \E h \in Checks, origin \in Origins, code \in Codes :
            PresentCode(h, origin, code)
    \/ \E h \in Checks : Find(h)
    \/ TimePasses

AgentSpec == AgentInit /\ [][AgentNext]_agentVars

-----------------------------------------------------------------------------
(* Properties *)

\* An origin has at most the configured number of active sessions, and one
\* more for every other creation that was counting at the same time: the count
\* and the insert are separate calls (CreateAgentSessionUseCase.execute).
ActiveBounded ==
    \A o \in Origins :
        Cardinality({c \in Codes : row[c] # NoEntry /\ row[c].origin = o /\ ~row[c].revoked
                                   /\ row[c].expires > now})
            + Cardinality({h \in Creators : creator[h].stage = "insert" /\ creator[h].origin = o})
        <= MaxActive + Cardinality(Creators) - 1

\* The origins with failures of the last two windows: a bucket that is over is
\* kept until the next clean-up, which comes once per window.
FailedLately ==
    {o \in Origins : bucket[o] # NoEntry /\ bucket[o].start + 2 * Window > now}

\* An origin is refused for failures of its own of the last two windows, or, while
\* it has no bucket, because as many origins as are counted at a time failed within
\* the last two windows (isSessionAttemptBlocked).  So its own failures keep it out
\* for two windows at most; a table that others fill keeps it out as long as they do.
RefusalExpires ==
    \A o \in Origins : Blocked(o) =>
        IF BucketsAfterCleanup[o] # NoEntry THEN o \in FailedLately
        ELSE Cardinality(FailedLately \ {o}) >= MaxBuckets

\* The buckets stay within their number, and an origin's count within its
\* limit and what was already looked up, however requests overlap.
FailuresBounded ==
    /\ Cardinality(Counted) <= MaxBuckets
    /\ \A o \in Counted : bucket[o].failures <= MaxFailures + Cardinality(Checks) - 1
=============================================================================
