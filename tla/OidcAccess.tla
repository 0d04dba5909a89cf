----------------------------- MODULE OidcAccess ------------------------------
(***************************************************************************)
(* Sign-in through the OpenID Connect provider: administrators come back   *)
(* from a browser redirect (a callback), agents bring an access token.     *)
(* Both flows end in the same projection, which finds or makes the internal*)
(* principal of an external subject.  A callback then opens a session row; *)
(* a guarded request resolves that row, looks its principal up and checks  *)
(* the role.  Every store call is awaited, so other flows, requests and the*)
(* clock run between any two of them.                                      *)
(*                                                                         *)
(* The agents' and the administrators' applications are two issuers of one *)
(* provider, so one person is the same subject at both.                    *)
(***************************************************************************)
EXTENDS Naturals, FiniteSets

CONSTANTS
    Subjects,       \* subjects the provider knows
    Identities,     \* what it may say of a subject: kind and groups
    States,         \* state parameters of logins
    Sessions,       \* session identifiers
    Flows,          \* callbacks and token verifications in flight
    Requests,       \* guarded administrator requests in flight
    MaxTime,        \* bound on the clock
    LoginTtl,       \* OIDC_LOGIN_TRANSACTION_TTL_SECONDS
    SessionTtl,     \* SESSION_TTL_SECONDS
    TouchAge,       \* age of last_seen_at that is written again, 60 seconds
    OpenAreas,      \* areas whose access policy is all_authenticated_users
    None            \* no such row

ASSUME AccessAssumption ==
    {MaxTime, LoginTtl, SessionTtl, TouchAge} \subseteq Nat

VARIABLES
    clock,
    transaction,    \* oidc_login_transactions, by state
    session,        \* admin_sessions, by identifier
    principal,      \* identity_principals
    subjectOf,      \* identity_external_subjects
    flow,           \* what every callback or verification is doing
    request         \* what every guarded request is doing

vars == <<clock, transaction, session, principal, subjectOf, flow, request>>

Issuers == {"admin", "agent"}
Areas == {"discovery", "public-read", "proposal"}
Roles == {"submitter", "reader", "reviewer", "publisher", "admin"}
Kinds == {"human", "service"}

\* A principal is made under the identifier derived from the subject, or was
\* made at an issuer, under a random one, while only that issuer was configured.
Principals == Subjects \X ({"derived"} \cup Issuers)
Derived(s) == <<s, "derived">>

Times == 0..(MaxTime + LoginTtl + SessionTtl + 1)

\* A role's group has the role's name; "staff" is a group without a role.
IdentityRecord == [kind : Kinds, groups : SUBSET (Roles \cup {"staff"})]
NoIdentity == [kind |-> "human", groups |-> {}]

FlowStages == {"idle", "lookup", "counterpart", "upsert", "establish", "signed in"}
Flow == [stage : FlowStages, issuer : Issuers, state : States \cup {None},
         subject : Subjects \cup {None}, identity : IdentityRecord,
         area : Areas \cup {None},
         found : Principals \cup {None}, principal : Principals \cup {None}]
IdleFlow == [stage |-> "idle", issuer |-> "admin", state |-> None, subject |-> None,
             identity |-> NoIdentity, area |-> None, found |-> None, principal |-> None]

RequestStages == {"idle", "find principal", "touch", "admitted"}
IdleRequest == [stage |-> "idle", session |-> None, role |-> None, now |-> 0,
                stale |-> FALSE, disabled |-> {}]

TransactionRow == [consumed : BOOLEAN, expires : Times]
SessionRow == [principal : Principals, roles : SUBSET Roles, seen : Times, expires : Times,
               revoked : BOOLEAN, openedBy : States]
PrincipalRow == [kind : Kinds, disabled : BOOLEAN]
Request == [stage : RequestStages, session : Sessions \cup {None}, role : Roles \cup {None},
            now : Times, stale : BOOLEAN, disabled : SUBSET Principals]

ASSUME NoneAssumption ==
    /\ None \notin Subjects /\ None \notin States /\ None \notin Sessions
    /\ None \notin Principals /\ None \notin TransactionRow
    /\ None \notin SessionRow /\ None \notin PrincipalRow
    /\ Identities \subseteq IdentityRecord

\* The tables, flows and requests keep their shape; roles are the registry's.
TypeOK ==
    /\ clock \in 0..MaxTime
    /\ transaction \in [States -> TransactionRow \cup {None}]
    /\ session \in [Sessions -> SessionRow \cup {None}]
    /\ principal \in [Principals -> PrincipalRow \cup {None}]
    /\ subjectOf \in [Issuers -> [Subjects -> Principals \cup {None}]]
    /\ flow \in [Flows -> Flow]
    /\ request \in [Requests -> Request]

\* A registry that served one issuer, and then perhaps the other one, before both
\* were configured knows some subjects at each, under random identifiers.
Init ==
    /\ clock = 0
    /\ transaction = [s \in States |-> None]
    /\ session = [s \in Sessions |-> None]
    /\ \E known \in [Issuers -> SUBSET Subjects] :
        /\ subjectOf = [i \in Issuers |-> [s \in Subjects |->
                IF s \in known[i] THEN <<s, i>> ELSE None]]
        /\ principal = [p \in Principals |->
                IF p[2] \in Issuers /\ p[1] \in known[p[2]]
                THEN [kind |-> "human", disabled |-> FALSE] ELSE None]
    /\ flow = [f \in Flows |-> IdleFlow]
    /\ request = [r \in Requests |-> IdleRequest]

-----------------------------------------------------------------------------
(* The authorization policy *)

\* Every role is configured with one group, named alike here.
RolesOf(identity) ==
    LET human == identity.kind = "human"
        open(area, role) == human /\ (area \in OpenAreas \/ role \in identity.groups)
    IN  (IF open("proposal", "submitter") THEN {"submitter"} ELSE {})
        \cup (IF open("public-read", "reader") THEN {"reader"} ELSE {})
        \cup (identity.groups \cap {"reviewer", "publisher"})
        \cup (IF "admin" \in identity.groups THEN Roles ELSE {})

MayUse(identity, area) ==
    /\ identity.kind = "human"
    /\ area = "public-read" => RolesOf(identity) \cap {"reader", "admin"} # {}
    /\ area = "proposal" => RolesOf(identity) \cap {"submitter", "admin"} # {}

Administers(roles) == roles \cap {"admin", "reviewer", "publisher"} # {}

-----------------------------------------------------------------------------
(* The administrator's login: redirect out, callback in *)

StartLogin(s) ==
    /\ transaction[s] = None
    /\ transaction' = [transaction EXCEPT ![s] = [consumed |-> FALSE, expires |-> clock + LoginTtl]]
    /\ UNCHANGED <<clock, session, principal, subjectOf, flow, request>>

\* Mutant: the consumption is not written.
ConsumedNothing(s) == transaction

Consumed(s) == [transaction EXCEPT ![s].consumed = TRUE]

\* The row is consumed in one database transaction, which its lock makes atomic.
\* Then the provider answers the code grant with an identity or fails, which
\* depends on nothing stored here.
Callback(f, s) ==
    /\ flow[f].stage = "idle"
    /\ transaction[s] # None /\ ~transaction[s].consumed /\ transaction[s].expires > clock
    /\ transaction' = Consumed(s)
    /\ \/ flow' = flow
       \/ \E subject \in Subjects, identity \in Identities :
            flow' = [flow EXCEPT ![f] = [IdleFlow EXCEPT !.stage = "lookup", !.state = s,
                                        !.subject = subject, !.identity = identity]]
    /\ UNCHANGED <<clock, session, principal, subjectOf, request>>

-----------------------------------------------------------------------------
(* The agent's access token *)

\* A token whose signature and claims were verified, and that carries the
\* scope of the area; proposing needs the delegation by a person.
PresentToken(f, subject, identity, area) ==
    /\ flow[f].stage = "idle"
    /\ area = "proposal" => identity.kind = "human"
    /\ flow' = [flow EXCEPT ![f] =
            [IdleFlow EXCEPT !.stage = "lookup", !.issuer = "agent", !.area = area,
                             !.subject = subject, !.identity = identity]]
    /\ UNCHANGED <<clock, transaction, session, principal, subjectOf, request>>

-----------------------------------------------------------------------------
(* The projection of an external subject on an internal principal *)

Other(issuer) == IF issuer = "admin" THEN "agent" ELSE "admin"

Lookup(f) ==
    LET exact == subjectOf[flow[f].issuer][flow[f].subject]
        next == IF exact = None THEN "counterpart" ELSE "upsert"
    IN  /\ flow[f].stage = "lookup"
        /\ flow' = [flow EXCEPT ![f].stage = next, ![f].found = exact]
        /\ UNCHANGED <<clock, transaction, session, principal, subjectOf, request>>

LookupCounterpart(f) ==
    /\ flow[f].stage = "counterpart"
    /\ flow' = [flow EXCEPT ![f].stage = "upsert",
                            ![f].found = subjectOf[Other(flow[f].issuer)][flow[f].subject]]
    /\ UNCHANGED <<clock, transaction, session, principal, subjectOf, request>>

\* Mutant: a subject found nowhere gets a random identifier.
ProjectedAtRandom(f) ==
    LET existing == subjectOf[flow[f].issuer][flow[f].subject]
    IN  IF existing # None THEN existing
        ELSE IF flow[f].found # None THEN flow[f].found
        ELSE <<flow[f].subject, flow[f].issuer>>

\* What the transaction finds wins over what the lookups found.
Projected(f) ==
    LET existing == subjectOf[flow[f].issuer][flow[f].subject]
    IN  IF existing # None THEN existing
        ELSE IF flow[f].found # None THEN flow[f].found
        ELSE Derived(flow[f].subject)

\* Mutant: the upsert writes every column, disabled_at too.
UpsertedEveryColumn(f, p) == [kind |-> flow[f].identity.kind, disabled |-> FALSE]

UpsertedRow(f, p) ==
    [kind |-> flow[f].identity.kind, disabled |-> principal[p] # None /\ principal[p].disabled]

\* One transaction over both tables; a principal is never enabled again by it.
\* A projected principal that is disabled ends the flow.
Upsert(f) ==
    LET p == Projected(f)
        row == UpsertedRow(f, p)
        admitted == /\ ~row.disabled
                    /\ IF flow[f].issuer = "agent" THEN MayUse(flow[f].identity, flow[f].area)
                                                  ELSE Administers(RolesOf(flow[f].identity))
        next == IF flow[f].issuer = "agent" THEN "signed in" ELSE "establish"
    IN  /\ flow[f].stage = "upsert"
        /\ principal' = [principal EXCEPT ![p] = row]
        /\ subjectOf' = [subjectOf EXCEPT ![flow[f].issuer][flow[f].subject] = p]
        /\ flow' = [flow EXCEPT ![f] =
                IF admitted THEN [@ EXCEPT !.stage = next, !.principal = p] ELSE IdleFlow]
        /\ UNCHANGED <<clock, transaction, session, request>>

\* The transaction fails: a lost connection, a deadlock.
UpsertFails(f) ==
    /\ flow[f].stage = "upsert"
    /\ flow' = [flow EXCEPT ![f] = IdleFlow]
    /\ UNCHANGED <<clock, transaction, session, principal, subjectOf, request>>

Establish(f, s) ==
    /\ flow[f].stage = "establish"
    /\ session[s] = None
    /\ session' = [session EXCEPT ![s] =
            [principal |-> flow[f].principal, roles |-> RolesOf(flow[f].identity),
             seen |-> clock, expires |-> clock + SessionTtl, revoked |-> FALSE,
             openedBy |-> flow[f].state]]
    /\ flow' = [flow EXCEPT ![f] = IdleFlow]
    /\ UNCHANGED <<clock, transaction, principal, subjectOf, request>>

\* An agent's request that was signed in has been served.
Served(f) ==
    /\ flow[f].stage = "signed in"
    /\ flow' = [flow EXCEPT ![f] = IdleFlow]
    /\ UNCHANGED <<clock, transaction, session, principal, subjectOf, request>>

-----------------------------------------------------------------------------
(* The guard of administrator requests *)

Usable(s) == session[s] # None /\ ~session[s].revoked /\ session[s].expires > clock

\* The request carries the cookie of some session; one that is not usable any
\* more is denied at once.  last_seen_at is read with the row: whether it is stale.
Resolve(r, s, role) ==
    /\ request[r].stage = "idle" /\ Usable(s)
    /\ request' = [request EXCEPT ![r] =
            [stage |-> "find principal", session |-> s, role |-> role, now |-> clock,
             stale |-> clock >= session[s].seen + TouchAge,
             disabled |-> {p \in Principals : principal[p] # None /\ principal[p].disabled}]]
    /\ UNCHANGED <<clock, transaction, session, principal, subjectOf, flow>>

\* Mutant: the principal is found but not whether it is disabled.
StandingOfKnown(p) == principal[p] # None

InGoodStanding(p) == principal[p] # None /\ ~principal[p].disabled

\* The roles are those of the session row, whatever the provider says by now.
Decided(r) ==
    IF session[request[r].session].roles \cap {"admin", request[r].role} # {}
    THEN [request[r] EXCEPT !.stage = "admitted"] ELSE IdleRequest

FindPrincipal(r) ==
    /\ request[r].stage = "find principal"
    /\ request' = [request EXCEPT ![r] =
            IF ~InGoodStanding(session[request[r].session].principal) THEN IdleRequest
            ELSE IF request[r].stale THEN [@ EXCEPT !.stage = "touch"]
            ELSE Decided(r)]
    /\ UNCHANGED <<clock, transaction, session, principal, subjectOf, flow>>

\* The time of the request is written, whatever another one has written by now.
Touch(r) ==
    LET s == request[r].session
        touched == ~session[s].revoked /\ session[s].expires > request[r].now
    IN  /\ request[r].stage = "touch"
        /\ session' = IF touched THEN [session EXCEPT ![s].seen = request[r].now] ELSE session
        /\ request' = [request EXCEPT ![r] = Decided(r)]
        /\ UNCHANGED <<clock, transaction, principal, subjectOf, flow>>

RequestEnds(r) ==
    /\ request[r].stage = "admitted"
    /\ request' = [request EXCEPT ![r] = IdleRequest]
    /\ UNCHANGED <<clock, transaction, session, principal, subjectOf, flow>>

Logout(s) ==
    /\ session[s] # None /\ ~session[s].revoked
    /\ session' = [session EXCEPT ![s].revoked = TRUE]
    /\ UNCHANGED <<clock, transaction, principal, subjectOf, flow, request>>

-----------------------------------------------------------------------------
(* The surroundings *)

\* An operator disables a principal in the table.
Disable(p) ==
    /\ principal[p] # None /\ ~principal[p].disabled
    /\ principal' = [principal EXCEPT ![p].disabled = TRUE]
    /\ UNCHANGED <<clock, transaction, session, subjectOf, flow, request>>

Tick ==
    /\ clock < MaxTime
    /\ clock' = clock + 1
    /\ UNCHANGED <<transaction, session, principal, subjectOf, flow, request>>

Next ==
    \/ \E s \in States : StartLogin(s) \/ \E f \in Flows : Callback(f, s)
    \/ \E f \in Flows, subject \in Subjects, identity \in Identities, area \in Areas :
            PresentToken(f, subject, identity, area)
    \/ \E f \in Flows : Lookup(f) \/ LookupCounterpart(f) \/ Upsert(f)
                        \/ UpsertFails(f) \/ Served(f)
    \/ \E f \in Flows, s \in Sessions : Establish(f, s)
    \/ \E r \in Requests, s \in Sessions, role \in {"reviewer", "admin"} : Resolve(r, s, role)
    \/ \E r \in Requests : FindPrincipal(r) \/ Touch(r) \/ RequestEnds(r)
    \/ \E s \in Sessions : Logout(s)
    \/ \E p \in Principals : Disable(p)
    \/ Tick

Spec == Init /\ [][Next]_vars

-----------------------------------------------------------------------------
(* Properties *)

\* A login opens at most one session, however often and however concurrently
\* its callback arrives (consume, sqlite-identity.persistence.ts).
OneSessionPerLogin ==
    \A s, t \in Sessions :
        (session[s] # None /\ session[t] # None /\ session[s].openedBy = session[t].openedBy)
            => s = t

Apart(s) ==
    /\ subjectOf["admin"][s] # None /\ subjectOf["agent"][s] # None
    /\ subjectOf["admin"][s] # subjectOf["agent"][s]

\* No sign-in makes two principals of one person: the rows of a subject at the
\* two issuers never come to differ, also when the first sign-ins at both overlap
\* or one issuer was in use before (PrincipalProjectionService.project).  Rows
\* that differed before both were configured are not merged.
SubjectsNeverPart == [][\A s \in Subjects : Apart(s)' => Apart(s)]_vars

\* A request is let through only while its session had not expired when it
\* began, for a principal that was not yet disabled when the request began,
\* with a role that gives the right (adminGuard, OidcAdminAuth.validate).
AdmittedIsEntitled ==
    \A r \in Requests : request[r].stage = "admitted" =>
        LET s == session[request[r].session]
        IN  /\ request[r].now < s.expires
            /\ s.principal \notin request[r].disabled
            /\ s.roles \cap {"admin", request[r].role} # {}

\* Signing in again, as an agent or an administrator, never lifts the
\* disablement of a principal (upsertExternalPrincipal).
DisabledStays ==
    [][\A p \in Principals :
        (principal[p] # None /\ principal[p].disabled) =>
            (principal'[p] # None /\ principal'[p].disabled)]_vars
=============================================================================
