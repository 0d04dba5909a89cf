---------------------------- MODULE AccessProofs ----------------------------
(***************************************************************************)
(* Sign-in, for any number of subjects, logins, sessions, flows in flight  *)
(* and guarded requests: a login opens one session, a person is one        *)
(* principal, a disabled principal stays disabled, and a request is let    *)
(* through only for a session and a principal that were good when it began.*)
(* And agent sessions, for any number of codes, creations, requests and    *)
(* origins and for both databases: how far overlapping requests can pass   *)
(* the limits, and that a refusal ends.                                    *)
(***************************************************************************)
EXTENDS OidcAccess, AgentAccess, FiniteSetTheorems, TLAPS

\* A flow under way has a subject, an administrator's carries its login's
\* state, and one about to open a session has its principal.
Fits(rec) ==
    rec.stage # "idle" =>
        /\ rec.subject \in Subjects
        /\ rec.issuer = "admin" => rec.state \in States
        /\ rec.stage = "establish" => rec.issuer = "admin" /\ rec.principal \in Principals

FlowShape == \A f \in Flows : Fits(flow[f])

\* A guarded request under way has found a session row.
RequestShape ==
    \A r \in Requests : request[r].stage # "idle" =>
        request[r].session \in Sessions /\ session[request[r].session] # None

Shape == TypeOK /\ FlowShape /\ RequestShape

-----------------------------------------------------------------------------
(* The values the steps write *)

LEMMA RolesAreRoles ==
    ASSUME NEW identity \in IdentityRecord
    PROVE  RolesOf(identity) \in SUBSET Roles
BY DEF RolesOf, Roles, IdentityRecord

LEMMA TimesBound ==
    ASSUME clock \in 0..MaxTime
    PROVE  clock + LoginTtl \in Times /\ clock + SessionTtl \in Times /\ clock \in Times
BY AccessAssumption DEF Times

LEMMA Idles == IdleFlow \in Flow /\ IdleRequest \in Request
BY AccessAssumption DEF IdleFlow, Flow, FlowStages, Issuers, NoIdentity, IdentityRecord, Kinds,
       IdleRequest, Request, RequestStages, Times

LEMMA DerivedIsPrincipal ==
    ASSUME NEW s \in Subjects
    PROVE  Derived(s) \in Principals
BY DEF Derived, Principals

LEMMA ProjectedIsPrincipal ==
    ASSUME TypeOK, NEW f \in Flows, flow[f].subject \in Subjects
    PROVE  Projected(f) \in Principals
<1>1. flow[f] \in Flow
    BY DEF TypeOK
<1>2. /\ flow[f].issuer \in Issuers
      /\ flow[f].found \in Principals \cup {None}
    BY <1>1 DEF Flow
<1>3. subjectOf[flow[f].issuer][flow[f].subject] \in Principals \cup {None}
    BY <1>2 DEF TypeOK
<1> QED BY <1>2, <1>3, DerivedIsPrincipal DEF Projected

LEMMA UpsertedIsRow ==
    ASSUME TypeOK, NEW f \in Flows, NEW p \in Principals
    PROVE  UpsertedRow(f, p) \in PrincipalRow
<1> DEFINE disabled == principal[p] # None /\ principal[p].disabled
           kind == flow[f].identity.kind
<1>1. disabled \in BOOLEAN
    BY DEF TypeOK, PrincipalRow
<1>2. kind \in Kinds
    <2>1. flow[f] \in Flow
        BY DEF TypeOK
    <2> QED BY <2>1 DEF Flow, IdentityRecord
<1>3. UpsertedRow(f, p) = [kind |-> kind, disabled |-> disabled]
    BY DEF UpsertedRow
<1> HIDE DEF disabled, kind
<1> QED BY <1>1, <1>2, <1>3 DEF PrincipalRow

-----------------------------------------------------------------------------
(* What a step of a flow makes of its record *)

\* f becomes rec, which fits, and nothing else about the flows changes.
Becomes(f, rec) ==
    /\ rec \in Flow /\ Fits(rec)
    /\ flow' = [flow EXCEPT ![f] = rec]

LEMMA FlowsKept ==
    ASSUME Shape, NEW f \in Flows, NEW rec, Becomes(f, rec)
    PROVE  /\ flow' \in [Flows -> Flow] /\ FlowShape'
           /\ flow'[f] = rec
           /\ \A g \in Flows : g # f => flow'[g] = flow[g]
BY DEF Becomes, Shape, TypeOK, FlowShape, Fits

LEMMA IdleBecomes ==
    ASSUME NEW f, flow' = [flow EXCEPT ![f] = IdleFlow]
    PROVE  Becomes(f, IdleFlow)
BY Idles DEF Becomes, Fits, IdleFlow

\* A callback has consumed its login's state; it goes on with what the provider
\* says of the subject, or ends.
LEMMA CallbackBecomes ==
    ASSUME NEW f \in Flows, NEW s \in States, NEW subject \in Subjects,
           NEW identity \in IdentityRecord
    PROVE  LET rec == [IdleFlow EXCEPT !.stage = "lookup", !.state = s,
                                       !.subject = subject, !.identity = identity]
           IN  /\ rec \in Flow /\ Fits(rec) /\ rec.stage = "lookup"
               /\ rec.issuer = "admin" /\ rec.state = s
BY DEF IdleFlow, Flow, FlowStages, Issuers, Fits

LEMMA TokenBecomes ==
    ASSUME NEW f \in Flows, NEW subject \in Subjects, NEW identity \in IdentityRecord,
           NEW area \in Areas
    PROVE  LET rec == [IdleFlow EXCEPT !.stage = "lookup", !.issuer = "agent", !.area = area,
                                       !.subject = subject, !.identity = identity]
           IN  rec \in Flow /\ Fits(rec) /\ rec.stage = "lookup" /\ rec.issuer = "agent"
BY DEF IdleFlow, Flow, FlowStages, Issuers, Fits

LEMMA OtherIssuer ==
    ASSUME NEW issuer \in Issuers
    PROVE  Other(issuer) \in Issuers /\ Other(issuer) # issuer /\ Issuers = {issuer, Other(issuer)}
BY DEF Other, Issuers

LEMMA RowKnown ==
    ASSUME TypeOK, NEW issuer \in Issuers, NEW subject \in Subjects
    PROVE  subjectOf[issuer][subject] \in Principals \cup {None}
BY DEF TypeOK

LEMMA LookupBecomes ==
    ASSUME Shape, NEW f \in Flows, Lookup(f)
    PROVE  \E rec : /\ Becomes(f, rec)
                    /\ rec.issuer = flow[f].issuer /\ rec.subject = flow[f].subject
                    /\ rec.state = flow[f].state
                    /\ rec.found = subjectOf[flow[f].issuer][flow[f].subject]
                    /\ rec.stage = IF rec.found = None THEN "counterpart" ELSE "upsert"
<1> DEFINE exact == subjectOf[flow[f].issuer][flow[f].subject]
           next == IF exact = None THEN "counterpart" ELSE "upsert"
           rec == [flow[f] EXCEPT !.stage = next, !.found = exact]
<1>1. /\ flow[f] \in Flow /\ Fits(flow[f]) /\ flow[f].stage = "lookup"
      /\ flow \in [Flows -> Flow]
    BY DEF Shape, TypeOK, FlowShape, Lookup
<1>2. exact \in Principals \cup {None}
    BY <1>1, RowKnown DEF Shape, Flow, Fits
<1>3. flow' = [flow EXCEPT ![f] = rec]
    BY <1>1 DEF Lookup
<1> HIDE DEF exact
<1>4. rec \in Flow /\ Fits(rec)
    BY <1>1, <1>2 DEF Flow, FlowStages, Fits
<1>5. /\ rec.issuer = flow[f].issuer /\ rec.subject = flow[f].subject
      /\ rec.state = flow[f].state /\ rec.found = exact /\ rec.stage = next
    BY <1>1 DEF Flow
<1> QED BY <1>3, <1>4, <1>5 DEF Becomes, exact

LEMMA CounterpartBecomes ==
    ASSUME Shape, NEW f \in Flows, LookupCounterpart(f)
    PROVE  \E rec : /\ Becomes(f, rec)
                    /\ rec.issuer = flow[f].issuer /\ rec.subject = flow[f].subject
                    /\ rec.state = flow[f].state
                    /\ rec.found = subjectOf[Other(flow[f].issuer)][flow[f].subject]
                    /\ rec.stage = "upsert"
<1> DEFINE other == subjectOf[Other(flow[f].issuer)][flow[f].subject]
           rec == [flow[f] EXCEPT !.stage = "upsert", !.found = other]
<1>1. /\ flow[f] \in Flow /\ Fits(flow[f]) /\ flow[f].stage = "counterpart"
      /\ flow \in [Flows -> Flow]
    BY DEF Shape, TypeOK, FlowShape, LookupCounterpart
<1>2. other \in Principals \cup {None}
    BY <1>1, RowKnown, OtherIssuer DEF Shape, Flow, Fits
<1>3. flow' = [flow EXCEPT ![f] = rec]
    BY <1>1 DEF LookupCounterpart
<1> HIDE DEF other
<1>4. rec \in Flow /\ Fits(rec)
    BY <1>1, <1>2 DEF Flow, FlowStages, Fits
<1>5. /\ rec.issuer = flow[f].issuer /\ rec.subject = flow[f].subject
      /\ rec.state = flow[f].state /\ rec.found = other /\ rec.stage = "upsert"
    BY <1>1 DEF Flow
<1> QED BY <1>3, <1>4, <1>5 DEF Becomes, other

LEMMA UpsertBecomes ==
    ASSUME Shape, NEW f \in Flows, Upsert(f)
    PROVE  /\ flow[f].subject \in Subjects /\ flow[f].issuer \in Issuers
           /\ Projected(f) \in Principals
           /\ \E rec : /\ Becomes(f, rec)
                       /\ \/ rec.stage = "idle"
                          \/ /\ rec.stage \in {"signed in", "establish"}
                             /\ rec.issuer = flow[f].issuer /\ rec.state = flow[f].state
<1>1. /\ flow[f] \in Flow /\ Fits(flow[f]) /\ flow[f].stage = "upsert"
      /\ flow \in [Flows -> Flow]
    BY DEF Shape, TypeOK, FlowShape, Upsert
<1>2. flow[f].subject \in Subjects /\ flow[f].issuer \in Issuers
    BY <1>1 DEF Fits, Flow
<1>3. Projected(f) \in Principals
    BY <1>2, ProjectedIsPrincipal DEF Shape
<1> DEFINE p == Projected(f)
           next == IF flow[f].issuer = "agent" THEN "signed in" ELSE "establish"
           rec == [flow[f] EXCEPT !.stage = next, !.principal = p]
<1>4. flow' = [flow EXCEPT ![f] = rec] \/ flow' = [flow EXCEPT ![f] = IdleFlow]
    BY <1>1 DEF Upsert
<1> HIDE DEF p
<1>5. rec \in Flow /\ Fits(rec)
    BY <1>1, <1>2, <1>3 DEF Flow, FlowStages, Fits, p, Issuers
<1>6. /\ rec.stage \in {"signed in", "establish"}
      /\ rec.issuer = flow[f].issuer /\ rec.state = flow[f].state
    BY <1>1 DEF Flow
<1>7. IdleFlow.stage = "idle"
    BY DEF IdleFlow
<1> QED BY <1>2, <1>3, <1>4, <1>5, <1>6, <1>7, IdleBecomes DEF Becomes

-----------------------------------------------------------------------------
(* Every step keeps the shape *)

\* The tables a step leaves alone keep theirs.
LEMMA FlowStep ==
    ASSUME Shape, NEW f \in Flows, NEW rec, Becomes(f, rec),
           UNCHANGED <<clock, transaction, session, principal, subjectOf, request>>
    PROVE  Shape'
<1>1. flow' \in [Flows -> Flow] /\ FlowShape'
    BY FlowsKept
<1>2. TypeOK'
    BY <1>1 DEF Shape, TypeOK
<1>3. RequestShape'
    BY DEF Shape, RequestShape
<1> QED BY <1>1, <1>2, <1>3 DEF Shape

LEMMA StartLoginShape ==
    ASSUME Shape, NEW s \in States, StartLogin(s)
    PROVE  Shape'
<1>1. [consumed |-> FALSE, expires |-> clock + LoginTtl] \in TransactionRow
    BY TimesBound DEF Shape, TypeOK, TransactionRow
<1>2. TypeOK'
    BY <1>1 DEF Shape, TypeOK, StartLogin
<1>3. FlowShape' /\ RequestShape'
    BY DEF Shape, FlowShape, RequestShape, StartLogin, Fits
<1> QED BY <1>2, <1>3 DEF Shape

LEMMA ConsumedRows ==
    ASSUME TypeOK, NEW s \in States, transaction[s] # None
    PROVE  /\ Consumed(s) \in [States -> TransactionRow \cup {None}]
           /\ Consumed(s)[s] # None /\ Consumed(s)[s].consumed
           /\ \A t \in States : t # s => Consumed(s)[t] = transaction[t]
<1>1. transaction[s] \in TransactionRow
    BY DEF TypeOK
<1>2. [transaction[s] EXCEPT !.consumed = TRUE] \in TransactionRow
    BY <1>1 DEF TransactionRow
<1>3. [transaction[s] EXCEPT !.consumed = TRUE].consumed
    BY <1>1 DEF TransactionRow
<1>4. Consumed(s) = [transaction EXCEPT ![s] = [transaction[s] EXCEPT !.consumed = TRUE]]
    BY DEF Consumed
<1>5. [transaction[s] EXCEPT !.consumed = TRUE] # None
    BY <1>2, NoneAssumption
<1> HIDE DEF Consumed
<1> QED BY <1>2, <1>3, <1>4, <1>5 DEF TypeOK

\* What a callback does to the flows: nothing, or one of them has its state.
LEMMA CallbackFlows ==
    ASSUME Shape, NEW f \in Flows, NEW s \in States, Callback(f, s)
    PROVE  \/ flow' = flow
           \/ \E rec : /\ Becomes(f, rec) /\ rec.stage = "lookup"
                       /\ rec.issuer = "admin" /\ rec.state = s
<1>1. CASE flow' = flow
    BY <1>1
<1>2. CASE flow' # flow
    <2>1. PICK subject \in Subjects, identity \in Identities :
            flow' = [flow EXCEPT ![f] = [IdleFlow EXCEPT !.stage = "lookup", !.state = s,
                                        !.subject = subject, !.identity = identity]]
        BY <1>2 DEF Callback
    <2>2. identity \in IdentityRecord
        BY NoneAssumption
    <2> DEFINE rec == [IdleFlow EXCEPT !.stage = "lookup", !.state = s,
                                       !.subject = subject, !.identity = identity]
    <2>3. /\ rec \in Flow /\ Fits(rec) /\ rec.stage = "lookup"
          /\ rec.issuer = "admin" /\ rec.state = s
        BY <2>2 DEF IdleFlow, Flow, FlowStages, Issuers, Fits
    <2>4. flow' = [flow EXCEPT ![f] = rec]
        BY <2>1
    <2> HIDE DEF rec
    <2> QED BY <2>3, <2>4 DEF Becomes
<1> QED BY <1>1, <1>2

LEMMA CallbackShape ==
    ASSUME Shape, NEW f \in Flows, NEW s \in States, Callback(f, s)
    PROVE  Shape'
<1>1. transaction' \in [States -> TransactionRow \cup {None}]
    BY ConsumedRows DEF Shape, Callback
<1>2. flow' \in [Flows -> Flow] /\ FlowShape'
    <2>1. CASE flow' = flow
        BY <2>1 DEF Shape, TypeOK, FlowShape, Fits
    <2>2. CASE \E rec : Becomes(f, rec)
        BY <2>2, FlowsKept
    <2> QED BY <2>1, <2>2, CallbackFlows
<1>3. TypeOK'
    BY <1>1, <1>2 DEF Shape, TypeOK, Callback
<1>4. RequestShape'
    BY DEF Shape, RequestShape, Callback
<1> QED BY <1>2, <1>3, <1>4 DEF Shape

LEMMA UpsertShape ==
    ASSUME Shape, NEW f \in Flows, Upsert(f)
    PROVE  Shape'
<1>1. /\ flow[f].subject \in Subjects /\ flow[f].issuer \in Issuers
      /\ Projected(f) \in Principals
      /\ \E rec : Becomes(f, rec)
    BY UpsertBecomes
<1>2. principal' \in [Principals -> PrincipalRow \cup {None}]
    <2>1. UpsertedRow(f, Projected(f)) \in PrincipalRow
        BY <1>1, UpsertedIsRow DEF Shape
    <2>2. principal' = [principal EXCEPT ![Projected(f)] = UpsertedRow(f, Projected(f))]
        BY DEF Upsert
    <2> QED BY <2>1, <2>2 DEF Shape, TypeOK
<1>3. subjectOf' \in [Issuers -> [Subjects -> Principals \cup {None}]]
    <2>1. subjectOf' = [subjectOf EXCEPT ![flow[f].issuer][flow[f].subject] = Projected(f)]
        BY DEF Upsert
    <2> QED BY <1>1, <2>1 DEF Shape, TypeOK
<1>4. flow' \in [Flows -> Flow] /\ FlowShape'
    BY <1>1, FlowsKept
<1>5. TypeOK'
    BY <1>2, <1>3, <1>4 DEF Shape, TypeOK, Upsert
<1>6. RequestShape'
    BY DEF Shape, RequestShape, Upsert
<1> QED BY <1>4, <1>5, <1>6 DEF Shape

\* The row a session is opened with; it is the only one that changes.
LEMMA EstablishedRow ==
    ASSUME Shape, NEW f \in Flows, NEW s \in Sessions, Establish(f, s)
    PROVE  /\ flow[f].issuer = "admin" /\ flow[f].state \in States
           /\ session' \in [Sessions -> SessionRow \cup {None}]
           /\ session'[s] # None /\ session'[s].openedBy = flow[f].state
           /\ \A t \in Sessions : t # s => session'[t] = session[t]
<1>1. flow[f] \in Flow /\ Fits(flow[f]) /\ flow[f].stage = "establish"
    BY DEF Shape, TypeOK, FlowShape, Establish
<1>2. flow[f].issuer = "admin" /\ flow[f].state \in States /\ flow[f].principal \in Principals
    BY <1>1 DEF Fits
<1>3. RolesOf(flow[f].identity) \in SUBSET Roles
    BY <1>1, RolesAreRoles DEF Flow
<1> DEFINE roles == RolesOf(flow[f].identity)
           entry == [principal |-> flow[f].principal, roles |-> roles,
                   seen |-> clock, expires |-> clock + SessionTtl, revoked |-> FALSE,
                   openedBy |-> flow[f].state]
<1>4. session' = [session EXCEPT ![s] = entry]
    BY DEF Establish
<1>5. roles \in SUBSET Roles
    BY <1>3
<1> HIDE DEF roles
<1>6. entry \in SessionRow
    BY <1>2, <1>5, TimesBound DEF Shape, TypeOK, SessionRow
<1>7. entry # None /\ entry.openedBy = flow[f].state
    BY <1>6, NoneAssumption
<1> HIDE DEF entry
<1> QED BY <1>2, <1>4, <1>6, <1>7 DEF Shape, TypeOK

LEMMA EstablishShape ==
    ASSUME Shape, NEW f \in Flows, NEW s \in Sessions, Establish(f, s)
    PROVE  Shape'
<1>1. flow' \in [Flows -> Flow] /\ FlowShape'
    BY IdleBecomes, FlowsKept DEF Establish
<1>2. /\ session' \in [Sessions -> SessionRow \cup {None}]
      /\ \A t \in Sessions : session[t] # None => session'[t] # None
    BY EstablishedRow
<1>3. TypeOK'
    BY <1>1, <1>2 DEF Shape, TypeOK, Establish
<1>4. RequestShape'
    BY <1>2 DEF Shape, RequestShape, Establish
<1> QED BY <1>1, <1>3, <1>4 DEF Shape

\* A request's record and, when it is touched, its session change.
LEMMA DecidedIsRequest ==
    ASSUME Shape, NEW r \in Requests
    PROVE  /\ Decided(r) \in Request
           /\ Decided(r).stage = "idle" \/ Decided(r) = [request[r] EXCEPT !.stage = "admitted"]
<1>1. request[r] \in Request
    BY DEF Shape, TypeOK
<1>2. [request[r] EXCEPT !.stage = "admitted"] \in Request
    BY <1>1 DEF Request, RequestStages
<1>3. IdleRequest.stage = "idle"
    BY DEF IdleRequest
<1> QED BY <1>2, <1>3, Idles DEF Decided

\* What a request becomes keeps to the session it resolved.
LEMMA RequestStep ==
    ASSUME Shape, NEW r \in Requests, NEW rec \in Request,
           rec.stage # "idle" => rec.session \in Sessions /\ session[rec.session] # None,
           request' = [request EXCEPT ![r] = rec],
           session' \in [Sessions -> SessionRow \cup {None}],
           \A s \in Sessions : session[s] # None => session'[s] # None,
           UNCHANGED <<clock, transaction, principal, subjectOf, flow>>
    PROVE  Shape'
<1>1. TypeOK'
    BY DEF Shape, TypeOK
<1>2. FlowShape'
    BY DEF Shape, FlowShape, Fits
<1>3. RequestShape'
    BY DEF Shape, TypeOK, RequestShape
<1> QED BY <1>1, <1>2, <1>3 DEF Shape

LEMMA ResolveShape ==
    ASSUME Shape, NEW r \in Requests, NEW s \in Sessions, NEW role \in {"reviewer", "admin"},
           Resolve(r, s, role)
    PROVE  Shape'
<1> DEFINE off == {p \in Principals : principal[p] # None /\ principal[p].disabled}
           old == clock >= session[s].seen + TouchAge
           rec == [stage |-> "find principal", session |-> s, role |-> role, now |-> clock,
                   stale |-> old, disabled |-> off]
<1>1. off \in SUBSET Principals /\ old \in BOOLEAN
    OBVIOUS
<1>2. request' = [request EXCEPT ![r] = rec]
    BY DEF Resolve
<1> HIDE DEF off, old
<1>3. rec \in Request
    BY <1>1, TimesBound DEF Shape, TypeOK, Request, RequestStages, Roles
<1>4. rec.session = s /\ session[s] # None
    BY DEF Resolve, Usable
<1> HIDE DEF rec
<1>5. session' \in [Sessions -> SessionRow \cup {None}]
    BY DEF Resolve, Shape, TypeOK
<1> QED BY <1>2, <1>3, <1>4, <1>5, RequestStep DEF Resolve

LEMMA FindPrincipalBecomes ==
    ASSUME Shape, NEW r \in Requests, FindPrincipal(r)
    PROVE  \E rec \in Request :
                /\ request' = [request EXCEPT ![r] = rec]
                /\ rec.stage # "idle" =>
                        /\ rec.session = request[r].session /\ rec.now = request[r].now
                        /\ rec.disabled = request[r].disabled /\ rec.role = request[r].role
                        /\ InGoodStanding(session[request[r].session].principal)
                /\ rec.stage \in {"idle", "touch", "admitted"}
                /\ rec.stage = "admitted" =>
                        session[request[r].session].roles \cap {"admin", request[r].role} # {}
<1> DEFINE good == InGoodStanding(session[request[r].session].principal)
           touch == [request[r] EXCEPT !.stage = "touch"]
           admitted == [request[r] EXCEPT !.stage = "admitted"]
           roles == session[request[r].session].roles \cap {"admin", request[r].role} # {}
<1>1. request[r] \in Request /\ request \in [Requests -> Request]
    BY DEF Shape, TypeOK
<1>2. /\ touch \in Request /\ admitted \in Request
      /\ touch.stage = "touch" /\ admitted.stage = "admitted"
    BY <1>1 DEF Request, RequestStages
<1>3. \A rec \in {touch, admitted} :
            /\ rec.session = request[r].session /\ rec.now = request[r].now
            /\ rec.disabled = request[r].disabled /\ rec.role = request[r].role
    BY <1>1 DEF Request
<1>4. \/ request' = [request EXCEPT ![r] = IdleRequest]
      \/ good /\ request' = [request EXCEPT ![r] = touch]
      \/ good /\ roles /\ request' = [request EXCEPT ![r] = admitted]
    BY <1>1 DEF FindPrincipal, Decided
<1>5. IdleRequest.stage = "idle" /\ IdleRequest \in Request
    BY Idles DEF IdleRequest
<1> HIDE DEF touch, admitted, good, roles
<1>6. CASE request' = [request EXCEPT ![r] = IdleRequest]
    BY <1>5, <1>6
<1>7. CASE good /\ request' = [request EXCEPT ![r] = touch]
    BY <1>2, <1>3, <1>7 DEF good
<1>8. CASE good /\ roles /\ request' = [request EXCEPT ![r] = admitted]
    BY <1>2, <1>3, <1>8 DEF good, roles
<1> QED BY <1>4, <1>6, <1>7, <1>8

LEMMA FindPrincipalShape ==
    ASSUME Shape, NEW r \in Requests, FindPrincipal(r)
    PROVE  Shape'
<1>1. request[r].stage # "idle" /\ session' = session
    BY DEF FindPrincipal
<1>2. request[r].session \in Sessions /\ session[request[r].session] # None
    BY <1>1 DEF Shape, RequestShape
<1>3. PICK rec \in Request :
            /\ request' = [request EXCEPT ![r] = rec]
            /\ rec.stage # "idle" => rec.session = request[r].session
    BY FindPrincipalBecomes
<1>4. session' \in [Sessions -> SessionRow \cup {None}]
    BY <1>1 DEF Shape, TypeOK
<1>5. UNCHANGED <<clock, transaction, principal, subjectOf, flow>>
    BY DEF FindPrincipal
<1>6. rec.stage # "idle" => rec.session \in Sessions /\ session[rec.session] # None
    BY <1>2, <1>3
<1>7. \A s \in Sessions : session[s] # None => session'[s] # None
    BY <1>1
<1> QED BY ONLY Shape, <1>3, <1>4, <1>5, <1>6, <1>7, RequestStep

\* Touching moves a session's last sight, and nothing else of it.
LEMMA TouchedSessions ==
    ASSUME Shape, NEW r \in Requests, Touch(r)
    PROVE  /\ session' \in [Sessions -> SessionRow \cup {None}]
           /\ \A s \in Sessions :
                /\ session[s] # None <=> session'[s] # None
                /\ session[s] # None =>
                        /\ session'[s].principal = session[s].principal
                        /\ session'[s].roles = session[s].roles
                        /\ session'[s].expires = session[s].expires
                        /\ session'[s].openedBy = session[s].openedBy
<1> DEFINE s == request[r].session
           entry == [session[s] EXCEPT !.seen = request[r].now]
<1>1. request[r] \in Request /\ request[r].stage # "idle"
    BY DEF Shape, TypeOK, Touch
<1>2. s \in Sessions /\ session[s] \in SessionRow
    BY <1>1 DEF Shape, RequestShape, TypeOK
<1>3. session' = session \/ session' = [session EXCEPT ![s] = entry]
    BY DEF Touch
<1>4. entry \in SessionRow
    BY <1>1, <1>2 DEF SessionRow, Request
<1>5. /\ entry.principal = session[s].principal /\ entry.roles = session[s].roles
      /\ entry.expires = session[s].expires /\ entry.openedBy = session[s].openedBy
    BY <1>2 DEF SessionRow
<1>6. entry # None /\ session[s] # None
    BY <1>2, <1>4, NoneAssumption
<1> HIDE DEF entry, s
<1> QED BY <1>2, <1>3, <1>4, <1>5, <1>6 DEF Shape, TypeOK

LEMMA TouchShape ==
    ASSUME Shape, NEW r \in Requests, Touch(r)
    PROVE  Shape'
<1>1. request[r].stage # "idle" /\ request[r] \in Request
    BY DEF Touch, Shape, TypeOK
<1>2. request[r].session \in Sessions /\ session[request[r].session] # None
    BY <1>1 DEF Shape, RequestShape
<1>3. Decided(r).stage # "idle" => Decided(r).session = request[r].session
    BY <1>1, DecidedIsRequest DEF Request
<1>4. request' = [request EXCEPT ![r] = Decided(r)]
    BY DEF Touch
<1>5. Decided(r) \in Request
    BY DecidedIsRequest
<1>6. /\ session' \in [Sessions -> SessionRow \cup {None}]
      /\ \A s \in Sessions : session[s] # None => session'[s] # None
    BY TouchedSessions
<1>7. UNCHANGED <<clock, transaction, principal, subjectOf, flow>>
    BY DEF Touch
<1>8. Decided(r).stage # "idle" =>
            Decided(r).session \in Sessions /\ session[Decided(r).session] # None
    BY <1>2, <1>3
<1> HIDE DEF Decided
<1> QED BY <1>4, <1>5, <1>6, <1>7, <1>8, RequestStep

\* Logging out revokes a session's row, and nothing else of it.
LEMMA LoggedOutSessions ==
    ASSUME Shape, NEW t \in Sessions, Logout(t)
    PROVE  /\ session' \in [Sessions -> SessionRow \cup {None}]
           /\ \A s \in Sessions :
                /\ session[s] # None <=> session'[s] # None
                /\ session[s] # None =>
                        /\ session'[s].principal = session[s].principal
                        /\ session'[s].roles = session[s].roles
                        /\ session'[s].expires = session[s].expires
                        /\ session'[s].openedBy = session[s].openedBy
<1> DEFINE entry == [session[t] EXCEPT !.revoked = TRUE]
<1>1. session[t] \in SessionRow
    BY DEF Shape, TypeOK, Logout
<1>2. session' = [session EXCEPT ![t] = entry]
    BY DEF Logout
<1>3. entry \in SessionRow
    BY <1>1 DEF SessionRow
<1>4. /\ entry.principal = session[t].principal /\ entry.roles = session[t].roles
      /\ entry.expires = session[t].expires /\ entry.openedBy = session[t].openedBy
    BY <1>1 DEF SessionRow
<1>5. entry # None /\ session[t] # None
    BY <1>1, <1>3, NoneAssumption
<1> HIDE DEF entry
<1> QED BY <1>2, <1>3, <1>4, <1>5 DEF Shape, TypeOK

\* Disabling a principal marks its row, and no other.
LEMMA DisabledRow ==
    ASSUME Shape, NEW q \in Principals, Disable(q)
    PROVE  /\ principal' \in [Principals -> PrincipalRow \cup {None}]
           /\ principal'[q] # None /\ principal'[q].disabled
           /\ \A p \in Principals : p # q => principal'[p] = principal[p]
<1> DEFINE entry == [principal[q] EXCEPT !.disabled = TRUE]
<1>1. principal[q] \in PrincipalRow
    BY DEF Shape, TypeOK, Disable
<1>2. entry \in PrincipalRow /\ entry.disabled
    BY <1>1 DEF PrincipalRow
<1>3. principal' = [principal EXCEPT ![q] = entry] /\ entry # None
    BY <1>2, NoneAssumption DEF Disable
<1> HIDE DEF entry
<1> QED BY <1>2, <1>3 DEF Shape, TypeOK

LEMMA OtherShapes ==
    ASSUME Shape,
           \/ \E r \in Requests : RequestEnds(r)
           \/ \E s \in Sessions : Logout(s)
           \/ \E p \in Principals : Disable(p)
           \/ Tick
    PROVE  Shape'
<1>1. ASSUME NEW r \in Requests, RequestEnds(r) PROVE Shape'
    <2>1. IdleRequest \in Request /\ IdleRequest.stage = "idle"
        BY Idles DEF IdleRequest
    <2>2. /\ session' \in [Sessions -> SessionRow \cup {None}]
          /\ \A s \in Sessions : session[s] # None => session'[s] # None
        BY <1>1 DEF RequestEnds, Shape, TypeOK
    <2>3. /\ request' = [request EXCEPT ![r] = IdleRequest]
          /\ UNCHANGED <<clock, transaction, principal, subjectOf, flow>>
        BY <1>1 DEF RequestEnds
    <2> QED BY <2>1, <2>2, <2>3, RequestStep
<1>2. ASSUME NEW s \in Sessions, Logout(s) PROVE Shape'
    <2>1. TypeOK'
        BY <1>2, LoggedOutSessions DEF Shape, TypeOK, Logout
    <2>2. FlowShape'
        BY <1>2 DEF Shape, FlowShape, Fits, Logout
    <2>3. RequestShape'
        BY <1>2, LoggedOutSessions DEF Shape, RequestShape, Logout
    <2> QED BY <2>1, <2>2, <2>3 DEF Shape
<1>3. ASSUME NEW p \in Principals, Disable(p) PROVE Shape'
    <2>1. TypeOK'
        BY <1>3, DisabledRow DEF Shape, TypeOK, Disable
    <2>2. FlowShape' /\ RequestShape'
        BY <1>3 DEF Shape, FlowShape, RequestShape, Fits, Disable
    <2> QED BY <2>1, <2>2 DEF Shape
<1>4. ASSUME Tick PROVE Shape'
    <2>1. clock' \in 0..MaxTime
        BY <1>4, AccessAssumption DEF Shape, TypeOK, Tick
    <2>2. TypeOK'
        BY <1>4, <2>1 DEF Shape, TypeOK, Tick
    <2>3. FlowShape' /\ RequestShape'
        BY <1>4 DEF Shape, FlowShape, RequestShape, Fits, Tick
    <2> QED BY <2>2, <2>3 DEF Shape
<1> QED BY <1>1, <1>2, <1>3, <1>4

\* The actions of a flow that change its record only.
FlowOnly(f) ==
    \/ \E subject \in Subjects, identity \in Identities, area \in Areas :
            PresentToken(f, subject, identity, area)
    \/ Lookup(f) \/ LookupCounterpart(f) \/ UpsertFails(f) \/ Served(f)

LEMMA FlowOnlyBecomes ==
    ASSUME Shape, NEW f \in Flows, FlowOnly(f)
    PROVE  /\ \E rec : Becomes(f, rec)
           /\ UNCHANGED <<clock, transaction, session, principal, subjectOf, request>>
<1>1. ASSUME NEW subject \in Subjects, NEW identity \in Identities, NEW area \in Areas,
             PresentToken(f, subject, identity, area)
      PROVE  \E rec : Becomes(f, rec)
    <2> DEFINE rec == [IdleFlow EXCEPT !.stage = "lookup", !.issuer = "agent", !.area = area,
                                       !.subject = subject, !.identity = identity]
    <2>1. identity \in IdentityRecord
        BY NoneAssumption
    <2>2. rec \in Flow /\ Fits(rec)
        BY <2>1, TokenBecomes
    <2>3. flow' = [flow EXCEPT ![f] = rec]
        BY <1>1 DEF PresentToken
    <2> HIDE DEF rec
    <2> QED BY <2>2, <2>3 DEF Becomes
<1>2. ASSUME Lookup(f) PROVE \E rec : Becomes(f, rec)
    BY <1>2, LookupBecomes
<1>3. ASSUME LookupCounterpart(f) PROVE \E rec : Becomes(f, rec)
    BY <1>3, CounterpartBecomes
<1>4. ASSUME UpsertFails(f) \/ Served(f) PROVE \E rec : Becomes(f, rec)
    BY <1>4, IdleBecomes DEF UpsertFails, Served
<1>5. UNCHANGED <<clock, transaction, session, principal, subjectOf, request>>
    BY DEF FlowOnly, PresentToken, Lookup, LookupCounterpart, UpsertFails, Served
<1> QED BY <1>1, <1>2, <1>3, <1>4, <1>5 DEF FlowOnly

\* The disjuncts of a step, grouped by what they write.
LEMMA Steps ==
    ASSUME Next
    PROVE  \/ \E s \in States : StartLogin(s)
           \/ \E f \in Flows, s \in States : Callback(f, s)
           \/ \E f \in Flows : FlowOnly(f)
           \/ \E f \in Flows : Upsert(f)
           \/ \E f \in Flows, s \in Sessions : Establish(f, s)
           \/ \E r \in Requests, s \in Sessions, role \in {"reviewer", "admin"} :
                    Resolve(r, s, role)
           \/ \E r \in Requests : FindPrincipal(r)
           \/ \E r \in Requests : Touch(r)
           \/ \E r \in Requests : RequestEnds(r)
           \/ \E s \in Sessions : Logout(s)
           \/ \E p \in Principals : Disable(p)
           \/ Tick
BY DEF Next, FlowOnly

LEMMA ShapeStep ==
    ASSUME Shape, [Next]_vars
    PROVE  Shape'
<1>1. CASE UNCHANGED vars
    <2>1. TypeOK'
        BY <1>1 DEF Shape, TypeOK, vars
    <2>2. FlowShape' /\ RequestShape'
        BY <1>1 DEF Shape, FlowShape, RequestShape, Fits, vars
    <2> QED BY <2>1, <2>2 DEF Shape
<1>2. CASE Next
    <2>1. ASSUME NEW f \in Flows, FlowOnly(f) PROVE Shape'
        BY <2>1, FlowOnlyBecomes, FlowStep
    <2> QED BY <1>2, <2>1, Steps, StartLoginShape, CallbackShape, UpsertShape, EstablishShape,
               ResolveShape, FindPrincipalShape, TouchShape, OtherShapes
<1> QED BY <1>1, <1>2

LEMMA ShapeInit ==
    ASSUME Init
    PROVE  Shape
<1>1. PICK known \in [Issuers -> SUBSET Subjects] :
        /\ subjectOf = [i \in Issuers |-> [s \in Subjects |->
                IF s \in known[i] THEN <<s, i>> ELSE None]]
        /\ principal = [p \in Principals |->
                IF p[2] \in Issuers /\ p[1] \in known[p[2]]
                THEN [kind |-> "human", disabled |-> FALSE] ELSE None]
    BY DEF Init
<1>2. \A i \in Issuers, s \in Subjects : <<s, i>> \in Principals
    BY DEF Principals
<1>3. [kind |-> "human", disabled |-> FALSE] \in PrincipalRow
    BY DEF PrincipalRow, Kinds
<1>4. /\ principal \in [Principals -> PrincipalRow \cup {None}]
      /\ subjectOf \in [Issuers -> [Subjects -> Principals \cup {None}]]
    BY <1>1, <1>2, <1>3
<1>5. /\ clock = 0 /\ transaction = [s \in States |-> None]
      /\ session = [s \in Sessions |-> None]
      /\ flow = [f \in Flows |-> IdleFlow] /\ request = [r \in Requests |-> IdleRequest]
    BY DEF Init
<1>6. 0 \in 0..MaxTime
    BY AccessAssumption
<1>7. TypeOK
    BY <1>4, <1>5, <1>6, Idles DEF TypeOK
<1>8. FlowShape /\ RequestShape
    BY <1>5 DEF FlowShape, RequestShape, Fits, IdleFlow, IdleRequest
<1> QED BY <1>7, <1>8 DEF Shape

\* The tables, flows and requests of sign-in keep their shape (TypeOK), and a
\* flow or request under way has what its next step reads.
THEOREM TypeCorrect == Spec => []TypeOK
<1>1. Spec => []Shape
    BY ShapeInit, ShapeStep, PTL DEF Spec
<1>2. Shape => TypeOK
    BY DEF Shape
<1> QED BY <1>1, <1>2, PTL

-----------------------------------------------------------------------------
(* A disabled principal stays disabled *)

Off(p) == principal[p] # None /\ principal[p].disabled

\* Whatever the principal an upsert projects on, it keeps its disablement.
LEMMA UpsertKeepsOff ==
    ASSUME Shape, NEW f \in Flows, Upsert(f), NEW p \in Principals, Off(p)
    PROVE  principal'[p] # None /\ principal'[p].disabled
<1> DEFINE q == Projected(f)
           off == principal[q] # None /\ principal[q].disabled
           entry == UpsertedRow(f, q)
<1>1. q \in Principals
    BY UpsertBecomes
<1>2. principal' = [principal EXCEPT ![q] = entry]
    BY DEF Upsert
<1>3. entry.disabled = off
    BY DEF UpsertedRow
<1>4. entry # None
    BY <1>1, UpsertedIsRow, NoneAssumption DEF Shape
<1> HIDE DEF entry, q
<1> QED BY <1>1, <1>2, <1>3, <1>4 DEF Shape, TypeOK, Off

LEMMA OffKept ==
    ASSUME Shape, [Next]_vars, NEW p \in Principals, Off(p)
    PROVE  principal'[p] # None /\ principal'[p].disabled
<1>1. CASE principal' = principal
    BY <1>1 DEF Off
<1>2. CASE \E f \in Flows : Upsert(f)
    BY <1>2, UpsertKeepsOff
<1>3. CASE \E q \in Principals : Disable(q)
    BY <1>3, DisabledRow DEF Off
<1> QED BY <1>1, <1>2, <1>3, Steps, FlowOnlyBecomes DEF vars, StartLogin, Callback,
           Establish, Resolve, FindPrincipal, Touch, RequestEnds, Logout, Tick

\* Signing in again never lifts the disablement of a principal (DisabledStays),
\* whatever flows of both applications overlap.
THEOREM Stays == Spec => DisabledStays
<1> DEFINE Kept == \A p \in Principals :
            (principal[p] # None /\ principal[p].disabled) =>
                (principal'[p] # None /\ principal'[p].disabled)
<1>1. Shape /\ [Next]_vars => [Kept]_vars
    BY OffKept DEF Off
<1>2. Spec => []Shape
    BY ShapeInit, ShapeStep, PTL DEF Spec
<1>3. Spec => [][Kept]_vars
    BY <1>1, <1>2, PTL DEF Spec
<1> QED BY <1>3 DEF DisabledStays

-----------------------------------------------------------------------------
(* A login opens one session *)

\* A login of an administrator under way, holding the state of its login.
Holds(f) == flow[f].stage # "idle" /\ flow[f].issuer = "admin"

\* A consumed login is held by at most one flow, or has opened at most one
\* session, never both; only consumed logins are.
LoginsOK ==
    /\ \A f \in Flows : Holds(f) =>
            transaction[flow[f].state] # None /\ transaction[flow[f].state].consumed
    /\ \A s \in Sessions : session[s] # None =>
            /\ session[s].openedBy \in States
            /\ transaction[session[s].openedBy] # None
            /\ transaction[session[s].openedBy].consumed
    /\ \A f, g \in Flows :
            (Holds(f) /\ Holds(g) /\ flow[f].state = flow[g].state) => f = g
    /\ \A f \in Flows, s \in Sessions :
            (Holds(f) /\ session[s] # None) => session[s].openedBy # flow[f].state
    /\ OneSessionPerLogin

\* A step that leaves the logins and the sessions' origin alone, and takes up
\* no login in a flow that held none.
LEMMA LoginsKept ==
    ASSUME Shape, LoginsOK,
           transaction' = transaction,
           \A f \in Flows : Holds(f)' => Holds(f) /\ flow'[f].state = flow[f].state,
           \A s \in Sessions :
                /\ session'[s] # None => session[s] # None
                /\ session[s] # None => session'[s].openedBy = session[s].openedBy
    PROVE  LoginsOK'
BY DEF LoginsOK, OneSessionPerLogin

LEMMA StartLoginLogins ==
    ASSUME Shape, LoginsOK, NEW s \in States, StartLogin(s)
    PROVE  LoginsOK'
<1>1. /\ flow' = flow /\ session' = session /\ transaction[s] = None
      /\ \A t \in States : t # s => transaction'[t] = transaction[t]
    BY DEF StartLogin, Shape, TypeOK
<1>2. \A f \in Flows : Holds(f) => flow[f].state \in States
    BY DEF Shape, FlowShape, Fits, Holds
<1>3. \A f \in Flows : Holds(f)' <=> Holds(f)
    BY <1>1 DEF Holds
<1> QED BY <1>1, <1>2, <1>3 DEF LoginsOK, OneSessionPerLogin

\* A callback finds its login unconsumed, so nobody holds it nor opened a
\* session with it.
LEMMA CallbackLogins ==
    ASSUME Shape, LoginsOK, NEW f \in Flows, NEW s \in States, Callback(f, s)
    PROVE  LoginsOK'
<1>1. /\ session' = session /\ transaction[s] # None /\ ~transaction[s].consumed
      /\ flow[f].stage = "idle" /\ transaction' = Consumed(s)
    BY DEF Callback
<1>2. /\ transaction'[s] # None /\ transaction'[s].consumed
      /\ \A t \in States : t # s => transaction'[t] = transaction[t]
    BY <1>1, ConsumedRows DEF Shape
<1>3. \A g \in Flows : Holds(g) => flow[g].state \in States /\ flow[g].state # s
    BY <1>1 DEF Shape, FlowShape, Fits, Holds, LoginsOK
<1>4. \A t \in Sessions : session[t] # None => session[t].openedBy # s
    BY <1>1 DEF LoginsOK
<1>5. \A g \in Flows : Holds(g)' =>
            \/ Holds(g) /\ flow'[g].state = flow[g].state
            \/ g = f /\ flow'[g].state = s
    <2>1. CASE flow' = flow
        BY <2>1 DEF Holds
    <2>2. CASE \E rec : Becomes(f, rec) /\ rec.stage = "lookup"
                       /\ rec.issuer = "admin" /\ rec.state = s
        BY <2>2, FlowsKept DEF Holds
    <2> QED BY <2>1, <2>2, CallbackFlows
<1>6. ~Holds(f)
    BY <1>1 DEF Holds
<1>7. \A g \in Flows : Holds(g)' =>
            transaction'[flow'[g].state] # None /\ transaction'[flow'[g].state].consumed
    BY <1>2, <1>3, <1>5 DEF LoginsOK
<1>8. \A t \in Sessions : session'[t] # None =>
            /\ session'[t].openedBy \in States
            /\ transaction'[session'[t].openedBy] # None
            /\ transaction'[session'[t].openedBy].consumed
    BY <1>1, <1>2, <1>4 DEF LoginsOK
<1>9. \A g, h \in Flows :
            (Holds(g)' /\ Holds(h)' /\ flow'[g].state = flow'[h].state) => g = h
    BY <1>3, <1>5, <1>6 DEF LoginsOK
<1>10. \A g \in Flows, t \in Sessions :
            (Holds(g)' /\ session'[t] # None) => session'[t].openedBy # flow'[g].state
    BY <1>1, <1>4, <1>5 DEF LoginsOK
<1>11. OneSessionPerLogin'
    BY <1>1 DEF LoginsOK, OneSessionPerLogin
<1> QED BY <1>7, <1>8, <1>9, <1>10, <1>11 DEF LoginsOK

LEMMA EstablishLogins ==
    ASSUME Shape, LoginsOK, NEW f \in Flows, NEW s \in Sessions, Establish(f, s)
    PROVE  LoginsOK'
<1>1. /\ flow[f].issuer = "admin" /\ flow[f].state \in States
      /\ session'[s] # None /\ session'[s].openedBy = flow[f].state
      /\ \A t \in Sessions : t # s => session'[t] = session[t]
      /\ session[s] = None /\ transaction' = transaction
    BY EstablishedRow DEF Establish
<1>2. Holds(f)
    BY <1>1 DEF Holds, Establish
<1>3. \A g \in Flows : Holds(g)' => g # f /\ Holds(g) /\ flow'[g].state = flow[g].state
    <2>1. Becomes(f, IdleFlow)
        BY IdleBecomes DEF Establish
    <2>2. flow'[f].stage = "idle" /\ \A g \in Flows : g # f => flow'[g] = flow[g]
        BY <2>1, FlowsKept DEF IdleFlow
    <2> QED BY <2>2 DEF Holds
<1>4. \A g \in Flows : Holds(g)' =>
            transaction'[flow'[g].state] # None /\ transaction'[flow'[g].state].consumed
    BY <1>1, <1>3 DEF LoginsOK
<1>5. \A t \in Sessions : session'[t] # None =>
            /\ session'[t].openedBy \in States
            /\ transaction'[session'[t].openedBy] # None
            /\ transaction'[session'[t].openedBy].consumed
    BY <1>1, <1>2 DEF LoginsOK
<1>6. \A g, h \in Flows :
            (Holds(g)' /\ Holds(h)' /\ flow'[g].state = flow'[h].state) => g = h
    BY <1>3 DEF LoginsOK
<1>7. \A g \in Flows, t \in Sessions :
            (Holds(g)' /\ session'[t] # None) => session'[t].openedBy # flow'[g].state
    BY <1>1, <1>2, <1>3 DEF LoginsOK
<1>8. OneSessionPerLogin'
    BY <1>1, <1>2 DEF LoginsOK, OneSessionPerLogin
<1> QED BY <1>4, <1>5, <1>6, <1>7, <1>8 DEF LoginsOK

LEMMA LoginsStep ==
    ASSUME Shape, LoginsOK, [Next]_vars
    PROVE  LoginsOK'
<1>1. ASSUME NEW f \in Flows, FlowOnly(f) PROVE LoginsOK'
    <2>1. \E rec : /\ Becomes(f, rec)
                   /\ \/ rec.stage = "idle" \/ rec.issuer = "agent"
                      \/ /\ flow[f].stage # "idle" /\ rec.issuer = flow[f].issuer
                         /\ rec.state = flow[f].state
        <3>1. ASSUME NEW subject \in Subjects, NEW identity \in Identities, NEW area \in Areas,
                     PresentToken(f, subject, identity, area)
              PROVE  \E rec : Becomes(f, rec) /\ rec.issuer = "agent"
            <4> DEFINE rec == [IdleFlow EXCEPT !.stage = "lookup", !.issuer = "agent",
                                    !.area = area, !.subject = subject, !.identity = identity]
            <4>1. identity \in IdentityRecord
                BY NoneAssumption
            <4>2. rec \in Flow /\ Fits(rec) /\ rec.issuer = "agent"
                BY <4>1, TokenBecomes
            <4>3. flow' = [flow EXCEPT ![f] = rec]
                BY <3>1 DEF PresentToken
            <4> HIDE DEF rec
            <4> QED BY <4>2, <4>3 DEF Becomes
        <3>2. IdleFlow.stage = "idle"
            BY DEF IdleFlow
        <3>3. CASE Lookup(f)
            BY <3>3, LookupBecomes DEF Lookup
        <3>4. CASE LookupCounterpart(f)
            BY <3>4, CounterpartBecomes DEF LookupCounterpart
        <3>5. CASE UpsertFails(f) \/ Served(f)
            BY <3>2, <3>5, IdleBecomes DEF UpsertFails, Served
        <3> QED BY <1>1, <3>1, <3>3, <3>4, <3>5 DEF FlowOnly
    <2>2. transaction' = transaction /\ session' = session
        BY <1>1, FlowOnlyBecomes
    <2>3. PICK rec : /\ Becomes(f, rec)
                     /\ \/ rec.stage = "idle" \/ rec.issuer = "agent"
                        \/ /\ flow[f].stage # "idle" /\ rec.issuer = flow[f].issuer
                           /\ rec.state = flow[f].state
        BY <2>1
    <2>4. \A g \in Flows : Holds(g)' => Holds(g) /\ flow'[g].state = flow[g].state
        BY <2>3, FlowsKept DEF Holds
    <2> QED BY <2>2, <2>4, LoginsKept
<1>2. ASSUME NEW f \in Flows, Upsert(f) PROVE LoginsOK'
    <2>1. flow[f].stage # "idle" /\ transaction' = transaction /\ session' = session
        BY <1>2 DEF Upsert
    <2>2. PICK rec : /\ Becomes(f, rec)
                     /\ \/ rec.stage = "idle"
                        \/ rec.issuer = flow[f].issuer /\ rec.state = flow[f].state
        BY <1>2, UpsertBecomes
    <2>3. \A g \in Flows : Holds(g)' => Holds(g) /\ flow'[g].state = flow[g].state
        BY <2>1, <2>2, FlowsKept DEF Holds
    <2> QED BY <2>1, <2>3, LoginsKept
<1>3. CASE UNCHANGED <<transaction, flow, session>>
    BY <1>3, LoginsKept DEF Holds
<1>4. ASSUME NEW r \in Requests, Touch(r) PROVE LoginsOK'
    BY <1>4, TouchedSessions, LoginsKept DEF Holds, Touch
<1>5. ASSUME NEW s \in Sessions, Logout(s) PROVE LoginsOK'
    BY <1>5, LoggedOutSessions, LoginsKept DEF Holds, Logout
<1>6. CASE Next
    BY <1>1, <1>2, <1>3, <1>4, <1>5, <1>6, Steps, StartLoginLogins, CallbackLogins, EstablishLogins
       DEF Resolve, FindPrincipal, RequestEnds, Disable, Tick
<1> QED BY <1>3, <1>6 DEF vars

\* A login opens at most one session, however many callbacks of it overlap
\* (OneSessionPerLogin).
THEOREM OneSession == Spec => []OneSessionPerLogin
<1>1. Init => Shape /\ LoginsOK
    <2> SUFFICES ASSUME Init PROVE LoginsOK
        BY ShapeInit
    <2>1. \A f \in Flows : ~Holds(f)
        BY DEF Init, Holds, IdleFlow
    <2>2. \A s \in Sessions : session[s] = None
        BY DEF Init
    <2> QED BY <2>1, <2>2 DEF LoginsOK, OneSessionPerLogin
<1>2. Shape /\ LoginsOK /\ [Next]_vars => (Shape /\ LoginsOK)'
    BY ShapeStep, LoginsStep
<1>3. LoginsOK => OneSessionPerLogin
    BY DEF LoginsOK
<1> QED BY <1>1, <1>2, <1>3, PTL DEF Spec

-----------------------------------------------------------------------------
(* A person is one principal *)

Mine(rec) == subjectOf[rec.issuer][rec.subject]
Theirs(rec) == subjectOf[Other(rec.issuer)][rec.subject]

\* What the lookups found is in one of the two rows; if they found nothing and
\* the subject has no row here, then a row made there meanwhile is the derived one.
Linked(rec) ==
    rec.stage = "upsert" =>
        /\ rec.found # None => rec.found \in {Mine(rec), Theirs(rec)}
        /\ (rec.found = None /\ Mine(rec) = None /\ Theirs(rec) # None)
                => Theirs(rec) = Derived(rec.subject)

SubjectsOK == \A f \in Flows : Linked(flow[f])

\* A flow that becomes something linked, while no subject's row changes.
LEMMA LinkedStep ==
    ASSUME Shape, SubjectsOK, subjectOf' = subjectOf, NEW f \in Flows, NEW rec,
           Becomes(f, rec), Linked(rec)
    PROVE  SubjectsOK'
<1>1. \A g \in Flows : flow'[g] = IF g = f THEN rec ELSE flow[g]
    BY FlowsKept
<1>2. \A g \in Flows : Linked(flow[g])'
    BY <1>1 DEF SubjectsOK, Linked, Mine, Theirs
<1> QED BY <1>2 DEF SubjectsOK

LEMMA FlowOnlySubjects ==
    ASSUME Shape, SubjectsOK, NEW f \in Flows, FlowOnly(f)
    PROVE  SubjectsOK'
<1>1. subjectOf' = subjectOf
    BY FlowOnlyBecomes
<1>2. ASSUME NEW subject \in Subjects, NEW identity \in Identities, NEW area \in Areas,
             PresentToken(f, subject, identity, area)
      PROVE  \E rec : Becomes(f, rec) /\ Linked(rec)
    <2> DEFINE rec == [IdleFlow EXCEPT !.stage = "lookup", !.issuer = "agent",
                            !.area = area, !.subject = subject, !.identity = identity]
    <2>1. identity \in IdentityRecord
        BY NoneAssumption
    <2>2. rec \in Flow /\ Fits(rec) /\ rec.stage = "lookup"
        BY <2>1, TokenBecomes
    <2>3. flow' = [flow EXCEPT ![f] = rec]
        BY <1>2 DEF PresentToken
    <2> HIDE DEF rec
    <2> QED BY <2>2, <2>3 DEF Becomes, Linked
<1>3. ASSUME Lookup(f) PROVE \E rec : Becomes(f, rec) /\ Linked(rec)
    <2>1. PICK rec :
            /\ Becomes(f, rec)
            /\ rec.issuer = flow[f].issuer /\ rec.subject = flow[f].subject
            /\ rec.found = subjectOf[flow[f].issuer][flow[f].subject]
            /\ rec.stage = IF rec.found = None THEN "counterpart" ELSE "upsert"
        BY <1>3, LookupBecomes
    <2>2. Linked(rec)
        BY <2>1 DEF Linked, Mine
    <2> QED BY <2>1, <2>2
<1>4. ASSUME LookupCounterpart(f) PROVE \E rec : Becomes(f, rec) /\ Linked(rec)
    <2>1. PICK rec :
            /\ Becomes(f, rec)
            /\ rec.issuer = flow[f].issuer /\ rec.subject = flow[f].subject
            /\ rec.found = subjectOf[Other(flow[f].issuer)][flow[f].subject]
        BY <1>4, CounterpartBecomes
    <2>2. Linked(rec)
        BY <2>1 DEF Linked, Theirs
    <2> QED BY <2>1, <2>2
<1>5. ASSUME UpsertFails(f) \/ Served(f) PROVE \E rec : Becomes(f, rec) /\ Linked(rec)
    BY <1>5, IdleBecomes DEF UpsertFails, Served, Linked, IdleFlow
<1>6. PICK rec : Becomes(f, rec) /\ Linked(rec)
    BY <1>2, <1>3, <1>4, <1>5 DEF FlowOnly
<1> QED BY <1>1, <1>6, LinkedStep

LEMMA UpsertSubjects ==
    ASSUME Shape, SubjectsOK, NEW f \in Flows, Upsert(f)
    PROVE  SubjectsOK'
<1> DEFINE i == flow[f].issuer
           o == Other(i)
           s == flow[f].subject
           mine == subjectOf[i][s]
           theirs == subjectOf[o][s]
           p == Projected(f)
<1>1. i \in Issuers /\ s \in Subjects /\ p \in Principals
    BY UpsertBecomes
<1>2. o \in Issuers /\ o # i /\ Issuers = {i, o} /\ Other(o) = i
    BY <1>1, OtherIssuer DEF Issuers, Other
<1>3. \A j \in Issuers, t \in Subjects :
            subjectOf'[j][t] = IF j = i /\ t = s THEN p ELSE subjectOf[j][t]
    BY <1>1 DEF Upsert, Shape, TypeOK
<1>4. flow[f].stage = "upsert" /\ Linked(flow[f])
    BY DEF Upsert, SubjectsOK
<1>5. p = IF mine # None THEN mine ELSE IF flow[f].found # None THEN flow[f].found ELSE Derived(s)
    BY DEF Projected
<1>6. /\ mine # None => p = mine
      /\ (mine = None /\ theirs # None) => p = theirs
      /\ (mine = None /\ theirs = None) => p = Derived(s)
    BY <1>4, <1>5 DEF Linked, Mine, Theirs
<1>7. p # None
    BY <1>1, NoneAssumption
<1> HIDE DEF p, mine, theirs
<1>9. ASSUME NEW g \in Flows PROVE Linked(flow[g])'
    <2>1. CASE g = f
        <3>1. flow'[f].stage # "upsert"
            BY UpsertBecomes, FlowsKept
        <3> QED BY <2>1, <3>1 DEF Linked
    <2>2. CASE g # f
        <3>1. flow'[g] = flow[g]
            BY <2>2, UpsertBecomes, FlowsKept
        <3> SUFFICES ASSUME flow[g].stage = "upsert"
                     PROVE  Linked(flow[g])'
            BY <3>1 DEF Linked
        <3>2. flow[g].issuer \in Issuers /\ flow[g].subject \in Subjects /\ Linked(flow[g])
            BY DEF Shape, TypeOK, FlowShape, Fits, Flow, SubjectsOK
        <3>3. Other(flow[g].issuer) \in Issuers /\ Other(flow[g].issuer) # flow[g].issuer
            BY <3>2, OtherIssuer
        <3>4. CASE flow[g].subject # s
            BY <1>3, <3>1, <3>2, <3>3, <3>4 DEF Linked, Mine, Theirs
        <3>5. CASE flow[g].subject = s /\ flow[g].issuer = i
            <4>1. /\ Mine(flow[g])' = p /\ Mine(flow[g]) = mine
                  /\ Theirs(flow[g])' = theirs /\ Theirs(flow[g]) = theirs
                BY <1>2, <1>3, <3>1, <3>2, <3>5 DEF Mine, Theirs, mine, theirs
            <4> QED BY <1>6, <1>7, <3>1, <3>2, <4>1 DEF Linked
        <3>6. CASE flow[g].subject = s /\ flow[g].issuer = o
            <4>1. /\ Theirs(flow[g])' = p /\ Theirs(flow[g]) = mine
                  /\ Mine(flow[g])' = theirs /\ Mine(flow[g]) = theirs
                BY <1>2, <1>3, <3>1, <3>2, <3>6 DEF Mine, Theirs, mine, theirs
            <4> QED BY <1>6, <1>7, <3>1, <3>2, <3>6, <4>1 DEF Linked
        <3> QED BY <1>2, <3>2, <3>4, <3>5, <3>6
    <2> QED BY <2>1, <2>2
<1> QED BY <1>9 DEF SubjectsOK

LEMMA SubjectsStep ==
    ASSUME Shape, SubjectsOK, [Next]_vars
    PROVE  SubjectsOK'
<1>1. ASSUME NEW f \in Flows, NEW s \in States, Callback(f, s) PROVE SubjectsOK'
    <2>1. CASE flow' = flow
        BY <1>1, <2>1 DEF Callback, SubjectsOK, Linked, Mine, Theirs
    <2>2. ASSUME NEW rec, Becomes(f, rec), rec.stage = "lookup" PROVE SubjectsOK'
        <3>1. subjectOf' = subjectOf /\ Linked(rec)
            BY <1>1, <2>2 DEF Callback, Linked
        <3> QED BY <2>2, <3>1, LinkedStep
    <2> QED BY <1>1, <2>1, <2>2, CallbackFlows
<1>2. ASSUME NEW f \in Flows, NEW s \in Sessions, Establish(f, s) PROVE SubjectsOK'
    <2>1. Becomes(f, IdleFlow) /\ subjectOf' = subjectOf
        BY <1>2, IdleBecomes DEF Establish
    <2>2. Linked(IdleFlow)
        BY DEF Linked, IdleFlow
    <2> QED BY <2>1, <2>2, LinkedStep
<1>3. CASE UNCHANGED <<subjectOf, flow>>
    BY <1>3 DEF SubjectsOK, Linked, Mine, Theirs
<1>4. CASE Next
    BY <1>1, <1>2, <1>3, <1>4, Steps, FlowOnlySubjects, UpsertSubjects
       DEF StartLogin, Resolve, FindPrincipal, Touch, RequestEnds, Logout, Disable, Tick
<1> QED BY <1>3, <1>4 DEF vars

\* An upsert gives a subject the principal it has at the other issuer, if it has
\* none here: rows that agree, or are not both there, do not come to differ.
LEMMA UpsertParts ==
    ASSUME Shape, SubjectsOK, NEW f \in Flows, Upsert(f), NEW t \in Subjects, Apart(t)'
    PROVE  Apart(t)
<1> DEFINE i == flow[f].issuer
           o == Other(i)
           s == flow[f].subject
           mine == subjectOf[i][s]
           theirs == subjectOf[o][s]
           p == Projected(f)
<1>1. i \in Issuers /\ s \in Subjects /\ p \in Principals
    BY UpsertBecomes
<1>2. o \in Issuers /\ o # i /\ Issuers = {i, o}
    BY <1>1, OtherIssuer DEF Issuers
<1>3. \A j \in Issuers, u \in Subjects :
            subjectOf'[j][u] = IF j = i /\ u = s THEN p ELSE subjectOf[j][u]
    BY <1>1 DEF Upsert, Shape, TypeOK
<1>4. flow[f].stage = "upsert" /\ Linked(flow[f])
    BY DEF Upsert, SubjectsOK
<1>5. p = IF mine # None THEN mine ELSE IF flow[f].found # None THEN flow[f].found ELSE Derived(s)
    BY DEF Projected
<1>6. mine # None \/ theirs # None => p \in {mine, theirs} /\ (mine # None => p = mine)
    BY <1>4, <1>5 DEF Linked, Mine, Theirs
<1> HIDE DEF p, mine, theirs
<1>7. CASE t # s
    BY <1>3, <1>7 DEF Apart, Issuers
<1>8. CASE t = s
    <2>1. subjectOf'[i][s] = p /\ subjectOf'[o][s] = theirs
        BY <1>1, <1>2, <1>3 DEF theirs
    <2>2. theirs # None /\ p # theirs
        BY <1>2, <1>8, <2>1 DEF Apart, Issuers
    <2>3. mine # None /\ mine # theirs
        BY <1>1, <1>6, <2>2, NoneAssumption
    <2> QED BY <1>2, <1>8, <2>2, <2>3 DEF Apart, Issuers, mine, theirs
<1> QED BY <1>7, <1>8

LEMMA PartStep ==
    ASSUME Shape, SubjectsOK, [Next]_vars, NEW t \in Subjects, Apart(t)'
    PROVE  Apart(t)
<1>1. CASE subjectOf' = subjectOf
    BY <1>1 DEF Apart
<1>2. ASSUME NEW f \in Flows, FlowOnly(f) PROVE subjectOf' = subjectOf
    BY <1>2, FlowOnlyBecomes
<1>3. CASE Next
    BY <1>1, <1>2, <1>3, Steps, UpsertParts
       DEF Callback, Establish, StartLogin, Resolve, FindPrincipal, Touch, RequestEnds, Logout,
           Disable, Tick
<1> QED BY <1>1, <1>3 DEF vars

\* No sign-in makes two principals of one person at the two applications, however
\* first sign-ins overlap and whatever rows the registry had (SubjectsNeverPart).
THEOREM NeverPart == Spec => SubjectsNeverPart
<1>1. Init => Shape /\ SubjectsOK
    BY ShapeInit DEF Init, IdleFlow, SubjectsOK, Linked
<1>2. Shape /\ SubjectsOK /\ [Next]_vars => (Shape /\ SubjectsOK)'
    BY ShapeStep, SubjectsStep
<1> DEFINE Kept == \A s \in Subjects : Apart(s)' => Apart(s)
<1>3. Shape /\ SubjectsOK /\ [Next]_vars => [Kept]_vars
    BY PartStep
<1>4. Spec => [](Shape /\ SubjectsOK)
    BY <1>1, <1>2, PTL DEF Spec
<1>5. Spec => [][Kept]_vars
    BY <1>3, <1>4, PTL DEF Spec
<1> QED BY <1>5 DEF SubjectsNeverPart

-----------------------------------------------------------------------------
(* A request that is let through was entitled *)

\* A request's session had not expired, the principals it saw disabled still
\* are, and past the look-up its own is not one of them.
Entitled(rec) ==
    rec.stage # "idle" =>
        LET s == session[rec.session]
        IN  /\ rec.now < s.expires
            /\ \A p \in rec.disabled : Off(p)
            /\ rec.stage \in {"touch", "admitted"} => s.principal \notin rec.disabled
            /\ rec.stage = "admitted" => s.roles \cap {"admin", rec.role} # {}

RequestsOK == \A r \in Requests : Entitled(request[r])

\* The row of a session never names another principal, role or expiry.
LEMMA SessionsKeep ==
    ASSUME Shape, [Next]_vars, NEW s \in Sessions, session[s] # None
    PROVE  /\ session'[s].principal = session[s].principal
           /\ session'[s].roles = session[s].roles
           /\ session'[s].expires = session[s].expires
<1>1. CASE session' = session
    BY <1>1
<1>2. CASE \E f \in Flows, t \in Sessions : Establish(f, t)
    BY <1>2, EstablishedRow DEF Establish
<1>3. CASE \E r \in Requests : Touch(r)
    BY <1>3, TouchedSessions
<1>4. CASE \E t \in Sessions : Logout(t)
    BY <1>4, LoggedOutSessions
<1> QED BY <1>1, <1>2, <1>3, <1>4, Steps, FlowOnlyBecomes DEF vars, StartLogin, Callback,
           Upsert, Resolve, FindPrincipal, RequestEnds, Disable, Tick

\* A request the step leaves alone stays entitled.
LEMMA EntitledKept ==
    ASSUME Shape, [Next]_vars, NEW r \in Requests, Entitled(request[r]), request'[r] = request[r]
    PROVE  Entitled(request[r])'
<1> SUFFICES ASSUME request[r].stage # "idle"
             PROVE  Entitled(request[r])'
    BY DEF Entitled
<1>1. /\ request[r].session \in Sessions /\ session[request[r].session] # None
      /\ request[r].disabled \subseteq Principals
    BY DEF Shape, TypeOK, RequestShape, Request
<1>2. \A p \in request[r].disabled : Off(p)'
    BY <1>1, OffKept DEF Entitled, Off
<1> QED BY <1>1, <1>2, SessionsKeep DEF Entitled

LEMMA ResolveRequests ==
    ASSUME Shape, NEW r \in Requests, NEW s \in Sessions, NEW role \in {"reviewer", "admin"},
           Resolve(r, s, role)
    PROVE  Entitled(request[r])'
<1> DEFINE off == {p \in Principals : principal[p] # None /\ principal[p].disabled}
           old == clock >= session[s].seen + TouchAge
           rec == [stage |-> "find principal", session |-> s, role |-> role, now |-> clock,
                   stale |-> old, disabled |-> off]
<1>1. request'[r] = rec
    BY DEF Resolve, Shape, TypeOK
<1>2. session' = session /\ principal' = principal /\ Usable(s)
    BY DEF Resolve
<1>3. session[s].expires > clock
    BY <1>2 DEF Usable
<1>4. clock < session[s].expires
    <2>1. session[s] \in SessionRow /\ clock \in Nat
        BY <1>2 DEF Usable, Shape, TypeOK
    <2> QED BY <1>3, <2>1 DEF SessionRow, Times
<1>5. \A p \in off : Off(p)
    BY DEF Off
<1>6. /\ rec.stage = "find principal" /\ rec.session = s /\ rec.now = clock
      /\ rec.disabled = off
    OBVIOUS
<1>7. \A p : Off(p)' <=> Off(p)
    BY <1>2 DEF Off
<1> HIDE DEF rec, off
<1> QED BY <1>1, <1>2, <1>4, <1>5, <1>6, <1>7 DEF Entitled

LEMMA FindPrincipalRequests ==
    ASSUME Shape, RequestsOK, NEW r \in Requests, FindPrincipal(r)
    PROVE  Entitled(request[r])'
<1>1. /\ request[r].stage = "find principal" /\ Entitled(request[r])
      /\ session' = session /\ principal' = principal
    BY DEF FindPrincipal, RequestsOK
<1>2. PICK rec \in Request :
            /\ request' = [request EXCEPT ![r] = rec]
            /\ rec.stage # "idle" =>
                    /\ rec.session = request[r].session /\ rec.now = request[r].now
                    /\ rec.disabled = request[r].disabled /\ rec.role = request[r].role
                    /\ InGoodStanding(session[request[r].session].principal)
            /\ rec.stage = "admitted" =>
                    session[request[r].session].roles \cap {"admin", request[r].role} # {}
    BY FindPrincipalBecomes
<1>3. request'[r] = rec
    BY <1>2 DEF Shape, TypeOK
<1>4. \A p \in request[r].disabled : Off(p)
    BY <1>1 DEF Entitled
<1>5. rec.stage # "idle" => session[request[r].session].principal \notin request[r].disabled
    BY <1>2, <1>4 DEF InGoodStanding, Off
<1> DEFINE entry == session[request[r].session]
<1>6. rec.stage # "idle" =>
            /\ rec.now < entry.expires /\ entry.principal \notin rec.disabled
            /\ \A p \in rec.disabled : Off(p)
    BY <1>1, <1>2, <1>4, <1>5 DEF Entitled
<1>7. rec.stage = "admitted" => entry.roles \cap {"admin", rec.role} # {}
    BY <1>2
<1>8. rec.stage # "idle" => session'[rec.session] = entry
    BY <1>1, <1>2
<1>9. \A p : Off(p)' <=> Off(p)
    BY <1>1 DEF Off
<1> HIDE DEF entry
<1> QED BY <1>3, <1>6, <1>7, <1>8, <1>9 DEF Entitled

LEMMA TouchRequests ==
    ASSUME Shape, RequestsOK, NEW r \in Requests, Touch(r), [Next]_vars
    PROVE  Entitled(request[r])'
<1>1. request[r].stage = "touch" /\ Entitled(request[r]) /\ principal' = principal
    BY DEF Touch, RequestsOK
<1>2. request'[r] = Decided(r) /\ request[r] \in Request
    BY DEF Touch, Shape, TypeOK
<1>3. request[r].session \in Sessions /\ session[request[r].session] # None
    BY <1>1 DEF Shape, RequestShape
<1>4. CASE request'[r] = IdleRequest
    BY <1>4 DEF Entitled, IdleRequest
<1>5. CASE request'[r] # IdleRequest
    <2> DEFINE rec == [request[r] EXCEPT !.stage = "admitted"]
    <2>1. /\ request'[r] = rec
          /\ session[request[r].session].roles \cap {"admin", request[r].role} # {}
        BY <1>2, <1>5 DEF Decided
    <2>2. /\ rec.session = request[r].session /\ rec.now = request[r].now
          /\ rec.disabled = request[r].disabled /\ rec.role = request[r].role
        BY <1>2 DEF Request
    <2> HIDE DEF rec
    <2> QED BY <1>1, <1>3, <2>1, <2>2, SessionsKeep DEF Entitled, Off
<1> QED BY <1>4, <1>5

LEMMA RequestsStep ==
    ASSUME Shape, RequestsOK, [Next]_vars
    PROVE  RequestsOK'
<1>1. ASSUME NEW r \in Requests PROVE Entitled(request[r])'
    <2>1. CASE request'[r] = request[r]
        BY <2>1, EntitledKept DEF RequestsOK
    <2>2. CASE request'[r] # request[r]
        <3>1. \A q \in Requests : Touch(q) \/ FindPrincipal(q) \/ RequestEnds(q) => q = r
            BY <2>2 DEF Touch, FindPrincipal, RequestEnds, Shape, TypeOK
        <3>2. \A q \in Requests, s \in Sessions, role \in {"reviewer", "admin"} :
                    Resolve(q, s, role) => q = r
            BY <2>2 DEF Resolve, Shape, TypeOK
        <3>3. RequestEnds(r) => Entitled(request[r])'
            BY DEF RequestEnds, Shape, TypeOK, Entitled, IdleRequest
        <3>4. UNCHANGED request \/ Touch(r) \/ FindPrincipal(r) \/ RequestEnds(r)
                \/ \E s \in Sessions, role \in {"reviewer", "admin"} : Resolve(r, s, role)
            BY <3>1, <3>2, Steps, FlowOnlyBecomes DEF vars, StartLogin, Callback, Upsert,
               Establish, Logout, Disable, Tick
        <3> QED BY <2>2, <3>3, <3>4, TouchRequests, FindPrincipalRequests, ResolveRequests
    <2> QED BY <2>1, <2>2
<1> QED BY <1>1 DEF RequestsOK

\* A request is let through only with a session that had not expired and a
\* principal that was not disabled when it began, and a role that gives the
\* right (AdmittedIsEntitled), whatever logouts, sign-ins and disablements
\* happen between its two reads.
THEOREM Admitted == Spec => []AdmittedIsEntitled
<1>1. Init => Shape /\ RequestsOK
    <2> SUFFICES ASSUME Init PROVE RequestsOK
        BY ShapeInit
    <2>1. \A r \in Requests : request[r].stage = "idle"
        BY DEF Init, IdleRequest
    <2> QED BY <2>1 DEF RequestsOK, Entitled
<1>2. Shape /\ RequestsOK /\ [Next]_vars => (Shape /\ RequestsOK)'
    BY ShapeStep, RequestsStep
<1>3. RequestsOK => AdmittedIsEntitled
    BY DEF RequestsOK, AdmittedIsEntitled, Entitled
<1> QED BY <1>1, <1>2, <1>3, PTL DEF Spec

-----------------------------------------------------------------------------
(* Agent sessions *)


\* A creation past its count and a request past the failure limit have an origin,
\* and the request a code; nothing was counted or cleaned up in the future.
AgentShape ==
    /\ AgentTypeOK
    /\ \A h \in Creators : creator[h].stage = "insert" => creator[h].origin \in Origins
    /\ \A h \in Checks : check[h].stage = "find" =>
          check[h].origin \in Origins /\ check[h].code \in Codes
    /\ \A o \in Origins : bucket[o] # NoEntry => bucket[o].start <= now
    /\ cleanedAt <= now

\* A bucket is what it was, or counts on, or begins.
LEMMA AfterFailureShape ==
    ASSUME AgentShape, NEW origin \in Origins, NEW B, B = AfterFailure(origin)
    PROVE  /\ B \in [Origins -> {NoEntry} \cup Bucket]
           /\ \A o \in Origins \ {origin} : B[o] = bucket[o]
           /\ \/ B = bucket
              \/ /\ bucket[origin] # NoEntry /\ now - bucket[origin].start < Window
                 /\ B[origin] = [start |-> bucket[origin].start,
                                 failures |-> bucket[origin].failures + 1]
              \/ /\ bucket[origin] # NoEntry \/ ~(Cardinality(Counted) >= MaxBuckets)
                 /\ B[origin] = [start |-> now, failures |-> 1]
<1>1. bucket \in [Origins -> {NoEntry} \cup Bucket]
  BY DEF AgentShape, AgentTypeOK
<1>2. CASE bucket[origin] = NoEntry /\ Cardinality(Counted) >= MaxBuckets
  BY <1>1, <1>2 DEF AfterFailure
<1>3. CASE bucket[origin] # NoEntry /\ now - bucket[origin].start < Window
  <2>1. bucket[origin] \in Bucket
    BY <1>1, <1>3
  <2>2. /\ [bucket[origin] EXCEPT !.failures = @ + 1] =
               [start |-> bucket[origin].start, failures |-> bucket[origin].failures + 1]
        /\ [bucket[origin] EXCEPT !.failures = @ + 1] \in Bucket
    BY <2>1 DEF Bucket
  <2>3. B = [bucket EXCEPT ![origin] = [bucket[origin] EXCEPT !.failures = @ + 1]]
    BY <1>3 DEF AfterFailure
  <2> QED
    BY <1>1, <1>3, <2>2, <2>3
<1>4. CASE /\ ~(bucket[origin] = NoEntry /\ Cardinality(Counted) >= MaxBuckets)
           /\ ~(bucket[origin] # NoEntry /\ now - bucket[origin].start < Window)
  <2>1. B = [bucket EXCEPT ![origin] = [start |-> now, failures |-> 1]]
    BY <1>4 DEF AfterFailure
  <2>2. [start |-> now, failures |-> 1] \in Bucket
    BY DEF Bucket, AgentShape, AgentTypeOK
  <2>3. bucket[origin] # NoEntry \/ ~(Cardinality(Counted) >= MaxBuckets)
    BY <1>4
  <2> QED
    BY <1>1, <2>1, <2>2, <2>3
<1> QED
  BY <1>2, <1>3, <1>4

LEMMA CleanupShape ==
    ASSUME AgentShape
    PROVE  /\ BucketsAfterCleanup \in [Origins -> {NoEntry} \cup Bucket]
           /\ \A o \in Origins :
                BucketsAfterCleanup[o] # NoEntry => BucketsAfterCleanup[o] = bucket[o]
           /\ \A o \in Origins :
                CleanupDue /\ BucketsAfterCleanup[o] # NoEntry => now - bucket[o].start < Window
<1>1. bucket \in [Origins -> {NoEntry} \cup Bucket]
  BY DEF AgentShape, AgentTypeOK
<1>2. CASE CleanupDue
  <2>1. BucketsAfterCleanup = Cleaned
    BY <1>2 DEF BucketsAfterCleanup
  <2>2. \A o \in Origins : Cleaned[o] =
            IF bucket[o] = NoEntry \/ now - bucket[o].start >= Window THEN NoEntry ELSE bucket[o]
    BY DEF Cleaned
  <2>3. Cleaned \in [Origins -> {NoEntry} \cup Bucket]
    BY <1>1 DEF Cleaned
  <2>4. ASSUME NEW o \in Origins, bucket[o] # NoEntry PROVE now - bucket[o].start \in Int
    <3>1. bucket[o] \in Bucket /\ now \in 0..Horizon
      BY <1>1, <2>4 DEF AgentShape, AgentTypeOK
    <3> QED
      BY <3>1 DEF Bucket
  <2>5. Window \in Nat
    BY AgentAccessAssumption
  <2> HIDE DEF Cleaned
  <2> QED
    BY <2>1, <2>2, <2>3, <2>4, <2>5
<1>3. CASE ~CleanupDue
  BY <1>1, <1>3 DEF BucketsAfterCleanup
<1> QED
  BY <1>2, <1>3

LEMMA AgentShapeInit == AgentInit => AgentShape
BY AgentAccessAssumption DEF AgentInit, AgentShape, AgentTypeOK, IdleCreator, IdleCheck

LEMMA AgentShapeStep == AgentShape /\ [AgentNext]_agentVars => AgentShape'
<1> SUFFICES ASSUME AgentShape, [AgentNext]_agentVars PROVE AgentShape'
  OBVIOUS
<1>0. /\ provider \in {"sqlite", "mysql"} /\ now \in 0..Horizon /\ cleanedAt \in 0..Horizon
      /\ row \in [Codes -> {NoEntry} \cup Row]
      /\ bucket \in [Origins -> {NoEntry} \cup Bucket]
      /\ \A o \in Origins : bucket[o] # NoEntry => bucket[o].failures > 0 /\ bucket[o].start <= now
      /\ creator \in [Creators -> [stage : {"idle", "insert"}, origin : Origins \cup {NoEntry}]]
      /\ check \in [Checks -> [stage : {"idle", "find"}, origin : Origins \cup {NoEntry},
                               code : Codes \cup {NoEntry}]]
      /\ \A h \in Creators : creator[h].stage = "insert" => creator[h].origin \in Origins
      /\ \A h \in Checks : check[h].stage = "find" =>
            check[h].origin \in Origins /\ check[h].code \in Codes
      /\ cleanedAt <= now
      /\ {Ttl, Window, Horizon} \subseteq Nat
  BY AgentAccessAssumption DEF AgentShape, AgentTypeOK
<1>1. ASSUME NEW h \in Creators, NEW origin \in Origins, CountForCreate(h, origin) PROVE AgentShape'
  BY <1>0, <1>1 DEF CountForCreate, AgentShape, AgentTypeOK
<1>2. ASSUME NEW h \in Creators, NEW code \in Codes, Create(h, code) PROVE AgentShape'
  <2>1. [origin |-> creator[h].origin, expires |-> now + Ttl, revoked |-> FALSE] \in Row
    BY <1>0, <1>2 DEF Create, Row
  <2>2. row' \in [Codes -> {NoEntry} \cup Row]
    BY <1>0, <1>2, <2>1 DEF Create
  <2> QED
    BY <1>0, <1>2, <2>2 DEF Create, IdleCreator, AgentShape, AgentTypeOK
<1>3. ASSUME NEW h \in Creators, CreateFails(h) PROVE AgentShape'
  BY <1>0, <1>3 DEF CreateFails, IdleCreator, AgentShape, AgentTypeOK
<1>4. ASSUME NEW code \in Codes, Revoke(code) PROVE AgentShape'
  <2>0. row[code] \in Row
    BY <1>0, <1>4 DEF Revoke
  <2>1. [row[code] EXCEPT !.revoked = TRUE] \in Row
    BY <2>0 DEF Row
  <2>2. row' \in [Codes -> {NoEntry} \cup Row]
    BY <1>0, <1>4, <2>1 DEF Revoke
  <2> QED
    BY <1>0, <1>4, <2>2 DEF Revoke, AgentShape, AgentTypeOK
<1>5. ASSUME NEW h \in Checks, NEW origin \in Origins, NEW code \in Codes,
             PresentCode(h, origin, code)
      PROVE  AgentShape'
  <2>1. /\ bucket' \in [Origins -> {NoEntry} \cup Bucket]
        /\ \A o \in Origins : bucket'[o] # NoEntry => bucket'[o] = bucket[o]
    BY <1>5, CleanupShape DEF PresentCode
  <2>2. cleanedAt' \in 0..Horizon /\ cleanedAt' <= now
    BY <1>0, <1>5 DEF PresentCode
  <2>3. /\ check' \in [Checks -> [stage : {"idle", "find"}, origin : Origins \cup {NoEntry},
                                  code : Codes \cup {NoEntry}]]
        /\ \A g \in Checks : check'[g].stage = "find" =>
              check'[g].origin \in Origins /\ check'[g].code \in Codes
    <3>1. CASE Blocked(origin)
      BY <1>0, <1>5, <3>1 DEF PresentCode
    <3>2. CASE ~Blocked(origin)
      BY <1>0, <1>5, <3>2 DEF PresentCode
    <3> QED
      BY <3>1, <3>2
  <2>4. UNCHANGED <<provider, now, row, creator>>
    BY <1>5 DEF PresentCode
  <2> QED
    BY <1>0, <2>1, <2>2, <2>3, <2>4 DEF AgentShape, AgentTypeOK
<1>6. ASSUME NEW h \in Checks, Find(h) PROVE AgentShape'
  <2> DEFINE origin == check[h].origin
  <2>1. origin \in Origins
    BY <1>0, <1>6 DEF Find
  <2>2. /\ bucket' \in [Origins -> {NoEntry} \cup Bucket]
        /\ \A o \in Origins : bucket'[o] # NoEntry =>
                bucket'[o].failures > 0 /\ bucket'[o].start <= now
    <3>1. CASE Known(check[h].code)
      BY <1>0, <1>6, <3>1 DEF Find
    <3>2. CASE ~Known(check[h].code)
      <4> DEFINE B == AfterFailure(origin)
      <4>1. bucket' = B
        BY <1>6, <3>2 DEF Find
      <4> HIDE DEF B, origin
      <4>2. /\ B \in [Origins -> {NoEntry} \cup Bucket]
            /\ \A o \in Origins \ {origin} : B[o] = bucket[o]
            /\ \/ B = bucket
               \/ /\ bucket[origin] # NoEntry
                  /\ B[origin] = [start |-> bucket[origin].start,
                                  failures |-> bucket[origin].failures + 1]
               \/ B[origin] = [start |-> now, failures |-> 1]
        BY <2>1, AfterFailureShape DEF B
      <4>3. \A o \in Origins : B[o] # NoEntry => B[o].failures > 0 /\ B[o].start <= now
        BY <1>0, <2>1, <4>2 DEF Bucket
      <4> QED
        BY <4>1, <4>2, <4>3
    <3> QED
      BY <3>1, <3>2
  <2>3. /\ check' = [check EXCEPT ![h] = IdleCheck]
        /\ UNCHANGED <<provider, now, row, cleanedAt, creator>>
    BY <1>6 DEF Find
  <2> QED
    BY <1>0, <2>2, <2>3 DEF IdleCheck, AgentShape, AgentTypeOK
<1>7. CASE TimePasses
  <2>1. /\ now' = now + 1 /\ now < Horizon
        /\ UNCHANGED <<provider, row, bucket, cleanedAt, creator, check>>
    BY <1>7 DEF TimePasses
  <2>2. now' \in 0..Horizon /\ cleanedAt <= now'
    BY <1>0, <2>1
  <2>3. \A o \in Origins : bucket[o] # NoEntry => bucket[o].start <= now'
    BY <1>0, <2>1 DEF Bucket
  <2> QED
    BY <1>0, <2>1, <2>2, <2>3 DEF AgentShape, AgentTypeOK
<1>8. CASE UNCHANGED agentVars
  BY <1>0, <1>8 DEF agentVars, AgentShape, AgentTypeOK
<1> QED
  BY <1>1, <1>2, <1>3, <1>4, <1>5, <1>6, <1>7, <1>8 DEF AgentNext

\* Rows, buckets and requests keep their shape, for any number of each.
THEOREM AgentTypeCorrect == AgentSpec => []AgentTypeOK
<1>1. AgentShape => AgentTypeOK
  BY DEF AgentShape
<1> QED
  BY <1>1, AgentShapeInit, AgentShapeStep, PTL DEF AgentSpec

-----------------------------------------------------------------------------
(* The number of active sessions *)

Active(o) ==
    {c \in Codes : row[c] # NoEntry /\ row[c].origin = o /\ ~row[c].revoked /\ row[c].expires > now}

Inserting(o) == {h \in Creators : creator[h].stage = "insert" /\ creator[h].origin = o}

\* What expires later is, on either database, later than now.
LEMMA LaterIsLater ==
    ASSUME AgentShape, NEW time \in Nat, time > now
    PROVE  LaterThanNow(time)
<1>1. now \in Nat /\ Day \in Nat \ {0} /\ Horizon \in Nat
  BY AgentAccessAssumption DEF AgentShape, AgentTypeOK
<1>2. time \div Day >= now \div Day
  BY <1>1
<1> QED
  BY <1>2 DEF LaterThanNow

\* The sets that are counted are finite.
LEMMA Counts ==
    ASSUME NEW o
    PROVE  /\ IsFiniteSet(Active(o)) /\ Cardinality(Active(o)) \in Nat
           /\ IsFiniteSet(Inserting(o)) /\ Cardinality(Inserting(o)) \in Nat
           /\ Cardinality(Inserting(o)) <= Cardinality(Creators)
           /\ Cardinality(Creators) \in Nat
<1>1. Active(o) \in SUBSET Codes /\ Inserting(o) \in SUBSET Creators
  BY DEF Active, Inserting
<1> QED
  BY <1>1, AgentAccessAssumption, FS_Subset, FS_CardinalityType

\* Whoever passes the count sees fewer sessions than allowed.
LEMMA PassedIsBelow ==
    ASSUME AgentShape, NEW o \in Origins, ~LimitReached(o)
    PROVE  Cardinality(Active(o)) < MaxActive
<1> DEFINE C == {c \in ActiveRows : row[c].origin = o}
<1>1. C \in SUBSET Codes
  BY DEF ActiveRows
<1>2. IsFiniteSet(C) /\ Cardinality(C) \in Nat
  BY <1>1, AgentAccessAssumption, FS_Subset, FS_CardinalityType
<1>3. Cardinality(C) < MaxActive
  BY <1>2, AgentAccessAssumption DEF LimitReached, CountActiveByIp
<1>4. Active(o) \in SUBSET C
  <2>1. ASSUME NEW c \in Active(o) PROVE LaterThanNow(row[c].expires)
    <3>1. row[c] \in Row /\ row[c].expires > now
      BY DEF Active, AgentShape, AgentTypeOK
    <3>2. row[c].expires \in Nat
      BY <3>1 DEF Row
    <3> QED
      BY <3>1, <3>2, LaterIsLater
  <2> QED
    BY <2>1 DEF Active, ActiveRows
<1> HIDE DEF C
<1>5. Cardinality(Active(o)) <= Cardinality(C)
  BY <1>2, <1>4, FS_Subset
<1> QED
  BY <1>2, <1>3, <1>5, Counts, AgentAccessAssumption

LEMMA OneMore ==
    ASSUME NEW S, IsFiniteSet(S), NEW x
    PROVE  /\ IsFiniteSet(S \cup {x}) /\ Cardinality(S) \in Nat
           /\ Cardinality(S \cup {x}) <= Cardinality(S) + 1
<1>1. Cardinality(S) \in Nat
  BY FS_CardinalityType
<1>2. /\ IsFiniteSet(S \cup {x})
      /\ Cardinality(S \cup {x}) = IF x \in S THEN Cardinality(S) ELSE Cardinality(S) + 1
  BY FS_AddElement
<1> QED
  BY <1>1, <1>2

LEMMA ActiveStep == AgentShape /\ ActiveBounded /\ [AgentNext]_agentVars => ActiveBounded'
<1> SUFFICES ASSUME AgentShape, ActiveBounded, [AgentNext]_agentVars, NEW o \in Origins
             PROVE  Cardinality(Active(o)') + Cardinality(Inserting(o)')
                        <= MaxActive + Cardinality(Creators) - 1
  BY DEF ActiveBounded, Active, Inserting
<1> DEFINE A == Active(o)
           I == Inserting(o)
           B == Active(o)'
           J == Inserting(o)'
           Bound == MaxActive + Cardinality(Creators) - 1
<1>1. /\ IsFiniteSet(A) /\ Cardinality(A) \in Nat /\ IsFiniteSet(I) /\ Cardinality(I) \in Nat
      /\ Cardinality(Creators) \in Nat /\ MaxActive \in Nat /\ Bound \in Int
  <2>1. /\ IsFiniteSet(A) /\ Cardinality(A) \in Nat /\ IsFiniteSet(I) /\ Cardinality(I) \in Nat
        /\ Cardinality(Creators) \in Nat
    BY Counts
  <2>2. MaxActive \in Nat
    BY AgentAccessAssumption
  <2> QED
    BY <2>1, <2>2
<1>2. /\ J \in SUBSET Creators /\ Cardinality(J) \in Nat
      /\ Cardinality(J) <= Cardinality(Creators)
      /\ B \in SUBSET Codes /\ IsFiniteSet(B) /\ Cardinality(B) \in Nat
  <2>1. J \in SUBSET Creators /\ B \in SUBSET Codes
    BY DEF Active, Inserting
  <2> QED
    BY <2>1, AgentAccessAssumption, FS_Subset, FS_CardinalityType
<1>3. Cardinality(A) + Cardinality(I) <= Bound
  BY DEF ActiveBounded, Active, Inserting
<1>4. /\ creator \in [Creators -> [stage : {"idle", "insert"}, origin : Origins \cup {NoEntry}]]
      /\ row \in [Codes -> {NoEntry} \cup Row] /\ now \in Nat
  BY AgentAccessAssumption DEF AgentShape, AgentTypeOK
<1> HIDE DEF A, I, B, J, Bound
\* Fewer sessions and fewer creations.
<1>5. ASSUME B \subseteq A, J \subseteq I PROVE Cardinality(B) + Cardinality(J) <= Bound
  <2>1. Cardinality(B) <= Cardinality(A) /\ Cardinality(J) <= Cardinality(I)
    BY <1>1, <1>5, FS_Subset
  <2> QED
    BY <1>1, <1>2, <1>3, <2>1
<1>6. ASSUME NEW h \in Creators, NEW origin \in Origins, CountForCreate(h, origin)
      PROVE  Cardinality(B) + Cardinality(J) <= Bound
  <2>1. B = A
    BY <1>6 DEF CountForCreate, A, B, Active
  <2>2. CASE origin = o
    <3>1. Cardinality(A) < MaxActive
      BY <1>6, <2>2, PassedIsBelow DEF CountForCreate, A
    <3> QED
      BY <1>1, <1>2, <2>1, <3>1 DEF Bound
  <2>3. CASE origin # o
    <3>1. J \subseteq I
      BY <1>4, <1>6, <2>3 DEF CountForCreate, I, J, Inserting
    <3> QED
      BY <1>5, <2>1, <3>1
  <2> QED
    BY <2>2, <2>3
<1>7. ASSUME NEW h \in Creators, NEW code \in Codes, Create(h, code)
      PROVE  Cardinality(B) + Cardinality(J) <= Bound
  <2>1. /\ creator[h].stage = "insert" /\ row[code] = NoEntry
        /\ row' = [row EXCEPT ![code] = [origin |-> creator[h].origin, expires |-> now + Ttl,
                                         revoked |-> FALSE]]
        /\ creator' = [creator EXCEPT ![h] = IdleCreator] /\ now' = now
    BY <1>7 DEF Create
  <2>2. J = I \ {h}
    BY <1>4, <2>1 DEF I, J, Inserting, IdleCreator
  <2>3. CASE creator[h].origin = o
    <3>1. h \in I
      BY <2>1, <2>3 DEF I, Inserting
    <3>2. B \subseteq A \cup {code}
      BY <1>4, <2>1 DEF A, B, Active
    <3>3. IsFiniteSet(A \cup {code}) /\ Cardinality(A \cup {code}) <= Cardinality(A) + 1
      BY <1>1, OneMore
    <3>4. Cardinality(B) <= Cardinality(A \cup {code}) /\ Cardinality(A \cup {code}) \in Nat
      BY <3>2, <3>3, FS_Subset, FS_CardinalityType
    <3>5. Cardinality(J) = Cardinality(I) - 1
      BY <1>1, <2>2, <3>1, FS_RemoveElement
    <3> QED
      BY <1>1, <1>2, <1>3, <3>3, <3>4, <3>5
  <2>4. CASE creator[h].origin # o
    <3>1. B \subseteq A
      BY <1>4, <2>1, <2>4 DEF A, B, Active
    <3> QED
      BY <1>5, <2>2, <3>1
  <2> QED
    BY <2>3, <2>4
<1>8. ASSUME NEW h \in Creators, CreateFails(h) PROVE B \subseteq A /\ J \subseteq I
  BY <1>4, <1>8 DEF CreateFails, IdleCreator, A, B, Active, I, J, Inserting
<1>9. ASSUME NEW code \in Codes, Revoke(code) PROVE B \subseteq A /\ J \subseteq I
  <2>1. row[code] \in Row
    BY <1>4, <1>9 DEF Revoke
  <2>2. [row[code] EXCEPT !.revoked = TRUE].revoked
    BY <2>1 DEF Row
  <2>3. J = I /\ now' = now
    BY <1>9 DEF Revoke, I, J, Inserting
  <2>4. \A c \in Codes : row'[c] = IF c = code THEN [row[code] EXCEPT !.revoked = TRUE] ELSE row[c]
    BY <1>4, <1>9 DEF Revoke
  <2> QED
    BY <2>2, <2>3, <2>4 DEF A, B, Active
<1>10. ASSUME TimePasses PROVE B \subseteq A /\ J \subseteq I
  <2>1. now' = now + 1 /\ row' = row /\ creator' = creator
    BY <1>10 DEF TimePasses
  <2>2. J = I
    BY <2>1 DEF I, J, Inserting
  <2>3. \A c \in Codes : row[c] # NoEntry => row[c].expires \in Nat
    BY <1>4 DEF Row
  <2>4. B \subseteq A
    BY <1>4, <2>1, <2>3 DEF A, B, Active
  <2> QED
    BY <2>2, <2>4
<1>11. ASSUME UNCHANGED <<now, row, creator>> PROVE B \subseteq A /\ J \subseteq I
  BY <1>11 DEF A, B, Active, I, J, Inserting
<1> QED
  <2>1. Cardinality(B) + Cardinality(J) <= Bound
    <3>1. CASE UNCHANGED <<now, row, creator>>
      BY <1>5, <1>11, <3>1
    <3>2. CASE ~(UNCHANGED <<now, row, creator>>)
      <4>1. AgentNext /\ \A h \in Checks : ~Find(h)
        BY <3>2 DEF agentVars, Find
      <4>2. \A h \in Checks, origin \in Origins, code \in Codes : ~PresentCode(h, origin, code)
        BY <3>2 DEF PresentCode
      <4> QED
        BY <1>5, <1>6, <1>7, <1>8, <1>9, <1>10, <4>1, <4>2 DEF AgentNext
    <3> QED
      BY <3>1, <3>2
  <2> QED
    BY <2>1 DEF B, J, Bound

\* An origin has at most the configured number of active sessions, and one more
\* for every other creation that was counting at the same time, on either database
\* (CreateAgentSessionUseCase.execute counts and inserts with separate calls).
THEOREM SessionsBounded == AgentSpec => []ActiveBounded
<1>1. AgentInit => ActiveBounded
  <2> SUFFICES ASSUME AgentInit, NEW o \in Origins
               PROVE  Cardinality(Active(o)) + Cardinality(Inserting(o))
                          <= MaxActive + Cardinality(Creators) - 1
    BY DEF ActiveBounded, Active, Inserting
  <2>1. Active(o) = {} /\ Inserting(o) = {}
    BY DEF AgentInit, IdleCreator, Active, Inserting
  <2> QED
    BY <2>1, Counts, FS_EmptySet, AgentAccessAssumption
<1> QED
  BY <1>1, AgentShapeInit, AgentShapeStep, ActiveStep, PTL DEF AgentSpec

-----------------------------------------------------------------------------
(* The failure limit *)

Presenting(o) == {h \in Checks : check[h].stage = "find" /\ check[h].origin = o}

\* What has been looked up already may still be counted; and no bucket is older
\* than a window before the last cleanup.
FailInv ==
    /\ IsFiniteSet(Counted) /\ Cardinality(Counted) <= MaxBuckets
    /\ \A o \in Counted :
          /\ bucket[o].failures + Cardinality(Presenting(o))
                 <= MaxFailures + Cardinality(Checks) - 1
          /\ bucket[o].start + Window > cleanedAt

LEMMA PresentingCounts ==
    ASSUME NEW o
    PROVE  /\ IsFiniteSet(Presenting(o)) /\ Cardinality(Presenting(o)) \in Nat
           /\ Cardinality(Presenting(o)) <= Cardinality(Checks)
           /\ Cardinality(Checks) \in Nat
<1>1. Presenting(o) \in SUBSET Checks
  BY DEF Presenting
<1> QED
  BY <1>1, AgentAccessAssumption, FS_Subset, FS_CardinalityType

\* No more is counted than before.
LEMMA FewerCounted ==
    ASSUME FailInv, Counted' \subseteq Counted
    PROVE  IsFiniteSet(Counted') /\ Cardinality(Counted') <= MaxBuckets
<1>1. /\ IsFiniteSet(Counted') /\ Cardinality(Counted') <= Cardinality(Counted)
      /\ Cardinality(Counted) \in Nat /\ Cardinality(Counted') \in Nat
  BY FS_Subset, FS_CardinalityType DEF FailInv
<1> QED
  BY <1>1, AgentAccessAssumption DEF FailInv

LEMMA PresentFails ==
    ASSUME AgentShape, FailInv, NEW h \in Checks, NEW origin \in Origins, NEW code \in Codes,
           PresentCode(h, origin, code)
    PROVE  FailInv'
<1> DEFINE left == BucketsAfterCleanup
<1>1. /\ check[h].stage = "idle" /\ bucket' = left /\ now' = now
      /\ cleanedAt' = IF CleanupDue THEN now ELSE cleanedAt
      /\ check' = IF Blocked(origin) THEN check ELSE [check EXCEPT ![h] =
            [stage |-> "find", origin |-> origin, code |-> code]]
  BY DEF PresentCode
<1>2. /\ left \in [Origins -> {NoEntry} \cup Bucket]
      /\ \A o \in Origins : left[o] # NoEntry => left[o] = bucket[o]
      /\ \A o \in Origins : CleanupDue /\ left[o] # NoEntry => now - bucket[o].start < Window
  BY CleanupShape
<1>3. /\ \A o \in Origins : bucket[o] # NoEntry =>
                bucket[o].failures \in Nat /\ bucket[o].start \in Nat
      /\ now \in Nat /\ Window \in Nat /\ MaxFailures \in Nat \ {0}
      /\ check \in [Checks -> [stage : {"idle", "find"}, origin : Origins \cup {NoEntry},
                               code : Codes \cup {NoEntry}]]
  BY AgentAccessAssumption DEF AgentShape, AgentTypeOK, Bucket
<1>4. Blocked(origin) => (left[origin] # NoEntry => left[origin].failures >= MaxFailures)
  BY DEF Blocked
<1>5. ~Blocked(origin) => (left[origin] # NoEntry => ~(left[origin].failures >= MaxFailures))
  BY DEF Blocked
<1> HIDE DEF left
<1>6. Counted' \subseteq Counted
  BY <1>1, <1>2 DEF Counted
<1>7. ASSUME NEW o \in Counted'
      PROVE  /\ bucket'[o].failures + Cardinality(Presenting(o)')
                    <= MaxFailures + Cardinality(Checks) - 1
             /\ bucket'[o].start + Window > cleanedAt'
  <2>1. /\ o \in Origins /\ o \in Counted /\ bucket[o] # NoEntry
        /\ bucket'[o] = bucket[o] /\ left[o] = bucket[o]
    BY <1>1, <1>2, <1>6 DEF Counted
  <2>2. bucket'[o].start + Window > cleanedAt'
    <3>1. CASE CleanupDue
      BY <1>1, <1>2, <1>3, <2>1, <3>1
    <3>2. CASE ~CleanupDue
      BY <1>1, <2>1, <3>2 DEF FailInv
    <3> QED
      BY <3>1, <3>2
  <2>3. bucket[o].failures + Cardinality(Presenting(o)) <= MaxFailures + Cardinality(Checks) - 1
    BY <2>1 DEF FailInv
  <2>4. /\ Cardinality(Presenting(o)) \in Nat /\ Cardinality(Checks) \in Nat
        /\ Cardinality(Presenting(o)') \in Nat
        /\ Cardinality(Presenting(o)') <= Cardinality(Checks)
    <3>1. Presenting(o)' \in SUBSET Checks
      BY DEF Presenting
    <3> QED
      BY <3>1, PresentingCounts, AgentAccessAssumption, FS_Subset, FS_CardinalityType
  <2>5. CASE Blocked(origin)
    <3>1. Presenting(o)' = Presenting(o)
      BY <1>1, <2>5 DEF Presenting
    <3> QED
      BY <2>1, <2>2, <2>3, <3>1
  <2>6. CASE ~Blocked(origin) /\ o = origin
    <3>1. bucket[o].failures < MaxFailures
      BY <1>3, <1>5, <2>1, <2>6
    <3> QED
      BY <1>3, <2>1, <2>2, <2>4, <3>1
  <2>7. CASE ~Blocked(origin) /\ o # origin
    <3>1. Presenting(o)' = Presenting(o)
      BY <1>1, <1>3, <2>7 DEF Presenting
    <3> QED
      BY <2>1, <2>2, <2>3, <3>1
  <2> QED
    BY <2>5, <2>6, <2>7
<1>8. IsFiniteSet(Counted') /\ Cardinality(Counted') <= MaxBuckets
  BY <1>6, FewerCounted
<1> QED
  BY <1>7, <1>8 DEF FailInv

LEMMA FindFails ==
    ASSUME AgentShape, FailInv, NEW h \in Checks, Find(h)
    PROVE  FailInv'
<1> DEFINE origin == check[h].origin
           B == AfterFailure(origin)
           P(o) == Presenting(o)
           Q(o) == Presenting(o)'
<1>1. /\ check[h].stage = "find" /\ check' = [check EXCEPT ![h] = IdleCheck]
      /\ cleanedAt' = cleanedAt
      /\ bucket' = IF Known(check[h].code) THEN bucket ELSE B
  BY DEF Find
<1>2. /\ origin \in Origins /\ now \in Nat /\ cleanedAt \in Nat /\ cleanedAt <= now
      /\ Window \in Nat \ {0} /\ MaxFailures \in Nat \ {0} /\ MaxBuckets \in Nat
      /\ \A o \in Origins : bucket[o] # NoEntry =>
               bucket[o].failures \in Nat /\ bucket[o].start \in Nat
      /\ check \in [Checks -> [stage : {"idle", "find"}, origin : Origins \cup {NoEntry},
                               code : Codes \cup {NoEntry}]]
  BY <1>1, AgentAccessAssumption DEF AgentShape, AgentTypeOK, Bucket
<1>3. \A o : Q(o) = P(o) \ {h}
  BY <1>1, <1>2 DEF Presenting, IdleCheck
<1>4. h \in P(origin)
  BY <1>1 DEF Presenting
<1>5. ASSUME NEW o
      PROVE  /\ Cardinality(P(o)) \in Nat /\ Cardinality(Q(o)) \in Nat
             /\ Cardinality(Q(o)) <= Cardinality(P(o)) /\ Cardinality(P(o)) <= Cardinality(Checks)
             /\ o = origin => Cardinality(Q(o)) = Cardinality(P(o)) - 1
             /\ Cardinality(Checks) \in Nat
  <2>1. /\ IsFiniteSet(P(o)) /\ Cardinality(P(o)) \in Nat
        /\ Cardinality(P(o)) <= Cardinality(Checks) /\ Cardinality(Checks) \in Nat
    BY PresentingCounts
  <2> HIDE DEF P, Q
  <2>2. /\ IsFiniteSet(P(o) \ {h})
        /\ Cardinality(P(o) \ {h}) = IF h \in P(o) THEN Cardinality(P(o)) - 1 ELSE Cardinality(P(o))
    BY <2>1, FS_RemoveElement
  <2>3. Cardinality(Q(o)) \in Nat
    BY <1>3, <2>2, FS_CardinalityType
  <2>4. Cardinality(Q(o)) = IF h \in P(o) THEN Cardinality(P(o)) - 1 ELSE Cardinality(P(o))
    BY <1>3, <2>2
  <2>5. o = origin => h \in P(o)
    BY <1>4
  <2> QED
    BY <2>1, <2>3, <2>4, <2>5
<1>6. /\ \A o \in Origins \ {origin} : bucket'[o] = bucket[o]
      /\ \/ bucket' = bucket
         \/ /\ bucket[origin] # NoEntry
            /\ bucket'[origin] = [start |-> bucket[origin].start,
                                  failures |-> bucket[origin].failures + 1]
         \/ /\ bucket[origin] # NoEntry \/ ~(Cardinality(Counted) >= MaxBuckets)
            /\ bucket'[origin] = [start |-> now, failures |-> 1]
  <2>1. CASE Known(check[h].code)
    BY <1>1, <2>1
  <2>2. CASE ~Known(check[h].code)
    <3>1. bucket' = B
      BY <1>1, <2>2
    <3> HIDE DEF origin, B
    <3> QED
      BY <1>2, <3>1, AfterFailureShape DEF B
  <2> QED
    BY <2>1, <2>2
<1> HIDE DEF origin, B, P, Q
<1>7. ASSUME NEW o \in Counted
      PROVE  /\ bucket[o].failures + Cardinality(P(o)) <= MaxFailures + Cardinality(Checks) - 1
             /\ bucket[o].start + Window > cleanedAt
             /\ bucket[o].failures \in Nat /\ bucket[o].start \in Nat
  BY <1>2 DEF FailInv, P, Counted
<1>8. ASSUME NEW o \in Counted'
      PROVE  /\ bucket'[o].failures + Cardinality(Q(o)) <= MaxFailures + Cardinality(Checks) - 1
             /\ bucket'[o].start + Window > cleanedAt'
  <2>1. o \in Origins /\ bucket'[o] # NoEntry
    BY DEF Counted
  <2>2. CASE bucket'[o] = bucket[o]
    <3>1. o \in Counted
      BY <2>1, <2>2 DEF Counted
    <3> QED
      BY <1>1, <1>2, <1>5, <1>7, <2>2, <3>1
  <2>3. CASE /\ o = origin /\ bucket[origin] # NoEntry
             /\ bucket'[origin] = [start |-> bucket[origin].start,
                                   failures |-> bucket[origin].failures + 1]
    <3>1. o \in Counted
      BY <2>1, <2>3 DEF Counted
    <3> QED
      BY <1>1, <1>2, <1>5, <1>7, <2>3, <3>1
  <2>4. CASE o = origin /\ bucket'[origin] = [start |-> now, failures |-> 1]
    BY <1>1, <1>2, <1>5, <2>4
  <2> QED
    BY <1>6, <2>1, <2>2, <2>3, <2>4
<1>9. IsFiniteSet(Counted') /\ Cardinality(Counted') <= MaxBuckets
  <2>1. CASE Counted' \subseteq Counted
    BY <2>1, FewerCounted
  <2>2. CASE ~(Counted' \subseteq Counted)
    <3>1. Counted' \subseteq Counted \cup {origin}
      BY <1>6 DEF Counted
    <3>2. ~(Cardinality(Counted) >= MaxBuckets)
      BY <1>2, <1>6, <2>2 DEF Counted
    <3>3. /\ IsFiniteSet(Counted \cup {origin}) /\ Cardinality(Counted) \in Nat
          /\ Cardinality(Counted \cup {origin}) <= Cardinality(Counted) + 1
      BY OneMore DEF FailInv
    <3>4. /\ IsFiniteSet(Counted') /\ Cardinality(Counted') \in Nat
          /\ Cardinality(Counted') <= Cardinality(Counted \cup {origin})
          /\ Cardinality(Counted \cup {origin}) \in Nat
      BY <3>1, <3>3, FS_Subset, FS_CardinalityType
    <3> QED
      BY <1>2, <3>2, <3>3, <3>4
  <2> QED
    BY <2>1, <2>2
<1> QED
  BY <1>8, <1>9 DEF FailInv, Q

LEMMA FailStep == AgentShape /\ FailInv /\ [AgentNext]_agentVars => FailInv'
<1> SUFFICES ASSUME AgentShape, FailInv, [AgentNext]_agentVars PROVE FailInv'
  OBVIOUS
<1>1. CASE UNCHANGED <<bucket, check, cleanedAt>>
  <2>1. Counted' = Counted /\ \A o : Presenting(o)' = Presenting(o)
    BY <1>1 DEF Counted, Presenting
  <2> QED
    BY <1>1, <2>1 DEF FailInv
<1>2. CASE ~(UNCHANGED <<bucket, check, cleanedAt>>)
  BY <1>2, PresentFails, FindFails
     DEF AgentNext, CountForCreate, Create, CreateFails, Revoke, TimePasses, agentVars
<1> QED
  BY <1>1, <1>2

LEMMA FailInvariant == AgentSpec => [](AgentShape /\ FailInv)
<1>1. AgentInit => FailInv
  <2> SUFFICES ASSUME AgentInit PROVE FailInv
    OBVIOUS
  <2>1. Counted = {}
    BY DEF AgentInit, Counted
  <2> QED
    BY <2>1, FS_EmptySet, AgentAccessAssumption DEF FailInv
<1> QED
  BY <1>1, AgentShapeInit, AgentShapeStep, FailStep, PTL DEF AgentSpec

\* The buckets stay within their number, and an origin's count within its limit
\* and what was already being looked up, however requests overlap
\* (isSessionAttemptBlocked and recordSessionFailure are separate calls).
THEOREM FailuresLimited == AgentSpec => []FailuresBounded
<1>1. AgentShape /\ FailInv => FailuresBounded
  <2> SUFFICES ASSUME AgentShape, FailInv, NEW o \in Counted
               PROVE  bucket[o].failures <= MaxFailures + Cardinality(Checks) - 1
    BY DEF FailuresBounded, FailInv
  <2>1. bucket[o].failures \in Nat
    BY DEF AgentShape, AgentTypeOK, Counted, Bucket
  <2> QED
    BY <2>1, PresentingCounts, AgentAccessAssumption DEF FailInv
<1> QED
  BY <1>1, FailInvariant, PTL

\* An origin is refused for its own failures of the last two windows, or while as
\* many origins as are counted at a time have failures of the last two windows
\* (RefusalExpires; cleanupSessionFailureBuckets drops buckets once per window).
THEOREM RefusalEnds == AgentSpec => []RefusalExpires
<1>1. AgentShape /\ FailInv => RefusalExpires
  <2> SUFFICES ASSUME AgentShape, FailInv, NEW o \in Origins, Blocked(o)
               PROVE  IF BucketsAfterCleanup[o] # NoEntry THEN o \in FailedLately
                      ELSE Cardinality(FailedLately \ {o}) >= MaxBuckets
    BY DEF RefusalExpires
  <2> DEFINE left == {q \in Origins : BucketsAfterCleanup[q] # NoEntry}
  <2>1. ASSUME NEW q \in left PROVE q \in FailedLately
    <3>1. bucket[q] # NoEntry /\ (CleanupDue => now - bucket[q].start < Window)
      BY CleanupShape
    <3>2. q \in Counted /\ bucket[q].start \in Nat
      BY <3>1 DEF Counted, AgentShape, AgentTypeOK, Bucket
    <3>3. bucket[q].start + Window > cleanedAt
      BY <3>2 DEF FailInv
    <3>4. now \in Nat /\ cleanedAt \in Nat /\ Window \in Nat
      BY AgentAccessAssumption DEF AgentShape, AgentTypeOK
    <3> QED
      BY <3>1, <3>2, <3>3, <3>4 DEF CleanupDue, FailedLately
  <2>2. CASE BucketsAfterCleanup[o] # NoEntry
    BY <2>1, <2>2
  <2>3. CASE BucketsAfterCleanup[o] = NoEntry
    <3>1. left \subseteq FailedLately \ {o} /\ Cardinality(left) >= MaxBuckets
      BY <2>1, <2>3 DEF Blocked
    <3>2. IsFiniteSet(FailedLately \ {o})
      <4>1. FailedLately \ {o} \subseteq Counted
        BY DEF FailedLately, Counted
      <4> QED BY <4>1, FS_Subset DEF FailInv
    <3>3. /\ IsFiniteSet(left) /\ Cardinality(left) <= Cardinality(FailedLately \ {o})
          /\ Cardinality(left) \in Nat /\ Cardinality(FailedLately \ {o}) \in Nat
      BY <3>1, <3>2, FS_Subset, FS_CardinalityType
    <3> QED
      BY <2>3, <3>1, <3>3, AgentAccessAssumption
  <2> QED BY <2>2, <2>3
<1> QED
  BY <1>1, FailInvariant, PTL
=============================================================================
