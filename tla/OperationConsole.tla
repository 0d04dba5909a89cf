-------------------------- MODULE OperationConsole --------------------------
(***************************************************************************)
(* The administrator's skill page follows one long-running operation at a  *)
(* time, beside the operation store it polls (the contract of              *)
(* OperationLifecycle).  The router keeps the page mounted while the       *)
(* address changes between skills and proposals; what the page follows is  *)
(* kept per address in the session storage, so that it is found again      *)
(* after a reload.                                                         *)
(*                                                                         *)
(* A render is followed by its effects; an answer from the network may     *)
(* come between the two only when the address changes, because every other *)
(* render leaves the effects nothing to do but to store what is shown.     *)
(***************************************************************************)
EXTENDS Naturals

CONSTANTS
    Routes,         \* addresses of the page: skills, and skills with a proposal
    MaxOperations,  \* bound on the records ever created
    MaxFaults,      \* bound on reloads and polls that fail
    NoKey

Kinds == {"judge", "publish"}
Keys == Routes \X Kinds

ASSUME ConsoleAssumption ==
    /\ MaxOperations \in Nat /\ MaxFaults \in Nat
    /\ NoKey \notin Keys

VARIABLES
    state, target,  \* the operation store
    page,           \* the address, the address the operation belongs to, and it
    saved,          \* the session storage
    call,           \* the action under way and its answer: there is at most one
    poll,           \* what the polling request under way has read
    strayed,        \* operations whose answer found the page at another address
    faults

store == <<state, target>>
console == <<page, saved, call, poll>>
vars == <<store, console, strayed, faults>>

\* A record is identified by the order of its creation.
Operations == 1..MaxOperations

Store == INSTANCE OperationLifecycle

Active == Store!Active

\* What the page knows of an operation: which, and whether it is under way,
\* all that the page decides anything on.
Nothing == [id |-> 0, active |-> FALSE]
View(o) == [id |-> o, active |-> state[o] \in Active]

NoCall == [key |-> NoKey, view |-> Nothing]

Mounted(r, view) == [route |-> r, scope |-> r, shown |-> view]

Submit(o, key) ==
    /\ \A p \in Operations : p < o => state[p] # "unused"
    /\ Store!Submit(o, key)

Init ==
    /\ Store!Init
    /\ \E r \in Routes : page = Mounted(r, Nothing)
    /\ saved = [r \in Routes |-> Nothing]
    /\ call = NoCall
    /\ poll = Nothing
    /\ strayed = {}
    /\ faults = 0

-----------------------------------------------------------------------------
(* The page *)

Settled == page.scope = page.route

\* operationInProgress, which is also what enables polling.
InProgress == Settled /\ page.shown.active

\* Mutant: the persist effect is missing.
ShowUnsaved(view) ==
    /\ page' = [page EXCEPT !.shown = view]
    /\ UNCHANGED saved

\* setActiveOperation and the persist effect, which waits for the scope.
Show(view) ==
    /\ page' = [page EXCEPT !.shown = view]
    /\ saved' = IF Settled THEN [saved EXCEPT ![page.route] = view] ELSE saved

\* A link or the browser's history: the page stays mounted.
Navigate(r) ==
    /\ Settled /\ r # page.route
    /\ page' = [page EXCEPT !.route = r]
    /\ UNCHANGED <<store, saved, call, poll, strayed, faults>>

\* Mutant: the polling effect has no cleanup.
SettleUnaborted ==
    /\ ~Settled
    /\ page' = Mounted(page.route, saved[page.route])
    /\ UNCHANGED <<store, saved, call, poll, strayed, faults>>

\* Mutant: the restore effect forgets to move the scope.
SettleShownOnly ==
    /\ ~Settled
    /\ page' = [page EXCEPT !.shown = saved[page.route]]
    /\ poll' = Nothing
    /\ UNCHANGED <<store, saved, call, strayed, faults>>

\* The effects after that: polling is aborted and what was followed at the new
\* address is restored.
Settle ==
    /\ ~Settled
    /\ page' = Mounted(page.route, saved[page.route])
    /\ poll' = Nothing
    /\ UNCHANGED <<store, saved, call, strayed, faults>>

\* The page is reloaded, or left and opened again.  What was under way is no
\* longer heard.
Reload ==
    /\ faults < MaxFaults
    /\ faults' = faults + 1
    /\ \E r \in Routes : page' = Mounted(r, saved[r])
    /\ call' = NoCall
    /\ poll' = Nothing
    /\ UNCHANGED <<store, saved, strayed>>

-----------------------------------------------------------------------------
(* The actions that start an operation.  The request meets the store when it *)
(* is sent; a request that is refused changes nothing and is left out.       *)

\* The active record of the key, else a new one.  A publication can be asked
\* for while another operation is in progress.
Act(kind) ==
    LET key == <<page.route, kind>>
    IN
    /\ call = NoCall
    /\ kind = "judge" => ~InProgress
    /\ \E o \in Operations :
          \/ /\ target[o] = key /\ state[o] \in Active
             /\ call' = [key |-> key, view |-> View(o)]
             /\ UNCHANGED store
          \/ /\ Submit(o, key)
             /\ call' = [key |-> key, view |-> [id |-> o, active |-> TRUE]]
    /\ UNCHANGED <<page, saved, poll, strayed, faults>>

\* The handler goes on after its await, whatever the page shows by then.  The
\* polling effect is renewed unless it follows the same operation.
Answer ==
    LET view == call.view
    IN
    /\ call # NoCall
    /\ call' = NoCall
    /\ Show(view)
    /\ poll' = IF view.id = page.shown.id /\ InProgress THEN poll ELSE Nothing
    /\ strayed' = IF page.route = call.key[1] THEN strayed ELSE strayed \cup {view.id}
    /\ UNCHANGED <<store, faults>>

-----------------------------------------------------------------------------
(* useBackgroundPolling with refreshActiveOperation: one request at a time,  *)
(* sent when the effect starts and then by its timer                         *)

PollRead ==
    /\ InProgress
    /\ poll = Nothing
    /\ poll' = View(page.shown.id)
    /\ UNCHANGED <<store, page, saved, call, strayed, faults>>

PollAnswer ==
    /\ poll # Nothing
    /\ Show(poll)
    /\ poll' = Nothing
    /\ UNCHANGED <<store, call, strayed, faults>>

\* A failed poll leaves what is shown; the timer sends the next one.
PollFails ==
    /\ poll # Nothing
    /\ faults < MaxFaults
    /\ faults' = faults + 1
    /\ poll' = Nothing
    /\ UNCHANGED <<store, page, saved, call, strayed>>

-----------------------------------------------------------------------------
(* The operation store and its other clients *)

Elsewhere(o) ==
    /\ \E k \in Keys : Submit(o, k)
    /\ UNCHANGED <<console, strayed, faults>>

Claim(o) == Store!Claim(o) /\ UNCHANGED <<console, strayed, faults>>

End(o) == Store!End(o) /\ UNCHANGED <<console, strayed, faults>>

-----------------------------------------------------------------------------
Polling == PollRead \/ PollAnswer

Next ==
    \/ \E r \in Routes : Navigate(r)
    \/ Settle \/ Reload
    \/ \E kind \in Kinds : Act(kind)
    \/ Answer
    \/ PollRead \/ PollAnswer \/ PollFails
    \/ \E o \in Operations : Elsewhere(o) \/ Claim(o) \/ End(o)

Spec == Init /\ [][Next]_vars

\* React runs the effects of a render, the timer polls and what is sent is
\* answered; every record is claimed and ends (AsyncOperations shows that).
FairSpec ==
    /\ Spec
    /\ WF_vars(Settle) /\ WF_vars(Polling) /\ WF_vars(Answer)
    /\ \A o \in Operations : WF_vars(Claim(o)) /\ WF_vars(End(o))

-----------------------------------------------------------------------------
(* Properties *)

Views == [id : Operations, active : BOOLEAN] \cup {Nothing}

\* Every part of the page and the store holds a value of its shape.
TypeOK ==
    /\ Store!TypeOK
    /\ page \in [route : Routes, scope : Routes, shown : Views]
    /\ saved \in [Routes -> Views]
    /\ call \in [key : Keys \cup {NoKey}, view : Views]
    /\ poll \in Views
    /\ strayed \in SUBSET Operations
    /\ faults \in 0..MaxFaults

\* A reload loses nothing: what is shown is what the session storage would
\* bring back (the persist and the restore effect, at every moment).
ShownIsSaved == Settled => page.shown = saved[page.route]

BelongsTo(view, r) ==
    view # Nothing => target[view.id][1] = r \/ view.id \in strayed

\* An operation is shown and kept at the address it was started at, however
\* polls, effects and navigation interleave; only the answer to an action that
\* finds the page at another address is an exception.
ScopeKept == \A r \in Routes : BelongsTo(saved[r], r)

\* Whoever stays at an address sees the end of what is followed there, for good.
StayingShowsTheEnd ==
    \A r \in Routes :
        <>[](page.route = r) => <>[](~page.shown.active)
=============================================================================
