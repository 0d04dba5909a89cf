----------------------- MODULE OperationConsoleProofs -----------------------
(***************************************************************************)
(* What the skill page shows and stores, for any number of addresses and   *)
(* operations: a reload loses nothing, and an operation stays with the     *)
(* address it was started at.                                              *)
(***************************************************************************)
EXTENDS OperationConsole, TLAPS

\* What a session may hold of an operation is of a record that exists.
Known(view) == view # Nothing => state[view.id] # "unused"

\* The answer that is on its way is about a record of the key asked for.
CallMatches == call # NoCall => call.view # Nothing /\ target[call.view.id] = call.key

\* A poll is about what is shown.  Before the effects of a navigation have run
\* this may fail, and nothing is stored then.
PollFollows == Settled /\ poll # Nothing => poll.id = page.shown.id

Kept ==
    /\ TypeOK
    /\ ShownIsSaved
    /\ ScopeKept
    /\ \A r \in Routes : Known(saved[r])
    /\ Known(call.view)
    /\ CallMatches
    /\ PollFollows

-----------------------------------------------------------------------------
(* The operation store *)

LEMMA StoreTypes ==
    ASSUME Store!TypeOK
    PROVE  /\ state \in [Operations -> {"unused", "queued", "running", "completed", "failed"}]
           /\ target \in [Operations -> Keys \cup {NoKey}]
BY DEF Store!TypeOK, Store!States, Store!Active, Store!Terminal

\* A new record takes an unused number and leaves the others alone.
LEMMA SubmitFacts ==
    ASSUME Store!TypeOK, NEW o \in Operations, NEW k \in Keys, Submit(o, k)
    PROVE  /\ Store!TypeOK'
           /\ state[o] = "unused" /\ state'[o] = "queued" /\ target'[o] = k
           /\ \A p \in Operations : p # o => state'[p] = state[p] /\ target'[p] = target[p]
BY DEF Store!TypeOK, Store!States, Store!Active, Store!Terminal, Submit, Store!Submit

\* A record that exists goes on existing, and keeps its key.
StoreGrows ==
    /\ Store!TypeOK'
    /\ \A p \in Operations :
          state[p] # "unused" => state'[p] # "unused" /\ target'[p] = target[p]

LEMMA SubmitGrows ==
    ASSUME Store!TypeOK, NEW o \in Operations, NEW k \in Keys, Submit(o, k)
    PROVE  StoreGrows
BY SubmitFacts DEF StoreGrows

LEMMA ClaimGrows ==
    ASSUME Store!TypeOK, NEW o \in Operations, Store!Claim(o) \/ Store!End(o)
    PROVE  StoreGrows
BY DEF Store!TypeOK, Store!States, Store!Active, Store!Terminal, Store!Claim, Store!End, StoreGrows

LEMMA SameStoreGrows ==
    ASSUME Store!TypeOK, UNCHANGED store
    PROVE  StoreGrows
BY DEF Store!TypeOK, Store!States, store, StoreGrows

-----------------------------------------------------------------------------
(* Views *)

LEMMA ViewTypes ==
    /\ Nothing \in Views
    /\ \A view \in Views : view # Nothing => view.id \in Operations
    /\ \A o \in Operations : \A a \in BOOLEAN :
          /\ [id |-> o, active |-> a] \in Views
          /\ [id |-> o, active |-> a] # Nothing
BY DEF Views, Nothing, Operations

LEMMA ViewOf ==
    ASSUME NEW o \in Operations
    PROVE  View(o) \in Views /\ View(o) # Nothing /\ View(o).id = o
<1> DEFINE a == state[o] \in Active
<1>1. View(o) = [id |-> o, active |-> a]
    BY DEF View
<1>2. a \in BOOLEAN
    OBVIOUS
<1> HIDE DEF a
<1> QED BY <1>1, <1>2, ViewTypes

\* What was stored under an address stays right while the store grows.
LEMMA GrowthKeeps ==
    ASSUME StoreGrows, NEW view \in Views, Known(view), strayed \subseteq strayed'
    PROVE  /\ view # Nothing => state'[view.id] # "unused"
           /\ \A r \in Routes : BelongsTo(view, r) =>
                 (view # Nothing => target'[view.id][1] = r \/ view.id \in strayed')
BY ViewTypes DEF StoreGrows, Known, BelongsTo

LEMMA SavedKept ==
    ASSUME Kept, StoreGrows, saved' = saved, strayed \subseteq strayed'
    PROVE  ScopeKept' /\ \A r \in Routes : Known(saved[r])'
<1> SUFFICES ASSUME NEW r \in Routes
             PROVE  BelongsTo(saved[r], r)' /\ Known(saved[r])'
    BY DEF ScopeKept
<1>1. saved[r] \in Views /\ Known(saved[r]) /\ BelongsTo(saved[r], r)
    BY DEF Kept, TypeOK, ScopeKept
<1> QED BY <1>1, GrowthKeeps DEF Known, BelongsTo

\* The answer under way stays right while the store grows.
LEMMA CallKept ==
    ASSUME Kept, StoreGrows, call' = call
    PROVE  Known(call.view)' /\ CallMatches'
<1>1. call.view \in Views /\ Known(call.view)
    BY DEF Kept, TypeOK
<1>2. call.view # Nothing => state'[call.view.id] # "unused"
                          /\ target'[call.view.id] = target[call.view.id]
    BY <1>1, ViewTypes DEF StoreGrows, Known
<1> QED BY <1>2 DEF Kept, CallMatches, Known

\* Showing a view of a record that is known, and stored under the address it
\* belongs to, keeps the session storage right.
LEMMA ShowKept ==
    ASSUME Kept, NEW view \in Views, view # Nothing, Show(view), UNCHANGED store,
           strayed \subseteq strayed',
           Settled => /\ state[view.id] # "unused"
                      /\ target[view.id][1] = page.route \/ view.id \in strayed'
    PROVE  /\ page' \in [route : Routes, scope : Routes, shown : Views]
           /\ saved' \in [Routes -> Views]
           /\ page'.shown = view /\ page'.route = page.route /\ page'.scope = page.scope
           /\ ShownIsSaved' /\ ScopeKept' /\ \A r \in Routes : Known(saved[r])'
<1> USE DEF store
<1>1. /\ page \in [route : Routes, scope : Routes, shown : Views]
      /\ saved \in [Routes -> Views]
    BY DEF Kept, TypeOK
<1>2. /\ page' \in [route : Routes, scope : Routes, shown : Views]
      /\ page'.shown = view /\ page'.route = page.route /\ page'.scope = page.scope
    BY <1>1 DEF Show
<1>3. saved' \in [Routes -> Views]
    BY <1>1 DEF Show
<1>4. ShownIsSaved'
    BY <1>1, <1>2 DEF Show, ShownIsSaved, Settled
<1>5. ASSUME NEW r \in Routes PROVE BelongsTo(saved[r], r)' /\ Known(saved[r])'
    <2>1. saved[r] \in Views /\ Known(saved[r]) /\ BelongsTo(saved[r], r)
        BY DEF Kept, TypeOK, ScopeKept
    <2>2. CASE Settled /\ r = page.route
        <3>1. saved'[r] = view
            BY <2>2, <1>1 DEF Show
        <3> QED BY <3>1, <2>2 DEF BelongsTo, Known
    <2>3. CASE ~(Settled /\ r = page.route)
        <3>1. saved'[r] = saved[r]
            BY <2>3, <1>1 DEF Show
        <3> QED BY <3>1, <2>1 DEF BelongsTo, Known
    <2> QED BY <2>2, <2>3
<1> QED BY <1>2, <1>3, <1>4, <1>5 DEF ScopeKept

-----------------------------------------------------------------------------
(* The steps *)

LEMMA KeptInit == Init => Kept
<1> SUFFICES ASSUME Init PROVE Kept
    OBVIOUS
<1>1. PICK r \in Routes : page = Mounted(r, Nothing)
    BY DEF Init
<1>2. Store!TypeOK
    BY DEF Init, Store!Init, Store!TypeOK, Store!States
<1>3. TypeOK
    BY <1>1, <1>2, ViewTypes, ConsoleAssumption DEF Init, TypeOK, Mounted, NoCall
<1>4. ShownIsSaved /\ ScopeKept /\ PollFollows
    BY <1>1 DEF Init, ShownIsSaved, ScopeKept, BelongsTo, PollFollows, Mounted
<1>5. (\A q \in Routes : Known(saved[q])) /\ Known(call.view) /\ CallMatches
    BY DEF Init, Known, CallMatches, NoCall
<1> QED BY <1>3, <1>4, <1>5 DEF Kept

\* A step of the store alone.
LEMMA StoreStep ==
    ASSUME Kept, StoreGrows, UNCHANGED <<console, strayed, faults>>
    PROVE  Kept'
<1> USE DEF console
<1>1. TypeOK'
    BY DEF Kept, TypeOK, StoreGrows
<1>2. ScopeKept' /\ \A r \in Routes : Known(saved[r])'
    BY SavedKept
<1>3. Known(call.view)' /\ CallMatches'
    BY CallKept
<1>4. ShownIsSaved' /\ PollFollows'
    BY DEF Kept, ShownIsSaved, PollFollows, Settled
<1> QED BY <1>1, <1>2, <1>3, <1>4 DEF Kept

LEMMA NavigateStep ==
    ASSUME Kept, NEW r \in Routes, Navigate(r)
    PROVE  Kept'
<1> USE DEF Navigate, store
<1>1. StoreGrows
    BY SameStoreGrows DEF Kept, TypeOK
<1>2. TypeOK'
    BY <1>1 DEF Kept, TypeOK, StoreGrows
<1>3. page'.route = r /\ page'.scope = page.scope /\ page.scope # r
    BY DEF Kept, TypeOK, Settled
<1>4. ScopeKept' /\ \A q \in Routes : Known(saved[q])'
    BY <1>1, SavedKept
<1>5. Known(call.view)' /\ CallMatches'
    BY <1>1, CallKept
<1>6. ShownIsSaved' /\ PollFollows'
    BY <1>3 DEF ShownIsSaved, PollFollows, Settled
<1> QED BY <1>2, <1>4, <1>5, <1>6 DEF Kept

\* The page is mounted on what is stored, with no poll under way.
LEMMA MountStep ==
    ASSUME Kept, NEW r \in Routes, page' = Mounted(r, saved[r]), poll' = Nothing,
           call' \in {call, NoCall}, faults' \in 0..MaxFaults,
           UNCHANGED <<store, saved, strayed>>
    PROVE  Kept'
<1>1. StoreGrows
    BY SameStoreGrows DEF Kept, TypeOK
<1>2. /\ page'.route = r /\ page'.scope = r /\ page'.shown = saved[r]
      /\ page' \in [route : Routes, scope : Routes, shown : Views]
    BY DEF Kept, TypeOK, Mounted
<1>3. call' \in [key : Keys \cup {NoKey}, view : Views]
    BY ViewTypes DEF Kept, TypeOK, NoCall
<1>4. TypeOK'
    BY <1>1, <1>2, <1>3, ViewTypes DEF Kept, TypeOK, StoreGrows
<1>5. ScopeKept' /\ \A q \in Routes : Known(saved[q])'
    BY <1>1, SavedKept
<1>6. CASE call' = call
    <2>1. Known(call.view)' /\ CallMatches'
        BY <1>1, <1>6, CallKept
    <2> QED BY <1>2, <1>4, <1>5, <2>1 DEF Kept, ShownIsSaved, PollFollows
<1>7. CASE call' = NoCall
    <2>1. Known(call.view)' /\ CallMatches'
        BY <1>7 DEF Known, CallMatches, NoCall
    <2> QED BY <1>2, <1>4, <1>5, <2>1 DEF Kept, ShownIsSaved, PollFollows
<1> QED BY <1>6, <1>7

\* The request meets the store, and an answer about a record of the key asked
\* for is on its way.
LEMMA ActStep ==
    ASSUME Kept, NEW kind \in Kinds, Act(kind)
    PROVE  Kept'
<1> DEFINE key == <<page.route, kind>>
<1>1. key \in Keys /\ UNCHANGED <<page, saved, poll, strayed, faults>>
    BY DEF Act, Keys, Kept, TypeOK
<1>2. PICK o \in Operations :
          \/ /\ target[o] = key /\ state[o] \in Active
             /\ call' = [key |-> key, view |-> View(o)]
             /\ UNCHANGED store
          \/ /\ Submit(o, key)
             /\ call' = [key |-> key, view |-> [id |-> o, active |-> TRUE]]
    BY DEF Act
<1> HIDE DEF key
<1>3. /\ StoreGrows /\ target'[o] = key /\ state'[o] # "unused"
      /\ \E view \in Views : view # Nothing /\ view.id = o /\ call' = [key |-> key, view |-> view]
    <2>1. Store!TypeOK
        BY DEF Kept, TypeOK
    <2>2. CASE /\ target[o] = key /\ state[o] \in Active
               /\ call' = [key |-> key, view |-> View(o)]
               /\ UNCHANGED store
        <3>1. StoreGrows /\ target'[o] = key /\ state'[o] # "unused"
            BY <2>1, <2>2, SameStoreGrows DEF store, Active, Store!Active
        <3> QED BY <3>1, <2>2, ViewOf
    <2>3. CASE /\ Submit(o, key)
               /\ call' = [key |-> key, view |-> [id |-> o, active |-> TRUE]]
        <3>1. StoreGrows /\ target'[o] = key /\ state'[o] # "unused"
            BY <2>1, <2>3, <1>1, SubmitFacts, SubmitGrows
        <3>2. [id |-> o, active |-> TRUE] \in Views /\ [id |-> o, active |-> TRUE] # Nothing
            BY ViewTypes
        <3> QED BY <3>1, <3>2, <2>3
    <2> QED BY <1>2, <2>2, <2>3
<1>4. PICK view \in Views : view # Nothing /\ view.id = o /\ call' = [key |-> key, view |-> view]
    BY <1>3
<1>5. TypeOK'
    BY <1>1, <1>3, <1>4 DEF Kept, TypeOK, StoreGrows
<1>6. ScopeKept' /\ \A q \in Routes : Known(saved[q])'
    BY <1>1, <1>3, SavedKept
<1>7. Known(call.view)' /\ CallMatches'
    BY <1>3, <1>4 DEF Known, CallMatches
<1>8. ShownIsSaved' /\ PollFollows'
    BY <1>1 DEF Kept, ShownIsSaved, PollFollows, Settled
<1> QED BY <1>5, <1>6, <1>7, <1>8 DEF Kept

\* The answer is shown wherever the page is by then: it strays if that is not
\* the address it was asked for at.
LEMMA AnswerStep ==
    ASSUME Kept, Answer
    PROVE  Kept'
<1> DEFINE view == call.view
<1>1. /\ view \in Views /\ view # Nothing /\ target[view.id] = call.key
      /\ state[view.id] # "unused" /\ view.id \in Operations
    BY ViewTypes DEF Answer, Kept, TypeOK, Known, CallMatches
<1>2. /\ Show(view) /\ call' = NoCall /\ UNCHANGED <<store, faults>>
      /\ poll' = IF view.id = page.shown.id /\ InProgress THEN poll ELSE Nothing
      /\ strayed' = IF page.route = call.key[1] THEN strayed ELSE strayed \cup {view.id}
    BY DEF Answer
<1>3. strayed \subseteq strayed' /\ strayed' \in SUBSET Operations
    BY <1>1, <1>2 DEF Kept, TypeOK
<1>4. target[view.id][1] = page.route \/ view.id \in strayed'
    BY <1>1, <1>2
<1>5. /\ page' \in [route : Routes, scope : Routes, shown : Views]
      /\ saved' \in [Routes -> Views]
      /\ page'.shown = view /\ page'.route = page.route /\ page'.scope = page.scope
      /\ ShownIsSaved' /\ ScopeKept' /\ \A r \in Routes : Known(saved[r])'
    <2> HIDE DEF view
    <2> QED BY <1>1, <1>2, <1>3, <1>4, ShowKept
<1>6. Store!TypeOK'
    BY <1>2, SameStoreGrows DEF Kept, TypeOK, StoreGrows
<1>7. call' \in [key : Keys \cup {NoKey}, view : Views] /\ poll' \in Views
    BY <1>2, ViewTypes DEF NoCall, Kept, TypeOK
<1>8. TypeOK'
    BY <1>2, <1>3, <1>5, <1>6, <1>7 DEF Kept, TypeOK
<1>9. Known(call.view)' /\ CallMatches'
    BY <1>2 DEF Known, CallMatches, NoCall
<1>10. PollFollows'
    BY <1>2, <1>5 DEF Kept, PollFollows, Settled, InProgress
<1> QED BY <1>5, <1>8, <1>9, <1>10 DEF Kept

LEMMA PollReadStep ==
    ASSUME Kept, PollRead
    PROVE  Kept'
<1>1. /\ Settled /\ page.shown \in Views /\ page.shown.active
      /\ poll' = View(page.shown.id) /\ UNCHANGED <<store, page, saved, call, strayed, faults>>
    BY DEF PollRead, InProgress, Kept, TypeOK
<1>2. page.shown.id \in Operations
    BY <1>1, ViewTypes DEF Nothing
<1>3. poll' \in Views /\ poll'.id = page.shown.id
    BY <1>1, <1>2, ViewOf
<1>4. StoreGrows
    BY <1>1, SameStoreGrows DEF Kept, TypeOK
<1>5. TypeOK'
    BY <1>1, <1>3, <1>4 DEF Kept, TypeOK, StoreGrows
<1>6. ScopeKept' /\ \A q \in Routes : Known(saved[q])'
    BY <1>1, <1>4, SavedKept
<1>7. Known(call.view)' /\ CallMatches'
    BY <1>1, <1>4, CallKept
<1>8. ShownIsSaved' /\ PollFollows'
    BY <1>1, <1>3 DEF Kept, ShownIsSaved, PollFollows, Settled
<1> QED BY <1>5, <1>6, <1>7, <1>8 DEF Kept

\* What a poll has read is about what is shown, hence about what is stored at
\* the address, hence of that address.
LEMMA PollAnswerStep ==
    ASSUME Kept, PollAnswer
    PROVE  Kept'
<1>1. /\ poll \in Views /\ poll # Nothing /\ poll.id \in Operations
      /\ Show(poll) /\ poll' = Nothing /\ UNCHANGED <<store, call, strayed, faults>>
    BY ViewTypes DEF PollAnswer, Kept, TypeOK
<1>2. Settled => /\ state[poll.id] # "unused"
                 /\ target[poll.id][1] = page.route \/ poll.id \in strayed'
    <2> SUFFICES ASSUME Settled
                 PROVE  /\ state[poll.id] # "unused"
                        /\ target[poll.id][1] = page.route \/ poll.id \in strayed'
        OBVIOUS
    <2>1. /\ saved[page.route].id = poll.id
          /\ Known(saved[page.route]) /\ BelongsTo(saved[page.route], page.route)
        BY <1>1 DEF Kept, TypeOK, ShownIsSaved, PollFollows, ScopeKept
    <2>2. saved[page.route] # Nothing
        BY <1>1, <2>1 DEF Nothing, Operations
    <2> QED BY <1>1, <2>1, <2>2 DEF Known, BelongsTo
<1>3. /\ page' \in [route : Routes, scope : Routes, shown : Views]
      /\ saved' \in [Routes -> Views]
      /\ ShownIsSaved' /\ ScopeKept' /\ \A r \in Routes : Known(saved[r])'
    BY <1>1, <1>2, ShowKept
<1>4. StoreGrows
    BY <1>1, SameStoreGrows DEF Kept, TypeOK
<1>5. TypeOK'
    BY <1>1, <1>3, <1>4, ViewTypes DEF Kept, TypeOK, StoreGrows
<1>6. Known(call.view)' /\ CallMatches'
    BY <1>1, <1>4, CallKept
<1>7. PollFollows'
    BY <1>1 DEF PollFollows
<1> QED BY <1>3, <1>5, <1>6, <1>7 DEF Kept

LEMMA PollFailsStep ==
    ASSUME Kept, PollFails
    PROVE  Kept'
<1>1. /\ poll' = Nothing /\ faults' \in 0..MaxFaults
      /\ UNCHANGED <<store, page, saved, call, strayed>>
    BY ConsoleAssumption DEF PollFails, Kept, TypeOK
<1>2. StoreGrows
    BY <1>1, SameStoreGrows DEF Kept, TypeOK
<1>3. TypeOK'
    BY <1>1, <1>2, ViewTypes DEF Kept, TypeOK, StoreGrows
<1>4. ScopeKept' /\ \A q \in Routes : Known(saved[q])'
    BY <1>1, <1>2, SavedKept
<1>5. Known(call.view)' /\ CallMatches'
    BY <1>1, <1>2, CallKept
<1>6. ShownIsSaved' /\ PollFollows'
    BY <1>1 DEF Kept, ShownIsSaved, PollFollows, Settled
<1> QED BY <1>3, <1>4, <1>5, <1>6 DEF Kept

LEMMA KeptNext == Kept /\ [Next]_vars => Kept'
<1> SUFFICES ASSUME Kept, [Next]_vars PROVE Kept'
    OBVIOUS
<1>1. ASSUME NEW r \in Routes, Navigate(r) PROVE Kept'
    BY <1>1, NavigateStep
<1>2. CASE Settle
    BY <1>2, MountStep DEF Settle, Kept, TypeOK
<1>3. CASE Reload
    <2>1. PICK r \in Routes : page' = Mounted(r, saved[r])
        BY <1>3 DEF Reload
    <2>2. faults' \in 0..MaxFaults
        BY <1>3, ConsoleAssumption DEF Reload, Kept, TypeOK
    <2> QED BY <1>3, <2>1, <2>2, MountStep DEF Reload
<1>4. ASSUME NEW kind \in Kinds, Act(kind) PROVE Kept'
    BY <1>4, ActStep
<1>5. CASE Answer
    BY <1>5, AnswerStep
<1>6. CASE PollRead
    BY <1>6, PollReadStep
<1>7. CASE PollAnswer
    BY <1>7, PollAnswerStep
<1>8. CASE PollFails
    BY <1>8, PollFailsStep
<1>9. ASSUME NEW o \in Operations, Elsewhere(o) \/ Claim(o) \/ End(o) PROVE Kept'
    <2>1. Store!TypeOK
        BY DEF Kept, TypeOK
    <2>2. StoreGrows
        BY <1>9, <2>1, SubmitGrows, ClaimGrows DEF Elsewhere, Claim, End
    <2> QED BY <1>9, <2>2, StoreStep DEF Elsewhere, Claim, End
<1>10. CASE UNCHANGED vars
    <2>1. StoreGrows /\ UNCHANGED <<console, strayed, faults>>
        BY <1>10, SameStoreGrows DEF vars, Kept, TypeOK
    <2> QED BY <2>1, StoreStep
<1> QED BY <1>1, <1>2, <1>3, <1>4, <1>5, <1>6, <1>7, <1>8, <1>9, <1>10 DEF Next

LEMMA KeptAlways == Spec => []Kept
BY KeptInit, KeptNext, PTL DEF Spec

\* A reload at any moment brings back what was shown, for any number of
\* addresses and operations (the persist and restore effects).
THEOREM ReloadLosesNothing == Spec => []ShownIsSaved
<1>1. Kept => ShownIsSaved
    BY DEF Kept
<1> QED BY <1>1, KeptAlways, PTL

\* An operation is kept under the address it was started at unless its answer
\* came when the page was at another one: no poll and no effect moves it.
THEOREM OperationsStay == Spec => []ScopeKept
<1>1. Kept => ScopeKept
    BY DEF Kept
<1> QED BY <1>1, KeptAlways, PTL

\* The page, the session storage and the operation store keep their shape.
THEOREM TypeCorrect == Spec => []TypeOK
<1>1. Kept => TypeOK
    BY DEF Kept
<1> QED BY <1>1, KeptAlways, PTL
=============================================================================
