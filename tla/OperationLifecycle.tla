------------------------- MODULE OperationLifecycle -------------------------
(***************************************************************************)
(* What the operation store promises to a client that polls it: a record   *)
(* is queued once, runs, and ends once, and while a record for a target is *)
(* active every other request for that target resolves to it               *)
(* (AsyncOperationService.spec.md).                                        *)
(***************************************************************************)
CONSTANTS
    Operations,     \* the records that can ever exist
    Keys,           \* kind and target of a request
    NoKey           \* the key of a record that does not exist yet

VARIABLES
    state,          \* the state a client sees
    target          \* the key a record was created for

vars == <<state, target>>

Active == {"queued", "running"}
Terminal == {"completed", "failed"}
States == {"unused"} \cup Active \cup Terminal

Init ==
    /\ state = [o \in Operations |-> "unused"]
    /\ target = [o \in Operations |-> NoKey]

Submit(o, k) ==
    /\ state[o] = "unused"
    /\ \A p \in Operations : target[p] = k => state[p] \notin Active
    /\ state' = [state EXCEPT ![o] = "queued"]
    /\ target' = [target EXCEPT ![o] = k]

Claim(o) ==
    /\ state[o] = "queued"
    /\ state' = [state EXCEPT ![o] = "running"]
    /\ UNCHANGED target

End(o) ==
    /\ state[o] = "running"
    /\ \E s \in Terminal : state' = [state EXCEPT ![o] = s]
    /\ UNCHANGED target

Next ==
    \E o \in Operations :
        \/ \E k \in Keys : Submit(o, k)
        \/ Claim(o)
        \/ End(o)

Spec == Init /\ [][Next]_vars

-----------------------------------------------------------------------------
TypeOK ==
    /\ state \in [Operations -> States]
    /\ target \in [Operations -> Keys \cup {NoKey}]

\* At most one record per kind and target is queued or running.
OneActivePerKey ==
    \A o, p \in Operations :
        state[o] \in Active /\ state[p] \in Active /\ target[o] = target[p] => o = p
=============================================================================
