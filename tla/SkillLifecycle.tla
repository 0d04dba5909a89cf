--------------------------- MODULE SkillLifecycle ---------------------------
(***************************************************************************)
(* What the registry promises about the versions of one skill: every       *)
(* version starts as a draft and then moves only along the transition      *)
(* table of the domain (SkillStatus.ts).  A step may move several          *)
(* versions, each along the table, because a projection rebuild can make   *)
(* the transitions of several interrupted commands visible at once.        *)
(***************************************************************************)
CONSTANTS
    Versions,   \* the versions of the skill
    Absent      \* the status of a version that does not exist yet

VARIABLE status \* what a reader of the registry is told about each version

Statuses == {"draft", "in_review", "approved", "rejected", "published", "deprecated"}

\* The table of SkillStatus.ts; 'draft' appears as a target there although no
\* command of the domain returns a version to draft.
AllowedTransitions ==
    [s \in Statuses |->
        CASE s = "draft"      -> {"in_review", "rejected"}
          [] s = "in_review"  -> {"approved", "draft", "rejected"}
          [] s = "approved"   -> {"published", "draft", "rejected"}
          [] s = "published"  -> {"deprecated"}
          [] OTHER            -> {}]

CanTransition(from, to) ==
    \/ from = Absent /\ to = "draft"
    \/ from \in Statuses /\ to \in AllowedTransitions[from]

Init == status = [v \in Versions |-> Absent]

Move(S) ==
    /\ S # {}
    /\ status' \in [Versions -> Statuses \cup {Absent}]
    /\ \A v \in Versions :
          IF v \in S THEN CanTransition(status[v], status'[v])
                     ELSE status'[v] = status[v]

Next == \E S \in SUBSET Versions : Move(S)

Spec == Init /\ [][Next]_status
=============================================================================
