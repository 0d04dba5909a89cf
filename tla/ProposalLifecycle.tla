-------------------------- MODULE ProposalLifecycle -------------------------
(***************************************************************************)
(* What the registry promises about the proposals one submitter makes for  *)
(* one skill: one of them is open for upload at a time, a decision is      *)
(* final, and a proposal becomes at most one version, before it is         *)
(* reported as converted.  An open upload that a reviewer has judged       *)
(* counts as judged and can be decided.                                    *)
(***************************************************************************)
EXTENDS Naturals

CONSTANTS
    Proposals,  \* the submitter's proposals for the skill
    Absent      \* the status of a proposal that does not exist

VARIABLES
    status,     \* what a reader of the registry is told about each proposal
    versions    \* how many versions were made from each proposal

seen == <<status, versions>>

Open == "in_upload"
Undecided == {"submitted", "judged"}
Statuses == {Open, "rejected", "converted"} \cup Undecided

Init ==
    /\ status = [p \in Proposals |-> Absent]
    /\ versions = [p \in Proposals |-> 0]

Become(p, s) == status' = [status EXCEPT ![p] = s] /\ UNCHANGED versions

Submit(p) ==
    /\ status[p] = Absent
    /\ \A q \in Proposals : status[q] # Open
    /\ Become(p, Open)

Withdraw(p) == status[p] = Open /\ Become(p, Absent)

Finalize(p) == status[p] = Open /\ Become(p, "submitted")

Judge(p) == status[p] \in {Open} \cup Undecided /\ Become(p, "judged")

Reject(p) == status[p] \in Undecided /\ versions[p] = 0 /\ Become(p, "rejected")

MakeVersion(p) ==
    /\ status[p] \in Undecided
    /\ versions[p] = 0
    /\ versions' = [versions EXCEPT ![p] = 1]
    /\ UNCHANGED status

Convert(p) == status[p] \in Undecided /\ versions[p] = 1 /\ Become(p, "converted")

Next == \E p \in Proposals :
    \/ Submit(p)
    \/ Withdraw(p)
    \/ Finalize(p)
    \/ Judge(p)
    \/ Reject(p)
    \/ MakeVersion(p)
    \/ Convert(p)

Spec == Init /\ [][Next]_seen
=============================================================================
