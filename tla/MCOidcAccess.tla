---------------------------- MODULE MCOidcAccess -----------------------------
(* Small instances of OidcAccess for TLC. *)
EXTENDS OidcAccess, TLC

Person(groups) == [kind |-> "human", groups |-> groups]
Robot(groups) == [kind |-> "service", groups |-> groups]

\* A reviewer and a service account without groups.
SomeIdentities == {Person({"reviewer", "staff"}), Robot({})}

Interchangeable == Permutations(Flows) \cup Permutations(Sessions) \cup Permutations(States)
=============================================================================
