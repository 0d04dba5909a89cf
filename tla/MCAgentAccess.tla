---------------------------- MODULE MCAgentAccess ----------------------------
(* Small instances of AgentAccess for TLC. *)
EXTENDS AgentAccess, TLC

Interchangeable ==
    Permutations(Codes) \cup Permutations(Origins) \cup Permutations(Creators)
        \cup Permutations(Checks)
=============================================================================
