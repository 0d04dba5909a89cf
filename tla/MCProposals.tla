----------------------------- MODULE MCProposals ----------------------------
(* Small instances of Proposals for TLC. *)
EXTENDS Proposals, TLC

Interchangeable == Permutations(Handlers) \cup Permutations(Proposals)
=============================================================================
