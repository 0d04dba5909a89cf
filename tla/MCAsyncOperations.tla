------------------------- MODULE MCAsyncOperations --------------------------
(* Small instances of AsyncOperations for TLC. *)
EXTENDS AsyncOperations, TLC

\* Processes, requests and keys are interchangeable (used where no liveness
\* property is checked).
Interchangeable == Permutations(Workers) \cup Permutations(Requests) \cup Permutations(Keys)
=============================================================================
