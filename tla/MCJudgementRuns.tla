--------------------------- MODULE MCJudgementRuns ---------------------------
(* A small instance of JudgementRuns for TLC. *)
EXTENDS JudgementRuns, TLC

\* A mixed answer and one that is no judgement.
SomeReplies == {{"low", "high"}, {"low", "unheard of"}}
=============================================================================
