-------------------------- MODULE MCSkillRegistry ---------------------------
(* Small instances of SkillRegistry for TLC. *)
EXTENDS SkillRegistry, TLC

\* Handlers are interchangeable, and so are contents (used where no liveness
\* property is checked).
Interchangeable == Permutations(Handlers) \cup Permutations(Contents)
=============================================================================
