--------------------------- MODULE MCSkillReading ---------------------------
(* A small instance of SkillReading for TLC. *)
EXTENDS SkillReading, TLC
=============================================================================
