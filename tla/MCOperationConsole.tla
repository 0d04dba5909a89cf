------------------------- MODULE MCOperationConsole -------------------------
(* A small instance of OperationConsole for TLC. *)
EXTENDS OperationConsole, TLC
=============================================================================
