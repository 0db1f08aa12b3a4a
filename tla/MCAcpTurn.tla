------------------------------ MODULE MCAcpTurn ------------------------------
(* Small instances of AcpTurn for TLC. *)
EXTENDS AcpTurn
=============================================================================
