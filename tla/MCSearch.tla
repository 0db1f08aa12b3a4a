------------------------------ MODULE MCSearch ------------------------------
(* Small instances of HistorySearch for TLC. *)
EXTENDS HistorySearch
=============================================================================
