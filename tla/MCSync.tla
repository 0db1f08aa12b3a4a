------------------------------- MODULE MCSync -------------------------------
(* Small instances of SyncPipeline for TLC. *)
EXTENDS SyncPipeline, TLC

CONSTANTS k1, k2
=============================================================================
