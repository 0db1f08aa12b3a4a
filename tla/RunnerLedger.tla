---------------------------- MODULE RunnerLedger ----------------------------
(***************************************************************************)
(* The ledger of delivered context in the running process: the driver and  *)
(* the workers of Runner, with what ContextLedger computes whenever a      *)
(* message is staged.  ContextLedger lets reports and continuations come   *)
(* only in the order it names; here that order is what the channels, the   *)
(* workers and the driver make of it.                                      *)
(***************************************************************************)
EXTENDS Runner, ContextLedger

processVars == <<runnerVars, contentVars>>

ProcessInit == RunnerInit /\ LedgerInit

\* The transaction of the journal that stages a message computes its context.
ProcessNext == RunnerNext /\ Stage

ProcessSpec == ProcessInit /\ [][ProcessNext]_processVars

-----------------------------------------------------------------------------
(* Properties *)

\* The process implements the ledger, so that LinesOnce and ContextIsComplete
\* hold of it.
KeepsLedger == LedgerSpec
=============================================================================
