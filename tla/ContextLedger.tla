---------------------------- MODULE ContextLedger ----------------------------
(***************************************************************************)
(* What the batches of src/src/context_ledger.rs contain, over the journal *)
(* of Bridge: which lines of the room context_for of src/src/matrix.rs     *)
(* finds for a request, which of them src/src/context.rs puts in front of  *)
(* it, and whether it introduces the session.  The state of each batch and *)
(* every operation that moves it are Bridge's; this module adds what is    *)
(* computed when a message is staged.                                      *)
(*                                                                         *)
(* A line is the message it quotes: an event, admitted or not, or one that *)
(* nobody admits, of a reader.  Messages without a decoded text or of      *)
(* senders the policy does not permit, the bridge's own replies, the       *)
(* choice of message_delivery and a session cleared by hand are left out.  *)
(***************************************************************************)
EXTENDS Bridge, SequencesExt

CONSTANTS
  Readers,   \* messages of senders who are heard but may not ask
  Timeline,  \* a room's messages in the homeserver's order
  Root,      \* the root of the thread a message was sent in, or None
  ReplyTo,   \* the message it replies to, or None
  Window     \* how many messages before a message its surroundings hold

Messages == Events \cup Readers

\* Every event is in its room; a thread and its replies are about older messages.
ASSUME TimelineAssumption ==
  /\ Readers \cap Events = {} /\ None \notin Readers
  /\ Timeline \in [Rooms -> Seq(Messages)]
  /\ \A e \in Events : e \in ToSet(Timeline[RoomOf[ConvOf[e]]])
  /\ Root \in [Messages -> Messages \cup {None}]
  /\ ReplyTo \in [Messages -> Messages \cup {None}]
  /\ Window \in Nat

VARIABLES
  lines,     \* context_batches.events
  baseline,  \* context_batches.initial
  stagedIn   \* history: the run a batch was staged for

contentVars == <<lines, baseline, stagedIn>>
ledgerVars == <<vars, contentVars>>

LedgerInit ==
  /\ Init
  /\ lines = [e \in Events |-> {}]
  /\ baseline = [e \in Events |-> FALSE]
  /\ stagedIn = [e \in Events |-> None]

-----------------------------------------------------------------------------
\* The messages of the room before e.
Before(e) ==
  LET messages == Timeline[RoomOf[ConvOf[e]]]
      place == CHOOSE i \in DOMAIN messages : messages[i] = e
  IN SubSeq(messages, 1, place - 1)

\* The root of the thread and all its pages up to e.
ThreadBefore(e) == {Root[e]} \cup {d \in ToSet(Before(e)) : Root[d] = Root[e]}

\* The surroundings of a message outside of threads, and what it replies to.
Nearby(e) ==
  LET earlier == Before(e)
  IN {earlier[i] : i \in {j \in DOMAIN earlier : j > Len(earlier) - Window}} \cup ({ReplyTo[e]} \ {None})

\* context_for: the history of message e.
History == [e \in Events |-> IF Root[e] # None THEN ThreadBefore(e) ELSE Nearby(e)]

\* Mutant: batches that wait with a follow-up are not counted.
CountsInFlight(d) ==
  \/ batch[d] = "delivered"
  \/ batch[d] = "inflight" /\ status[batchRun[d]] \in Active

\* Mutant: a batch counts whatever became of its run.
CountsAlways(d) == batch[d] # "none"

\* A batch counts as known once it is confirmed, while its run may still take
\* it, and while the follow-up it belongs to waits to be continued.
Counts(d) ==
  \/ batch[d] = "delivered"
  \/ batch[d] \in {"pending", "inflight"} /\ status[batchRun[d]] \in Active
  \/ batch[d] = "pending" /\ status[batchRun[d]] \in Resumable /\ steer[d] = "pending"

CountedIn(c) == {d \in Events : batch[d] # "none" /\ ConvOf[d] = c /\ Counts(d)}

\* context_ledger::known.
Known(c) == UNION {lines[d] : d \in CountedIn(c)}
Introduced(c) == \E d \in CountedIn(c) : baseline[d]

\* prepare and stage: what the history adds to the known lines, then the message
\* itself, whether it was quoted before or not.
Stage ==
  /\ lines' = [e \in Events |->
       IF e \in Staged THEN (History[e] \ Known(ConvOf[e])) \cup {e} ELSE lines[e]]
  /\ baseline' = [e \in Events |-> IF e \in Staged THEN ~Introduced(ConvOf[e]) ELSE baseline[e]]
  /\ stagedIn' = [e \in Events |-> IF e \in Staged THEN batchRun'[e] ELSE stagedIn[e]]

\* Steps of the journal in the order its driver keeps (KeepsOrder of Runner).
LedgerNext == Next /\ ReportsInOrder /\ OlderContinueFirst /\ Stage

LedgerSpec == LedgerInit /\ [][LedgerNext]_ledgerVars

-----------------------------------------------------------------------------
(* Properties *)

Confirmed(c) == {d \in Events : batch[d] = "delivered" /\ ConvOf[d] = c}

\* README.md:64, "included once": of two confirmed messages of a session the
\* later is given no line the earlier was given, and not the introduction, though
\* deltas are computed from batches that may still be abandoned, continued in
\* another run or confirmed.  Only its own line may have been quoted before, where
\* a message is admitted after one that quotes it.
LinesOnce ==
  \A d, e \in Events :
    /\ d # e /\ ConvOf[d] = ConvOf[e] /\ NoLater(d, e)
    /\ batch[d] = "delivered" /\ batch[e] = "delivered"
    => lines[d] \cap lines[e] \subseteq {e} /\ ~(baseline[d] /\ baseline[e])

\* What was dropped of the messages sent to run r: all it had not confirmed when
\* it ended cancelled, and cancelled follow-ups.
Dropped(r) ==
  {d \in Events : r \in {stagedIn[d], batchRun[d]} /\ (status[r] = "cancelled" \/ steer[d] = "cancelled")}

\* A message the agent has acted on was not taken out of its context: each line
\* of its history is confirmed too, and so is an introduction.  The exception is a
\* follow-up that outlives a cancellation: its delta left out what its run was
\* still to be given, and part of that was then dropped.
ContextIsComplete ==
  \A e \in Events :
    batch[e] = "delivered" =>
      LET given == Confirmed(ConvOf[e])
          dropped == Dropped(stagedIn[e])
      IN /\ History[e] \subseteq UNION {lines[d] : d \in given \cup dropped}
         /\ \E d \in given \cup dropped : baseline[d]
=============================================================================
