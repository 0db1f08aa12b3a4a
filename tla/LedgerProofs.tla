---------------------------- MODULE LedgerProofs ----------------------------
(***************************************************************************)
(* Proofs about ContextLedger for any number of conversations, messages    *)
(* and runs, over what FollowUpProofs says of the journal, and about       *)
(* RunnerLedger, over what RunnerProofs says of driver and workers.       *)
(*                                                                         *)
(* A batch that counts may still be confirmed; one that does not never     *)
(* will be, nor will it count again (CountsShrinks).  So no batch that     *)
(* counts has a line of an earlier one but its own message (Apart), and    *)
(* those its delta was computed from are confirmed no later than it,       *)
(* unless they are dropped (Covers).                                       *)
(*                                                                         *)
(* The process does what the ledger expects of it: the follow-ups of a run *)
(* stay in line on their way through effects, channel, worker and updates  *)
(* (QueueOK), so that every step of it is a step of LedgerSpec.            *)
(***************************************************************************)
EXTENDS RunnerLedger, RunnerProofs

\* Batches that were sent belong to active runs, and those that wait to
\* the follow-up they were staged with.
BatchesOK ==
  \A d \in Events :
    /\ batch[d] = "inflight" => status[batchRun[d]] \in Active
    /\ batch[d] = "pending" => steer[d] \in {"pending", "cancelled"} /\ steerRun[d] = batchRun[d]

\* Of two batches that may be confirmed, the later has no line of the earlier but
\* its own message, and one introduces the session.
Apart ==
  \A d, e \in Events :
    d # e /\ ConvOf[d] = ConvOf[e] /\ Counts(d) /\ Counts(e) /\ NoLater(d, e) =>
      lines[d] \cap lines[e] \subseteq {e} /\ ~(baseline[d] /\ baseline[e])

-----------------------------------------------------------------------------
(* Steps of the ledger *)

\* The parts of batches, pending with their follow-ups or sent with their runs,
\* stay together.
LEMMA NextBatches ==
  ASSUME JournalOK, RequestsOK, BatchesOK, [Next]_vars
  PROVE  BatchesOK'
<1> USE DEF BatchesOK, JournalOK, TypeOK, ForeignKeys, runVars, steerVars, batchVars, outboxVars
<1>1. ASSUME Quiet
      PROVE  BatchesOK'
  <2> SUFFICES ASSUME NEW d \in Events
               PROVE  /\ batch'[d] = "inflight" => status'[batchRun'[d]] \in Active
                      /\ batch'[d] = "pending" => steer'[d] \in {"pending", "cancelled"} /\ steerRun'[d] = batchRun'[d]
    OBVIOUS
  <2>1. /\ batchRun'[d] = batchRun[d] /\ steer'[d] = steer[d] /\ steerRun'[d] = steerRun[d]
        /\ batch'[d] \in {"inflight", "pending"} => batch'[d] = batch[d] /\ batchRun[d] \in RunIds
    BY <1>1, QuietRequests
  <2> QED BY <1>1, <2>1, QuietRequests DEF Live, Active
<1>2. ASSUME NEW e \in Events, NEW snap \in Snapshots, NEW r \in RunIds, HandleFollowUp(e, snap, r)
      PROVE  BatchesOK'
  BY <1>2 DEF HandleFollowUp
<1>3. ASSUME NEW e \in Events, NEW snap \in Snapshots, NEW r \in RunIds, HandleRequest(e, snap, r)
      PROVE  BatchesOK'
  BY <1>3 DEF HandleRequest, Active
<1>4. ASSUME NEW e \in Events, NEW snap \in Snapshots, CommandStop(e, snap)
      PROVE  BatchesOK'
  BY <1>4 DEF CommandStop, SetStatus, ActiveRunsOf, ActiveRuns, Active
<1>5. ASSUME NEW r \in RunIds, NEW e \in Events, Steered(r, e)
      PROVE  BatchesOK'
  BY <1>5 DEF Steered, Hears, Active
<1>6. ASSUME NEW r \in RunIds, NEW s \in Terminal, Finished(r, s)
      PROVE  BatchesOK'
  BY <1>6 DEF Finished, SetStatus, EndBatch, Terminal
<1>7. ASSUME ResumePendingSteers
      PROVE  BatchesOK'
  <2>1. PICK started \in SUBSET RunIds : Continues(started)
    BY <1>7, ResumeMoves
  <2> SUFFICES ASSUME NEW d \in Events
               PROVE  /\ batch'[d] = "inflight" => status'[batchRun'[d]] \in Active
                      /\ batch'[d] = "pending" => steer'[d] \in {"pending", "cancelled"} /\ steerRun'[d] = batchRun'[d]
    OBVIOUS
  <2>0. /\ batch[d] = "inflight" => batchRun[d] \in RunIds /\ status[batchRun[d]] \in Active
        /\ batch[d] = "pending" => steer[d] \in {"pending", "cancelled"} /\ steerRun[d] = batchRun[d]
    OBVIOUS
  <2>2. \A r \in RunIds : status[r] \in Active => status'[r] = status[r]
    BY <2>1 DEF Continues, Active
  <2>3. \A r \in started : status'[r] \in Active
    BY <2>1 DEF Continues, Active
  <2>4. CASE steer'[d] = steer[d] /\ steerRun'[d] = steerRun[d] /\ batch'[d] = batch[d] /\ batchRun'[d] = batchRun[d]
    BY ONLY <2>0, <2>2, <2>4
  <2>5. CASE steerRun'[d] \in started /\ batch'[d] = "inflight" /\ batchRun'[d] = steerRun'[d]
    BY <2>3, <2>5
  <2>6. CASE batch[d] # "pending" /\ batch'[d] = batch[d] /\ batchRun'[d] = batchRun[d]
    BY ONLY <2>0, <2>2, <2>6
  <2> QED BY <2>1, <2>4, <2>5, <2>6 DEF Continues
<1>8. ASSUME NEW room \in Rooms, NEW snap \in Snapshots, ReconcileRoom(room, snap)
      PROVE  BatchesOK'
  BY <1>8 DEF ReconcileRoom, SetStatus, ActiveRuns, Active
<1>9. ASSUME NEW p \in Policies, Recover(p)
      PROVE  BatchesOK'
  BY <1>9 DEF Recover
<1> QED
  BY <1>1, <1>2, <1>3, <1>4, <1>5, <1>6, <1>7, <1>8, <1>9, StepKinds

\* A batch that does not count any more will not count again.
LEMMA CountsShrinks ==
  ASSUME JournalOK, RequestsOK, BatchesOK, [Next]_vars
  PROVE  \A d \in Events : batch[d] # "none" /\ Counts(d)' => Counts(d)
<1> USE DEF Counts, BatchesOK, JournalOK, TypeOK, ForeignKeys, runVars, steerVars, batchVars, outboxVars
<1> DEFINE Shrink == \A d \in Events : batch[d] # "none" /\ Counts(d)' => Counts(d)
<1>1. ASSUME Quiet
      PROVE  Shrink
  <2> SUFFICES ASSUME NEW d \in Events, batch[d] # "none", Counts(d)'
               PROVE  Counts(d)
    OBVIOUS
  <2>1. /\ batchRun'[d] = batchRun[d] /\ steer'[d] = steer[d] /\ batchRun[d] \in RunIds
        /\ batch'[d] = batch[d] \/ batch[d] = "inflight"
    BY <1>1, QuietRequests
  <2>2. /\ status'[batchRun[d]] \in Active => status[batchRun[d]] \in Active
        /\ status'[batchRun[d]] \in Resumable => status[batchRun[d]] \in Resumable
    BY <1>1, <2>1, QuietRequests DEF Live, Active, Resumable
  <2> QED BY <2>1, <2>2
<1>2. ASSUME NEW e \in Events, NEW snap \in Snapshots, NEW r \in RunIds, HandleFollowUp(e, snap, r)
      PROVE  Shrink
  <2>1. batch[e] = "none"
    BY <1>2 DEF HandleFollowUp, Message, Record, RequestsOK, Recorded
  <2> QED BY <1>2, <2>1 DEF HandleFollowUp
<1>3. ASSUME NEW e \in Events, NEW snap \in Snapshots, NEW r \in RunIds, HandleRequest(e, snap, r)
      PROVE  Shrink
  <2>1. batch[e] = "none"
    BY <1>3 DEF HandleRequest, Message, Record, RequestsOK, Recorded
  <2>2. \A d \in Events : batch[d] # "none" => batchRun[d] \in RunIds /\ batchRun[d] # r
    BY <1>3 DEF HandleRequest
  <2> QED BY <1>3, <2>1, <2>2 DEF HandleRequest
<1>4. ASSUME NEW e \in Events, NEW snap \in Snapshots, CommandStop(e, snap)
      PROVE  Shrink
  BY <1>4 DEF CommandStop, SetStatus, ActiveRunsOf, ActiveRuns, Active, Resumable
<1>5. ASSUME NEW r \in RunIds, NEW e \in Events, Steered(r, e)
      PROVE  Shrink
  BY <1>5 DEF Steered, Hears, Active
<1>6. ASSUME NEW r \in RunIds, NEW s \in Terminal, Finished(r, s)
      PROVE  Shrink
  BY <1>6 DEF Finished, SetStatus, EndBatch, Active, Terminal
<1>7. ASSUME ResumePendingSteers
      PROVE  Shrink
  <2>1. PICK started \in SUBSET RunIds : Continues(started)
    BY <1>7, ResumeMoves
  <2> SUFFICES ASSUME NEW d \in Events, batch[d] # "none", Counts(d)'
               PROVE  Counts(d)
    OBVIOUS
  <2>2. CASE steer'[d] = steer[d] /\ batch'[d] = batch[d] /\ batchRun'[d] = batchRun[d]
    <3>1. status'[batchRun[d]] = status[batchRun[d]]
      BY <2>1 DEF Continues
    <3> QED BY <2>2, <3>1
  <2>3. CASE steer[d] = "pending" /\ status[steerRun[d]] \in Resumable /\ batch[d] = "pending"
    BY <2>3
  <2>4. CASE steer[d] = "pending" /\ batch[d] # "pending" /\ batch'[d] = batch[d] /\ batchRun'[d] = batchRun[d]
    <3>1. status'[batchRun[d]] = status[batchRun[d]]
      BY <2>1 DEF Continues
    <3> QED BY <2>4, <3>1
  <2> QED BY <2>1, <2>2, <2>3, <2>4 DEF Continues
<1>8. ASSUME NEW room \in Rooms, NEW snap \in Snapshots, ReconcileRoom(room, snap)
      PROVE  Shrink
  BY <1>8 DEF ReconcileRoom, SetStatus, ActiveRuns, Active, Resumable
<1>9. ASSUME NEW p \in Policies, Recover(p)
      PROVE  Shrink
  BY <1>9 DEF Recover
<1> HIDE DEF Counts, BatchesOK, JournalOK, TypeOK, ForeignKeys
<1> QED
  BY <1>1, <1>2, <1>3, <1>4, <1>5, <1>6, <1>7, <1>8, <1>9, StepKinds

\* An operation records at most one event, after all others.
LEMMA InboxGrows ==
  ASSUME JournalOK, [Next]_vars
  PROVE  inbox' = inbox \/ \E e \in Events : Arrives(e)
<1>1. ASSUME NEW e \in Events, NEW snap \in Snapshots, Record(e, snap)
      PROVE  Arrives(e)
  BY <1>1 DEF Record, Arrives
<1>2. ASSUME NEW e \in Events, NEW snap \in Snapshots, NEW r \in RunIds, HandleFollowUp(e, snap, r) \/ HandleRequest(e, snap, r)
      PROVE  Arrives(e)
  BY <1>1, <1>2 DEF HandleFollowUp, HandleRequest, Message
<1>3. ASSUME NEW e \in Events, NEW snap \in Snapshots, CommandStop(e, snap)
      PROVE  Arrives(e)
  BY <1>1, <1>3 DEF CommandStop, Command
<1>4. ASSUME NEW r \in RunIds, NEW e \in Events, Steered(r, e)
      PROVE  inbox' = inbox
  BY <1>4 DEF Steered
<1>5. ASSUME NEW r \in RunIds, NEW s \in Terminal, Finished(r, s)
      PROVE  inbox' = inbox
  BY <1>5 DEF Finished
<1>6. ASSUME ResumePendingSteers
      PROVE  inbox' = inbox
  BY <1>6 DEF ResumePendingSteers
<1>7. ASSUME NEW room \in Rooms, NEW snap \in Snapshots, ReconcileRoom(room, snap)
      PROVE  inbox' = inbox
  BY <1>7 DEF ReconcileRoom
<1>8. ASSUME NEW p \in Policies, Recover(p)
      PROVE  inbox' = inbox
  BY <1>8 DEF Recover
<1> QED BY <1>2, <1>3, <1>4, <1>5, <1>6, <1>7, <1>8, StepKinds DEF Quiet

\* What a step records is kept, in the order of receipt.
LEMMA OrderKept ==
  ASSUME JournalOK, InboxOnce, [Next]_vars
  PROVE  /\ Received \subseteq Received'
         /\ \A d, x \in Events : x \in Received => (NoLater(d, x)' <=> NoLater(d, x))
<1>1. CASE inbox' = inbox
  BY <1>1 DEF Received, NoLater
<1> QED BY <1>1, InboxGrows, ArrivalIsLast

\* What was received before an event is recorded comes before it.
LEMMA ReceivedBefore ==
  ASSUME JournalOK, NEW e \in Events, Arrives(e), NEW d \in Received
  PROVE  NoLater(d, e)'
<1>1. inbox \in Seq(Events) /\ inbox' = Append(inbox, e)
  BY DEF JournalOK, TypeOK, Arrives
<1>2. /\ Len(inbox) \in Nat /\ DOMAIN inbox = 1..Len(inbox) /\ DOMAIN inbox' = 1..(Len(inbox) + 1)
      /\ \A i \in 1..Len(inbox) : inbox'[i] = inbox[i]
      /\ inbox'[Len(inbox) + 1] = e
  BY <1>1
<1>3. PICK i \in 1..Len(inbox) : inbox[i] = d
  BY <1>2 DEF Received
<1>4. i \in DOMAIN inbox' /\ Len(inbox) + 1 \in DOMAIN inbox' /\ i <= Len(inbox) + 1
  BY <1>2
<1> QED BY <1>2, <1>3, <1>4 DEF NoLater

\* Batches are staged by follow-ups and requests.
LEMMA StagingStep ==
  ASSUME JournalOK, [Next]_vars, NEW e \in Staged
  PROVE  \E snap \in Snapshots, r \in RunIds : HandleFollowUp(e, snap, r) \/ HandleRequest(e, snap, r)
<1> USE DEF Staged, JournalOK, TypeOK, batchVars
<1>1. ASSUME Quiet
      PROVE  FALSE
  BY <1>1, QuietRequests
<1>2. ASSUME NEW x \in Events, NEW snap \in Snapshots, NEW r \in RunIds, HandleFollowUp(x, snap, r) \/ HandleRequest(x, snap, r)
      PROVE  x = e
  BY <1>2 DEF HandleFollowUp, HandleRequest
<1>3. ASSUME NEW x \in Events, NEW snap \in Snapshots, CommandStop(x, snap)
      PROVE  FALSE
  BY <1>3 DEF CommandStop
<1>4. ASSUME NEW r \in RunIds, NEW x \in Events, Steered(r, x)
      PROVE  FALSE
  BY <1>4 DEF Steered
<1>5. ASSUME NEW r \in RunIds, NEW s \in Terminal, Finished(r, s)
      PROVE  FALSE
  BY <1>5 DEF Finished, EndBatch
<1>6. ASSUME ResumePendingSteers
      PROVE  FALSE
  BY <1>6, ResumeMoves DEF Continues
<1>7. ASSUME NEW room \in Rooms, NEW snap \in Snapshots, ReconcileRoom(room, snap)
      PROVE  FALSE
  BY <1>7 DEF ReconcileRoom
<1>8. ASSUME NEW p \in Policies, Recover(p)
      PROVE  FALSE
  BY <1>8 DEF Recover
<1> HIDE DEF Staged, JournalOK, TypeOK
<1> QED BY <1>1, <1>2, <1>3, <1>4, <1>5, <1>6, <1>7, <1>8, StepKinds

\* The one message that is staged has just arrived; other batches stay.
LEMMA StagesOne ==
  ASSUME JournalOK, RequestsOK, [Next]_vars, NEW e \in Staged
  PROVE  /\ e \in Events /\ Arrives(e) /\ batch[e] = "none"
         /\ \A d \in Events : d # e => batch'[d] = batch[d] /\ d \notin Staged
         /\ ~Counts(e) /\ Received' = Received \cup {e}
<1>1. PICK snap \in Snapshots, r \in RunIds : HandleFollowUp(e, snap, r) \/ HandleRequest(e, snap, r)
  BY StagingStep
<1>2. e \in Events /\ batch[e] = "none"
  BY DEF Staged
<1>3. Arrives(e)
  BY <1>1 DEF HandleFollowUp, HandleRequest, Message, Record, Arrives
<1>4. \A d \in Events : d # e => batch'[d] = batch[d] /\ d \notin Staged
  BY <1>1 DEF HandleFollowUp, HandleRequest, Staged, JournalOK, TypeOK
<1> QED BY <1>2, <1>3, <1>4, ArrivalIsLast DEF Counts, RequestsOK

\* A step of the ledger is a step of the journal, which fills the batches it stages.
LEMMA Contents ==
  ASSUME [LedgerNext]_ledgerVars
  PROVE  /\ [Next]_vars
         /\ \A e \in Events :
              IF e \in Staged
              THEN /\ lines'[e] = (History[e] \ Known(ConvOf[e])) \cup {e}
                   /\ baseline'[e] = ~Introduced(ConvOf[e])
                   /\ stagedIn'[e] = batchRun'[e]
              ELSE lines'[e] = lines[e] /\ baseline'[e] = baseline[e] /\ stagedIn'[e] = stagedIn[e]
<1>1. CASE LedgerNext
  BY <1>1 DEF LedgerNext, Stage
<1>2. CASE UNCHANGED ledgerVars
  BY <1>2 DEF ledgerVars, contentVars, vars, batchVars, Staged
<1> QED BY <1>1, <1>2

\* A delta has no line of a batch that may still be confirmed, but its own message.
LEMMA NextApart ==
  ASSUME JournalOK, RequestsOK, BatchesOK, Apart, [LedgerNext]_ledgerVars
  PROVE  Apart'
<1>0. [Next]_vars
  BY Contents
<1>1. \A d \in Events : d \notin Staged /\ Counts(d)' => Counts(d) /\ batch[d] # "none" /\ d \in Received
  BY <1>0, CountsShrinks DEF Staged, Counts, RequestsOK, Recorded
<1> SUFFICES ASSUME NEW d \in Events, NEW e \in Events, d # e, ConvOf[d] = ConvOf[e], Counts(d)', Counts(e)', NoLater(d, e)'
             PROVE  lines'[d] \cap lines'[e] \subseteq {e} /\ ~(baseline'[d] /\ baseline'[e])
  BY DEF Apart
<1>2. CASE d \notin Staged /\ e \in Staged
  <2>1. d \in CountedIn(ConvOf[e])
    BY <1>1, <1>2 DEF CountedIn
  <2>2. lines[d] \subseteq Known(ConvOf[e]) /\ (baseline[d] => Introduced(ConvOf[e]))
    BY <2>1 DEF Known, Introduced
  <2>3. /\ lines'[d] = lines[d] /\ baseline'[d] = baseline[d]
        /\ lines'[e] = (History[e] \ Known(ConvOf[e])) \cup {e} /\ baseline'[e] = ~Introduced(ConvOf[e])
    BY <1>2, Contents
  <2> QED BY <2>2, <2>3
<1>3. CASE d \notin Staged /\ e \notin Staged
  <2>1. Counts(d) /\ Counts(e) /\ NoLater(d, e)
    BY <1>0, <1>1, <1>3, OrderKept DEF RequestsOK
  <2> QED BY <1>3, <2>1, Contents DEF Apart
<1>4. CASE d \in Staged
  <2>1. Arrives(d) /\ e \notin Staged
    BY <1>0, <1>4, StagesOne
  <2>2. e \in Received
    BY <1>1, <2>1
  <2>3. NoLater(d, e)
    BY <2>1, <2>2, ArrivalIsLast DEF RequestsOK
  <2>4. d \in Received
    BY <2>3 DEF NoLater, Received
  <2> QED BY <2>1, <2>4 DEF Arrives
<1> QED BY <1>2, <1>3, <1>4

-----------------------------------------------------------------------------
(* Theorems about the specification *)

\* The inductive invariant of LinesOnce.
LinesOK == BatchesOK /\ Apart

\* What is proved of the journal holds of it with its lines.
LEMMA LedgerJournal == LedgerSpec => Spec
<1>1. LedgerInit => Init
  BY DEF LedgerInit
<1>2. [LedgerNext]_ledgerVars => [Next]_vars
  BY Contents
<1> QED BY <1>1, <1>2, PTL DEF LedgerSpec, Spec

\* What batches contain follows the journal: of those that may be confirmed, the
\* later adds to the earlier.
THEOREM LinesCorrect == LedgerSpec => []LinesOK
<1>1. LedgerInit => LinesOK
  BY NoneAssumption DEF LedgerInit, Init, LinesOK, BatchesOK, Apart, Counts
<1>2. JournalOK /\ RequestsOK /\ LinesOK /\ [LedgerNext]_ledgerVars => LinesOK'
  BY Contents, NextBatches, NextApart DEF LinesOK
<1> QED BY <1>1, <1>2, LedgerJournal, JournalCorrect, RequestsCorrect, PTL DEF LedgerSpec

\* LinesOnce of ContextLedger: a confirmed message is given no line that one before
\* it was given, but its own, and no session is introduced twice.
THEOREM LinesOnceCorrect == LedgerSpec => []LinesOnce
<1>1. LinesOK => LinesOnce
  BY DEF LinesOK, Apart, LinesOnce, Counts
<1> QED BY <1>1, LinesCorrect, PTL

-----------------------------------------------------------------------------
(* What a batch leaves to others *)

\* A batch belongs to a run of its conversation, and one that waits is still
\* where it was staged.
StagedOK ==
  \A d \in Events :
    batch[d] # "none" =>
      /\ owner[batchRun[d]] = ConvOf[d]
      /\ stagedIn[d] \in RunIds
      /\ batch[d] = "pending" => stagedIn[d] = batchRun[d]

\* Batch d is to be confirmed no later than that of e: both belong to the same
\* run, and d is sent before e.
Follows(d, e) ==
  /\ Counts(d) /\ batchRun[d] = batchRun[e] /\ NoLater(d, e)
  /\ batch[d] \in {"pending", "inflight"} /\ batch[e] \in {"pending", "inflight"}
  /\ batch[e] = "inflight" => batch[d] = "inflight"

\* The batches that may hold what the delta of e left out.
Covers(e) ==
  {d \in Events :
     /\ ConvOf[d] = ConvOf[e] /\ batch[d] # "none"
     /\ d = e \/ batch[d] = "delivered" \/ d \in Dropped(stagedIn[e]) \/ Follows(d, e)}

\* The batches that cover a message that may be confirmed make up its context.
Complete ==
  \A e \in Events :
    Counts(e) =>
      /\ History[e] \subseteq UNION {lines[d] : d \in Covers(e)}
      /\ \E d \in Covers(e) : baseline[d]

\* Runs are created by requests and by continuations.
LEMMA StepCreates ==
  ASSUME JournalOK, [Next]_vars
  PROVE  \/ CreatesNone
         \/ ResumePendingSteers
         \/ \E e \in Events, snap \in Snapshots, r \in RunIds : HandleRequest(e, snap, r)
<1> USE DEF CreatesNone, JournalOK, TypeOK, runVars
<1>1. ASSUME Quiet
      PROVE  CreatesNone
  BY <1>1, QuietRequests DEF Live
<1>2. ASSUME NEW e \in Events, NEW snap \in Snapshots, NEW r \in RunIds, HandleFollowUp(e, snap, r)
      PROVE  CreatesNone
  BY <1>2 DEF HandleFollowUp
<1>3. ASSUME NEW e \in Events, NEW snap \in Snapshots, CommandStop(e, snap)
      PROVE  CreatesNone
  BY <1>3 DEF CommandStop, SetStatus, ActiveRunsOf, ActiveRuns, Active
<1>4. ASSUME NEW r \in RunIds, NEW e \in Events, Steered(r, e)
      PROVE  CreatesNone
  BY <1>4 DEF Steered
<1>5. ASSUME NEW r \in RunIds, NEW s \in Terminal, Finished(r, s)
      PROVE  CreatesNone
  BY <1>5 DEF Finished, SetStatus, Active
<1>6. ASSUME NEW room \in Rooms, NEW snap \in Snapshots, ReconcileRoom(room, snap)
      PROVE  CreatesNone
  BY <1>6 DEF ReconcileRoom, SetStatus, ActiveRuns, Active
<1>7. ASSUME NEW p \in Policies, Recover(p)
      PROVE  CreatesNone
  BY <1>7 DEF Recover, SetStatus, ActiveRuns, Active
<1> HIDE DEF CreatesNone, JournalOK, TypeOK
<1> QED BY <1>1, <1>2, <1>3, <1>4, <1>5, <1>6, <1>7, StepKinds

\* Follow-ups wait alone, for a message becomes a request only after they were
\* continued.
LEMMA NextWaitsAlone ==
  ASSUME JournalOK, RequestsOK, OneActiveRun, PendingBound, WaitsAlone, [LedgerNext]_ledgerVars
  PROVE  WaitsAlone'
<1>0. [Next]_vars
  BY Contents
<1>1. CASE CreatesNone
  BY <1>0, <1>1, OccupiedShrinks DEF CreatesNone, Shrinks
<1>2. CASE ResumePendingSteers
  BY <1>2, ResumeClears DEF NoneWaits, WaitsAlone
<1>3. ASSUME NEW e \in Events, NEW snap \in Snapshots, NEW r \in RunIds, HandleRequest(e, snap, r)
      PROVE  WaitsAlone'
  <2>1. /\ batch[e] = "none" /\ batch'[e] = "inflight"
        /\ status' = [status EXCEPT ![r] = "queued"] /\ owner' = [owner EXCEPT ![r] = ConvOf[e]]
        /\ steer' = steer /\ steerRun' = steerRun /\ status[r] = "none"
    BY <1>3 DEF HandleRequest, Message, Record, RequestsOK, Recorded, JournalOK, TypeOK, steerVars
  <2>2. LedgerNext
    BY <2>1 DEF ledgerVars, vars, batchVars
  <2>3. PendingSteers(ConvOf[e], Resumable) = {}
    BY <2>1, <2>2 DEF LedgerNext, OlderContinueFirst, Staged
  <2>4. \A d \in Events : Waiting(d)' =>
          Waiting(d) /\ steerRun[d] \in RunIds /\ steerRun[d] # r /\ owner[steerRun[d]] # ConvOf[e]
    BY <2>1, <2>3 DEF Waiting, PendingSteers, JournalOK, TypeOK, ForeignKeys, Resumable
  <2>5. \A q \in RunIds : status'[q] \in Active => q = r \/ status[q] \in Active
    BY <2>1 DEF JournalOK, TypeOK
  <2>6. owner'[r] = ConvOf[e] /\ \A q \in RunIds : q # r => owner'[q] = owner[q]
    BY <2>1 DEF JournalOK, TypeOK
  <2> QED BY <2>1, <2>4, <2>5, <2>6 DEF WaitsAlone
<1> QED BY <1>0, <1>1, <1>2, <1>3, StepCreates

\* A batch moves only to the run that continues its follow-up, and is sent then.
LEMMA BatchStays ==
  ASSUME JournalOK, RequestsOK, BatchesOK, [Next]_vars, NEW d \in Events, batch[d] # "none"
  PROVE  /\ batch'[d] # "none" /\ owner'[batchRun[d]] = owner[batchRun[d]]
         /\ \/ batchRun'[d] = batchRun[d] /\ (batch'[d] = "pending" => batch[d] = "pending")
            \/ /\ batch[d] = "pending" /\ batch'[d] = "inflight"
               /\ batchRun'[d] \in RunIds /\ owner'[batchRun'[d]] = owner[batchRun[d]]
<1> DEFINE Stays == /\ batch'[d] # "none" /\ batchRun'[d] = batchRun[d] /\ (batch'[d] = "pending" => batch[d] = "pending")
                    /\ owner'[batchRun[d]] = owner[batchRun[d]]
<1> USE DEF JournalOK, TypeOK, ForeignKeys, runVars, batchVars
<1>1. ASSUME Quiet
      PROVE  Stays
  BY <1>1, QuietRequests
<1>2. ASSUME NEW e \in Events, NEW snap \in Snapshots, NEW r \in RunIds, HandleFollowUp(e, snap, r)
      PROVE  Stays
  BY <1>2 DEF HandleFollowUp, Message, Record, RequestsOK, Recorded
<1>3. ASSUME NEW e \in Events, NEW snap \in Snapshots, NEW r \in RunIds, HandleRequest(e, snap, r)
      PROVE  Stays
  BY <1>3 DEF HandleRequest, Message, Record, RequestsOK, Recorded
<1>4. ASSUME NEW e \in Events, NEW snap \in Snapshots, CommandStop(e, snap)
      PROVE  Stays
  BY <1>4 DEF CommandStop
<1>5. ASSUME NEW r \in RunIds, NEW e \in Events, Steered(r, e)
      PROVE  Stays
  BY <1>5 DEF Steered
<1>6. ASSUME NEW r \in RunIds, NEW s \in Terminal, Finished(r, s)
      PROVE  Stays
  BY <1>6 DEF Finished, EndBatch
<1>7. CASE ResumePendingSteers
  <2>1. PICK started \in SUBSET RunIds : Continues(started)
    BY <1>7, ResumeMoves
  <2>2. batchRun[d] \in RunIds /\ status[batchRun[d]] # "none"
    OBVIOUS
  <2>3. owner'[batchRun[d]] = owner[batchRun[d]]
    BY <2>1, <2>2 DEF Continues
  <2>4. batch[d] = "pending" => steerRun[d] = batchRun[d]
    BY DEF BatchesOK
  <2>5. CASE batch'[d] = batch[d] /\ batchRun'[d] = batchRun[d]
    BY <2>3, <2>5
  <2>6. CASE /\ batch[d] = "pending" /\ batch'[d] = "inflight" /\ batchRun'[d] = steerRun'[d]
             /\ steerRun'[d] \in started /\ owner'[steerRun'[d]] = owner[steerRun[d]]
    BY <2>3, <2>4, <2>6
  <2> QED BY <2>1, <2>5, <2>6 DEF Continues
<1>8. ASSUME NEW room \in Rooms, NEW snap \in Snapshots, ReconcileRoom(room, snap)
      PROVE  Stays
  BY <1>8 DEF ReconcileRoom
<1>9. ASSUME NEW p \in Policies, Recover(p)
      PROVE  Stays
  BY <1>9 DEF Recover
<1> HIDE DEF JournalOK, TypeOK, ForeignKeys
<1> QED BY <1>1, <1>2, <1>3, <1>4, <1>5, <1>6, <1>7, <1>8, <1>9, StepKinds

\* StagedOK is kept.
LEMMA NextStaged ==
  ASSUME JournalOK, RequestsOK, BatchesOK, StagedOK, [LedgerNext]_ledgerVars
  PROVE  StagedOK'
<1>0. [Next]_vars
  BY Contents
<1> SUFFICES ASSUME NEW d \in Events, batch'[d] # "none"
             PROVE  /\ owner'[batchRun'[d]] = ConvOf[d]
                    /\ stagedIn'[d] \in RunIds
                    /\ batch'[d] = "pending" => stagedIn'[d] = batchRun'[d]
  BY DEF StagedOK
<1>1. CASE batch[d] # "none"
  <2>1. stagedIn'[d] = stagedIn[d]
    BY <1>1, Contents DEF Staged
  <2> QED BY <1>0, <1>1, <2>1, BatchStays DEF StagedOK
<1>2. CASE batch[d] = "none"
  <2>1. d \in Staged
    BY <1>2 DEF Staged
  <2>2. PICK snap \in Snapshots, r \in RunIds : HandleFollowUp(d, snap, r) \/ HandleRequest(d, snap, r)
    BY <1>0, <2>1, StagingStep
  <2>3. batchRun'[d] = r /\ owner'[r] = ConvOf[d]
    BY <2>2 DEF HandleFollowUp, HandleRequest, ActiveRunsOf, ActiveRuns, runVars, JournalOK, TypeOK
  <2>4. stagedIn'[d] = batchRun'[d]
    BY <2>1, Contents
  <2> QED BY <2>3, <2>4
<1> QED BY <1>1, <1>2

\* A confirmed batch stays confirmed.
LEMMA DeliveredStays ==
  ASSUME JournalOK, RequestsOK, [Next]_vars, NEW d \in Events, batch[d] = "delivered"
  PROVE  batch'[d] = "delivered"
<1> USE DEF JournalOK, TypeOK, batchVars
<1>1. ASSUME Quiet
      PROVE  batch'[d] = "delivered"
  BY <1>1, QuietRequests
<1>2. ASSUME NEW e \in Events, NEW snap \in Snapshots, NEW r \in RunIds, HandleFollowUp(e, snap, r) \/ HandleRequest(e, snap, r)
      PROVE  batch'[d] = "delivered"
  BY <1>2 DEF HandleFollowUp, HandleRequest, Message, Record, RequestsOK, Recorded
<1>3. ASSUME NEW e \in Events, NEW snap \in Snapshots, CommandStop(e, snap)
      PROVE  batch'[d] = "delivered"
  BY <1>3 DEF CommandStop
<1>4. ASSUME NEW r \in RunIds, NEW e \in Events, Steered(r, e)
      PROVE  batch'[d] = "delivered"
  BY <1>4 DEF Steered
<1>5. ASSUME NEW r \in RunIds, NEW s \in Terminal, Finished(r, s)
      PROVE  batch'[d] = "delivered"
  BY <1>5 DEF Finished, EndBatch
<1>6. ASSUME ResumePendingSteers
      PROVE  batch'[d] = "delivered"
  BY <1>6, ResumeMoves DEF Continues
<1>7. ASSUME NEW room \in Rooms, NEW snap \in Snapshots, ReconcileRoom(room, snap)
      PROVE  batch'[d] = "delivered"
  BY <1>7 DEF ReconcileRoom
<1>8. ASSUME NEW p \in Policies, Recover(p)
      PROVE  batch'[d] = "delivered"
  BY <1>8 DEF Recover
<1> HIDE DEF JournalOK, TypeOK
<1> QED BY <1>1, <1>2, <1>3, <1>4, <1>5, <1>6, <1>7, <1>8, StepKinds

\* What has been dropped stays dropped.
LEMMA DroppedStays ==
  ASSUME JournalOK, RequestsOK, BatchesOK, StagedOK, [LedgerNext]_ledgerVars,
         NEW r \in RunIds, NEW d \in Dropped(r), batch[d] # "none"
  PROVE  d \in Dropped(r)'
<1>0. [Next]_vars
  BY Contents
<1>1. d \in Events /\ r \in {stagedIn[d], batchRun[d]} /\ (status[r] = "cancelled" \/ steer[d] = "cancelled")
  BY DEF Dropped
<1>2. stagedIn'[d] = stagedIn[d]
  BY <1>1, Contents DEF Staged
<1>3. batchRun'[d] = batchRun[d] \/ stagedIn[d] = batchRun[d]
  BY <1>0, <1>1, BatchStays DEF StagedOK
<1>4. status[r] = "cancelled" => status'[r] = "cancelled"
  BY <1>0, NextRunsStep DEF RunsStep, Life!NextStatus, JournalOK, TypeOK
<1>5. steer[d] = "cancelled" => steer'[d] = "cancelled"
  BY <1>0, <1>1, SteersStep DEF SettlesOnce, RequestsOK
<1> QED BY <1>1, <1>2, <1>3, <1>4, <1>5 DEF Dropped

\* A batch that is to be confirmed first is, or is dropped in time.
LEMMA FollowsKept ==
  ASSUME AfterTurn, JournalOK, RequestsOK, OneActiveRun, PendingBound, WaitsAlone, BatchesOK, StagedOK,
         [LedgerNext]_ledgerVars,
         NEW e \in Events, NEW d \in Events, d # e, Follows(d, e), Counts(e)'
  PROVE  batch'[d] = "delivered" \/ d \in Dropped(stagedIn[e])' \/ Follows(d, e)'
<1> DEFINE Kept == batch'[d] = "delivered" \/ Follows(d, e)'
<1>0. [Next]_vars
  BY Contents
<1>1. /\ Counts(d) /\ batchRun[d] = batchRun[e] /\ NoLater(d, e)
      /\ batch[d] \in {"pending", "inflight"} /\ batch[e] \in {"pending", "inflight"}
      /\ batch[e] = "inflight" => batch[d] = "inflight"
  BY DEF Follows
<1>2. Counts(e)
  BY <1>0, <1>1, CountsShrinks
<1>3. NoLater(d, e)'
  BY <1>0, <1>1, OrderKept DEF RequestsOK, Recorded
<1>4. /\ batchRun[d] \in RunIds /\ status[batchRun[d]] # "none"
      /\ \A x \in {d, e} : /\ batch[x] = "inflight" => status[batchRun[x]] \in Active
                           /\ batch[x] = "pending" => steerRun[x] = batchRun[x] /\ steer[x] \in {"pending", "cancelled"}
  BY <1>1 DEF BatchesOK, JournalOK, TypeOK, ForeignKeys
<1>5. /\ ConvOf[d] = owner[batchRun[d]] /\ ConvOf[e] = owner[batchRun[e]]
      /\ batch[e] = "pending" => stagedIn[e] = batchRun[e]
  BY <1>1 DEF StagedOK
<1> USE DEF Counts, JournalOK, TypeOK, ForeignKeys, runVars, steerVars, batchVars
<1>6. ASSUME Quiet
      PROVE  Kept
  <2>1. /\ steer' = steer /\ steerRun' = steerRun /\ batchRun' = batchRun
        /\ batch' = batch \/ \E r \in RunIds : batch' = Observe(r)
    BY <1>6, QuietRequests DEF Quiet
  <2>2. /\ status[batchRun[d]] \in Active => status'[batchRun[d]] \in Active
        /\ status[batchRun[d]] \in Resumable => status'[batchRun[d]] \in Resumable
    BY <1>4, <1>6, QuietRequests DEF Live, Active, Resumable
  <2>3. CASE batch' = batch
    BY <1>1, <1>3, <2>1, <2>2, <2>3 DEF Follows
  <2>4. ASSUME NEW r \in RunIds, batch' = Observe(r)
        PROVE  Kept
    BY <1>1, <1>3, <2>1, <2>2, <2>4 DEF Follows, Observe
  <2> QED BY <2>1, <2>3, <2>4
<1>7. ASSUME NEW x \in Events, NEW snap \in Snapshots, NEW r \in RunIds, HandleFollowUp(x, snap, r)
      PROVE  Kept
  <2>1. x # d /\ x # e
    BY <1>1, <1>7 DEF HandleFollowUp, Message, Record, RequestsOK, Recorded
  <2> QED BY <1>1, <1>3, <1>7, <2>1 DEF HandleFollowUp, Follows
<1>8. ASSUME NEW x \in Events, NEW snap \in Snapshots, NEW r \in RunIds, HandleRequest(x, snap, r)
      PROVE  Kept
  <2>1. x # d /\ x # e
    BY <1>1, <1>8 DEF HandleRequest, Message, Record, RequestsOK, Recorded
  <2>2. batchRun[d] # r
    BY <1>4, <1>8 DEF HandleRequest
  <2> QED BY <1>1, <1>3, <1>8, <2>1, <2>2 DEF HandleRequest, Follows
<1>9. ASSUME NEW x \in Events, NEW snap \in Snapshots, CommandStop(x, snap)
      PROVE  Kept
  <2>1. /\ batchRun' = batchRun /\ steerRun' = steerRun
        /\ \A y \in {d, e} : batch'[y] = IF batch[y] = "pending" /\ ConvOf[y] = ConvOf[x] THEN "abandoned" ELSE batch[y]
    BY <1>9 DEF CommandStop
  <2>2. batch'[e] # "abandoned"
    OBVIOUS
  <2>3. batch'[e] = batch[e] /\ batch'[d] = batch[d]
    BY <1>1, <1>5, <2>1, <2>2
  <2>4. batch[d] = "pending" => ConvOf[d] # ConvOf[x]
    BY <2>1, <2>3
  <2>5. batch[d] = "pending" => steer'[d] = steer[d]
    BY <1>4, <1>5, <1>9, <2>4 DEF CommandStop, DroppedByStop, PendingSteers
  <2>6. status'[batchRun[d]] = status[batchRun[d]] \/ (status[batchRun[d]] \in Active /\ status'[batchRun[d]] \in Active)
    BY <1>4, <1>9 DEF CommandStop, SetStatus, ActiveRunsOf, ActiveRuns, Active
  <2>7. Counts(d)'
    BY <1>1, <1>4, <2>1, <2>3, <2>5, <2>6
  <2> QED BY <1>1, <1>3, <2>1, <2>3, <2>7 DEF Follows
<1>10. ASSUME NEW r \in RunIds, NEW x \in Events, Steered(r, x)
       PROVE  Kept
  <2>1. /\ status' = status /\ batchRun' = batchRun /\ steerRun' = steerRun /\ status[r] \in Live \cap Active
        /\ \A y \in {d, e} : batch'[y] = IF y = x /\ batch[y] = "pending" /\ batchRun[y] = r THEN "inflight" ELSE batch[y]
        /\ \A y \in {d, e} : steer'[y] = IF y = x /\ steer[y] = "pending" /\ steerRun[y] = r THEN "delivered" ELSE steer[y]
    BY <1>10 DEF Steered, Hears, Live, Active
  <2>2. Counts(d)'
    BY <1>1, <1>4, <2>1 DEF Active, Resumable, Live
  <2>3. batch'[e] = "inflight" => batch'[d] = "inflight"
    <3>1. CASE batch[d] = "inflight"
      BY <2>1, <3>1
    <3>2. CASE batch[d] = "pending" /\ e = x /\ batchRun[e] = r
      <4>1. batch[e] = "pending"
        BY <1>1, <3>2
      <4>2. /\ steer[e] = "pending" /\ steerRun[e] = r
            /\ steer[d] = "pending" /\ steerRun[d] = r
        BY <1>1, <2>1, <3>2, <4>1 DEF PendingTogether, RequestsOK
      <4>3. steer'[e] = "delivered" /\ steer'[d] = "pending"
        BY <2>1, <3>2, <4>2
      <4>4. LedgerNext
        BY <4>2, <4>3 DEF ledgerVars, vars
      <4> QED BY <1>1, <4>2, <4>3, <4>4 DEF LedgerNext, ReportsInOrder
    <3>3. CASE batch[d] = "pending" /\ ~(e = x /\ batchRun[e] = r)
      BY <1>1, <2>1, <3>3
    <3> QED BY <1>1, <3>1, <3>2, <3>3
  <2> QED BY <1>1, <1>3, <2>1, <2>2, <2>3 DEF Follows
<1>11. ASSUME NEW r \in RunIds, NEW s \in Terminal, Finished(r, s)
       PROVE  Kept \/ d \in Dropped(stagedIn[e])'
  <2>1. /\ batchRun' = batchRun /\ steer' = steer /\ steerRun' = steerRun /\ status[r] \in Active
        /\ \A y \in {d, e} : batch'[y] = IF batchRun[y] = r THEN EndBatch(batch[y], s) ELSE batch[y]
        /\ \A q \in RunIds : status'[q] = IF q = r THEN s ELSE status[q]
    BY <1>11 DEF Finished, SetStatus
  <2>2. CASE batchRun[d] # r
    BY <1>1, <1>3, <1>4, <2>1, <2>2 DEF Follows
  <2>3. CASE batchRun[d] = r /\ batch[e] = "inflight"
    BY <1>1, <2>1, <2>3 DEF EndBatch, Terminal, Active
  <2>4. CASE batchRun[d] = r /\ batch[e] = "pending"
    <3>1. s \in {"completed", "cancelled"} /\ batch'[e] = "pending"
      BY <1>1, <2>1, <2>4 DEF EndBatch, Terminal
    <3>2. stagedIn'[e] = r
      BY <1>5, <2>4, <1>1, Contents DEF Staged
    <3>3. CASE batch[d] = "pending" /\ steer[d] = "pending"
      <4>1. batch'[d] = "pending" /\ Counts(d)'
        BY <1>4, <2>1, <2>4, <3>1, <3>3 DEF EndBatch, Resumable
      <4> QED BY <1>1, <1>3, <2>1, <3>1, <4>1 DEF Follows
    <3>4. CASE steer[d] = "cancelled"
      BY <2>1, <2>4, <3>2, <3>4 DEF Dropped
    <3>5. CASE batch[d] = "inflight" /\ s = "cancelled"
      BY <2>1, <2>4, <3>2, <3>5 DEF Dropped
    <3>6. CASE batch[d] = "inflight" /\ s = "completed"
      BY <2>1, <2>4, <3>6 DEF EndBatch
    <3> QED BY <1>1, <1>4, <3>1, <3>3, <3>4, <3>5, <3>6
  <2> QED BY <1>1, <2>2, <2>3, <2>4
<1>12. CASE ResumePendingSteers
  <2>1. PICK started \in SUBSET RunIds : Continues(started)
    BY <1>12, ResumeMoves
  <2>2. NoneWaits' /\ OneActiveRun'
    BY <1>0, <1>12, ResumeClears, NextOneActive
  <2>3. status'[batchRun[d]] = status[batchRun[d]] /\ owner'[batchRun[d]] = owner[batchRun[d]]
    BY <1>4, <2>1 DEF Continues
  <2>4. CASE status[batchRun[d]] \in Active
    <3>1. \A y \in {d, e} : batch'[y] = batch[y] /\ batchRun'[y] = batchRun[y]
      BY <1>1, <1>4, <2>1, <2>4 DEF Continues, Active, Resumable
    <3> QED BY <1>1, <1>3, <2>3, <2>4, <3>1 DEF Follows
  <2>5. CASE status[batchRun[d]] \notin Active
    <3>1. \A y \in {d, e} : batch[y] = "pending" /\ steer[y] = "pending" /\ steerRun[y] = batchRun[d] /\ status[steerRun[y]] \in Resumable
      BY <1>1, <1>2, <1>4, <2>5
    <3>2. ASSUME NEW y \in {d, e}
          PROVE  /\ batch'[y] = "inflight" /\ batchRun'[y] \in started
                 /\ owner'[batchRun'[y]] = owner[batchRun[d]]
      <4>1. y \in Events /\ steer[y] = "pending" /\ steerRun[y] = batchRun[d] /\ batch[y] = "pending" /\ status[batchRun[d]] \in Resumable
        BY <3>1
      <4>2. ~(steer'[y] = steer[y] /\ steerRun'[y] = steerRun[y])
        BY <2>2, <2>3, <4>1 DEF NoneWaits, Waiting
      <4>3. /\ steerRun'[y] \in started /\ owner'[steerRun'[y]] = owner[steerRun[y]]
            /\ batch'[y] = "inflight" /\ batchRun'[y] = steerRun'[y]
        BY <2>1, <4>1, <4>2 DEF Continues
      <4> QED BY <4>1, <4>3
    <3>3. \A q \in started : q \in RunIds /\ status'[q] \in Active
      BY <2>1 DEF Continues, Active
    <3>4. batchRun'[d] = batchRun'[e]
      BY <2>2, <3>2, <3>3 DEF OneActiveRun
    <3>5. Counts(d)'
      BY <3>2, <3>3
    <3> QED BY <1>3, <3>2, <3>4, <3>5 DEF Follows
  <2> QED BY <2>4, <2>5
<1>13. ASSUME NEW room \in Rooms, NEW snap \in Snapshots, ReconcileRoom(room, snap)
       PROVE  Kept
  <2>1. /\ batch' = batch /\ batchRun' = batchRun /\ steerRun' = steerRun
        /\ \A y \in {d, e} : steer'[y] = IF steer[y] = "pending" /\ steerRun[y] \in Revoked(room, snap) THEN "cancelled" ELSE steer[y]
        /\ \A q \in RunIds : status'[q] = status[q] \/ (status[q] \in Active /\ status'[q] \in Active)
    BY <1>13 DEF ReconcileRoom, SetStatus, ActiveRuns, Active
  <2>2. CASE status[batchRun[d]] \in Active
    <3>1. Counts(d)'
      BY <1>1, <1>4, <2>1, <2>2
    <3> QED BY <1>1, <1>3, <2>1, <3>1 DEF Follows
  <2>3. CASE status[batchRun[d]] \notin Active
    <3>1. status'[batchRun[d]] = status[batchRun[d]]
      BY <1>4, <2>1, <2>3
    <3>2. batch[e] = "pending" /\ steer'[e] = "pending" /\ steerRun[e] = batchRun[d]
      BY <1>1, <1>4, <2>1, <2>3, <3>1
    <3>3. batch[d] = "pending" /\ steer[d] = "pending" /\ steerRun[d] = batchRun[d] /\ status[batchRun[d]] \in Resumable
      BY <1>1, <1>4, <2>3
    <3>4. steer'[d] = "pending"
      BY <2>1, <3>2, <3>3
    <3>5. Counts(d)'
      BY <2>1, <3>1, <3>3, <3>4
    <3> QED BY <1>1, <1>3, <2>1, <3>5 DEF Follows
  <2> QED BY <2>2, <2>3
<1>14. ASSUME NEW p \in Policies, Recover(p)
       PROVE  Kept
  BY <1>1, <1>14 DEF Recover
<1> HIDE DEF Counts, JournalOK, TypeOK, ForeignKeys
<1> QED BY <1>0, <1>6, <1>7, <1>8, <1>9, <1>10, <1>11, <1>12, <1>13, <1>14, StepKinds

\* What covers a message goes on to cover it.
LEMMA CoverKept ==
  ASSUME AfterTurn, JournalOK, RequestsOK, OneActiveRun, PendingBound, WaitsAlone, BatchesOK, StagedOK,
         [LedgerNext]_ledgerVars,
         NEW e \in Events, batch[e] # "none", Counts(e)', NEW d \in Covers(e)
  PROVE  d \in Covers(e)'
<1>0. [Next]_vars
  BY Contents
<1>1. /\ d \in Events /\ ConvOf[d] = ConvOf[e] /\ batch[d] # "none"
      /\ d = e \/ batch[d] = "delivered" \/ d \in Dropped(stagedIn[e]) \/ Follows(d, e)
  BY DEF Covers
<1>2. batch'[d] # "none"
  BY <1>0, <1>1, BatchStays
<1>3. batch[d] = "delivered" => batch'[d] = "delivered"
  BY <1>0, <1>1, DeliveredStays
<1>4. d \in Dropped(stagedIn[e]) => d \in Dropped(stagedIn[e])'
  <2>1. PICK r \in RunIds : r = stagedIn[e]
    BY DEF StagedOK
  <2>2. stagedIn'[e] = r
    BY <2>1, Contents DEF Staged
  <2>3. d \in Dropped(r) => d \in Dropped(r)'
    BY <1>1, DroppedStays
  <2> QED BY <2>1, <2>2, <2>3 DEF Dropped
<1>5. d # e /\ Follows(d, e) => batch'[d] = "delivered" \/ d \in Dropped(stagedIn[e])' \/ Follows(d, e)'
  BY <1>1, FollowsKept
<1> QED BY <1>1, <1>2, <1>3, <1>4, <1>5 DEF Covers

\* What a new delta leaves out is covered: by confirmed batches, or by those
\* that wait at the run the message follows up.
LEMMA StagingCovered ==
  ASSUME JournalOK, RequestsOK, OneActiveRun, WaitsAlone, BatchesOK, StagedOK, [LedgerNext]_ledgerVars,
         NEW e \in Staged, NEW d \in CountedIn(ConvOf[e])
  PROVE  d \in Covers(e)'
<1>0. [Next]_vars
  BY Contents
<1>1. e \in Events /\ Arrives(e) /\ batch[e] = "none" /\ batch'[d] = batch[d] /\ d # e
  BY <1>0, StagesOne DEF CountedIn
<1>2. d \in Events /\ batch[d] # "none" /\ ConvOf[d] = ConvOf[e] /\ Counts(d) /\ d \in Received
  BY DEF CountedIn, RequestsOK, Recorded
<1>3. CASE batch[d] = "delivered"
  BY <1>1, <1>2, <1>3 DEF Covers
<1>4. CASE batch[d] # "delivered"
  <2>1. PICK snap \in Snapshots, r \in RunIds : HandleFollowUp(e, snap, r) \/ HandleRequest(e, snap, r)
    BY <1>0, StagingStep
  <2>2. batchRun[d] \in RunIds /\ owner[batchRun[d]] = ConvOf[e] /\ batch[d] \in {"pending", "inflight"}
    BY <1>2, <1>4 DEF StagedOK, Counts, JournalOK, ForeignKeys
  <2>3. CASE status[batchRun[d]] \in Active
    <3>1. batchRun[d] \in ActiveRunsOf(ConvOf[e])
      BY <2>2, <2>3 DEF ActiveRunsOf, ActiveRuns
    <3>2. HandleFollowUp(e, snap, r)
      BY <2>1, <3>1 DEF HandleRequest
    <3>3. r = batchRun[d]
      BY <2>2, <2>3, <3>2 DEF HandleFollowUp, ActiveRunsOf, ActiveRuns, OneActiveRun
    <3>4. /\ batchRun'[e] = r /\ batch'[e] = "pending" /\ batchRun'[d] = r /\ steer'[d] = steer[d] /\ status' = status
      BY <1>1, <1>2, <3>2, <3>3 DEF HandleFollowUp, runVars, JournalOK, TypeOK
    <3>5. NoLater(d, e)'
      BY <1>1, <1>2, ReceivedBefore
    <3>6. Counts(d)'
      BY <1>1, <1>2, <3>3, <3>4 DEF Counts
    <3>7. Follows(d, e)'
      BY <1>1, <2>2, <3>4, <3>5, <3>6 DEF Follows
    <3> QED BY <1>1, <1>2, <3>7 DEF Covers
  <2>4. CASE status[batchRun[d]] \notin Active
    <3>1. batch[d] = "pending" /\ steer[d] = "pending" /\ steerRun[d] = batchRun[d] /\ status[batchRun[d]] \in Resumable
      BY <1>2, <1>4, <2>4 DEF Counts, BatchesOK
    <3>2. ~HandleFollowUp(e, snap, r)
      BY <1>2, <2>2, <3>1 DEF HandleFollowUp, ActiveRunsOf, ActiveRuns, WaitsAlone, Waiting
    <3>3. batch'[e] = "inflight"
      BY <2>1, <3>2, <1>1 DEF HandleRequest, JournalOK, TypeOK
    <3>4. LedgerNext
      BY <1>1, <3>3 DEF ledgerVars, vars, batchVars
    <3>5. d \in PendingSteers(ConvOf[e], Resumable)
      BY <1>2, <2>2, <3>1 DEF PendingSteers
    <3> QED BY <3>3, <3>4, <3>5 DEF LedgerNext, OlderContinueFirst
  <2> QED BY <2>3, <2>4
<1> QED BY <1>3, <1>4

\* Complete is kept.
LEMMA NextComplete ==
  ASSUME AfterTurn, JournalOK, RequestsOK, OneActiveRun, PendingBound, WaitsAlone, BatchesOK, StagedOK, Complete,
         [LedgerNext]_ledgerVars
  PROVE  Complete'
<1>0. [Next]_vars
  BY Contents
<1> SUFFICES ASSUME NEW e \in Events, Counts(e)'
             PROVE  /\ History[e] \subseteq UNION {lines'[d] : d \in Covers(e)'}
                    /\ \E d \in Covers(e)' : baseline'[d]
  BY DEF Complete
<1>1. CASE e \in Staged
  <2>1. Arrives(e) /\ \A d \in Events : d # e => d \notin Staged
    BY <1>0, <1>1, StagesOne
  <2>2. /\ lines'[e] = (History[e] \ Known(ConvOf[e])) \cup {e}
        /\ baseline'[e] = ~Introduced(ConvOf[e])
    BY <1>1, Contents
  <2>3. \A d \in CountedIn(ConvOf[e]) : d \in Covers(e)' /\ lines'[d] = lines[d] /\ baseline'[d] = baseline[d]
    <3> TAKE d \in CountedIn(ConvOf[e])
    <3>1. d \in Events /\ d \notin Staged
      BY DEF CountedIn, Staged
    <3> QED BY <1>1, <3>1, StagingCovered, Contents
  <2>4. e \in Covers(e)'
    BY <1>1 DEF Covers, Staged
  <2>6. ASSUME NEW x \in History[e]
        PROVE  \E d \in Covers(e)' : x \in lines'[d]
    <3>1. CASE x \in Known(ConvOf[e])
      BY <2>3, <3>1 DEF Known
    <3>2. CASE x \notin Known(ConvOf[e])
      BY <2>2, <2>4, <3>2
    <3> QED BY <3>1, <3>2
  <2>7. \E d \in Covers(e)' : baseline'[d]
    BY <2>2, <2>3, <2>4 DEF Introduced
  <2> QED BY <2>6, <2>7
<1>2. CASE e \notin Staged
  <2>1. batch[e] # "none" /\ Counts(e)
    BY <1>0, <1>2, CountsShrinks DEF Staged, Counts
  <2>3. \A d \in Covers(e) : d \in Covers(e)' /\ lines'[d] = lines[d] /\ baseline'[d] = baseline[d]
    <3> TAKE d \in Covers(e)
    <3>1. d \in Events /\ d \notin Staged
      BY DEF Covers, Staged
    <3> QED BY <2>1, <3>1, CoverKept, Contents
  <2>4. /\ History[e] \subseteq UNION {lines[d] : d \in Covers(e)}
        /\ \E d \in Covers(e) : baseline[d]
    BY <2>1 DEF Complete
  <2> QED BY <2>3, <2>4
<1> QED BY <1>1, <1>2

\* The inductive invariant of ContextIsComplete.
ContextOK == StagedOK /\ PendingBound /\ WaitsAlone /\ Complete

\* Where follow-ups are steered after turns, a message that may be confirmed is
\* covered by batches that are confirmed, will be before it, or were dropped.
THEOREM CoverCorrect ==
  ASSUME AfterTurn
  PROVE  LedgerSpec => []ContextOK
<1>1. LedgerInit => ContextOK
  BY NoneAssumption
     DEF LedgerInit, Init, ContextOK, StagedOK, PendingBound, WaitsAlone, Waiting, Complete, Counts
<1>2. JournalOK /\ OneActiveRun /\ RequestsOK /\ LinesOK /\ ContextOK /\ [LedgerNext]_ledgerVars => ContextOK'
  BY Contents, NextStaged, NextPendingBound, NextWaitsAlone, NextComplete DEF LinesOK, ContextOK, RequestsOK
<1> QED
  BY <1>1, <1>2, LedgerJournal, JournalCorrect, OneActiveCorrect, RequestsCorrect, LinesCorrect, PTL DEF LedgerSpec

\* ContextIsComplete of ContextLedger, where follow-ups are steered after turns:
\* nothing was taken out of the context of a message the agent has acted on.
THEOREM ContextCorrect ==
  ASSUME AfterTurn
  PROVE  LedgerSpec => []ContextIsComplete
<1>1. ASSUME ContextOK
      PROVE  ContextIsComplete
  <2> SUFFICES ASSUME NEW e \in Events, batch[e] = "delivered"
               PROVE  LET covering == Confirmed(ConvOf[e]) \cup Dropped(stagedIn[e])
                      IN History[e] \subseteq UNION {lines[d] : d \in covering} /\ \E d \in covering : baseline[d]
    BY DEF ContextIsComplete
  <2>1. Covers(e) \subseteq Confirmed(ConvOf[e]) \cup Dropped(stagedIn[e])
    BY DEF Covers, Confirmed, Follows
  <2>2. History[e] \subseteq UNION {lines[d] : d \in Covers(e)} /\ \E d \in Covers(e) : baseline[d]
    BY <1>1 DEF ContextOK, Complete, Counts
  <2> QED BY <2>1, <2>2
<1> QED BY <1>1, CoverCorrect, PTL

-----------------------------------------------------------------------------
(* Follow-ups keep their order on the way to the agent and back *)

\* Each element of s in E comes after one in D.
Precedes(s, D, E) == \A j \in DOMAIN s : s[j] \in E => \E i \in DOMAIN s : i < j /\ s[i] \in D

Found(s, D) == \E i \in DOMAIN s : s[i] \in D

\* An empty sequence, or one without elements of E.
LEMMA PrecedesNone ==
  ASSUME NEW s, NEW D, NEW E, ~Found(s, E)
  PROVE  Precedes(s, D, E)
BY DEF Found, Precedes

\* Appending keeps the order if what comes late finds its predecessor.
LEMMA PrecedesAppend ==
  ASSUME NEW S, NEW s \in Seq(S), NEW x \in S, NEW D, NEW E, Precedes(s, D, E), x \in E => Found(s, D)
  PROVE  Precedes(Append(s, x), D, E)
<1> DEFINE n == Len(s) t == Append(s, x)
<1>1. /\ n \in Nat /\ DOMAIN s = 1..n /\ DOMAIN t = 1..(n + 1)
      /\ \A i \in 1..n : t[i] = s[i]
      /\ t[n + 1] = x
  BY Appended
<1> HIDE DEF n, t
<1>2. ASSUME NEW j \in 1..(n + 1), t[j] \in E
      PROVE  \E i \in 1..(n + 1) : i < j /\ t[i] \in D
  <2>1. CASE j \in 1..n
    <3>1. PICK i \in 1..n : i < j /\ s[i] \in D
      BY <1>1, <1>2, <2>1 DEF Precedes
    <3> QED BY <1>1, <2>1, <3>1
  <2>2. CASE j = n + 1
    <3>1. PICK i \in 1..n : s[i] \in D
      BY <1>1, <1>2, <2>2 DEF Found
    <3>2. i \in 1..(n + 1) /\ i < n + 1
      BY <1>1, <3>1
    <3> QED BY <1>1, <2>2, <3>1, <3>2
  <2> QED BY <1>1, <2>1, <2>2
<1>3. Precedes(t, D, E)
  BY <1>1, <1>2 DEF Precedes
<1> QED BY <1>3 DEF t

\* The first element is in E for nobody, and the rest keeps the order unless it
\* was a predecessor.
LEMMA PrecedesTail ==
  ASSUME NEW S, NEW s \in Seq(S), s # <<>>, NEW D, NEW E, Precedes(s, D, E)
  PROVE  /\ Head(s) \notin E
         /\ Head(s) \notin D => Precedes(Tail(s), D, E)
<1> DEFINE n == Len(s) t == Tail(s)
<1>1. /\ n \in Nat \ {0} /\ DOMAIN s = 1..n /\ DOMAIN t = 1..(n - 1)
      /\ \A i \in 1..(n - 1) : t[i] = s[i + 1]
      /\ Head(s) = s[1]
  BY Tailed
<1> HIDE DEF n, t
<1>2. Head(s) \notin E
  BY <1>1 DEF Precedes
<1>3. ASSUME Head(s) \notin D, NEW j \in 1..(n - 1), t[j] \in E
      PROVE  \E i \in 1..(n - 1) : i < j /\ t[i] \in D
  <2>1. j + 1 \in 1..n /\ s[j + 1] \in E
    BY <1>1, <1>3
  <2>2. PICK i \in 1..n : i < j + 1 /\ s[i] \in D
    BY <1>1, <2>1 DEF Precedes
  <2>3. i # 1
    BY <1>1, <1>3, <2>2
  <2>4. i - 1 \in 1..(n - 1) /\ i - 1 < j /\ (i - 1) + 1 = i
    BY <1>1, <2>2, <2>3
  <2>5. t[i - 1] = s[i]
    BY <1>1, <2>4
  <2> QED BY <2>2, <2>4, <2>5
<1>4. Head(s) \notin D => Precedes(t, D, E)
  BY <1>1, <1>3 DEF Precedes
<1> QED BY <1>2, <1>4 DEF t

\* What is found in a sequence that is extended or shortened.
LEMMA FoundMoves ==
  ASSUME NEW S, NEW s \in Seq(S), NEW D
  PROVE  /\ \A x \in S : Found(Append(s, x), D) <=> Found(s, D) \/ x \in D
         /\ s # <<>> => (Found(s, D) <=> Found(Tail(s), D) \/ Head(s) \in D)
<1>1. ASSUME NEW x \in S
      PROVE  Found(Append(s, x), D) <=> Found(s, D) \/ x \in D
  <2> DEFINE n == Len(s) t == Append(s, x)
  <2>1. /\ n \in Nat /\ DOMAIN s = 1..n /\ DOMAIN t = 1..(n + 1)
        /\ \A i \in 1..n : t[i] = s[i]
        /\ t[n + 1] = x
    BY Appended
  <2> HIDE DEF n, t
  <2>2. \A i \in 1..(n + 1) : i \in 1..n \/ i = n + 1
    BY <2>1
  <2>3. n + 1 \in 1..(n + 1) /\ \A i \in 1..n : i \in 1..(n + 1)
    BY <2>1
  <2>4. Found(t, D) <=> Found(s, D) \/ x \in D
    BY <2>1, <2>2, <2>3 DEF Found
  <2> QED BY <2>4 DEF t
<1>2. s # <<>> => (Found(s, D) <=> Found(Tail(s), D) \/ Head(s) \in D)
  BY FoundInTail DEF Found
<1> QED BY <1>1, <1>2

\* A worker in such a phase takes no follow-up any more.
Spent(r) == worker[r] \in {"none", "stopping", "ending", "gone"}

\* Event e waits, and run r is to be given it.
Sent(e, r) == steer[e] = "pending" /\ steerRun[e] = r

\* The reports that event e was given to run r.
ReportsOf(e, r) == {u \in Published : u.type = "steered" /\ u.run = r /\ u.about = e}

Told(e, r) == Found(updates, ReportsOf(e, r))
Kept(e, r) == Found(taken[r], {e})
Queued(e, r) == Found(controls[r], {Steer(r, e)})

\* Event d is ahead of e wherever e is on its way to run r or back.
InLine(d, e, r) ==
  /\ Precedes(updates, ReportsOf(d, r), ReportsOf(e, r))
  /\ Told(d, r) \/ Precedes(taken[r], {d}, {e})
  /\ Spent(r) \/ Told(d, r) \/ Kept(d, r) \/ Precedes(controls[r], {Steer(r, d)}, {Steer(r, e)})
  /\ Steer(r, e) \in todo => Spent(r) \/ Told(d, r) \/ Kept(d, r) \/ Queued(d, r)

\* What waits for an agent that still listens is on its way.
Remembered(d, r) == Spent(r) \/ Told(d, r) \/ Kept(d, r) \/ Queued(d, r) \/ Steer(r, d) \in todo

\* Nothing waits for a run that is to be started.
FreshOK == \A r \in RunIds : Start(r) \in todo => \A e \in Events : ~Sent(e, r)

RememberedOK ==
  pc \notin {"shutdown", "down"} =>
    \A r \in RunIds : Hears(r) => \A d \in Events : Sent(d, r) => Remembered(d, r)

InLineOK ==
  \A r \in RunIds : Hears(r) =>
    \A d, e \in Events : d # e /\ Sent(d, r) /\ Sent(e, r) /\ NoLater(d, e) => InLine(d, e, r)

\* Of a worker that steers after turns.
QueueOK == AfterTurn => FreshOK /\ RememberedOK /\ InLineOK

-----------------------------------------------------------------------------
(* What steps do to the queue *)

\* The ways of a text, as RunnerProofs names them.
LEMMA Ways ==
  ASSUME Typed, NEW e \in Events, NEW r \in RunIds
  PROVE  /\ Told(e, r) <=> Reporting(e, r)
         /\ Kept(e, r) <=> e \in ToSet(taken[r])
         /\ Queued(e, r) <=> InControls(e, r)
<1>1. \A i \in DOMAIN updates : updates[i] \in Published
  BY DEF Typed
<1>2. Told(e, r) <=> Reporting(e, r)
  BY <1>1 DEF Told, Found, ReportsOf, Reporting
<1>3. Kept(e, r) <=> e \in ToSet(taken[r])
  BY DEF Kept, Found, ToSet
<1>4. Queued(e, r) <=> InControls(e, r)
  BY DEF Queued, Found, InControls
<1> QED BY <1>2, <1>3, <1>4

\* An operation that makes a message wait for a run that listens returns the
\* effect to give it.
LEMMA FollowUpsAreTold ==
  ASSUME JournalOK, RequestsOK, Operation, NEW e \in Events, steer[e] = "none", steer'[e] # "none"
  PROVE  /\ status'[steerRun'[e]] # "cancelling" => Steer(steerRun'[e], e) \in effects'
         /\ UNCHANGED <<status, owner>> /\ \A x \in Events : x # e => steer'[x] = steer[x] /\ steerRun'[x] = steerRun[x]
         /\ steerRun'[e] \in RunIds /\ steer'[e] = "pending" /\ Arrives(e)
         /\ \A x \in effects' : x.type = "steer"
<1> DEFINE Goal == /\ Arrives(e) /\ (status'[steerRun'[e]] # "cancelling" => Steer(steerRun'[e], e) \in effects')
                   /\ UNCHANGED <<status, owner>> /\ \A x \in Events : x # e => steer'[x] = steer[x] /\ steerRun'[x] = steerRun[x]
                   /\ steerRun'[e] \in RunIds /\ steer'[e] = "pending"
                   /\ \A x \in effects' : x.type = "steer"
<1>1. JournalOK /\ [Next]_vars
  BY DEF Operation, Next
<1>2. ASSUME NEW x \in Events, NEW snap \in Snapshots, NEW r \in RunIds, HandleFollowUp(x, snap, r)
      PROVE  Goal
  <2>1. x = e
    BY <1>2 DEF HandleFollowUp, JournalOK, TypeOK
  <2>2. Arrives(e) /\ UNCHANGED <<status, owner>>
    BY <1>2, <2>1 DEF HandleFollowUp, Message, Record, Arrives, runVars
  <2>3. /\ steer' = [steer EXCEPT ![e] = "pending"] /\ steerRun' = [steerRun EXCEPT ![e] = r]
        /\ effects' = IF status[r] = "cancelling" THEN {} ELSE {Steer(r, e)}
    BY <1>2, <2>1 DEF HandleFollowUp
  <2> QED BY <2>2, <2>3 DEF JournalOK, TypeOK, Steer
<1>3. ASSUME ~\E x \in Events, snap \in Snapshots, r \in RunIds : HandleFollowUp(x, snap, r)
      PROVE  steer'[e] = "none"
  <2>1. CASE Quiet
    BY <2>1 DEF Quiet, steerVars
  <2>2. ASSUME NEW x \in Events, NEW snap \in Snapshots, NEW r \in RunIds, HandleRequest(x, snap, r)
        PROVE  steer'[e] = "none"
    BY <2>2 DEF HandleRequest, steerVars
  <2>3. ASSUME NEW x \in Events, NEW snap \in Snapshots, CommandStop(x, snap)
        PROVE  steer'[e] = "none"
    BY <2>3 DEF CommandStop, DroppedByStop, PendingSteers, JournalOK, TypeOK
  <2>4. ASSUME NEW x \in Events, NEW r \in RunIds, Steered(r, x)
        PROVE  steer'[e] = "none"
    BY <2>4 DEF Steered, JournalOK, TypeOK
  <2>5. ASSUME NEW r \in RunIds, NEW s \in Terminal, Finished(r, s)
        PROVE  steer'[e] = "none"
    BY <2>5 DEF Finished, steerVars
  <2>6. CASE ResumePendingSteers
    BY <2>6, ResumeMoves DEF Continues
  <2>7. ASSUME NEW room \in Rooms, NEW snap \in Snapshots, ReconcileRoom(room, snap)
        PROVE  steer'[e] = "none"
    BY <2>7 DEF ReconcileRoom, JournalOK, TypeOK
  <2>8. ASSUME NEW p \in Policies, Recover(p)
        PROVE  steer'[e] = "none"
    BY <2>8 DEF Recover, JournalOK, TypeOK
  <2> QED BY <1>1, <1>3, <2>1, <2>2, <2>3, <2>4, <2>5, <2>6, <2>7, <2>8, StepKinds
<1> QED BY <1>2, <1>3

\* What an operation starts is a new run.
LEMMA StartsAreNew ==
  ASSUME JournalOK, Operation, NEW r \in RunIds, Start(r) \in effects'
  PROVE  status[r] = "none"
<1>0. ASSUME NEW p \in RunIds, Start(p) = Start(r)
      PROVE  p = r
  <2>1. Start(p).run = p /\ Start(r).run = r
    BY DEF Start
  <2> QED BY <1>0, <2>1
<1>7. Start(r).type = "start"
  BY DEF Start
<1>1. ASSUME NEW e \in Events, NEW snap \in Snapshots, HandleMessage(e, snap)
      PROVE  status[r] = "none"
  BY <1>0, <1>1, <1>7 DEF HandleMessage, HandleBlank, HandleFollowUp, HandleAtLimit, HandleRequest, Steer
<1>2. ASSUME NEW e \in Events, NEW snap \in Snapshots, HandleCommand(e, snap)
      PROVE  status[r] = "none"
  <2>1. CASE CommandStop(e, snap)
    BY <1>7, <2>1 DEF CommandStop, Cancel
  <2>2. ASSUME NEW q \in Requests, NEW option \in Options, CommandApprove(e, snap, q, option)
        PROVE  status[r] = "none"
    <3>1. Start(r) = Decide(q, option) /\ Decide(q, option).type = "decide"
      BY <2>2 DEF CommandApprove, Decide
    <3> QED BY <1>7, <3>1
  <2>3. ASSUME effects' = {}
        PROVE  status[r] = "none"
    BY <2>3
  <2> QED BY <1>2, <2>1, <2>2, <2>3 DEF HandleCommand, CommandInform, CommandPermissions
<1>3. CASE ResumePendingSteers
  <2>1. PICK fresh \in [Continuable -> {p \in RunIds : status[p] = "none"}] :
          effects' = {Start(p) : p \in {fresh[c] : c \in Continuable}}
    BY <1>3 DEF ResumePendingSteers
  <2>2. PICK c \in Continuable : Start(fresh[c]) = Start(r)
    BY <2>1
  <2> QED BY <1>0, <2>2
<1>4. CASE ExpireApprovals \/ AutomaticApprovals
  BY <1>4, <1>7 DEF ExpireApprovals, AutomaticApprovals, Decide
<1>5. ASSUME NEW room \in Rooms, NEW snap \in Snapshots, ReconcileRoom(room, snap)
      PROVE  status[r] = "none"
  BY <1>5, <1>7 DEF ReconcileRoom, Cancel
<1>6. ASSUME NEW p \in RunIds, ExplicitMessage(p)
      PROVE  status[r] = "none"
  BY <1>6 DEF ExplicitMessage
<1> QED BY <1>1, <1>2, <1>3, <1>4, <1>5, <1>6 DEF Operation, Handle

\* An operation makes no run listen.
LEMMA OperationHears ==
  ASSUME JournalOK, Operation, NEW r \in RunIds, Hears(r)'
  PROVE  Hears(r)
<1> USE DEF Hears, JournalOK, TypeOK, runVars
<1>1. ASSUME NEW e \in Events, NEW snap \in Snapshots, HandleMessage(e, snap)
      PROVE  Hears(r)
  BY <1>1 DEF HandleMessage, HandleBlank, HandleFollowUp, HandleAtLimit, HandleRequest
<1>2. ASSUME NEW e \in Events, NEW snap \in Snapshots, CommandStop(e, snap)
      PROVE  Hears(r)
  BY <1>2 DEF CommandStop, SetStatus
<1>3. ASSUME NEW e \in Events, NEW snap \in Snapshots, HandleCommand(e, snap), ~CommandStop(e, snap)
      PROVE  Hears(r)
  BY <1>3 DEF HandleCommand, CommandInform, CommandPermissions, CommandApprove, Settle
<1>4. CASE ExpireApprovals \/ AutomaticApprovals
  BY <1>4 DEF ExpireApprovals, AutomaticApprovals, Settle
<1>5. ASSUME ResumePendingSteers
      PROVE  Hears(r)
  BY <1>5, ResumeMoves DEF Continues
<1>6. ASSUME NEW room \in Rooms, NEW snap \in Snapshots, ReconcileRoom(room, snap)
      PROVE  Hears(r)
  BY <1>6 DEF ReconcileRoom, SetStatus
<1>7. ASSUME NEW p \in RunIds, ExplicitMessage(p)
      PROVE  Hears(r)
  BY <1>7 DEF ExplicitMessage
<1> HIDE DEF Hears
<1> QED BY <1>1, <1>2, <1>3, <1>4, <1>5, <1>6, <1>7 DEF Operation, Handle

\* Only a start makes a run listen.
LEMMA HearsBefore ==
  ASSUME Typed, [RunnerNext]_runnerVars, NEW r \in RunIds, Hears(r)'
  PROVE  Hears(r) \/ Start(r) \in todo
<1>0. JournalOK /\ status \in [RunIds -> Active \cup Terminal \cup {"none"}]
  BY DEF Typed, JournalOK, TypeOK
<1>1. status[r] = "cancelling" => ~Hears(r)'
  <2>1. RunsStep
    BY JournalStep, NextRunsStep DEF Typed
  <2> QED BY <1>0, <2>1 DEF RunsStep, Life!NextStatus, Life!Terminal, Active, Terminal, Hears
<1>2. CASE Operates
  BY <1>0, <1>2, OperationHears DEF Operates
<1>3. ASSUME NEW x \in todo, x.type = "start", Started(x.run)
      PROVE  Hears(r) \/ Start(r) \in todo
  <2>1. x.run \in RunIds /\ x = Start(x.run)
    BY <1>3, EffectFields DEF Typed, RunnerTypeOK
  <2> QED BY <1>0, <1>3, <2>1 DEF Started, Hears
<1>4. ASSUME NEW x \in todo, Cancels(x)
      PROVE  Hears(r)
  BY <1>0, <1>4 DEF Cancels, ApplyCancel, Finished, SetStatus, vars, runVars, Hears
<1>5. CASE Receive
  <2> DEFINE u == Head(updates)
  <2>1. u \in Published
    BY <1>5, Tailed DEF Receive, Typed
  <2>2. Hear(u) \/ UNCHANGED vars
    BY <1>5 DEF Receive
  <2> HIDE DEF u
  <2>3. CASE Hear(u)
    <3>1. status'[r] = status[r] \/ status[r] \in Works \/ (u.type = "finished" /\ status'[r] = u.about)
      BY <2>1, <2>3, HearRuns
    <3>2. u.type = "finished" => u.about \in Terminal
      BY <2>1, UpdateFields
    <3> QED BY <1>1, <3>1, <3>2 DEF Hears, Works, Terminal
  <2> QED BY <2>2, <2>3 DEF vars, runVars, Hears
<1>6. CASE Exit \/ \E p \in Policies : Restart(p)
  BY <1>0, <1>6 DEF Exit, Restart, Recover, SetStatus, ActiveRuns, Active, Hears
<1>7. CASE ApplyFails
  BY <1>3, <1>7 DEF ApplyFails, vars, runVars, Hears
<1>8. ASSUME NEW x \in todo, Starts(x) \/ Tells(x)
      PROVE  Hears(r) \/ Start(r) \in todo
  BY <1>3, <1>8 DEF Starts, Tells, ApplyStart, ApplyControl, vars, runVars, Hears
<1>9. CASE TimePasses \/ Shutdown \/ Crash \/ WorkerNext
  BY <1>9 DEF TimePasses, Lapse, Shutdown, Crash, WorkerNext, vars, runVars, Hears
<1>10. CASE Proceeds \/ UNCHANGED runnerVars
  BY <1>10 DEF Proceeds, runnerVars, vars, runVars, Hears
<1> QED BY <1>2, <1>4, <1>5, <1>6, <1>7, <1>8, <1>9, <1>10, RunnerKinds DEF Other

\* The texts for run r stay where they are, and that of event e is not sent.
Still(e, r) ==
  /\ updates' = updates /\ taken'[r] = taken[r] /\ controls'[r] = controls[r]
  /\ Spent(r) => Spent(r)'
  /\ Steer(r, e) \in todo' => Steer(r, e) \in todo

\* What does not change stays in its order.
LEMMA StillInLine ==
  ASSUME NEW r \in RunIds, NEW d \in Events, NEW e \in Events, Still(e, r), InLine(d, e, r)
  PROVE  InLine(d, e, r)'
<1>1. (Told(d, r)' <=> Told(d, r)) /\ (Kept(d, r)' <=> Kept(d, r)) /\ (Queued(d, r)' <=> Queued(d, r))
  BY DEF Still, Told, Kept, Queued
<1> QED BY <1>1 DEF Still, InLine

\* Sending a control message keeps the order.
LEMMA SendInLine ==
  ASSUME Typed, OpenOK, NEW x \in todo, Cancels(x) \/ Tells(x), NEW r \in RunIds,
         NEW d \in Events, NEW e \in Events, d # e, InLine(d, e, r)
  PROVE  InLine(d, e, r)'
<1>0. ChannelsTyped /\ todo \subseteq Effects
  BY DEF Typed, RunnerTypeOK, ChannelsTyped
<1>1. /\ UNCHANGED <<updates, taken, worker>> /\ todo' = todo \ {x} /\ x \in Effects
      /\ (Send(x.run, x) /\ x.run \in open) \/ UNCHANGED controls
  BY <1>0 DEF Cancels, Tells, ApplyCancel, ApplyControl, workerVars
<1>2. (Told(d, r)' <=> Told(d, r)) /\ (Kept(d, r)' <=> Kept(d, r)) /\ (Spent(r)' <=> Spent(r))
  BY <1>1 DEF Told, Kept, Spent
<1>3. CASE controls'[r] = controls[r]
  <2>1. Still(e, r)
    BY <1>1, <1>2, <1>3 DEF Still
  <2> QED BY <2>1, StillInLine
<1>4. CASE controls'[r] # controls[r]
  <2>1. x.run = r /\ controls'[r] = Append(controls[r], x) /\ controls[r] \in Seq(Effects)
    BY <1>0, <1>1, <1>4, SendAdds, EffectFields DEF ChannelsTyped
  <2>2. Queued(d, r)' <=> Queued(d, r) \/ x = Steer(r, d)
    BY <1>1, <2>1, FoundMoves DEF Queued
  <2>3. ASSUME Precedes(controls[r], {Steer(r, d)}, {Steer(r, e)}), x = Steer(r, e) => Queued(d, r)
        PROVE  Precedes(controls'[r], {Steer(r, d)}, {Steer(r, e)})
    BY <1>1, <2>1, <2>3, PrecedesAppend DEF Queued
  <2> QED BY <1>1, <1>2, <2>2, <2>3 DEF InLine
<1> QED BY <1>3, <1>4

\* A report of what still waits is not the next to be heard by a run that listens.
LEMMA ReceivesOthers ==
  ASSUME Typed, Receive, NEW r \in RunIds, Hears(r), NEW d \in Events, Sent(d, r), Sent(d, r)'
  PROVE  /\ Head(updates) \notin ReportsOf(d, r)
         /\ Told(d, r)' <=> Told(d, r)
<1> DEFINE u == Head(updates)
<1>0. updates \in Seq(Published) /\ updates # <<>> /\ u \in Published /\ updates' = Tail(updates)
  BY Tailed DEF Typed, Receive
<1>1. IF Listens(u) THEN Hear(u) ELSE UNCHANGED vars
  BY DEF Receive
<1> HIDE DEF u
<1>2. u \notin ReportsOf(d, r)
  <2> SUFFICES ASSUME u.type = "steered", u.run = r, u.about = d
               PROVE  FALSE
    BY DEF ReportsOf
  <2>1. Hear(u)
    BY <1>1 DEF Listens
  <2>2. steer'[d] = "delivered"
    BY <1>0, <2>1, HearSteers DEF Sent
  <2> QED BY <2>2 DEF Sent
<1>3. Told(d, r)' <=> Told(d, r)
  BY <1>0, <1>2, FoundMoves DEF Told, u
<1> QED BY <1>2, <1>3 DEF u

\* What is received was not behind what still waits.
LEMMA ReceiveInLine ==
  ASSUME Typed, Receive, NEW r \in RunIds, Hears(r), NEW d \in Events, NEW e \in Events,
         Sent(d, r), Sent(d, r)', InLine(d, e, r)
  PROVE  InLine(d, e, r)'
<1>1. /\ Head(updates) \notin ReportsOf(d, r)
      /\ Told(d, r)' <=> Told(d, r)
  BY ReceivesOthers
<1>2. /\ UNCHANGED <<todo, controls, taken, worker>>
      /\ updates' = Tail(updates) /\ updates # <<>> /\ updates \in Seq(Published)
  BY DEF Receive, driverVars, workerVars, Typed
<1>3. (Kept(d, r)' <=> Kept(d, r)) /\ (Queued(d, r)' <=> Queued(d, r)) /\ (Spent(r)' <=> Spent(r))
  BY <1>2 DEF Kept, Queued, Spent
<1>4. Precedes(updates', ReportsOf(d, r), ReportsOf(e, r))
  BY <1>1, <1>2, PrecedesTail DEF InLine
<1> QED BY <1>1, <1>2, <1>3, <1>4 DEF InLine

\* A worker hands texts on from channel to channel in their order.
LEMMA WorkerInLine ==
  ASSUME Typed, OpenOK, HeldOK, AfterTurn, WorkerNext, NEW r \in RunIds,
         NEW d \in Events, NEW e \in Events, d # e, InLine(d, e, r)
  PROVE  InLine(d, e, r)'
<1>0. ChannelsTyped /\ updates' \in Seq(Published) /\ updates \in Seq(Published)
  BY WorkerTyped DEF Typed, RunnerTypeOK, ChannelsTyped
<1>1. todo' = todo
  BY DEF WorkerNext, driverVars
<1>2. ASSUME NEW t, NEW p, NEW x, Publish(t, p, x)
      PROVE  /\ Told(d, r)' <=> Told(d, r) \/ (t = "steered" /\ p = r /\ x = d)
             /\ (t = "steered" /\ p = r /\ x = e => Told(d, r))
                  => Precedes(updates', ReportsOf(d, r), ReportsOf(e, r))
  <2> DEFINE u == Update(t, p, x)
  <2>1. updates' = Append(updates, u)
    BY <1>2 DEF Publish
  <2>2. u \in Published
    BY <1>0, <2>1, LastAppended
  <2>3. \A y : u \in ReportsOf(y, r) <=> t = "steered" /\ p = r /\ x = y
    BY <2>2 DEF Update, ReportsOf
  <2> HIDE DEF u
  <2>4. Told(d, r)' <=> Told(d, r) \/ u \in ReportsOf(d, r)
    BY <1>0, <2>1, <2>2, FoundMoves DEF Told
  <2>5. (u \in ReportsOf(e, r) => Told(d, r)) => Precedes(updates', ReportsOf(d, r), ReportsOf(e, r))
    BY <1>0, <2>1, <2>2, PrecedesAppend DEF Told, InLine
  <2> QED BY <2>3, <2>4, <2>5
<1>3. ASSUME updates' = updates \/ \E t, p, x : Publish(t, p, x) /\ ~(t = "steered" /\ p = r),
             taken'[r] = taken[r], controls'[r] = controls[r], Spent(r) => Spent(r)'
      PROVE  InLine(d, e, r)'
  <2>1. (Told(d, r)' <=> Told(d, r)) /\ Precedes(updates', ReportsOf(d, r), ReportsOf(e, r))
    BY <1>2, <1>3 DEF Told, InLine
  <2>2. (Kept(d, r)' <=> Kept(d, r)) /\ (Queued(d, r)' <=> Queued(d, r))
    BY <1>3 DEF Kept, Queued
  <2> QED BY <1>1, <1>3, <2>1, <2>2 DEF InLine
\* Nothing is kept, and nothing more will be taken.
<1>4. ASSUME updates' = updates, Spent(r)', taken'[r] = <<>>
      PROVE  InLine(d, e, r)'
  <2>1. Precedes(taken'[r], {d}, {e})
    BY <1>4 DEF Precedes
  <2>2. Precedes(updates', ReportsOf(d, r), ReportsOf(e, r))
    BY <1>4 DEF InLine
  <2> QED BY <1>4, <2>1, <2>2 DEF InLine
<1>5. ASSUME Take(r)
      PROVE  InLine(d, e, r)'
  <2> DEFINE x == Head(controls[r])
             steered == x.type = "steer" /\ worker[r] = "turn"
  <2>1. /\ worker[r] \in {"turn", "stopping"} /\ controls[r] # <<>> /\ updates' = updates
        /\ worker' = IF x.type = "cancel" THEN [worker EXCEPT ![r] = "stopping"] ELSE worker
        /\ taken' = [taken EXCEPT ![r] =
             IF steered THEN Append(@, x.event) ELSE IF x.type = "cancel" /\ AfterTurn THEN <<>> ELSE @]
        /\ controls' = [controls EXCEPT ![r] = Tail(@)]
    BY <1>5 DEF Take
  <2>2. /\ x \in Effects /\ x.run = r /\ (x.type = "steer" => x.event \in Events /\ x = Steer(r, x.event))
        /\ controls[r] \in Seq(Effects) /\ controls'[r] = Tail(controls[r]) /\ taken[r] \in Seq(Events)
    <3>1. x \in Effects /\ x = controls[r][1] /\ 1 \in DOMAIN controls[r]
      BY <1>0, <2>1, Tailed DEF ChannelsTyped
    <3>2. x.run = r
      BY <3>1 DEF HeldOK
    <3> QED BY <1>0, <2>1, <3>1, <3>2, EffectFields DEF ChannelsTyped
  <2>3. Steer(r, d).type = "steer" /\ Steer(r, d).event = d /\ Steer(r, e).type = "steer" /\ Steer(r, e).event = e
    BY DEF Steer
  <2> HIDE DEF x
  <2>4. CASE x.type = "cancel"
    <3>1. taken'[r] = <<>> /\ Spent(r)'
      BY <1>0, <2>1, <2>4 DEF ChannelsTyped, Spent
    <3> QED BY <1>4, <2>1, <3>1
  <2>5. CASE x.type # "cancel" /\ worker[r] = "stopping"
    <3>1. taken'[r] = taken[r] /\ Spent(r)' /\ Spent(r)
      BY <1>0, <2>1, <2>5 DEF ChannelsTyped, Spent
    <3>2. (Told(d, r)' <=> Told(d, r)) /\ (Kept(d, r)' <=> Kept(d, r))
      BY <2>1, <3>1 DEF Told, Kept
    <3> QED BY <1>1, <2>1, <3>1, <3>2 DEF InLine
  <2>6. CASE x.type # "cancel" /\ worker[r] = "turn"
    <3>1. ~Spent(r) /\ ~Spent(r)' /\ (Told(d, r)' <=> Told(d, r))
      BY <2>1, <2>6 DEF Spent, Told
    <3>2. taken'[r] = IF x.type = "steer" THEN Append(taken[r], x.event) ELSE taken[r]
      BY <1>0, <2>1, <2>6 DEF ChannelsTyped
    <3>3. Queued(d, r) <=> Queued(d, r)' \/ x = Steer(r, d)
      BY <2>1, <2>2, FoundMoves DEF Queued, x
    <3>4. Kept(d, r)' <=> Kept(d, r) \/ x = Steer(r, d)
      <4>1. x.type = "steer" => (Kept(d, r)' <=> Kept(d, r) \/ x.event = d)
        BY <2>2, <3>2, FoundMoves DEF Kept
      <4>2. x.type # "steer" => (Kept(d, r)' <=> Kept(d, r))
        BY <3>2 DEF Kept
      <4> QED BY <2>2, <2>3, <4>1, <4>2
    <3>5. CASE Told(d, r) \/ Kept(d, r)
      <4>1. ASSUME Precedes(taken[r], {d}, {e}), Kept(d, r)
            PROVE  Precedes(taken'[r], {d}, {e})
        BY <2>2, <3>2, <4>1, PrecedesAppend DEF Kept
      <4> QED BY <1>1, <2>1, <3>1, <3>4, <3>5, <4>1 DEF InLine
    <3>6. CASE ~Told(d, r) /\ ~Kept(d, r)
      <4>1. x # Steer(r, e) /\ (x # Steer(r, d) => Precedes(controls'[r], {Steer(r, d)}, {Steer(r, e)}))
        BY <2>1, <2>2, <3>1, <3>6, PrecedesTail DEF InLine, x
      <4>2. Precedes(taken'[r], {d}, {e})
        BY <2>2, <3>2, <3>6, <4>1, PrecedesAppend DEF InLine
      <4>3. Kept(d, r)' \/ (Queued(d, r) => Queued(d, r)')
        BY <3>3, <3>4
      <4> QED BY <1>1, <2>1, <3>1, <3>4, <3>6, <4>1, <4>2, <4>3 DEF InLine
    <3> QED BY <3>5, <3>6
  <2> QED BY <2>1, <2>4, <2>5, <2>6
<1>6. ASSUME Report(r)
      PROVE  InLine(d, e, r)'
  <2> DEFINE a == Head(taken[r])
  <2>1. /\ worker' = worker /\ controls' = controls /\ taken[r] # <<>> /\ Publish("steered", r, a)
        /\ taken[r] \in Seq(Events) /\ taken'[r] = Tail(taken[r])
    BY <1>0, <1>6 DEF Report, ChannelsTyped
  <2> HIDE DEF a
  <2>2. (Spent(r)' <=> Spent(r)) /\ (Queued(d, r)' <=> Queued(d, r))
    BY <2>1 DEF Spent, Queued
  <2>3. /\ Told(d, r)' <=> Told(d, r) \/ a = d
        /\ (a = e => Told(d, r)) => Precedes(updates', ReportsOf(d, r), ReportsOf(e, r))
    BY <1>2, <2>1
  <2>4. Kept(d, r) <=> Kept(d, r)' \/ a = d
    BY <2>1, FoundMoves DEF Kept, a
  <2>5. Told(d, r) \/ (a # e /\ (a # d => Precedes(taken'[r], {d}, {e})))
    BY <2>1, PrecedesTail DEF InLine, a
  <2> QED BY <1>1, <2>1, <2>2, <2>3, <2>4, <2>5 DEF InLine
<1>7. ASSUME Finish(r)
      PROVE  InLine(d, e, r)'
  <2>1. Spent(r)' /\ taken' = taken /\ Publish("finished", r, outcome[r])
    BY <1>0, <1>7 DEF Finish, ChannelsTyped, Spent
  <2>2. Told(d, r)' <=> Told(d, r)
    BY <1>2, <2>1
  <2>3. Precedes(updates', ReportsOf(d, r), ReportsOf(e, r))
    BY <1>2, <2>1
  <2> QED BY <2>1, <2>2, <2>3 DEF InLine
<1>8. ASSUME NEW s \in {"completed", "failed", "cancelled"}, Respond(r, s)
      PROVE  InLine(d, e, r)'
  <2>1. /\ UNCHANGED <<controls, updates>> /\ worker[r] \in {"turn", "stopping"}
        /\ \/ taken' = taken /\ worker[r] = "turn"
           \/ taken' = [taken EXCEPT ![r] = <<>>] /\ worker' = [worker EXCEPT ![r] = "ending"]
    BY <1>8 DEF Respond, channelVars
  <2>2. CASE taken' = taken /\ worker[r] = "turn"
    BY <1>3, <2>1, <2>2 DEF Spent
  <2>3. CASE taken' = [taken EXCEPT ![r] = <<>>] /\ worker' = [worker EXCEPT ![r] = "ending"]
    BY <1>0, <1>4, <2>1, <2>3 DEF Spent, ChannelsTyped
  <2> QED BY <2>1, <2>2, <2>3
<1>9. ASSUME NEW s \in {"failed", "interrupted"}, GiveUp(r, s)
      PROVE  InLine(d, e, r)'
  <2>1. updates' = updates /\ taken' = [taken EXCEPT ![r] = <<>>] /\ worker' = [worker EXCEPT ![r] = "ending"]
    BY <1>9 DEF GiveUp, channelVars
  <2> QED BY <1>0, <1>4, <2>1 DEF Spent, ChannelsTyped
<1>10. ASSUME Ready(r) \/ Say(r) \/ (\E q \in Requests : Ask(r, q)) \/ Continue(r)
       PROVE  InLine(d, e, r)'
  <2>1. UNCHANGED <<taken, controls>> /\ (Spent(r) => Spent(r)')
    BY <1>10 DEF Ready, Say, Ask, Continue, channelVars, workerVars, Spent
  <2>2. updates' = updates \/ \E t, x : t # "steered" /\ Publish(t, r, x)
    BY <1>10 DEF Ready, Say, Ask, Continue, channelVars
  <2> QED BY <1>3, <2>1, <2>2
<1>11. ASSUME NEW p \in RunIds \ {r}, WorkerStep(p)
       PROVE  InLine(d, e, r)'
  <2>1. controls'[r] = controls[r] /\ taken'[r] = taken[r] /\ worker'[r] = worker[r]
    BY <1>11, WorkersApart
  <2>2. updates' = updates \/ \E t, x : Publish(t, p, x)
    BY <1>11 DEF WorkerStep, Ready, Say, Ask, Take, Respond, GiveUp, Report, Continue, Finish, channelVars
  <2>3. p # r
    OBVIOUS
  <2> QED BY <1>3, <2>1, <2>2, <2>3 DEF Spent
<1>12. ASSUME NEW q \in Requests, AskTimeout(q)
       PROVE  InLine(d, e, r)'
  BY <1>3, <1>12 DEF AskTimeout, channelVars, Spent
<1> QED
  BY <1>5, <1>6, <1>7, <1>8, <1>9, <1>10, <1>11, <1>12 DEF WorkerNext, WorkerStep

\* Besides operations and reports, a step at most gives follow-ups up.
LEMMA OthersDropSteers ==
  ASSUME Typed, [RunnerNext]_runnerVars, ~Operates, ~Receive, NEW e \in Events
  PROVE  /\ steerRun'[e] = steerRun[e]
         /\ steer'[e] = steer[e] \/ (steer[e] = "pending" /\ steer'[e] = "interrupted")
<1> DEFINE Goal == /\ steerRun'[e] = steerRun[e]
                   /\ steer'[e] = steer[e] \/ (steer[e] = "pending" /\ steer'[e] = "interrupted")
<1>1. ASSUME NEW x \in todo, Starts(x) \/ Cancels(x) \/ Tells(x)
      PROVE  Goal
  BY <1>1 DEF Starts, Cancels, Tells, ApplyStart, ApplyCancel, ApplyControl, Started, Finished, vars, steerVars
<1>2. CASE Exit \/ \E p \in Policies : Restart(p)
  BY <1>2 DEF Exit, Restart, Recover, Typed, JournalOK, TypeOK
<1>3. CASE TimePasses \/ ApplyFails \/ Shutdown \/ Crash \/ WorkerNext \/ Proceeds \/ UNCHANGED runnerVars
  BY <1>3 DEF TimePasses, Lapse, ApplyFails, Started, Shutdown, Crash, WorkerNext, Proceeds, runnerVars, vars, steerVars
<1> QED BY <1>1, <1>2, <1>3, RunnerKinds DEF Other

\* Only an operation makes a message wait.
LEMMA SentBefore ==
  ASSUME Typed, [RunnerNext]_runnerVars, ~Operates, NEW e \in Events, NEW r \in RunIds, Sent(e, r)'
  PROVE  Sent(e, r) /\ \A p \in Policies : ~Restart(p)
<1>1. CASE Receive
  <2> DEFINE u == Head(updates)
  <2>1. u \in Published /\ (Hear(u) \/ UNCHANGED vars)
    BY <1>1, Tailed DEF Receive, Typed
  <2> HIDE DEF u
  <2>2. Sent(e, r)
    BY <2>1, HearSteers DEF Sent, vars, steerVars
  <2>3. ASSUME NEW p \in Policies
        PROVE  ~Restart(p)
    BY <1>1 DEF Receive, Restart
  <2> QED BY <2>2, <2>3
<1>2. CASE ~Receive
  <2>1. Sent(e, r)
    BY <1>2, OthersDropSteers DEF Sent
  <2>2. ASSUME NEW p \in Policies
        PROVE  ~Restart(p)
    BY <2>1 DEF Restart, Recover, Sent
  <2> QED BY <2>1, <2>2
<1> QED BY <1>1, <1>2

\* A message waited for a run already, or it just arrived.
LEMMA SentOrArrives ==
  ASSUME Typed, RequestsOK, [RunnerNext]_runnerVars, NEW e \in Events, NEW r \in RunIds, Sent(e, r)'
  PROVE  Sent(e, r) \/ (Operates /\ steer[e] = "none")
<1>1. CASE Operates
  BY <1>1, OperationSteers DEF Operates, Typed, Sent
<1> QED BY <1>1, SentBefore

\* Nothing waits for a run that is only being created.
LEMMA NextFresh ==
  ASSUME Typed, RequestsOK, FreshOK, [RunnerNext]_runnerVars
  PROVE  FreshOK'
<1> SUFFICES ASSUME NEW r \in RunIds, Start(r) \in todo', NEW e \in Events, Sent(e, r)'
             PROVE  FALSE
  BY DEF FreshOK
<1>0. JournalOK /\ Start(r).type = "start"
  BY DEF Typed, Start
<1>1. CASE Operates
  <2>1. Operation /\ status[r] = "none"
    BY <1>0, <1>1, StartsAreNew DEF Operates
  <2>2. ~Sent(e, r)
    BY <1>0, <2>1 DEF JournalOK, ForeignKeys, Sent
  <2>3. \A x \in effects' : x.type = "steer"
    BY <1>0, <2>1, <2>2, SentOrArrives, FollowUpsAreTold DEF Sent
  <2> QED BY <1>0, <1>1, <2>3 DEF Operates
<1>2. CASE ~Operates
  <2>1. Sent(e, r)
    BY <1>2, SentBefore
  <2>2. todo' \subseteq todo \/ \A x \in todo' : x.type = "cancel"
    BY <1>2, RunnerKinds DEF Other, TimePasses, Starts, Cancels, Tells, ApplyFails, Receive, Shutdown, Cancel, Exit, Crash, Vanish,
                             Restart, WorkerNext, Proceeds, driverVars, runnerVars
  <2> QED BY <1>0, <2>1, <2>2 DEF FreshOK
<1> QED BY <1>1, <1>2

\* A message that just arrived is not on its way yet.
LEMMA ArrivalsAreNowhere ==
  ASSUME Typed, RequestsOK, GivenOK, todo = {}, NEW e \in Events, steer[e] = "none", e \notin Received, NEW r \in RunIds
  PROVE  ~Told(e, r) /\ ~Kept(e, r) /\ ~Queued(e, r)
<1>1. PairOK(e, r)
  BY DEF GivenOK
<1>2. input[r] # e
  BY DEF RequestsOK, Recorded
<1>3. ~Reporting(e, r) /\ e \notin ToSet(taken[r]) /\ ~InControls(e, r)
  BY <1>1, <1>2 DEF PairOK, Ahead
<1> QED BY <1>3, Ways

\* An operation sends a new message after those that wait.
LEMMA OperatesInLine ==
  ASSUME Typed, RequestsOK, GivenOK, RememberedOK, InLineOK, Operates, [RunnerNext]_runnerVars
  PROVE  InLineOK'
<1> SUFFICES ASSUME NEW r \in RunIds, Hears(r)', NEW d \in Events, NEW e \in Events, d # e, Sent(d, r)', Sent(e, r)', NoLater(d, e)'
             PROVE  InLine(d, e, r)'
  BY DEF InLineOK
<1>0. /\ JournalOK /\ Operation /\ todo = {} /\ todo' = effects' /\ pc \notin {"shutdown", "down"}
      /\ UNCHANGED <<updates, taken, controls, worker>>
  BY DEF Operates, Typed, channelVars, workerVars
<1>1. [Next]_vars
  BY JournalStep
<1>2. Hears(r)
  BY <1>0, OperationHears
<1>3. (Sent(d, r) \/ steer[d] = "none") /\ (Sent(e, r) \/ steer[e] = "none")
  BY SentOrArrives
<1>4. CASE Sent(d, r) /\ Sent(e, r)
  <2>1. e \in Received
    BY <1>4 DEF Sent, RequestsOK, Recorded
  <2>2. NoLater(d, e)
    BY <1>0, <1>1, <2>1, OrderKept DEF RequestsOK
  <2>3. InLine(d, e, r)
    BY <1>2, <1>4, <2>2 DEF InLineOK
  <2>4. Steer(r, e) \notin todo'
    <3>1. Steer(r, e).type = "steer" /\ Steer(r, e).event = e
      BY DEF Steer
    <3> QED BY <1>0, <1>4, <3>1, OperationSteers DEF Sent
  <2>5. Still(e, r)
    BY <1>0, <2>4 DEF Still, Spent
  <2> QED BY <2>3, <2>5, StillInLine
<1>5. CASE steer[d] = "none" /\ Sent(e, r)
  <2>1. Arrives(d) /\ e \in Received
    BY <1>0, <1>5, FollowUpsAreTold DEF Sent, RequestsOK, Recorded
  <2>2. NoLater(d, e)
    BY <1>0, <2>1, ArrivalIsLast DEF RequestsOK
  <2>3. d \in Received
    BY <2>2 DEF NoLater, Received
  <2> QED BY <2>1, <2>3 DEF Arrives
<1>6. CASE steer[e] = "none"
  <2>1. Arrives(e) /\ steer'[d] = steer[d] /\ steerRun'[d] = steerRun[d]
    BY <1>0, <1>6, FollowUpsAreTold DEF Sent
  <2>2. Remembered(d, r)
    BY <1>0, <1>2, <2>1 DEF RememberedOK, Sent
  <2>3. ~Told(e, r) /\ ~Kept(e, r) /\ ~Queued(e, r)
    BY <1>0, <1>6, <2>1, ArrivalsAreNowhere DEF Arrives
  <2>4. /\ Precedes(updates, ReportsOf(d, r), ReportsOf(e, r))
        /\ Precedes(taken[r], {d}, {e})
        /\ Precedes(controls[r], {Steer(r, d)}, {Steer(r, e)})
    BY <2>3, PrecedesNone DEF Told, Kept, Queued
  <2>5. Spent(r) \/ Told(d, r) \/ Kept(d, r) \/ Queued(d, r)
    BY <1>0, <2>2 DEF Remembered
  <2>6. (Spent(r)' <=> Spent(r)) /\ (Told(d, r)' <=> Told(d, r)) /\ (Kept(d, r)' <=> Kept(d, r)) /\ (Queued(d, r)' <=> Queued(d, r))
    BY <1>0 DEF Spent, Told, Kept, Queued
  <2> QED BY <1>0, <2>4, <2>5, <2>6 DEF InLine
<1> QED BY <1>3, <1>4, <1>5, <1>6

\* Whatever else happens keeps the texts in line.
LEMMA NextInLine ==
  ASSUME Typed, OpenOK, HeldOK, RequestsOK, GivenOK, FreshOK, RememberedOK, InLineOK, AfterTurn, [RunnerNext]_runnerVars
  PROVE  InLineOK'
<1>1. CASE Operates
  BY <1>1, OperatesInLine
<1>2. CASE ~Operates
  <2> SUFFICES ASSUME NEW r \in RunIds, Hears(r)', NEW d \in Events, NEW e \in Events, d # e, Sent(d, r)', Sent(e, r)', NoLater(d, e)'
               PROVE  InLine(d, e, r)'
    BY DEF InLineOK
  <2>0. ChannelsTyped /\ PlaceTyped /\ JournalOK /\ [Next]_vars
    BY JournalStep DEF Typed, RunnerTypeOK, ChannelsTyped, PlaceTyped
  <2>1. Sent(d, r) /\ Sent(e, r) /\ \A p \in Policies : ~Restart(p)
    BY <1>2, SentBefore
  <2>2. Hears(r)
    BY <2>1, HearsBefore DEF FreshOK
  <2>3. NoLater(d, e)
    <3>1. e \in Received
      BY <2>1 DEF Sent, RequestsOK, Recorded
    <3> QED BY <2>0, <3>1, OrderKept DEF RequestsOK
  <2>4. InLine(d, e, r)
    BY <2>1, <2>2, <2>3 DEF InLineOK
  <2>5. CASE Proceeds \/ TimePasses \/ ApplyFails \/ Shutdown \/ UNCHANGED runnerVars
    <3>1. Still(e, r)
      BY <2>5 DEF Proceeds, TimePasses, ApplyFails, Shutdown, channelVars, workerVars, driverVars, runnerVars, Still, Spent,
                  Cancel, Steer
    <3> QED BY <2>4, <3>1, StillInLine
  <2>6. ASSUME NEW x \in todo, Starts(x)
        PROVE  InLine(d, e, r)'
    <3>1. x.run # r /\ x.run \in RunIds
      BY <2>0, <2>2, <2>6, EffectFields DEF PlaceTyped, Starts, ApplyStart, Started, Hears
    <3>2. Still(e, r)
      BY <2>0, <2>6, <3>1 DEF Starts, ApplyStart, Still, Spent, ChannelsTyped
    <3> QED BY <2>4, <3>2, StillInLine
  <2>7. CASE Exit \/ Crash
    <3> DEFINE empty == <<>>
    <3>1. DOMAIN empty = {} /\ updates' = empty /\ taken'[r] = empty
      BY <2>7 DEF Exit, Crash, Vanish
    <3>2. Spent(r)'
      BY <2>7 DEF Exit, Crash, Vanish, Spent
    <3> HIDE DEF empty
    <3> QED BY <3>1, <3>2 DEF InLine, Precedes
  <2> QED BY <1>2, <2>1, <2>2, <2>4, <2>5, <2>6, <2>7, SendInLine, ReceiveInLine, WorkerInLine, RunnerKinds DEF Other
<1> QED BY <1>1, <1>2

\* A worker that listens loses no text.
LEMMA WorkerRemembers ==
  ASSUME Typed, OpenOK, HeldOK, WorkerNext, NEW r \in RunIds, NEW d \in Events, Remembered(d, r)
  PROVE  Remembered(d, r)'
<1> DEFINE Held == Spent(r) \/ Told(d, r) \/ Kept(d, r) \/ Queued(d, r)
<1>0. ChannelsTyped /\ updates' \in Seq(Published) /\ updates \in Seq(Published) /\ todo' = todo
  BY WorkerTyped DEF Typed, RunnerTypeOK, ChannelsTyped, WorkerNext, driverVars
<1>1. ASSUME NEW t, NEW p, NEW x, Publish(t, p, x)
      PROVE  Told(d, r)' <=> Told(d, r) \/ (t = "steered" /\ p = r /\ x = d)
  <2> DEFINE u == Update(t, p, x)
  <2>1. updates' = Append(updates, u)
    BY <1>1 DEF Publish
  <2>2. u \in Published
    BY <1>0, <2>1, LastAppended
  <2>3. u \in ReportsOf(d, r) <=> t = "steered" /\ p = r /\ x = d
    BY <2>2 DEF Update, ReportsOf
  <2> HIDE DEF u
  <2>4. Told(d, r)' <=> Told(d, r) \/ u \in ReportsOf(d, r)
    BY <1>0, <2>1, <2>2, FoundMoves DEF Told
  <2> QED BY <2>3, <2>4
<1>2. updates' = updates => (Told(d, r)' <=> Told(d, r))
  BY DEF Told
<1>3. Told(d, r) => Told(d, r)'
  <2>1. updates' = updates \/ \E t, p, x : Publish(t, p, x)
    BY DEF WorkerNext, WorkerStep, Ready, Say, Ask, Take, Respond, GiveUp, Report, Continue, Finish, AskTimeout, channelVars
  <2> QED BY <1>1, <1>2, <2>1
<1>4. ASSUME Take(r), Held
      PROVE  Held'
  <2> DEFINE x == Head(controls[r])
             steered == x.type = "steer" /\ worker[r] = "turn"
  <2>1. /\ worker[r] \in {"turn", "stopping"} /\ controls[r] # <<>> /\ updates' = updates
        /\ worker' = IF x.type = "cancel" THEN [worker EXCEPT ![r] = "stopping"] ELSE worker
        /\ taken' = [taken EXCEPT ![r] =
             IF steered THEN Append(@, x.event) ELSE IF x.type = "cancel" /\ AfterTurn THEN <<>> ELSE @]
        /\ controls' = [controls EXCEPT ![r] = Tail(@)]
    BY <1>4 DEF Take
  <2>2. /\ x \in Effects /\ (x.type = "steer" => x.event \in Events)
        /\ controls[r] \in Seq(Effects) /\ controls'[r] = Tail(controls[r]) /\ taken[r] \in Seq(Events)
    BY <1>0, <2>1, Tailed, EffectFields DEF ChannelsTyped
  <2>3. Steer(r, d).type = "steer" /\ Steer(r, d).event = d
    BY DEF Steer
  <2> HIDE DEF x
  <2>4. CASE x.type = "cancel" \/ worker[r] = "stopping"
    BY <1>0, <2>1, <2>4 DEF ChannelsTyped, Spent
  <2>5. CASE x.type # "cancel" /\ worker[r] = "turn"
    <3>1. taken'[r] = (IF x.type = "steer" THEN Append(taken[r], x.event) ELSE taken[r]) /\ ~Spent(r)
      BY <1>0, <2>1, <2>5 DEF ChannelsTyped, Spent
    <3>2. Queued(d, r) <=> Queued(d, r)' \/ x = Steer(r, d)
      BY <2>1, <2>2, FoundMoves DEF Queued, x
    <3>3. (Kept(d, r) \/ x = Steer(r, d)) => Kept(d, r)'
      <4>1. x.type = "steer" => (Kept(d, r)' <=> Kept(d, r) \/ x.event = d)
        BY <2>2, <3>1, FoundMoves DEF Kept
      <4>2. x.type # "steer" => (Kept(d, r)' <=> Kept(d, r))
        BY <3>1 DEF Kept
      <4> QED BY <2>3, <4>1, <4>2
    <3> QED BY <1>3, <1>4, <3>1, <3>2, <3>3
  <2> QED BY <2>1, <2>4, <2>5
<1>5. ASSUME Report(r), Held
      PROVE  Held'
  <2> DEFINE a == Head(taken[r])
  <2>1. /\ worker' = worker /\ controls' = controls /\ taken[r] # <<>> /\ Publish("steered", r, a)
        /\ taken[r] \in Seq(Events) /\ taken'[r] = Tail(taken[r])
    BY <1>0, <1>5 DEF Report, ChannelsTyped
  <2> HIDE DEF a
  <2>2. (Spent(r)' <=> Spent(r)) /\ (Queued(d, r)' <=> Queued(d, r))
    BY <2>1 DEF Spent, Queued
  <2>3. Told(d, r)' <=> Told(d, r) \/ a = d
    BY <1>1, <2>1
  <2>4. Kept(d, r) <=> Kept(d, r)' \/ a = d
    BY <2>1, FoundMoves DEF Kept, a
  <2> QED BY <1>5, <2>2, <2>3, <2>4
<1>6. ASSUME taken'[r] = taken[r], controls'[r] = controls[r], Spent(r) => Spent(r)', Held
      PROVE  Held'
  BY <1>3, <1>6 DEF Kept, Queued
<1>7. ASSUME NEW s \in {"completed", "failed", "cancelled"}, Respond(r, s), Held
      PROVE  Held'
  <2>1. /\ controls' = controls /\ worker[r] \in {"turn", "stopping"}
        /\ \/ taken' = taken /\ worker[r] = "turn"
           \/ worker' = [worker EXCEPT ![r] = "ending"]
    BY <1>7 DEF Respond, channelVars
  <2> QED BY <1>0, <1>6, <1>7, <2>1 DEF Spent, ChannelsTyped
<1>8. ASSUME Finish(r) \/ \E s \in {"failed", "interrupted"} : GiveUp(r, s)
      PROVE  Held'
  BY <1>0, <1>8 DEF Finish, GiveUp, Spent, ChannelsTyped
<1>9. ASSUME Ready(r) \/ Say(r) \/ (\E q \in Requests : Ask(r, q)) \/ Continue(r), Held
      PROVE  Held'
  <2>1. UNCHANGED <<taken, controls>> /\ (Spent(r) => Spent(r)')
    BY <1>9 DEF Ready, Say, Ask, Continue, channelVars, workerVars, Spent
  <2> QED BY <1>6, <1>9, <2>1
<1>10. ASSUME NEW p \in RunIds \ {r}, WorkerStep(p), Held
       PROVE  Held'
  <2>1. controls'[r] = controls[r] /\ taken'[r] = taken[r] /\ worker'[r] = worker[r]
    BY <1>10, WorkersApart
  <2> QED BY <1>6, <1>10, <2>1 DEF Spent
<1>11. ASSUME NEW q \in Requests, AskTimeout(q), Held
       PROVE  Held'
  BY <1>6, <1>11 DEF AskTimeout, channelVars, Spent
<1> HIDE DEF Held
<1>12. Held => Held'
  BY <1>4, <1>5, <1>7, <1>8, <1>9, <1>10, <1>11 DEF WorkerNext, WorkerStep
<1> QED BY <1>0, <1>12 DEF Held, Remembered

\* The driver hands a text on to the worker, which is there.
LEMMA SendRemembers ==
  ASSUME Typed, OpenOK, pc \notin {"shutdown", "down"}, NEW x \in todo, Cancels(x) \/ Tells(x),
         NEW r \in RunIds, Hears(r), NEW d \in Events, Remembered(d, r)
  PROVE  Remembered(d, r)'
<1>0. ChannelsTyped /\ todo \subseteq Effects /\ DriverOK
  BY DEF Typed, RunnerTypeOK, ChannelsTyped
<1>1. /\ UNCHANGED <<updates, taken, worker>> /\ todo' = todo \ {x} /\ x \in Effects
      /\ (Send(x.run, x) /\ x.run \in open) \/ UNCHANGED controls
  BY <1>0 DEF Cancels, Tells, ApplyCancel, ApplyControl, workerVars
<1>2. (Told(d, r)' <=> Told(d, r)) /\ (Kept(d, r)' <=> Kept(d, r)) /\ (Spent(r)' <=> Spent(r))
  BY <1>1 DEF Told, Kept, Spent
<1>3. Queued(d, r) => Queued(d, r)'
  <2>1. CASE controls'[r] = controls[r]
    BY <2>1 DEF Queued
  <2>2. CASE controls'[r] # controls[r]
    <3>1. controls'[r] = Append(controls[r], x) /\ controls[r] \in Seq(Effects)
      BY <1>0, <1>1, <2>2, SendAdds, EffectFields DEF ChannelsTyped
    <3> QED BY <1>1, <3>1, FoundMoves DEF Queued
  <2> QED BY <2>1, <2>2
<1>4. CASE x = Steer(r, d)
  <2>1. x.type = "steer" /\ x.run = r
    BY <1>4 DEF Steer
  <2>2. CASE worker[r] \in Gone
    BY <1>2, <2>2 DEF Gone, Spent, Remembered
  <2>3. CASE worker[r] \notin Gone
    <3>0. Send(r, x)
      BY <2>1, <2>3 DEF OpenOK, Cancels, Tells, ApplyCancel, ApplyControl
    <3>1. \E i \in DOMAIN controls'[r] : controls'[r][i] = x
      BY <1>0, <1>1, <2>1, <2>3, <3>0, SendReaches DEF Gone
    <3>2. Queued(d, r)'
      BY <1>4, <3>1 DEF Queued, Found
    <3> QED BY <3>2 DEF Remembered
  <2> QED BY <2>2, <2>3
<1>5. CASE x # Steer(r, d)
  BY <1>1, <1>2, <1>3, <1>5 DEF Remembered
<1> QED BY <1>4, <1>5

\* What waits for an agent that listens stays on its way.
LEMMA NextRemembered ==
  ASSUME Typed, OpenOK, HeldOK, RequestsOK, FreshOK, RememberedOK, [RunnerNext]_runnerVars
  PROVE  RememberedOK'
<1> SUFFICES ASSUME pc' \notin {"shutdown", "down"}, NEW r \in RunIds, Hears(r)', NEW d \in Events, Sent(d, r)'
             PROVE  Remembered(d, r)'
  BY DEF RememberedOK
<1>0. ChannelsTyped /\ PlaceTyped /\ JournalOK /\ DriverOK
  BY DEF Typed, RunnerTypeOK, ChannelsTyped, PlaceTyped
<1>1. CASE Operates
  <2>0. /\ Operation /\ todo = {} /\ todo' = effects' /\ pc \notin {"shutdown", "down"}
        /\ UNCHANGED <<updates, taken, controls, worker>>
    BY <1>1 DEF Operates, channelVars, workerVars
  <2>1. CASE steer[d] = "none"
    BY <1>0, <2>0, <2>1, FollowUpsAreTold DEF Sent, Hears, Remembered
  <2>2. CASE Sent(d, r)
    <3>1. Hears(r)
      BY <1>0, <2>0, OperationHears
    <3>2. Remembered(d, r)
      BY <2>0, <2>2, <3>1 DEF RememberedOK
    <3> QED BY <2>0, <3>2 DEF Remembered, Spent, Told, Kept, Queued
  <2> QED BY <2>1, <2>2, SentOrArrives
<1>2. CASE ~Operates
  <2>1. Sent(d, r) /\ \A p \in Policies : ~Restart(p)
    BY <1>2, SentBefore
  <2>2. Hears(r)
    BY <2>1, HearsBefore DEF FreshOK
  <2>3. Remembered(d, r) \/ pc \in {"shutdown", "down"}
    BY <2>1, <2>2 DEF RememberedOK
  <2>4. Steer(r, d).type = "steer"
    BY DEF Steer
  <2>5. CASE Proceeds \/ TimePasses \/ UNCHANGED runnerVars
    <3>1. UNCHANGED <<pc, updates, taken, controls, worker, todo>> \/ Proceeds
      BY <2>5 DEF TimePasses, channelVars, workerVars, driverVars, runnerVars
    <3>2. pc \notin {"shutdown", "down"} /\ UNCHANGED <<updates, taken, controls, worker, todo>>
      BY <3>1 DEF Proceeds, channelVars, workerVars
    <3> QED BY <2>3, <3>2 DEF Remembered, Spent, Told, Kept, Queued
  <2>6. CASE ApplyFails
    <3>1. Steer(r, d) \notin todo /\ UNCHANGED <<updates, taken, controls, worker>> /\ pc \notin {"shutdown", "down"}
      BY <1>0, <2>4, <2>6 DEF ApplyFails, DriverOK, channelVars, workerVars
    <3> QED BY <2>3, <3>1 DEF Remembered, Spent, Told, Kept, Queued
  <2>7. ASSUME NEW x \in todo, Starts(x)
        PROVE  Remembered(d, r)'
    <3>1. x.run # r /\ x.run \in RunIds /\ x.type = "start"
      BY <1>0, <2>2, <2>7, EffectFields DEF PlaceTyped, Starts, ApplyStart, Started, Hears
    <3>2. UNCHANGED <<pc, updates, taken, controls>> /\ worker'[r] = worker[r] /\ todo' = todo \ {x}
      BY <1>0, <2>7, <3>1 DEF Starts, ApplyStart, ChannelsTyped
    <3> QED BY <2>3, <2>4, <3>1, <3>2 DEF Remembered, Spent, Told, Kept, Queued
  <2>8. ASSUME NEW x \in todo, Cancels(x) \/ Tells(x)
        PROVE  Remembered(d, r)'
    <3>1. pc' = pc
      BY <2>8 DEF Cancels, Tells
    <3> QED BY <2>2, <2>3, <2>8, <3>1, SendRemembers
  <2>9. CASE Receive
    <3>1. Told(d, r)' <=> Told(d, r)
      BY <2>1, <2>2, <2>9, ReceivesOthers
    <3>2. UNCHANGED <<pc, taken, controls, worker, todo>>
      BY <2>9 DEF Receive, driverVars, workerVars
    <3> QED BY <2>3, <3>1, <3>2 DEF Remembered, Spent, Kept, Queued
  <2>10. CASE WorkerNext
    <3>1. pc' = pc
      BY <2>10 DEF WorkerNext, driverVars
    <3> QED BY <2>3, <2>10, <3>1, WorkerRemembers
  <2>11. ~(Shutdown \/ Exit \/ Crash)
    BY DEF Shutdown, Exit, Crash, Vanish
  <2> QED BY <1>2, <2>1, <2>5, <2>6, <2>7, <2>8, <2>9, <2>10, <2>11, RunnerKinds DEF Other
<1> QED BY <1>1, <1>2

-----------------------------------------------------------------------------
(* The running process is what the ledger allows *)

\* Continuations take all that waits for a run that ended.
LEMMA ContinuedTogether ==
  ASSUME JournalOK, PendingBound, WaitsAlone, RequestsOK, Operation,
         NEW e \in Events, steer[e] = "pending", steer'[e] = "delivered",
         NEW d \in Events, steer[d] = "pending", steerRun[d] = steerRun[e]
  PROVE  steer'[d] # "pending"
<1>1. status[steerRun[e]] \in Resumable /\ steerRun[e] \in RunIds
  BY OperationSteers DEF JournalOK, ForeignKeys
<1>2. ResumePendingSteers
  <2> USE DEF JournalOK, TypeOK
  <2>1. CASE Quiet
    BY <2>1 DEF Quiet, steerVars
  <2>2. ASSUME NEW x \in Events, NEW snap \in Snapshots, NEW r \in RunIds, HandleFollowUp(x, snap, r) \/ HandleRequest(x, snap, r)
        PROVE  FALSE
    BY <2>2 DEF HandleFollowUp, HandleRequest, steerVars
  <2>3. ASSUME NEW x \in Events, NEW snap \in Snapshots, CommandStop(x, snap)
        PROVE  FALSE
    BY <2>3 DEF CommandStop
  <2>4. ASSUME NEW x \in Events, NEW r \in RunIds, Steered(r, x)
        PROVE  FALSE
    BY <1>1, <2>4 DEF Steered, Hears, Resumable
  <2>5. ASSUME NEW r \in RunIds, NEW s \in Terminal, Finished(r, s)
        PROVE  FALSE
    BY <2>5 DEF Finished, steerVars
  <2>6. ASSUME NEW room \in Rooms, NEW snap \in Snapshots, ReconcileRoom(room, snap)
        PROVE  FALSE
    BY <2>6 DEF ReconcileRoom
  <2>7. ASSUME NEW p \in Policies, Recover(p)
        PROVE  FALSE
    BY <2>7 DEF Recover
  <2>8. JournalOK /\ [Next]_vars
    BY DEF Operation, Next
  <2> HIDE DEF JournalOK, TypeOK
  <2> QED BY <2>1, <2>2, <2>3, <2>4, <2>5, <2>6, <2>7, <2>8, StepKinds
<1>3. PICK started \in SUBSET RunIds : Continues(started)
  BY <1>2, ResumeMoves
<1>4. NoneWaits'
  BY <1>2, ResumeClears
<1>5. status'[steerRun[e]] = status[steerRun[e]]
  BY <1>1, <1>3 DEF Continues, Resumable
<1> QED BY <1>1, <1>3, <1>4, <1>5 DEF Continues, NoneWaits, Waiting

\* A report that is heard is of the first message that waits for its run.
LEMMA StepReports ==
  ASSUME Typed, OpenOK, RequestsOK, LimitOK, QueueOK, [RunnerNext]_runnerVars
  PROVE  ReportsInOrder
<1> SUFFICES ASSUME AfterTurn, NEW e \in Events, NEW d \in Events,
                    steer[e] = "pending", steer'[e] = "delivered", steer[d] = "pending", steer'[d] = "pending",
                    steerRun[d] = steerRun[e], NoLater(d, e)
             PROVE  FALSE
  BY DEF ReportsInOrder
<1>1. CASE Operates
  BY <1>1, ContinuedTogether DEF Operates, Typed, LimitOK
<1>2. CASE Receive
  <2> DEFINE u == Head(updates)
  <2>1. u \in Published /\ updates \in Seq(Published) /\ updates # <<>>
    BY <1>2, Tailed DEF Receive, Typed
  <2>2. Hear(u) \/ UNCHANGED vars
    BY <1>2 DEF Receive
  <2> HIDE DEF u
  <2>3. Hear(u) /\ u.type = "steered" /\ u.about = e /\ u.run = steerRun[e]
    BY <2>1, <2>2, HearSteers DEF vars, steerVars
  <2> DEFINE r == steerRun[e]
  <2>4. r \in RunIds /\ Hears(r) /\ u \in ReportsOf(e, r)
    BY <2>1, <2>3, UpdateFields DEF Hear, Steered, ReportsOf
  <2>5. d # e /\ Sent(d, r) /\ Sent(e, r)
    BY DEF Sent
  <2> HIDE DEF r
  <2>6. Precedes(updates, ReportsOf(d, r), ReportsOf(e, r))
    BY <2>4, <2>5 DEF QueueOK, InLineOK, InLine
  <2> QED BY <2>1, <2>4, <2>6, PrecedesTail DEF u
<1> QED BY <1>1, <1>2, OthersDropSteers

\* A message starts a run only after all that waited was continued.
LEMMA StepContinues ==
  ASSUME Typed, LimitOK, [RunnerNext]_runnerVars
  PROVE  OlderContinueFirst
<1> SUFFICES ASSUME NEW e \in Staged, batch'[e] = "inflight"
             PROVE  PendingSteers(ConvOf[e], Resumable) = {}
  BY DEF OlderContinueFirst
<1>1. JournalOK /\ [Next]_vars /\ e \in Events /\ batch[e] = "none"
  BY JournalStep DEF Typed, Staged
<1>2. PICK snap \in Snapshots, r \in RunIds : HandleFollowUp(e, snap, r) \/ HandleRequest(e, snap, r)
  BY <1>1, StagingStep
<1>3. HandleRequest(e, snap, r)
  BY <1>1, <1>2 DEF HandleFollowUp, JournalOK, TypeOK
<1>4. status[r] = "none" /\ status'[r] = "queued"
  BY <1>1, <1>3 DEF HandleRequest, JournalOK, TypeOK
<1>5. ~CreatesNone
  BY <1>4 DEF CreatesNone
<1>6. ~ResumePendingSteers
  <2> SUFFICES ASSUME ResumePendingSteers
               PROVE  FALSE
    OBVIOUS
  <2>1. batch'[e] = batch[e]
    BY <1>1, ResumeMoves DEF Continues
  <2> QED BY <1>1, <2>1
<1>7. pc = "handle" /\ event \notin workload.commands
  BY <1>5, <1>6, Creations DEF KeepsClear
<1>8. NoneWaits
  BY <1>7 DEF LimitOK, ClearedFirst
<1> QED BY <1>8 DEF NoneWaits, Waiting, PendingSteers

\* Where follow-ups are steered after turns, their texts are handed on and
\* reported in the order of receipt.
THEOREM QueueCorrect == RunnerSpec => []QueueOK
<1>1. RunnerInit => QueueOK
  <2> SUFFICES ASSUME RunnerInit
               PROVE  FreshOK /\ RememberedOK /\ InLineOK
    BY DEF QueueOK
  <2>1. \A e \in Events, r \in RunIds : ~Sent(e, r)
    BY DEF RunnerInit, Init, Sent
  <2> QED BY <2>1 DEF FreshOK, RememberedOK, InLineOK
<1>2. Typed /\ OpenOK /\ HeldOK /\ RequestsOK /\ GivenOK /\ QueueOK /\ [RunnerNext]_runnerVars => QueueOK'
  BY NextFresh, NextRemembered, NextInLine DEF QueueOK
<1> QED
  BY <1>1, <1>2, RunnerCorrect, OpenCorrect, HeldCorrect, GivenCorrect, RunnerJournal, RequestsCorrect, PTL DEF RunnerSpec

\* Contents are kept for every message.
ContentsTyped ==
  /\ lines = [e \in Events |-> lines[e]]
  /\ baseline = [e \in Events |-> baseline[e]]
  /\ stagedIn = [e \in Events |-> stagedIn[e]]

\* KeepsOrder of Runner: where follow-ups are steered after turns they are
\* confirmed in the order of receipt, and older ones are continued first.
THEOREM KeepsOrderCorrect == RunnerSpec => KeepsOrder
<1>1. Typed /\ OpenOK /\ RequestsOK /\ LimitOK /\ QueueOK /\ [RunnerNext]_runnerVars
        => ReportsInOrder /\ OlderContinueFirst
  BY StepReports, StepContinues
<1>2. Typed /\ OpenOK /\ RequestsOK /\ LimitOK /\ QueueOK /\ [RunnerNext]_runnerVars
        => [ReportsInOrder /\ OlderContinueFirst]_runnerVars
  BY <1>1
<1> QED
  BY <1>2, RunnerCorrect, OpenCorrect, RunnerJournal, RequestsCorrect, LimitCorrect, QueueCorrect, PTL
     DEF RunnerSpec, KeepsOrder

\* The process is one of Runner's.
THEOREM ProcessRuns == ProcessSpec => RunnerSpec
<1>1. ProcessInit => RunnerInit
  BY DEF ProcessInit
<1>2. [ProcessNext]_processVars => [RunnerNext]_runnerVars
  BY DEF ProcessNext, processVars
<1> QED BY <1>1, <1>2, PTL DEF ProcessSpec, RunnerSpec

\* A step of the process is one of the ledger.
LEMMA ProcessStep ==
  ASSUME Typed, OpenOK, RequestsOK, LimitOK, QueueOK, ContentsTyped, [ProcessNext]_processVars
  PROVE  [LedgerNext]_ledgerVars /\ ContentsTyped'
<1>1. CASE ProcessNext
  <2>1. RunnerNext /\ Stage
    BY <1>1 DEF ProcessNext
  <2>2. [Next]_vars /\ ReportsInOrder /\ OlderContinueFirst
    BY <2>1, JournalStep, StepReports, StepContinues
  <2>3. ContentsTyped'
    BY <2>1 DEF Stage, ContentsTyped
  <2>4. UNCHANGED vars => UNCHANGED contentVars
    <3> SUFFICES ASSUME UNCHANGED vars
                 PROVE  UNCHANGED contentVars
      OBVIOUS
    <3>1. Staged = {}
      BY DEF Staged, vars, batchVars
    <3>2. \A e \in Events : e \notin Staged
      BY <3>1
    <3> QED BY <2>1, <3>2 DEF Stage, ContentsTyped, contentVars
  <2> QED BY <2>1, <2>2, <2>3, <2>4 DEF LedgerNext, ledgerVars
<1>2. CASE UNCHANGED processVars
  BY <1>2 DEF processVars, runnerVars, contentVars, ledgerVars, ContentsTyped
<1> QED BY <1>1, <1>2

\* KeepsLedger of RunnerLedger: every behaviour of the process is one the
\* specification of the ledger allows.
THEOREM ProcessKeepsLedger == ProcessSpec => KeepsLedger
<1>1. ProcessInit => LedgerInit /\ ContentsTyped
  BY DEF ProcessInit, LedgerInit, ContentsTyped
<1>2. Typed /\ OpenOK /\ RequestsOK /\ LimitOK /\ QueueOK /\ ContentsTyped /\ [ProcessNext]_processVars
        => [LedgerNext]_ledgerVars /\ ContentsTyped'
  BY ProcessStep
<1> QED
  BY <1>1, <1>2, ProcessRuns, RunnerCorrect, OpenCorrect, RunnerJournal, RequestsCorrect, LimitCorrect, QueueCorrect, PTL
     DEF ProcessSpec, KeepsLedger, LedgerSpec

\* LinesOnce and ContextIsComplete of ContextLedger hold of the running process,
\* whatever its workers, its channels, stops and crashes do.
THEOREM ProcessContext ==
  /\ ProcessSpec => []LinesOnce
  /\ AfterTurn => (ProcessSpec => []ContextIsComplete)
<1>1. ProcessSpec => []LinesOnce
  BY ProcessKeepsLedger, LinesOnceCorrect, PTL DEF KeepsLedger
<1>2. ASSUME AfterTurn
      PROVE  ProcessSpec => []ContextIsComplete
  BY <1>2, ProcessKeepsLedger, ContextCorrect, PTL DEF KeepsLedger
<1> QED BY <1>1, <1>2
=============================================================================
