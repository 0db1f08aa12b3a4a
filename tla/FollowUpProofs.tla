---------------------------- MODULE FollowUpProofs ----------------------------
(***************************************************************************)
(* Proofs about the requests of Bridge, for every value of the constants:  *)
(* what becomes of a message between its receipt and the report of its     *)
(* work.                                                                   *)
(*                                                                         *)
(* RequestsOK is the inductive invariant.  Its parts relate the tables     *)
(* inbox, run_inputs, run_steers, context_batches and outbox_reactions;    *)
(* none of them is inductive alone.  StepKinds reduces the two dozen       *)
(* operations to the eight that move a request and the quiet rest.         *)
(*                                                                         *)
(* The last part is about follow-ups that outlived their run: which        *)
(* conversations they occupy until they are continued.                     *)
(***************************************************************************)
EXTENDS BridgeProofs, SequenceTheorems

Live == {"queued", "running", "waiting_approval"}

\* An event is recorded once, before anything else refers to it.
InboxOnce == \A i, j \in DOMAIN inbox : inbox[i] = inbox[j] => i = j

Recorded ==
  \A e \in Events :
    (steer[e] # "none" \/ batch[e] # "none" \/ marks[e] # <<>> \/ \E r \in RunIds : input[r] = e)
      => e \in Received

\* A run works on messages of its own conversation.
ConversationsAgree ==
  /\ \A r \in RunIds : status[r] # "none" => ConvOf[input[r]] = owner[r]
  /\ \A e \in Events : steer[e] # "none" => ConvOf[e] = owner[steerRun[e]]

\* The input of a run is a message of its own or a follow-up it took over.
InputsAreGiven ==
  /\ \A r, q \in RunIds : status[r] # "none" /\ status[q] # "none" /\ input[r] = input[q] => r = q
  /\ \A r \in RunIds :
       status[r] # "none" =>
         \/ steer[input[r]] = "none"
         \/ steer[input[r]] = "delivered" /\ steerRun[input[r]] = r

\* A batch waits at a run that is not stopped only together with its follow-up.
PendingTogether ==
  \A e \in Events :
    batch[e] = "pending" /\ status[batchRun[e]] \in Live =>
      steer[e] = "pending" /\ steerRun[e] = batchRun[e]

\* A message that still awaits work, or is being worked on, is acknowledged and
\* not reported.
MarksFollowWork ==
  \A e \in Events :
    (steer[e] = "pending" \/ \E r \in RunIds : Feeds(e, r) /\ status[r] \in Active)
      => marks[e] = <<"eyes">>

\* The stop of a notice is recorded in the conversation of the notice.
StopsRecorded == \A n \in notices : n.kind = "stop" => n.about \in Received

RequestsOK ==
  /\ InboxOnce
  /\ Recorded
  /\ ConversationsAgree
  /\ InputsAreGiven
  /\ PendingTogether
  /\ LedgerIsHonest
  /\ FollowUpKeepsContext
  /\ MarksFollowWork
  /\ MarksInOrder
  /\ StopsRecorded
  /\ StopSettlesEarlier

-----------------------------------------------------------------------------
(* What the operations do to requests *)

\* Event e is recorded by this step.
Arrives(e) == e \notin Received /\ inbox' = Append(inbox, e)

\* The process keeps its configuration and a conversation its binding.
BindingStays ==
  /\ policy' = policy
  /\ \A c \in Conversations : binding[c] # None => binding'[c] = binding[c]

\* A step that moves no request: at most a message is recorded that becomes
\* none, sent batches are confirmed and runs go on.
Quiet ==
  /\ BindingStays
  /\ UNCHANGED <<owner, input, steerVars, batchRun, marks>>
  /\ inbox' = inbox \/ \E e \in Events : Arrives(e)
  /\ batch' = batch \/ \E r \in RunIds : batch' = Observe(r)
  /\ \A r \in RunIds : status'[r] = status[r] \/ (status[r] \in Live /\ status'[r] \in Live)
  /\ \A n \in notices' \ notices : n.kind # "stop"

\* Every operation either is quiet or is one of the eight that move requests.
LEMMA StepKinds ==
  ASSUME JournalOK, [Next]_vars
  PROVE  \/ Quiet
         \/ \E e \in Events, snap \in Snapshots, r \in RunIds : HandleFollowUp(e, snap, r)
         \/ \E e \in Events, snap \in Snapshots, r \in RunIds : HandleRequest(e, snap, r)
         \/ \E e \in Events, snap \in Snapshots : CommandStop(e, snap)
         \/ \E r \in RunIds, e \in Events : Steered(r, e)
         \/ \E r \in RunIds, s \in Terminal : Finished(r, s)
         \/ ResumePendingSteers
         \/ \E room \in Rooms, snap \in Snapshots : ReconcileRoom(room, snap)
         \/ \E p \in Policies : Recover(p)
<1> USE DEF Quiet, BindingStays, Live, Arrives, JournalOK, TypeOK, convVars, runVars, steerVars, batchVars, outboxVars, Notice
<1>1. ASSUME NEW e \in Events, NEW snap \in Snapshots, HandleBlank(e, snap)
      PROVE  Quiet
  BY <1>1 DEF HandleBlank, Message, Record
<1>2. ASSUME NEW e \in Events, NEW snap \in Snapshots, HandleAtLimit(e, snap)
      PROVE  Quiet
  BY <1>2 DEF HandleAtLimit, Message, Record, Reply
<1>3. ASSUME NEW e \in Events, NEW snap \in Snapshots, CommandInform(e, snap)
      PROVE  Quiet
  BY <1>3 DEF CommandInform, Command, Record, Reply
<1>4. ASSUME NEW e \in Events, NEW snap \in Snapshots, NEW mode \in {"on", "off"}, CommandPermissions(e, snap, mode)
      PROVE  Quiet
  BY <1>4 DEF CommandPermissions, Command, Record, Reply
<1>5. ASSUME NEW e \in Events, NEW snap \in Snapshots, NEW q \in Requests, NEW option \in Options, CommandApprove(e, snap, q, option)
      PROVE  Quiet
  BY <1>5 DEF CommandApprove, Command, Record, Reply, Settle
<1>6. ASSUME NEW r \in RunIds, Started(r)
      PROVE  Quiet
  BY <1>6 DEF Started
<1>7. ASSUME NEW r \in RunIds, NEW s \in Sessions, SessionReady(r, s)
      PROVE  Quiet
  BY <1>7 DEF SessionReady
<1>8. ASSUME NEW r \in RunIds, Text(r)
      PROVE  Quiet
  BY <1>8 DEF Text, Observe
<1>9. ASSUME NEW r \in RunIds, Tool(r)
      PROVE  Quiet
  BY <1>9 DEF Tool, Observe, Flush
<1>10. ASSUME NEW r \in RunIds, NEW q \in Requests, NEW allow \in BOOLEAN, Permission(r, q, allow)
       PROVE  Quiet
  BY <1>10 DEF Permission, Observe, Hears
<1>11. ASSUME NEW r \in RunIds, NEW q \in Requests, PermissionRepeated(r, q)
       PROVE  Quiet
  BY <1>11 DEF PermissionRepeated, Flush
<1>12. ASSUME NEW q \in Requests, Lapse(q)
       PROVE  Quiet
  BY <1>12 DEF Lapse
<1>13. ASSUME AutomaticApprovals
       PROVE  Quiet
  BY <1>13 DEF AutomaticApprovals, Settle
<1>14. ASSUME ExpireApprovals
       PROVE  Quiet
  BY <1>14 DEF ExpireApprovals, Settle
<1>15. ASSUME NEW r \in RunIds, ExplicitMessage(r)
       PROVE  Quiet
  BY <1>15 DEF ExplicitMessage, Observe
<1>16. CASE UNCHANGED vars
  BY <1>16 DEF vars
<1> HIDE DEF Quiet
<1> QED
  BY <1>1, <1>2, <1>3, <1>4, <1>5, <1>6, <1>7, <1>8, <1>9, <1>10, <1>11, <1>12, <1>13, <1>14, <1>15, <1>16
     DEF Next, Handle, HandleMessage, HandleCommand, AgentEvent

\* A new event comes after all earlier ones and leaves their order alone.
LEMMA ArrivalIsLast ==
  ASSUME JournalOK, InboxOnce, NEW e \in Events, Arrives(e)
  PROVE  /\ InboxOnce'
         /\ Received' = Received \cup {e}
         /\ \A d, x \in Events : x \in Received => (NoLater(d, x)' <=> NoLater(d, x))
         /\ \A d \in Events : NoLater(d, e)' => d \in Received'
<1>1. inbox \in Seq(Events) /\ inbox' = Append(inbox, e)
  BY DEF JournalOK, TypeOK, Arrives
<1>2. /\ Len(inbox) \in Nat
      /\ DOMAIN inbox = 1..Len(inbox)
      /\ DOMAIN inbox' = 1..(Len(inbox) + 1)
      /\ \A i \in 1..Len(inbox) : inbox'[i] = inbox[i]
      /\ inbox'[Len(inbox) + 1] = e
  BY <1>1
<1>3. e \notin Received
  BY DEF Arrives
<1>4. Received' = Received \cup {e}
  BY <1>2 DEF Received
<1>5. \A i \in 1..Len(inbox) : inbox[i] # e
  BY <1>2, <1>3 DEF Received
<1>6. InboxOnce'
  BY <1>2, <1>5 DEF InboxOnce
<1>7. ASSUME NEW d \in Events, NEW x \in Events, x \in Received
      PROVE  NoLater(d, x)' <=> NoLater(d, x)
  <2>1. x # e
    BY <1>3, <1>7
  <2> QED BY <1>2, <2>1 DEF NoLater
<1>8. ASSUME NEW d \in Events, NoLater(d, e)'
      PROVE  d \in Received'
  BY <1>8 DEF NoLater, Received
<1> QED BY <1>4, <1>6, <1>7, <1>8

\* A quiet step keeps what is recorded and in which order.
LEMMA QuietInbox ==
  ASSUME JournalOK, InboxOnce, Quiet
  PROVE  /\ InboxOnce'
         /\ Received \subseteq Received'
         /\ \A d, x \in Events : x \in Received => (NoLater(d, x)' <=> NoLater(d, x))
<1>1. CASE inbox' = inbox
  BY <1>1 DEF InboxOnce, Received, NoLater
<1>2. CASE \E e \in Events : Arrives(e)
  BY <1>2, ArrivalIsLast
<1> QED BY <1>1, <1>2 DEF Quiet

\* A quiet step changes of the requests and their runs only whether a sent batch
\* is confirmed and how far a live run is.
LEMMA QuietRequests ==
  ASSUME Quiet
  PROVE  /\ owner' = owner /\ input' = input /\ steer' = steer /\ steerRun' = steerRun
         /\ batchRun' = batchRun /\ marks' = marks
         /\ \A e \in Events : batch'[e] # batch[e] => batch[e] = "inflight" /\ batch'[e] = "delivered"
         /\ \A r \in RunIds :
              \/ status'[r] = status[r]
              \/ status[r] \in Live \ {"none"} /\ status'[r] \in Live \ {"none"}
<1>1. ASSUME NEW e \in Events, batch'[e] # batch[e]
      PROVE  batch[e] = "inflight" /\ batch'[e] = "delivered"
  BY <1>1 DEF Quiet, Observe
<1> QED BY <1>1 DEF Quiet, steerVars, Live

\* What a continuation does to each run and to each message.
Continues(started) ==
  /\ \A r \in RunIds :
       IF r \in started
       THEN /\ status[r] = "none" /\ status'[r] = "queued"
            /\ input'[r] \in Events /\ steer[input'[r]] = "pending"
            /\ steer'[input'[r]] = "delivered" /\ steerRun'[input'[r]] = r
            /\ owner'[r] = owner[steerRun[input'[r]]]
       ELSE status'[r] = status[r] /\ owner'[r] = owner[r] /\ input'[r] = input[r]
  /\ \A e \in Events :
       \/ /\ steer'[e] = steer[e] /\ steerRun'[e] = steerRun[e]
          /\ batch'[e] = batch[e] /\ batchRun'[e] = batchRun[e]
       \/ /\ steer[e] = "pending" /\ steer'[e] = "delivered"
          /\ steerRun[e] \in RunIds \ started /\ status[steerRun[e]] \in Resumable
          /\ steerRun'[e] \in started /\ owner'[steerRun'[e]] = owner[steerRun[e]]
          /\ IF batch[e] = "pending"
             THEN batch'[e] = "inflight" /\ batchRun'[e] = steerRun'[e]
             ELSE batch'[e] = batch[e] /\ batchRun'[e] = batchRun[e]
  /\ inbox' = inbox /\ marks' = marks /\ notices' = notices

\* resume_pending_steers moves follow-ups of ended runs to new ones, and nothing else.
LEMMA ResumeMoves ==
  ASSUME JournalOK, ResumePendingSteers
  PROVE  \E started \in SUBSET RunIds : Continues(started)
<1>1. PICK started \in SUBSET RunIds : ResumesInto(started)
  BY ResumeCreates
<1>2. ASSUME NEW r \in started
      PROVE  /\ status[r] = "none" /\ status'[r] = "queued"
             /\ input'[r] \in Events /\ steer[input'[r]] = "pending"
             /\ steer'[input'[r]] = "delivered" /\ steerRun'[input'[r]] = r
             /\ owner'[r] = owner[steerRun[input'[r]]]
  <2>1. /\ status[r] = "none" /\ status'[r] = "queued" /\ input'[r] \in Events
        /\ steer[input'[r]] = "pending" /\ steerRun'[input'[r]] = r
    BY <1>1 DEF ResumesInto, SetStatus
  <2>2. steerRun[input'[r]] # r
    BY <2>1 DEF JournalOK, ForeignKeys
  <2> QED BY <1>1, <2>1, <2>2 DEF ResumesInto
<1>3. ASSUME NEW r \in RunIds \ started
      PROVE  status'[r] = status[r] /\ owner'[r] = owner[r] /\ input'[r] = input[r]
  BY <1>1 DEF ResumesInto, SetStatus
<1>4. ASSUME NEW e \in Events
      PROVE  \/ /\ steer'[e] = steer[e] /\ steerRun'[e] = steerRun[e]
                /\ batch'[e] = batch[e] /\ batchRun'[e] = batchRun[e]
             \/ /\ steer[e] = "pending" /\ steer'[e] = "delivered"
                /\ steerRun[e] \in RunIds \ started /\ status[steerRun[e]] \in Resumable
                /\ steerRun'[e] \in started /\ owner'[steerRun'[e]] = owner[steerRun[e]]
                /\ IF batch[e] = "pending"
                   THEN batch'[e] = "inflight" /\ batchRun'[e] = steerRun'[e]
                   ELSE batch'[e] = batch[e] /\ batchRun'[e] = batchRun[e]
  BY <1>1 DEF ResumesInto, JournalOK, ForeignKeys
<1>5. inbox' = inbox /\ marks' = marks /\ notices' = notices
  BY <1>1 DEF ResumesInto, outboxVars
<1> QED BY <1>2, <1>3, <1>4, <1>5 DEF Continues

-----------------------------------------------------------------------------
(* The parts of RequestsOK *)

\* An operation refers only to messages that are recorded, and records each once.
LEMMA NextRecorded ==
  ASSUME JournalOK, InboxOnce, Recorded, [Next]_vars
  PROVE  InboxOnce' /\ Recorded'
<1> USE DEF Recorded, JournalOK, TypeOK, ForeignKeys, runVars, steerVars, batchVars, outboxVars
<1>1. ASSUME Quiet
      PROVE  InboxOnce' /\ Recorded'
  BY <1>1, QuietInbox, QuietRequests
<1>2. ASSUME NEW e \in Events, NEW snap \in Snapshots, NEW r \in RunIds, HandleFollowUp(e, snap, r)
      PROVE  InboxOnce' /\ Recorded'
  <2>1. Received' = Received \cup {e} /\ InboxOnce'
    BY <1>2, ArrivalIsLast DEF HandleFollowUp, Message, Record, Arrives
  <2> QED BY <1>2, <2>1 DEF HandleFollowUp
<1>3. ASSUME NEW e \in Events, NEW snap \in Snapshots, NEW r \in RunIds, HandleRequest(e, snap, r)
      PROVE  InboxOnce' /\ Recorded'
  <2>1. Received' = Received \cup {e} /\ InboxOnce'
    BY <1>3, ArrivalIsLast DEF HandleRequest, Message, Record, Arrives
  <2> QED BY <1>3, <2>1 DEF HandleRequest
<1>4. ASSUME NEW e \in Events, NEW snap \in Snapshots, CommandStop(e, snap)
      PROVE  InboxOnce' /\ Recorded'
  <2>1. Received' = Received \cup {e} /\ InboxOnce'
    BY <1>4, ArrivalIsLast DEF CommandStop, Command, Record, Arrives
  <2> QED BY <1>4, <2>1 DEF CommandStop, DroppedByStop, PendingSteers
<1>5. ASSUME NEW r \in RunIds, NEW e \in Events, Steered(r, e)
      PROVE  InboxOnce' /\ Recorded'
  BY <1>5 DEF Steered, Received, InboxOnce
<1>6. ASSUME NEW r \in RunIds, NEW s \in Terminal, Finished(r, s)
      PROVE  InboxOnce' /\ Recorded'
  BY <1>6 DEF Finished, EndBatch, Reported, Received, InboxOnce
<1>7. ASSUME ResumePendingSteers
      PROVE  InboxOnce' /\ Recorded'
  <2>1. PICK started \in SUBSET RunIds : Continues(started)
    BY <1>7, ResumeMoves
  <2> QED BY <2>1 DEF Continues, Received, InboxOnce
<1>8. ASSUME NEW room \in Rooms, NEW snap \in Snapshots, ReconcileRoom(room, snap)
      PROVE  InboxOnce' /\ Recorded'
  BY <1>8 DEF ReconcileRoom, Received, InboxOnce
<1>9. ASSUME NEW p \in Policies, Recover(p)
      PROVE  InboxOnce' /\ Recorded'
  BY <1>9 DEF Recover, Received, InboxOnce
<1> QED
  BY <1>1, <1>2, <1>3, <1>4, <1>5, <1>6, <1>7, <1>8, <1>9, StepKinds

\* An operation gives a run only messages of its own conversation.
LEMMA NextConversations ==
  ASSUME JournalOK, ConversationsAgree, [Next]_vars
  PROVE  ConversationsAgree'
<1> USE DEF ConversationsAgree, JournalOK, TypeOK, ForeignKeys, runVars, steerVars, batchVars, outboxVars
<1>1. ASSUME Quiet
      PROVE  ConversationsAgree'
  BY <1>1, QuietRequests
<1>2. ASSUME NEW e \in Events, NEW snap \in Snapshots, NEW r \in RunIds, HandleFollowUp(e, snap, r)
      PROVE  ConversationsAgree'
  BY <1>2 DEF HandleFollowUp, ActiveRunsOf, ActiveRuns
<1>3. ASSUME NEW e \in Events, NEW snap \in Snapshots, NEW r \in RunIds, HandleRequest(e, snap, r)
      PROVE  ConversationsAgree'
  BY <1>3 DEF HandleRequest
<1>4. ASSUME NEW e \in Events, NEW snap \in Snapshots, CommandStop(e, snap)
      PROVE  ConversationsAgree'
  BY <1>4 DEF CommandStop, SetStatus, ActiveRunsOf, ActiveRuns, Active, DroppedByStop, PendingSteers
<1>5. ASSUME NEW r \in RunIds, NEW e \in Events, Steered(r, e)
      PROVE  ConversationsAgree'
  BY <1>5 DEF Steered
<1>6. ASSUME NEW r \in RunIds, NEW s \in Terminal, Finished(r, s)
      PROVE  ConversationsAgree'
  BY <1>6 DEF Finished, SetStatus, Active
<1>7. ASSUME ResumePendingSteers
      PROVE  ConversationsAgree'
  <2>1. PICK started \in SUBSET RunIds : Continues(started)
    BY <1>7, ResumeMoves
  <2>2. ASSUME NEW r \in RunIds, status'[r] # "none"
        PROVE  ConvOf[input'[r]] = owner'[r]
    <3>1. CASE r \in started
      <4>1. input'[r] \in Events /\ steer[input'[r]] # "none" /\ owner'[r] = owner[steerRun[input'[r]]]
        BY <2>1, <3>1 DEF Continues
      <4> QED BY <4>1
    <3>2. CASE r \notin started
      BY <2>1, <2>2, <3>2 DEF Continues
    <3> QED BY <3>1, <3>2
  <2>3. ASSUME NEW e \in Events, steer'[e] # "none"
        PROVE  ConvOf[e] = owner'[steerRun'[e]]
    <3>1. CASE steer'[e] = steer[e] /\ steerRun'[e] = steerRun[e]
      BY <2>1, <2>3, <3>1 DEF Continues
    <3>2. CASE steer[e] = "pending" /\ owner'[steerRun'[e]] = owner[steerRun[e]]
      BY <3>2
    <3> QED BY <2>1, <3>1, <3>2 DEF Continues
  <2> QED BY <2>2, <2>3
<1>8. ASSUME NEW room \in Rooms, NEW snap \in Snapshots, ReconcileRoom(room, snap)
      PROVE  ConversationsAgree'
  BY <1>8 DEF ReconcileRoom, SetStatus, ActiveRuns, Active
<1>9. ASSUME NEW p \in Policies, Recover(p)
      PROVE  ConversationsAgree'
  BY <1>9 DEF Recover, SetStatus, ActiveRuns, Active
<1> QED
  BY <1>1, <1>2, <1>3, <1>4, <1>5, <1>6, <1>7, <1>8, <1>9, StepKinds

\* No operation gives a message to two runs, and none gives a new run what another
\* has or what was cancelled.
LEMMA NextInputs ==
  ASSUME JournalOK, Recorded, InputsAreGiven, [Next]_vars
  PROVE  InputsAreGiven'
<1> USE DEF InputsAreGiven, JournalOK, TypeOK, ForeignKeys, runVars, steerVars, batchVars, outboxVars
<1>1. ASSUME Quiet
      PROVE  InputsAreGiven'
  BY <1>1, QuietRequests
<1>2. ASSUME NEW e \in Events, NEW snap \in Snapshots, NEW r \in RunIds, HandleFollowUp(e, snap, r)
      PROVE  InputsAreGiven'
  BY <1>2 DEF HandleFollowUp, Message, Record, Recorded
<1>3. ASSUME NEW e \in Events, NEW snap \in Snapshots, NEW r \in RunIds, HandleRequest(e, snap, r)
      PROVE  InputsAreGiven'
  BY <1>3 DEF HandleRequest, Message, Record, Recorded
<1>4. ASSUME NEW e \in Events, NEW snap \in Snapshots, CommandStop(e, snap)
      PROVE  InputsAreGiven'
  BY <1>4 DEF CommandStop, SetStatus, ActiveRunsOf, ActiveRuns, Active, DroppedByStop, PendingSteers
<1>5. ASSUME NEW r \in RunIds, NEW e \in Events, Steered(r, e)
      PROVE  InputsAreGiven'
  BY <1>5 DEF Steered
<1>6. ASSUME NEW r \in RunIds, NEW s \in Terminal, Finished(r, s)
      PROVE  InputsAreGiven'
  BY <1>6 DEF Finished, SetStatus, Active
<1>7. ASSUME ResumePendingSteers
      PROVE  InputsAreGiven'
  <2>1. PICK started \in SUBSET RunIds : Continues(started)
    BY <1>7, ResumeMoves
  <2>2. ASSUME NEW r \in RunIds, NEW q \in RunIds, status'[r] # "none", status'[q] # "none", input'[r] = input'[q]
        PROVE  r = q
    <3>1. CASE r \in started /\ q \in started
      BY <2>1, <2>2, <3>1 DEF Continues
    <3>2. ASSUME NEW x \in started, NEW y \in RunIds \ started, status'[y] # "none", input'[x] = input'[y]
          PROVE  FALSE
      BY <2>1, <3>2 DEF Continues
    <3>3. CASE r \notin started /\ q \notin started
      BY <2>1, <2>2, <3>3 DEF Continues
    <3> QED BY <2>2, <3>1, <3>2, <3>3
  <2>3. ASSUME NEW r \in RunIds, status'[r] # "none"
        PROVE  \/ steer'[input'[r]] = "none"
               \/ steer'[input'[r]] = "delivered" /\ steerRun'[input'[r]] = r
    <3>1. CASE r \in started
      BY <2>1, <3>1 DEF Continues
    <3>2. CASE r \notin started
      <4>1. status[r] # "none" /\ input'[r] = input[r] /\ input[r] \in Events /\ steer[input[r]] # "pending"
        BY <2>1, <2>3, <3>2 DEF Continues
      <4> QED BY <2>1, <4>1 DEF Continues
    <3> QED BY <3>1, <3>2
  <2> QED BY <2>2, <2>3
<1>8. ASSUME NEW room \in Rooms, NEW snap \in Snapshots, ReconcileRoom(room, snap)
      PROVE  InputsAreGiven'
  BY <1>8 DEF ReconcileRoom, SetStatus, ActiveRuns, Active
<1>9. ASSUME NEW p \in Policies, Recover(p)
      PROVE  InputsAreGiven'
  BY <1>9 DEF Recover, SetStatus, ActiveRuns, Active
<1> QED
  BY <1>1, <1>2, <1>3, <1>4, <1>5, <1>6, <1>7, <1>8, <1>9, StepKinds

\* A batch keeps waiting with its follow-up, or its run is being stopped.
LEMMA NextPending ==
  ASSUME JournalOK, ConversationsAgree, PendingTogether, [Next]_vars
  PROVE  PendingTogether'
<1> USE DEF PendingTogether, JournalOK, TypeOK, ForeignKeys, Live, runVars, steerVars, batchVars, outboxVars
<1>1. ASSUME Quiet
      PROVE  PendingTogether'
  <2> SUFFICES ASSUME NEW x \in Events, batch'[x] = "pending", status'[batchRun'[x]] \in Live
               PROVE  steer'[x] = "pending" /\ steerRun'[x] = batchRun'[x]
    OBVIOUS
  <2>1. /\ batch[x] = "pending" /\ batchRun[x] \in RunIds
        /\ steer'[x] = steer[x] /\ steerRun'[x] = steerRun[x] /\ batchRun'[x] = batchRun[x]
    BY <1>1, QuietRequests
  <2>2. status[batchRun[x]] \in Live
    BY <1>1, <2>1, QuietRequests
  <2> QED BY <2>1, <2>2
<1>2. ASSUME NEW e \in Events, NEW snap \in Snapshots, NEW r \in RunIds, HandleFollowUp(e, snap, r)
      PROVE  PendingTogether'
  BY <1>2 DEF HandleFollowUp
<1>3. ASSUME NEW e \in Events, NEW snap \in Snapshots, NEW r \in RunIds, HandleRequest(e, snap, r)
      PROVE  PendingTogether'
  BY <1>3 DEF HandleRequest
<1>4. ASSUME NEW e \in Events, NEW snap \in Snapshots, CommandStop(e, snap)
      PROVE  PendingTogether'
  BY <1>4 DEF CommandStop, SetStatus, ActiveRunsOf, ActiveRuns, DroppedByStop, PendingSteers, ConversationsAgree
<1>5. ASSUME NEW r \in RunIds, NEW e \in Events, Steered(r, e)
      PROVE  PendingTogether'
  BY <1>5 DEF Steered
<1>6. ASSUME NEW r \in RunIds, NEW s \in Terminal, Finished(r, s)
      PROVE  PendingTogether'
  BY <1>6 DEF Finished, SetStatus, EndBatch, Terminal
<1>7. ASSUME ResumePendingSteers
      PROVE  PendingTogether'
  <2>1. PICK started \in SUBSET RunIds : Continues(started)
    BY <1>7, ResumeMoves
  <2> SUFFICES ASSUME NEW x \in Events, batch'[x] = "pending", status'[batchRun'[x]] \in Live
               PROVE  steer'[x] = "pending" /\ steerRun'[x] = batchRun'[x]
    OBVIOUS
  <2>2. /\ batch[x] = "pending" /\ batchRun[x] \in RunIds
        /\ steer'[x] = steer[x] /\ steerRun'[x] = steerRun[x] /\ batchRun'[x] = batchRun[x]
    BY <2>1 DEF Continues
  <2>3. status[batchRun[x]] \in Live
    BY <2>1, <2>2 DEF Continues
  <2> QED BY <2>2, <2>3
<1>8. ASSUME NEW room \in Rooms, NEW snap \in Snapshots, ReconcileRoom(room, snap)
      PROVE  PendingTogether'
  BY <1>8 DEF ReconcileRoom, SetStatus, ActiveRuns, Active
<1>9. ASSUME NEW p \in Policies, Recover(p)
      PROVE  PendingTogether'
  BY <1>9 DEF Recover
<1> QED
  BY <1>1, <1>2, <1>3, <1>4, <1>5, <1>6, <1>7, <1>8, <1>9, StepKinds

\* A batch is counted as sent or seen only with its message.
LEMMA NextHonest ==
  ASSUME JournalOK, InputsAreGiven, PendingTogether, Recorded, LedgerIsHonest, [Next]_vars
  PROVE  LedgerIsHonest'
<1> USE DEF LedgerIsHonest, Feeds, JournalOK, TypeOK, ForeignKeys, runVars, steerVars, batchVars, outboxVars
<1>1. ASSUME Quiet
      PROVE  LedgerIsHonest'
  BY <1>1, QuietRequests
<1>2. ASSUME NEW e \in Events, NEW snap \in Snapshots, NEW r \in RunIds, HandleFollowUp(e, snap, r)
      PROVE  LedgerIsHonest'
  BY <1>2 DEF HandleFollowUp, Message, Record, Recorded
<1>3. ASSUME NEW e \in Events, NEW snap \in Snapshots, NEW r \in RunIds, HandleRequest(e, snap, r)
      PROVE  LedgerIsHonest'
  BY <1>3 DEF HandleRequest, Message, Record, Recorded
<1>4. ASSUME NEW e \in Events, NEW snap \in Snapshots, CommandStop(e, snap)
      PROVE  LedgerIsHonest'
  BY <1>4 DEF CommandStop, DroppedByStop, PendingSteers
<1>5. ASSUME NEW r \in RunIds, NEW e \in Events, Steered(r, e)
      PROVE  LedgerIsHonest'
  BY <1>5 DEF Steered, Hears, PendingTogether, Live
<1>6. ASSUME NEW r \in RunIds, NEW s \in Terminal, Finished(r, s)
      PROVE  LedgerIsHonest'
  BY <1>6 DEF Finished, EndBatch
<1>7. ASSUME ResumePendingSteers
      PROVE  LedgerIsHonest'
  <2>1. PICK started \in SUBSET RunIds : Continues(started)
    BY <1>7, ResumeMoves
  <2> QED BY <2>1 DEF Continues, InputsAreGiven
<1>8. ASSUME NEW room \in Rooms, NEW snap \in Snapshots, ReconcileRoom(room, snap)
      PROVE  LedgerIsHonest'
  BY <1>8 DEF ReconcileRoom
<1>9. ASSUME NEW p \in Policies, Recover(p)
      PROVE  LedgerIsHonest'
  BY <1>9 DEF Recover
<1> QED
  BY <1>1, <1>2, <1>3, <1>4, <1>5, <1>6, <1>7, <1>8, <1>9, StepKinds

\* While a follow-up waits, its context waits at the same run unless the run failed.
LEMMA NextKeeps ==
  ASSUME JournalOK, Recorded, ConversationsAgree, FollowUpKeepsContext, [Next]_vars
  PROVE  FollowUpKeepsContext'
<1> USE DEF FollowUpKeepsContext, JournalOK, TypeOK, ForeignKeys, runVars, steerVars, batchVars, outboxVars
<1>1. ASSUME Quiet
      PROVE  FollowUpKeepsContext'
  <2> SUFFICES ASSUME NEW x \in Events, steer'[x] = "pending", status'[steerRun'[x]] \notin {"failed", "interrupted"}
               PROVE  batch'[x] = "pending" /\ batchRun'[x] = steerRun'[x]
    OBVIOUS
  <2>1. /\ steer[x] = "pending" /\ steerRun[x] \in RunIds
        /\ steerRun'[x] = steerRun[x] /\ batchRun'[x] = batchRun[x]
    BY <1>1, QuietRequests
  <2>2. status'[steerRun[x]] = status[steerRun[x]] \/ status[steerRun[x]] \in Live
    BY <1>1, <2>1, QuietRequests
  <2>3. batch[x] = "pending" /\ batchRun[x] = steerRun[x]
    BY <2>1, <2>2 DEF Live
  <2> QED BY <1>1, <2>1, <2>3, QuietRequests
<1>2. ASSUME NEW e \in Events, NEW snap \in Snapshots, NEW r \in RunIds, HandleFollowUp(e, snap, r)
      PROVE  FollowUpKeepsContext'
  BY <1>2 DEF HandleFollowUp
<1>3. ASSUME NEW e \in Events, NEW snap \in Snapshots, NEW r \in RunIds, HandleRequest(e, snap, r)
      PROVE  FollowUpKeepsContext'
  BY <1>3 DEF HandleRequest, Message, Record, Recorded
<1>4. ASSUME NEW e \in Events, NEW snap \in Snapshots, CommandStop(e, snap)
      PROVE  FollowUpKeepsContext'
  BY <1>4 DEF CommandStop, SetStatus, ActiveRunsOf, ActiveRuns, Active, DroppedByStop, PendingSteers, ConversationsAgree
<1>5. ASSUME NEW r \in RunIds, NEW e \in Events, Steered(r, e)
      PROVE  FollowUpKeepsContext'
  BY <1>5 DEF Steered, Hears
<1>6. ASSUME NEW r \in RunIds, NEW s \in Terminal, Finished(r, s)
      PROVE  FollowUpKeepsContext'
  BY <1>6 DEF Finished, SetStatus, EndBatch, Active
<1>7. ASSUME ResumePendingSteers
      PROVE  FollowUpKeepsContext'
  <2>1. PICK started \in SUBSET RunIds : Continues(started)
    BY <1>7, ResumeMoves
  <2> SUFFICES ASSUME NEW x \in Events, steer'[x] = "pending", status'[steerRun'[x]] \notin {"failed", "interrupted"}
               PROVE  batch'[x] = "pending" /\ batchRun'[x] = steerRun'[x]
    OBVIOUS
  <2>2. /\ steer[x] = "pending" /\ steerRun[x] \in RunIds /\ status[steerRun[x]] # "none"
        /\ batch'[x] = batch[x] /\ steerRun'[x] = steerRun[x] /\ batchRun'[x] = batchRun[x]
    BY <2>1 DEF Continues
  <2>3. status[steerRun[x]] \notin {"failed", "interrupted"}
    BY <2>1, <2>2 DEF Continues
  <2> QED BY <2>2, <2>3
<1>8. ASSUME NEW room \in Rooms, NEW snap \in Snapshots, ReconcileRoom(room, snap)
      PROVE  FollowUpKeepsContext'
  BY <1>8 DEF ReconcileRoom, SetStatus, ActiveRuns, Active
<1>9. ASSUME NEW p \in Policies, Recover(p)
      PROVE  FollowUpKeepsContext'
  BY <1>9 DEF Recover
<1> QED
  BY <1>1, <1>2, <1>3, <1>4, <1>5, <1>6, <1>7, <1>8, <1>9, StepKinds

\* A message is work of at most one run, which exists, and does not wait.
LEMMA FeedsOnce ==
  ASSUME JournalOK, InputsAreGiven, NEW e \in Events, NEW r \in RunIds, Feeds(e, r)
  PROVE  /\ status[r] # "none" /\ steer[e] \in {"none", "delivered"}
         /\ \A q \in RunIds : Feeds(e, q) => q = r
<1>1. \A q \in RunIds : Feeds(e, q) => status[q] # "none"
  BY NoneAssumption DEF Feeds, JournalOK, TypeOK, ForeignKeys
<1>2. ASSUME NEW q \in RunIds, input[q] = e
      PROVE  steer[e] = "none" \/ (steer[e] = "delivered" /\ steerRun[e] = q)
  BY <1>1, <1>2 DEF Feeds, InputsAreGiven
<1> QED BY <1>1, <1>2 DEF Feeds, InputsAreGiven

\* The two forms of a message's reactions, and what appending one makes of them.
LEMMA MarkSequences ==
  ASSUME NEW m \in Marks
  PROVE  /\ Append(<<>>, "eyes") = <<"eyes">>
         /\ Append(<<"eyes">>, m) = <<"eyes", m>>
         /\ <<"eyes">> # <<"eyes", m>> /\ <<"eyes">> # <<>>
<1>1. Append(<<"eyes">>, m) = <<"eyes", m>>
  <2>1. "eyes" \in Marks
    BY DEF Marks
  <2>2. /\ Append(<<"eyes">>, m) \in Seq(Marks) /\ Len(Append(<<"eyes">>, m)) = 2
        /\ Append(<<"eyes">>, m)[1] = "eyes" /\ Append(<<"eyes">>, m)[2] = m
    BY <2>1
  <2>3. <<"eyes", m>> \in Seq(Marks) /\ Len(<<"eyes", m>>) = 2
    BY <2>1
  <2>4. \A i \in 1..2 : Append(<<"eyes">>, m)[i] = <<"eyes", m>>[i]
    BY <2>2
  <2> QED BY <2>2, <2>3, <2>4, SeqEqual
<1> QED BY <1>1

\* Work is acknowledged before it is done and reported once, when it ends.
LEMMA NextMarks ==
  ASSUME JournalOK, Recorded, InputsAreGiven, MarksFollowWork, MarksInOrder, [Next]_vars
  PROVE  MarksFollowWork' /\ MarksInOrder'
<1>0. \A x \in Events, r, q \in RunIds : Feeds(x, r) => steer[x] # "pending" /\ (Feeds(x, q) => q = r)
  BY FeedsOnce
<1> USE DEF MarksFollowWork, MarksInOrder, Feeds, JournalOK, TypeOK, ForeignKeys, runVars, steerVars, batchVars, outboxVars
<1>1. ASSUME Quiet
      PROVE  MarksFollowWork' /\ MarksInOrder'
  BY <1>1, QuietRequests DEF Live, Active
<1>2. ASSUME NEW e \in Events, NEW snap \in Snapshots, NEW r \in RunIds, HandleFollowUp(e, snap, r)
      PROVE  MarksFollowWork' /\ MarksInOrder'
  BY <1>2, MarkSequences DEF Marks, HandleFollowUp, Message, Record, Recorded
<1>3. ASSUME NEW e \in Events, NEW snap \in Snapshots, NEW r \in RunIds, HandleRequest(e, snap, r)
      PROVE  MarksFollowWork' /\ MarksInOrder'
  <2>1. marks[e] = <<>> /\ steer[e] = "none"
    BY <1>3 DEF HandleRequest, Message, Record, Recorded
  <2>2. marks'[e] = <<"eyes">>
    BY <1>3, <2>1, MarkSequences DEF HandleRequest, Marks
  <2>3. ASSUME NEW x \in Events, x # e
        PROVE  /\ marks'[x] = marks[x] /\ steer'[x] = steer[x]
               /\ \A q \in RunIds : Feeds(x, q)' => Feeds(x, q) /\ status'[q] = status[q]
    <3>1. /\ marks'[x] = marks[x] /\ steer'[x] = steer[x] /\ steerRun'[x] = steerRun[x]
          /\ status[r] = "none" /\ input'[r] = e
          /\ \A q \in RunIds : q # r => input'[q] = input[q] /\ status'[q] = status[q]
      BY <1>3, <2>3 DEF HandleRequest
    <3>2. ~Feeds(x, r)'
      BY <2>3, <3>1
    <3> QED BY <3>1, <3>2
  <2>4. MarksFollowWork'
    BY <2>2, <2>3
  <2>5. MarksInOrder'
    <3> SUFFICES ASSUME NEW x \in Events
                 PROVE  \/ marks'[x] = <<>> \/ marks'[x] = <<"eyes">>
                        \/ \E m \in Marks \ {"eyes"} : marks'[x] = <<"eyes", m>>
      OBVIOUS
    <3>1. CASE x = e
      BY <2>2, <3>1, Zenon
    <3>2. CASE x # e
      <4>1. marks'[x] = marks[x]
        BY <2>3, <3>2
      <4> QED BY <4>1, Zenon
    <3> QED BY <3>1, <3>2
  <2> QED BY <2>4, <2>5
<1>4. ASSUME NEW e \in Events, NEW snap \in Snapshots, CommandStop(e, snap)
      PROVE  MarksFollowWork' /\ MarksInOrder'
  BY <1>4 DEF CommandStop, DroppedByStop, PendingSteers, SetStatus, ActiveRunsOf, ActiveRuns
<1>5. ASSUME NEW r \in RunIds, NEW e \in Events, Steered(r, e)
      PROVE  MarksFollowWork' /\ MarksInOrder'
  BY <1>5 DEF Steered
<1>6. ASSUME NEW r \in RunIds, NEW s \in Terminal, Finished(r, s)
      PROVE  MarksFollowWork' /\ MarksInOrder'
  <2> DEFINE m == Emoji(s)
  <2>1. m \in Marks \ {"eyes"}
    BY DEF Emoji, Marks, Terminal
  <2>2. /\ steer' = steer /\ steerRun' = steerRun /\ input' = input
        /\ status[r] \in Active /\ status'[r] \notin Active
        /\ \A q \in RunIds : q # r => status'[q] = status[q]
        /\ \A x \in Events : marks'[x] = IF Feeds(x, r) THEN Append(marks[x], m) ELSE marks[x]
    BY <1>6 DEF Finished, Reported, SetStatus, Active, Terminal
  <2> HIDE DEF m
  <2>3. ASSUME NEW x \in Events, Feeds(x, r)
        PROVE  /\ marks'[x] = <<"eyes", m>> /\ steer'[x] # "pending"
               /\ \A q \in RunIds : Feeds(x, q)' => q = r
    <3>1. marks[x] = <<"eyes">>
      BY <2>2, <2>3
    <3>2. marks'[x] = <<"eyes", m>>
      BY <2>1, <2>2, <2>3, <3>1, MarkSequences
    <3> QED BY <1>0, <2>2, <2>3, <3>2
  <2>4. ASSUME NEW x \in Events, ~Feeds(x, r)
        PROVE  /\ marks'[x] = marks[x] /\ steer'[x] = steer[x]
               /\ \A q \in RunIds : Feeds(x, q)' /\ status'[q] \in Active => Feeds(x, q) /\ status[q] \in Active
    BY <2>2, <2>4
  <2>5. MarksFollowWork'
    BY <2>2, <2>3, <2>4
  <2>6. MarksInOrder'
    BY <2>1, <2>3, <2>4
  <2> QED BY <2>5, <2>6
<1>7. ASSUME ResumePendingSteers
      PROVE  MarksFollowWork' /\ MarksInOrder'
  <2>1. PICK started \in SUBSET RunIds : Continues(started)
    BY <1>7, ResumeMoves
  <2> QED BY <2>1 DEF Continues, Active
<1>8. ASSUME NEW room \in Rooms, NEW snap \in Snapshots, ReconcileRoom(room, snap)
      PROVE  MarksFollowWork' /\ MarksInOrder'
  BY <1>8 DEF ReconcileRoom, SetStatus, ActiveRuns
<1>9. ASSUME NEW p \in Policies, Recover(p)
      PROVE  MarksFollowWork' /\ MarksInOrder'
  BY <1>9 DEF Recover, SetStatus, ActiveRuns, Active
<1> QED
  BY <1>1, <1>2, <1>3, <1>4, <1>5, <1>6, <1>7, <1>8, <1>9, StepKinds

\* A message that does not wait and whose run, if any, is over or being stopped.
NotWorkedOn(x) ==
  /\ steer[x] # "pending"
  /\ \A r \in RunIds : Feeds(x, r) => status[r] \in Terminal \cup {"cancelling"}

\* No operation takes up a recorded message again once it was settled.
LEMMA SettledStays ==
  ASSUME JournalOK, Recorded, NEW x \in Events, x \in Received, NotWorkedOn(x), [Next]_vars
  PROVE  NotWorkedOn(x)'
<1> USE DEF NotWorkedOn, Feeds, JournalOK, TypeOK, ForeignKeys, runVars, steerVars, batchVars, outboxVars
<1>1. ASSUME Quiet
      PROVE  NotWorkedOn(x)'
  BY <1>1, QuietRequests DEF Live, Terminal
<1>2. ASSUME NEW e \in Events, NEW snap \in Snapshots, NEW r \in RunIds, HandleFollowUp(e, snap, r)
      PROVE  NotWorkedOn(x)'
  BY <1>2 DEF HandleFollowUp, Message, Record
<1>3. ASSUME NEW e \in Events, NEW snap \in Snapshots, NEW r \in RunIds, HandleRequest(e, snap, r)
      PROVE  NotWorkedOn(x)'
  BY <1>3 DEF HandleRequest, Message, Record
<1>4. ASSUME NEW e \in Events, NEW snap \in Snapshots, CommandStop(e, snap)
      PROVE  NotWorkedOn(x)'
  BY <1>4 DEF CommandStop, DroppedByStop, PendingSteers, SetStatus
<1>5. ASSUME NEW r \in RunIds, NEW e \in Events, Steered(r, e)
      PROVE  NotWorkedOn(x)'
  BY <1>5 DEF Steered
<1>6. ASSUME NEW r \in RunIds, NEW s \in Terminal, Finished(r, s)
      PROVE  NotWorkedOn(x)'
  BY <1>6 DEF Finished, SetStatus
<1>7. ASSUME ResumePendingSteers
      PROVE  NotWorkedOn(x)'
  <2>1. PICK started \in SUBSET RunIds : Continues(started)
    BY <1>7, ResumeMoves
  <2> QED BY <2>1 DEF Continues
<1>8. ASSUME NEW room \in Rooms, NEW snap \in Snapshots, ReconcileRoom(room, snap)
      PROVE  NotWorkedOn(x)'
  BY <1>8 DEF ReconcileRoom, SetStatus
<1>9. ASSUME NEW p \in Policies, Recover(p)
      PROVE  NotWorkedOn(x)'
  BY <1>9 DEF Recover, SetStatus, Terminal
<1> QED
  BY <1>1, <1>2, <1>3, <1>4, <1>5, <1>6, <1>7, <1>8, <1>9, StepKinds

\* Whatever was received before a stop, follow-ups left by earlier runs included,
\* is settled by it and stays settled.
LEMMA NextStops ==
  ASSUME JournalOK, InboxOnce, Recorded, ConversationsAgree, StopsRecorded, StopSettlesEarlier, [Next]_vars
  PROVE  StopsRecorded' /\ StopSettlesEarlier'
<1>1. /\ Received \subseteq Received'
      /\ \A d, x \in Events : x \in Received => (NoLater(d, x)' <=> NoLater(d, x))
  <2>1. CASE inbox' = inbox
    BY <2>1 DEF Received, NoLater
  <2>2. CASE \E e \in Events : Arrives(e)
    BY <2>2, ArrivalIsLast
  <2>3. inbox' = inbox \/ \E e \in Events : Arrives(e)
    BY StepKinds DEF Quiet, HandleFollowUp, HandleRequest, CommandStop, Message, Command, Record, Arrives,
                     Steered, Finished, ResumePendingSteers, ReconcileRoom, Recover
  <2> QED BY <2>1, <2>2, <2>3
<1>2. \A x \in Events, d \in Events : NoLater(x, d) => x \in Received
  BY DEF NoLater, Received
<1>3. Received \subseteq Events
  BY DEF JournalOK, TypeOK, Received
<1>4. ASSUME NEW n \in notices, n.kind = "stop"
      PROVE  /\ n.about \in Received'
             /\ \A x \in Events : ConvOf[x] = n.conv /\ NoLater(x, n.about)' => NotWorkedOn(x)'
  <2>1. n.about \in Received
    BY <1>4 DEF StopsRecorded
  <2>2. ASSUME NEW x \in Events, ConvOf[x] = n.conv, NoLater(x, n.about)'
        PROVE  NotWorkedOn(x)'
    <3>1. NoLater(x, n.about) /\ x \in Received
      BY <1>1, <1>2, <1>3, <2>1, <2>2
    <3>2. NotWorkedOn(x)
      BY <1>4, <2>2, <3>1 DEF StopSettlesEarlier, NotWorkedOn
    <3> QED BY <3>1, <3>2, SettledStays
  <2> QED BY <1>1, <2>1, <2>2
<1>5. ASSUME NEW e \in Events, NEW snap \in Snapshots, CommandStop(e, snap)
      PROVE  /\ e \in Received' /\ notices' = notices \cup {Notice("stop", ConvOf[e], e)}
             /\ \A x \in Events : ConvOf[x] = ConvOf[e] => NotWorkedOn(x)'
  <2>1. e \in Received'
    BY <1>5, ArrivalIsLast DEF CommandStop, Command, Record, Arrives
  <2>2. ASSUME NEW x \in Events, ConvOf[x] = ConvOf[e]
        PROVE  NotWorkedOn(x)'
    <3>1. steer'[x] # "pending"
      <4>1. steer[x] = "pending" => x \in DroppedByStop(ConvOf[e])
        BY <2>2 DEF ConversationsAgree, DroppedByStop, PendingSteers, JournalOK, TypeOK, ForeignKeys
      <4> QED BY <1>5, <4>1 DEF CommandStop
    <3>2. ASSUME NEW r \in RunIds, Feeds(x, r)'
          PROVE  status'[r] \in Terminal \cup {"cancelling"}
      <4>1. Feeds(x, r)
        BY <1>5, <3>2 DEF CommandStop, Feeds, runVars, steerVars, DroppedByStop, PendingSteers
      <4>2. status[r] # "none"
        BY <4>1, NoneAssumption DEF Feeds, JournalOK, TypeOK, ForeignKeys
      <4>3. owner[r] = ConvOf[e]
        BY <2>2, <4>1, <4>2 DEF Feeds, ConversationsAgree
      <4> QED BY <1>5, <4>2, <4>3 DEF CommandStop, SetStatus, ActiveRunsOf, ActiveRuns, JournalOK, TypeOK
    <3> QED BY <3>1, <3>2 DEF NotWorkedOn
  <2> QED BY <1>5, <2>1, <2>2 DEF CommandStop
<1>6. ASSUME NEW n \in notices', n.kind = "stop", n \notin notices
      PROVE  \E e \in Events, snap \in Snapshots : CommandStop(e, snap) /\ n = Notice("stop", ConvOf[e], e)
  <2>1. CASE \E e \in Events, snap \in Snapshots : CommandStop(e, snap)
    BY <1>5, <1>6, <2>1
  <2> USE <1>6 DEF Notice, outboxVars, runVars
  <2>2. ~Quiet
    BY DEF Quiet
  <2>3. \A e \in Events, snap \in Snapshots, r \in RunIds : ~HandleFollowUp(e, snap, r) /\ ~HandleRequest(e, snap, r)
    BY DEF HandleFollowUp, HandleRequest
  <2>4. \A r \in RunIds, e \in Events : ~Steered(r, e)
    BY DEF Steered, Flush
  <2>5. \A r \in RunIds, s \in Terminal : ~Finished(r, s)
    BY DEF Finished, Flush
  <2>6. ~ResumePendingSteers
    BY ResumeMoves DEF Continues
  <2>7. \A room \in Rooms, snap \in Snapshots : ~ReconcileRoom(room, snap)
    BY DEF ReconcileRoom
  <2>8. \A p \in Policies : ~Recover(p)
    BY DEF Recover
  <2> QED BY <2>1, <2>2, <2>3, <2>4, <2>5, <2>6, <2>7, <2>8, StepKinds
<1>7. ASSUME NEW n \in notices', n.kind = "stop"
      PROVE  /\ n.about \in Received'
             /\ \A x \in Events : ConvOf[x] = n.conv /\ NoLater(x, n.about)' => NotWorkedOn(x)'
  <2>1. CASE n \in notices
    BY <1>4, <1>7, <2>1
  <2>2. CASE n \notin notices
    BY <1>5, <1>6, <1>7, <2>2 DEF Notice
  <2> QED BY <2>1, <2>2
<1> QED BY <1>7 DEF StopsRecorded, StopSettlesEarlier, NotWorkedOn, Feeds

-----------------------------------------------------------------------------
(* Follow-ups settle once, and work stays under its binding *)

\* A settled follow-up keeps its state and its run.
SettlesOnce ==
  \A e \in Events :
    steer[e] \in {"delivered", "cancelled", "interrupted"} =>
      steer'[e] = steer[e] /\ steerRun'[e] = steerRun[e]

\* Only a follow-up that waits is given, cancelled or interrupted.
LEMMA SteersStep ==
  ASSUME JournalOK, Recorded, [Next]_vars
  PROVE  SettlesOnce
<1> USE DEF SettlesOnce, JournalOK, TypeOK, runVars, steerVars, batchVars, outboxVars
<1>1. ASSUME Quiet
      PROVE  SettlesOnce
  BY <1>1, QuietRequests
<1>2. ASSUME NEW e \in Events, NEW snap \in Snapshots, NEW r \in RunIds, HandleFollowUp(e, snap, r)
      PROVE  SettlesOnce
  BY <1>2 DEF HandleFollowUp, Message, Record, Recorded
<1>3. ASSUME NEW e \in Events, NEW snap \in Snapshots, NEW r \in RunIds, HandleRequest(e, snap, r)
      PROVE  SettlesOnce
  BY <1>3 DEF HandleRequest
<1>4. ASSUME NEW e \in Events, NEW snap \in Snapshots, CommandStop(e, snap)
      PROVE  SettlesOnce
  BY <1>4 DEF CommandStop, DroppedByStop, PendingSteers
<1>5. ASSUME NEW r \in RunIds, NEW e \in Events, Steered(r, e)
      PROVE  SettlesOnce
  BY <1>5 DEF Steered
<1>6. ASSUME NEW r \in RunIds, NEW s \in Terminal, Finished(r, s)
      PROVE  SettlesOnce
  BY <1>6 DEF Finished
<1>7. ASSUME ResumePendingSteers
      PROVE  SettlesOnce
  <2>1. PICK started \in SUBSET RunIds : Continues(started)
    BY <1>7, ResumeMoves
  <2> QED BY <2>1 DEF Continues
<1>8. ASSUME NEW room \in Rooms, NEW snap \in Snapshots, ReconcileRoom(room, snap)
      PROVE  SettlesOnce
  BY <1>8 DEF ReconcileRoom
<1>9. ASSUME NEW p \in Policies, Recover(p)
      PROVE  SettlesOnce
  BY <1>9 DEF Recover
<1> QED
  BY <1>1, <1>2, <1>3, <1>4, <1>5, <1>6, <1>7, <1>8, <1>9, StepKinds

\* No operation starts or keeps a run under a configuration its conversation is not
\* bound to.
LEMMA NextBinding ==
  ASSUME JournalOK, WorkUnderBinding, [Next]_vars
  PROVE  WorkUnderBinding'
<1> USE DEF WorkUnderBinding, ActiveRuns, JournalOK, TypeOK, ForeignKeys, convVars, runVars, steerVars, batchVars, outboxVars
<1>1. ASSUME Quiet
      PROVE  WorkUnderBinding'
  <2> SUFFICES ASSUME NEW r \in RunIds, status'[r] \in Active
               PROVE  binding'[owner'[r]] # None /\ binding'[owner'[r]].policy = policy'
    OBVIOUS
  <2>1. owner'[r] = owner[r] /\ status[r] \in Active
    BY <1>1, QuietRequests DEF Live, Active
  <2>2. owner[r] \in Conversations
    BY <2>1 DEF Active
  <2> QED BY <1>1, <2>1, <2>2 DEF Quiet, BindingStays
<1>2. ASSUME NEW e \in Events, NEW snap \in Snapshots, NEW r \in RunIds, HandleFollowUp(e, snap, r)
      PROVE  WorkUnderBinding'
  BY <1>2 DEF HandleFollowUp, Message, Record, Active
<1>3. ASSUME NEW e \in Events, NEW snap \in Snapshots, NEW r \in RunIds, HandleRequest(e, snap, r)
      PROVE  WorkUnderBinding'
  <2>1. CurrentBinding(ConvOf[e], snap) # None /\ CurrentBinding(ConvOf[e], snap).policy = policy
    BY NoneAssumption DEF CurrentBinding, Snapshots
  <2>2. /\ policy' = policy
        /\ \A c \in Conversations : binding[c] # None => binding'[c] = binding[c]
        /\ binding'[ConvOf[e]] = CurrentBinding(ConvOf[e], snap)
    BY <1>3, ConversationAssumption DEF HandleRequest, Message, Record, Admits
  <2>3. /\ owner'[r] = ConvOf[e]
        /\ \A q \in RunIds : q # r => owner'[q] = owner[q] /\ status'[q] = status[q]
    BY <1>3 DEF HandleRequest
  <2>4. ASSUME NEW q \in RunIds, status[q] \in Active
        PROVE  owner[q] \in Conversations /\ binding'[owner[q]] # None /\ binding'[owner[q]].policy = policy'
    <3>1. owner[q] \in Conversations
      BY <2>4 DEF Active
    <3> QED BY <2>2, <2>4, <3>1
  <2> QED BY <2>1, <2>2, <2>3, <2>4
<1>4. ASSUME NEW e \in Events, NEW snap \in Snapshots, CommandStop(e, snap)
      PROVE  WorkUnderBinding'
  BY <1>4 DEF CommandStop, Command, Record, SetStatus, ActiveRunsOf, Active
<1>5. ASSUME NEW r \in RunIds, NEW e \in Events, Steered(r, e)
      PROVE  WorkUnderBinding'
  BY <1>5 DEF Steered, Active
<1>6. ASSUME NEW r \in RunIds, NEW s \in Terminal, Finished(r, s)
      PROVE  WorkUnderBinding'
  BY <1>6 DEF Finished, SetStatus, Active, Terminal
<1>7. ASSUME ResumePendingSteers
      PROVE  WorkUnderBinding'
  <2>1. PICK started \in SUBSET RunIds : ResumesInto(started)
    BY <1>7, ResumeCreates
  <2> QED BY <2>1 DEF ResumesInto, Continuable, SetStatus, Active
<1>8. ASSUME NEW room \in Rooms, NEW snap \in Snapshots, ReconcileRoom(room, snap)
      PROVE  WorkUnderBinding'
  BY <1>8 DEF ReconcileRoom, SetStatus, Active
<1>9. ASSUME NEW p \in Policies, Recover(p)
      PROVE  WorkUnderBinding'
  BY <1>9 DEF Recover, SetStatus, Active
<1> QED
  BY <1>1, <1>2, <1>3, <1>4, <1>5, <1>6, <1>7, <1>8, <1>9, StepKinds

-----------------------------------------------------------------------------
(* Answers to agents *)

\* Every answer among the effects closes an open request, and grants something
\* only in time and to a waiting run that goes on.
Timely ==
  \A d \in {x \in effects' : x.type = "decide"} :
    /\ approval[d.request] = "open" /\ approval'[d.request] = "consumed"
    /\ d.option # None =>
         d.request \notin late /\ status[d.run] = "waiting_approval" /\ status'[d.run] \in Active \ {"cancelling"}

\* What Settle does to one of its requests.
LEMMA SettleOne ==
  ASSUME JournalOK, NEW Q \in SUBSET Requests, Settle(Q), NEW q \in Q, approval[q] = "open",
         approvalRun[q] \in RunIds
  PROVE  /\ approval'[q] = "consumed"
         /\ status[approvalRun[q]] = "waiting_approval" => status'[approvalRun[q]] \in Active \ {"cancelling"}
BY DEF Settle, Active

\* Only an operator, the automatic mode and the expiry answer agents, and each
\* of them answers what is still open.
LEMMA AnswersStep ==
  ASSUME JournalOK, Next, late' = late
  PROVE  Timely
<1> USE DEF Timely, Start, Cancel, Steer
<1>1. ASSUME NEW e \in Events, NEW snap \in Snapshots, HandleBlank(e, snap)
      PROVE  Timely
  BY <1>1 DEF HandleBlank
<1>2. ASSUME NEW e \in Events, NEW snap \in Snapshots, NEW r \in RunIds, HandleFollowUp(e, snap, r)
      PROVE  Timely
  BY <1>2 DEF HandleFollowUp
<1>3. ASSUME NEW e \in Events, NEW snap \in Snapshots, HandleAtLimit(e, snap)
      PROVE  Timely
  BY <1>3 DEF HandleAtLimit
<1>4. ASSUME NEW e \in Events, NEW snap \in Snapshots, NEW r \in RunIds, HandleRequest(e, snap, r)
      PROVE  Timely
  BY <1>4 DEF HandleRequest
<1>5. ASSUME NEW e \in Events, NEW snap \in Snapshots, CommandInform(e, snap)
      PROVE  Timely
  BY <1>5 DEF CommandInform
<1>6. ASSUME NEW e \in Events, NEW snap \in Snapshots, CommandStop(e, snap)
      PROVE  Timely
  BY <1>6 DEF CommandStop
<1>7. ASSUME NEW e \in Events, NEW snap \in Snapshots, NEW mode \in {"on", "off"}, CommandPermissions(e, snap, mode)
      PROVE  Timely
  BY <1>7 DEF CommandPermissions
<1>8. ASSUME NEW e \in Events, NEW snap \in Snapshots, NEW q \in Requests, NEW option \in Options, CommandApprove(e, snap, q, option)
      PROVE  Timely
  <2>1. /\ Settle({q}) /\ approval[q] = "open" /\ q \notin late /\ effects' = {Decide(q, option)}
        /\ status[approvalRun[q]] = "waiting_approval"
    BY <1>8 DEF CommandApprove, Answerable
  <2>2. approvalRun[q] \in RunIds
    BY <2>1 DEF JournalOK, ForeignKeys
  <2>3. approval'[q] = "consumed" /\ status'[approvalRun[q]] \in Active \ {"cancelling"}
    BY <2>1, <2>2, SettleOne
  <2> QED BY <2>1, <2>3 DEF Decide
<1>9. ASSUME NEW r \in RunIds, Started(r)
      PROVE  Timely
  BY <1>9 DEF Started
<1>10. ASSUME NEW r \in RunIds, AgentEvent(r)
      PROVE  Timely
  BY <1>10 DEF AgentEvent, SessionReady, Text, Tool, Permission, PermissionRepeated, Steered, Finished
<1>11. ASSUME NEW q \in Requests, Lapse(q)
      PROVE  Timely
  BY <1>11 DEF Lapse
<1>12. ASSUME AutomaticApprovals
      PROVE  Timely
  <2>1. /\ Settle(AutomaticRequests) /\ effects' = {Decide(q, "allow") : q \in AutomaticRequests}
        /\ AutomaticRequests \in SUBSET Requests
    BY <1>12 DEF AutomaticApprovals, AutomaticRequests
  <2>2. ASSUME NEW q \in AutomaticRequests
        PROVE  /\ approval[q] = "open" /\ q \notin late /\ status[approvalRun[q]] = "waiting_approval"
               /\ approval'[q] = "consumed" /\ status'[approvalRun[q]] \in Active \ {"cancelling"}
    <3>1. approval[q] = "open" /\ q \notin late /\ status[approvalRun[q]] = "waiting_approval"
      BY DEF AutomaticRequests
    <3>2. approvalRun[q] \in RunIds
      BY <2>1, <3>1 DEF JournalOK, ForeignKeys
    <3> QED BY <2>1, <3>1, <3>2, SettleOne
  <2> QED BY <2>1, <2>2 DEF Decide
<1>13. ASSUME ExpireApprovals
      PROVE  Timely
  <2> DEFINE expired == {q \in late : approval[q] = "open"}
  <2>1. Settle(expired) /\ effects' = {Decide(q, None) : q \in expired} /\ expired \in SUBSET Requests
    BY <1>13 DEF ExpireApprovals, JournalOK, TypeOK
  <2>2. ASSUME NEW q \in expired
        PROVE  approval[q] = "open" /\ approval'[q] = "consumed"
    <3>1. approval[q] = "open" /\ approvalRun[q] \in RunIds
      BY <2>1 DEF JournalOK, ForeignKeys
    <3> QED BY <2>1, <3>1, SettleOne
  <2> HIDE DEF expired
  <2> QED BY <2>1, <2>2 DEF Decide
<1>14. ASSUME ResumePendingSteers
      PROVE  Timely
  <2>1. PICK started \in SUBSET RunIds : ResumesInto(started)
    BY <1>14, ResumeCreates
  <2> QED BY <2>1 DEF ResumesInto
<1>15. ASSUME NEW room \in Rooms, NEW snap \in Snapshots, ReconcileRoom(room, snap)
      PROVE  Timely
  BY <1>15 DEF ReconcileRoom
<1>16. ASSUME NEW r \in RunIds, ExplicitMessage(r)
      PROVE  Timely
  BY <1>16 DEF ExplicitMessage
<1>17. ASSUME NEW p \in Policies, Recover(p)
      PROVE  Timely
  BY <1>17 DEF Recover
<1> HIDE DEF Timely
<1> QED
  BY <1>1, <1>2, <1>3, <1>4, <1>5, <1>6, <1>7, <1>8, <1>9, <1>10, <1>11, <1>12, <1>13, <1>14, <1>15, <1>16, <1>17
     DEF Next, Handle, HandleMessage, HandleCommand

-----------------------------------------------------------------------------
(* Follow-ups that wait to be continued *)

\* Event e is a follow-up that outlived its run and can be continued.
Waiting(e) == steer[e] = "pending" /\ status[steerRun[e]] \in Resumable

NoneWaits == \A e \in Events : ~Waiting(e)

\* A pending follow-up is of a conversation this configuration may work in.
PendingBound ==
  \A e \in Events :
    steer[e] = "pending" =>
      binding[owner[steerRun[e]]] # None /\ binding[owner[steerRun[e]]].policy = policy

\* While a follow-up waits to be continued, no run of its conversation is active.
WaitsAlone ==
  \A e \in Events, r \in RunIds :
    Waiting(e) /\ status[r] \in Active => owner[r] # owner[steerRun[e]]

\* Run r occupies its conversation: it is active or will be continued.
Occupies(r) == status[r] \in Active \/ \E e \in Events : Waiting(e) /\ steerRun[e] = r

Occupied == {owner[r] : r \in {p \in RunIds : Occupies(p)}}

\* No run is created.
CreatesNone == \A r \in RunIds : status[r] = "none" => status'[r] = "none"

\* The bindings of pending follow-ups are those they were received under.
LEMMA NextPendingBound ==
  ASSUME JournalOK, ConversationsAgree, PendingBound, [Next]_vars
  PROVE  PendingBound'
<1> USE DEF JournalOK, TypeOK, ForeignKeys, runVars, steerVars, convVars
<1>1. CASE Quiet
  BY <1>1, QuietRequests DEF Quiet, BindingStays, PendingBound
<1>2. ASSUME NEW e \in Events, NEW snap \in Snapshots, NEW r \in RunIds, HandleFollowUp(e, snap, r)
      PROVE  PendingBound'
  <2>1. /\ steer' = [steer EXCEPT ![e] = "pending"] /\ steerRun' = [steerRun EXCEPT ![e] = r]
        /\ owner' = owner /\ policy' = policy /\ owner[r] = ConvOf[e] /\ ConvOf[e] \in Conversations
        /\ binding' = [binding EXCEPT ![ConvOf[e]] = IF @ = None THEN CurrentBinding(ConvOf[e], snap) ELSE @]
        /\ binding[ConvOf[e]] = None \/ binding[ConvOf[e]] = CurrentBinding(ConvOf[e], snap)
    BY <1>2, ConversationAssumption DEF HandleFollowUp, Message, Record, Admits, ActiveRunsOf
  <2>2. CurrentBinding(ConvOf[e], snap).policy = policy /\ CurrentBinding(ConvOf[e], snap) # None
    BY NoneAssumption DEF CurrentBinding, Snapshots
  <2>3. \A c \in Conversations : binding[c] # None => binding'[c] = binding[c]
    BY <2>1
  <2>4. binding'[ConvOf[e]] = CurrentBinding(ConvOf[e], snap)
    BY <2>1
  <2> QED BY <2>1, <2>2, <2>3, <2>4 DEF PendingBound
<1>3. ASSUME NEW e \in Events, NEW snap \in Snapshots, NEW r \in RunIds, HandleRequest(e, snap, r)
      PROVE  PendingBound'
  <2>1. /\ steer' = steer /\ steerRun' = steerRun /\ policy' = policy /\ status[r] = "none"
        /\ owner' = [owner EXCEPT ![r] = ConvOf[e]]
        /\ \A c \in Conversations : binding[c] # None => binding'[c] = binding[c]
    BY <1>3 DEF HandleRequest, Message, Record
  <2>2. \A d \in Events : steer[d] = "pending" => steerRun[d] \in RunIds /\ steerRun[d] # r /\ owner[steerRun[d]] \in Conversations
    BY <2>1
  <2> QED BY <2>1, <2>2 DEF PendingBound
<1>4. ASSUME NEW e \in Events, NEW snap \in Snapshots, CommandStop(e, snap)
      PROVE  PendingBound'
  <2>1. /\ \A d \in Events : steer'[d] = "pending" => steer[d] = "pending"
        /\ UNCHANGED <<steerRun, owner, policy>>
        /\ \A c \in Conversations : binding[c] # None => binding'[c] = binding[c]
    BY <1>4 DEF CommandStop, Command, Record
  <2> QED BY <2>1 DEF PendingBound
<1>5. ASSUME NEW r \in RunIds, NEW e \in Events, Steered(r, e)
      PROVE  PendingBound'
  BY <1>5 DEF Steered, PendingBound
<1>6. ASSUME NEW r \in RunIds, NEW s \in Terminal, Finished(r, s)
      PROVE  PendingBound'
  BY <1>6 DEF Finished, PendingBound
<1>7. CASE ResumePendingSteers
  <2>1. PICK started \in SUBSET RunIds : Continues(started)
    BY <1>7, ResumeMoves
  <2>2. binding' = binding /\ policy' = policy
    BY <1>7 DEF ResumePendingSteers
  <2>3. \A e \in Events : steer'[e] = "pending" => steer[e] = "pending" /\ steerRun'[e] = steerRun[e]
    BY <2>1 DEF Continues
  <2>4. \A e \in Events : steer[e] = "pending" => owner'[steerRun[e]] = owner[steerRun[e]]
    BY <2>1 DEF Continues
  <2>5. \A e \in Events : steer'[e] = "pending" => owner'[steerRun'[e]] = owner[steerRun[e]] /\ steer[e] = "pending"
    BY <2>3, <2>4
  <2> QED BY ONLY PendingBound, <2>2, <2>5 DEF PendingBound
<1>8. ASSUME NEW room \in Rooms, NEW snap \in Snapshots, ReconcileRoom(room, snap)
      PROVE  PendingBound'
  BY <1>8 DEF ReconcileRoom, PendingBound
<1>9. ASSUME NEW p \in Policies, Recover(p)
      PROVE  PendingBound'
  BY <1>9 DEF Recover, PendingBound
<1> QED BY <1>1, <1>2, <1>3, <1>4, <1>5, <1>6, <1>7, <1>8, <1>9, StepKinds

\* resume_pending_steers leaves no follow-up waiting, in any conversation.
LEMMA ResumeClears ==
  ASSUME JournalOK, PendingBound, WaitsAlone, ResumePendingSteers
  PROVE  /\ NoneWaits'
         /\ Occupied' \subseteq Occupied
<1>1. PICK started \in SUBSET RunIds : Continues(started)
  BY ResumeMoves
<1>2. ASSUME NEW e \in Events, Waiting(e)
      PROVE  steer'[e] = "delivered"
  <2>1. steer[e] = "pending" /\ steerRun[e] \in RunIds /\ status[steerRun[e]] \in Resumable
    BY <1>2 DEF Waiting, JournalOK, ForeignKeys
  <2>2. owner[steerRun[e]] \in Conversations
    BY <2>1 DEF JournalOK, ForeignKeys, Resumable
  <2>3. e \in PendingSteers(owner[steerRun[e]], Resumable)
    BY <2>1 DEF PendingSteers
  <2>4. ActiveRunsOf(owner[steerRun[e]]) = {}
    BY <1>2 DEF WaitsAlone, ActiveRunsOf, ActiveRuns
  <2>5. owner[steerRun[e]] \in Continuable
    BY <2>1, <2>2, <2>3, <2>4 DEF Continuable, PendingBound
  <2>6. e \in UNION {PendingSteers(c, Resumable) : c \in Continuable}
    BY <2>3, <2>5
  <2>7. steer' = [d \in Events |-> IF d \in UNION {PendingSteers(c, Resumable) : c \in Continuable} THEN "delivered" ELSE steer[d]]
    BY DEF ResumePendingSteers
  <2> QED BY <2>6, <2>7
<1>3. ASSUME NEW e \in Events, Waiting(e)'
      PROVE  FALSE
  <2>1. steer'[e] = "pending" /\ status'[steerRun'[e]] \in Resumable
    BY <1>3 DEF Waiting
  <2>2. steer[e] = "pending" /\ steerRun'[e] = steerRun[e] /\ steerRun[e] \in RunIds
    BY <1>1, <2>1 DEF Continues, JournalOK, ForeignKeys
  <2>3. status'[steerRun[e]] = status[steerRun[e]]
    BY <1>1, <2>1, <2>2 DEF Continues, Resumable
  <2>4. Waiting(e)
    BY <2>1, <2>2, <2>3 DEF Waiting
  <2> QED BY <1>2, <2>1, <2>4
<1>4. ASSUME NEW r \in RunIds, Occupies(r)'
      PROVE  \E q \in RunIds : Occupies(q) /\ owner[q] = owner'[r]
  <2>1. status'[r] \in Active
    BY <1>3, <1>4 DEF Occupies
  <2>2. CASE r \notin started
    <3>1. status[r] \in Active /\ owner'[r] = owner[r]
      BY <1>1, <2>1, <2>2 DEF Continues
    <3> QED BY <3>1 DEF Occupies
  <2>3. CASE r \in started
    <3> DEFINE e == input'[r]
    <3>1. /\ e \in Events /\ steer[e] = "pending" /\ steer'[e] = "delivered" /\ owner'[r] = owner[steerRun[e]]
      BY <1>1, <2>3 DEF Continues
    <3> HIDE DEF e
    <3>2. steerRun[e] \in RunIds /\ status[steerRun[e]] \in Resumable
      BY <1>1, <3>1 DEF Continues
    <3> QED BY <3>1, <3>2 DEF Occupies, Waiting
  <2> QED BY <2>2, <2>3
<1>5. NoneWaits'
  BY <1>3 DEF NoneWaits
<1>6. Occupied' \subseteq Occupied
  BY <1>4 DEF Occupied
<1> QED BY <1>5, <1>6

\* What a step does that creates no run.
Shrinks ==
  /\ WaitsAlone'
  /\ Occupied' \subseteq Occupied
  /\ NoneWaits /\ (\A r \in RunIds : status'[r] \in Resumable => status[r] \notin Active) => NoneWaits'

\* Without a new run, no conversation becomes occupied, and a follow-up is left
\* waiting only by the end of the only active run of its conversation.
LEMMA OccupiedShrinks ==
  ASSUME JournalOK, OneActiveRun, PendingBound, WaitsAlone, [Next]_vars,
         \A r \in RunIds : status[r] = "none" => status'[r] = "none"
  PROVE  Shrinks
<1> DEFINE Still == /\ \A r \in RunIds : owner'[r] = owner[r] /\ (status'[r] \in Active => status[r] \in Active)
                    /\ \A e \in Events : Waiting(e)' => Waiting(e) /\ steerRun'[e] = steerRun[e]
<1>1. ASSUME Still
      PROVE  Shrinks
  <2>1. \A e \in Events : Waiting(e) => steerRun[e] \in RunIds
    BY DEF Waiting, JournalOK, ForeignKeys
  <2>2. WaitsAlone'
    BY <1>1, <2>1 DEF WaitsAlone
  <2>3. \A r \in RunIds : Occupies(r)' => Occupies(r) /\ owner'[r] = owner[r]
    BY <1>1 DEF Occupies
  <2>4. Occupied' \subseteq Occupied
    BY <2>3 DEF Occupied
  <2>5. NoneWaits => NoneWaits'
    BY <1>1 DEF NoneWaits
  <2> QED BY <2>2, <2>4, <2>5 DEF Shrinks
<1> USE DEF JournalOK, TypeOK, ForeignKeys, runVars, steerVars
<1>2. CASE Quiet
  <2>1. /\ owner' = owner /\ steer' = steer /\ steerRun' = steerRun
        /\ \A r \in RunIds : status'[r] = status[r] \/ (status[r] \in Live /\ status'[r] \in Live)
    BY <1>2 DEF Quiet
  <2>2. \A r \in RunIds : /\ status'[r] \in Active => status[r] \in Active
                          /\ status'[r] \in Resumable => status'[r] = status[r]
    BY <2>1 DEF Live, Active, Resumable
  <2>3. \A e \in Events : Waiting(e)' => Waiting(e)
    BY <2>1, <2>2 DEF Waiting
  <2>4. Still
    BY <2>1, <2>2, <2>3
  <2> QED BY <1>1, <2>4
<1>3. ASSUME NEW e \in Events, NEW snap \in Snapshots, NEW r \in RunIds, HandleFollowUp(e, snap, r)
      PROVE  Shrinks
  <2>1. /\ steer' = [steer EXCEPT ![e] = "pending"] /\ steerRun' = [steerRun EXCEPT ![e] = r]
        /\ status' = status /\ owner' = owner /\ status[r] \in Active
    BY <1>3 DEF HandleFollowUp, ActiveRunsOf, ActiveRuns
  <2>2. \A d \in Events : Waiting(d)' => Waiting(d) /\ steerRun'[d] = steerRun[d]
    BY <2>1 DEF Waiting, Active, Resumable
  <2>3. Still
    BY <2>1, <2>2
  <2> QED BY <1>1, <2>3
<1>4. ASSUME NEW e \in Events, NEW snap \in Snapshots, NEW r \in RunIds, HandleRequest(e, snap, r)
      PROVE  FALSE
  BY <1>4 DEF HandleRequest
<1>5. ASSUME NEW e \in Events, NEW snap \in Snapshots, CommandStop(e, snap)
      PROVE  Shrinks
  <2>1. /\ \A d \in Events : steer'[d] = "pending" => steer[d] = "pending"
        /\ steerRun' = steerRun /\ owner' = owner
        /\ \A r \in RunIds : status'[r] = status[r] \/ (status[r] \in Active /\ status'[r] = "cancelling")
    BY <1>5 DEF CommandStop, SetStatus, ActiveRunsOf, ActiveRuns
  <2>2. Still
    BY <2>1 DEF Waiting, Active, Resumable
  <2> QED BY <1>1, <2>2
<1>6. ASSUME NEW r \in RunIds, NEW e \in Events, Steered(r, e)
      PROVE  Shrinks
  <2>1. /\ \A d \in Events : steer'[d] = "pending" => steer[d] = "pending"
        /\ steerRun' = steerRun /\ owner' = owner /\ status' = status
    BY <1>6 DEF Steered
  <2>2. Still
    BY <2>1 DEF Waiting
  <2> QED BY <1>1, <2>2
<1>7. ASSUME NEW r \in RunIds, NEW s \in Terminal, Finished(r, s)
      PROVE  Shrinks
  <2>1. /\ status[r] \in Active /\ status' = [q \in RunIds |-> IF q = r THEN s ELSE status[q]]
        /\ owner' = owner /\ steer' = steer /\ steerRun' = steerRun
    BY <1>7 DEF Finished, SetStatus
  <2>2. s \notin Active
    BY DEF Active, Terminal
  <2>3. \A q \in RunIds : status'[q] \in Active => status[q] \in Active /\ q # r
    BY <2>1, <2>2
  <2>4. \A d \in Events : Waiting(d)' => steerRun[d] \in RunIds /\ (Waiting(d) \/ (steerRun[d] = r /\ s \in Resumable))
    BY <2>1 DEF Waiting
  <2>5. WaitsAlone'
    <3> SUFFICES ASSUME NEW d \in Events, NEW q \in RunIds, Waiting(d)', status'[q] \in Active
                 PROVE  owner[q] # owner[steerRun[d]]
      BY <2>1 DEF WaitsAlone
    <3>1. CASE Waiting(d)
      BY <2>3, <3>1 DEF WaitsAlone
    <3>2. CASE steerRun[d] = r
      BY <2>1, <2>3, <3>2 DEF OneActiveRun
    <3> QED BY <2>4, <3>1, <3>2
  <2>6. \A q \in RunIds : Occupies(q)' => Occupies(q)
    BY <2>1, <2>3, <2>4 DEF Occupies
  <2>7. Occupied' \subseteq Occupied
    BY <2>1, <2>6 DEF Occupied
  <2>8. NoneWaits /\ (\A q \in RunIds : status'[q] \in Resumable => status[q] \notin Active) => NoneWaits'
    BY <2>1, <2>4 DEF NoneWaits
  <2> QED BY <2>5, <2>7, <2>8 DEF Shrinks
<1>8. CASE ResumePendingSteers
  <2>1. NoneWaits' /\ Occupied' \subseteq Occupied
    BY <1>8, ResumeClears
  <2>2. WaitsAlone'
    BY <2>1 DEF WaitsAlone, NoneWaits
  <2> QED BY <2>1, <2>2 DEF Shrinks
<1>9. ASSUME NEW room \in Rooms, NEW snap \in Snapshots, ReconcileRoom(room, snap)
      PROVE  Shrinks
  <2>1. /\ \A d \in Events : steer'[d] = "pending" => steer[d] = "pending"
        /\ steerRun' = steerRun /\ owner' = owner
        /\ \A r \in RunIds : status'[r] = status[r] \/ (status[r] \in Active /\ status'[r] = "cancelling")
    BY <1>9 DEF ReconcileRoom, SetStatus, ActiveRuns
  <2>2. Still
    BY <2>1 DEF Waiting, Active, Resumable
  <2> QED BY <1>1, <2>2
<1>10. ASSUME NEW p \in Policies, Recover(p)
       PROVE  Shrinks
  <2>1. /\ \A d \in Events : steer'[d] # "pending"
        /\ owner' = owner
        /\ \A r \in RunIds : status'[r] \notin Active
    BY <1>10 DEF Recover, SetStatus, ActiveRuns, Active
  <2>2. Still
    BY <2>1 DEF Waiting
  <2> QED BY <1>1, <2>2
<1> HIDE DEF Still, JournalOK, TypeOK, ForeignKeys
<1> QED BY <1>2, <1>3, <1>4, <1>5, <1>6, <1>7, <1>8, <1>9, <1>10, StepKinds

-----------------------------------------------------------------------------
(* Theorems about the specification *)

\* RequestsOK is inductive with JournalOK.
LEMMA RequestsInductive ==
  /\ Init => RequestsOK
  /\ JournalOK /\ RequestsOK /\ [Next]_vars => RequestsOK'
<1>1. ASSUME Init
      PROVE  RequestsOK
  BY <1>1, NoneAssumption
     DEF Init, RequestsOK, InboxOnce, Recorded, ConversationsAgree, InputsAreGiven, PendingTogether, LedgerIsHonest,
         FollowUpKeepsContext, MarksFollowWork, MarksInOrder, StopsRecorded, StopSettlesEarlier, Feeds, Active
<1>2. ASSUME JournalOK, RequestsOK, [Next]_vars
      PROVE  RequestsOK'
  BY <1>2, NextRecorded, NextConversations, NextInputs, NextPending, NextHonest, NextKeeps, NextMarks, NextStops
     DEF RequestsOK
<1> QED BY <1>1, <1>2

\* Whatever is received, steered, stopped, revoked, continued or recovered, the
\* tables about requests agree.
THEOREM RequestsCorrect == Spec => []RequestsOK
<1>1. Init => RequestsOK
  BY RequestsInductive
<1>2. JournalOK /\ RequestsOK /\ [Next]_vars => RequestsOK'
  BY RequestsInductive
<1> QED BY <1>1, <1>2, JournalCorrect, PTL DEF Spec

\* OneRunPerRequest of Bridge: no message is ever worked on by two runs, or
\* waits while it is worked on.
THEOREM OneRunCorrect == Spec => []OneRunPerRequest
<1>1. JournalOK /\ RequestsOK => OneRunPerRequest
  <2> SUFFICES ASSUME JournalOK, RequestsOK, NEW e \in Events
               PROVE  /\ \A r, q \in RunIds : Feeds(e, r) /\ Feeds(e, q) => r = q
                      /\ \A r \in RunIds : Feeds(e, r) => e \in Received /\ steer[e] \in {"none", "delivered"}
    BY DEF OneRunPerRequest
  <2>1. \A r \in RunIds : Feeds(e, r) => e \in Received
    BY DEF RequestsOK, Recorded, Feeds
  <2> QED BY <2>1, FeedsOnce DEF RequestsOK
<1> QED BY <1>1, JournalCorrect, RequestsCorrect, PTL

\* StopSettlesEarlier of Bridge: a stop reaches everything received before it.
THEOREM StopCorrect == Spec => []StopSettlesEarlier
<1>1. RequestsOK => StopSettlesEarlier
  BY DEF RequestsOK
<1> QED BY <1>1, RequestsCorrect, PTL

\* LedgerIsHonest of Bridge: a batch counts as sent only with its message.
THEOREM HonestCorrect == Spec => []LedgerIsHonest
<1>1. RequestsOK => LedgerIsHonest
  BY DEF RequestsOK
<1> QED BY <1>1, RequestsCorrect, PTL

\* FollowUpKeepsContext of Bridge: a waiting follow-up keeps its context.
THEOREM ContextKept == Spec => []FollowUpKeepsContext
<1>1. RequestsOK => FollowUpKeepsContext
  BY DEF RequestsOK
<1> QED BY <1>1, RequestsCorrect, PTL

\* MarksInOrder of Bridge: one acknowledgement, then at most one report.
THEOREM MarksCorrect == Spec => []MarksInOrder
<1>1. RequestsOK => MarksInOrder
  BY DEF RequestsOK
<1> QED BY <1>1, RequestsCorrect, PTL

\* WorkUnderBinding of Bridge: no run works under a foreign configuration.
THEOREM BindingCorrect == Spec => []WorkUnderBinding
<1>1. Init => WorkUnderBinding
  BY DEF Init, WorkUnderBinding, ActiveRuns, Active
<1>2. JournalOK /\ WorkUnderBinding /\ [Next]_vars => WorkUnderBinding'
  BY NextBinding
<1> QED BY <1>1, <1>2, JournalCorrect, PTL DEF Spec

\* FollowUpsSettleOnce of Bridge: what was given, cancelled or interrupted is
\* never given again.
THEOREM SettlesOnceCorrect == Spec => FollowUpsSettleOnce
<1>1. JournalOK /\ RequestsOK /\ [Next]_vars => [SettlesOnce]_vars
  BY SteersStep DEF RequestsOK
<1>2. [][SettlesOnce]_vars => FollowUpsSettleOnce
  BY PTL DEF FollowUpsSettleOnce, SettlesOnce
<1> QED BY <1>1, <1>2, JournalCorrect, RequestsCorrect, PTL DEF Spec

\* AnswersAreTimely of Bridge: an agent is answered once, and permitted only
\* while it waits and in time.
THEOREM AnswersCorrect == Spec => AnswersAreTimely
<1>1. JournalOK /\ [Next]_vars => [late' = late => Timely]_vars
  BY AnswersStep
<1>2. [][late' = late => Timely]_vars => AnswersAreTimely
  BY PTL DEF AnswersAreTimely, Timely
<1> QED BY <1>1, <1>2, JournalCorrect, PTL DEF Spec
=============================================================================
