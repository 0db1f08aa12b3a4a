---------------------------- MODULE BridgeProofs ----------------------------
(***************************************************************************)
(* Proofs about Bridge for every number of conversations, events, runs and *)
(* requests, every configuration and every limit.                          *)
(*                                                                         *)
(*   JournalOK       every table is well typed and every reference exists  *)
(*   WaitingIffOpen  a run waits exactly while a request of it is open     *)
(*   OneActiveRun    a conversation has at most one active run             *)
(*   Lifecycle       Bridge implements RunLifecycle                        *)
(*                                                                         *)
(* JournalOK is inductive by itself; the other three are inductive with it.*)
(***************************************************************************)
EXTENDS Bridge, TLAPS

JournalOK == TypeOK /\ ForeignKeys

-----------------------------------------------------------------------------
(* Lemmas about the shared updates *)

\* Answering some open requests keeps a run waiting exactly while one is left.
LEMMA SettleKeepsWaiting ==
  ASSUME JournalOK, WaitingIffOpen,
         NEW Q \in SUBSET {q \in Requests : approval[q] = "open"},
         Settle(Q), approvalRun' = approvalRun
  PROVE  WaitingIffOpen'
<1> SUFFICES ASSUME NEW r \in RunIds
             PROVE  status'[r] = "waiting_approval" <=> OpenRequests(r)' # {}
  BY DEF WaitingIffOpen
<1>1. OpenRequests(r)' = OpenRequests(r) \ Q
  BY DEF OpenRequests, Settle, JournalOK, TypeOK
<1>2. CASE status[r] # "waiting_approval"
  BY <1>1, <1>2 DEF WaitingIffOpen, Settle, JournalOK, TypeOK
<1>3. CASE status[r] = "waiting_approval"
  <2>1. OpenRequests(r) # {}
    BY <1>3 DEF WaitingIffOpen
  <2>2. OpenRequests(r) \subseteq Q => \E q \in Q : approvalRun[q] = r
    BY <2>1 DEF OpenRequests
  <2>3. (status'[r] = "running") <=> (OpenRequests(r) \subseteq Q)
    BY <1>3, <2>2 DEF Settle, JournalOK, TypeOK, OpenRequests
  <2>4. status'[r] \in {"running", "waiting_approval"}
    BY <1>3 DEF Settle, JournalOK, TypeOK
  <2> QED BY <1>1, <2>3, <2>4
<1> QED BY <1>2, <1>3

\* Ending or cancelling runs R together with their requests leaves none waiting.
LEMMA ConsumeKeepsWaiting ==
  ASSUME JournalOK, WaitingIffOpen,
         NEW R \in SUBSET RunIds, NEW s \in (Active \cup Terminal) \ {"waiting_approval"},
         status' = SetStatus(R, s), approval' = ConsumeAll(R), approvalRun' = approvalRun
  PROVE  WaitingIffOpen'
<1> SUFFICES ASSUME NEW r \in RunIds
             PROVE  status'[r] = "waiting_approval" <=> OpenRequests(r)' # {}
  BY DEF WaitingIffOpen
<1>1. OpenRequests(r)' = IF r \in R THEN {} ELSE OpenRequests(r)
  BY DEF OpenRequests, ConsumeAll, JournalOK, TypeOK
<1>2. status'[r] = IF r \in R THEN s ELSE status[r]
  BY DEF SetStatus
<1> QED BY <1>1, <1>2 DEF WaitingIffOpen

\* The open requests are those the timers may answer.
LEMMA TimersAnswerOpen ==
  ASSUME JournalOK
  PROVE  /\ AutomaticRequests \in SUBSET {q \in Requests : approval[q] = "open"}
         /\ {q \in late : approval[q] = "open"} \in SUBSET {q \in Requests : approval[q] = "open"}
BY DEF AutomaticRequests, JournalOK, TypeOK

\* What resume_pending_steers does: it creates runs, each queued for a
\* conversation of its own that has no active run, and hands every follow-up
\* it takes over to the new run of the follow-up's conversation.  The input of
\* a new run is one of them.
ResumesInto(started) ==
  /\ \A r \in started :
       /\ status[r] = "none" /\ owner'[r] \in Continuable /\ input'[r] \in Events
       /\ steer[input'[r]] = "pending" /\ steerRun'[input'[r]] = r
  /\ \A r, q \in started : owner'[r] = owner'[q] => r = q
  /\ \A r \in RunIds \ started : owner'[r] = owner[r] /\ input'[r] = input[r]
  /\ \A e \in Events :
       \/ /\ steer'[e] = steer[e] /\ steerRun'[e] = steerRun[e]
          /\ batch'[e] = batch[e] /\ batchRun'[e] = batchRun[e]
       \/ /\ steer[e] = "pending" /\ steer'[e] = "delivered"
          /\ status[steerRun[e]] \in Resumable
          /\ steerRun'[e] \in started /\ owner'[steerRun'[e]] = owner[steerRun[e]]
          /\ IF batch[e] = "pending"
             THEN batch'[e] = "inflight" /\ batchRun'[e] = steerRun'[e]
             ELSE batch'[e] = batch[e] /\ batchRun'[e] = batchRun[e]
  /\ status' = SetStatus(started, "queued")
  /\ owner' = [r \in RunIds |-> owner'[r]] /\ input' = [r \in RunIds |-> input'[r]]
  /\ steer' = [e \in Events |-> steer'[e]] /\ steerRun' = [e \in Events |-> steerRun'[e]]
  /\ batch' = [e \in Events |-> batch'[e]] /\ batchRun' = [e \in Events |-> batchRun'[e]]
  /\ effects' = {Start(r) : r \in started}
  /\ UNCHANGED <<convVars, inbox, output, approvalVars, outboxVars>>

\* resume_pending_steers turns each resumable request into at most one new,
\* queued run of its own conversation, and changes nothing else of the runs.
LEMMA ResumeCreates ==
  ASSUME JournalOK, ResumePendingSteers
  PROVE  \E started \in SUBSET RunIds : ResumesInto(started)
<1> DEFINE joined == UNION {PendingSteers(c, Resumable) : c \in Continuable}
<1>1. PICK fresh \in [Continuable -> {r \in RunIds : status[r] = "none"}], last \in [Continuable -> Events] :
        LET started == {fresh[c] : c \in Continuable}
            convOf(r) == CHOOSE c \in Continuable : fresh[c] = r
        IN /\ \A c, d \in Continuable : fresh[c] = fresh[d] => c = d
           /\ \A c \in Continuable : last[c] \in PendingSteers(c, Resumable)
           /\ status' = SetStatus(started, "queued")
           /\ owner' = [r \in RunIds |-> IF r \in started THEN convOf(r) ELSE owner[r]]
           /\ input' = [r \in RunIds |-> IF r \in started THEN last[convOf(r)] ELSE input[r]]
           /\ steer' = [e \in Events |-> IF e \in joined THEN "delivered" ELSE steer[e]]
           /\ steerRun' = [e \in Events |-> IF e \in joined THEN fresh[owner[steerRun[e]]] ELSE steerRun[e]]
           /\ batch' = [e \in Events |->
                IF e \in joined /\ batch[e] = "pending" THEN "inflight" ELSE batch[e]]
           /\ batchRun' = [e \in Events |->
                IF e \in joined /\ batch[e] = "pending" THEN fresh[owner[steerRun[e]]] ELSE batchRun[e]]
           /\ effects' = {Start(r) : r \in started}
           /\ UNCHANGED <<convVars, inbox, output, approvalVars, outboxVars>>
  BY DEF ResumePendingSteers
<1> DEFINE started == {fresh[c] : c \in Continuable}
           convOf(r) == CHOOSE c \in Continuable : fresh[c] = r
<1>2. \A r \in started : convOf(r) \in Continuable /\ fresh[convOf(r)] = r
  OBVIOUS
<1>3. \A r \in started : r \in RunIds /\ status[r] = "none" /\ owner'[r] = convOf(r) /\ input'[r] = last[convOf(r)]
  BY <1>1
<1>4. \A r \in RunIds \ started : owner'[r] = owner[r] /\ input'[r] = input[r]
  BY <1>1
<1>5. \A e \in joined :
        steer[e] = "pending" /\ owner[steerRun[e]] \in Continuable /\ status[steerRun[e]] \in Resumable
  BY DEF PendingSteers
<1>6. \A e \in joined :
        /\ fresh[owner[steerRun[e]]] \in started
        /\ owner'[fresh[owner[steerRun[e]]]] = owner[steerRun[e]]
  <2> TAKE e \in joined
  <2>1. fresh[owner[steerRun[e]]] \in started
    BY <1>5
  <2>2. convOf(fresh[owner[steerRun[e]]]) = owner[steerRun[e]]
    BY <1>1, <1>2, <1>5, <2>1
  <2> QED BY <1>3, <2>1, <2>2
<1>7. /\ owner' = [r \in RunIds |-> owner'[r]] /\ input' = [r \in RunIds |-> input'[r]]
      /\ steer' = [e \in Events |-> steer'[e]] /\ steerRun' = [e \in Events |-> steerRun'[e]]
      /\ batch' = [e \in Events |-> batch'[e]] /\ batchRun' = [e \in Events |-> batchRun'[e]]
  BY <1>1
<1>8. ASSUME NEW e \in Events
      PROVE  IF e \in joined
             THEN /\ steer'[e] = "delivered" /\ steerRun'[e] = fresh[owner[steerRun[e]]]
                  /\ IF batch[e] = "pending"
                     THEN batch'[e] = "inflight" /\ batchRun'[e] = steerRun'[e]
                     ELSE batch'[e] = batch[e] /\ batchRun'[e] = batchRun[e]
             ELSE /\ steer'[e] = steer[e] /\ steerRun'[e] = steerRun[e]
                  /\ batch'[e] = batch[e] /\ batchRun'[e] = batchRun[e]
  <2> HIDE DEF joined
  <2> QED BY <1>1
<1>9. /\ status' = SetStatus(started, "queued") /\ effects' = {Start(r) : r \in started}
      /\ UNCHANGED <<convVars, inbox, output, approvalVars, outboxVars>>
  BY <1>1
<1>10. \A r \in started : owner'[r] \in Continuable /\ input'[r] \in Events
  BY <1>2, <1>3
<1>11. \A r, q \in started : owner'[r] = owner'[q] => r = q
  BY <1>2, <1>3
<1>12. \A r \in started : steer[input'[r]] = "pending" /\ steerRun'[input'[r]] = r
  <2> TAKE r \in started
  <2>1. input'[r] \in joined /\ input'[r] \in Events /\ owner[steerRun[input'[r]]] = convOf(r)
    BY <1>1, <1>2, <1>3 DEF PendingSteers
  <2> QED BY <1>2, <1>5, <1>8, <2>1
<1>13. started \in SUBSET RunIds
  BY <1>3
<1> HIDE DEF joined, started, convOf
<1> WITNESS started \in SUBSET RunIds
<1> QED BY <1>3, <1>4, <1>5, <1>6, <1>7, <1>8, <1>9, <1>10, <1>11, <1>12 DEF ResumesInto

-----------------------------------------------------------------------------
(* The journal *)

\* A new journal is well typed and refers to nothing that is missing.
LEMMA InitJournal == Init => JournalOK
BY NoneAssumption DEF Init, JournalOK, TypeOK, ForeignKeys, Active, Terminal, Effects

\* No operation of the bridge writes a row of the wrong type or a reference to
\* a run, conversation or event that the journal does not have.
LEMMA NextJournal == JournalOK /\ [Next]_vars => JournalOK'
<1> SUFFICES ASSUME JournalOK, [Next]_vars PROVE JournalOK'
  OBVIOUS
<1> USE ConversationAssumption, NoneAssumption
    DEF JournalOK, TypeOK, ForeignKeys, Active, Terminal, Effects, Marks, NoticeKinds,
        runVars, steerVars, batchVars, approvalVars, convVars, outboxVars, Notice
<1>1. ASSUME NEW e \in Events, NEW snap \in Snapshots, HandleBlank(e, snap)
      PROVE  JournalOK'
  BY <1>1 DEF Message, Record, CurrentBinding, Snapshots, HandleBlank
<1>2. ASSUME NEW e \in Events, NEW snap \in Snapshots, NEW r \in RunIds, HandleFollowUp(e, snap, r)
      PROVE  JournalOK'
  BY <1>2 DEF Message, Record, CurrentBinding, ActiveRunsOf, ActiveRuns, Snapshots, Steer, HandleFollowUp
<1>3. ASSUME NEW e \in Events, NEW snap \in Snapshots, HandleAtLimit(e, snap)
      PROVE  JournalOK'
  BY <1>3 DEF Message, Record, CurrentBinding, Snapshots, Reply, Notice, NoticeKinds, HandleAtLimit
<1>4. ASSUME NEW e \in Events, NEW snap \in Snapshots, NEW r \in RunIds, HandleRequest(e, snap, r)
      PROVE  JournalOK'
  <2>1. TypeOK'
    BY <1>4 DEF Message, Record, CurrentBinding, Snapshots, Start, HandleRequest
  <2>2. ForeignKeys'
    BY <1>4 DEF Message, Record, CurrentBinding, Snapshots, Start, HandleRequest
  <2> QED BY <2>1, <2>2
<1>5. ASSUME NEW e \in Events, NEW snap \in Snapshots, CommandInform(e, snap)
      PROVE  JournalOK'
  BY <1>5 DEF Command, Record, CurrentBinding, Snapshots, Reply, Notice, NoticeKinds, CommandInform
<1>6. ASSUME NEW e \in Events, NEW snap \in Snapshots, CommandStop(e, snap)
      PROVE  JournalOK'
  BY <1>6 DEF Command, Record, CurrentBinding, Snapshots, Notice, NoticeKinds, Cancel, ActiveRunsOf, ActiveRuns, SetStatus, ConsumeAll, DroppedByStop, PendingSteers, CommandStop
<1>7. ASSUME NEW e \in Events, NEW snap \in Snapshots, NEW mode \in {"on", "off"}, CommandPermissions(e, snap, mode)
      PROVE  JournalOK'
  BY <1>7 DEF Command, Record, CurrentBinding, Snapshots, Reply, Notice, NoticeKinds, CommandPermissions
<1>8. ASSUME NEW e \in Events, NEW snap \in Snapshots, NEW q \in Requests, NEW option \in Options, CommandApprove(e, snap, q, option)
      PROVE  JournalOK'
  BY <1>8 DEF Command, Record, CurrentBinding, Snapshots, Reply, Notice, NoticeKinds, Answerable, Settle, OpenRequests, Decide, CommandApprove
<1>9. ASSUME NEW r \in RunIds, Started(r)
      PROVE  JournalOK'
  BY <1>9 DEF Started
<1>10. ASSUME NEW r \in RunIds, NEW s \in Sessions, SessionReady(r, s)
      PROVE  JournalOK'
  BY <1>10 DEF Hears, SessionReady
<1>11. ASSUME NEW r \in RunIds, Text(r)
      PROVE  JournalOK'
  BY <1>11 DEF Hears, Observe, Text
<1>12. ASSUME NEW r \in RunIds, Tool(r)
      PROVE  JournalOK'
  BY <1>12 DEF Hears, Observe, Flush, Notice, NoticeKinds, Tool
<1>13. ASSUME NEW r \in RunIds, NEW q \in Requests, NEW allow \in BOOLEAN, Permission(r, q, allow)
      PROVE  JournalOK'
  BY <1>13 DEF Hears, Observe, Notice, NoticeKinds, Permission
<1>14. ASSUME NEW r \in RunIds, NEW q \in Requests, PermissionRepeated(r, q)
      PROVE  JournalOK'
  BY <1>14 DEF Hears, Observe, Flush, Notice, NoticeKinds, PermissionRepeated
<1>15. ASSUME NEW r \in RunIds, NEW e \in Events, Steered(r, e)
      PROVE  JournalOK'
  <2>1. /\ output' \in [RunIds -> BOOLEAN]
        /\ \A x \in RunIds : output'[x] => output[x]
        /\ notices' \subseteq [kind : NoticeKinds, conv : Conversations, about : Events \cup RunIds \cup Requests]
    <3>1. CASE AfterTurn
      <4>1. Hears(r) /\ Flush(r)
        BY <1>15, <3>1 DEF Steered
      <4>2. owner[r] \in Conversations
        BY <4>1 DEF Hears
      <4> QED BY <4>1, <4>2 DEF Flush
    <3>2. CASE ~AfterTurn
      BY <1>15, <3>2 DEF Steered
    <3> QED BY <3>1, <3>2
  <2>2. /\ batch' = [batch EXCEPT ![e] = IF @ = "pending" /\ batchRun[e] = r THEN "inflight" ELSE @]
        /\ steer' = [steer EXCEPT ![e] = IF @ = "pending" /\ steerRun[e] = r THEN "delivered" ELSE @]
        /\ effects' = {}
        /\ UNCHANGED <<convVars, inbox, status, owner, input, steerRun, batchRun, approvalVars, marks>>
    BY <1>15 DEF Steered
  <2> QED BY <2>1, <2>2
<1>16. ASSUME NEW r \in RunIds, NEW s \in Terminal, Finished(r, s)
      PROVE  JournalOK'
  BY <1>16 DEF EndBatch, Flush, Notice, NoticeKinds, SetStatus, ConsumeAll, Reported, Emoji, Finished
<1>17. ASSUME NEW q \in Requests, Lapse(q)
      PROVE  JournalOK'
  BY <1>17 DEF Lapse
<1>18. ASSUME AutomaticApprovals
      PROVE  JournalOK'
  BY <1>18 DEF AutomaticRequests, Settle, OpenRequests, Decide, Options, AutomaticApprovals
<1>19. ASSUME ExpireApprovals
      PROVE  JournalOK'
  BY <1>19 DEF Settle, OpenRequests, Decide, Notice, NoticeKinds, ExpireApprovals
<1>20. ASSUME NEW rm \in Rooms, NEW snap \in Snapshots, ReconcileRoom(rm, snap)
      PROVE  JournalOK'
  BY <1>20 DEF Revoked, SetStatus, ActiveRuns, ConsumeAll, Cancel, ReconcileRoom
<1>21. ASSUME NEW r \in RunIds, ExplicitMessage(r)
      PROVE  JournalOK'
  BY <1>21 DEF Hears, Observe, Notice, NoticeKinds, ExplicitMessage
<1>22. ASSUME NEW p \in Policies, Recover(p)
      PROVE  JournalOK'
  BY <1>22 DEF SetStatus, ActiveRuns, Notice, NoticeKinds, Recover
<1>23. ASSUME ResumePendingSteers
      PROVE  JournalOK'
  <2>1. PICK started \in SUBSET RunIds : ResumesInto(started)
    BY <1>23, ResumeCreates
  <2>2. Continuable \subseteq Conversations
    BY DEF Continuable
  <2>3. ASSUME NEW r \in RunIds
        PROVE  /\ status'[r] \in Active \cup Terminal \cup {"none"}
               /\ owner'[r] \in Conversations \cup {None}
               /\ input'[r] \in Events \cup {None}
               /\ status[r] # "none" => status'[r] # "none"
               /\ IF status'[r] = "none"
                  THEN owner'[r] = None /\ input'[r] = None /\ ~output'[r]
                  ELSE owner'[r] \in Conversations /\ input'[r] \in Events
    <3>1. CASE r \in started
      BY <2>1, <2>2, <3>1 DEF ResumesInto, SetStatus
    <3>2. CASE r \notin started
      BY <2>1, <3>2 DEF ResumesInto, SetStatus
    <3> QED BY <3>1, <3>2
  <2>4. ASSUME NEW e \in Events
        PROVE  /\ steer'[e] \in {"none", "pending", "delivered", "cancelled", "interrupted"}
               /\ batch'[e] \in {"none", "pending", "inflight", "delivered", "abandoned"}
               /\ steerRun'[e] \in RunIds \cup {None} /\ batchRun'[e] \in RunIds \cup {None}
               /\ steer'[e] # "none" => steerRun'[e] \in RunIds /\ status'[steerRun'[e]] # "none"
               /\ batch'[e] # "none" => batchRun'[e] \in RunIds /\ status'[batchRun'[e]] # "none"
    BY <2>1, <2>3 DEF ResumesInto, SetStatus
  <2>5. TypeOK'
    <3>1. /\ status' = [r \in RunIds |-> status'[r]]
          /\ owner' = [r \in RunIds |-> owner'[r]] /\ input' = [r \in RunIds |-> input'[r]]
          /\ steer' = [e \in Events |-> steer'[e]] /\ steerRun' = [e \in Events |-> steerRun'[e]]
          /\ batch' = [e \in Events |-> batch'[e]] /\ batchRun' = [e \in Events |-> batchRun'[e]]
      BY <2>1 DEF ResumesInto, SetStatus
    <3>2. /\ status' \in [RunIds -> Active \cup Terminal \cup {"none"}]
          /\ owner' \in [RunIds -> Conversations \cup {None}]
          /\ input' \in [RunIds -> Events \cup {None}]
      BY <2>3, <3>1
    <3>3. /\ steer' \in [Events -> {"none", "pending", "delivered", "cancelled", "interrupted"}]
          /\ batch' \in [Events -> {"none", "pending", "inflight", "delivered", "abandoned"}]
          /\ steerRun' \in [Events -> RunIds \cup {None}]
          /\ batchRun' \in [Events -> RunIds \cup {None}]
      BY <2>4, <3>1
    <3>4. effects' \subseteq Effects
      BY <2>1 DEF ResumesInto, Start
    <3>5. UNCHANGED <<convVars, inbox, output, approvalVars, outboxVars>>
      BY <2>1 DEF ResumesInto
    <3> QED BY <3>2, <3>3, <3>4, <3>5
  <2>6. ForeignKeys'
    BY <2>1, <2>3, <2>4 DEF ResumesInto
  <2> QED BY <2>5, <2>6
<1>24. CASE UNCHANGED vars
  BY <1>24 DEF vars
<1> HIDE DEF JournalOK, TypeOK, ForeignKeys, Active, Terminal, Effects, Marks, NoticeKinds, runVars,
             steerVars, batchVars, approvalVars, convVars, outboxVars, Notice
<1> QED
  BY <1>1, <1>2, <1>3, <1>4, <1>5, <1>6, <1>7, <1>8, <1>9, <1>10, <1>11, <1>12, <1>13, <1>14, <1>15, <1>16, <1>17, <1>18, <1>19, <1>20, <1>21, <1>22, <1>23, <1>24 DEF Next, Handle, HandleMessage, HandleCommand, AgentEvent
-----------------------------------------------------------------------------
(* A run waits exactly while one of its requests is open *)

\* A new journal has neither a waiting run nor an open request.
LEMMA InitWaiting == Init => WaitingIffOpen
BY DEF Init, WaitingIffOpen, OpenRequests

\* Every operation that opens, answers or closes a request moves the status of
\* its run accordingly, and no other operation makes a run wait.
LEMMA NextWaiting == JournalOK /\ WaitingIffOpen /\ [Next]_vars => WaitingIffOpen'
<1> SUFFICES ASSUME JournalOK, WaitingIffOpen, [Next]_vars PROVE WaitingIffOpen'
  OBVIOUS
<1> USE DEF WaitingIffOpen
<1>1. ASSUME NEW e \in Events, NEW snap \in Snapshots, HandleBlank(e, snap)
      PROVE  WaitingIffOpen'
  BY <1>1 DEF HandleBlank, OpenRequests, runVars, approvalVars
<1>2. ASSUME NEW e \in Events, NEW snap \in Snapshots, NEW r \in RunIds, HandleFollowUp(e, snap, r)
      PROVE  WaitingIffOpen'
  BY <1>2 DEF HandleFollowUp, OpenRequests, runVars, approvalVars
<1>3. ASSUME NEW e \in Events, NEW snap \in Snapshots, HandleAtLimit(e, snap)
      PROVE  WaitingIffOpen'
  BY <1>3 DEF HandleAtLimit, OpenRequests, runVars, approvalVars
<1>4. ASSUME NEW e \in Events, NEW snap \in Snapshots, NEW r \in RunIds, HandleRequest(e, snap, r)
      PROVE  WaitingIffOpen'
  BY <1>4 DEF HandleRequest, OpenRequests, approvalVars, JournalOK, TypeOK
<1>5. ASSUME NEW e \in Events, NEW snap \in Snapshots, CommandInform(e, snap)
      PROVE  WaitingIffOpen'
  BY <1>5 DEF CommandInform, OpenRequests, runVars, approvalVars
<1>6. ASSUME NEW e \in Events, NEW snap \in Snapshots, CommandStop(e, snap)
      PROVE  WaitingIffOpen'
  <2>1. /\ status' = SetStatus(ActiveRunsOf(ConvOf[e]), "cancelling")
        /\ approval' = ConsumeAll(ActiveRunsOf(ConvOf[e])) /\ approvalRun' = approvalRun
    BY <1>6 DEF CommandStop
  <2>2. ActiveRunsOf(ConvOf[e]) \in SUBSET RunIds
    BY DEF ActiveRunsOf, ActiveRuns
  <2>3. "cancelling" \in (Active \cup Terminal) \ {"waiting_approval"}
    BY DEF Active
  <2> QED BY <2>1, <2>2, <2>3, ConsumeKeepsWaiting
<1>7. ASSUME NEW e \in Events, NEW snap \in Snapshots, NEW mode \in {"on", "off"}, CommandPermissions(e, snap, mode)
      PROVE  WaitingIffOpen'
  BY <1>7 DEF CommandPermissions, OpenRequests, runVars, approvalVars
<1>8. ASSUME NEW e \in Events, NEW snap \in Snapshots, NEW q \in Requests, NEW option \in Options, CommandApprove(e, snap, q, option)
      PROVE  WaitingIffOpen'
  <2>1. Settle({q}) /\ approvalRun' = approvalRun /\ approval[q] = "open"
    BY <1>8 DEF CommandApprove, Answerable
  <2>2. {q} \in SUBSET {x \in Requests : approval[x] = "open"}
    BY <2>1
  <2> QED BY <2>1, <2>2, SettleKeepsWaiting
<1>9. ASSUME NEW r \in RunIds, Started(r)
      PROVE  WaitingIffOpen'
  BY <1>9 DEF Started, OpenRequests, approvalVars, JournalOK, TypeOK
<1>10. ASSUME NEW r \in RunIds, NEW s \in Sessions, SessionReady(r, s)
      PROVE  WaitingIffOpen'
  BY <1>10 DEF SessionReady, OpenRequests, runVars, approvalVars
<1>11. ASSUME NEW r \in RunIds, Text(r)
      PROVE  WaitingIffOpen'
  BY <1>11 DEF Text, OpenRequests, runVars, approvalVars
<1>12. ASSUME NEW r \in RunIds, Tool(r)
      PROVE  WaitingIffOpen'
  BY <1>12 DEF Tool, OpenRequests, runVars, approvalVars
<1>13. ASSUME NEW r \in RunIds, NEW q \in Requests, NEW allow \in BOOLEAN, Permission(r, q, allow)
      PROVE  WaitingIffOpen'
  <2>1. /\ approval' = [approval EXCEPT ![q] = "open"] /\ approval[q] = "none"
        /\ approvalRun' = [approvalRun EXCEPT ![q] = r]
        /\ status' = [status EXCEPT ![r] = "waiting_approval"]
    BY <1>13 DEF Permission
  <2>2. \A x \in RunIds : OpenRequests(x)' = IF x = r THEN OpenRequests(x) \cup {q} ELSE OpenRequests(x)
    BY <2>1 DEF OpenRequests, JournalOK, TypeOK
  <2> QED BY <2>1, <2>2 DEF WaitingIffOpen, JournalOK, TypeOK
<1>14. ASSUME NEW r \in RunIds, NEW q \in Requests, PermissionRepeated(r, q)
      PROVE  WaitingIffOpen'
  BY <1>14 DEF PermissionRepeated, OpenRequests, runVars, approvalVars
<1>15. ASSUME NEW r \in RunIds, NEW e \in Events, Steered(r, e)
      PROVE  WaitingIffOpen'
  BY <1>15 DEF Steered, OpenRequests, runVars, approvalVars
<1>16. ASSUME NEW r \in RunIds, NEW s \in Terminal, Finished(r, s)
      PROVE  WaitingIffOpen'
  <2>1. status' = SetStatus({r}, s) /\ approval' = ConsumeAll({r}) /\ approvalRun' = approvalRun
    BY <1>16 DEF Finished
  <2>2. s \in (Active \cup Terminal) \ {"waiting_approval"}
    BY DEF Active, Terminal
  <2> QED BY <2>1, <2>2, ConsumeKeepsWaiting
<1>17. ASSUME NEW q \in Requests, Lapse(q)
      PROVE  WaitingIffOpen'
  BY <1>17 DEF Lapse, OpenRequests, runVars
<1>18. ASSUME AutomaticApprovals
      PROVE  WaitingIffOpen'
  <2>1. Settle(AutomaticRequests) /\ approvalRun' = approvalRun
    BY <1>18 DEF AutomaticApprovals
  <2> QED BY <2>1, TimersAnswerOpen, SettleKeepsWaiting
<1>19. ASSUME ExpireApprovals
      PROVE  WaitingIffOpen'
  <2>1. Settle({q \in late : approval[q] = "open"}) /\ approvalRun' = approvalRun
    BY <1>19 DEF ExpireApprovals
  <2> QED BY <2>1, TimersAnswerOpen, SettleKeepsWaiting
<1>20. ASSUME ResumePendingSteers
      PROVE  WaitingIffOpen'
  <2>1. PICK started \in SUBSET RunIds : ResumesInto(started)
    BY <1>20, ResumeCreates
  <2>2. \A r \in RunIds : OpenRequests(r)' = OpenRequests(r)
    BY <2>1 DEF ResumesInto, OpenRequests, approvalVars
  <2>3. \A r \in RunIds : status'[r] = status[r] \/ (status[r] = "none" /\ status'[r] = "queued")
    BY <2>1 DEF ResumesInto, SetStatus
  <2> QED BY <2>2, <2>3 DEF WaitingIffOpen
<1>21. ASSUME NEW rm \in Rooms, NEW snap \in Snapshots, ReconcileRoom(rm, snap)
      PROVE  WaitingIffOpen'
  <2>1. LET stopped == Revoked(rm, snap) \cap ActiveRuns
        IN status' = SetStatus(stopped, "cancelling") /\ approval' = ConsumeAll(stopped)
    BY <1>21 DEF ReconcileRoom
  <2>2. approvalRun' = approvalRun
    BY <1>21 DEF ReconcileRoom
  <2>3. Revoked(rm, snap) \cap ActiveRuns \in SUBSET RunIds
    BY DEF ActiveRuns
  <2>4. "cancelling" \in (Active \cup Terminal) \ {"waiting_approval"}
    BY DEF Active
  <2> QED BY <2>1, <2>2, <2>3, <2>4, ConsumeKeepsWaiting
<1>22. ASSUME NEW r \in RunIds, ExplicitMessage(r)
      PROVE  WaitingIffOpen'
  BY <1>22 DEF ExplicitMessage, OpenRequests, runVars, approvalVars
<1>23. ASSUME NEW p \in Policies, Recover(p)
      PROVE  WaitingIffOpen'
  <2>1. status' = SetStatus(ActiveRuns, "interrupted")
        /\ approval' = [q \in Requests |-> IF approval[q] = "open" THEN "consumed" ELSE approval[q]]
    BY <1>23 DEF Recover
  <2>2. \A r \in RunIds : OpenRequests(r)' = {}
    BY <2>1 DEF OpenRequests, JournalOK, TypeOK
  <2>3. \A r \in RunIds : status'[r] # "waiting_approval"
    BY <2>1 DEF SetStatus, ActiveRuns, Active
  <2> QED BY <2>2, <2>3 DEF WaitingIffOpen
<1>24. CASE UNCHANGED vars
  BY <1>24 DEF vars, runVars, approvalVars, OpenRequests
<1> HIDE DEF WaitingIffOpen
<1> QED
  BY <1>1, <1>2, <1>3, <1>4, <1>5, <1>6, <1>7, <1>8, <1>9, <1>10, <1>11, <1>12, <1>13, <1>14, <1>15, <1>16, <1>17, <1>18, <1>19, <1>20, <1>21, <1>22, <1>23, <1>24 DEF Next, Handle, HandleMessage, HandleCommand, AgentEvent
-----------------------------------------------------------------------------
(* A conversation has at most one active run *)

\* A new journal has no active run.
LEMMA InitOneActive == Init => OneActiveRun
BY DEF Init, OneActiveRun, Active

\* An operation starts a run only in a conversation without an active one, and
\* none revives a run that has ended.
LEMMA NextOneActive == JournalOK /\ OneActiveRun /\ [Next]_vars => OneActiveRun'
<1> SUFFICES ASSUME JournalOK, OneActiveRun, [Next]_vars PROVE OneActiveRun'
  OBVIOUS
<1> USE DEF OneActiveRun, JournalOK, TypeOK, Active, Terminal
<1>1. ASSUME NEW e \in Events, NEW snap \in Snapshots, HandleBlank(e, snap)
      PROVE  OneActiveRun'
  BY <1>1 DEF HandleBlank, runVars
<1>2. ASSUME NEW e \in Events, NEW snap \in Snapshots, NEW r \in RunIds, HandleFollowUp(e, snap, r)
      PROVE  OneActiveRun'
  BY <1>2 DEF HandleFollowUp, runVars
<1>3. ASSUME NEW e \in Events, NEW snap \in Snapshots, HandleAtLimit(e, snap)
      PROVE  OneActiveRun'
  BY <1>3 DEF HandleAtLimit, runVars
<1>4. ASSUME NEW e \in Events, NEW snap \in Snapshots, NEW r \in RunIds, HandleRequest(e, snap, r)
      PROVE  OneActiveRun'
  BY <1>4 DEF HandleRequest, runVars, ActiveRunsOf, ActiveRuns
<1>5. ASSUME NEW e \in Events, NEW snap \in Snapshots, CommandInform(e, snap)
      PROVE  OneActiveRun'
  BY <1>5 DEF CommandInform, runVars
<1>6. ASSUME NEW e \in Events, NEW snap \in Snapshots, CommandStop(e, snap)
      PROVE  OneActiveRun'
  BY <1>6 DEF CommandStop, runVars, SetStatus, ActiveRunsOf, ActiveRuns
<1>7. ASSUME NEW e \in Events, NEW snap \in Snapshots, NEW mode \in {"on", "off"}, CommandPermissions(e, snap, mode)
      PROVE  OneActiveRun'
  BY <1>7 DEF CommandPermissions, runVars
<1>8. ASSUME NEW e \in Events, NEW snap \in Snapshots, NEW q \in Requests, NEW option \in Options, CommandApprove(e, snap, q, option)
      PROVE  OneActiveRun'
  BY <1>8 DEF CommandApprove, runVars, Settle, Answerable
<1>9. ASSUME NEW r \in RunIds, Started(r)
      PROVE  OneActiveRun'
  BY <1>9 DEF Started, runVars
<1>10. ASSUME NEW r \in RunIds, NEW s \in Sessions, SessionReady(r, s)
      PROVE  OneActiveRun'
  BY <1>10 DEF SessionReady, runVars
<1>11. ASSUME NEW r \in RunIds, Text(r)
      PROVE  OneActiveRun'
  BY <1>11 DEF Text, runVars
<1>12. ASSUME NEW r \in RunIds, Tool(r)
      PROVE  OneActiveRun'
  BY <1>12 DEF Tool, runVars
<1>13. ASSUME NEW r \in RunIds, NEW q \in Requests, NEW allow \in BOOLEAN, Permission(r, q, allow)
      PROVE  OneActiveRun'
  BY <1>13 DEF Permission, runVars, Hears
<1>14. ASSUME NEW r \in RunIds, NEW q \in Requests, PermissionRepeated(r, q)
      PROVE  OneActiveRun'
  BY <1>14 DEF PermissionRepeated, runVars
<1>15. ASSUME NEW r \in RunIds, NEW e \in Events, Steered(r, e)
      PROVE  OneActiveRun'
  BY <1>15 DEF Steered, runVars
<1>16. ASSUME NEW r \in RunIds, NEW s \in Terminal, Finished(r, s)
      PROVE  OneActiveRun'
  BY <1>16 DEF Finished, runVars, SetStatus
<1>17. ASSUME NEW q \in Requests, Lapse(q)
      PROVE  OneActiveRun'
  BY <1>17 DEF Lapse, runVars
<1>18. ASSUME AutomaticApprovals
      PROVE  OneActiveRun'
  BY <1>18 DEF AutomaticApprovals, runVars, Settle
<1>19. ASSUME ExpireApprovals
      PROVE  OneActiveRun'
  BY <1>19 DEF ExpireApprovals, runVars, Settle
<1>20. ASSUME ResumePendingSteers
      PROVE  OneActiveRun'
  <2>1. PICK started \in SUBSET RunIds : ResumesInto(started)
    BY <1>20, ResumeCreates
  <2>2. ASSUME NEW r \in RunIds, NEW q \in RunIds,
               status'[r] \in Active, status'[q] \in Active, owner'[r] = owner'[q]
        PROVE  r = q
    <3>1. ASSUME NEW x \in started, NEW y \in RunIds \ started, owner'[x] = owner'[y]
          PROVE  status'[y] \notin Active
      <4>1. ActiveRunsOf(owner'[x]) = {} /\ owner'[y] = owner[y] /\ status'[y] = status[y]
        BY <2>1, <3>1 DEF ResumesInto, Continuable, SetStatus
      <4> QED BY <3>1, <4>1 DEF ActiveRunsOf, ActiveRuns
    <3>2. CASE r \in started /\ q \in started
      BY <2>1, <2>2, <3>2 DEF ResumesInto
    <3>3. CASE r \notin started /\ q \notin started
      BY <2>1, <2>2, <3>3 DEF ResumesInto, SetStatus, OneActiveRun
    <3> QED BY <2>2, <3>1, <3>2, <3>3
  <2> QED BY <2>2 DEF OneActiveRun
<1>21. ASSUME NEW rm \in Rooms, NEW snap \in Snapshots, ReconcileRoom(rm, snap)
      PROVE  OneActiveRun'
  BY <1>21 DEF ReconcileRoom, runVars, SetStatus, ActiveRuns
<1>22. ASSUME NEW r \in RunIds, ExplicitMessage(r)
      PROVE  OneActiveRun'
  BY <1>22 DEF ExplicitMessage, runVars
<1>23. ASSUME NEW p \in Policies, Recover(p)
      PROVE  OneActiveRun'
  BY <1>23 DEF Recover, runVars, SetStatus, ActiveRuns
<1>24. CASE UNCHANGED vars
  BY <1>24 DEF vars, runVars
<1> HIDE DEF OneActiveRun, JournalOK, TypeOK, Active, Terminal
<1> QED
  BY <1>1, <1>2, <1>3, <1>4, <1>5, <1>6, <1>7, <1>8, <1>9, <1>10, <1>11, <1>12, <1>13, <1>14, <1>15, <1>16, <1>17, <1>18, <1>19, <1>20, <1>21, <1>22, <1>23, <1>24 DEF Next, Handle, HandleMessage, HandleCommand, AgentEvent

-----------------------------------------------------------------------------
(* Bridge implements RunLifecycle *)

\* Every run stays where it is or moves along an edge of the life cycle.
RunsStep ==
  \A r \in RunIds :
    /\ status'[r] # status[r] => status'[r] \in Life!NextStatus(status[r])
    /\ status[r] # "none" => owner'[r] = owner[r]

\* Every operation moves each run along its life cycle and leaves the owner of
\* a run alone.
LEMMA NextRunsStep == JournalOK /\ [Next]_vars => RunsStep
<1> SUFFICES ASSUME JournalOK, [Next]_vars PROVE RunsStep
  OBVIOUS
<1> USE DEF RunsStep, JournalOK, TypeOK, Active, Terminal, Life!NextStatus, Life!Terminal
<1>1. ASSUME NEW e \in Events, NEW snap \in Snapshots, HandleBlank(e, snap)
      PROVE  RunsStep
  BY <1>1 DEF HandleBlank, runVars
<1>2. ASSUME NEW e \in Events, NEW snap \in Snapshots, NEW r \in RunIds, HandleFollowUp(e, snap, r)
      PROVE  RunsStep
  BY <1>2 DEF HandleFollowUp, runVars
<1>3. ASSUME NEW e \in Events, NEW snap \in Snapshots, HandleAtLimit(e, snap)
      PROVE  RunsStep
  BY <1>3 DEF HandleAtLimit, runVars
<1>4. ASSUME NEW e \in Events, NEW snap \in Snapshots, NEW r \in RunIds, HandleRequest(e, snap, r)
      PROVE  RunsStep
  BY <1>4 DEF HandleRequest, runVars, ActiveRunsOf, ActiveRuns
<1>5. ASSUME NEW e \in Events, NEW snap \in Snapshots, CommandInform(e, snap)
      PROVE  RunsStep
  BY <1>5 DEF CommandInform, runVars
<1>6. ASSUME NEW e \in Events, NEW snap \in Snapshots, CommandStop(e, snap)
      PROVE  RunsStep
  BY <1>6 DEF CommandStop, runVars, SetStatus, ActiveRunsOf, ActiveRuns
<1>7. ASSUME NEW e \in Events, NEW snap \in Snapshots, NEW mode \in {"on", "off"}, CommandPermissions(e, snap, mode)
      PROVE  RunsStep
  BY <1>7 DEF CommandPermissions, runVars
<1>8. ASSUME NEW e \in Events, NEW snap \in Snapshots, NEW q \in Requests, NEW option \in Options, CommandApprove(e, snap, q, option)
      PROVE  RunsStep
  BY <1>8 DEF CommandApprove, runVars, Settle, Answerable
<1>9. ASSUME NEW r \in RunIds, Started(r)
      PROVE  RunsStep
  BY <1>9 DEF Started, runVars
<1>10. ASSUME NEW r \in RunIds, NEW s \in Sessions, SessionReady(r, s)
      PROVE  RunsStep
  BY <1>10 DEF SessionReady, runVars
<1>11. ASSUME NEW r \in RunIds, Text(r)
      PROVE  RunsStep
  BY <1>11 DEF Text, runVars
<1>12. ASSUME NEW r \in RunIds, Tool(r)
      PROVE  RunsStep
  BY <1>12 DEF Tool, runVars
<1>13. ASSUME NEW r \in RunIds, NEW q \in Requests, NEW allow \in BOOLEAN, Permission(r, q, allow)
      PROVE  RunsStep
  BY <1>13 DEF Permission, runVars, Hears
<1>14. ASSUME NEW r \in RunIds, NEW q \in Requests, PermissionRepeated(r, q)
      PROVE  RunsStep
  BY <1>14 DEF PermissionRepeated, runVars
<1>15. ASSUME NEW r \in RunIds, NEW e \in Events, Steered(r, e)
      PROVE  RunsStep
  BY <1>15 DEF Steered, runVars
<1>16. ASSUME NEW r \in RunIds, NEW s \in Terminal, Finished(r, s)
      PROVE  RunsStep
  BY <1>16 DEF Finished, runVars, SetStatus
<1>17. ASSUME NEW q \in Requests, Lapse(q)
      PROVE  RunsStep
  BY <1>17 DEF Lapse, runVars
<1>18. ASSUME AutomaticApprovals
      PROVE  RunsStep
  BY <1>18 DEF AutomaticApprovals, runVars, Settle
<1>19. ASSUME ExpireApprovals
      PROVE  RunsStep
  BY <1>19 DEF ExpireApprovals, runVars, Settle
<1>20. ASSUME ResumePendingSteers
      PROVE  RunsStep
  <2>1. PICK started \in SUBSET RunIds : ResumesInto(started)
    BY <1>20, ResumeCreates
  <2> QED BY <2>1 DEF ResumesInto, SetStatus
<1>21. ASSUME NEW rm \in Rooms, NEW snap \in Snapshots, ReconcileRoom(rm, snap)
      PROVE  RunsStep
  BY <1>21 DEF ReconcileRoom, runVars, SetStatus, ActiveRuns
<1>22. ASSUME NEW r \in RunIds, ExplicitMessage(r)
      PROVE  RunsStep
  BY <1>22 DEF ExplicitMessage, runVars
<1>23. ASSUME NEW p \in Policies, Recover(p)
      PROVE  RunsStep
  BY <1>23 DEF Recover, runVars, SetStatus, ActiveRuns
<1>24. CASE UNCHANGED vars
  BY <1>24 DEF vars, runVars
<1> HIDE DEF RunsStep, JournalOK, TypeOK, Active, Terminal, Life!NextStatus, Life!Terminal
<1> QED
  BY <1>1, <1>2, <1>3, <1>4, <1>5, <1>6, <1>7, <1>8, <1>9, <1>10, <1>11, <1>12, <1>13, <1>14, <1>15, <1>16, <1>17, <1>18, <1>19, <1>20, <1>21, <1>22, <1>23, <1>24 DEF Next, Handle, HandleMessage, HandleCommand, AgentEvent

-----------------------------------------------------------------------------
(* Theorems about the specification *)

\* Every table of the journal stays well typed and refers to existing rows,
\* whatever is handled, heard from agents, timed out, revoked or recovered.
THEOREM JournalCorrect == Spec => []JournalOK
<1>1. Init => JournalOK
  BY InitJournal
<1>2. JournalOK /\ [Next]_vars => JournalOK'
  BY NextJournal
<1> QED BY <1>1, <1>2, PTL DEF Spec

\* TypeOK of Bridge, which the run on turns checks.
THEOREM TypeCorrect == Spec => []TypeOK
<1>1. JournalOK => TypeOK
  BY DEF JournalOK
<1> QED BY <1>1, JournalCorrect, PTL

\* waiting_approval and the approvals table agree for any number of runs,
\* conversations and requests open at once.
THEOREM WaitingCorrect == Spec => []WaitingIffOpen
<1>1. Init => WaitingIffOpen
  BY InitWaiting
<1>2. JournalOK /\ WaitingIffOpen /\ [Next]_vars => WaitingIffOpen'
  BY NextWaiting
<1> QED BY <1>1, <1>2, JournalCorrect, PTL DEF Spec

\* No insert or update of runs is ever rejected by the one_active_run index.
THEOREM OneActiveCorrect == Spec => []OneActiveRun
<1>1. Init => OneActiveRun
  BY InitOneActive
<1>2. JournalOK /\ OneActiveRun /\ [Next]_vars => OneActiveRun'
  BY NextOneActive
<1> QED BY <1>1, <1>2, JournalCorrect, PTL DEF Spec

\* The bridge implements the abstract life cycle of runs.
THEOREM LifecycleCorrect == Spec => Lifecycle
<1>1. Init => Life!Init
  BY DEF Init, Life!Init
<1>2. JournalOK /\ JournalOK' /\ OneActiveRun' /\ [Next]_vars => [Life!Next]_<<status, owner>>
  <2> SUFFICES ASSUME JournalOK, JournalOK', OneActiveRun', [Next]_vars PROVE Life!Next
    OBVIOUS
  <2>1. RunsStep
    BY NextRunsStep
  <2>2. Life!Exclusive(status', owner')
    BY DEF OneActiveRun, Life!Exclusive, Life!Active, Active
  <2>3. /\ status' \in [RunIds -> Life!Active \cup Life!Terminal \cup {"none"}]
        /\ owner' \in [RunIds -> Conversations \cup {None}]
    BY DEF JournalOK, TypeOK, Life!Active, Life!Terminal, Active, Terminal
  <2> QED BY <2>1, <2>2, <2>3 DEF RunsStep, Life!Next
<1> QED BY <1>1, <1>2, JournalCorrect, OneActiveCorrect, PTL DEF Spec, Lifecycle, Life!Spec
=============================================================================
