------------------------------- MODULE Bridge -------------------------------
(***************************************************************************)
(* The durable single-writer state machine of src/src/core.rs over the     *)
(* journal of src/src/store.rs: one action per public operation of Bridge  *)
(* (and Store::recover), each the whole SQLite transaction of that         *)
(* operation.  What an operation returns for its caller to carry out is    *)
(* left in `effects`.                                                      *)
(*                                                                         *)
(* Message bodies, prompts and the wording of notices are abstracted.  An  *)
(* event belongs to one conversation (Bridge::conversation hashes the room *)
(* and the thread root).  An approval's expiry is the flag `late`, set by  *)
(* the passing of time.  A run identifier is fresh when its status is      *)
(* "none".                                                                 *)
(***************************************************************************)
EXTENDS Naturals, Sequences, FiniteSets

CONSTANTS
  Conversations,  \* conversation keys
  Rooms,
  RoomOf,         \* the room of each conversation
  Events,         \* Matrix event identifiers
  ConvOf,         \* the conversation an event falls into
  RunIds,         \* bound: how many runs can be created
  Requests,       \* bound: how many permission requests agents can make
  Sessions,       \* ACP session identifiers
  Policies,       \* binding fingerprints the configuration may have had
  Audiences,      \* room audiences, as Policy::audience_binding tells them apart
  ExplicitConvs,  \* conversations in rooms with message_delivery = explicit
  AutoConvs,      \* conversations in rooms with tool_approval = automatic
  AfterTurn,      \* harness.steering = after_turn
  MaxConcurrent,  \* max_concurrent_runs; 0 is unlimited
  None

ASSUME ConversationAssumption ==
  /\ RoomOf \in [Conversations -> Rooms]
  /\ ConvOf \in [Events -> Conversations]
  /\ ExplicitConvs \subseteq Conversations
  /\ AutoConvs \subseteq Conversations

ASSUME ConfigAssumption == AfterTurn \in BOOLEAN /\ MaxConcurrent \in Nat

ASSUME NoneAssumption ==
  /\ None \notin Conversations
  /\ None \notin Events
  /\ None \notin RunIds
  /\ None \notin Sessions
  /\ None \notin [policy : Policies, audience : Audiences]

ASSUME FiniteAssumption == IsFiniteSet(RunIds)

VARIABLES
  policy,       \* fingerprint of the configuration this process runs with
  binding,      \* conversations.policy and .audience, fixed at first admission
  session,      \* conversations.session
  automatic,    \* conversation_permissions: "default" when there is no row
  inbox,        \* the inbox table, in insertion order
  status,       \* runs.status
  owner,        \* runs.conversation
  input,        \* run_inputs.event
  output,       \* the run has buffered, publishable text in the output table
  steer,        \* run_steers.status
  steerRun,     \* run_steers.run
  batch,        \* context_batches.state, by input event
  batchRun,     \* context_batches.run
  approval,     \* approvals: "none", "open" (consumed=0) or "consumed"
  approvalRun,  \* approvals.run
  allowable,    \* requests whose offered options include an allow option
  late,         \* requests whose expiry has passed
  decisions,    \* approval_decisions.request
  marks,        \* outbox_reactions keys enqueued for an event, in order
  notices,      \* text rows of the outbox
  effects       \* what the last operation returned

runVars      == <<status, owner, input, output>>
steerVars    == <<steer, steerRun>>
batchVars    == <<batch, batchRun>>
approvalVars == <<approval, approvalRun, allowable, late, decisions>>
convVars     == <<policy, binding, session, automatic>>
outboxVars   == <<marks, notices>>
vars == <<convVars, inbox, runVars, steerVars, batchVars, approvalVars, outboxVars, effects>>

Active   == {"queued", "running", "waiting_approval", "cancelling"}
Terminal == {"completed", "failed", "cancelled", "interrupted"}
Resumable == {"completed", "cancelled"}

Options == {"allow", "reject", "unoffered"}
Marks   == {"eyes", "done", "failed", "stopped", "interrupted"}
NoticeKinds == {"reply", "stop", "output", "prompt", "expired", "restart", "explicit"}

Snapshots == [fit : BOOLEAN, audience : Audiences]

Effects ==
  [type : {"start", "cancel"}, run : RunIds]
    \cup [type : {"steer"}, run : RunIds, event : Events]
    \cup [type : {"decide"}, run : RunIds, request : Requests, option : Options \cup {None}]

Start(r)        == [type |-> "start", run |-> r]
Cancel(r)       == [type |-> "cancel", run |-> r]
Steer(r, e)     == [type |-> "steer", run |-> r, event |-> e]
Decide(q, o)    == [type |-> "decide", run |-> approvalRun[q], request |-> q, option |-> o]
Notice(k, c, x) == [kind |-> k, conv |-> c, about |-> x]

Init ==
  /\ policy \in Policies
  /\ binding = [c \in Conversations |-> None]
  /\ session = [c \in Conversations |-> None]
  /\ automatic = [c \in Conversations |-> "default"]
  /\ inbox = <<>>
  /\ status = [r \in RunIds |-> "none"]
  /\ owner = [r \in RunIds |-> None]
  /\ input = [r \in RunIds |-> None]
  /\ output = [r \in RunIds |-> FALSE]
  /\ steer = [e \in Events |-> "none"]
  /\ steerRun = [e \in Events |-> None]
  /\ batch = [e \in Events |-> "none"]
  /\ batchRun = [e \in Events |-> None]
  /\ approval = [q \in Requests |-> "none"]
  /\ approvalRun = [q \in Requests |-> None]
  /\ allowable = {}
  /\ late = {}
  /\ decisions = {}
  /\ marks = [e \in Events |-> <<>>]
  /\ notices = {}
  /\ effects = {}

-----------------------------------------------------------------------------
(* Queries shared by the operations *)

Received == {inbox[i] : i \in DOMAIN inbox}

\* e entered the inbox no later than d.
NoLater(e, d) == \E i, j \in DOMAIN inbox : i <= j /\ inbox[i] = e /\ inbox[j] = d

ActiveRuns     == {r \in RunIds : status[r] \in Active}
\* Mutant: a run being cancelled no longer counts.
UncancelledRunsOf(c) == {r \in ActiveRuns : owner[r] = c /\ status[r] # "cancelling"}
ActiveRunsOf(c) == {r \in ActiveRuns : owner[r] = c}

OpenRequests(r) == {q \in Requests : approval[q] = "open" /\ approvalRun[q] = r}

CurrentBinding(c, snap) == [policy |-> policy, audience |-> snap.audience]

\* Bridge::may_deliver_to.
MayDeliver(c, snap) == snap.fit /\ binding[c] = CurrentBinding(c, snap)

\* Mutant: rows already given or cancelled are selected again.
AnySteers(c, S) ==
  {e \in Events : /\ steer[e] \in {"pending", "delivered", "cancelled"}
                  /\ owner[steerRun[e]] = c /\ status[steerRun[e]] \in S}

\* Pending steering rows of conversation c whose run is in one of the statuses S.
PendingSteers(c, S) ==
  {e \in Events : steer[e] = "pending" /\ owner[steerRun[e]] = c /\ status[steerRun[e]] \in S}

\* Bridge::automatic_tools.
AutomaticTools(c) == IF automatic[c] = "default" THEN c \in AutoConvs ELSE automatic[c] = "on"

\* Mutant: late events of a cancelling run are heard.
HearsLate(r) == status[r] \in {"running", "waiting_approval", "cancelling"}

\* The runs that hear agent events: cancelling runs only hear Finished, and a
\* queued run has no worker yet.
Hears(r) == status[r] \in {"running", "waiting_approval"}

-----------------------------------------------------------------------------
(* Updates shared by the operations *)

\* context_ledger::observed.
Observe(r) ==
  [e \in Events |-> IF batch[e] = "inflight" /\ batchRun[e] = r THEN "delivered" ELSE batch[e]]

\* flush_run: buffered text becomes an outbox row and the buffer is emptied.
Flush(r) ==
  /\ output' = [output EXCEPT ![r] = FALSE]
  /\ notices' = notices \cup (IF output[r] THEN {Notice("output", owner[r], r)} ELSE {})

\* UPDATE approvals SET consumed=1 WHERE run IN R.
ConsumeAll(R) ==
  [q \in Requests |-> IF approval[q] = "open" /\ approvalRun[q] \in R THEN "consumed" ELSE approval[q]]

\* UPDATE runs SET status=s WHERE id IN R.
SetStatus(R, s) == [r \in RunIds |-> IF r \in R THEN s ELSE status[r]]

\* Mutant: the run goes on although another of its requests is open.
SettleEarly(Q) ==
  /\ approval' = [q \in Requests |-> IF q \in Q THEN "consumed" ELSE approval[q]]
  /\ status' = [r \in RunIds |->
       IF status[r] = "waiting_approval" /\ \E q \in Q : approvalRun[q] = r
       THEN "running" ELSE status[r]]

\* Requests Q are answered: a run left without an open one goes back to running.
Settle(Q) ==
  /\ approval' = [q \in Requests |-> IF q \in Q THEN "consumed" ELSE approval[q]]
  /\ status' = [r \in RunIds |->
       IF /\ \E q \in Q : approvalRun[q] = r
          /\ status[r] = "waiting_approval"
          /\ OpenRequests(r) \subseteq Q
       THEN "running" ELSE status[r]]

-----------------------------------------------------------------------------
(* handle_with_context.  A Denied, Ignored or Duplicate event leaves the   *)
(* journal as it is and is not a step.                                     *)

\* Some own outbox row of c may by now be a delivered event one can reply to.
HasPosted(c) ==
  \/ \E n \in notices : n.conv = c
  \/ \E e \in Events : ConvOf[e] = c /\ marks[e] # <<>>

\* How a message asks for attention; each needs what the code looks up for it.
Triggered(c, how) ==
  \/ how = "mention"
  \/ how = "thread" /\ binding[c] # None
  \/ how = "reply" /\ HasPosted(c)

\* Mutant: only the audience of the binding is compared.
AdmitsAnyPolicy(e, snap) ==
  LET c == ConvOf[e]
  IN snap.fit /\ (binding[c] # None => binding[c].audience = snap.audience)

\* Bridge::admission past the sender's and the device's axes.
Admits(e, snap) ==
  LET c == ConvOf[e]
  IN snap.fit /\ (binding[c] = None \/ binding[c] = CurrentBinding(c, snap))

\* The inbox row, and the binding of a conversation admitted for the first time.
Record(e, snap) ==
  LET c == ConvOf[e]
  IN /\ Admits(e, snap)
     /\ e \notin Received
     /\ inbox' = Append(inbox, e)
     /\ binding' = [binding EXCEPT ![c] = IF @ = None THEN CurrentBinding(c, snap) ELSE @]
     /\ UNCHANGED <<policy, session>>

Message(e, snap) ==
  /\ \E how \in {"mention", "thread", "reply"} : Triggered(ConvOf[e], how)
  /\ Record(e, snap)
  /\ UNCHANGED automatic

Command(e, snap) == binding[ConvOf[e]] # None /\ Record(e, snap)

Reply(e) == notices' = notices \cup {Notice("reply", ConvOf[e], e)}

\* An empty message is recorded and otherwise ignored.
HandleBlank(e, snap) ==
  /\ Message(e, snap)
  /\ effects' = {}
  /\ UNCHANGED <<runVars, steerVars, batchVars, approvalVars, outboxVars>>

\* A follow-up for conversation's active run r becomes pending steering.
HandleFollowUp(e, snap, r) ==
  /\ Message(e, snap)
  /\ r \in ActiveRunsOf(ConvOf[e])
  /\ steer' = [steer EXCEPT ![e] = "pending"]
  /\ steerRun' = [steerRun EXCEPT ![e] = r]
  /\ batch' = [batch EXCEPT ![e] = "pending"]
  /\ batchRun' = [batchRun EXCEPT ![e] = r]
  /\ marks' = [marks EXCEPT ![e] = Append(@, "eyes")]
  /\ effects' = IF status[r] = "cancelling" THEN {} ELSE {Steer(r, e)}
  /\ UNCHANGED <<runVars, approvalVars, notices>>

AtLimit == MaxConcurrent # 0 /\ Cardinality(ActiveRuns) >= MaxConcurrent

HandleAtLimit(e, snap) ==
  /\ Message(e, snap)
  /\ ActiveRunsOf(ConvOf[e]) = {}
  /\ AtLimit
  /\ Reply(e)
  /\ effects' = {}
  /\ UNCHANGED <<runVars, steerVars, batchVars, approvalVars, marks>>

HandleRequest(e, snap, r) ==
  /\ Message(e, snap)
  /\ ActiveRunsOf(ConvOf[e]) = {}
  /\ ~AtLimit
  /\ status[r] = "none"
  /\ status' = [status EXCEPT ![r] = "queued"]
  /\ owner' = [owner EXCEPT ![r] = ConvOf[e]]
  /\ input' = [input EXCEPT ![r] = e]
  /\ batch' = [batch EXCEPT ![e] = "inflight"]
  /\ batchRun' = [batchRun EXCEPT ![e] = r]
  /\ marks' = [marks EXCEPT ![e] = Append(@, "eyes")]
  /\ effects' = {Start(r)}
  /\ UNCHANGED <<output, steerVars, approvalVars, notices>>

\* !bridge status, an unknown command, and an approval that cannot be honoured.
CommandInform(e, snap) ==
  /\ Command(e, snap)
  /\ Reply(e)
  /\ effects' = {}
  /\ UNCHANGED <<automatic, runVars, steerVars, batchVars, approvalVars, marks>>

\* Mutant: stop forgets the follow-ups that outlived their run.
DroppedWithRun(c) == PendingSteers(c, Active)

\* The follow-ups !bridge stop cancels: every pending one of the conversation.
DroppedByStop(c) == PendingSteers(c, Active \cup Terminal)

CommandStop(e, snap) ==
  LET c == ConvOf[e]
      stopped == ActiveRunsOf(c)
      dropped == DroppedByStop(c)
  IN /\ Command(e, snap)
     /\ batch' = [x \in Events |->
          IF batch[x] = "pending" /\ ConvOf[x] = c THEN "abandoned" ELSE batch[x]]
     /\ steer' = [x \in Events |-> IF x \in dropped THEN "cancelled" ELSE steer[x]]
     /\ status' = SetStatus(stopped, "cancelling")
     /\ approval' = ConsumeAll(stopped)
     /\ notices' = notices \cup {Notice("stop", c, e)}
     /\ effects' = {Cancel(r) : r \in stopped}
     /\ UNCHANGED <<automatic, owner, input, output, steerRun, batchRun,
                    approvalRun, allowable, late, decisions, marks>>

\* !bridge allow-thread ("on") and !bridge approvals manual ("off").
CommandPermissions(e, snap, mode) ==
  /\ Command(e, snap)
  /\ automatic' = [automatic EXCEPT ![ConvOf[e]] = mode]
  /\ Reply(e)
  /\ effects' = {}
  /\ UNCHANGED <<runVars, steerVars, batchVars, approvalVars, marks>>

\* Mutant: the expiry is left to the timer.
AnswerableLate(q, c) ==
  /\ approval[q] = "open"
  /\ owner[approvalRun[q]] = c
  /\ status[approvalRun[q]] = "waiting_approval"

\* An operator of conversation c may still answer q.
Answerable(q, c) ==
  /\ approval[q] = "open"
  /\ q \notin late
  /\ owner[approvalRun[q]] = c
  /\ status[approvalRun[q]] = "waiting_approval"

Offered(q, option) == option = "reject" \/ (option = "allow" /\ q \in allowable)

CommandApprove(e, snap, q, option) ==
  /\ Command(e, snap)
  /\ Answerable(q, ConvOf[e])
  /\ Offered(q, option)
  /\ Settle({q})
  /\ Reply(e)
  /\ effects' = {Decide(q, option)}
  /\ UNCHANGED <<automatic, owner, input, output, steerVars, batchVars,
                 approvalRun, allowable, late, decisions, marks>>

-----------------------------------------------------------------------------
(* started and agent_event *)

Started(r) ==
  /\ status[r] = "queued"
  /\ status' = [status EXCEPT ![r] = "running"]
  /\ effects' = {}
  /\ UNCHANGED <<convVars, inbox, owner, input, output, steerVars, batchVars, approvalVars, outboxVars>>

\* A session identifier other than the recorded one is an error.
SessionReady(r, s) ==
  /\ Hears(r)
  /\ session[owner[r]] \in {None, s}
  /\ session' = [session EXCEPT ![owner[r]] = s]
  /\ effects' = {}
  /\ UNCHANGED <<policy, binding, automatic, inbox, runVars, steerVars, batchVars, approvalVars, outboxVars>>

Text(r) ==
  /\ Hears(r)
  /\ batch' = Observe(r)
  /\ output' = [output EXCEPT ![r] = @ \/ owner[r] \notin ExplicitConvs]
  /\ effects' = {}
  /\ UNCHANGED <<convVars, inbox, status, owner, input, steerVars, batchRun, approvalVars, outboxVars>>

Tool(r) ==
  /\ Hears(r)
  /\ batch' = Observe(r)
  /\ Flush(r)
  /\ effects' = {}
  /\ UNCHANGED <<convVars, inbox, status, owner, input, steerVars, batchRun, approvalVars, marks>>

\* A request with an allow option waits for automatic_approvals, without a
\* prompt, where tools are automatic.
Permission(r, q, allow) ==
  LET automated == allow /\ AutomaticTools(owner[r])
      prompt == IF automated THEN {} ELSE {Notice("prompt", owner[r], q)}
      flushed == IF output[r] THEN {Notice("output", owner[r], r)} ELSE {}
  IN /\ Hears(r)
     /\ approval[q] = "none"
     /\ batch' = Observe(r)
     /\ output' = [output EXCEPT ![r] = FALSE]
     /\ notices' = notices \cup flushed \cup prompt
     /\ approval' = [approval EXCEPT ![q] = "open"]
     /\ approvalRun' = [approvalRun EXCEPT ![q] = r]
     /\ allowable' = IF allow THEN allowable \cup {q} ELSE allowable
     /\ status' = [status EXCEPT ![r] = "waiting_approval"]
     /\ effects' = {}
     /\ UNCHANGED <<convVars, inbox, owner, input, steerVars, batchRun, late, decisions, marks>>

\* A repeated request neither resets its expiry nor reopens it.
PermissionRepeated(r, q) ==
  /\ Hears(r)
  /\ approval[q] # "none" /\ approvalRun[q] = r
  /\ batch' = Observe(r)
  /\ Flush(r)
  /\ effects' = {}
  /\ UNCHANGED <<convVars, inbox, status, owner, input, steerVars, batchRun, approvalVars, marks>>

Steered(r, e) ==
  /\ Hears(r)
  /\ batch' = [batch EXCEPT ![e] = IF @ = "pending" /\ batchRun[e] = r THEN "inflight" ELSE @]
  /\ steer' = [steer EXCEPT ![e] = IF @ = "pending" /\ steerRun[e] = r THEN "delivered" ELSE @]
  /\ IF AfterTurn THEN Flush(r) ELSE UNCHANGED <<output, notices>>
  /\ effects' = {}
  /\ UNCHANGED <<convVars, inbox, status, owner, input, steerRun, batchRun, approvalVars, marks>>

\* Mutant: the status is sent as the reaction.
EmojiAsStatus(s) == s

Emoji(s) ==
  CASE s = "completed"   -> "done"
    [] s = "cancelled"   -> "stopped"
    [] s = "interrupted" -> "interrupted"
    [] s = "failed"      -> "failed"

\* Mutant: a cancelled run takes its unsent batches with it.
EndBatchAll(b, s) ==
  CASE b = "inflight" -> IF s = "completed" THEN "delivered" ELSE "abandoned"
    [] b = "pending"  -> IF s # "completed" THEN "abandoned" ELSE b
    [] OTHER          -> b

\* What becomes of a run's batches when the run ends in status s.
EndBatch(b, s) ==
  CASE b = "inflight" -> IF s = "completed" THEN "delivered" ELSE "abandoned"
    [] b = "pending"  -> IF s \in {"failed", "interrupted"} THEN "abandoned" ELSE b
    [] OTHER          -> b

\* Mutant: follow-ups the agent never got are reported with the run.
ReportedAll(r) == {e \in Events : input[r] = e \/ (steer[e] # "none" /\ steerRun[e] = r)}

\* The events whose reaction reports the end of run r.
Reported(r) == {e \in Events : input[r] = e \/ (steer[e] = "delivered" /\ steerRun[e] = r)}

Finished(r, s) ==
  /\ status[r] \in Active
  /\ batch' = [e \in Events |-> IF batchRun[e] = r THEN EndBatch(batch[e], s) ELSE batch[e]]
  /\ Flush(r)
  /\ status' = SetStatus({r}, s)
  /\ approval' = ConsumeAll({r})
  /\ marks' = [e \in Events |-> IF e \in Reported(r) THEN Append(marks[e], Emoji(s)) ELSE marks[e]]
  /\ effects' = {}
  /\ UNCHANGED <<convVars, inbox, owner, input, steerVars, batchRun,
                 approvalRun, allowable, late, decisions>>

-----------------------------------------------------------------------------
(* Operations of the driver's timer, of a membership change, of the scoped *)
(* messaging tool, and of a restart                                        *)

\* Time passes the expiry of a pending request.
Lapse(q) ==
  /\ approval[q] = "open" /\ q \notin late
  /\ late' = late \cup {q}
  /\ UNCHANGED <<convVars, inbox, runVars, steerVars, batchVars, approval, approvalRun,
                 allowable, decisions, outboxVars, effects>>

\* Requests automatic_approvals answers.
AutomaticRequests ==
  {q \in Requests :
     /\ approval[q] = "open" /\ q \notin late
     /\ status[approvalRun[q]] = "waiting_approval"
     /\ binding[owner[approvalRun[q]]] # None
     /\ binding[owner[approvalRun[q]]].policy = policy
     /\ AutomaticTools(owner[approvalRun[q]])
     /\ q \in allowable}

AutomaticApprovals ==
  /\ Settle(AutomaticRequests)
  /\ decisions' = decisions \cup AutomaticRequests
  /\ effects' = {Decide(q, "allow") : q \in AutomaticRequests}
  /\ UNCHANGED <<convVars, inbox, owner, input, output, steerVars, batchVars,
                 approvalRun, allowable, late, outboxVars>>

ExpireApprovals ==
  LET expired == {q \in late : approval[q] = "open"}
  IN /\ Settle(expired)
     /\ notices' = notices \cup {Notice("expired", owner[approvalRun[q]], q) : q \in expired}
     /\ effects' = {Decide(q, None) : q \in expired}
     /\ UNCHANGED <<convVars, inbox, owner, input, output, steerVars, batchVars,
                    approvalRun, allowable, late, decisions, marks>>

\* Conversations whose follow-ups outlived their run and can continue now.
Continuable ==
  {c \in Conversations :
     /\ PendingSteers(c, Resumable) # {}
     /\ ActiveRunsOf(c) = {}
     /\ binding[c] # None /\ binding[c].policy = policy}

\* One continuation per conversation: fresh[c] is its new run, last[c] the
\* newest of the follow-ups joined into its prompt.
ResumePendingSteers ==
  \E fresh \in [Continuable -> {r \in RunIds : status[r] = "none"}],
     last \in [Continuable -> Events] :
    LET rows(c) == PendingSteers(c, Resumable)
        joined == UNION {rows(c) : c \in Continuable}
        started == {fresh[c] : c \in Continuable}
        convOf(r) == CHOOSE c \in Continuable : fresh[c] = r
    IN /\ \A c, d \in Continuable : fresh[c] = fresh[d] => c = d
       /\ \A c \in Continuable : last[c] \in rows(c) /\ \A e \in rows(c) : NoLater(e, last[c])
       /\ status' = SetStatus(started, "queued")
       /\ owner' = [r \in RunIds |-> IF r \in started THEN convOf(r) ELSE owner[r]]
       /\ input' = [r \in RunIds |-> IF r \in started THEN last[convOf(r)] ELSE input[r]]
       /\ steer' = [e \in Events |-> IF e \in joined THEN "delivered" ELSE steer[e]]
       /\ steerRun' = [e \in Events |-> IF e \in joined THEN fresh[owner[steerRun[e]]] ELSE steerRun[e]]
       /\ batch' = [e \in Events |->
            IF e \in joined /\ batch[e] = "pending" THEN "inflight" ELSE batch[e]]
       /\ batchRun' = [e \in Events |->
            IF e \in joined /\ batch[e] = "pending" THEN fresh[owner[steerRun[e]]] ELSE batchRun[e]]
       /\ effects' = {Start(r) : r \in started}
       /\ UNCHANGED <<convVars, inbox, output, approvalVars, outboxVars>>

\* Work and pending follow-ups of a room whose snapshot no longer matches
\* their conversation's binding.
Revoked(room, snap) ==
  {r \in RunIds :
     /\ status[r] # "none" /\ RoomOf[owner[r]] = room
     /\ \/ status[r] \in Active
        \/ \E e \in Events : steer[e] = "pending" /\ steerRun[e] = r
     /\ ~MayDeliver(owner[r], snap)}

ReconcileRoom(room, snap) ==
  LET revoked == Revoked(room, snap)
      stopped == revoked \cap ActiveRuns
  IN /\ steer' = [e \in Events |->
          IF steer[e] = "pending" /\ steerRun[e] \in revoked THEN "cancelled" ELSE steer[e]]
     /\ status' = SetStatus(stopped, "cancelling")
     /\ approval' = ConsumeAll(stopped)
     /\ effects' = {Cancel(r) : r \in stopped}
     /\ UNCHANGED <<convVars, inbox, owner, input, output, steerRun, batchVars,
                    approvalRun, allowable, late, decisions, outboxVars>>

ExplicitMessage(r) ==
  /\ Hears(r)
  /\ owner[r] \in ExplicitConvs
  /\ batch' = Observe(r)
  /\ notices' = notices \cup {Notice("explicit", owner[r], r)}
  /\ effects' = {}
  /\ UNCHANGED <<convVars, inbox, runVars, steerVars, batchRun, approvalVars, marks>>

\* Store::recover in a new process, whose configuration has fingerprint p.
Recover(p) ==
  LET buffered == {r \in RunIds : output[r]}
  IN /\ policy' = p
     /\ output' = [r \in RunIds |-> FALSE]
     /\ status' = SetStatus(ActiveRuns, "interrupted")
     /\ notices' = notices
          \cup {Notice("output", owner[r], r) : r \in buffered}
          \cup {Notice("restart", owner[r], r) : r \in ActiveRuns}
     /\ approval' = [q \in Requests |-> IF approval[q] = "open" THEN "consumed" ELSE approval[q]]
     /\ batch' = [e \in Events |-> IF batch[e] \in {"pending", "inflight"} THEN "abandoned" ELSE batch[e]]
     /\ steer' = [e \in Events |-> IF steer[e] = "pending" THEN "interrupted" ELSE steer[e]]
     /\ effects' = {}
     /\ UNCHANGED <<binding, session, automatic, inbox, owner, input, steerRun, batchRun,
                    approvalRun, allowable, late, decisions, marks>>

-----------------------------------------------------------------------------
HandleMessage(e, snap) ==
  \/ HandleBlank(e, snap)
  \/ \E r \in RunIds : HandleFollowUp(e, snap, r)
  \/ HandleAtLimit(e, snap)
  \/ \E r \in RunIds : HandleRequest(e, snap, r)

HandleCommand(e, snap) ==
  \/ CommandInform(e, snap)
  \/ CommandStop(e, snap)
  \/ \E mode \in {"on", "off"} : CommandPermissions(e, snap, mode)
  \/ \E q \in Requests, option \in Options : CommandApprove(e, snap, q, option)

Handle(e, snap) == HandleMessage(e, snap) \/ HandleCommand(e, snap)

AgentEvent(r) ==
  \/ \E s \in Sessions : SessionReady(r, s)
  \/ Text(r)
  \/ Tool(r)
  \/ \E q \in Requests, allow \in BOOLEAN : Permission(r, q, allow)
  \/ \E q \in Requests : PermissionRepeated(r, q)
  \/ \E e \in Events : Steered(r, e)
  \/ \E s \in Terminal : Finished(r, s)

Next ==
  \/ \E e \in Events, snap \in Snapshots : Handle(e, snap)
  \/ \E r \in RunIds : Started(r)
  \/ \E r \in RunIds : AgentEvent(r)
  \/ \E q \in Requests : Lapse(q)
  \/ AutomaticApprovals
  \/ ExpireApprovals
  \/ ResumePendingSteers
  \/ \E room \in Rooms, snap \in Snapshots : ReconcileRoom(room, snap)
  \/ \E r \in RunIds : ExplicitMessage(r)
  \/ \E p \in Policies : Recover(p)

Spec == Init /\ [][Next]_vars

-----------------------------------------------------------------------------
(* What the journal relies on its driver for *)

\* Messages staged by this step.
Staged == {e \in Events : batch[e] = "none" /\ batch'[e] # "none"}

\* A worker that steers after turns reports follow-ups in the order of arrival.
ReportsInOrder ==
  AfterTurn =>
    \A e, d \in Events :
      /\ steer[e] = "pending" /\ steer'[e] = "delivered"
      /\ steer[d] = "pending" /\ steer'[d] = "pending" /\ steerRun[d] = steerRun[e]
      => ~NoLater(d, e)

\* The driver continues follow-ups before it accepts a newer message of their
\* conversation.
OlderContinueFirst ==
  \A e \in Staged : batch'[e] = "inflight" => PendingSteers(ConvOf[e], Resumable) = {}

-----------------------------------------------------------------------------
(* Properties *)

\* Every table of the journal has its type.
TypeOK ==
  /\ policy \in Policies
  /\ binding \in [Conversations -> [policy : Policies, audience : Audiences] \cup {None}]
  /\ session \in [Conversations -> Sessions \cup {None}]
  /\ automatic \in [Conversations -> {"default", "on", "off"}]
  /\ inbox \in Seq(Events)
  /\ status \in [RunIds -> Active \cup Terminal \cup {"none"}]
  /\ owner \in [RunIds -> Conversations \cup {None}]
  /\ input \in [RunIds -> Events \cup {None}]
  /\ output \in [RunIds -> BOOLEAN]
  /\ steer \in [Events -> {"none", "pending", "delivered", "cancelled", "interrupted"}]
  /\ steerRun \in [Events -> RunIds \cup {None}]
  /\ batch \in [Events -> {"none", "pending", "inflight", "delivered", "abandoned"}]
  /\ batchRun \in [Events -> RunIds \cup {None}]
  /\ approval \in [Requests -> {"none", "open", "consumed"}]
  /\ approvalRun \in [Requests -> RunIds \cup {None}]
  /\ allowable \subseteq Requests
  /\ late \subseteq Requests
  /\ decisions \subseteq Requests
  /\ marks \in [Events -> Seq(Marks)]
  /\ notices \subseteq [kind : NoticeKinds, conv : Conversations, about : Events \cup RunIds \cup Requests]
  /\ effects \subseteq Effects

\* The rows a row of the journal refers to exist (PRAGMA foreign_keys).
ForeignKeys ==
  /\ \A r \in RunIds :
       IF status[r] = "none"
       THEN owner[r] = None /\ input[r] = None /\ ~output[r]
       ELSE owner[r] \in Conversations /\ input[r] \in Events
  /\ \A e \in Events :
       /\ steer[e] # "none" => steerRun[e] \in RunIds /\ status[steerRun[e]] # "none"
       /\ batch[e] # "none" => batchRun[e] \in RunIds /\ status[batchRun[e]] # "none"
  /\ \A q \in Requests :
       approval[q] # "none" => approvalRun[q] \in RunIds /\ status[approvalRun[q]] # "none"

\* A run waits for approval exactly while one of its requests is unanswered.
\* Seven operations move one side or the other (agent_event, approve, stop,
\* expire_approvals, automatic_approvals, reconcile_room, recover): if they
\* disagree, the run is stuck waiting or a request can be answered after the
\* run moved on.
WaitingIffOpen ==
  \A r \in RunIds : status[r] = "waiting_approval" <=> OpenRequests(r) # {}

\* The one_active_run index of the journal never has to reject an insert.
OneActiveRun ==
  \A r, q \in RunIds :
    status[r] \in Active /\ status[q] \in Active /\ owner[r] = owner[q] => r = q

\* Event e is part of what the agent of run r was given to do.
Feeds(e, r) == input[r] = e \/ (steer[e] = "delivered" /\ steerRun[e] = r)

\* However a request is redelivered, steered, raced by the end of a turn or
\* continued, it is work of at most one run, and never both pending and given.
OneRunPerRequest ==
  \A e \in Events :
    /\ \A r, q \in RunIds : Feeds(e, r) /\ Feeds(e, q) => r = q
    /\ \A r \in RunIds : Feeds(e, r) => e \in Received /\ steer[e] \in {"none", "delivered"}

\* After a stop, nothing its conversation received before it is worked on:
\* its run is over or being cancelled, and its follow-ups will not continue.
StopSettlesEarlier ==
  \A n \in notices : n.kind = "stop" =>
    \A e \in Events :
      ConvOf[e] = n.conv /\ NoLater(e, n.about) =>
        /\ steer[e] # "pending"
        /\ \A r \in RunIds : Feeds(e, r) => status[r] \in Terminal \cup {"cancelling"}

\* The context ledger counts a batch as sent or seen only when its message
\* was given to the agent of a run that holds it.
LedgerIsHonest ==
  \A e \in Events :
    batch[e] \in {"inflight", "delivered"} =>
      \E r \in RunIds : Feeds(e, r) /\ batchRun[e] = r

\* While a follow-up can still reach the agent, so can its context: the batch
\* is neither abandoned nor moved to another run.
FollowUpKeepsContext ==
  \A e \in Events :
    steer[e] = "pending" /\ status[steerRun[e]] \notin {"failed", "interrupted"} =>
      batch[e] = "pending" /\ batchRun[e] = steerRun[e]

\* A message is acknowledged once, and its work is reported over at most once
\* and only after the acknowledgement.
MarksInOrder ==
  \A e \in Events :
    marks[e] = <<>> \/ marks[e] = <<"eyes">> \/ \E m \in Marks \ {"eyes"} : marks[e] = <<"eyes", m>>

\* Work only goes on under the configuration its conversation is bound to.
WorkUnderBinding ==
  \A r \in ActiveRuns :
    binding[owner[r]] # None /\ binding[owner[r]].policy = policy

\* The agent is answered at most once per request, and gets a permission only
\* while its run waits and the request has not expired.
AnswersAreTimely ==
  [][late' = late =>
      \A d \in {x \in effects' : x.type = "decide"} :
        /\ approval[d.request] = "open" /\ approval'[d.request] = "consumed"
        /\ d.option # None =>
             d.request \notin late /\ status[d.run] = "waiting_approval" /\ status'[d.run] \in Active \ {"cancelling"}]_vars

\* A follow-up leaves "pending" once: what was cancelled or interrupted is never
\* given to an agent afterwards, and what was given stays with its run.
FollowUpsSettleOnce ==
  [][\A e \in Events :
       steer[e] \in {"delivered", "cancelled", "interrupted"} =>
         steer'[e] = steer[e] /\ steerRun'[e] = steerRun[e]]_vars

\* The bridge implements the abstract life cycle of runs.
Life == INSTANCE RunLifecycle
Lifecycle == Life!Spec
=============================================================================
