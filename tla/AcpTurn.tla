------------------------------- MODULE AcpTurn -------------------------------
(***************************************************************************)
(* One run of acp::execute (src/src/acp.rs): the select loop between the   *)
(* control channel of the run and its agent, for the four strategies of    *)
(* harness.steering.  The worker's variables are the locals of the loop;   *)
(* the agent is external, and does what the code expects of one.           *)
(*                                                                         *)
(* A request that tells the agent of a follow-up outside a prompt is a     *)
(* future of a FuturesUnordered: it is created by the command ("unsent"),  *)
(* sent when the loop first polls it ("sent") and answered by the agent.   *)
(* Texts, tool calls and permissions are Runner's.                         *)
(***************************************************************************)
EXTENDS Naturals, Sequences, FiniteSets, SequencesExt

CONSTANTS
  FollowUps,  \* messages that arrive while the run is active
  Modes,      \* the steering strategies an instance covers
  MaxStops,   \* bound: how often the run is cancelled
  None

ASSUME TurnAssumption ==
  /\ Modes \subseteq {"after_turn", "concurrent_prompt", "session_steering", "grok_interject"}
  /\ MaxStops \in Nat
  /\ None \notin {"completed", "failed", "cancelled", "interrupted"}
  /\ {"cancel", "info"} \cap FollowUps = {}

VARIABLES
  mode,        \* harness.steering
  posted,      \* follow-ups the driver put into the control channel
  stops,       \* how many cancellations it put there
  commands,    \* the control channel
  pc,          \* "handshake", "turn", "append" (between two prompts) or "ended"
  status,      \* what Finished reported, or "running"
  stopping,
  steering,    \* follow-ups for the next prompt
  concurrent,  \* concurrent_inputs
  call,        \* session_steers and interjections: the state of their request
  generation,
  outcome,     \* primary_outcome, or None
  needsDrain,  \* needs_native_drain
  drain,       \* "none", or how far drain_grok got
  reported,    \* follow-ups reported with AgentEvent::Steered
  prompts,     \* how many prompts were submitted
  working,     \* the agent has work
  open,        \* generations of the prompts it has not answered
  replies,     \* its answers to prompts, on their way to the loop
  mailbox,     \* what a Grok session has accepted and not looked at
  given        \* follow-ups the agent was given, in order

driverVars == <<mode, posted, stops>>
turnVars   == <<stopping, steering, concurrent, call, generation, outcome, needsDrain, drain>>
agentVars  == <<working, open, replies, mailbox, given>>
vars == <<driverVars, commands, pc, status, turnVars, reported, prompts, agentVars>>

Statuses == {"completed", "failed", "cancelled"}

Init ==
  /\ mode \in Modes
  /\ posted = {} /\ stops = 0 /\ commands = <<>>
  /\ pc = "handshake" /\ status = "running"
  /\ stopping = FALSE /\ steering = <<>> /\ concurrent = {}
  /\ call = [e \in FollowUps |-> "none"]
  /\ generation = 0 /\ outcome = None
  /\ needsDrain = FALSE /\ drain = "none"
  /\ reported = {} /\ prompts = 0
  /\ working = FALSE /\ open = {} /\ replies = <<>> /\ mailbox = <<>> /\ given = <<>>

-----------------------------------------------------------------------------
(* The driver.  The journal steers no run it has cancelled, but may cancel *)
(* it again; a control channel that closes is taken like a cancellation.   *)

PostSteer(e) ==
  /\ pc # "ended" /\ stops = 0
  /\ e \notin posted
  /\ posted' = posted \cup {e}
  /\ commands' = Append(commands, e)
  /\ UNCHANGED <<mode, stops, pc, status, turnVars, reported, prompts, agentVars>>

PostCancel ==
  /\ pc # "ended" /\ stops < MaxStops
  /\ stops' = stops + 1
  /\ commands' = Append(commands, "cancel")
  /\ UNCHANGED <<mode, posted, pc, status, turnVars, reported, prompts, agentVars>>

-----------------------------------------------------------------------------
(* The turn *)

Calls == {e \in FollowUps : call[e] # "none"}

\* Mutant: the turn is left before its prompt is answered.
SettledUnanswered == Calls = {} /\ ~needsDrain

\* Mutant: requests that are on their way are left behind.
SettledEarly == outcome # None /\ ~needsDrain

\* The loop leaves the turn before it selects again.
Settled == outcome # None /\ Calls = {} /\ ~needsDrain

Selects == pc = "turn" /\ ~Settled

\* submit_prompt of the follow-ups texts under generation g.
Submit(texts, g) ==
  /\ prompts' = prompts + 1
  /\ given' = given \o texts
  /\ working' = TRUE

\* 'turns: a prompt starts with fresh locals and a channel of its own, so that
\* answers to earlier prompts are no longer heard.
StartTurn(texts) ==
  /\ pc' = "turn"
  /\ stopping' = FALSE /\ steering' = <<>> /\ concurrent' = {}
  /\ call' = [e \in FollowUps |-> "none"]
  /\ generation' = 0 /\ outcome' = None
  /\ needsDrain' = FALSE /\ drain' = "none"
  /\ Submit(texts, 0)
  /\ open' = {0} /\ replies' = <<>>
  /\ UNCHANGED <<driverVars, commands, status, reported, mailbox>>

\* The handshakes, SessionReady and the first prompt.
Ready == pc = "handshake" /\ StartTurn(<<>>)

\* The drain is dropped; a session/info request that is left is answered to nobody.
DropDrain ==
  /\ drain' = "none"
  /\ mailbox' = RemoveFirst(mailbox, "info")

\* Only the answer to the newest prompt of the turn counts.
TakeResponse ==
  /\ Selects /\ outcome = None /\ replies # <<>>
  /\ replies' = Tail(replies)
  /\ IF Head(replies).generation = generation
     THEN /\ outcome' = Head(replies).status
          /\ reported' = reported \cup concurrent
          /\ concurrent' = {}
     ELSE UNCHANGED <<outcome, reported, concurrent>>
  /\ UNCHANGED <<driverVars, commands, pc, status, stopping, steering, call, generation,
                 needsDrain, drain, prompts, working, open, mailbox, given>>

\* The first poll of a steering request sends it.
SendCall(e) ==
  /\ Selects /\ call[e] = "unsent"
  /\ call' = [call EXCEPT ![e] = "sent"]
  /\ UNCHANGED <<driverVars, commands, pc, status, stopping, steering, concurrent, generation,
                 outcome, needsDrain, drain, reported, prompts, agentVars>>

\* session_steers: what found no running turn goes into the next prompt.
TakeAnswer(e) ==
  /\ Selects /\ call[e] \in {"injected", "required"}
  /\ call' = [call EXCEPT ![e] = "none"]
  /\ IF call[e] = "injected"
     THEN reported' = reported \cup {e} /\ UNCHANGED steering
     ELSE steering' = Append(steering, e) /\ UNCHANGED reported
  /\ UNCHANGED <<driverVars, commands, pc, status, stopping, concurrent, generation,
                 outcome, needsDrain, drain, prompts, agentVars>>

\* interjections: an accepted one is followed by a drain that starts after it.
TakeQueued(e) ==
  /\ Selects /\ call[e] = "queued"
  /\ call' = [call EXCEPT ![e] = "none"]
  /\ needsDrain' = TRUE
  /\ DropDrain
  /\ reported' = reported \cup {e}
  /\ UNCHANGED <<driverVars, commands, pc, status, stopping, steering, concurrent, generation,
                 outcome, prompts, working, open, replies, given>>

\* Mutant: the roster is asked without the request that passes through the
\* session's mailbox first.
PollRoster ==
  /\ Selects
  /\ \/ outcome # None /\ Calls = {} /\ needsDrain /\ drain = "none"
     \/ drain = "busy"
  /\ drain' = "list"
  /\ UNCHANGED <<driverVars, commands, pc, status, stopping, steering, concurrent, call, generation,
                 outcome, needsDrain, reported, prompts, agentVars>>

\* drain_grok starts, or polls again after a second: session/info first.
PollSession ==
  /\ Selects
  /\ \/ outcome # None /\ Calls = {} /\ needsDrain /\ drain = "none"
     \/ drain = "busy"
  /\ drain' = "info"
  /\ mailbox' = Append(mailbox, "info")
  /\ UNCHANGED <<driverVars, commands, pc, status, stopping, steering, concurrent, call, generation,
                 outcome, needsDrain, reported, prompts, working, open, replies, given>>

TakeDrained ==
  /\ Selects /\ drain = "idle"
  /\ needsDrain' = FALSE /\ drain' = "none"
  /\ UNCHANGED <<driverVars, commands, pc, status, stopping, steering, concurrent, call, generation,
                 outcome, reported, prompts, agentVars>>

\* The follow-up of a Command::Steer, by strategy.
SteerAfterTurn(e) ==
  /\ mode = "after_turn"
  /\ steering' = Append(steering, e)
  /\ UNCHANGED <<concurrent, call, generation, outcome, reported, prompts, working, open, given>>

SteerByPrompt(e) ==
  /\ mode = "concurrent_prompt"
  /\ concurrent' = concurrent \cup {e}
  /\ outcome' = None
  /\ generation' = generation + 1
  /\ Submit(<<e>>, generation')
  /\ open' = open \cup {generation'}
  /\ UNCHANGED <<steering, call, reported>>

\* Mutant: every strategy waits for another answer to its prompt.
SteerByCallForgetful(e) ==
  /\ mode \in {"session_steering", "grok_interject"}
  /\ call' = [call EXCEPT ![e] = "unsent"]
  /\ outcome' = None
  /\ UNCHANGED <<steering, concurrent, generation, reported, prompts, working, open, given>>

SteerByCall(e) ==
  /\ mode \in {"session_steering", "grok_interject"}
  /\ call' = [call EXCEPT ![e] = "unsent"]
  /\ UNCHANGED <<steering, concurrent, generation, outcome, reported, prompts, working, open, given>>

\* Command::Steer; it is ignored once the run is stopping.
TakeSteer(e) ==
  /\ Selects /\ commands # <<>> /\ Head(commands) = e
  /\ commands' = Tail(commands)
  /\ IF stopping
     THEN UNCHANGED <<steering, concurrent, call, generation, outcome, drain, reported, prompts,
                      working, open, mailbox, given>>
     ELSE /\ DropDrain
          /\ SteerAfterTurn(e) \/ SteerByPrompt(e) \/ SteerByCall(e)
  /\ UNCHANGED <<driverVars, pc, status, stopping, needsDrain, replies>>

\* Command::Cancel: the agent is notified and the grace period begins once.
TakeCancel ==
  /\ Selects /\ commands # <<>> /\ Head(commands) = "cancel"
  /\ commands' = Tail(commands)
  /\ steering' = <<>>
  /\ stopping' = TRUE
  /\ UNCHANGED <<driverVars, pc, status, concurrent, call, generation, outcome, needsDrain, drain,
                 reported, prompts, agentVars>>

-----------------------------------------------------------------------------
(* The end of a turn and of the run *)

Finish(s) ==
  /\ pc' = "ended" /\ status' = s
  /\ UNCHANGED <<driverVars, commands, turnVars, reported, prompts, agentVars>>

\* Mutant: a stop does not keep the follow-ups from being appended.
ContinuesAnyway == steering # <<>> /\ outcome = "completed"

Continues == ~stopping /\ steering # <<>> /\ outcome = "completed"

EndTurn ==
  /\ pc = "turn" /\ Settled
  /\ \/ /\ Continues
        /\ pc' = "append"
        /\ UNCHANGED <<driverVars, commands, status, turnVars, reported, prompts, agentVars>>
     \/ /\ ~Continues
        /\ Finish(IF stopping /\ outcome = "completed" THEN "cancelled" ELSE outcome)

Unreported == {i \in DOMAIN steering : steering[i] \notin reported}

\* Each follow-up of the next prompt is reported before the prompt is submitted.
AppendReport ==
  /\ pc = "append" /\ Unreported # {}
  /\ \E i \in Unreported :
       /\ \A j \in Unreported : i <= j
       /\ reported' = reported \cup {steering[i]}
  /\ UNCHANGED <<driverVars, commands, pc, status, turnVars, prompts, agentVars>>

AppendPrompt == pc = "append" /\ Unreported = {} /\ StartTurn(steering)

\* Mutant: the grace period only ends a turn whose prompt was answered.
DeadlineAnswered == Selects /\ stopping /\ outcome # None /\ Finish("interrupted")

\* Five seconds after the stop.
Deadline == Selects /\ stopping /\ Finish("interrupted")

\* A handshake, request or response fails or times out, the agent leaves its
\* mode, its roster or its process: Finished is sent by the cleanup.
Fail == pc # "ended" /\ Finish("failed")

-----------------------------------------------------------------------------
(* The agent; its process is killed with the run *)

Alive == pc # "ended"

Answer(g, s) ==
  /\ g \in open
  /\ open' = open \ {g}
  /\ replies' = Append(replies, [generation |-> g, status |-> s])
  /\ UNCHANGED <<driverVars, commands, pc, status, turnVars, reported, prompts, mailbox, given>>

\* The turn is over, which answers the newest prompt.
AgentEndsTurn(s) == Alive /\ Answer(generation, s) /\ working' = FALSE

\* A superseded prompt may be answered at any time, or never.
AgentAnswersOld(g, s) == Alive /\ g < generation /\ Answer(g, s) /\ UNCHANGED working

\* _session/steering: injected into a running turn, refused without one.
AgentSteers(e) ==
  /\ Alive /\ mode = "session_steering" /\ call[e] = "sent"
  /\ \/ /\ working
        /\ call' = [call EXCEPT ![e] = "injected"]
        /\ given' = Append(given, e)
     \/ /\ ~working \/ stopping
        /\ call' = [call EXCEPT ![e] = "required"]
        /\ UNCHANGED given
  /\ UNCHANGED <<driverVars, commands, pc, status, stopping, steering, concurrent, generation,
                 outcome, needsDrain, drain, reported, prompts, working, open, replies, mailbox>>

\* _x.ai/interject: acknowledged when it is in the session's mailbox.
AgentQueues(e) ==
  /\ Alive /\ mode = "grok_interject" /\ call[e] = "sent"
  /\ call' = [call EXCEPT ![e] = "queued"]
  /\ mailbox' = Append(mailbox, e)
  /\ UNCHANGED <<driverVars, commands, pc, status, stopping, steering, concurrent, generation,
                 outcome, needsDrain, drain, reported, prompts, working, open, replies, given>>

\* The session looks at its mailbox; an interjection that finds no turn
\* becomes a turn of the provider's own.
AgentReadsInterjection ==
  /\ Alive /\ mailbox # <<>> /\ Head(mailbox) \in FollowUps
  /\ mailbox' = Tail(mailbox)
  /\ given' = Append(given, Head(mailbox))
  /\ working' = TRUE
  /\ UNCHANGED <<driverVars, commands, pc, status, turnVars, reported, prompts, open, replies>>

AgentReadsInfo ==
  /\ Alive /\ mailbox # <<>> /\ Head(mailbox) = "info"
  /\ mailbox' = Tail(mailbox)
  /\ drain' = "list"
  /\ UNCHANGED <<driverVars, commands, pc, status, stopping, steering, concurrent, call, generation,
                 outcome, needsDrain, reported, prompts, working, open, replies, given>>

\* _x.ai/sessions/list: the activity of the session.
AgentLists ==
  /\ Alive /\ drain = "list"
  /\ drain' = IF working THEN "busy" ELSE "idle"
  /\ UNCHANGED <<driverVars, commands, pc, status, stopping, steering, concurrent, call, generation,
                 outcome, needsDrain, reported, prompts, agentVars>>

\* A turn of the provider's own ends; no prompt is answered.
AgentSettles ==
  /\ Alive /\ working /\ open = {}
  /\ working' = FALSE
  /\ UNCHANGED <<driverVars, commands, pc, status, turnVars, reported, prompts, open, replies, mailbox, given>>

-----------------------------------------------------------------------------
Driver == (\E e \in FollowUps : PostSteer(e)) \/ PostCancel

TakeCommand == (\E e \in FollowUps : TakeSteer(e)) \/ TakeCancel

\* The branches of the loop that carry on with what the agent answered.
TakeWork ==
  \/ TakeResponse
  \/ \E e \in FollowUps : SendCall(e) \/ TakeAnswer(e) \/ TakeQueued(e)
  \/ PollSession
  \/ TakeDrained

LeaveTurn == EndTurn \/ AppendReport \/ AppendPrompt

Agent ==
  \/ \E s \in Statuses : AgentEndsTurn(s)
  \/ \E g \in open, s \in Statuses : AgentAnswersOld(g, s)
  \/ \E e \in FollowUps : AgentSteers(e) \/ AgentQueues(e)
  \/ AgentReadsInterjection
  \/ AgentReadsInfo
  \/ AgentLists
  \/ AgentSettles

Next == Driver \/ Ready \/ TakeCommand \/ TakeWork \/ LeaveTurn \/ Deadline \/ Fail \/ Agent

Spec == Init /\ [][Next]_vars

\* The worker is polled; a handshake ends or times out, the grace period ends,
\* and tokio::select! does not pass over a ready branch for ever.  The agent
\* owes nothing.
FairSpec ==
  /\ Spec
  /\ WF_vars(Ready \/ (pc = "handshake" /\ Fail))
  /\ WF_vars(TakeCommand) /\ WF_vars(TakeWork) /\ WF_vars(LeaveTurn) /\ WF_vars(Deadline)

-----------------------------------------------------------------------------
(* Properties *)

\* The locals of the loop and what the agent holds have their types.
TypeOK ==
  /\ mode \in Modes
  /\ posted \subseteq FollowUps /\ stops \in 0..MaxStops
  /\ commands \in Seq(FollowUps \cup {"cancel"})
  /\ pc \in {"handshake", "turn", "append", "ended"}
  /\ status \in Statuses \cup {"running", "interrupted"}
  /\ stopping \in BOOLEAN /\ needsDrain \in BOOLEAN /\ working \in BOOLEAN
  /\ steering \in Seq(FollowUps) /\ concurrent \subseteq FollowUps
  /\ call \in [FollowUps -> {"none", "unsent", "sent", "injected", "required", "queued"}]
  /\ generation \in Nat /\ prompts \in Nat /\ open \subseteq 0..generation
  /\ outcome \in Statuses \cup {None}
  /\ drain \in {"none", "info", "list", "busy", "idle"}
  /\ reported \subseteq FollowUps
  /\ replies \in Seq([generation : 0..generation, status : Statuses])
  /\ mailbox \in Seq(FollowUps \cup {"info"})
  /\ given \in Seq(FollowUps)

\* The worker keeps the contract with the journal in every steering strategy:
\* no follow-up is given twice, and at a completed or cancelled end the
\* reported follow-ups are the given ones, however answers, acknowledgements,
\* drains and stops race.
Contract == INSTANCE AgentContract WITH stopped <- stops > 0
Implements == Contract!Spec

\* A run that ends completed or cancelled leaves an agent with nothing to do:
\* no work of its own, nothing unread, no request of the run unanswered.
NoWorkLeftBehind ==
  status \in {"completed", "cancelled"} =>
    ~working /\ mailbox = <<>> /\ Calls = {} /\ generation \notin open

\* Once a run is stopping it submits no further prompt, whichever way a
\* follow-up was on, and stays stopping until it ends.
StopIsFinal == [][stopping => stopping' /\ prompts' = prompts]_vars

\* A run that is cancelled ends, whatever its agent does.
StopEnds == (stops > 0) ~> (pc = "ended")

\* The agent has done and answered all it was asked.
AgentQuiet ==
  /\ pc # "handshake" /\ ~working /\ mailbox = <<>> /\ generation \notin open
  /\ drain # "list" /\ \A e \in FollowUps : call[e] # "sent"

\* The loop never waits for an answer nobody owes: an agent that is done is
\* given something else to do, or the run ends.
NeverHangs == []<>(pc = "ended" \/ ~AgentQuiet)
=============================================================================
