------------------------------- MODULE Runner -------------------------------
(***************************************************************************)
(* The driver of src/src/runner.rs and src/src/live.rs over the journal of *)
(* Bridge: it ingests Matrix events, ticks, records what workers publish,  *)
(* carries out the effects the journal returns, shuts down or crashes.     *)
(*                                                                         *)
(* A worker is acp::execute seen from its two channels, with the harness   *)
(* steered after turns or by concurrent prompts.  All workers share the    *)
(* channel of updates, a control channel belongs to one run; both are      *)
(* bounded and a sender waits for room.                                    *)
(***************************************************************************)
EXTENDS Bridge, SequencesExt

CONSTANTS
  Workloads,   \* bound: what may happen, one of these in each behaviour
  UpdatesCap,  \* capacity of the channel of updates
  ControlCap   \* capacity of a control channel

ASSUME RunnerAssumption ==
  /\ \A w \in Workloads :
       /\ w.messages \subseteq Events /\ w.commands \subseteq Events
       /\ w.messages \cap w.commands = {}
       /\ w.publishes \subseteq {"text", "tool", "permission"}
       /\ w.restarts \in Nat
  /\ UpdatesCap \in Nat \ {0}
  /\ ControlCap \in Nat \ {0}

VARIABLES
  workload,  \* the messages and !bridge commands that arrive, what agents publish
             \* in a turn, how often the process may stop and be started again
  pc,        \* the driver's next operation
  event,     \* the event being ingested, or None
  snapshot,  \* the room snapshot it came with, or None
  todo,      \* effects not carried out yet
  updates,   \* the channel of agent events
  open,      \* runs with an entry in Runner.controls
  controls,  \* what their control channels hold
  worker,    \* the phase of a run's worker
  outcome,   \* the status an ending worker will report
  taken,     \* follow-ups a worker took and has not reported, in their order
  asker,     \* the run whose agent waits for an answer to a request, or None
  got,       \* history: the runs whose agent was sent an event's text
  restarts,
  stranded   \* history: the runs a failed step did not dispatch

driverVars  == <<pc, event, snapshot, todo>>
channelVars == <<updates, open, controls>>
workerVars  == <<worker, outcome, taken, asker, got>>
boundVars   == <<workload, restarts, stranded>>
runnerVars  == <<vars, driverVars, channelVars, workerVars, boundVars>>

Phases == {"none", "handshake", "turn", "stopping", "continuing", "ending", "gone"}

Update(t, r, x) == [type |-> t, run |-> r, about |-> x]

RunnerInit ==
  /\ Init
  /\ workload \in Workloads
  /\ pc = "idle" /\ event = None /\ snapshot = None /\ todo = {}
  /\ updates = <<>> /\ open = {} /\ controls = [r \in RunIds |-> <<>>]
  /\ worker = [r \in RunIds |-> "none"]
  /\ outcome = [r \in RunIds |-> None]
  /\ taken = [r \in RunIds |-> <<>>]
  /\ asker = [q \in Requests |-> None]
  /\ got = [e \in Events |-> {}]
  /\ restarts = 0
  /\ stranded = {}

-----------------------------------------------------------------------------
(* Channels *)

Room == Len(updates) < UpdatesCap

Publish(t, r, x) == Room /\ updates' = Append(updates, Update(t, r, x))

\* Mutant: the control channel is unbounded.
SendUnbounded(r, x) ==
  IF worker[r] = "gone" THEN UNCHANGED controls ELSE controls' = [controls EXCEPT ![r] = Append(@, x)]

\* A control message waits for room; one to a worker that has left is dropped.
Send(r, x) ==
  IF worker[r] = "gone"
  THEN UNCHANGED controls
  ELSE Len(controls[r]) < ControlCap /\ controls' = [controls EXCEPT ![r] = Append(@, x)]

-----------------------------------------------------------------------------
(* The driver.  An operation runs when the effects of the one before it    *)
(* have been carried out.                                                  *)

At(p) == pc = p /\ todo = {}

\* The journal operation of this step returns what is to be carried out next.
Return(p) == pc' = p /\ todo' = effects'

BeginIngest(e, snap) ==
  /\ At("idle")
  /\ e \in workload.messages \cup workload.commands
  /\ pc' = "drain" /\ event' = e /\ snapshot' = snap
  /\ UNCHANGED <<vars, todo, channelVars, workerVars, boundVars>>

\* ingest drains the updates, then stops what the room may no longer see.
IngestReconcile ==
  /\ At("drain") /\ updates = <<>>
  /\ ReconcileRoom(RoomOf[ConvOf[event]], snapshot)
  /\ Return(IF event \in workload.commands THEN "handle" ELSE "resume")
  /\ UNCHANGED <<event, snapshot, channelVars, workerVars, boundVars>>

\* Mutant: the older follow-ups are left to the timer.
IngestPostpone ==
  /\ At("resume")
  /\ pc' = "handle"
  /\ UNCHANGED <<vars, todo, event, snapshot, channelVars, workerVars, boundVars>>

\* Older follow-ups continue before a newer message is accepted.
IngestResume ==
  /\ At("resume")
  /\ ResumePendingSteers
  /\ Return("handle")
  /\ UNCHANGED <<event, snapshot, channelVars, workerVars, boundVars>>

\* An event that is denied, ignored or a duplicate leaves the journal alone.
IngestHandle ==
  /\ At("handle")
  /\ \/ event \in workload.commands /\ HandleCommand(event, snapshot) /\ todo' = effects'
     \/ event \notin workload.commands /\ HandleMessage(event, snapshot) /\ todo' = effects'
     \/ UNCHANGED <<vars, todo>>
  /\ pc' = "idle" /\ event' = None /\ snapshot' = None
  /\ UNCHANGED <<channelVars, workerVars, boundVars>>

\* The updates were drained just before the tick.
TickExpire ==
  /\ At("idle") \/ At("settle")
  /\ updates = <<>>
  /\ ExpireApprovals
  /\ Return("tick_resume")
  /\ UNCHANGED <<event, snapshot, channelVars, workerVars, boundVars>>

\* Mutant: the tick forgets the follow-ups that outlived their run.
TickForgets ==
  /\ At("tick_resume")
  /\ pc' = "tick_automatic"
  /\ UNCHANGED <<vars, todo, event, snapshot, channelVars, workerVars, boundVars>>

TickResume ==
  /\ At("tick_resume")
  /\ ResumePendingSteers
  /\ Return("tick_automatic")
  /\ UNCHANGED <<event, snapshot, channelVars, workerVars, boundVars>>

TickAutomatic ==
  /\ At("tick_automatic")
  /\ AutomaticApprovals
  /\ Return("idle")
  /\ UNCHANGED <<event, snapshot, channelVars, workerVars, boundVars>>

\* The membership check of a step whose batch waits for a room key.
Reconcile(room, snap) ==
  /\ At("idle")
  /\ ReconcileRoom(room, snap)
  /\ Return("settle")
  /\ UNCHANGED <<event, snapshot, channelVars, workerVars, boundVars>>

\* poll_messages journals a message of the scoped sending tool.
PollMessage(r) ==
  /\ At("idle") /\ r \in open
  /\ ExplicitMessage(r)
  /\ UNCHANGED <<driverVars, channelVars, workerVars, boundVars>>

-----------------------------------------------------------------------------
(* apply *)

\* started, then the worker is spawned with an empty control channel.
ApplyStart(x) ==
  /\ x.type = "start"
  /\ Started(x.run)
  /\ open' = open \cup {x.run}
  /\ worker' = [worker EXCEPT ![x.run] = "handshake"]
  /\ UNCHANGED <<updates, controls, outcome, taken, asker, got>>

\* The worker is told; without one, the run ends here.
ApplyCancel(x) ==
  /\ x.type = "cancel"
  /\ IF x.run \in open
     THEN Send(x.run, x) /\ UNCHANGED vars
     ELSE IF status[x.run] \in Active
     THEN Finished(x.run, "interrupted") /\ UNCHANGED controls
     ELSE UNCHANGED <<vars, controls>>
  /\ UNCHANGED <<updates, open, workerVars>>

ApplyControl(x) ==
  /\ x.type \in {"steer", "decide"}
  /\ IF x.run \in open THEN Send(x.run, x) ELSE UNCHANGED controls
  /\ UNCHANGED <<vars, updates, open, workerVars>>

Apply ==
  /\ \E x \in todo :
       /\ ApplyStart(x) \/ ApplyCancel(x) \/ ApplyControl(x)
       /\ todo' = todo \ {x}
  /\ UNCHANGED <<pc, event, snapshot, boundVars>>

\* The journal cannot record the start, or records it and cannot be asked for
\* the harness: no worker is spawned, and the other effects of the step are
\* never carried out.
ApplyFails ==
  /\ \E x \in todo : x.type = "start" /\ (Started(x.run) \/ UNCHANGED vars)
  /\ pc' = "idle" /\ event' = None /\ snapshot' = None /\ todo' = {}
  /\ stranded' = stranded \cup {r \in RunIds : Start(r) \in todo}
  /\ UNCHANGED <<channelVars, workerVars, workload, restarts>>

-----------------------------------------------------------------------------
(* record_update *)

\* Mutant: a cancelling run is not heard at all.
ListensToUncancelled(u) == Hears(u.run)

\* A cancelling run is only heard when it finishes.
Listens(u) == IF u.type = "finished" THEN status[u.run] \in Active ELSE Hears(u.run)

Hear(u) ==
  \/ u.type = "ready" /\ SessionReady(u.run, u.about)
  \/ u.type = "text" /\ Text(u.run)
  \/ u.type = "tool" /\ Tool(u.run)
  \/ u.type = "permission" /\ \E allow \in BOOLEAN : Permission(u.run, u.about, allow)
  \/ u.type = "steered" /\ Steered(u.run, u.about)
  \/ u.type = "finished" /\ Finished(u.run, u.about)

Receive ==
  /\ pc \in {"idle", "drain", "settle", "shutdown"} /\ todo = {}
  /\ updates # <<>>
  /\ LET u == Head(updates)
     IN /\ IF Listens(u) THEN Hear(u) ELSE UNCHANGED vars
        /\ open' = IF u.type = "finished" THEN open \ {u.run} ELSE open
  /\ updates' = Tail(updates)
  /\ UNCHANGED <<driverVars, controls, workerVars, boundVars>>

-----------------------------------------------------------------------------
(* Shutdown, crash and restart *)

\* Volatile state goes with the process.
Vanish ==
  /\ pc' = "down" /\ event' = None /\ snapshot' = None /\ todo' = {}
  /\ updates' = <<>> /\ open' = {} /\ controls' = [r \in RunIds |-> <<>>]
  /\ worker' = [r \in RunIds |-> IF worker[r] = "none" THEN "none" ELSE "gone"]
  /\ outcome' = [r \in RunIds |-> None]
  /\ taken' = [r \in RunIds |-> <<>>]
  /\ asker' = [q \in Requests |-> None]
  /\ UNCHANGED <<got, boundVars>>

\* apply waits for room in the control channel of a run.
Blocked ==
  \E x \in todo :
    x.type # "start" /\ x.run \in open /\ worker[x.run] # "gone" /\ Len(controls[x.run]) = ControlCap

\* A signal drops the step where it awaits.  Every worker is told to stop.
Shutdown ==
  /\ restarts < workload.restarts
  /\ pc \notin {"shutdown", "down"}
  /\ At("idle") \/ Blocked
  /\ pc' = "shutdown" /\ event' = None /\ snapshot' = None
  /\ todo' = {Cancel(r) : r \in open}
  /\ UNCHANGED <<vars, channelVars, workerVars, boundVars>>

\* All workers have reported, or the six seconds are over.
Exit == At("shutdown") /\ Recover(policy) /\ Vanish

Crash == pc # "down" /\ restarts < workload.restarts /\ Vanish /\ UNCHANGED vars

Restart(p) ==
  /\ pc = "down"
  /\ Recover(p)
  /\ pc' = "idle" /\ restarts' = restarts + 1
  /\ UNCHANGED <<event, snapshot, todo, channelVars, workerVars, workload, stranded>>

-----------------------------------------------------------------------------
(* A worker *)

\* Handshakes are over: the stored session was loaded or a new one created,
\* and the run's prompt is submitted.
Ready(r) ==
  /\ worker[r] = "handshake"
  /\ \E s \in IF session[owner[r]] = None THEN Sessions ELSE {session[owner[r]]} :
       Publish("ready", r, s)
  /\ worker' = [worker EXCEPT ![r] = "turn"]
  /\ got' = [e \in Events |-> IF Feeds(e, r) THEN got[e] \cup {r} ELSE got[e]]
  /\ UNCHANGED <<open, controls, outcome, taken, asker>>

Say(r) ==
  /\ worker[r] = "turn"
  /\ \E t \in workload.publishes \cap {"text", "tool"} : Publish(t, r, None)
  /\ UNCHANGED <<open, controls, workerVars>>

\* A request gets a fresh identifier.
Ask(r, q) ==
  /\ worker[r] = "turn" /\ "permission" \in workload.publishes
  /\ approval[q] = "none" /\ asker[q] = None /\ \A i \in DOMAIN updates : updates[i].about # q
  /\ Publish("permission", r, q)
  /\ asker' = [asker EXCEPT ![q] = r]
  /\ UNCHANGED <<open, controls, worker, outcome, taken, got>>

\* The worker stops waiting for an operator on its own.
AskTimeout(q) ==
  /\ asker[q] # None
  /\ asker' = [asker EXCEPT ![q] = None]
  /\ UNCHANGED <<channelVars, worker, outcome, taken, got>>

\* Mutant: requests are not cancelled with their run.
UnaskedNever(r) == asker

\* cancel_pending: the agent of run r is answered that its requests are cancelled.
Unasked(r) == [q \in Requests |-> IF asker[q] = r THEN None ELSE asker[q]]

\* The worker takes the next control message.
Take(r) ==
  /\ worker[r] \in {"turn", "stopping"} /\ controls[r] # <<>>
  /\ LET x == Head(controls[r])
         steered == x.type = "steer" /\ worker[r] = "turn"
     IN /\ worker' = IF x.type = "cancel" THEN [worker EXCEPT ![r] = "stopping"] ELSE worker
        /\ taken' = [taken EXCEPT ![r] =
             IF steered THEN Append(@, x.event) ELSE IF x.type = "cancel" /\ AfterTurn THEN <<>> ELSE @]
        /\ got' = IF steered /\ ~AfterTurn THEN [got EXCEPT ![x.event] = @ \cup {r}] ELSE got
        /\ asker' = CASE x.type = "decide" -> [asker EXCEPT ![x.request] = None]
                      [] x.type = "cancel" -> Unasked(r)
                      [] OTHER -> asker
  /\ controls' = [controls EXCEPT ![r] = Tail(@)]
  /\ UNCHANGED <<updates, open, outcome>>

\* A stopped turn that ended by itself counts as cancelled.
Outcome(r, s) == IF worker[r] = "stopping" /\ s = "completed" THEN "cancelled" ELSE s

\* Mutant: follow-ups are prompted without being reported.
RespondSilently(r, s) ==
  /\ worker[r] \in {"turn", "stopping"}
  /\ IF AfterTurn /\ worker[r] = "turn" /\ s = "completed" /\ taken[r] # <<>>
     THEN /\ worker' = [worker EXCEPT ![r] = "continuing"]
          /\ got' = [e \in Events |-> IF e \in ToSet(taken[r]) THEN got[e] \cup {r} ELSE got[e]]
          /\ UNCHANGED outcome
     ELSE /\ worker' = [worker EXCEPT ![r] = "ending"]
          /\ outcome' = [outcome EXCEPT ![r] = Outcome(r, s)]
          /\ UNCHANGED got
  /\ taken' = [taken EXCEPT ![r] = <<>>]
  /\ UNCHANGED <<channelVars, asker>>

\* The newest prompt is answered.  Follow-ups kept for after the turn make
\* another turn of a completed one and are left to the journal otherwise.
Respond(r, s) ==
  /\ worker[r] \in {"turn", "stopping"}
  /\ IF AfterTurn /\ worker[r] = "turn" /\ s = "completed" /\ taken[r] # <<>>
     THEN /\ worker' = [worker EXCEPT ![r] = "continuing"]
          /\ got' = [e \in Events |-> IF e \in ToSet(taken[r]) THEN got[e] \cup {r} ELSE got[e]]
          /\ UNCHANGED <<outcome, taken>>
     ELSE /\ worker' = [worker EXCEPT ![r] = "ending"]
          /\ outcome' = [outcome EXCEPT ![r] = Outcome(r, s)]
          /\ taken' = [taken EXCEPT ![r] = IF AfterTurn THEN <<>> ELSE @]
          /\ UNCHANGED got
  /\ UNCHANGED <<channelVars, asker>>

\* Mutant: a stopped worker waits for its agent.
GiveUpOnError(r, s) ==
  /\ s = "failed" /\ worker[r] \in {"handshake", "turn", "stopping"}
  /\ worker' = [worker EXCEPT ![r] = "ending"]
  /\ outcome' = [outcome EXCEPT ![r] = s]
  /\ taken' = [taken EXCEPT ![r] = <<>>]
  /\ UNCHANGED <<channelVars, asker, got>>

\* Mutant: of the follow-ups taken together, the newest is reported first.
ReportNewest(r) ==
  /\ worker[r] \in {"continuing", "ending"} /\ taken[r] # <<>>
  /\ Publish("steered", r, taken[r][Len(taken[r])])
  /\ taken' = [taken EXCEPT ![r] = SubSeq(@, 1, Len(@) - 1)]
  /\ UNCHANGED <<open, controls, worker, outcome, asker, got>>

\* The worker gives up: an error, a panic, or the grace period of a stop.
GiveUp(r, s) ==
  /\ \/ s = "failed" /\ worker[r] \in {"handshake", "turn", "stopping"}
     \/ s = "interrupted" /\ worker[r] = "stopping"
  /\ worker' = [worker EXCEPT ![r] = "ending"]
  /\ outcome' = [outcome EXCEPT ![r] = s]
  /\ taken' = [taken EXCEPT ![r] = <<>>]
  /\ UNCHANGED <<channelVars, asker, got>>

Report(r) ==
  /\ worker[r] \in {"continuing", "ending"} /\ taken[r] # <<>>
  /\ Publish("steered", r, Head(taken[r]))
  /\ taken' = [taken EXCEPT ![r] = Tail(@)]
  /\ UNCHANGED <<open, controls, worker, outcome, asker, got>>

Continue(r) ==
  /\ worker[r] = "continuing" /\ taken[r] = <<>>
  /\ worker' = [worker EXCEPT ![r] = "turn"]
  /\ UNCHANGED <<channelVars, outcome, taken, asker, got>>

\* Finished is the last update of a worker; its control channel closes.
Finish(r) ==
  /\ worker[r] = "ending" /\ taken[r] = <<>>
  /\ Publish("finished", r, outcome[r])
  /\ worker' = [worker EXCEPT ![r] = "gone"]
  /\ outcome' = [outcome EXCEPT ![r] = None]
  /\ controls' = [controls EXCEPT ![r] = <<>>]
  /\ asker' = Unasked(r)
  /\ UNCHANGED <<open, taken, got>>

-----------------------------------------------------------------------------
(* The system *)

HandshakeEnds(r) == Ready(r) \/ (worker[r] = "handshake" /\ GiveUp(r, "failed"))
StopEnds(r) == worker[r] = "stopping" /\ GiveUp(r, "interrupted")

WorkerStep(r) ==
  \/ Ready(r)
  \/ Say(r)
  \/ \E q \in Requests : Ask(r, q)
  \/ Take(r)
  \/ \E s \in {"completed", "failed", "cancelled"} : Respond(r, s)
  \/ \E s \in {"failed", "interrupted"} : GiveUp(r, s)
  \/ Report(r)
  \/ Continue(r)
  \/ Finish(r)

WorkerNext ==
  /\ (\E r \in RunIds : WorkerStep(r)) \/ (\E q \in Requests : AskTimeout(q))
  /\ UNCHANGED <<vars, driverVars, boundVars>>

TimePasses ==
  /\ \E q \in Requests : Lapse(q)
  /\ UNCHANGED <<driverVars, channelVars, workerVars, boundVars>>

Ingest == IngestReconcile \/ IngestResume \/ IngestHandle
TickOn == TickResume \/ TickAutomatic

RunnerNext ==
  \/ \E e \in Events, snap \in Snapshots : BeginIngest(e, snap)
  \/ Ingest
  \/ TickExpire
  \/ TickOn
  \/ \E room \in Rooms, snap \in Snapshots : Reconcile(room, snap)
  \/ \E r \in RunIds : PollMessage(r)
  \/ Apply
  \/ ApplyFails
  \/ Receive
  \/ Shutdown
  \/ Exit
  \/ Crash
  \/ \E p \in Policies : Restart(p)
  \/ TimePasses
  \/ WorkerNext

RunnerSpec == RunnerInit /\ [][RunnerNext]_runnerVars

\* What the driver began, it finishes.
DriverGoesOn == Ingest \/ TickOn \/ Apply \/ Exit \/ \E p \in Policies : Restart(p)

\* Handshakes have deadlines, the control channel is read, and what is to be
\* published is sent.
WorkerGoesOn(r) ==
  /\ HandshakeEnds(r) \/ Take(r) \/ Report(r) \/ Continue(r) \/ Finish(r)
  /\ UNCHANGED <<vars, driverVars, boundVars>>

GraceEnds(r) == StopEnds(r) /\ UNCHANGED <<vars, driverVars, boundVars>>

\* one_step is repeated, drains the updates each time and ticks; a channel
\* serves waiting senders in turn.  Nothing makes an agent end its turn.
Fairness ==
  /\ WF_runnerVars(DriverGoesOn)
  /\ SF_runnerVars(TickExpire)
  /\ SF_runnerVars(Receive)
  /\ \A r \in RunIds : SF_runnerVars(WorkerGoesOn(r)) /\ WF_runnerVars(GraceEnds(r))

FairRunner == RunnerSpec /\ Fairness

-----------------------------------------------------------------------------
(* Properties *)

\* Every variable of the driver and of the workers has its type.
RunnerTypeOK ==
  /\ pc \in {"idle", "drain", "resume", "handle", "tick_resume", "settle", "tick_automatic", "shutdown", "down"}
  /\ event \in Events \cup {None}
  /\ snapshot \in Snapshots \cup {None}
  /\ todo \subseteq Effects
  /\ \A i \in DOMAIN updates : updates[i].run \in RunIds
  /\ Len(updates) <= UpdatesCap
  /\ open \subseteq RunIds
  /\ controls \in [RunIds -> Seq(Effects)]
  /\ \A r \in RunIds : Len(controls[r]) <= ControlCap
  /\ worker \in [RunIds -> Phases]
  /\ outcome \in [RunIds -> Terminal \cup {None}]
  /\ taken \in [RunIds -> Seq(Events)]
  /\ asker \in [Requests -> RunIds \cup {None}]
  /\ got \in [Events -> SUBSET RunIds]
  /\ workload \in Workloads /\ restarts \in 0..workload.restarts
  /\ stranded \subseteq RunIds

\* runner.rs:28, "admission enforces the configured worker concurrency limit":
\* continuations are not counted by resume_pending_steers, so the limit holds
\* only because every message is preceded by them and nothing is recorded in
\* between.
WithinLimit == MaxConcurrent # 0 => Cardinality(ActiveRuns) <= MaxConcurrent

\* runner.rs:111, "deliver an older completion-race instruction before accepting
\* a newer message": when a run is created, no follow-up that outlived its run
\* stays behind, in any conversation.
OlderFirst ==
  [][\A r \in RunIds :
       status[r] = "none" /\ status'[r] = "queued" =>
         \A e \in Events : steer'[e] = "pending" => status'[steerRun'[e]] \notin Resumable]_runnerVars

\* acp.rs:341: follow-ups of a run pass the driver's effects, a channel, the
\* worker and another channel, any of which may be cut off by a stop or an
\* ending, and are still confirmed in the order of receipt; none is left behind
\* for a newer message that becomes a run.
KeepsOrder == [][ReportsInOrder /\ OlderContinueFirst]_runnerVars

\* An active run is looked after until it ends: it is about to be dispatched or
\* to be ended by the driver, its worker lives, or its last update is on its
\* way.  Only one whose dispatch failed is not, until it is stopped.
NoOrphans ==
  pc \notin {"shutdown", "down"} =>
    \A r \in ActiveRuns :
      \/ r \in open /\ worker[r] \notin {"none", "gone"}
      \/ \E i \in DOMAIN updates : updates[i].run = r /\ updates[i].type = "finished"
      \/ {Start(r), Cancel(r)} \cap todo # {}
      \/ r \in stranded /\ status[r] \in {"queued", "running"}

\* However the end of a turn, a stop, a crash and the channels race, the text
\* of a message is sent to at most one agent run.
GivenOnce == \A e \in Events : Cardinality(got[e]) <= 1

\* An agent whose request was decided, by an operator, a timer, a policy or the
\* end of its run, will hear of it: the answer or a cancellation is on its way.
DecisionsReachAgents ==
  pc \notin {"shutdown", "down"} =>
    \A q \in Requests, r \in RunIds :
      approval[q] = "consumed" /\ asker[q] = r =>
        \/ worker[r] = "ending"
        \/ \E x \in todo \cup {controls[r][i] : i \in DOMAIN controls[r]} :
             x.run = r /\ (x.type = "cancel" \/ (x.type = "decide" /\ x.request = q))

\* A stop ends: the run it cancels reaches a terminal status.
StopSettles == \A r \in RunIds : status[r] = "cancelling" ~> status[r] \in Terminal

\* A follow-up that outlived its run is continued or given up.
FollowUpsMoveOn ==
  \A e \in Events :
    (steer[e] = "pending" /\ status[steerRun[e]] \in Resumable) ~> steer[e] # "pending"

=============================================================================
