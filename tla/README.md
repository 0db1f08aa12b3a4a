# Verification of matrix-acp-bridge

TLA+ models of the bridge, checked by TLC on small instances and, for the
journal, the driver with its workers, the turn of an agent, the context ledger,
delivery, the sync pipeline and search, proved with TLAPS for every value of the
constants. Paths such as `core.rs:540` are below `src/src/`, documents below
`src/docs/`. `PROJECT.json` lists the components, the runs, a mutant for every
checked property, the source lines behind every definition, the findings and the
hazards.

    tlasany Bridge.tla
    tlc -workers 2 -config MCBridge_approvals.cfg MCBridge
    tlapm RunnerProofs.tla

## 1. The system

The bridge lets people in Matrix rooms instruct coding agents. One process polls
a homeserver, keeps everything it decides in one SQLite file (the journal), and
runs each agent as a child process that speaks ACP over stdio.

    homeserver <-> matrix.rs  --events-->  runner.rs <-> core.rs / store.rs (journal)
        ^              ^                      |   ^
        |              '---- outbox rows -----'   | updates (128)
        '--- sends, reactions, redactions         | controls (32 per run)
                                               acp.rs worker <-> agent process
                                                  ^
                     matrix_tools.rs, messaging.rs: tools the agent may call

| Component | State it keeps | Operations | Talks to |
|---|---|---|---|
| Journal core (`core.rs`, `store.rs`, `model.rs`) | conversations and their binding, inbox, runs, run_inputs, run_steers, context_batches, approvals, outbox | `accept`, the `!bridge` commands, `agent_event`, `automatic_approvals`, `expire_approvals`, `resume_pending_steers`, `reconcile_room`, `explicit_message`, `recover` | returns effects (start, steer, cancel, decide) for the runner |
| Runner and driver (`runner.rs`, `live.rs`) | open control channels, the event being ingested, effects not yet carried out | ingest, tick, reconcile, apply, drain updates, poll the sending tool, shutdown | journal, workers, Matrix client |
| ACP turn (`acp.rs`) | the phase of a turn, follow-ups taken, permission futures | handshake, prompt, steer (four modes), permission, stop with grace, finish | runner through two bounded channels, agent |
| Outbox and delivery (`store.rs`, `matrix.rs`, `runner.rs`, `messaging.rs`) | outbox, outbox_failures, reaction_cleanup, receivers of receipts | send pending rows with transaction ids, confirm, block, remove the eyes, answer the tool | homeserver, sending tool |
| Sync pipeline (`matrix.rs`, `store.rs`, `live.rs`) | cursor, room anchors, staged batch, unreadable_events, SDK crypto store | raw sync, stage, SDK sync, backfill, decode, ingest, checkpoint | homeserver, runner |
| Context ledger (`context_ledger.rs`, `context.rs`) | batches and their entries, what an agent session has seen | stage, mark in flight, deliver, abandon | journal |
| Policies and trust (`config.rs`, `trust.rs`) | configuration, enrolled identities | admission of a sender and device, roster and audience checks | journal, sync, delivery |
| Matrix tools (`matrix_tools.rs`) | none that lasts | search, thread pages, download | agent, homeserver |
| Sending scopes (`messaging.rs`) | table of live tokens | request, receipt | runner |
| Setup, command line (`setup.rs`, `main.rs`, `lib.rs`) | files on disk | wizard, enrollment | operator |
| Offline fixture (`offline.rs`) | none | scripted agent for tests | - |

**What is hard here.** The journal is a single writer, but its facts are raced by
everything around it. Workers go on publishing after they were stopped. A
follow-up can be read by the agent, about to be read, or too late, when the turn
ends. Permission requests are answered by people, timers, modes, revocations and
endings. Two bounded channels connect two tasks that both wait. A driver step can
be dropped at any await by a signal or a deadline. Requests to the homeserver are
lost, late, or received without an acknowledgement. Batches are retained and
ingested again, and room keys exist on the server only until a later token is
presented. Inside a turn, answers, acknowledgements, a session's mailbox and stops
race in one select loop. `PROJECT.json` lists such hazards at their lines.

**What makes each component correct.** Journal: one active run per conversation; waiting
exactly while a request is open; a message is work of at most one run; a stop reaches
everything received before it; the context ledger claims only what an agent was given;
work goes on only under the configuration it was bound to. Runner: the limit of workers;
older follow-ups first; no run without a worker but by a failed dispatch; no decision
lost; no text given twice; stops and follow-ups end. ACP turn: what is reported as
steered is what the agent was given, in every strategy; a stop is final and ends; no
work is left behind. Ledger: an agent is shown all of a message's history, and no line
again that an earlier message brought. Search: every match once. Delivery: rows once, in
order, with honest receipts. Sync: nothing skipped, nothing taken twice, no key lost,
and progress.

## 2. The modules

| Module | What it is |
|---|---|
| `RunLifecycle` | abstract: a run's status moves along fixed edges, its conversation never changes, active runs of a conversation exclude each other |
| `Bridge` | the journal: one action per operation of `core.rs` and `Store::recover` |
| `Runner` | EXTENDS `Bridge`: the driver loop and the workers' channels around the journal |
| `AgentContract` | abstract: what the journal relies on when a worker steers an agent |
| `AcpTurn` | the select loop of `acp::execute` and its agent, in the four steering strategies |
| `ContextLedger` | EXTENDS `Bridge`: which lines a batch puts in front of a request |
| `RunnerLedger` | EXTENDS `Runner`, `ContextLedger`: the ledger in the running process |
| `HistorySearch` | the walk of a client over a room's history with `matrix_search` |
| `Outbox` | rows from the journal to the room, and the sending tool's receipts |
| `SyncPipeline` | events from the room to the journal |
| `BridgeProofs`, `FollowUpProofs` | theorems about `Bridge`: types, runs and requests; then messages, follow-ups and stops |
| `RunnerProofs`, `AcpTurnProofs`, `OutboxProofs`, `SyncProofs`, `SearchProofs` | theorems about the module each is named after |
| `LedgerProofs` | theorems about `ContextLedger`, then about `RunnerLedger` |
| `MCBridge`, `MCRunner`, `MCAcpTurn`, `MCLedger`, `MCSearch`, `MCOutbox`, `MCSync` | instances for TLC |

`Bridge` implements `RunLifecycle` (`Lifecycle`, checked and proved), and `AcpTurn`
implements `AgentContract` (`Implements`, checked and proved): `stopped` is mapped to
`stops > 0`, the other variables to those of the same name. `Runner`
composes the journal with the driver: each of its steps that touches the journal
is a step of `Bridge` together with a change of the driver's place, and the
effects `Bridge` leaves in `effects` become the `todo` of `Runner`. `ContextLedger`
composes the journal with the contents of its batches: each step is a step of
`Bridge` together with what that step stages. `RunnerLedger` is both at once: a step of
`Runner` together with what it stages; it implements `LedgerSpec` (`KeepsLedger`,
proved). `Outbox` and
`SyncPipeline` keep their own abstraction of the journal: rows that appear, and
events that are decided about.

### Bridge

Each table is a function or a set: `inbox` the sequence of received events,
`status`/`owner`/`input` the runs, `steer`/`steerRun` run_steers,
`batch`/`batchRun` context_batches, `approval`/`approvalRun`/`decisions` the
requests. `notices` and `marks` are what is enqueued for people, kept because
properties speak of them. `effects` is the value an operation returns. An action
is one call of the driver with all the statements of its transactions:
`HandleMessage` (blank, follow-up, at the limit, new request), `HandleCommand`
(inform, stop, permissions, approve), `Started`, `SessionReady`, `Text`, `Tool`,
`Permission`, `Steered`, `Finished`, `AutomaticApprovals`, `ExpireApprovals`,
`ResumePendingSteers`, `ReconcileRoom`, `ExplicitMessage`, `Recover`.

Abstractions:
- Time is `late`, the requests whose expiry has passed (`Lapse`).
- A room snapshot is whether it fits the policy and its audience; who the sender
  and the device are is part of it.
- A run, event or request is an identifier; what people wrote is left out, except
  whether it is blank, a command, or starts work. Unfit and repeated input changes
  nothing and is a stutter.
- Context is always staged for a message; the contents of a batch belong to
  `ContextLedger`. context_sessions is left out: a session is only reset by an
  operator's SQL.
- A non-allow option is always offered with a request; `allowable` says whether
  an allow option is. Invalid options are refused before the journal is written.
- `reconcile_room`, `automatic_approvals` and `resume_pending_steers` commit
  several times and are one step here. After a crash `recover` always comes first
  and leaves nothing by which the intermediate states could be told apart; an
  SQLite error in the middle of the loops is not modelled.
- Workspaces, their pinning and prompts are left out.

### Runner

`pc` is the place of `one_step` and of `ingest`: `BeginIngest`, then `IngestReconcile`,
`IngestResume` (commands skip it) and `IngestHandle`; `TickExpire`, `TickResume`,
`TickAutomatic`; `Reconcile`, `PollMessage`. Before the driver goes on, `Apply` carries
out the effects one by one, or `ApplyFails` loses the rest: the start cannot be recorded
(`runner.rs:126`), or is recorded and the harness cannot be looked up (`runner.rs:127`),
before the worker exists. `stranded` remembers the runs whose dispatch failed. `Receive`
records one update, forwarding it only if the journal still hears the run (`Listens`).
`Shutdown` cancels, `Exit` and `Crash` lose everything volatile, `Restart` recovers
under a configuration. A worker has a phase (handshake, turn, stopping, continuing,
ending, gone), the follow-ups it has `taken`, in order, and its outcome; `Report`
publishes the oldest of them; `Take` reads its control channel, `Respond` ends a prompt,
`StopEnds` is the five-second grace.

Abstractions: the capacities 128 (`runner.rs:46`) and 32 (`runner.rs:147`) are
`UpdatesCap` and `ControlCap`. Updates published between draining and the next
journal operation commute with it. A chunk whose send waits for room is published
before its worker goes on. The worker steers after turns or by concurrent
prompts; `AcpTurn` has all four strategies. What arrives, what agents publish and
how often the process restarts is a `workload`, chosen at the start, so that one
instance holds several small ones.

### AcpTurn

The variables are the locals of the loop (`steering`, `concurrent` for
concurrent_inputs, `call` for session_steers and interjections, `outcome` for
primary_outcome, `needsDrain`, `drain`, `generation`), the control channel, and the
agent: whether it works, which prompts it has not answered, its answers on their
way, the mailbox of a Grok session and what it was `given`. `Take*`, `SendCall`,
`PollSession` and `Deadline` are the branches of `tokio::select!`; `Settled` is the
test before it; `EndTurn`, `AppendReport`, `AppendPrompt` are lines 340-348. A
steering request is a lazy future: created by the command, sent at its first poll.
A new prompt starts with fresh locals and a fresh channel of answers, so that late
answers to earlier prompts are no longer heard.

The agent is external. It may end its turn with any status, answer superseded
prompts late or never, refuse or inject a steering request, look at its mailbox
late and make a turn of its own of what it finds there, and never answer at all.
It answers the newest prompt when its turn ends, and keeps the order of its
mailbox, as `acp.rs:312` and `acp.rs:523` expect. Permissions and output are in
`Runner`.

### ContextLedger

`lines` and `baseline` are the events and the `initial` flag of a batch, computed
when the journal stages it: `Known` and `Introduced` are the query of
`context_ledger.rs:141`, `Stage` is `prepare` and `stage`. `stagedIn` remembers the run.
Alone with the journal, it takes only steps in an order that the driver keeps:
after-turn workers report in order (`ReportsInOrder`) and older follow-ups are
continued before a newer message starts a run (`OlderContinueFirst`, both in `Bridge`).
`Runner` is without this condition and meets it (`KeepsOrder`).

`History` is `context_for`. For a message in a thread it is the root and every message
of the thread before it; for any other message, in a room that is one conversation or at
the start of a thread, it is the nearest messages before it (`Window`; `matrix.rs:385`
asks for 40 events around it) and the message it replies to. It quotes whatever was said
there, admitted as an event or not, and the messages of `Readers`, who may not ask. The
room's order (`Timeline`) is the homeserver's and need not be the order in which events
are admitted. `Stage` leaves out what is known, and adds the message itself in any case,
as `context.rs:88` does.

Left out: messages whose text could not be decoded and senders the policy does not
permit, the bridge's own replies, the instruction for explicit sending, a session
cleared by hand, migration of old journals.

### HistorySearch

An event is a position of the history and matches the filters, does not, or cannot be
decrypted. A token of the server is a position too. `Begin` and `Page` are `search`:
each page is one request, between which messages arrive and keys are received; the call
returns at its limit in the middle or at the end of a page, at the end of the history,
at an empty page, or with an error. `cursor` is what the client hands back, `rest`
remembers how much of the history lies behind the page that ended the walk. The server's
pages have any sizes, none among them, and are stable; a faulty server may send the walk
back to the newest event. The other tools are single requests or, as `matrix_thread`,
one loop over pages with the same check for repeated tokens.

### Outbox

A row is named by its position in the table, which is its Matrix transaction
identifier (`matrix.rs:450`): the homeserver shows a transaction once. `Post*` are
what the journal enqueues between passes; a `Pass` goes through the pending rows
(`HoldRow`, `SubmitRow`, `ConfirmRow`) and then through the removals of eyes; `todo`
is what it has read from the table and not done, `Current` the first of it. Before each
of them it takes a snapshot of the room (`Found`): what the policy then refuses
(`unfit`) is held, and where there is no snapshot (`closed`: the room is not configured,
not known to the client, or its members cannot be fetched, `matrix.rs:254-270`) the pass
ends there with the error (`NoSnapshot`).
`CutShort` drops it at an await (deadline, error, signal), so a request may be
answered without anybody listening, arrive late, or never. `Restart` forgets who
waits for a receipt. `AnswerSends` is `poll_messages`, before each pass.

### SyncPipeline

One stream of events and room keys; a token is a position in it. `RawSync` stages
the response, `Retake` takes a retained batch up again, `SdkSync` receives the
room keys the server still has, `Hold` keeps the cursor at a gap that cannot be
closed, `AwaitKey` and `AwaitContext` retain a batch under the policy `wait`,
`Decode` archives under `quarantine`, `Handle` is the journal's decision about one
event, `Checkpoint` commits cursor and anchor. An event that is malformed, or whose
session fails the integrity or identity checks (`Forged`), fails the step under both
policies (`FailDecoding`, `FailContext`; `matrix.rs:61-64, 234, 243, 495`), and the batch is
retained with it. Events are read in order, so what is archived before such an event
stays archived, and so it does when `CutShort`, `CutDecoding` or `CutContext`, failures and
crashes at each await, end the step. The server forgets keys before the latest token
presented to it. It answers with the latest events after the token or, where it
starts a timeline anew (`Resends`), with the latest whether it sent them before or not:
then the anchor may lie in the window (`matrix.rs:199-210`). One room with one thread; a
message is a mention, talk or malformed; the `--retry-event` entry and batches of several
rooms are left out.

## 3. What is checked

| Run | Instance | What it shows |
|---|---|---|
| `ledger_turns` | 1 conversation, 3 messages and a reader's, a thread, a reply, surroundings of 1 message, 3 runs, 2 configurations, after-turn | `TypeOK`; runs follow the abstract life cycle, one at a time (`Lifecycle`); a message is work of one run and never both pending and given (`OneRunPerRequest`); a stop settles what came before (`StopSettlesEarlier`); the ledger claims only what an agent got (`LedgerIsHonest`), a follow-up keeps its context (`FollowUpKeepsContext`); reactions once and in order (`MarksInOrder`); work only under its binding (`WorkUnderBinding`); follow-ups settle once (`FollowUpsSettleOnce`); no line and no introduction is given again by a later message, but its own line (`LinesOnce`), and none of its history is missing before what an agent acted on (`ContextIsComplete`) |
| `bridge_approvals` | 2 conversations, one with explicit delivery, 3 messages, 1 slot, 1 run, 2 requests, 2 audiences | a run waits exactly while a request is open (`WaitingIffOpen`), answers in time and once (`AnswersAreTimely`) |
| `runner_limit` | capacities 1, 1 slot, after-turn; 3 messages of 2 conversations or of one, or 1 run, 1 request, a command and 1 restart | the limit is kept although continuations are not counted (`WithinLimit`), older follow-ups first (`OlderFirst`) and all confirmed in the order of receipt (`KeepsOrder`), no run without a worker but where its dispatch failed (`NoOrphans`), no text given twice (`GivenOnce`), a decision reaches the agent that asked (`DecisionsReachAgents`), also through shutdown, crash and restart |
| `runner_live` | 1 conversation, 2 messages, concurrent prompts, room for every update, fairness | stops end (`StopSettles`), follow-ups go on or are given up (`FollowUpsMoveOn`), types of the driver |
| `acp_steering` | 3 follow-ups, 2 stops, the 4 strategies, fairness | the worker keeps its contract (`Implements`): no follow-up is given twice and those reported are those given; a completed or cancelled run leaves an agent without work (`NoWorkLeftBehind`); no prompt follows a stop (`StopIsFinal`), which ends the run (`StopEnds`); the loop never waits for an agent that has nothing to do (`NeverHangs`) |
| `search_walk` | up to 4 events, pages of up to 2, empty ones included, limits 1 and 3 | every match the walk came past is returned or counted as a gap, once and newest first, and it came past all unless an empty page ended it (`EachOnce`); a call ends (`CallsEnd`) |
| `outbox_rooms` | 2 conversations, a message with reactions, a text, a send in 2 parts, 3 faults, fairness | rows appear in order (`RowsInOrder`), receipts are true (`ReceiptsAreHonest`), eyes go only after the status (`EyesOutliveWork`), a conversation that stays fit is served unless rows of a room without a snapshot stay pending (`OutboxDrains`) |
| `sync_batches` | 4 items, 2 sessions, one forged, malformed events, responses of 2 events that may reach back, gaps closed below 2 events, 1 fault, both policies, fairness | nothing is skipped (`NothingSkipped`) or taken twice, nor taken from before the baseline unless sent again (`InputOnce`), no key is lost (`KeysSurvive`), everything is decided about in the end where no gap is held and no event fails (`CatchesUp`) |
| `runner_standoff`, `outbox_blocked`, `sync_replay`, `sync_archive` | smallest that show it | the findings of section 5 |

**Why the bounds are enough.** A continuation needs a second run of the same
conversation and a race with it a third message: three of each. Two requests are what
distinguishes a run that goes on from one that still waits. Two conversations are needed
only for the common limit (`bridge_approvals`, `runner_limit`) and for delivery past a
blocked conversation (`outbox_rooms`); all other operations of the journal touch one
conversation or treat all alike, which the proofs confirm for any number of them.
Channels of one message make every send wait, and three messages of a conversation put
two follow-ups of a run in line: one kept by the worker or reported, one in the channel
or behind it. Three outbox faults allow a cut pass, a late request and a restart or a
room change between them. Windows of two events and a backfill cap of two in a stream of
four make responses with and without a gap, gaps that close and gaps that hold, and
windows that hold the anchor and events before it. In `ledger_turns` the three messages
are a root, a reply in its thread behind a reader's message, and a message outside of
the thread that replies to the root and has only one message before it in its window;
they are admitted in any order, so a message that was quoted may become a request later.
The bounds `RunIds`, `Requests`, `Workloads`, `MaxStops`, `MaxFaults`, `MaxStream` and
`MaxHistory` are named in the modules. Three follow-ups let one be in each stage of its
way (reported, on its way, not yet taken) when a turn ends, and a second stop meets a
turn that is stopping. Pages of up to two events and a limit of three make calls that
end in the middle and at the end of a page and after several pages; the calls of a
client of a faulty server start at the newest event. Symmetry is declared over runs,
requests, configurations and events that nothing tells apart, and only in runs without
liveness.

`runner_*`, `acp_steering` and `search_walk` disable deadlock checking: with all
messages used and all workers gone the process may be idle or down for good, a run
that ended stays ended, and so does a walk. The other runs check it.

## 4. Fairness

- `FairRunner`: the driver finishes an operation it began and, since `one_step` is
  repeated for ever and drains updates each time, keeps ticking and receiving
  (strong fairness, as its guard is disabled while it is busy). A worker's sends
  are served in turn by tokio's channel, its handshake has a deadline and its stop
  a grace period. Nothing is assumed of agents or people: no prompt need ever end.
- `FairSpec` of `AcpTurn`: a handshake ends or times out; `tokio::select!` picks among
  the ready branches at random, so commands, answers and the deadline are each
  taken in the end; leaving a turn waits for nothing but the updates' channel. The
  agent and the driver owe nothing: `StopEnds` rests on the grace period alone, and
  `NeverHangs` only says that the loop does not wait for an agent that has nothing
  left to do.
- `Spec` of `HistorySearch`: a request is answered or fails.
- `FairSpec` of `Outbox`: the pass and the replies are repeated; a request that is
  not lost arrives. Faults are bounded; the program itself gives up after five
  failed steps in a row (`live.rs`) and is restarted.
- `FairSpec` of `SyncPipeline`: the step is repeated. Nothing is assumed about
  people or about keys; `CatchesUp` excludes runs in which a gap holds the cursor
  for ever, an event fails under any policy, or a key is never sent under `wait`, as
  the documents do (`TROUBLESHOOTING.md:17, 55`).

`runner_live` holds with room for every outstanding update and concurrent prompts;
`runner_standoff` shows what happens at the limits of both channels.

## 5. Disagreements with the documents

- `sync_replay`: a batch ingested again admits thread messages from before the
  mention that were ignored the first time (`core.rs:154`, `POLICIES.md:29`).
- `sync_archive`: an archived event of a retained batch is taken as input when its
  key arrives (`matrix.rs:494`, `TROUBLESHOOTING.md:50`).
- `outbox_blocked`: a send answered as failed still sends its other parts
  (`runner.rs:317`, `POLICIES.md:40`).
- `runner_standoff`: with both channels full, driver and worker wait for each other
  and a stop never ends (`runner.rs:179`, `ARCHITECTURE.md:59`).

Seen without a run:
- `Store::recover` explains an interruption in a message but does not enqueue the ⚠️
  reaction of `README.md:12` (`store.rs:382`).
- A request made while approval is automatic is never relayed after the mode is set
  back to manual (`core.rs:542` returns before the notice, `POLICIES.md:16`).
- A follow-up that waits behind a batch in flight leaves that batch's lines out. If
  the run ends cancelled, the batch is abandoned and the follow-up is continued
  without those lines, and without an introduction if the batch held it. The same
  happens to what arrives while `reconcile_room` is cancelling a run, since it leaves
  the batches of the follow-ups it cancels pending (`core.rs:815`, unlike
  `core.rs:268`). `ARCHITECTURE.md:41` says recovery repeats context "rather than
  silently omit it". `ContextIsComplete` names this exception and no other.
- An after-turn follow-up is reported as steered before its prompt is submitted
  (`acp.rs:343`); a failure in between marks it delivered although the agent never saw
  it. The contract allows it of failed runs only.
- Follow-ups of a failed run stay pending for ever: `resume_pending_steers` continues
  those of completed and cancelled runs (`core.rs:682`).
- `complete` of a search result speaks of the gaps of its own call only.
- An empty page ends a search although it carries a token (`matrix_tools.rs:219`): the
  call reports `history_exhausted` with the older matches unreturned, unlike
  `matrix_tools.rs:346`. `EachOnce` names this case.
- A room without a snapshot (`matrix.rs:254-270`) ends each delivery pass at its first
  pending row or removal (`matrix.rs:445, 458`), so one such room at the head of the table
  keeps back all that come after it, and the step fails each time. `OutboxDrains` asks
  that no such row stays; without that premise TLC finds the pass that begins and ends
  there for ever.
- A dispatch that fails (`runner.rs:126-127`) leaves a queued or running run without a
  worker. It holds its conversation and a slot until a stop, a revocation or a restart;
  `NoOrphans` names it.
- Context is repeated only as far as `context_for` reaches. Outside of a thread a line
  that was abandoned and has since left the window (`matrix.rs:385`, as `README.md:62`
  documents it) is not supplied again, though `ARCHITECTURE.md:41` says recovery repeats
  context "rather than silently omit it". `ContextIsComplete` is therefore about each
  message's own history, and promises nothing beyond the window.
- A message that was quoted before it is admitted (ignored at first, replayed as in
  `sync_replay`, or taken up with `--retry-event`) is given to the session again as its own
  request (`context.rs:88`), although `README.md:64` says each is included once. `LinesOnce`
  excepts that line.
- A response whose window holds the anchor is executed in full (`matrix.rs:210`), so events
  from before the first baseline can become input where the server sends them again.
  `InputOnce` names them.

## 6. What is proved

All theorems hold for every value of the constants that the named assumptions of
the modules allow: any number of conversations, messages, runs, requests, any
configuration, limit and capacity of the channels, any workload; any follow-ups,
stops and steering strategies; any rows and faults; any sessions, window, cap and
stream; any history, page sizes and limits. Every safety property and action
property a passing run checks is proved. Each theorem below follows from an inductive
invariant, and TLC checked these on the instances of section 3 before they were
proved.

**Journal: types, runs and requests** (`BridgeProofs`). `JournalOK == TypeOK /\
ForeignKeys` is inductive by itself: `ForeignKeys` is needed because an update such
as `status[steerRun[e]]` is typed only if the run exists. With it,
`WaitingIffOpen` and `OneActiveRun` are inductive. Their proofs go action by action
and rest on three facts about updates that several operations share:
`SettleKeepsWaiting` (answering requests), `ConsumeKeepsWaiting` (ending or
cancelling runs with their requests) and `ResumeCreates` (what
`resume_pending_steers` creates, at most one run per conversation without one).
`FiniteAssumption` is used for cardinalities of active runs.
- `JournalCorrect`, `TypeCorrect`, `WaitingCorrect`, `OneActiveCorrect`
- `LifecycleCorrect`: `Spec => Life!Spec`. Initial states map to initial states and
  every step to a step or a stutter (`NextRunsStep`).

**Journal: messages, follow-ups and stops** (`FollowUpProofs`). The properties of
this group hold only together: that a message has one run needs that a continued
follow-up is no longer pending, that the ledger is honest needs which run a batch
belongs to, that reactions come in order needs who still works on a message.
`RequestsOK` is their conjunction with
- `InboxOnce`, `Recorded`: events are received once, and every table speaks of
  received events only;
- `ConversationsAgree`: a run, its input and its follow-ups are of one conversation;
- `InputsAreGiven`: the input of a run is its own, or a follow-up it took over;
- `PendingTogether`: a pending batch of a live run waits with its follow-up;
- `MarksFollowWork`: who waits or is worked on has the eyes and no outcome;
- `StopsRecorded`: a stop is a received event.

`StepKinds` reduces the operations to `Quiet` ones, which move no request, and eight
others; `ResumeMoves` says what one `resume_pending_steers` does to every run and
message at once. The action properties need no history and follow from the same
invariant.
- `RequestsCorrect`, and from it `OneRunCorrect` (`OneRunPerRequest`), `StopCorrect`
  (`StopSettlesEarlier`), `HonestCorrect` (`LedgerIsHonest`), `ContextKept`
  (`FollowUpKeepsContext`), `MarksCorrect` (`MarksInOrder`)
- `BindingCorrect` (`WorkUnderBinding`), from the journal's invariant alone
- `SettlesOnceCorrect` (`FollowUpsSettleOnce`), `AnswersCorrect` (`AnswersAreTimely`)

**Driver and workers** (`RunnerProofs`). `RunnerKinds` sorts the steps: an operation
of the journal, a move of the driver's place, or one of nine others, the workers'
being one. `Typed` is inductive: types, `DriverOK` (what the driver is in the
middle of, and that its effects are of one kind) and `WorkersOK` (a worker
exists only for a run that was started, and ends with a status).
- `RunnerJournal`: `RunnerSpec => Spec`. Whatever the driver, the workers, a crash
  or a restart do, the journal makes a step of `Bridge` or none. All theorems about
  `Bridge` hold of the running process, and the proofs below use them.
- `RunnerTypeCorrect` (`RunnerTypeOK`), with the capacities of both channels
- `NoOrphansCorrect` (`NoOrphans`). `OpenOK` ties the entry in `Runner.controls` to the
  worker and its last update, of which there is one and which nothing of the run
  follows in the channel; `Attended` says that an active run without an
  entry is about to be dispatched or to be ended by the driver, or that its dispatch
  failed and nobody has stopped it, in which case nothing is dispatched for it again.
  `Moved` is what an operation may do to a run between these cases.
- `DecisionsCorrect` (`DecisionsReachAgents`). `HeldOK`: what channels hold and who
  waits for an answer belongs to a worker that lives. `AskedOK`: the journal knows
  a request under the run whose agent asked it, or its update is on its way.
  `DecisionsOK` is the property in words that name the place of the answer.
- `GivenCorrect`, `GivenOnceCorrect` (`GivenOnce`). For each message and run, `PairOK` says on which
  one stretch the text is (an effect, the control channel, kept by the worker, given
  and unreported, reported) and what the journal knows meanwhile. Its last line is
  the heart: a text that was given and is still pending in the journal will be
  reported before the run's end, or the run ends in a way after which nothing is
  continued. Two agents with the same text would then be two runs with the same
  input, which `InputsAreGiven` excludes.
- `WithinLimitCorrect` (`WithinLimit`). The number of active runs is not inductive,
  as `resume_pending_steers` starts runs without counting. `LimitOK` counts
  `Occupied` conversations instead, those that have an active run or a follow-up
  that will be continued. It needs that no run is active beside such a follow-up
  (`WaitsAlone`), that the follow-up is of the configuration under which it will be
  looked for (`PendingBound`; both are in `FollowUpProofs`, since the ledger needs
  them too), and that none waits when a message is handled (`ClearedFirst`), so
  that the count of active runs the code makes there is the count of occupied
  conversations.
- `OlderFirstCorrect` (`OlderFirst`), from `Creations`: the only steps that create
  runs are the handling of a message, when nothing waits, and a continuation,
  which leaves nothing waiting (`ResumeClears`).

**Turn of an agent** (`AcpTurnProofs`). `FollowUpOK` says where a follow-up may be: in
the control channel, kept for the next prompt, in a call, in the mailbox of a
session, given, reported. `TurnState` says how far the turn is: nothing is twice on
its way (`Distinct`), what holds outside a prompt (`Phases`), that the request of a
drain is the last in the mailbox and an idle answer finds it empty (`Draining`), and
that an agent that answered the newest prompt works on interjections only
(`NothingElse`).
- `TurnTypeCorrect` (`TypeOK`), `NoWorkCorrect` (`NoWorkLeftBehind`), `StopIsFinalCorrect`
  (`StopIsFinal`: no prompt after a stop; a follow-up already on its way by another
  strategy may still reach the agent)
- `ContractCorrect`: `Spec => Implements`. A step either gives the agent follow-ups it
  did not have (`Gives`), or reports some (`Reports`), or ends the run, at which point
  those reported are those given (`Settles`, `EndsSettled`); all others stutter.

**Context ledger** (`LedgerProofs`). What `context_ledger::known` counts as known is
not only what is confirmed, so both properties are about batches that may yet be
sent, moved to another run, abandoned or confirmed. `CountsShrinks` is the first
fact: a batch that does not count any more never counts again, in spite of
continuations. With it `Apart` is inductive, by which of two batches that count the later
has no line of the earlier but its own message, and only one introduces the session
(`BatchesOK`: sent batches belong to active runs,
waiting ones to their follow-up). For completeness, `Covers(e)` is where the lines
may be that the delta of `e` left out: in confirmed batches, in those that were
dropped with the run of `e`, and in those that will be confirmed no later than `e`
(`Follows`). `StagingCovered` shows that a new delta leaves out nothing else, and
`FollowsKept`, operation by operation, that what was to be confirmed first is, or is
dropped. `ReportsInOrder`, `OneActiveRun`, `PendingTogether` and `WaitsAlone` are each
needed there.

That the running process keeps the order is proved of `Runner`. A follow-up is, from its
staging to its report, an effect not yet carried out, a message in the control channel,
among those the worker has taken, or a report in the channel of updates. `InLineOK` says
that of two that wait for the same run the older is further on its way or ahead in the
same queue (`Precedes`), with an exception for workers that take no follow-up any more,
whose channel does not matter (`Spent`). It needs that no waiting follow-up is lost
while its run is heard (`RememberedOK`): an older one that were dropped with an effect
would be overtaken. A step that fails (`ApplyFails`) drops starts only, since the
effects of an operation are of one kind; a run it leaves without a worker takes no
follow-up (`Spent`); and a driver that is leaving sends nothing any more, so the
invariant speaks of one that is not. `FreshOK` says that nothing waits for a run about
to be started, whose worker begins with empty queues. `QueueOK` is their conjunction.

Nothing is assumed of `History`: the proofs hold for any room order, threads, replies and
window.
- `LinesCorrect`, `LinesOnceCorrect` (`LinesOnce`)
- `QueueCorrect`: `RunnerSpec => []QueueOK`, and from it `KeepsOrderCorrect`
  (`KeepsOrder`)
- `ProcessKeepsLedger`: `ProcessSpec => KeepsLedger`, the refinement of `LedgerSpec` by
  the process (`RunnerLedger`). `ProcessContext`: `LinesOnce` and, after turns,
  `ContextIsComplete` of the running process, with no condition on its steps
- `CoverCorrect`, `ContextCorrect` (`ContextIsComplete`), both under the assumption
  `AfterTurn`, that is `harness.steering = after_turn`. Agents that take follow-ups
  while they work may report them in any order, and then a message is confirmed for
  a while before one that it builds on.

**Delivery** (`OutboxProofs`). `OutboxOK` says how a pass stands to the table, the wire
and the room: what it has passed by was acknowledged or held and what it waits for
is on the wire or shown (`PassKnows`), requests leave after everything before them
was shown or held (`SubmittedInOrder`), and eyes are given up for a status that was
acknowledged (`RemovalsJustified`). Repeated, lost and late requests change none of
it, which is the point.
- `OutboxTypeCorrect` (`TypeOK`), `RowsInOrderCorrect` (`RowsInOrder`), `ReceiptsCorrect`
  (`ReceiptsAreHonest`), `EyesCorrect` (`EyesOutliveWork`)

**Sync pipeline** (`SyncProofs`). `NothingSkipped` and `KeysSurvive` are not
inductive: a checkpoint keeps the first only if the batch contained everything
between the two cursors and all of it was handled, and the second only if the SDK
has synced since the batch was staged. `SyncOK` adds
- `CursorsInOrder`: the acknowledged token, the anchor and the baseline are never
  beyond the cursor, nothing is beyond the stream;
- `BatchStaged`: a step under way has a staged batch, whose window is complete
  unless it is marked limited, and has everything later than any event it has;
- `KeysReceived`: keys up to the cursor are known, and up to the end of the batch
  once the SDK has synced;
- `BatchAccounted`: what the batch brought in is still to be handled, decided about
  or archived.

`BatchCovers` is the heart: since the anchor is never beyond the cursor, a limited
window together with the backfill reaches back to it. Nothing is said of `Hold`,
under which the batch is simply retained. `InputOK` adds what `InputOnce` needs: what a
window has comes after the baseline or was sent again, and no event lies between
the anchor and the baseline, so that what a gap brings in was not offered before.
- `SyncCorrect`, `SyncTypeCorrect` (`TypeOK`), `KeysCorrect` (`KeysSurvive`),
  `NothingSkippedCorrect` (`NothingSkipped`), `InputCorrect` (`InputOnce`)

**Search** (`SearchProofs`). `Walked(h, s, g, low, high)` says that `s` and `g` are a
piece of the history: newest first, between two positions, with everything between
them that counts. `SearchOK` is that what the client has reaches from the newest
event to its cursor, or to the `rest` behind an empty page when the walk has ended, and
what its call has from there to the call's cursor, so a
failed call loses nothing and a retry repeats nothing. Adjacent pieces join
(`WalkedJoin`), and what the loop over a page picks is a piece (`PageWalked`). The loop
is a recursive function; that it exists and what it holds at each position is
proved by taking the smallest position at which it would not (`UpTo`, from the
well-foundedness of `<`), since induction theorems that take an operator cannot
be used.
- `SearchCorrect`, `SearchEachOnce` (`EachOnce`)

**Only model-checked.** Liveness under fairness (`StopSettles`, `FollowUpsMoveOn`,
`OutboxDrains`, `CatchesUp`, `StopEnds`, `NeverHangs`, `CallsEnd`) is out of the
prover's reach, and so is everything that needs ENABLED.

## 7. What is not modelled

Setup, command line, enrollment and the offline fixture: sequential I/O outside
the running bridge. Rendering, Markdown, typing notices, JSON-RPC framing, file
transfer. Senders, devices and rosters behind a snapshot: pure predicates on the
configuration (`config.rs`, `trust.rs`) whose cases the tests enumerate; what matters
to the journal is whether a snapshot fits. The single steps of an ACP handshake,
which all fail in the same way. The tools other than search. Partial commits of the
loops named in section 2.

## 8. Plan

The order puts the journal first, since everything else exists to move facts into
it and out of it.

1. `Bridge`, `RunLifecycle` with `BridgeProofs` and `FollowUpProofs`: done.
2. `Runner` with `RunnerProofs`: done.
3. `AcpTurn`, `AgentContract` with `AcpTurnProofs`: done.
4. `Outbox` with `OutboxProofs`: done.
5. `SyncPipeline` with `SyncProofs`: done.
6. `ContextLedger`, `RunnerLedger` with `LedgerProofs`, and `HistorySearch` with
   `SearchProofs`: done.
7. That the steps of a worker in `Runner` keep `AgentContract` too, so that what `AcpTurn`
   promises is what `Runner` assumes.
8. Composition of `SyncPipeline` with the admission of `Bridge`, in place of its own
   abstraction of the inbox.
