---------------------------- MODULE RunnerProofs ----------------------------
(***************************************************************************)
(* Proofs about Runner for every number of runs, requests and messages,    *)
(* every capacity of the channels and every workload.                      *)
(*                                                                         *)
(*   Typed        the types, and the bookkeeping of driver and workers     *)
(*   OpenOK       a run is open from its start to its last update          *)
(*   Attended     a run at work is open, or about to be ended              *)
(*   HeldOK       channels and questions belong to workers that live       *)
(*   AskedOK      the journal knows a request as its agent asked it        *)
(*   DecisionsOK  a decision is on its way to the agent that waits         *)
(*   GivenOK      a text is on one way to one agent, and the journal knows *)
(*   LimitOK      conversations that wait count against the limit          *)
(*                                                                         *)
(* Each is inductive with those above it.  RunnerKinds reduces the steps   *)
(* of the driver to operations of the journal, moves of its place, and a   *)
(* few others; JournalStep carries over what Bridge's proofs say.          *)
(***************************************************************************)
EXTENDS Runner, FollowUpProofs, FiniteSetTheorems

\* What a worker may publish.
Published ==
  [type : {"ready"}, run : RunIds, about : Sessions]
    \cup [type : {"text", "tool"}, run : RunIds, about : {None}]
    \cup [type : {"permission"}, run : RunIds, about : Requests]
    \cup [type : {"steered"}, run : RunIds, about : Events]
    \cup [type : {"finished"}, run : RunIds, about : Terminal]

\* What the driver is in the middle of.
DriverOK ==
  /\ pc \in {"drain", "resume", "handle"} => event \in Events /\ snapshot \in Snapshots
  /\ pc \in {"shutdown", "down"} => restarts < workload.restarts
  /\ pc = "shutdown" => \A x \in todo : x.type = "cancel"
  /\ pc = "down" => todo = {}
  /\ \A x, y \in todo : x.type = y.type

\* A worker exists only for a run that was started, and ends with a status.
WorkersOK ==
  \A r \in RunIds :
    /\ worker[r] # "none" => status[r] \notin {"none", "queued"}
    /\ worker[r] = "ending" => outcome[r] \in Terminal

Typed == JournalOK /\ RunnerTypeOK /\ updates \in Seq(Published) /\ DriverOK /\ WorkersOK

-----------------------------------------------------------------------------
(* Effects, updates and channels *)

\* The fields of an effect.
LEMMA EffectFields ==
  ASSUME NEW x \in Effects
  PROVE  /\ x.run \in RunIds /\ x.type \in {"start", "cancel", "steer", "decide"}
         /\ x.type = "start" => x = Start(x.run)
         /\ x.type = "cancel" => x = Cancel(x.run)
         /\ x.type = "steer" => x.event \in Events /\ x = Steer(x.run, x.event)
         /\ x.type = "decide" => x.request \in Requests
BY DEF Effects, Start, Cancel, Steer

\* The fields of an update.
LEMMA UpdateFields ==
  ASSUME NEW u \in Published
  PROVE  /\ u.run \in RunIds /\ u.type \in {"ready", "text", "tool", "permission", "steered", "finished"}
         /\ u.type = "ready" => u.about \in Sessions
         /\ u.type = "permission" => u.about \in Requests
         /\ u.type = "steered" => u.about \in Events
         /\ u.type = "finished" => u.about \in Terminal
BY DEF Published

\* What appending to a channel does.
LEMMA Appended ==
  ASSUME NEW S, NEW s \in Seq(S), NEW x \in S
  PROVE  /\ Append(s, x) \in Seq(S) /\ Append(s, x) # <<>>
         /\ Len(s) \in Nat /\ DOMAIN s = 1..Len(s)
         /\ Len(Append(s, x)) = Len(s) + 1
         /\ DOMAIN Append(s, x) = 1..(Len(s) + 1)
         /\ \A i \in 1..Len(s) : Append(s, x)[i] = s[i]
         /\ Append(s, x)[Len(s) + 1] = x
OBVIOUS

\* What was appended to a channel that has its type has the type.
LEMMA LastAppended ==
  ASSUME NEW S, NEW s \in Seq(S), NEW x, Append(s, x) \in Seq(S)
  PROVE  x \in S
<1>1. s \in Seq(S \cup {x}) /\ x \in S \cup {x}
  OBVIOUS
<1>2. /\ Len(s) \in Nat
      /\ DOMAIN Append(s, x) = 1..(Len(s) + 1)
      /\ Append(s, x)[Len(s) + 1] = x
  BY <1>1, Appended
<1> QED BY <1>2

\* What taking from a channel does.
LEMMA Tailed ==
  ASSUME NEW S, NEW s \in Seq(S), s # <<>>
  PROVE  /\ Head(s) \in S /\ Head(s) = s[1] /\ Tail(s) \in Seq(S)
         /\ Len(s) \in Nat \ {0} /\ DOMAIN s = 1..Len(s)
         /\ Len(Tail(s)) = Len(s) - 1
         /\ DOMAIN Tail(s) = 1..(Len(s) - 1)
         /\ \A i \in 1..(Len(s) - 1) : Tail(s)[i] = s[i + 1]
OBVIOUS

\* An empty sequence has no elements.
LEMMA NoElements == \A x : x \notin ToSet(<<>>)
BY DEF ToSet

\* The elements of a sequence that is extended or shortened.
LEMMA Elements ==
  ASSUME NEW S, NEW s \in Seq(S)
  PROVE  /\ ToSet(s) \subseteq S
         /\ \A x \in S : ToSet(Append(s, x)) = ToSet(s) \cup {x}
         /\ s # <<>> => ToSet(s) = ToSet(Tail(s)) \cup {Head(s)}
<1>1. ToSet(s) \subseteq S
  BY DEF ToSet
<1>2. ASSUME NEW x \in S
      PROVE  ToSet(Append(s, x)) = ToSet(s) \cup {x}
  <2>1. /\ DOMAIN Append(s, x) = 1..(Len(s) + 1) /\ DOMAIN s = 1..Len(s) /\ Len(s) \in Nat
        /\ \A i \in 1..Len(s) : Append(s, x)[i] = s[i]
        /\ Append(s, x)[Len(s) + 1] = x
    OBVIOUS
  <2>2. ASSUME NEW i \in 1..(Len(s) + 1)
        PROVE  i \in 1..Len(s) \/ i = Len(s) + 1
    BY <2>1
  <2>3. 1..Len(s) \subseteq 1..(Len(s) + 1) /\ Len(s) + 1 \in 1..(Len(s) + 1)
    BY <2>1
  <2> QED BY ONLY <2>1, <2>2, <2>3 DEF ToSet
<1>3. ASSUME s # <<>>
      PROVE  ToSet(s) = ToSet(Tail(s)) \cup {Head(s)}
  <2>1. /\ DOMAIN s = 1..Len(s) /\ Len(s) \in Nat \ {0} /\ Head(s) = s[1]
        /\ DOMAIN Tail(s) = 1..(Len(s) - 1)
        /\ \A i \in 1..(Len(s) - 1) : Tail(s)[i] = s[i + 1]
    BY <1>3, Tailed
  <2>2. ASSUME NEW i \in 1..Len(s), i # 1
        PROVE  i - 1 \in 1..(Len(s) - 1) /\ (i - 1) + 1 = i
    BY <2>1, <2>2
  <2>3. \A i \in 1..Len(s) : i # 1 => s[i] = Tail(s)[i - 1] /\ i - 1 \in DOMAIN Tail(s)
    BY <2>1, <2>2
  <2>4. \A i \in 1..(Len(s) - 1) : i + 1 \in 1..Len(s)
    BY <2>1
  <2>5. ASSUME NEW x \in ToSet(s), x # Head(s)
        PROVE  x \in ToSet(Tail(s))
    <3>1. PICK i \in 1..Len(s) : x = s[i]
      BY <2>1, <2>5 DEF ToSet
    <3>2. i # 1
      BY <2>1, <2>5, <3>1
    <3>3. x = Tail(s)[i - 1] /\ i - 1 \in DOMAIN Tail(s)
      BY <2>3, <3>1, <3>2
    <3> QED BY ONLY <3>3 DEF ToSet
  <2>6. ASSUME NEW x \in ToSet(Tail(s))
        PROVE  x \in ToSet(s)
    BY ONLY <2>1, <2>4, <2>6 DEF ToSet
  <2>7. Head(s) \in ToSet(s)
    BY <2>1 DEF ToSet
  <2> QED BY <2>5, <2>6, <2>7
<1> QED BY <1>1, <1>2, <1>3

-----------------------------------------------------------------------------
(* Steps of the driver *)

\* An operation of the journal that the driver carries out between effects.
Operation ==
  \/ \E e \in Events, snap \in Snapshots : Handle(e, snap)
  \/ ExpireApprovals
  \/ ResumePendingSteers
  \/ AutomaticApprovals
  \/ \E room \in Rooms, snap \in Snapshots : ReconcileRoom(room, snap)
  \/ \E r \in RunIds : ExplicitMessage(r)

\* The driver carries out one operation; its effects are what is to do next.
Operates ==
  /\ pc \notin {"shutdown", "down"} /\ todo = {} /\ Operation /\ todo' = effects'
  /\ UNCHANGED <<channelVars, workerVars, boundVars>>

\* The driver goes on without an operation.
Proceeds ==
  /\ pc \notin {"shutdown", "down"} /\ todo = {}
  /\ UNCHANGED <<vars, todo, channelVars, workerVars, boundVars>>

Starts(x) == ApplyStart(x) /\ todo' = todo \ {x} /\ UNCHANGED <<pc, event, snapshot, boundVars>>
Cancels(x) == ApplyCancel(x) /\ todo' = todo \ {x} /\ UNCHANGED <<pc, event, snapshot, boundVars>>
Tells(x) == ApplyControl(x) /\ todo' = todo \ {x} /\ UNCHANGED <<pc, event, snapshot, boundVars>>

\* The driver's place changes as its types and its bookkeeping demand.
PlaceOK == pc' \notin {"shutdown", "down"} /\ DriverOK' /\ UNCHANGED boundVars
           /\ pc' \in {"idle", "drain", "resume", "handle", "tick_resume", "settle", "tick_automatic"}
           /\ event' \in Events \cup {None} /\ snapshot' \in Snapshots \cup {None}

\* What an operation returns is all of one kind.
LEMMA EffectsOfOneKind ==
  ASSUME Operation
  PROVE  \A x, y \in effects' : x.type = y.type
<1> DEFINE Same == \A x, y \in effects' : x.type = y.type
<1>1. ASSUME NEW e \in Events, NEW snap \in Snapshots, HandleMessage(e, snap)
      PROVE  Same
  BY <1>1 DEF HandleMessage, HandleBlank, HandleFollowUp, HandleAtLimit, HandleRequest
<1>2. ASSUME NEW e \in Events, NEW snap \in Snapshots, CommandStop(e, snap)
      PROVE  Same
  BY <1>2 DEF CommandStop, Cancel
<1>3. ASSUME NEW e \in Events, NEW snap \in Snapshots, HandleCommand(e, snap), ~CommandStop(e, snap)
      PROVE  Same
  BY <1>3 DEF HandleCommand, CommandInform, CommandPermissions, CommandApprove
<1>4. ASSUME ExpireApprovals
      PROVE  Same
  BY <1>4 DEF ExpireApprovals, Decide
<1>5. ASSUME ResumePendingSteers
      PROVE  Same
  BY <1>5 DEF ResumePendingSteers, Start
<1>6. ASSUME AutomaticApprovals
      PROVE  Same
  BY <1>6 DEF AutomaticApprovals, Decide
<1>7. ASSUME NEW room \in Rooms, NEW snap \in Snapshots, ReconcileRoom(room, snap)
      PROVE  Same
  BY <1>7 DEF ReconcileRoom, Cancel
<1>8. ASSUME NEW r \in RunIds, ExplicitMessage(r)
      PROVE  Same
  BY <1>8 DEF ExplicitMessage
<1> QED BY <1>1, <1>2, <1>3, <1>4, <1>5, <1>6, <1>7, <1>8 DEF Operation, Handle

\* A step of the driver that is no operation's, or of a worker.
Other ==
  \/ TimePasses
  \/ \E x \in todo : Starts(x) \/ Cancels(x) \/ Tells(x)
  \/ ApplyFails
  \/ Receive
  \/ Shutdown
  \/ Exit
  \/ Crash
  \/ \E p \in Policies : Restart(p)
  \/ WorkerNext

\* Every step of Runner is an operation of the journal, or moves the driver's
\* place only, or is one of the other steps.
LEMMA RunnerKinds ==
  ASSUME Typed, RunnerNext
  PROVE  \/ Operates /\ PlaceOK
         \/ Proceeds /\ PlaceOK
         \/ Other
<1> USE DEF At, Return
<1>1. ASSUME NEW e \in Events, NEW snap \in Snapshots, BeginIngest(e, snap)
      PROVE  Proceeds /\ PlaceOK
  BY <1>1 DEF BeginIngest, Proceeds, PlaceOK, DriverOK, Typed, boundVars
<1>2. ASSUME IngestReconcile
      PROVE  Operates /\ PlaceOK
  <2>1. event \in Events /\ snapshot \in Snapshots /\ RoomOf[ConvOf[event]] \in Rooms
    BY <1>2, ConversationAssumption DEF IngestReconcile, Typed, DriverOK
  <2>2. Operation
    BY <1>2, <2>1 DEF IngestReconcile, Operation
  <2> QED BY <1>2, <2>1, <2>2, EffectsOfOneKind DEF IngestReconcile, Operates, PlaceOK, DriverOK, boundVars
<1>3. ASSUME IngestResume
      PROVE  Operates /\ PlaceOK
  <2>1. Operation /\ event \in Events /\ snapshot \in Snapshots
    BY <1>3 DEF IngestResume, Operation, Typed, DriverOK
  <2> QED BY <1>3, <2>1, EffectsOfOneKind DEF IngestResume, Operates, PlaceOK, DriverOK, boundVars
<1>4. ASSUME IngestHandle
      PROVE  (Operates \/ Proceeds) /\ PlaceOK
  <2>1. event \in Events /\ snapshot \in Snapshots
    BY <1>4 DEF IngestHandle, Typed, DriverOK
  <2>2. CASE Handle(event, snapshot) /\ todo' = effects'
    <3>1. Operation
      BY <2>1, <2>2 DEF Operation
    <3> QED BY <1>4, <2>2, <3>1, EffectsOfOneKind DEF IngestHandle, Operates, PlaceOK, DriverOK, boundVars
  <2>3. CASE UNCHANGED <<vars, todo>>
    BY <1>4, <2>3 DEF IngestHandle, Proceeds, PlaceOK, DriverOK, Typed, boundVars
  <2> QED BY <1>4, <2>2, <2>3 DEF IngestHandle, Handle
<1>5. ASSUME TickExpire \/ TickOn
      PROVE  Operates /\ PlaceOK
  <2>1. Operation
    BY <1>5 DEF TickExpire, TickOn, TickResume, TickAutomatic, Operation
  <2> QED BY <1>5, <2>1, EffectsOfOneKind
          DEF TickExpire, TickOn, TickResume, TickAutomatic, Operates, PlaceOK, DriverOK, Typed, RunnerTypeOK, boundVars
<1>6. ASSUME NEW room \in Rooms, NEW snap \in Snapshots, Reconcile(room, snap)
      PROVE  Operates /\ PlaceOK
  <2>1. Operation
    BY <1>6 DEF Reconcile, Operation
  <2> QED BY <1>6, <2>1, EffectsOfOneKind DEF Reconcile, Operates, PlaceOK, DriverOK, Typed, RunnerTypeOK, boundVars
<1>7. ASSUME NEW r \in RunIds, PollMessage(r)
      PROVE  Operates /\ PlaceOK
  <2>1. Operation /\ effects' = {}
    BY <1>7 DEF PollMessage, Operation, ExplicitMessage
  <2> QED BY <1>7, <2>1 DEF PollMessage, driverVars, Operates, PlaceOK, DriverOK, Typed, RunnerTypeOK, boundVars
<1>8. ASSUME Apply
      PROVE  Other
  BY <1>8 DEF Apply, Other, Starts, Cancels, Tells
<1> QED
  BY <1>1, <1>2, <1>3, <1>4, <1>5, <1>6, <1>7, <1>8 DEF RunnerNext, Ingest, Other

\* Every step of Runner is a step of the journal or leaves it alone.
LEMMA JournalStep ==
  ASSUME Typed, [RunnerNext]_runnerVars
  PROVE  [Next]_vars
<1>1. ASSUME Operates
      PROVE  [Next]_vars
  BY <1>1 DEF Operates, Operation, Next
<1>2. ASSUME NEW x \in todo, Starts(x)
      PROVE  [Next]_vars
  <2>1. x.run \in RunIds
    BY EffectFields DEF Typed, RunnerTypeOK
  <2> QED BY <1>2, <2>1 DEF Starts, ApplyStart, Next
<1>3. ASSUME NEW x \in todo, Cancels(x)
      PROVE  [Next]_vars
  <2>1. x.run \in RunIds
    BY EffectFields DEF Typed, RunnerTypeOK
  <2> QED BY <1>3, <2>1 DEF Cancels, ApplyCancel, Next, AgentEvent, Terminal
<1>4. ASSUME Receive
      PROVE  [Next]_vars
  <2> DEFINE u == Head(updates)
  <2>1. u \in Published
    BY <1>4, Tailed DEF Receive, Typed
  <2>2. CASE Hear(u)
    BY <2>1, <2>2, UpdateFields DEF Hear, Next, AgentEvent
  <2> QED BY <1>4, <2>2 DEF Receive
<1>5. ASSUME Exit
      PROVE  [Next]_vars
  BY <1>5 DEF Exit, Next, Typed, JournalOK, TypeOK
<1>6. ASSUME Other, ~Receive, ~Exit, ~ApplyFails, \A x \in todo : ~Starts(x) /\ ~Cancels(x)
      PROVE  [Next]_vars
  BY <1>6 DEF Other, TimePasses, Tells, ApplyControl, Shutdown, Crash, Restart, WorkerNext, Next
<1>7. CASE UNCHANGED runnerVars
  BY <1>7 DEF runnerVars
<1>8. ASSUME ApplyFails
      PROVE  [Next]_vars
  BY <1>8, EffectFields DEF ApplyFails, Next, Typed, RunnerTypeOK
<1> QED
  BY <1>1, <1>2, <1>3, <1>4, <1>5, <1>6, <1>7, <1>8, RunnerKinds DEF Proceeds, Other

\* The variables of the channels and of the workers have their types.
ChannelsTyped ==
  /\ updates \in Seq(Published) /\ Len(updates) <= UpdatesCap
  /\ open \subseteq RunIds
  /\ controls \in [RunIds -> Seq(Effects)]
  /\ \A r \in RunIds : Len(controls[r]) <= ControlCap
  /\ worker \in [RunIds -> Phases]
  /\ outcome \in [RunIds -> Terminal \cup {None}]
  /\ taken \in [RunIds -> Seq(Events)]
  /\ asker \in [Requests -> RunIds \cup {None}]
  /\ got \in [Events -> SUBSET RunIds]

\* Publishing keeps the channel of updates within its type and capacity.
LEMMA PublishTyped ==
  ASSUME ChannelsTyped, NEW t, NEW r, NEW x, Publish(t, r, x), Update(t, r, x) \in Published
  PROVE  updates' \in Seq(Published) /\ Len(updates') <= UpdatesCap
<1>1. updates' = Append(updates, Update(t, r, x)) /\ Len(updates) < UpdatesCap
  BY DEF Publish, Room
<1>2. Len(updates') = Len(updates) + 1 /\ Len(updates) \in Nat /\ updates' \in Seq(Published)
  BY <1>1, Appended DEF ChannelsTyped
<1> QED BY <1>1, <1>2, RunnerAssumption

\* Sending keeps the control channels within their type and capacity.
LEMMA SendTyped ==
  ASSUME ChannelsTyped, NEW x \in Effects, Send(x.run, x)
  PROVE  controls' \in [RunIds -> Seq(Effects)] /\ \A r \in RunIds : Len(controls'[r]) <= ControlCap
<1>1. CASE worker[x.run] = "gone"
  BY <1>1 DEF Send, ChannelsTyped
<1>2. CASE worker[x.run] # "gone"
  <2>1. Len(controls[x.run]) < ControlCap /\ controls' = [controls EXCEPT ![x.run] = Append(@, x)]
    BY <1>2 DEF Send
  <2>2. x.run \in RunIds /\ controls[x.run] \in Seq(Effects)
    BY EffectFields DEF ChannelsTyped
  <2>3. Append(controls[x.run], x) \in Seq(Effects) /\ Len(Append(controls[x.run], x)) = Len(controls[x.run]) + 1
        /\ Len(controls[x.run]) \in Nat
    BY <2>2, Appended
  <2>4. Len(Append(controls[x.run], x)) <= ControlCap
    BY <2>1, <2>3, RunnerAssumption
  <2>5. \A r \in RunIds : controls'[r] = IF r = x.run THEN Append(controls[x.run], x) ELSE controls[r]
    BY <2>1, <2>2 DEF ChannelsTyped
  <2>6. controls' \in [RunIds -> Seq(Effects)]
    BY <2>1, <2>3 DEF ChannelsTyped
  <2> QED BY <2>4, <2>5, <2>6 DEF ChannelsTyped
<1> QED BY <1>1, <1>2

\* A step of a worker keeps the types, and an ending worker has its status.
LEMMA WorkerTyped ==
  ASSUME Typed, ChannelsTyped, WorkerNext
  PROVE  ChannelsTyped' /\ \A r \in RunIds : worker'[r] = "ending" => outcome'[r] \in Terminal
<1> USE DEF ChannelsTyped, Phases, workerVars, channelVars
<1> DEFINE Ends == \A r \in RunIds : worker'[r] = "ending" => outcome'[r] \in Terminal
<1>0. \A r \in RunIds : worker[r] = "ending" => outcome[r] \in Terminal
  BY DEF Typed, WorkersOK
<1>1. ASSUME NEW r \in RunIds, Ready(r)
      PROVE  ChannelsTyped' /\ Ends
  <2>1. PICK s \in IF session[owner[r]] = None THEN Sessions ELSE {session[owner[r]]} : Publish("ready", r, s)
    BY <1>1 DEF Ready
  <2>2. owner[r] \in Conversations
    BY <1>1 DEF Ready, Typed, WorkersOK, JournalOK, ForeignKeys
  <2>3. s \in Sessions
    BY <2>1, <2>2 DEF Typed, JournalOK, TypeOK
  <2>4. Update("ready", r, s) \in Published
    BY <2>3 DEF Update, Published
  <2>5. updates' \in Seq(Published) /\ Len(updates') <= UpdatesCap
    BY <2>1, <2>4, PublishTyped
  <2>6. got' \in [Events -> SUBSET RunIds] /\ worker' \in [RunIds -> Phases]
    BY <1>1 DEF Ready
  <2> QED BY <1>0, <1>1, <2>5, <2>6 DEF Ready
<1>2. ASSUME NEW r \in RunIds, Say(r)
      PROVE  ChannelsTyped' /\ Ends
  <2>1. PICK t \in {"text", "tool"} : Publish(t, r, None)
    BY <1>2 DEF Say
  <2>2. Update(t, r, None) \in Published
    BY DEF Update, Published
  <2> QED BY <1>0, <1>2, <2>1, <2>2, PublishTyped DEF Say
<1>3. ASSUME NEW r \in RunIds, NEW q \in Requests, Ask(r, q)
      PROVE  ChannelsTyped' /\ Ends
  <2>1. Update("permission", r, q) \in Published
    BY DEF Update, Published
  <2>2. updates' \in Seq(Published) /\ Len(updates') <= UpdatesCap
    BY <1>3, <2>1, PublishTyped DEF Ask
  <2> QED BY <1>0, <1>3, <2>2 DEF Ask
<1>4. ASSUME NEW q \in Requests, AskTimeout(q)
      PROVE  ChannelsTyped' /\ Ends
  BY <1>0, <1>4 DEF AskTimeout
<1>5. ASSUME NEW r \in RunIds, Take(r)
      PROVE  ChannelsTyped' /\ Ends
  <2> DEFINE x == Head(controls[r])
  <2>1. x \in Effects /\ Tail(controls[r]) \in Seq(Effects) /\ Len(Tail(controls[r])) <= Len(controls[r])
    BY <1>5, Tailed DEF Take
  <2>2. /\ x.type = "steer" => x.event \in Events
        /\ x.type = "decide" => x.request \in Requests
    BY <2>1, EffectFields
  <2> HIDE DEF x
  <2>3. controls' = [controls EXCEPT ![r] = Tail(@)] /\ UNCHANGED <<updates, open, outcome>>
    BY <1>5 DEF Take
  <2>4. controls' \in [RunIds -> Seq(Effects)] /\ \A p \in RunIds : controls'[p] = IF p = r THEN Tail(controls[r]) ELSE controls[p]
    BY <2>1, <2>3
  <2>5. \A p \in RunIds : Len(controls'[p]) <= ControlCap
    <3>1. Len(Tail(controls[r])) \in Nat /\ Len(controls[r]) \in Nat
      BY <2>1
    <3> QED BY <2>1, <2>4, <3>1, RunnerAssumption
  <2>6. /\ worker' = IF x.type = "cancel" THEN [worker EXCEPT ![r] = "stopping"] ELSE worker
        /\ asker' = CASE x.type = "decide" -> [asker EXCEPT ![x.request] = None]
                      [] x.type = "cancel" -> Unasked(r)
                      [] OTHER -> asker
    BY <1>5 DEF Take, x
  <2>7. asker' \in [Requests -> RunIds \cup {None}] /\ worker' \in [RunIds -> Phases] /\ Ends
    BY <1>0, <2>2, <2>3, <2>6 DEF Unasked
  <2>8. /\ taken' \in [RunIds -> Seq(Events)]
        /\ got' \in [Events -> SUBSET RunIds]
    <3>1. taken' = [taken EXCEPT ![r] = IF x.type = "steer" /\ worker[r] = "turn" THEN Append(@, x.event)
                                        ELSE IF x.type = "cancel" /\ AfterTurn THEN <<>> ELSE @]
      BY <1>5 DEF Take, x
    <3>2. got' = IF x.type = "steer" /\ worker[r] = "turn" /\ ~AfterTurn THEN [got EXCEPT ![x.event] = @ \cup {r}] ELSE got
      BY <1>5 DEF Take, x
    <3>3. \A e \in Events : got[e] \cup {r} \in SUBSET RunIds
      OBVIOUS
    <3> QED BY <2>2, <3>1, <3>2, <3>3
  <2> QED BY <2>3, <2>4, <2>5, <2>7, <2>8
<1>6. ASSUME NEW r \in RunIds, NEW s \in {"completed", "failed", "cancelled"}, Respond(r, s)
      PROVE  ChannelsTyped' /\ Ends
  <2>1. /\ worker' \in [RunIds -> Phases] /\ UNCHANGED <<updates, open, controls, asker>>
        /\ worker' = [worker EXCEPT ![r] = "continuing"] \/ worker' = [worker EXCEPT ![r] = "ending"]
    BY <1>6 DEF Respond
  <2>2. taken' \in [RunIds -> Seq(Events)]
    <3>1. taken' = taken \/ taken' = [taken EXCEPT ![r] = IF AfterTurn THEN <<>> ELSE @]
      BY <1>6 DEF Respond
    <3>2. <<>> \in Seq(Events)
      OBVIOUS
    <3> QED BY <3>1, <3>2
  <2>3. got' \in [Events -> SUBSET RunIds]
    <3>1. got' = got \/ got' = [e \in Events |-> IF e \in ToSet(taken[r]) THEN got[e] \cup {r} ELSE got[e]]
      BY <1>6 DEF Respond
    <3>2. \A e \in Events : got[e] \cup {r} \in SUBSET RunIds
      OBVIOUS
    <3> QED BY <3>1, <3>2
  <2>4. outcome' \in [RunIds -> Terminal \cup {None}] /\ Ends
    <3>1. Outcome(r, s) \in Terminal
      BY DEF Outcome, Terminal
    <3>2. \/ outcome' = outcome /\ worker' = [worker EXCEPT ![r] = "continuing"]
          \/ outcome' = [outcome EXCEPT ![r] = Outcome(r, s)] /\ worker' = [worker EXCEPT ![r] = "ending"]
      BY <1>6 DEF Respond
    <3> QED BY <1>0, <3>1, <3>2
  <2> QED BY <2>1, <2>2, <2>3, <2>4
<1>7. ASSUME NEW r \in RunIds, NEW s \in {"failed", "interrupted"}, GiveUp(r, s)
      PROVE  ChannelsTyped' /\ Ends
  BY <1>0, <1>7 DEF GiveUp, Terminal
<1>8. ASSUME NEW r \in RunIds, Report(r)
      PROVE  ChannelsTyped' /\ Ends
  <2>1. Head(taken[r]) \in Events /\ Tail(taken[r]) \in Seq(Events)
    BY <1>8, Tailed DEF Report
  <2>2. Update("steered", r, Head(taken[r])) \in Published
    BY <2>1 DEF Update, Published
  <2>3. updates' \in Seq(Published) /\ Len(updates') <= UpdatesCap
    BY <1>8, <2>2, PublishTyped DEF Report
  <2> QED BY <1>0, <1>8, <2>1, <2>3 DEF Report
<1>9. ASSUME NEW r \in RunIds, Continue(r)
      PROVE  ChannelsTyped' /\ Ends
  BY <1>0, <1>9 DEF Continue
<1>10. ASSUME NEW r \in RunIds, Finish(r)
      PROVE  ChannelsTyped' /\ Ends
  <2>1. Update("finished", r, outcome[r]) \in Published
    BY <1>0, <1>10 DEF Finish, Update, Published
  <2>2. updates' \in Seq(Published) /\ Len(updates') <= UpdatesCap
    BY <1>10, <2>1, PublishTyped DEF Finish
  <2>3. controls' \in [RunIds -> Seq(Effects)] /\ \A p \in RunIds : Len(controls'[p]) <= ControlCap
    BY <1>10, RunnerAssumption DEF Finish
  <2>4. asker' \in [Requests -> RunIds \cup {None}] /\ worker' \in [RunIds -> Phases] /\ outcome' \in [RunIds -> Terminal \cup {None}] /\ Ends
    BY <1>0, <1>10 DEF Finish, Unasked
  <2> QED BY <1>10, <2>2, <2>3, <2>4 DEF Finish
<1> QED
  BY <1>1, <1>2, <1>3, <1>4, <1>5, <1>6, <1>7, <1>8, <1>9, <1>10 DEF WorkerNext, WorkerStep

\* The driver's place, its effects and the workload have their types.
PlaceTyped ==
  /\ pc \in {"idle", "drain", "resume", "handle", "tick_resume", "settle", "tick_automatic", "shutdown", "down"}
  /\ event \in Events \cup {None}
  /\ snapshot \in Snapshots \cup {None}
  /\ todo \subseteq Effects
  /\ workload \in Workloads /\ restarts \in 0..workload.restarts
  /\ stranded \subseteq RunIds

\* Every update is about a run.
LEMMA UpdatesHaveRuns ==
  ASSUME NEW s \in Seq(Published)
  PROVE  \A i \in DOMAIN s : s[i] \in Published /\ s[i].run \in RunIds
<1>1. \A i \in DOMAIN s : s[i] \in Published
  OBVIOUS
<1> QED BY <1>1, UpdateFields

\* The types and the bookkeeping of the driver are inductive.
LEMMA NextTyped ==
  ASSUME Typed, [RunnerNext]_runnerVars
  PROVE  Typed'
<1>1. JournalOK' /\ effects' \subseteq Effects
  <2>1. JournalOK'
    BY JournalStep, NextJournal DEF Typed
  <2> QED BY <2>1 DEF JournalOK, TypeOK
<1>2. \A r \in RunIds : status[r] \notin {"none", "queued"} => status'[r] \notin {"none", "queued"}
  <2>1. RunsStep
    BY JournalStep, NextRunsStep DEF Typed
  <2>2. status \in [RunIds -> Active \cup Terminal \cup {"none"}]
    BY DEF Typed, JournalOK, TypeOK
  <2> QED BY <2>1, <2>2 DEF RunsStep, Life!NextStatus, Life!Terminal, Active, Terminal
<1>3. ChannelsTyped /\ PlaceTyped /\ DriverOK /\ WorkersOK
  BY DEF Typed, RunnerTypeOK, ChannelsTyped, PlaceTyped
<1> DEFINE Goal == ChannelsTyped' /\ PlaceTyped' /\ DriverOK' /\ WorkersOK'
<1> USE <1>3
<1>4. ASSUME Operates, PlaceOK
      PROVE  Goal
  BY <1>1, <1>2, <1>4 DEF Operates, PlaceOK, ChannelsTyped, PlaceTyped, WorkersOK, channelVars, workerVars, boundVars
<1>5. ASSUME Proceeds, PlaceOK
      PROVE  Goal
  BY <1>2, <1>5 DEF Proceeds, PlaceOK, ChannelsTyped, PlaceTyped, WorkersOK, channelVars, workerVars, boundVars
<1>6. ASSUME TimePasses \/ UNCHANGED runnerVars
      PROVE  Goal
  BY <1>2, <1>6 DEF TimePasses, runnerVars, ChannelsTyped, PlaceTyped, WorkersOK, DriverOK, driverVars, channelVars, workerVars, boundVars
<1>7. ASSUME NEW x \in todo, Starts(x)
      PROVE  Goal
  <2>1. x.run \in RunIds /\ x.type = "start"
    BY <1>7, EffectFields DEF PlaceTyped, Starts, ApplyStart
  <2>2. worker' = [worker EXCEPT ![x.run] = "handshake"] /\ status' = [status EXCEPT ![x.run] = "running"]
    BY <1>7 DEF Starts, ApplyStart, Started
  <2>3. WorkersOK'
    BY <1>2, <1>7, <2>1, <2>2 DEF WorkersOK, ChannelsTyped, Starts, ApplyStart, Typed, JournalOK, TypeOK
  <2>4. ChannelsTyped'
    BY <1>7, <2>1, <2>2 DEF Starts, ApplyStart, ChannelsTyped, Phases
  <2>5. PlaceTyped' /\ DriverOK'
    BY <1>7 DEF Starts, PlaceTyped, DriverOK, boundVars
  <2> QED BY <2>3, <2>4, <2>5
<1>8. ASSUME NEW x \in todo, Cancels(x) \/ Tells(x)
      PROVE  Goal
  <2>1. x \in Effects
    BY DEF PlaceTyped
  <2>2. UNCHANGED <<updates, open, workerVars, pc, event, snapshot, boundVars>> /\ todo' = todo \ {x}
    BY <1>8 DEF Cancels, Tells, ApplyCancel, ApplyControl
  <2>3. Send(x.run, x) \/ UNCHANGED controls
    BY <1>8 DEF Cancels, Tells, ApplyCancel, ApplyControl
  <2>4. ChannelsTyped'
    BY <2>1, <2>2, <2>3, SendTyped DEF ChannelsTyped, workerVars
  <2>5. PlaceTyped' /\ DriverOK'
    BY <2>2 DEF PlaceTyped, DriverOK, boundVars
  <2>6. WorkersOK'
    BY <1>2, <2>2 DEF WorkersOK, workerVars
  <2> QED BY <2>4, <2>5, <2>6
<1>9. ASSUME ApplyFails
      PROVE  Goal
  <2>1. pc \notin {"shutdown", "down"}
    BY <1>9 DEF ApplyFails, DriverOK
  <2>2. WorkersOK'
    <3>1. \A r \in RunIds : status'[r] = status[r] \/ status'[r] = "running"
      BY <1>9 DEF ApplyFails, Started, vars, runVars, Typed, JournalOK, TypeOK
    <3> QED BY <1>2, <1>9, <3>1 DEF ApplyFails, WorkersOK, workerVars
  <2> QED BY <1>2, <1>9, <2>1, <2>2 DEF ApplyFails, ChannelsTyped, PlaceTyped, DriverOK, channelVars, workerVars
<1>10. ASSUME Receive
       PROVE  Goal
  <2>1. updates' \in Seq(Published) /\ Len(updates') <= UpdatesCap
    <3>1. updates' = Tail(updates) /\ updates # <<>>
      BY <1>10 DEF Receive
    <3>2. Len(Tail(updates)) = Len(updates) - 1 /\ Len(updates) \in Nat \ {0} /\ Tail(updates) \in Seq(Published)
      BY <3>1, Tailed DEF ChannelsTyped
    <3> QED BY <3>1, <3>2, RunnerAssumption DEF ChannelsTyped
  <2>2. open' \subseteq RunIds /\ UNCHANGED <<driverVars, controls, workerVars, boundVars>>
    BY <1>10 DEF Receive, ChannelsTyped
  <2> QED BY <1>2, <2>1, <2>2 DEF ChannelsTyped, PlaceTyped, WorkersOK, DriverOK, driverVars, workerVars, boundVars
<1>11. ASSUME Shutdown
       PROVE  Goal
  <2>1. todo' = {Cancel(r) : r \in open}
    BY <1>11 DEF Shutdown
  <2>2. todo' \subseteq Effects /\ \A x \in todo' : x.type = "cancel"
    BY <2>1 DEF ChannelsTyped, Effects, Cancel
  <2> QED BY <1>2, <1>11, <2>2 DEF Shutdown, ChannelsTyped, PlaceTyped, WorkersOK, DriverOK, channelVars, workerVars, boundVars
<1>12. ASSUME Vanish, pc = "shutdown" \/ restarts < workload.restarts
       PROVE  Goal
  <2>1. ChannelsTyped'
    <3>1. \A r \in RunIds : controls'[r] = <<>>
      BY <1>12 DEF Vanish
    <3>2. controls' \in [RunIds -> Seq(Effects)] /\ \A r \in RunIds : Len(controls'[r]) <= ControlCap
      BY <1>12, <3>1, RunnerAssumption DEF Vanish
    <3>3. updates' \in Seq(Published) /\ Len(updates') <= UpdatesCap
      BY <1>12, RunnerAssumption DEF Vanish
    <3> QED BY <1>12, <3>2, <3>3 DEF Vanish, ChannelsTyped, Phases
  <2>2. PlaceTyped' /\ DriverOK'
    BY <1>12 DEF Vanish, PlaceTyped, DriverOK, boundVars
  <2>3. WorkersOK'
    BY <1>2, <1>12 DEF Vanish, WorkersOK, ChannelsTyped
  <2> QED BY <2>1, <2>2, <2>3
<1>13. ASSUME NEW p \in Policies, Restart(p)
       PROVE  Goal
  <2>1. restarts < workload.restarts /\ workload.restarts \in Nat /\ restarts \in Nat
    BY <1>13, RunnerAssumption DEF Restart, DriverOK, PlaceTyped
  <2>2. restarts' \in 0..workload'.restarts
    BY <1>13, <2>1 DEF Restart
  <2> QED BY <1>2, <1>13, <2>2 DEF Restart, ChannelsTyped, PlaceTyped, WorkersOK, DriverOK, channelVars, workerVars
<1>14. ASSUME WorkerNext
       PROVE  Goal
  <2>1. ChannelsTyped' /\ \A r \in RunIds : worker'[r] = "ending" => outcome'[r] \in Terminal
    BY <1>14, WorkerTyped
  <2>2. UNCHANGED <<vars, driverVars, boundVars>>
    BY <1>14 DEF WorkerNext
  <2>3. status' = status
    BY <2>2 DEF vars, runVars
  <2>4. \A r \in RunIds : worker'[r] # "none" => worker[r] # "none"
    BY <1>14 DEF WorkerNext, WorkerStep, Ready, Say, Ask, AskTimeout, Take, Respond, GiveUp, Report, Continue, Finish,
                 workerVars, ChannelsTyped
  <2>5. PlaceTyped' /\ DriverOK'
    BY <2>2 DEF PlaceTyped, DriverOK, driverVars, boundVars
  <2> QED BY <2>1, <2>3, <2>4, <2>5 DEF WorkersOK
<1>15. Goal
  BY <1>4, <1>5, <1>6, <1>7, <1>8, <1>9, <1>10, <1>11, <1>12, <1>13, <1>14, RunnerKinds DEF Other, Exit, Crash, At, DriverOK
<1>16. (RunnerTypeOK /\ updates \in Seq(Published))'
  BY <1>15, UpdatesHaveRuns DEF RunnerTypeOK, ChannelsTyped, PlaceTyped
<1> QED BY <1>1, <1>15, <1>16 DEF Typed

-----------------------------------------------------------------------------
(* Runs and their workers *)

Works    == {"running", "waiting_approval", "cancelling"}
Prompted == {"turn", "stopping", "continuing", "ending"}
Gone     == {"none", "gone"}

\* Update i of the channel is the last of run r.
LastOf(r, i) == updates[i].type = "finished" /\ updates[i].run = r

\* A run is open from its start until its last update is received: meanwhile the
\* journal has it at work, and it has a worker or its last update is on its way.
OpenOK ==
  /\ \A r \in open : status[r] \in Works /\ worker[r] # "none"
  /\ \A r \in RunIds : worker[r] \notin Gone => r \in open
  /\ \A r \in open : worker[r] = "gone" => \E i \in DOMAIN updates : LastOf(r, i)
  /\ \A i \in DOMAIN updates : updates[i].run \in open
  /\ \A i \in DOMAIN updates, r \in RunIds :
       LastOf(r, i) => worker[r] = "gone" /\ \A j \in DOMAIN updates : updates[j].run = r => j <= i
  /\ pc = "down" => open = {}

\* An active run that is not open is about to be dispatched or to be ended by the
\* driver, or its dispatch failed and nobody has stopped it; no step dispatches
\* such a run later.
Attended ==
  /\ pc \notin {"shutdown", "down"} =>
       \A r \in RunIds : status[r] \in Active =>
         \/ r \in open
         \/ Cancel(r) \in todo
         \/ status[r] = "queued" /\ Start(r) \in todo
         \/ r \in stranded /\ status[r] \in {"queued", "running"}
  /\ \A r \in RunIds : Start(r) \in todo => status[r] = "queued"
  /\ \A r \in stranded : r \notin open /\ status[r] # "none" /\ Start(r) \notin todo

\* How an operation with effects E moves a run from status s to status t: it ends
\* none, sets none to work but to cancel it, and has those it creates started.
Moved(r, s, t, E) ==
  /\ s \in Works => t \in Works
  /\ t \in Works => s \in Works \/ Cancel(r) \in E
  /\ t \in Active =>
       \/ t = s
       \/ s = "waiting_approval" /\ t = "running"
       \/ t = "queued" /\ Start(r) \in E
       \/ Cancel(r) \in E
  /\ Start(r) \in E => s = "none" /\ t = "queued"
  /\ s # "none" => t # "none"

LEMMA OperationRuns ==
  ASSUME JournalOK, Operation
  PROVE  \A r \in RunIds : Moved(r, status[r], status'[r], effects')
<1> DEFINE Moves == \A r \in RunIds : Moved(r, status[r], status'[r], effects')
<1> USE DEF JournalOK, TypeOK, runVars
<1>0. \A r \in RunIds : \A q, o : Start(r) # Decide(q, o)
  <2>1. \A r \in RunIds : Start(r).type = "start"
    BY DEF Start
  <2>2. \A q, o : Decide(q, o).type = "decide"
    BY DEF Decide
  <2> QED BY <2>1, <2>2
<1>1. ASSUME \A r \in RunIds : Start(r) \notin effects',
             \A r \in RunIds : status'[r] = status[r] \/ (status[r] = "waiting_approval" /\ status'[r] = "running")
      PROVE  Moves
  BY <1>1 DEF Moved, Works, Active
<1>2. ASSUME NEW R \in SUBSET ActiveRuns, status' = SetStatus(R, "cancelling"), effects' = {Cancel(r) : r \in R}
      PROVE  Moves
  <2>1. \A r \in RunIds : Start(r) \notin effects' /\ (r \in R => Cancel(r) \in effects')
    BY <1>2 DEF Start, Cancel
  <2>2. \A r \in RunIds : status'[r] = IF r \in R THEN "cancelling" ELSE status[r]
    BY <1>2 DEF SetStatus
  <2> QED BY <2>1, <2>2 DEF Moved, Works, Active, ActiveRuns
<1>3. ASSUME NEW R \in SUBSET RunIds, \A r \in R : status[r] = "none",
             \A r \in RunIds : status'[r] = IF r \in R THEN "queued" ELSE status[r],
             effects' = {Start(r) : r \in R}
      PROVE  Moves
  <2>1. \A r \in RunIds : Start(r) \in effects' <=> r \in R
    BY <1>3 DEF Start
  <2> QED BY <1>3, <2>1 DEF Moved, Works, Active
<1>4. ASSUME NEW e \in Events, NEW snap \in Snapshots, HandleMessage(e, snap)
      PROVE  Moves
  <2>1. ASSUME NEW r \in RunIds, HandleRequest(e, snap, r)
        PROVE  Moves
    <3> DEFINE R == {r}
    <3>1. effects' = {Start(p) : p \in R}
      BY <2>1 DEF HandleRequest
    <3>2. \A p \in RunIds : status'[p] = IF p \in R THEN "queued" ELSE status[p]
      BY <2>1 DEF HandleRequest
    <3>3. R \subseteq RunIds /\ \A p \in R : status[p] = "none"
      BY <2>1 DEF HandleRequest
    <3> HIDE DEF R, Moves
    <3> QED BY <1>3, <3>1, <3>2, <3>3
  <2>2. ASSUME HandleBlank(e, snap) \/ (\E r \in RunIds : HandleFollowUp(e, snap, r)) \/ HandleAtLimit(e, snap)
        PROVE  Moves
    <3>1. status' = status /\ \A p \in RunIds : Start(p) \notin effects'
      BY <2>2 DEF HandleBlank, HandleFollowUp, HandleAtLimit, Start, Steer
    <3> QED BY <1>1, <3>1
  <2> QED BY <1>4, <2>1, <2>2 DEF HandleMessage
<1>5. ASSUME NEW e \in Events, NEW snap \in Snapshots, CommandStop(e, snap)
      PROVE  Moves
  <2> DEFINE R == ActiveRunsOf(ConvOf[e])
  <2>1. R \subseteq ActiveRuns /\ status' = SetStatus(R, "cancelling") /\ effects' = {Cancel(r) : r \in R}
    BY <1>5 DEF CommandStop, ActiveRunsOf
  <2> HIDE DEF R, Moves
  <2> QED BY <1>2, <2>1
<1>6. ASSUME NEW e \in Events, NEW snap \in Snapshots, HandleCommand(e, snap), ~CommandStop(e, snap)
      PROVE  Moves
  <2>1. effects' = {} \/ \E q \in Requests, o \in Options : effects' = {Decide(q, o)}
    BY <1>6 DEF HandleCommand, CommandInform, CommandPermissions, CommandApprove
  <2>2. \A r \in RunIds : Start(r) \notin effects'
    BY <1>0, <2>1
  <2>3. \A r \in RunIds : status'[r] = status[r] \/ (status[r] = "waiting_approval" /\ status'[r] = "running")
    BY <1>6 DEF HandleCommand, CommandInform, CommandPermissions, CommandApprove, Settle
  <2> QED BY <1>1, <2>2, <2>3
<1>7. ASSUME ExpireApprovals \/ AutomaticApprovals
      PROVE  Moves
  <2> DEFINE expired == {q \in late : approval[q] = "open"}
  <2>1. \A r \in RunIds : status'[r] = status[r] \/ (status[r] = "waiting_approval" /\ status'[r] = "running")
    <3>1. CASE ExpireApprovals
      BY <3>1 DEF ExpireApprovals, Settle
    <3>2. CASE AutomaticApprovals
      BY <3>2 DEF AutomaticApprovals, Settle
    <3> QED BY <1>7, <3>1, <3>2
  <2>2. \/ effects' = {Decide(q, None) : q \in expired}
        \/ effects' = {Decide(q, "allow") : q \in AutomaticRequests}
    BY <1>7 DEF ExpireApprovals, AutomaticApprovals
  <2>3. \A r \in RunIds : Start(r) \notin effects'
    <3> HIDE DEF expired
    <3>1. CASE effects' = {Decide(q, None) : q \in expired}
      BY <1>0, <3>1
    <3>2. CASE effects' = {Decide(q, "allow") : q \in AutomaticRequests}
      BY <1>0, <3>2
    <3> QED BY <2>2, <3>1, <3>2
  <2> QED BY <1>1, <2>1, <2>3
<1>8. ASSUME ResumePendingSteers
      PROVE  Moves
  <2>1. PICK started \in SUBSET RunIds : ResumesInto(started)
    BY <1>8, ResumeCreates
  <2>2. \A r \in RunIds : status'[r] = IF r \in started THEN "queued" ELSE status[r]
    BY <2>1 DEF ResumesInto, SetStatus
  <2>3. effects' = {Start(r) : r \in started} /\ \A r \in started : status[r] = "none"
    BY <2>1 DEF ResumesInto
  <2> HIDE DEF Moves
  <2> QED BY <1>3, <2>2, <2>3
<1>9. ASSUME NEW room \in Rooms, NEW snap \in Snapshots, ReconcileRoom(room, snap)
      PROVE  Moves
  <2> DEFINE R == Revoked(room, snap) \cap ActiveRuns
  <2>1. R \subseteq ActiveRuns /\ status' = SetStatus(R, "cancelling") /\ effects' = {Cancel(r) : r \in R}
    BY <1>9 DEF ReconcileRoom
  <2> HIDE DEF R, Moves
  <2> QED BY <1>2, <2>1
<1>10. ASSUME NEW r \in RunIds, ExplicitMessage(r)
       PROVE  Moves
  <2>1. status' = status /\ \A p \in RunIds : Start(p) \notin effects'
    BY <1>10 DEF ExplicitMessage
  <2> QED BY <1>1, <2>1
<1> QED BY <1>4, <1>5, <1>6, <1>7, <1>8, <1>9, <1>10 DEF Operation, Handle

\* What is heard ends the run it is the last update of, and no other.
LEMMA HearRuns ==
  ASSUME Typed, NEW u \in Published, Hear(u)
  PROVE  \A r \in RunIds :
           IF u.type = "finished" /\ r = u.run
           THEN status'[r] = u.about
           ELSE status'[r] = status[r] \/ (r = u.run /\ status[r] \in Works /\ status'[r] \in Works)
BY UpdateFields
   DEF Hear, Works, Typed, JournalOK, TypeOK, runVars, SessionReady, Text, Tool, Permission, Steered, Finished, Hears, SetStatus

\* A new update is the last one in the channel.
LEMMA PublishLast ==
  ASSUME ChannelsTyped, OpenOK, NEW t, NEW r \in open, NEW x, Publish(t, r, x), Update(t, r, x) \in Published,
         UNCHANGED <<open, status, pc>>, worker[r] \notin Gone,
         \A p \in RunIds : p # r => worker'[p] = worker[p],
         worker'[r] # "none",
         worker'[r] = "gone" <=> t = "finished"
  PROVE  OpenOK'
<1> DEFINE n == Len(updates)
<1>1. /\ n \in Nat /\ DOMAIN updates = 1..n /\ DOMAIN updates' = 1..(n + 1)
      /\ \A i \in 1..n : updates'[i] = updates[i]
      /\ updates'[n + 1] = Update(t, r, x)
  BY Appended DEF Publish, ChannelsTyped
<1>2. updates'[n + 1].type = t /\ updates'[n + 1].run = r
  BY <1>1 DEF Update
<1>3. \A i \in 1..n : updates[i].run = r => updates[i].type # "finished"
  BY <1>1 DEF OpenOK, LastOf, ChannelsTyped, Gone
<1> HIDE DEF n
<1>4. \A i \in DOMAIN updates' : updates'[i].run \in open'
  BY <1>1, <1>2 DEF OpenOK
<1>5. \A p \in open' : worker'[p] = "gone" => \E i \in DOMAIN updates' : LastOf(p, i)'
  <2> SUFFICES ASSUME NEW p \in open, worker'[p] = "gone"
               PROVE  \E i \in DOMAIN updates' : LastOf(p, i)'
    OBVIOUS
  <2>1. CASE p = r
    BY <1>1, <1>2, <2>1 DEF LastOf
  <2>2. CASE p # r
    <3>1. worker[p] = "gone"
      BY <2>2 DEF ChannelsTyped
    <3>2. PICK i \in 1..n : LastOf(p, i)
      BY <1>1, <3>1 DEF OpenOK
    <3> QED BY <1>1, <3>2 DEF LastOf
  <2> QED BY <2>1, <2>2
<1>6. \A i \in DOMAIN updates', p \in RunIds :
        LastOf(p, i)' => worker'[p] = "gone" /\ \A j \in DOMAIN updates' : updates'[j].run = p => j <= i
  <2> SUFFICES ASSUME NEW i \in 1..(n + 1), NEW p \in RunIds, LastOf(p, i)'
               PROVE  worker'[p] = "gone" /\ \A j \in 1..(n + 1) : updates'[j].run = p => j <= i
    BY <1>1
  <2>1. CASE i = n + 1
    BY <1>1, <1>2, <2>1 DEF LastOf
  <2>2. CASE i \in 1..n
    <3>1. LastOf(p, i) /\ p # r
      BY <1>1, <1>3, <2>2 DEF LastOf
    <3>2. worker[p] = "gone" /\ \A j \in 1..n : updates[j].run = p => j <= i
      BY <1>1, <2>2, <3>1 DEF OpenOK
    <3> QED BY <1>1, <1>2, <3>1, <3>2
  <2> QED BY <1>1, <2>1, <2>2
<1>7. \A p \in open' : status'[p] \in Works /\ worker'[p] # "none"
  BY DEF OpenOK, ChannelsTyped
<1>8. \A p \in RunIds : worker'[p] \notin Gone => p \in open'
  BY DEF OpenOK
<1>9. pc' = "down" => open' = {}
  BY DEF OpenOK
<1> QED BY <1>4, <1>5, <1>6, <1>7, <1>8, <1>9 DEF OpenOK

\* A step that leaves the updates and the open runs alone, and whose workers live on.
LEMMA OpenStays ==
  ASSUME ChannelsTyped, OpenOK, UNCHANGED <<updates, open>>,
         \A p \in open : status'[p] \in Works,
         \A p \in RunIds : worker'[p] = worker[p] \/ (worker[p] \notin Gone /\ worker'[p] \notin Gone),
         pc' = "down" => pc = "down"
  PROVE  OpenOK'
<1>1. \A i \in DOMAIN updates, p \in RunIds : LastOf(p, i)' <=> LastOf(p, i)
  BY DEF LastOf
<1> QED BY <1>1 DEF OpenOK, Gone, ChannelsTyped

\* Runs are opened by their start, closed by the receipt of their last update, and
\* looked after in between.
LEMMA NextOpen ==
  ASSUME Typed, OpenOK, Attended, [RunnerNext]_runnerVars
  PROVE  OpenOK' /\ Attended'
<1>0. ChannelsTyped /\ PlaceTyped /\ DriverOK /\ WorkersOK /\ JournalOK
  BY DEF Typed, RunnerTypeOK, ChannelsTyped, PlaceTyped
<1> DEFINE Goal == OpenOK' /\ Attended'
<1> USE <1>0
<1>1. ASSUME Operates, PlaceOK
      PROVE  Goal
  <2>1. UNCHANGED <<updates, open, worker>> /\ todo' = effects' /\ pc' # "down" /\ pc \notin {"shutdown", "down"} /\ todo = {}
    BY <1>1 DEF Operates, PlaceOK, channelVars, workerVars
  <2>2. \A r \in RunIds : Moved(r, status[r], status'[r], effects')
    BY <1>1, OperationRuns DEF Operates
  <2>3. OpenOK'
    <3>1. \A p \in open : status'[p] \in Works
      BY <2>2 DEF OpenOK, ChannelsTyped, Moved
    <3> QED BY <2>1, <3>1, OpenStays
  <2>4. stranded' = stranded /\ stranded \subseteq RunIds
    BY <1>1 DEF Operates, boundVars, PlaceTyped
  <2> QED BY <2>1, <2>2, <2>3, <2>4 DEF Attended, Moved, Active
<1>2. ASSUME Proceeds, PlaceOK
      PROVE  Goal
  <2>1. UNCHANGED <<updates, open, worker, status, todo, stranded>> /\ pc' # "down" /\ pc \notin {"shutdown", "down"}
    BY <1>2 DEF Proceeds, PlaceOK, channelVars, workerVars, boundVars, vars, runVars
  <2>2. OpenOK'
    BY <2>1, OpenStays DEF OpenOK
  <2> QED BY <2>1, <2>2 DEF Attended
<1>3. ASSUME TimePasses \/ UNCHANGED runnerVars
      PROVE  Goal
  <2>1. UNCHANGED <<updates, open, worker, status, todo, pc, stranded>>
    BY <1>3 DEF TimePasses, Lapse, runnerVars, driverVars, channelVars, workerVars, boundVars, vars, runVars
  <2>2. OpenOK'
    BY <2>1, OpenStays DEF OpenOK
  <2> QED BY <2>1, <2>2 DEF Attended
<1>4. ASSUME NEW x \in todo, Starts(x)
      PROVE  Goal
  <2>1. /\ x.run \in RunIds /\ status[x.run] = "queued" /\ status' = [status EXCEPT ![x.run] = "running"]
        /\ worker' = [worker EXCEPT ![x.run] = "handshake"] /\ open' = open \cup {x.run}
        /\ updates' = updates /\ pc' = pc /\ x = Start(x.run) /\ todo' = todo \ {x} /\ stranded' = stranded
    BY <1>4, EffectFields DEF Starts, ApplyStart, Started, PlaceTyped, boundVars
  <2>2. x.run \notin open /\ worker[x.run] = "none"
    BY <2>1 DEF OpenOK, Works, WorkersOK
  <2>3. \A r \in RunIds : status'[r] = IF r = x.run THEN "running" ELSE status[r]
    BY <2>1 DEF JournalOK, TypeOK
  <2>4. \A r \in RunIds : worker'[r] = IF r = x.run THEN "handshake" ELSE worker[r]
    BY <2>1 DEF ChannelsTyped
  <2>5. \A i \in DOMAIN updates, r \in RunIds : LastOf(r, i)' <=> LastOf(r, i)
    BY <2>1 DEF LastOf
  <2>6. \A i \in DOMAIN updates : updates[i].run \in open
    BY DEF OpenOK
  <2>7. pc # "down"
    BY <1>4 DEF DriverOK
  <2>8. OpenOK'
    <3>1. \A r \in open' : status'[r] \in Works /\ worker'[r] # "none"
      BY <2>1, <2>3, <2>4 DEF OpenOK, Works, ChannelsTyped
    <3>2. \A r \in RunIds : worker'[r] \notin Gone => r \in open'
      BY <2>1, <2>4 DEF OpenOK
    <3>3. \A r \in open' : worker'[r] = "gone" => \E i \in DOMAIN updates' : LastOf(r, i)'
      BY <2>1, <2>4, <2>5 DEF OpenOK, ChannelsTyped
    <3>4. \A i \in DOMAIN updates', r \in RunIds :
            LastOf(r, i)' => worker'[r] = "gone" /\ \A j \in DOMAIN updates' : updates'[j].run = r => j <= i
      BY <2>1, <2>2, <2>4, <2>5 DEF OpenOK
    <3> QED BY <2>1, <2>6, <2>7, <3>1, <3>2, <3>3, <3>4 DEF OpenOK
  <2>9. Attended'
    <3>1. \A r \in RunIds : Cancel(r) # x /\ (r # x.run => Start(r) # x)
      BY <2>1 DEF Cancel, Start
    <3> QED BY <2>1, <2>3, <3>1 DEF Attended, PlaceTyped
  <2> QED BY <2>8, <2>9
<1>5. ASSUME NEW x \in todo, Cancels(x)
      PROVE  Goal
  <2>1. /\ x.run \in RunIds /\ x = Cancel(x.run) /\ UNCHANGED <<updates, open, worker, pc, stranded>> /\ todo' = todo \ {x}
    BY <1>5, EffectFields DEF Cancels, ApplyCancel, PlaceTyped, workerVars, boundVars
  <2>2. \A r \in RunIds : Start(r) # x /\ (r # x.run => Cancel(r) # x)
    BY <2>1 DEF Cancel, Start
  <2>3. CASE x.run \in open
    <3>1. status' = status
      BY <1>5, <2>3 DEF Cancels, ApplyCancel, vars, runVars
    <3>2. OpenOK'
      BY <2>1, <3>1, OpenStays DEF OpenOK
    <3> QED BY <2>1, <2>2, <2>3, <3>1, <3>2 DEF Attended
  <2>4. CASE x.run \notin open
    <3>1. \A r \in RunIds : r # x.run => status'[r] = status[r]
      BY <1>5, <2>4 DEF Cancels, ApplyCancel, Finished, SetStatus, vars, runVars
    <3>2. status'[x.run] \notin Active /\ (status[x.run] # "none" => status'[x.run] # "none")
      BY <1>5, <2>1, <2>4 DEF Cancels, ApplyCancel, Finished, SetStatus, Active, vars, runVars
    <3>3. \A p \in open : status'[p] \in Works
      BY <2>4, <3>1 DEF OpenOK, ChannelsTyped
    <3>4. OpenOK'
      BY <2>1, <3>3, OpenStays
    <3>5. \A r \in RunIds : Start(r) \notin todo
      BY <2>1 DEF DriverOK, Start, Cancel
    <3> QED BY <2>1, <2>2, <3>1, <3>2, <3>4, <3>5 DEF Attended, PlaceTyped
  <2> QED BY <2>3, <2>4
<1>6. ASSUME NEW x \in todo, Tells(x)
      PROVE  Goal
  <2>1. x.type \notin {"cancel", "start"} /\ UNCHANGED <<updates, open, worker, pc, status, stranded>> /\ todo' = todo \ {x}
    BY <1>6 DEF Tells, ApplyControl, workerVars, boundVars, vars, runVars
  <2>2. OpenOK'
    BY <2>1, OpenStays DEF OpenOK
  <2>3. \A r \in RunIds : Cancel(r) # x /\ Start(r) # x
    BY <2>1 DEF Cancel, Start
  <2> QED BY <2>1, <2>2, <2>3 DEF Attended
<1>7. ASSUME ApplyFails
      PROVE  Goal
  <2>1. /\ UNCHANGED <<updates, open, worker>> /\ pc' = "idle" /\ pc \notin {"shutdown", "down"} /\ todo' = {}
        /\ stranded' = stranded \cup {r \in RunIds : Start(r) \in todo}
        /\ \A x \in todo : x.type = "start"
    BY <1>7 DEF ApplyFails, DriverOK, channelVars, workerVars
  <2>2. PICK x \in todo : x.type = "start" /\ (Started(x.run) \/ UNCHANGED vars)
    BY <1>7 DEF ApplyFails
  <2>3. x = Start(x.run) /\ x.run \in RunIds
    BY <2>2, EffectFields DEF PlaceTyped
  <2>4. \A r \in RunIds : \/ status'[r] = status[r]
                          \/ r = x.run /\ status[r] = "queued" /\ status'[r] = "running"
    BY <2>2 DEF Started, vars, runVars, JournalOK, TypeOK
  <2>5. \A p \in open : status'[p] \in Works
    BY <2>4 DEF OpenOK, ChannelsTyped, Works
  <2>6. OpenOK'
    BY <2>1, <2>5, OpenStays
  <2>7. \A r \in RunIds : Cancel(r) \notin todo
    BY <2>1 DEF Cancel
  <2>8. \A r \in RunIds : Start(r) \in todo => status[r] = "queued" /\ r \notin open
    BY DEF Attended, OpenOK, Works
  <2>9. \A r \in stranded' : r \notin open' /\ status'[r] # "none"
    BY <2>1, <2>4, <2>8 DEF Attended, PlaceTyped
  <2>10. ASSUME NEW r \in RunIds, status'[r] \in Active
         PROVE  r \in open' \/ (r \in stranded' /\ status'[r] \in {"queued", "running"})
    BY <2>1, <2>2, <2>3, <2>4, <2>7, <2>10 DEF Attended, Active
  <2> QED BY <2>1, <2>6, <2>9, <2>10 DEF Attended
<1>8. ASSUME Receive
      PROVE  Goal
  <2> DEFINE u == Head(updates)
             n == Len(updates)
  <2>1. /\ u \in Published /\ u = updates[1] /\ n \in Nat \ {0} /\ DOMAIN updates = 1..n
        /\ DOMAIN updates' = 1..(n - 1) /\ \A i \in 1..(n - 1) : updates'[i] = updates[i + 1]
    BY <1>8, Tailed DEF Receive, ChannelsTyped
  <2>2. /\ IF Listens(u) THEN Hear(u) ELSE UNCHANGED vars
        /\ open' = IF u.type = "finished" THEN open \ {u.run} ELSE open
        /\ worker' = worker /\ pc' = pc /\ todo' = todo /\ pc # "down" /\ todo = {} /\ stranded' = stranded
    BY <1>8 DEF Receive, driverVars, workerVars, boundVars
  <2>3. u.run \in RunIds /\ (u.type = "finished" => u.about \in Terminal)
    BY <2>1, UpdateFields
  <2> HIDE DEF u, n
  <2>4. u.run \in open
    BY <2>1 DEF OpenOK
  <2>5. \A r \in RunIds : IF u.type = "finished" /\ r = u.run
                          THEN status'[r] \notin Works
                          ELSE status'[r] = status[r] \/ (r = u.run /\ status[r] \in Works /\ status'[r] \in Works)
    <3>1. CASE Listens(u)
      BY <2>1, <2>2, <2>3, <3>1, HearRuns DEF Works, Terminal
    <3>2. CASE ~Listens(u)
      <4>1. u.type # "finished"
        BY <2>4, <3>2 DEF Listens, OpenOK, Works, Active
      <4> QED BY <2>2, <3>2, <4>1 DEF vars, runVars
    <3> QED BY <3>1, <3>2
  <2>6. \A i \in 1..(n - 1), r \in RunIds : LastOf(r, i)' <=> LastOf(r, i + 1)
    BY <2>1 DEF LastOf
  <2>7. \A i \in 1..(n - 1) : i + 1 \in 1..n
    BY <2>1
  <2>8. u.type = "finished" => \A i \in 1..(n - 1) : updates'[i].run # u.run
    <3> SUFFICES ASSUME u.type = "finished", NEW i \in 1..(n - 1), updates'[i].run = u.run
                 PROVE  FALSE
      OBVIOUS
    <3>1. LastOf(u.run, 1) /\ updates[i + 1].run = u.run /\ 1 \in 1..n
      BY <2>1 DEF LastOf
    <3>2. i + 1 <= 1
      BY <2>1, <2>3, <2>7, <3>1 DEF OpenOK
    <3> QED BY <2>1, <3>2
  <2>9. OpenOK'
    <3>1. \A r \in open' : status'[r] \in Works /\ worker'[r] # "none"
      BY <2>2, <2>5 DEF OpenOK, ChannelsTyped
    <3>2. \A r \in RunIds : worker'[r] \notin Gone => r \in open'
      <4>1. u.type = "finished" => worker[u.run] = "gone"
        BY <2>1, <2>3 DEF OpenOK, LastOf
      <4> QED BY <2>2, <4>1 DEF OpenOK, Gone
    <3>3. \A r \in open' : worker'[r] = "gone" => \E i \in DOMAIN updates' : LastOf(r, i)'
      <4> SUFFICES ASSUME NEW r \in open', worker'[r] = "gone"
                   PROVE  \E i \in 1..(n - 1) : LastOf(r, i)'
        BY <2>1
      <4>1. PICK i \in 1..n : LastOf(r, i)
        BY <2>1, <2>2 DEF OpenOK
      <4>2. i # 1
        BY <2>1, <2>2, <4>1 DEF LastOf
      <4>3. i - 1 \in 1..(n - 1) /\ (i - 1) + 1 = i
        BY <2>1, <4>2
      <4>4. r \in RunIds
        BY <2>2 DEF ChannelsTyped
      <4> QED BY <2>6, <4>1, <4>3, <4>4
    <3>4. \A i \in DOMAIN updates' : updates'[i].run \in open'
      <4>1. \A i \in 1..(n - 1) : updates'[i].run \in open
        BY <2>1, <2>7 DEF OpenOK
      <4> QED BY <2>1, <2>2, <2>8, <4>1
    <3>5. \A i \in DOMAIN updates', r \in RunIds :
            LastOf(r, i)' => worker'[r] = "gone" /\ \A j \in DOMAIN updates' : updates'[j].run = r => j <= i
      <4> SUFFICES ASSUME NEW i \in 1..(n - 1), NEW r \in RunIds, LastOf(r, i)'
                   PROVE  worker'[r] = "gone" /\ \A j \in 1..(n - 1) : updates'[j].run = r => j <= i
        BY <2>1
      <4>1. worker[r] = "gone" /\ \A j \in 1..n : updates[j].run = r => j <= i + 1
        BY <2>1, <2>6, <2>7 DEF OpenOK
      <4> QED BY <2>1, <2>2, <2>7, <4>1
    <3> QED BY <2>2, <3>1, <3>2, <3>3, <3>4, <3>5 DEF OpenOK
  <2>10. Attended'
    <3>1. u.run \notin stranded
      BY <2>4 DEF Attended
    <3>2. \A r \in RunIds : r # u.run => status'[r] = status[r]
      BY <2>5
    <3>3. status[u.run] \in Works
      BY <2>4 DEF OpenOK
    <3>4. u.type = "finished" => status'[u.run] \in Terminal
      <4>1. u.type = "finished" => Hear(u)
        BY <2>2, <3>3 DEF Listens, Works, Active
      <4> QED BY <2>1, <2>3, <4>1, HearRuns
    <3>5. status'[u.run] # "none" /\ (status'[u.run] \in Active => u.type # "finished")
      BY <2>3, <2>5, <3>3, <3>4 DEF Works, Active, Terminal
    <3> QED BY <2>2, <2>3, <2>4, <3>1, <3>2, <3>5 DEF Attended, PlaceTyped
  <2> QED BY <2>9, <2>10
<1>9. ASSUME Shutdown
      PROVE  Goal
  <2>1. /\ UNCHANGED <<updates, open, worker, status, stranded>> /\ pc' = "shutdown"
        /\ \A r \in RunIds : Start(r) \notin todo'
    BY <1>9 DEF Shutdown, Start, Cancel, channelVars, workerVars, boundVars, vars, runVars
  <2> QED BY <2>1, OpenStays DEF OpenOK, Attended, PlaceTyped
<1>10. ASSUME Exit \/ Crash
       PROVE  Goal
  <2>1. /\ updates' = <<>> /\ open' = {} /\ pc' = "down" /\ \A r \in RunIds : worker'[r] \in Gone
        /\ todo' = {} /\ stranded' = stranded
    BY <1>10 DEF Exit, Crash, Vanish, Gone, boundVars
  <2>2. \A r \in RunIds : status[r] # "none" => status'[r] # "none"
    BY <1>10 DEF Exit, Crash, Recover, SetStatus, vars, runVars
  <2> QED BY <2>1, <2>2 DEF OpenOK, Attended, PlaceTyped
<1>11. ASSUME NEW p \in Policies, Restart(p)
       PROVE  Goal
  <2>1. UNCHANGED <<updates, open, worker, todo, stranded>> /\ open = {} /\ pc' = "idle" /\ todo = {}
    BY <1>11 DEF Restart, channelVars, workerVars, OpenOK, DriverOK
  <2>2. \A r \in RunIds : status'[r] \notin Active /\ (status[r] # "none" => status'[r] # "none")
    BY <1>11 DEF Restart, Recover, SetStatus, ActiveRuns, Active
  <2>3. OpenOK'
    BY <2>1, OpenStays
  <2> QED BY <2>1, <2>2, <2>3 DEF Attended, PlaceTyped
<1>12. ASSUME WorkerNext
       PROVE  Goal
  <2>1. UNCHANGED <<status, pc, todo, stranded>> /\ ((\E r \in RunIds : WorkerStep(r)) \/ (\E q \in Requests : AskTimeout(q)))
    BY <1>12 DEF WorkerNext, vars, runVars, driverVars, boundVars
  <2>2. open' = open
    BY <2>1 DEF WorkerStep, Ready, Say, Ask, AskTimeout, Take, Respond, GiveUp, Report, Continue, Finish, channelVars, workerVars
  <2>3. Attended'
    BY <2>1, <2>2 DEF Attended
  <2>4. \A r \in open : status'[r] \in Works
    BY <2>1 DEF OpenOK
  <2>5. ASSUME NEW r \in RunIds, Take(r) \/ (\E s \in {"completed", "failed", "cancelled"} : Respond(r, s))
                                 \/ (\E s \in {"failed", "interrupted"} : GiveUp(r, s)) \/ Continue(r)
        PROVE  OpenOK'
    <3>1. updates' = updates
      BY <2>5 DEF Take, Respond, GiveUp, Continue, channelVars
    <3>2. \A p \in RunIds : worker'[p] = worker[p] \/ (worker[p] \notin Gone /\ worker'[p] \notin Gone)
      BY <2>5 DEF Take, Respond, GiveUp, Continue, Gone, ChannelsTyped
    <3> QED BY <2>1, <2>2, <2>4, <3>1, <3>2, OpenStays
  <2>6. ASSUME NEW q \in Requests, AskTimeout(q)
        PROVE  OpenOK'
    BY <2>1, <2>2, <2>4, <2>6, OpenStays DEF AskTimeout, channelVars
  <2>7. ASSUME NEW r \in RunIds, Ready(r) \/ Say(r) \/ (\E q \in Requests : Ask(r, q)) \/ Report(r)
        PROVE  OpenOK'
    <3>1. r \in open /\ worker[r] \notin Gone
      BY <2>7 DEF Ready, Say, Ask, Report, OpenOK, Gone
    <3>2. \A p \in RunIds : p # r => worker'[p] = worker[p]
      BY <2>7 DEF Ready, Say, Ask, Report, workerVars, ChannelsTyped
    <3>3. worker'[r] \notin Gone
      BY <2>7, <3>1 DEF Ready, Say, Ask, Report, workerVars, ChannelsTyped, Gone
    <3>4. \E x : \E t \in {"ready", "text", "tool", "permission", "steered"} : Publish(t, r, x)
      BY <2>7 DEF Ready, Say, Ask, Report
    <3>0. PICK x : \E t \in {"ready", "text", "tool", "permission", "steered"} : Publish(t, r, x)
      BY <3>4
    <3>5. PICK t \in {"ready", "text", "tool", "permission", "steered"} : Publish(t, r, x)
      BY <3>0
    <3>6. Update(t, r, x) \in Published
      <4>1. updates' = Append(updates, Update(t, r, x)) /\ updates' \in Seq(Published)
        BY <1>12, <3>5, WorkerTyped DEF Publish, ChannelsTyped
      <4> QED BY <4>1, LastAppended DEF ChannelsTyped
    <3> QED BY <2>1, <2>2, <3>1, <3>2, <3>3, <3>5, <3>6, PublishLast DEF Gone
  <2>8. ASSUME NEW r \in RunIds, Finish(r)
        PROVE  OpenOK'
    <3>1. r \in open /\ worker[r] \notin Gone /\ Publish("finished", r, outcome[r]) /\ worker'[r] = "gone"
      BY <2>8 DEF Finish, OpenOK, Gone, ChannelsTyped
    <3>2. \A p \in RunIds : p # r => worker'[p] = worker[p]
      BY <2>8 DEF Finish, ChannelsTyped
    <3>3. Update("finished", r, outcome[r]) \in Published
      BY <2>8 DEF Finish, WorkersOK, Update, Published
    <3> QED BY <2>1, <2>2, <3>1, <3>2, <3>3, PublishLast
  <2>9. OpenOK'
    BY <2>1, <2>5, <2>6, <2>7, <2>8 DEF WorkerStep
  <2> QED BY <2>3, <2>9
<1> QED
  BY <1>1, <1>2, <1>3, <1>4, <1>5, <1>6, <1>7, <1>8, <1>9, <1>10, <1>11, <1>12, RunnerKinds DEF Other

-----------------------------------------------------------------------------
(* What workers hold, and the requests of their agents *)

\* A control channel holds messages to its run, which has a worker; only a worker
\* with a prompt holds follow-ups, and only its agent waits for an answer.
HeldOK ==
  /\ \A r \in RunIds :
       /\ controls[r] # <<>> => worker[r] \notin Gone
       /\ \A i \in DOMAIN controls[r] : controls[r][i].run = r
       /\ taken[r] # <<>> => worker[r] \in Prompted
  /\ \A q \in Requests : asker[q] # None => worker[asker[q]] \in Prompted

\* Sending adds a message to the control channel of its run, or nothing.
LEMMA SendAdds ==
  ASSUME ChannelsTyped, OpenOK, NEW x \in Effects, (Send(x.run, x) /\ x.run \in open) \/ UNCHANGED controls
  PROVE  \/ controls' = controls
         \/ /\ worker[x.run] \notin Gone /\ x.run \in open
            /\ controls' = [controls EXCEPT ![x.run] = Append(@, x)]
BY DEF Send, OpenOK, Gone

\* Only the driver fills the control channels, only workers empty them.
LEMMA NextHeld ==
  ASSUME Typed, OpenOK, HeldOK, [RunnerNext]_runnerVars
  PROVE  HeldOK'
<1>0. ChannelsTyped /\ PlaceTyped /\ DriverOK /\ WorkersOK /\ JournalOK
  BY DEF Typed, RunnerTypeOK, ChannelsTyped, PlaceTyped
<1> USE <1>0
<1>1. ASSUME UNCHANGED <<controls, workerVars>>
      PROVE  HeldOK'
  BY <1>1 DEF HeldOK, workerVars
<1>2. ASSUME NEW x \in todo, Starts(x)
      PROVE  HeldOK'
  <2>1. /\ x.run \in RunIds /\ status[x.run] = "queued"
        /\ worker' = [worker EXCEPT ![x.run] = "handshake"] /\ UNCHANGED <<controls, taken, asker>>
    BY <1>2, EffectFields DEF Starts, ApplyStart, Started, PlaceTyped
  <2>2. worker[x.run] = "none"
    BY <2>1 DEF WorkersOK
  <2> QED BY <2>1, <2>2 DEF HeldOK, ChannelsTyped, Gone, Prompted
<1>3. ASSUME NEW x \in todo, Cancels(x) \/ Tells(x)
      PROVE  HeldOK'
  <2>1. x \in Effects /\ x.run \in RunIds
    BY EffectFields DEF PlaceTyped
  <2>2. UNCHANGED workerVars /\ ((Send(x.run, x) /\ x.run \in open) \/ UNCHANGED controls)
    BY <1>3 DEF Cancels, Tells, ApplyCancel, ApplyControl
  <2>3. CASE controls' = controls
    BY <2>2, <2>3 DEF HeldOK, workerVars
  <2>4. CASE worker[x.run] \notin Gone /\ controls' = [controls EXCEPT ![x.run] = Append(@, x)]
    <3>1. \A r \in RunIds : controls'[r] = IF r = x.run THEN Append(controls[x.run], x) ELSE controls[r]
      BY <2>4 DEF ChannelsTyped
    <3>2. /\ DOMAIN Append(controls[x.run], x) = 1..(Len(controls[x.run]) + 1)
          /\ \A i \in 1..Len(controls[x.run]) : Append(controls[x.run], x)[i] = controls[x.run][i]
          /\ Append(controls[x.run], x)[Len(controls[x.run]) + 1] = x
          /\ DOMAIN controls[x.run] = 1..Len(controls[x.run]) /\ Len(controls[x.run]) \in Nat
      BY <2>1, Appended DEF ChannelsTyped
    <3>3. \A i \in DOMAIN Append(controls[x.run], x) : Append(controls[x.run], x)[i].run = x.run
      BY <2>1, <3>2 DEF HeldOK
    <3> QED BY <2>2, <2>4, <3>1, <3>3 DEF HeldOK, workerVars
  <2> QED BY <2>1, <2>2, <2>3, <2>4, SendAdds
<1>4. ASSUME Vanish
      PROVE  HeldOK'
  BY <1>4 DEF Vanish, HeldOK
<1>5. ASSUME NEW r \in RunIds, Take(r)
      PROVE  HeldOK'
  <2> DEFINE x == Head(controls[r])
  <2>1. /\ x \in Effects /\ DOMAIN Tail(controls[r]) = 1..(Len(controls[r]) - 1) /\ Len(controls[r]) \in Nat \ {0}
        /\ DOMAIN controls[r] = 1..Len(controls[r])
        /\ \A i \in 1..(Len(controls[r]) - 1) : Tail(controls[r])[i] = controls[r][i + 1]
    BY <1>5, Tailed DEF Take, ChannelsTyped
  <2>2. /\ worker[r] \in {"turn", "stopping"} /\ controls' = [controls EXCEPT ![r] = Tail(@)]
        /\ worker' = IF x.type = "cancel" THEN [worker EXCEPT ![r] = "stopping"] ELSE worker
        /\ asker' = CASE x.type = "decide" -> [asker EXCEPT ![x.request] = None]
                      [] x.type = "cancel" -> Unasked(r)
                      [] OTHER -> asker
    BY <1>5 DEF Take
  <2>3. \A p \in RunIds : p # r => taken'[p] = taken[p]
    BY <1>5 DEF Take, ChannelsTyped
  <2>4. x.type = "decide" => x.request \in Requests
    BY <2>1, EffectFields
  <2> HIDE DEF x
  <2>5. \A p \in RunIds : p # r => worker'[p] = worker[p] /\ controls'[p] = controls[p]
    BY <2>2 DEF ChannelsTyped
  <2>6. worker'[r] \in {"turn", "stopping"} /\ controls'[r] = Tail(controls[r])
    BY <2>2 DEF ChannelsTyped
  <2>7. \A i \in 1..(Len(controls[r]) - 1) : controls[r][i + 1].run = r
    BY <2>1 DEF HeldOK
  <2>8. \A q \in Requests : asker'[q] # None => asker'[q] = asker[q]
    BY <2>2, <2>4 DEF Unasked, ChannelsTyped
  <2>9. \A q \in Requests : asker'[q] # None => worker'[asker'[q]] \in Prompted
    <3> SUFFICES ASSUME NEW q \in Requests, asker'[q] # None
                 PROVE  worker'[asker'[q]] \in Prompted
      OBVIOUS
    <3>1. asker'[q] = asker[q] /\ asker[q] \in RunIds /\ worker[asker[q]] \in Prompted
      BY <2>8 DEF HeldOK, ChannelsTyped
    <3>2. CASE asker[q] = r
      BY <2>6, <3>1, <3>2 DEF Prompted
    <3>3. CASE asker[q] # r
      BY <2>5, <3>1, <3>3
    <3> QED BY <3>2, <3>3
  <2>10. \A i \in DOMAIN controls'[r] : controls'[r][i].run = r
    BY <2>1, <2>6, <2>7
  <2>11. worker'[r] \notin Gone /\ worker'[r] \in Prompted
    BY <2>6 DEF Gone, Prompted
  <2>12. ASSUME NEW p \in RunIds
         PROVE  /\ controls'[p] # <<>> => worker'[p] \notin Gone
                /\ \A i \in DOMAIN controls'[p] : controls'[p][i].run = p
                /\ taken'[p] # <<>> => worker'[p] \in Prompted
    <3>1. CASE p = r
      BY <2>10, <2>11, <3>1
    <3>2. CASE p # r
      BY <2>3, <2>5, <3>2 DEF HeldOK
    <3> QED BY <3>1, <3>2
  <2> QED BY <2>9, <2>12 DEF HeldOK
<1>6. ASSUME NEW r \in RunIds, Ready(r) \/ Say(r) \/ (\E q \in Requests : Ask(r, q)) \/ Continue(r) \/ Report(r)
      PROVE  HeldOK'
  <2>1. controls' = controls /\ worker[r] \notin Gone /\ worker'[r] \in Prompted
    BY <1>6 DEF Ready, Say, Ask, Report, Continue, channelVars, workerVars, ChannelsTyped, Prompted, Gone
  <2>2. \A p \in RunIds : p # r => worker'[p] = worker[p]
    BY <1>6 DEF Ready, Say, Ask, Report, Continue, channelVars, workerVars, ChannelsTyped
  <2>3. \A p \in RunIds : taken'[p] = taken[p] \/ taken[p] # <<>>
    BY <1>6 DEF Ready, Say, Ask, Report, Continue, channelVars, workerVars, ChannelsTyped
  <2>4. \A q \in Requests : asker'[q] = asker[q] \/ asker'[q] = r
    BY <1>6 DEF Ready, Say, Ask, Report, Continue, channelVars, workerVars, ChannelsTyped
  <2>5. \A q \in Requests : asker'[q] # None => worker'[asker'[q]] \in Prompted
    BY <2>1, <2>2, <2>4 DEF HeldOK, ChannelsTyped
  <2> QED BY <2>1, <2>2, <2>3, <2>5 DEF HeldOK, Gone, Prompted
<1>7. ASSUME NEW q \in Requests, AskTimeout(q)
      PROVE  HeldOK'
  BY <1>7 DEF AskTimeout, channelVars, HeldOK, ChannelsTyped
<1>8. ASSUME NEW r \in RunIds, (\E s \in {"completed", "failed", "cancelled"} : Respond(r, s))
                               \/ (\E s \in {"failed", "interrupted"} : GiveUp(r, s))
      PROVE  HeldOK'
  <2>1. controls' = controls /\ asker' = asker /\ worker[r] \notin Gone /\ worker'[r] \in {"continuing", "ending"}
    BY <1>8 DEF Respond, GiveUp, channelVars, Gone, ChannelsTyped
  <2>2. \A p \in RunIds : p # r => worker'[p] = worker[p] /\ taken'[p] = taken[p]
    BY <1>8 DEF Respond, GiveUp, channelVars, ChannelsTyped
  <2>3. \A q \in Requests : asker[q] # None => worker'[asker[q]] \in Prompted
    BY <2>1, <2>2 DEF HeldOK, Prompted, ChannelsTyped
  <2> QED BY <2>1, <2>2, <2>3 DEF HeldOK, Gone, Prompted
<1>9. ASSUME NEW r \in RunIds, Finish(r)
      PROVE  HeldOK'
  <2>1. /\ worker' = [worker EXCEPT ![r] = "gone"] /\ controls' = [controls EXCEPT ![r] = <<>>]
        /\ taken' = taken /\ taken[r] = <<>> /\ asker' = Unasked(r)
    BY <1>9 DEF Finish
  <2>2. \A q \in Requests : asker'[q] # None => asker'[q] = asker[q] /\ asker'[q] # r
    BY <2>1 DEF Unasked
  <2>3. \A q \in Requests : asker'[q] # None => worker'[asker'[q]] \in Prompted
    BY <2>1, <2>2 DEF HeldOK, ChannelsTyped
  <2>4. \A p \in RunIds : controls'[p] = IF p = r THEN <<>> ELSE controls[p]
    BY <2>1 DEF ChannelsTyped
  <2>5. \A p \in RunIds : p # r => worker'[p] = worker[p]
    BY <2>1 DEF ChannelsTyped
  <2> QED BY <2>1, <2>3, <2>4, <2>5 DEF HeldOK
<1>10. ASSUME Operates \/ Proceeds \/ TimePasses \/ ApplyFails \/ Receive \/ Shutdown \/ (\E p \in Policies : Restart(p)) \/ UNCHANGED runnerVars
       PROVE  UNCHANGED <<controls, workerVars>>
  BY <1>10 DEF Operates, Proceeds, TimePasses, ApplyFails, Receive, Shutdown, Restart, runnerVars, channelVars
<1> QED
  BY <1>1, <1>2, <1>3, <1>4, <1>5, <1>6, <1>7, <1>8, <1>9, <1>10, RunnerKinds DEF Other, Exit, Crash, WorkerNext, WorkerStep

\* A request on its way to the journal is unknown there and its agent, if it still
\* waits, is the one that asked; a known request belongs to the run that waits.
AskedOK ==
  /\ \A i \in DOMAIN updates :
       updates[i].type = "permission" =>
         /\ approval[updates[i].about] = "none"
         /\ asker[updates[i].about] \in {None, updates[i].run}
         /\ \A j \in DOMAIN updates :
              updates[j].type = "permission" /\ updates[j].about = updates[i].about => j = i
  /\ \A q \in Requests :
       asker[q] # None /\ approval[q] # "none" => approvalRun[q] = asker[q]

\* x answers request q of run r, or stops the run.
Answers(x, q, r) == x.run = r /\ (x.type = "cancel" \/ (x.type = "decide" /\ x.request = q))

\* An operation decides a request only with an effect that answers it.
LEMMA OperationRequests ==
  ASSUME JournalOK, Operation
  PROVE  /\ approvalRun' = approvalRun
         /\ \A q \in Requests :
              \/ approval'[q] = approval[q]
              \/ approval[q] = "open" /\ approval'[q] = "consumed" /\ \E x \in effects' : Answers(x, q, approvalRun[q])
<1> DEFINE Decided == /\ approvalRun' = approvalRun
                      /\ \A q \in Requests :
                           \/ approval'[q] = approval[q]
                           \/ approval[q] = "open" /\ approval'[q] = "consumed" /\ \E x \in effects' : Answers(x, q, approvalRun[q])
<1> USE DEF JournalOK, TypeOK, approvalVars
<1>1. ASSUME NEW e \in Events, NEW snap \in Snapshots, HandleMessage(e, snap)
      PROVE  Decided
  BY <1>1 DEF HandleMessage, HandleBlank, HandleFollowUp, HandleAtLimit, HandleRequest
<1>2. ASSUME NEW e \in Events, NEW snap \in Snapshots, CommandStop(e, snap)
      PROVE  Decided
  <2>1. approval' = ConsumeAll(ActiveRunsOf(ConvOf[e])) /\ effects' = {Cancel(r) : r \in ActiveRunsOf(ConvOf[e])} /\ approvalRun' = approvalRun
    BY <1>2 DEF CommandStop
  <2>2. \A r \in ActiveRunsOf(ConvOf[e]), q \in Requests : Cancel(r) \in effects' /\ Answers(Cancel(r), q, r)
    BY <2>1 DEF Cancel, Answers
  <2> QED BY <2>1, <2>2 DEF ConsumeAll
<1>3. ASSUME NEW e \in Events, NEW snap \in Snapshots, NEW q \in Requests, NEW option \in Options, CommandApprove(e, snap, q, option)
      PROVE  Decided
  BY <1>3 DEF CommandApprove, Answerable, Settle, Decide, Answers
<1>4. ASSUME NEW e \in Events, NEW snap \in Snapshots, CommandInform(e, snap) \/ \E mode \in {"on", "off"} : CommandPermissions(e, snap, mode)
      PROVE  Decided
  BY <1>4 DEF CommandInform, CommandPermissions
<1>5. ASSUME ExpireApprovals
      PROVE  Decided
  <2> DEFINE Q == {q \in late : approval[q] = "open"}
  <2>1. Settle(Q) /\ effects' = {Decide(q, None) : q \in Q} /\ approvalRun' = approvalRun
    BY <1>5 DEF ExpireApprovals
  <2>2. \A q \in Q : Decide(q, None) \in effects' /\ Answers(Decide(q, None), q, approvalRun[q])
    BY <2>1 DEF Decide, Answers
  <2> QED BY <2>1, <2>2 DEF Settle
<1>6. ASSUME ResumePendingSteers
      PROVE  Decided
  BY <1>6 DEF ResumePendingSteers
<1>7. ASSUME AutomaticApprovals
      PROVE  Decided
  <2>1. Settle(AutomaticRequests) /\ effects' = {Decide(q, "allow") : q \in AutomaticRequests} /\ approvalRun' = approvalRun
    BY <1>7 DEF AutomaticApprovals
  <2>2. \A q \in AutomaticRequests : Decide(q, "allow") \in effects' /\ Answers(Decide(q, "allow"), q, approvalRun[q])
    BY <2>1 DEF Decide, Answers
  <2>3. \A q \in AutomaticRequests : approval[q] = "open"
    BY DEF AutomaticRequests
  <2> QED BY <2>1, <2>2, <2>3 DEF Settle
<1>8. ASSUME NEW room \in Rooms, NEW snap \in Snapshots, ReconcileRoom(room, snap)
      PROVE  Decided
  <2> DEFINE R == Revoked(room, snap) \cap ActiveRuns
  <2>1. approval' = ConsumeAll(R) /\ effects' = {Cancel(r) : r \in R} /\ approvalRun' = approvalRun
    BY <1>8 DEF ReconcileRoom
  <2>2. \A r \in R, q \in Requests : Cancel(r) \in effects' /\ Answers(Cancel(r), q, r)
    BY <2>1 DEF Cancel, Answers
  <2> QED BY <2>1, <2>2 DEF ConsumeAll
<1>9. ASSUME NEW r \in RunIds, ExplicitMessage(r)
      PROVE  Decided
  BY <1>9 DEF ExplicitMessage
<1> HIDE DEF Decided
<1> QED BY <1>1, <1>2, <1>3, <1>4, <1>5, <1>6, <1>7, <1>8, <1>9 DEF Operation, Handle, HandleCommand, Decided

\* What is heard opens the request it is about, or answers the requests of a run
\* that ended.
LEMMA HearRequests ==
  ASSUME Typed, NEW u \in Published, Hear(u)
  PROVE  \A q \in Requests :
           IF u.type = "permission" /\ q = u.about
           THEN approval'[q] = "open" /\ approvalRun'[q] = u.run
           ELSE /\ approvalRun'[q] = approvalRun[q]
                /\ \/ approval'[q] = approval[q]
                   \/ u.type = "finished" /\ approvalRun[q] = u.run /\ approval[q] = "open" /\ approval'[q] = "consumed"
BY UpdateFields
   DEF Hear, Typed, JournalOK, TypeOK, approvalVars, SessionReady, Text, Tool, Permission, Steered, Finished, ConsumeAll

\* Only an agent that is asked waits, and only for its own request.
LEMMA WorkerAsks ==
  ASSUME Typed, WorkerNext, NEW q \in Requests
  PROVE  asker'[q] \in {None, asker[q]} \/ \E r \in RunIds : Ask(r, q) /\ asker'[q] = r /\ asker[q] = None
<1>0. ChannelsTyped
  BY DEF Typed, RunnerTypeOK, ChannelsTyped
<1> USE <1>0 DEF ChannelsTyped, workerVars
<1>1. ASSUME NEW r \in RunIds, NEW p \in Requests, Ask(r, p)
      PROVE  asker'[q] = asker[q] \/ (Ask(r, q) /\ asker'[q] = r /\ asker[q] = None)
  <2>1. asker' = [asker EXCEPT ![p] = r] /\ asker[p] = None
    BY <1>1 DEF Ask
  <2>2. CASE p = q
    BY <1>1, <2>1, <2>2
  <2>3. CASE p # q
    BY <2>1, <2>3
  <2> QED BY <2>2, <2>3
<1>2. ASSUME NEW r \in RunIds, Take(r)
      PROVE  asker'[q] \in {None, asker[q]}
  BY <1>2 DEF Take, Unasked
<1>3. ASSUME NEW r \in RunIds, WorkerStep(r), ~Take(r), \A p \in Requests : ~Ask(r, p)
      PROVE  asker'[q] \in {None, asker[q]}
  BY <1>3 DEF WorkerStep, Ready, Say, Respond, GiveUp, Report, Continue, Finish, Unasked
<1>4. ASSUME NEW p \in Requests, AskTimeout(p)
      PROVE  asker'[q] \in {None, asker[q]}
  BY <1>4 DEF AskTimeout
<1> QED BY <1>1, <1>2, <1>3, <1>4 DEF WorkerNext

\* A worker publishes one update at a time, and a request with its agent waiting.
LEMMA WorkerPublishes ==
  ASSUME Typed, WorkerNext
  PROVE  \/ updates' = updates
         \/ \E u \in Published :
              /\ updates' = Append(updates, u)
              /\ u.type = "permission" => Ask(u.run, u.about) /\ asker'[u.about] = u.run
<1>0. ChannelsTyped /\ updates' \in Seq(Published)
  BY WorkerTyped DEF Typed, RunnerTypeOK, ChannelsTyped
<1> USE <1>0 DEF ChannelsTyped
<1>1. ASSUME NEW r \in RunIds, Ready(r) \/ Say(r) \/ Report(r) \/ Finish(r)
      PROVE  \E u \in Published : updates' = Append(updates, u) /\ u.type # "permission"
  <2>0. PICK x : \E t \in {"ready", "text", "tool", "steered", "finished"} : Publish(t, r, x)
    BY <1>1 DEF Ready, Say, Report, Finish
  <2>1. PICK t \in {"ready", "text", "tool", "steered", "finished"} : Publish(t, r, x)
    BY <2>0
  <2>2. updates' = Append(updates, Update(t, r, x))
    BY <2>1 DEF Publish
  <2>3. Update(t, r, x) \in Published
    BY <2>2, LastAppended
  <2>4. Update(t, r, x).type # "permission"
    BY DEF Update
  <2> QED BY <2>2, <2>3, <2>4
<1>2. ASSUME NEW r \in RunIds, NEW q \in Requests, Ask(r, q)
      PROVE  \E u \in Published : updates' = Append(updates, u) /\ Ask(u.run, u.about) /\ asker'[u.about] = u.run
  <2> DEFINE u == Update("permission", r, q)
  <2>1. u \in Published /\ u.run = r /\ u.about = q
    BY DEF Update, Published
  <2>2. updates' = Append(updates, u) /\ asker'[q] = r
    BY <1>2 DEF Ask, Publish
  <2> HIDE DEF u
  <2> QED BY <1>2, <2>1, <2>2
<1>3. ASSUME NEW r \in RunIds, Take(r) \/ (\E s \in {"completed", "failed", "cancelled"} : Respond(r, s))
                               \/ (\E s \in {"failed", "interrupted"} : GiveUp(r, s)) \/ Continue(r)
      PROVE  updates' = updates
  BY <1>3 DEF Take, Respond, GiveUp, Continue, channelVars
<1>4. ASSUME NEW q \in Requests, AskTimeout(q)
      PROVE  updates' = updates
  BY <1>4 DEF AskTimeout, channelVars
<1> QED BY <1>1, <1>2, <1>3, <1>4 DEF WorkerNext, WorkerStep

\* Requests get fresh identifiers, and what the journal records of them is what
\* their agents asked.
LEMMA NextAsked ==
  ASSUME Typed, AskedOK, [RunnerNext]_runnerVars
  PROVE  AskedOK'
<1>0. ChannelsTyped /\ PlaceTyped /\ DriverOK /\ WorkersOK /\ JournalOK
  BY DEF Typed, RunnerTypeOK, ChannelsTyped, PlaceTyped
<1> USE <1>0
<1>1. ASSUME UNCHANGED <<updates, asker>>,
             \A q \in Requests : approvalRun'[q] = approvalRun[q] /\ (approval'[q] = "none" <=> approval[q] = "none")
      PROVE  AskedOK'
  <2>1. \A i \in DOMAIN updates : updates[i].type = "permission" => updates[i].about \in Requests
    BY UpdatesHaveRuns, UpdateFields DEF ChannelsTyped
  <2> QED BY <1>1, <2>1 DEF AskedOK
<1>2. ASSUME Operates
      PROVE  AskedOK'
  BY <1>1, <1>2, OperationRequests DEF Operates, channelVars, workerVars
<1>3. ASSUME Proceeds \/ TimePasses \/ (\E x \in todo : Starts(x) \/ Tells(x)) \/ ApplyFails \/ Shutdown \/ UNCHANGED runnerVars
      PROVE  AskedOK'
  <2>1. UNCHANGED <<updates, asker, approval, approvalRun>>
    BY <1>3 DEF Proceeds, TimePasses, Lapse, Starts, ApplyStart, Started, Tells, ApplyControl, ApplyFails, Shutdown,
                runnerVars, channelVars, workerVars, vars, approvalVars
  <2> QED BY <1>1, <2>1
<1>4. ASSUME NEW x \in todo, Cancels(x)
      PROVE  AskedOK'
  <2>1. UNCHANGED <<updates, asker, approvalRun>>
    BY <1>4 DEF Cancels, ApplyCancel, Finished, workerVars, vars, approvalVars
  <2>2. approval' = approval \/ approval' = ConsumeAll({x.run})
    BY <1>4 DEF Cancels, ApplyCancel, Finished, vars, approvalVars
  <2>3. \A q \in Requests : approval'[q] = "none" <=> approval[q] = "none"
    BY <2>2 DEF ConsumeAll
  <2> QED BY <1>1, <2>1, <2>3
<1>5. ASSUME Receive
      PROVE  AskedOK'
  <2> DEFINE u == Head(updates)
             n == Len(updates)
  <2>1. /\ u \in Published /\ u = updates[1] /\ n \in Nat \ {0} /\ DOMAIN updates = 1..n
        /\ DOMAIN updates' = 1..(n - 1) /\ \A i \in 1..(n - 1) : updates'[i] = updates[i + 1]
    BY <1>5, Tailed DEF Receive, ChannelsTyped
  <2>2. /\ IF Listens(u) THEN Hear(u) ELSE UNCHANGED vars
        /\ asker' = asker
    BY <1>5 DEF Receive, workerVars
  <2>3. u.type = "permission" => u.about \in Requests
    BY <2>1, UpdateFields
  <2>4. \A i \in 1..n : updates[i].type = "permission" => updates[i].about \in Requests
    BY <2>1, UpdatesHaveRuns, UpdateFields DEF ChannelsTyped
  <2> HIDE DEF u, n
  <2>5. \A q \in Requests :
          IF u.type = "permission" /\ q = u.about
          THEN (approvalRun'[q] = approvalRun[q] /\ approval'[q] = approval[q]) \/ approvalRun'[q] = u.run
          ELSE approvalRun'[q] = approvalRun[q] /\ (approval'[q] = "none" <=> approval[q] = "none")
    <3>1. CASE Listens(u)
      BY <2>1, <2>2, <3>1, HearRequests
    <3>2. CASE ~Listens(u)
      BY <2>2, <3>2 DEF vars, approvalVars
    <3> QED BY <3>1, <3>2
  <2>6. \A i \in 1..(n - 1) : i + 1 \in 1..n /\ i + 1 # 1
    BY <2>1
  <2>7. ASSUME NEW i \in 1..(n - 1), updates'[i].type = "permission"
        PROVE  /\ approval'[updates'[i].about] = "none"
               /\ asker'[updates'[i].about] \in {None, updates'[i].run}
               /\ \A j \in 1..(n - 1) :
                    updates'[j].type = "permission" /\ updates'[j].about = updates'[i].about => j = i
    <3>1. updates[i + 1].type = "permission" /\ updates'[i] = updates[i + 1] /\ updates[i + 1].about \in Requests
      BY <2>1, <2>4, <2>6, <2>7
    <3>2. ~(u.type = "permission" /\ u.about = updates[i + 1].about)
      <4>1. 1 \in 1..n
        BY <2>1
      <4> QED BY <2>1, <2>6, <3>1, <4>1 DEF AskedOK
    <3>3. approval'[updates[i + 1].about] = "none"
      BY <2>1, <2>5, <2>6, <3>1, <3>2 DEF AskedOK
    <3>4. ASSUME NEW j \in 1..(n - 1), updates'[j].type = "permission", updates'[j].about = updates'[i].about
          PROVE  j = i
      <4>1. updates[j + 1].type = "permission" /\ updates[j + 1].about = updates[i + 1].about
        BY <2>1, <3>1, <3>4
      <4>2. j + 1 = i + 1
        BY <2>1, <2>6, <3>1, <4>1 DEF AskedOK
      <4> QED BY <4>2
    <3> QED BY <2>1, <2>2, <2>6, <3>1, <3>3, <3>4 DEF AskedOK
  <2>8. ASSUME NEW q \in Requests, asker'[q] # None, approval'[q] # "none"
        PROVE  approvalRun'[q] = asker'[q]
    <3>1. CASE u.type = "permission" /\ q = u.about
      <4>1. 1 \in 1..n
        BY <2>1
      <4>2. approval[q] = "none" /\ asker[q] \in {None, u.run}
        BY <2>1, <3>1, <4>1 DEF AskedOK
      <4> QED BY <2>2, <2>5, <2>8, <3>1, <4>2
    <3>2. CASE ~(u.type = "permission" /\ q = u.about)
      BY <2>2, <2>5, <2>8, <3>2 DEF AskedOK
    <3> QED BY <3>1, <3>2
  <2> QED BY <2>1, <2>7, <2>8 DEF AskedOK
<1>6. ASSUME Exit \/ Crash
      PROVE  AskedOK'
  BY <1>6 DEF Exit, Crash, Vanish, AskedOK
<1>7. ASSUME NEW p \in Policies, Restart(p)
      PROVE  AskedOK'
  <2>1. UNCHANGED <<updates, asker, approvalRun>>
    BY <1>7 DEF Restart, Recover, channelVars, workerVars
  <2>2. \A q \in Requests : approval'[q] = "none" <=> approval[q] = "none"
    BY <1>7 DEF Restart, Recover
  <2> QED BY <1>1, <2>1, <2>2
<1>8. ASSUME WorkerNext
      PROVE  AskedOK'
  <2>1. UNCHANGED <<approval, approvalRun>>
    BY <1>8 DEF WorkerNext, vars, approvalVars
  <2>2. \A q \in Requests : asker'[q] \in {None, asker[q]} \/ \E r \in RunIds : Ask(r, q) /\ asker'[q] = r /\ asker[q] = None
    BY <1>8, WorkerAsks
  <2>3. \A q \in Requests : asker'[q] # None /\ approval'[q] # "none" => approvalRun'[q] = asker'[q]
    BY <2>1, <2>2 DEF AskedOK, Ask
  <2>4. \A i \in DOMAIN updates : updates[i].type = "permission" => updates[i].about \in Requests
    BY UpdatesHaveRuns, UpdateFields DEF ChannelsTyped
  <2>5. \A i \in DOMAIN updates : updates[i].type = "permission" => asker'[updates[i].about] \in {None, updates[i].run}
    BY <2>2, <2>4 DEF AskedOK, Ask
  <2>6. CASE updates' = updates
    BY <2>1, <2>3, <2>5, <2>6 DEF AskedOK
  <2>7. CASE updates' # updates
    <3>1. PICK u \in Published : /\ updates' = Append(updates, u)
                                 /\ u.type = "permission" => Ask(u.run, u.about) /\ asker'[u.about] = u.run
      BY <1>8, <2>7, WorkerPublishes
    <3> DEFINE n == Len(updates)
    <3>2. /\ n \in Nat /\ DOMAIN updates = 1..n /\ DOMAIN updates' = 1..(n + 1)
          /\ \A i \in 1..n : updates'[i] = updates[i]
          /\ updates'[n + 1] = u
      BY <3>1, Appended DEF ChannelsTyped
    <3> HIDE DEF n
    <3>3. u.type = "permission" => approval[u.about] = "none" /\ \A i \in 1..n : updates[i].about # u.about
      BY <3>1, <3>2 DEF Ask
    <3>4. ASSUME NEW i \in 1..(n + 1), updates'[i].type = "permission"
          PROVE  /\ approval'[updates'[i].about] = "none"
                 /\ asker'[updates'[i].about] \in {None, updates'[i].run}
                 /\ \A j \in 1..(n + 1) :
                      updates'[j].type = "permission" /\ updates'[j].about = updates'[i].about => j = i
      <4>1. CASE i = n + 1
        BY <2>1, <3>1, <3>2, <3>3, <3>4, <4>1
      <4>2. CASE i \in 1..n
        BY <2>1, <2>5, <3>2, <3>3, <3>4, <4>2 DEF AskedOK
      <4> QED BY <3>2, <4>1, <4>2
    <3> QED BY <2>3, <3>2, <3>4 DEF AskedOK
  <2> QED BY <2>6, <2>7
<1> QED
  BY <1>2, <1>3, <1>4, <1>5, <1>6, <1>7, <1>8, RunnerKinds DEF Other

\* An answer to request q of run r, or the end of the run, is on its way.
OnItsWay(q, r) ==
  \/ worker[r] = "ending"
  \/ \E x \in todo : Answers(x, q, r)
  \/ \E i \in DOMAIN controls[r] : Answers(controls[r][i], q, r)

\* DecisionsReachAgents in these words.
DecisionsOK ==
  pc \notin {"shutdown", "down"} =>
    \A q \in Requests, r \in RunIds :
      approval[q] = "consumed" /\ asker[q] = r => OnItsWay(q, r)

\* A message for a run whose agent waits gets into its control channel.
LEMMA SendReaches ==
  ASSUME ChannelsTyped, NEW x \in Effects, Send(x.run, x), worker[x.run] # "gone"
  PROVE  /\ \A r \in RunIds \ {x.run} : controls'[r] = controls[r]
         /\ \A i \in DOMAIN controls[x.run] : i \in DOMAIN controls'[x.run] /\ controls'[x.run][i] = controls[x.run][i]
         /\ \E i \in DOMAIN controls'[x.run] : controls'[x.run][i] = x
<1>1. x.run \in RunIds
  BY EffectFields
<1>2. controls' = [controls EXCEPT ![x.run] = Append(@, x)]
  BY DEF Send
<1>3. /\ Len(controls[x.run]) \in Nat /\ DOMAIN controls[x.run] = 1..Len(controls[x.run])
      /\ DOMAIN Append(controls[x.run], x) = 1..(Len(controls[x.run]) + 1)
      /\ \A i \in 1..Len(controls[x.run]) : Append(controls[x.run], x)[i] = controls[x.run][i]
      /\ Append(controls[x.run], x)[Len(controls[x.run]) + 1] = x
  BY <1>1, Appended DEF ChannelsTyped
<1>4. controls'[x.run] = Append(controls[x.run], x) /\ \A r \in RunIds \ {x.run} : controls'[r] = controls[r]
  BY <1>1, <1>2 DEF ChannelsTyped
<1> QED BY <1>3, <1>4

\* No step loses a decision an agent waits for.
LEMMA NextDecisions ==
  ASSUME Typed, OpenOK, HeldOK, AskedOK, DecisionsOK, [RunnerNext]_runnerVars
  PROVE  DecisionsOK'
<1>0. ChannelsTyped /\ PlaceTyped /\ DriverOK /\ WorkersOK /\ JournalOK
  BY DEF Typed, RunnerTypeOK, ChannelsTyped, PlaceTyped
<1> USE <1>0
<1>1. \A q \in Requests, r \in RunIds : asker[q] = r => worker[r] \in Prompted /\ r \in open
  BY NoneAssumption DEF HeldOK, OpenOK, Prompted, Gone
<1>2. CASE pc' \in {"shutdown", "down"}
  BY <1>2 DEF DecisionsOK
<1>3. ASSUME Operates
      PROVE  DecisionsOK'
  <2>1. UNCHANGED <<controls, worker, asker>> /\ todo = {} /\ todo' = effects' /\ pc \notin {"shutdown", "down"}
    BY <1>3 DEF Operates, channelVars, workerVars
  <2>2. \A q \in Requests :
          \/ approval'[q] = approval[q]
          \/ approval[q] = "open" /\ approval'[q] = "consumed" /\ \E x \in effects' : Answers(x, q, approvalRun[q])
    BY <1>3, OperationRequests DEF Operates
  <2> QED BY <2>1, <2>2, NoneAssumption DEF DecisionsOK, OnItsWay, AskedOK
<1>4. ASSUME Proceeds \/ TimePasses \/ ApplyFails \/ UNCHANGED runnerVars, pc' \notin {"shutdown", "down"}
      PROVE  DecisionsOK'
  <2>1. UNCHANGED <<controls, worker, asker, approval>> /\ pc \notin {"shutdown", "down"}
    BY <1>4 DEF Proceeds, TimePasses, Lapse, ApplyFails, Started, DriverOK, runnerVars, driverVars, channelVars, workerVars, vars, approvalVars
  <2>2. todo' = todo \/ \A x \in todo : x.type = "start"
    BY <1>4 DEF Proceeds, TimePasses, ApplyFails, DriverOK, runnerVars, driverVars
  <2> QED BY <2>1, <2>2 DEF DecisionsOK, OnItsWay, Answers
<1>5. ASSUME NEW x \in todo, Starts(x), pc' \notin {"shutdown", "down"}
      PROVE  DecisionsOK'
  <2>1. /\ x.run \in RunIds /\ status[x.run] = "queued" /\ x.type = "start" /\ todo' = todo \ {x} /\ pc' = pc
        /\ worker' = [worker EXCEPT ![x.run] = "handshake"] /\ UNCHANGED <<controls, asker, approval>>
    BY <1>5, EffectFields DEF Starts, ApplyStart, Started, PlaceTyped, approvalVars
  <2>2. worker[x.run] = "none"
    BY <2>1 DEF WorkersOK
  <2>3. \A r \in RunIds : r # x.run => worker'[r] = worker[r]
    BY <2>1 DEF ChannelsTyped
  <2> QED BY <1>1, <1>5, <2>1, <2>2, <2>3 DEF DecisionsOK, OnItsWay, Answers, Prompted
<1>6. ASSUME NEW x \in todo, Cancels(x) \/ Tells(x), pc' \notin {"shutdown", "down"}
      PROVE  DecisionsOK'
  <2>1. x \in Effects /\ x.run \in RunIds
    BY EffectFields DEF PlaceTyped
  <2>2. todo' = todo \ {x} /\ pc' = pc /\ UNCHANGED <<worker, asker, approvalRun>>
    BY <1>6 DEF Cancels, Tells, ApplyCancel, ApplyControl, Finished, workerVars, vars, approvalVars
  <2>3. \A q \in Requests : approval'[q] = approval[q] \/ (approvalRun[q] = x.run /\ x.run \notin open /\ approval[q] = "open")
    BY <1>6 DEF Cancels, Tells, ApplyCancel, ApplyControl, Finished, ConsumeAll, vars, approvalVars
  <2>4. (Send(x.run, x) /\ x.run \in open) \/ (controls' = controls /\ x.run \notin open)
    BY <1>6 DEF Cancels, Tells, ApplyCancel, ApplyControl
  <2>5. ASSUME NEW q \in Requests, NEW r \in RunIds, approval'[q] = "consumed", asker'[q] = r
        PROVE  OnItsWay(q, r)'
    <3>1. r \in open /\ worker[r] # "gone" /\ asker[q] = r /\ r # None
      BY <1>1, <2>2, <2>5, NoneAssumption DEF Prompted
    <3>2. approval[q] = "consumed"
      BY <2>3, <2>5, <3>1 DEF AskedOK
    <3>3. OnItsWay(q, r)
      BY <1>6, <2>2, <3>1, <3>2 DEF DecisionsOK
    <3>4. CASE r = x.run
      <4>1. /\ \A i \in DOMAIN controls[r] : i \in DOMAIN controls'[r] /\ controls'[r][i] = controls[r][i]
            /\ \E i \in DOMAIN controls'[r] : controls'[r][i] = x
        BY <2>1, <2>4, <3>1, <3>4, SendReaches
      <4> QED BY <2>2, <3>3, <4>1 DEF OnItsWay
    <3>5. CASE r # x.run
      <4>1. controls'[r] = controls[r]
        BY <2>1, <2>4, <3>5 DEF Send, ChannelsTyped
      <4>2. ~Answers(x, q, r)
        BY <3>5 DEF Answers
      <4> QED BY <2>2, <3>3, <4>1, <4>2 DEF OnItsWay
    <3> QED BY <3>4, <3>5
  <2> QED BY <2>5 DEF DecisionsOK
<1>7. ASSUME Receive, pc' \notin {"shutdown", "down"}
      PROVE  DecisionsOK'
  <2> DEFINE u == Head(updates)
  <2>1. u \in Published /\ u = updates[1] /\ 1 \in DOMAIN updates
    BY <1>7, Tailed DEF Receive, ChannelsTyped
  <2>2. /\ IF Listens(u) THEN Hear(u) ELSE UNCHANGED vars
        /\ UNCHANGED <<pc, todo, controls, worker, asker>>
    BY <1>7 DEF Receive, driverVars, workerVars
  <2>3. u.run \in RunIds
    BY <2>1, UpdateFields
  <2> HIDE DEF u
  <2>4. u.type = "finished" => worker[u.run] = "gone"
    BY <2>1, <2>3 DEF OpenOK, LastOf
  <2>5. \A q \in Requests :
          \/ approval'[q] # "consumed"
          \/ approval'[q] = approval[q]
          \/ u.type = "finished" /\ approvalRun[q] = u.run /\ approval[q] = "open"
    BY <2>1, <2>2, HearRequests DEF vars, approvalVars
  <2>6. ASSUME NEW q \in Requests, NEW r \in RunIds, approval'[q] = "consumed", asker'[q] = r
        PROVE  OnItsWay(q, r)'
    <3>1. asker[q] = r /\ worker[r] # "gone" /\ r # None
      BY <1>1, <2>2, <2>6, NoneAssumption DEF Prompted
    <3>2. approval[q] = "consumed"
      BY <2>4, <2>5, <2>6, <3>1 DEF AskedOK
    <3>3. OnItsWay(q, r)
      BY <1>7, <2>2, <3>1, <3>2 DEF DecisionsOK
    <3> QED BY <2>2, <3>3 DEF OnItsWay
  <2> QED BY <2>6 DEF DecisionsOK
<1>8. ASSUME NEW p \in Policies, Restart(p)
      PROVE  DecisionsOK'
  <2>1. asker' = asker /\ open = {}
    BY <1>8 DEF Restart, workerVars, OpenOK
  <2>2. \A q \in Requests, r \in RunIds : asker[q] # r
    BY <1>1, <2>1
  <2> QED BY <2>1, <2>2 DEF DecisionsOK
<1>9. ASSUME WorkerNext, pc' \notin {"shutdown", "down"}
      PROVE  DecisionsOK'
  <2>1. UNCHANGED <<approval, pc, todo>>
    BY <1>9 DEF WorkerNext, vars, approvalVars, driverVars
  <2>2. ASSUME NEW q \in Requests, NEW r \in RunIds, approval'[q] = "consumed", asker'[q] = r
        PROVE  OnItsWay(q, r)'
    <3>1. asker[q] = r /\ r # None
      BY <1>9, <2>1, <2>2, WorkerAsks, NoneAssumption DEF Ask
    <3>2. OnItsWay(q, r)
      BY <1>9, <2>1, <2>2, <3>1 DEF DecisionsOK
    <3>3. ASSUME NEW p \in RunIds, Take(p)
          PROVE  OnItsWay(q, r)'
      <4> DEFINE x == Head(controls[p])
      <4>1. /\ x = controls[p][1] /\ DOMAIN Tail(controls[p]) = 1..(Len(controls[p]) - 1) /\ Len(controls[p]) \in Nat \ {0}
            /\ DOMAIN controls[p] = 1..Len(controls[p]) /\ x \in Effects
            /\ \A i \in 1..(Len(controls[p]) - 1) : Tail(controls[p])[i] = controls[p][i + 1]
        BY <3>3, Tailed DEF Take, ChannelsTyped
      <4>2. /\ worker[p] \in {"turn", "stopping"} /\ controls' = [controls EXCEPT ![p] = Tail(@)]
            /\ worker' = IF x.type = "cancel" THEN [worker EXCEPT ![p] = "stopping"] ELSE worker
            /\ asker' = CASE x.type = "decide" -> [asker EXCEPT ![x.request] = None]
                          [] x.type = "cancel" -> Unasked(p)
                          [] OTHER -> asker
        BY <3>3 DEF Take
      <4> HIDE DEF x
      <4>3. CASE p # r
        BY <2>1, <3>2, <4>2, <4>3 DEF OnItsWay, ChannelsTyped
      <4>4. CASE p = r
        <5>1. ~Answers(x, q, r)
          BY <2>2, <3>1, <4>2, <4>4 DEF Answers, Unasked, ChannelsTyped
        <5>2. \/ \E y \in todo : Answers(y, q, r)
              \/ \E i \in 1..Len(controls[r]) : Answers(controls[r][i], q, r)
          BY <3>2, <4>1, <4>2, <4>4 DEF OnItsWay
        <5>3. controls'[r] = Tail(controls[r])
          BY <4>2, <4>4 DEF ChannelsTyped
        <5>4. ASSUME NEW i \in 1..Len(controls[r]), Answers(controls[r][i], q, r)
              PROVE  OnItsWay(q, r)'
          <6>1. i # 1
            BY <4>1, <4>4, <5>1, <5>4
          <6>2. i - 1 \in 1..(Len(controls[r]) - 1) /\ (i - 1) + 1 = i
            BY <4>1, <4>4, <6>1
          <6>3. controls'[r][i - 1] = controls[r][i] /\ i - 1 \in DOMAIN controls'[r]
            BY <4>1, <4>4, <5>3, <6>2
          <6> QED BY <5>4, <6>3 DEF OnItsWay, Answers
        <5> QED BY <2>1, <5>2, <5>4 DEF OnItsWay
      <4> QED BY <4>3, <4>4
    <3>4. ASSUME NEW p \in RunIds, Finish(p)
          PROVE  OnItsWay(q, r)'
      <4>1. worker' = [worker EXCEPT ![p] = "gone"] /\ controls' = [controls EXCEPT ![p] = <<>>] /\ asker' = Unasked(p)
        BY <3>4 DEF Finish
      <4>2. p # r
        BY <2>2, <3>1, <4>1 DEF Unasked
      <4> QED BY <2>1, <3>2, <4>1, <4>2 DEF OnItsWay, ChannelsTyped
    <3>5. ASSUME NEW p \in RunIds, WorkerStep(p), ~Take(p), ~Finish(p)
          PROVE  OnItsWay(q, r)'
      <4>1. controls' = controls
        BY <3>5 DEF WorkerStep, Ready, Say, Ask, Respond, GiveUp, Report, Continue, channelVars
      <4>2. worker[r] = "ending" => worker'[r] = "ending"
        BY <3>5 DEF WorkerStep, Ready, Say, Ask, Respond, GiveUp, Report, Continue, workerVars, ChannelsTyped
      <4> QED BY <2>1, <3>2, <4>1, <4>2 DEF OnItsWay
    <3>6. ASSUME NEW p \in Requests, AskTimeout(p)
          PROVE  OnItsWay(q, r)'
      BY <2>1, <3>2, <3>6 DEF AskTimeout, channelVars, OnItsWay
    <3> QED BY <1>9, <3>3, <3>4, <3>5, <3>6 DEF WorkerNext
  <2> QED BY <2>2 DEF DecisionsOK
<1>10. pc' \in {"shutdown", "down"} \/ ~(Shutdown \/ Exit \/ Crash)
  BY DEF Shutdown, Exit, Crash, Vanish
<1> QED
  BY <1>2, <1>3, <1>4, <1>5, <1>6, <1>7, <1>8, <1>9, <1>10, RunnerKinds DEF Other

-----------------------------------------------------------------------------
(* Follow-ups on their way to an agent *)

InControls(e, r) == \E i \in DOMAIN controls[r] : controls[r][i] = Steer(r, e)

\* The effect that steers run r with event e has not reached the worker.
Ahead(e, r) == Steer(r, e) \in todo \/ InControls(e, r)

\* A report that event e was given to run r has not reached the journal.
Reporting(e, r) ==
  \E i \in DOMAIN updates : updates[i].type = "steered" /\ updates[i].run = r /\ updates[i].about = e

Broken == {"failed", "interrupted"}

\* Run r ends in a way after which no follow-up is continued.
Breaking(r) ==
  \/ status[r] \in Broken
  \/ worker[r] = "ending" /\ outcome[r] \in Broken
  \/ \E i \in DOMAIN updates : LastOf(r, i) /\ updates[i].about \in Broken

Once(e, r) ==
  \A i, j \in DOMAIN controls[r] : controls[r][i] = Steer(r, e) /\ controls[r][j] = Steer(r, e) => i = j

\* Where the text of event e is on its way to the agent of run r, and what the
\* journal knows of it.
PairOK(e, r) ==
  /\ r \in got[e] => input[r] = e \/ (steer[e] # "none" /\ steerRun[e] = r)
  /\ Ahead(e, r) \/ e \in ToSet(taken[r]) => steer[e] # "none" /\ steerRun[e] = r
  /\ Ahead(e, r) => steer[e] \in {"pending", "cancelled"} /\ e \notin ToSet(taken[r]) /\ r \notin got[e]
  /\ InControls(e, r) => Steer(r, e) \notin todo
  /\ Once(e, r)
  /\ e \in ToSet(taken[r]) => (r \in got[e] <=> ~AfterTurn \/ worker[r] \in {"continuing", "ending"})
  /\ Reporting(e, r) => r \in got[e]
  /\ status[r] = "cancelling" /\ steer[e] = "pending" /\ steerRun[e] = r =>
       ~Ahead(e, r) /\ e \notin ToSet(taken[r]) /\ r \notin got[e]
  /\ pc \notin {"shutdown", "down"} /\ r \in got[e] /\ steer[e] = "pending" =>
       e \in ToSet(taken[r]) \/ Reporting(e, r) \/ Breaking(r)

GivenOK == \A e \in Events, r \in RunIds : PairOK(e, r)

\* The input of a run does not wait.
LEMMA InputsDoNotWait ==
  ASSUME JournalOK, RequestsOK, NEW e \in Events, NEW r \in RunIds, Feeds(e, r)
  PROVE  steer[e] \in {"none", "delivered"} /\ e \in Received
<1>1. e \in Received
  BY DEF RequestsOK, Recorded, Feeds
<1> QED BY <1>1, FeedsOnce DEF RequestsOK

\* What operations do to follow-ups and to the inputs of runs.
LEMMA OperationSteers ==
  ASSUME JournalOK, RequestsOK, Operation
  PROVE  /\ \A r \in RunIds : input[r] # None => input'[r] = input[r]
         /\ \A e \in Events :
              \/ /\ steer'[e] = steer[e] /\ steerRun'[e] = steerRun[e]
                 /\ steer[e] = "pending" /\ status'[steerRun[e]] = "cancelling" => status[steerRun[e]] = "cancelling"
              \/ steer[e] = "pending" /\ steer'[e] = "cancelled" /\ steerRun'[e] = steerRun[e]
              \/ steer[e] = "none" /\ e \notin Received /\ steer'[e] = "pending"
              \/ steer[e] = "pending" /\ steer'[e] = "delivered" /\ status[steerRun[e]] \in Resumable
         /\ \A x \in effects' : x.type = "steer" =>
              /\ steer[x.event] = "none" /\ x.event \notin Received
              /\ steerRun'[x.event] = x.run /\ steer'[x.event] = "pending" /\ status'[x.run] # "cancelling"
<1> DEFINE Goal == /\ \A r \in RunIds : input[r] # None => input'[r] = input[r]
                   /\ \A e \in Events :
                        \/ /\ steer'[e] = steer[e] /\ steerRun'[e] = steerRun[e]
                           /\ steer[e] = "pending" /\ status'[steerRun[e]] = "cancelling" => status[steerRun[e]] = "cancelling"
                        \/ steer[e] = "pending" /\ steer'[e] = "cancelled" /\ steerRun'[e] = steerRun[e]
                        \/ steer[e] = "none" /\ e \notin Received /\ steer'[e] = "pending"
                        \/ steer[e] = "pending" /\ steer'[e] = "delivered" /\ status[steerRun[e]] \in Resumable
                   /\ \A x \in effects' : x.type = "steer" =>
                        /\ steer[x.event] = "none" /\ x.event \notin Received
                        /\ steerRun'[x.event] = x.run /\ steer'[x.event] = "pending" /\ status'[x.run] # "cancelling"
<1> USE DEF JournalOK, TypeOK, ForeignKeys, runVars, steerVars, Decide, Start, Cancel, Steer
<1>1. ASSUME NEW e \in Events, NEW snap \in Snapshots, HandleBlank(e, snap) \/ HandleAtLimit(e, snap)
      PROVE  Goal
  BY <1>1 DEF HandleBlank, HandleAtLimit
<1>2. ASSUME NEW e \in Events, NEW snap \in Snapshots, NEW r \in RunIds, HandleFollowUp(e, snap, r)
      PROVE  Goal
  <2>1. e \notin Received /\ steer[e] = "none"
    BY <1>2 DEF HandleFollowUp, Message, Record, RequestsOK, Recorded
  <2> QED BY <1>2, <2>1 DEF HandleFollowUp
<1>3. ASSUME NEW e \in Events, NEW snap \in Snapshots, NEW r \in RunIds, HandleRequest(e, snap, r)
      PROVE  Goal
  BY <1>3 DEF HandleRequest
<1>4. ASSUME NEW e \in Events, NEW snap \in Snapshots, CommandStop(e, snap)
      PROVE  Goal
  BY <1>4 DEF CommandStop, SetStatus, ActiveRunsOf, ActiveRuns, DroppedByStop, PendingSteers
<1>5. ASSUME NEW e \in Events, NEW snap \in Snapshots, HandleCommand(e, snap), ~CommandStop(e, snap)
      PROVE  Goal
  BY <1>5 DEF HandleCommand, CommandInform, CommandPermissions, CommandApprove, Settle
<1>6. ASSUME ExpireApprovals \/ AutomaticApprovals
      PROVE  Goal
  <2>1. /\ UNCHANGED <<input, steer, steerRun>>
        /\ \A r \in RunIds : status'[r] = status[r] \/ status'[r] = "running"
    <3>1. ASSUME NEW Q, Settle(Q)
          PROVE  \A r \in RunIds : status'[r] = status[r] \/ status'[r] = "running"
      BY <3>1 DEF Settle
    <3>2. CASE ExpireApprovals
      BY <3>1, <3>2 DEF ExpireApprovals
    <3>3. CASE AutomaticApprovals
      BY <3>1, <3>3 DEF AutomaticApprovals
    <3> QED BY <1>6, <3>2, <3>3
  <2>2. \A x \in effects' : x.type = "decide"
    BY <1>6 DEF ExpireApprovals, AutomaticApprovals
  <2>3. \A e \in Events :
          /\ steer'[e] = steer[e] /\ steerRun'[e] = steerRun[e]
          /\ steer[e] = "pending" /\ status'[steerRun[e]] = "cancelling" => status[steerRun[e]] = "cancelling"
    BY <2>1
  <2>4. \A r \in RunIds : input[r] # None => input'[r] = input[r]
    BY <2>1
  <2> QED BY <2>2, <2>3, <2>4
<1>7. ASSUME ResumePendingSteers
      PROVE  Goal
  <2>1. PICK started \in SUBSET RunIds : Continues(started)
    BY <1>7, ResumeMoves
  <2>2. \A x \in effects' : x.type = "start"
    BY <1>7 DEF ResumePendingSteers
  <2> QED BY <2>1, <2>2 DEF Continues
<1>8. ASSUME NEW room \in Rooms, NEW snap \in Snapshots, ReconcileRoom(room, snap)
      PROVE  Goal
  BY <1>8 DEF ReconcileRoom, SetStatus, ActiveRuns
<1>9. ASSUME NEW r \in RunIds, ExplicitMessage(r)
      PROVE  Goal
  BY <1>9 DEF ExplicitMessage
<1> HIDE DEF Goal
<1>10. Goal
  BY <1>1, <1>2, <1>3, <1>4, <1>5, <1>6, <1>7, <1>8, <1>9 DEF Operation, Handle, HandleMessage
<1> QED BY <1>10 DEF Goal

\* What is heard settles at most the follow-up it reports, and stops no run.
LEMMA HearSteers ==
  ASSUME Typed, NEW u \in Published, Hear(u)
  PROVE  /\ input' = input /\ steerRun' = steerRun
         /\ \A r \in RunIds : status'[r] = "cancelling" => status[r] = "cancelling"
         /\ \A e \in Events :
              IF u.type = "steered" /\ u.about = e /\ steer[e] = "pending" /\ steerRun[e] = u.run
              THEN steer'[e] = "delivered"
              ELSE steer'[e] = steer[e]
<1> USE UpdateFields DEF Typed, JournalOK, TypeOK, Terminal, runVars, steerVars
<1> DEFINE Goal == /\ input' = input /\ steerRun' = steerRun
                   /\ \A r \in RunIds : status'[r] = "cancelling" => status[r] = "cancelling"
                   /\ \A e \in Events :
                        IF u.type = "steered" /\ u.about = e /\ steer[e] = "pending" /\ steerRun[e] = u.run
                        THEN steer'[e] = "delivered"
                        ELSE steer'[e] = steer[e]
<1>1. ASSUME u.type = "steered", Steered(u.run, u.about)
      PROVE  Goal
  BY <1>1 DEF Steered
<1>2. ASSUME u.type = "finished", Finished(u.run, u.about)
      PROVE  Goal
  BY <1>2 DEF Finished, SetStatus
<1>3. ASSUME NEW allow \in BOOLEAN, u.type = "permission", Permission(u.run, u.about, allow)
      PROVE  Goal
  BY <1>3 DEF Permission
<1>4. ASSUME u.type \notin {"steered", "finished", "permission"}, Hear(u)
      PROVE  Goal
  BY <1>4 DEF Hear, SessionReady, Text, Tool
<1> HIDE DEF Goal
<1>5. Goal
  BY <1>1, <1>2, <1>3, <1>4 DEF Hear
<1> QED BY <1>5 DEF Goal

\* Publishing adds what is published.
LEMMA PublishReports ==
  ASSUME ChannelsTyped, updates' \in Seq(Published), NEW t, NEW p, NEW x, Publish(t, p, x), NEW r, NEW e
  PROVE  /\ Reporting(e, r)' <=> Reporting(e, r) \/ (t = "steered" /\ p = r /\ x = e)
         /\ (\E i \in DOMAIN updates : LastOf(r, i) /\ updates[i].about \in Broken)'
              <=> \/ \E i \in DOMAIN updates : LastOf(r, i) /\ updates[i].about \in Broken
                  \/ t = "finished" /\ p = r /\ x \in Broken
<1> DEFINE n == Len(updates) u == Update(t, p, x)
<1>1. updates' = Append(updates, u)
  BY DEF Publish
<1>2. u \in Published
  BY <1>1, LastAppended DEF ChannelsTyped
<1>3. /\ n \in Nat /\ DOMAIN updates = 1..n /\ DOMAIN updates' = 1..(n + 1)
      /\ \A i \in 1..n : updates'[i] = updates[i]
      /\ updates'[n + 1] = u
  BY <1>1, <1>2, Appended DEF ChannelsTyped
<1>4. u.type = t /\ u.run = p /\ u.about = x
  BY DEF Update
<1> HIDE DEF n, u
<1>5. \A i \in 1..(n + 1) : i \in 1..n \/ i = n + 1
  BY <1>3
<1>6. n + 1 \in 1..(n + 1) /\ \A i \in 1..n : i \in 1..(n + 1)
  BY <1>3
<1> QED BY <1>3, <1>4, <1>5, <1>6 DEF Reporting, LastOf

\* What is found in a channel is found in its tail or is its head.
LEMMA FoundInTail ==
  ASSUME NEW S, NEW s \in Seq(S), s # <<>>, NEW T
  PROVE  (\E i \in DOMAIN s : s[i] \in T) <=> (\E i \in DOMAIN Tail(s) : Tail(s)[i] \in T) \/ Head(s) \in T
<1> DEFINE n == Len(s) t == Tail(s)
<1>1. /\ n \in Nat \ {0} /\ DOMAIN s = 1..n /\ DOMAIN t = 1..(n - 1)
      /\ \A i \in 1..(n - 1) : t[i] = s[i + 1]
      /\ Head(s) = s[1]
  BY Tailed
<1> HIDE DEF n, t
<1>2. ASSUME NEW i \in 1..n, s[i] \in T, Head(s) \notin T
      PROVE  \E j \in 1..(n - 1) : t[j] \in T
  <2>1. i - 1 \in 1..(n - 1) /\ (i - 1) + 1 = i
    BY <1>1, <1>2
  <2>2. t[i - 1] = s[i]
    BY <1>1, <2>1
  <2> QED BY <1>2, <2>1, <2>2
<1>3. ASSUME NEW j \in 1..(n - 1), t[j] \in T
      PROVE  \E i \in 1..n : s[i] \in T
  <2>1. j + 1 \in 1..n
    BY <1>1
  <2> QED BY <1>1, <1>3, <2>1
<1>4. 1 \in 1..n
  BY <1>1
<1>5. (\E i \in DOMAIN s : s[i] \in T) <=> (\E i \in DOMAIN t : t[i] \in T) \/ Head(s) \in T
  BY <1>1, <1>2, <1>3, <1>4
<1> QED BY <1>5 DEF t

\* What occurs once in a channel occurs at most once in its tail, and not there
\* if it is the head.
LEMMA OnceInTail ==
  ASSUME NEW S, NEW s \in Seq(S), s # <<>>, NEW x,
         \A i, j \in DOMAIN s : s[i] = x /\ s[j] = x => i = j
  PROVE  /\ \A i, j \in DOMAIN Tail(s) : Tail(s)[i] = x /\ Tail(s)[j] = x => i = j
         /\ Head(s) = x => \A i \in DOMAIN Tail(s) : Tail(s)[i] # x
<1> DEFINE n == Len(s) t == Tail(s)
<1>1. /\ n \in Nat \ {0} /\ DOMAIN s = 1..n /\ DOMAIN t = 1..(n - 1)
      /\ \A i \in 1..(n - 1) : t[i] = s[i + 1]
      /\ Head(s) = s[1]
  BY Tailed
<1> HIDE DEF n, t
<1>2. ASSUME NEW i \in 1..(n - 1), NEW j \in 1..(n - 1), t[i] = x, t[j] = x
      PROVE  i = j
  <2>1. i + 1 \in 1..n /\ j + 1 \in 1..n
    BY <1>1
  <2>2. i + 1 = j + 1
    BY <1>1, <1>2, <2>1
  <2> QED BY <1>1, <2>2
<1>3. ASSUME NEW i \in 1..(n - 1), Head(s) = x
      PROVE  t[i] # x
  <2>1. i + 1 \in 1..n /\ 1 \in 1..n /\ i + 1 # 1
    BY <1>1
  <2> QED BY <1>1, <1>3, <2>1
<1>4. /\ \A i, j \in DOMAIN t : t[i] = x /\ t[j] = x => i = j
      /\ Head(s) = x => \A i \in DOMAIN t : t[i] # x
  BY <1>1, <1>2, <1>3
<1> QED BY <1>4 DEF t

\* Receiving takes away what is received.
LEMMA ReceiveReports ==
  ASSUME ChannelsTyped, updates # <<>>, updates' = Tail(updates), NEW r
  PROVE  /\ \A e : Reporting(e, r) <=>
                     Reporting(e, r)' \/ (Head(updates).type = "steered" /\ Head(updates).run = r /\ Head(updates).about = e)
         /\ (\E i \in DOMAIN updates : LastOf(r, i) /\ updates[i].about \in Broken)
              <=> \/ (\E i \in DOMAIN updates : LastOf(r, i) /\ updates[i].about \in Broken)'
                  \/ Head(updates).type = "finished" /\ Head(updates).run = r /\ Head(updates).about \in Broken
<1> DEFINE report(e) == {u \in Published : u.type = "steered" /\ u.run = r /\ u.about = e}
           breaks == {u \in Published : u.type = "finished" /\ u.run = r /\ u.about \in Broken}
<1>1. /\ updates \in Seq(Published) /\ updates' \in Seq(Published) /\ Head(updates) \in Published
  BY Tailed DEF ChannelsTyped
<1>2. /\ \A i \in DOMAIN updates : updates[i] \in Published
      /\ \A i \in DOMAIN updates' : updates'[i] \in Published
  BY <1>1
<1>3. \A e : (\E i \in DOMAIN updates : updates[i] \in report(e))
                <=> (\E i \in DOMAIN updates' : updates'[i] \in report(e)) \/ Head(updates) \in report(e)
  BY <1>1, FoundInTail
<1>4. (\E i \in DOMAIN updates : updates[i] \in breaks)
        <=> (\E i \in DOMAIN updates' : updates'[i] \in breaks) \/ Head(updates) \in breaks
  BY <1>1, FoundInTail
<1>5. \A e : Reporting(e, r) <=>
                Reporting(e, r)' \/ (Head(updates).type = "steered" /\ Head(updates).run = r /\ Head(updates).about = e)
  BY <1>1, <1>2, <1>3 DEF Reporting
<1>6. (\E i \in DOMAIN updates : LastOf(r, i) /\ updates[i].about \in Broken)
        <=> \/ (\E i \in DOMAIN updates : LastOf(r, i) /\ updates[i].about \in Broken)'
            \/ Head(updates).type = "finished" /\ Head(updates).run = r /\ Head(updates).about \in Broken
  BY <1>1, <1>2, <1>4 DEF LastOf
<1> QED BY <1>5, <1>6

\* Sending puts at most the message into its channel.
LEMMA SendSteers ==
  ASSUME ChannelsTyped, OpenOK, NEW x \in Effects, (Send(x.run, x) /\ x.run \in open) \/ UNCHANGED controls,
         NEW r \in RunIds, NEW e
  PROVE  /\ InControls(e, r)' => InControls(e, r) \/ x = Steer(r, e)
         /\ Once(e, r) /\ (InControls(e, r) => x # Steer(r, e)) => Once(e, r)'
<1> DEFINE n == Len(controls[r])
<1>1. CASE controls'[r] = controls[r]
  BY <1>1 DEF InControls, Once
<1>2. CASE controls'[r] # controls[r]
  <2>1. x.run = r /\ controls'[r] = Append(controls[r], x) /\ controls[r] \in Seq(Effects)
    BY <1>2, SendAdds, EffectFields DEF ChannelsTyped
  <2>2. /\ n \in Nat /\ DOMAIN controls[r] = 1..n /\ DOMAIN controls'[r] = 1..(n + 1)
        /\ \A i \in 1..n : controls'[r][i] = controls[r][i]
        /\ controls'[r][n + 1] = x
    BY <2>1, Appended
  <2> HIDE DEF n
  <2>3. \A i \in 1..(n + 1) : i \in 1..n \/ i = n + 1
    BY <2>2
  <2> QED BY <2>2, <2>3 DEF InControls, Once
<1> QED BY <1>1, <1>2

\* Taking a message of a control channel takes its only occurrence there.
LEMMA TakeSteers ==
  ASSUME ChannelsTyped, NEW p \in RunIds, controls[p] # <<>>, controls' = [controls EXCEPT ![p] = Tail(@)],
         NEW r \in RunIds, NEW e
  PROVE  /\ InControls(e, r)' => InControls(e, r)
         /\ Once(e, r) => Once(e, r)'
         /\ Once(e, r) /\ Head(controls[p]) = Steer(r, e) /\ p = r => InControls(e, r) /\ ~InControls(e, r)'
<1> DEFINE n == Len(controls[p])
<1>1. CASE p # r
  <2>1. controls'[r] = controls[r]
    BY <1>1 DEF ChannelsTyped
  <2> QED BY <1>1, <2>1 DEF InControls, Once
<1>2. CASE p = r
  <2>1. /\ controls[r] \in Seq(Effects) /\ controls[r] # <<>> /\ controls'[r] = Tail(controls[r])
        /\ Head(controls[r]) = controls[r][1] /\ 1 \in DOMAIN controls[r]
    BY <1>2, Tailed DEF ChannelsTyped
  <2>2. InControls(e, r)' => InControls(e, r)
    <3>1. (\E i \in DOMAIN controls[r] : controls[r][i] \in {Steer(r, e)})
            <=> (\E i \in DOMAIN Tail(controls[r]) : Tail(controls[r])[i] \in {Steer(r, e)}) \/ Head(controls[r]) \in {Steer(r, e)}
      BY <2>1, FoundInTail
    <3> QED BY <2>1, <3>1 DEF InControls
  <2>3. ASSUME Once(e, r)
        PROVE  /\ Once(e, r)'
               /\ Head(controls[r]) = Steer(r, e) => InControls(e, r) /\ ~InControls(e, r)'
    <3>1. /\ \A i, j \in DOMAIN Tail(controls[r]) :
               Tail(controls[r])[i] = Steer(r, e) /\ Tail(controls[r])[j] = Steer(r, e) => i = j
          /\ Head(controls[r]) = Steer(r, e) => \A i \in DOMAIN Tail(controls[r]) : Tail(controls[r])[i] # Steer(r, e)
      BY <2>1, <2>3, OnceInTail DEF Once
    <3> QED BY <2>1, <3>1 DEF Once, InControls
  <2> QED BY <1>2, <2>2, <2>3
<1> QED BY <1>1, <1>2

\* A run that ended in a way after which nothing is continued stays ended.
LEMMA BrokenStays ==
  ASSUME Typed, [RunnerNext]_runnerVars
  PROVE  \A r \in RunIds : status[r] \in Broken => status'[r] = status[r]
<1>1. RunsStep
  BY JournalStep, NextRunsStep DEF Typed
<1>2. status \in [RunIds -> Active \cup Terminal \cup {"none"}]
  BY DEF Typed, JournalOK, TypeOK
<1> QED BY <1>1, <1>2 DEF RunsStep, Life!NextStatus, Life!Terminal, Active, Terminal, Broken

\* An ended run has no worker, holds nothing and has nothing to report.
LEMMA EndedHasNothing ==
  ASSUME Typed, OpenOK, HeldOK, NEW r \in RunIds, status[r] \notin Works
  PROVE  /\ r \notin open /\ worker[r] \in Gone /\ controls[r] = <<>> /\ taken[r] = <<>>
         /\ \A i \in DOMAIN updates : updates[i].run # r
         /\ \A e : ~InControls(e, r) /\ ~Reporting(e, r)
<1>1. r \notin open /\ worker[r] \in Gone /\ \A i \in DOMAIN updates : updates[i].run # r
  BY DEF OpenOK
<1>2. controls[r] = <<>> /\ taken[r] = <<>>
  BY <1>1 DEF HeldOK, Prompted, Gone
<1>3. \A i \in DOMAIN controls[r] : FALSE
  BY <1>2
<1> QED BY <1>1, <1>2, <1>3 DEF InControls, Reporting

\* An operation of the journal steers only with new messages, and settles a
\* follow-up only when nobody has its text.
LEMMA PairOperates ==
  ASSUME Typed, OpenOK, HeldOK, RequestsOK, GivenOK, Operates, [RunnerNext]_runnerVars,
         NEW e \in Events, NEW r \in RunIds
  PROVE  PairOK(e, r)'
<1>1. /\ UNCHANGED <<controls, updates, taken, got, worker, outcome>> /\ todo = {} /\ todo' = effects'
      /\ pc \notin {"shutdown", "down"} /\ JournalOK /\ Operation
  BY DEF Operates, channelVars, workerVars, Typed
<1>2. PairOK(e, r)
  BY DEF GivenOK
<1>3. /\ InControls(e, r)' <=> InControls(e, r)
      /\ Once(e, r)' <=> Once(e, r)
      /\ Reporting(e, r)' <=> Reporting(e, r)
      /\ Breaking(r) => Breaking(r)'
  BY <1>1, BrokenStays DEF InControls, Once, Reporting, Breaking, LastOf
<1>4. Ahead(e, r) <=> InControls(e, r)
  BY <1>1 DEF Ahead
<1>5. input[r] = e => input'[r] = e /\ e \in Received
  BY <1>1, OperationSteers, NoneAssumption DEF RequestsOK, Recorded
<1>6. input[r] = e => steer[e] # "pending"
  BY <1>1, InputsDoNotWait DEF Feeds
<1> DEFINE Idle == r \notin got[e] /\ ~InControls(e, r) /\ e \notin ToSet(taken[r]) /\ ~Reporting(e, r)
<1>7. CASE Steer(r, e) \in effects'
  <2>1. Steer(r, e).type = "steer" /\ Steer(r, e).run = r /\ Steer(r, e).event = e
    BY DEF Steer
  <2>2. /\ steer[e] = "none" /\ e \notin Received
        /\ steerRun'[e] = r /\ steer'[e] = "pending" /\ status'[r] # "cancelling"
    BY <1>1, <1>7, <2>1, OperationSteers
  <2>3. Idle
    BY <1>2, <1>4, <1>5, <2>2 DEF PairOK
  <2> QED BY <1>1, <1>2, <1>3, <2>2, <2>3 DEF PairOK, Ahead
<1>8. CASE Steer(r, e) \notin effects'
  <2>1. Ahead(e, r)' <=> InControls(e, r)
    BY <1>1, <1>3, <1>8 DEF Ahead
  <2>2. CASE /\ steer'[e] = steer[e] /\ steerRun'[e] = steerRun[e]
             /\ steer[e] = "pending" /\ status'[steerRun[e]] = "cancelling" => status[steerRun[e]] = "cancelling"
    BY <1>1, <1>2, <1>3, <1>4, <1>5, <1>8, <2>1, <2>2 DEF PairOK
  <2>3. CASE steer[e] = "pending" /\ steer'[e] = "cancelled" /\ steerRun'[e] = steerRun[e]
    BY <1>1, <1>2, <1>3, <1>4, <1>5, <1>8, <2>1, <2>3 DEF PairOK
  <2>4. CASE steer[e] = "none" /\ e \notin Received /\ steer'[e] = "pending"
    <3>1. Idle
      BY <1>2, <1>4, <1>5, <2>4 DEF PairOK
    <3> QED BY <1>1, <1>2, <1>3, <2>1, <3>1, <1>8 DEF PairOK
  <2>5. CASE steer[e] = "pending" /\ steer'[e] = "delivered" /\ status[steerRun[e]] \in Resumable
    <3>1. CASE steerRun[e] = r
      <4>1. status[r] \notin Works \cup Broken
        BY <2>5, <3>1 DEF Resumable, Works, Broken
      <4>2. ~InControls(e, r) /\ e \notin ToSet(taken[r]) /\ ~Reporting(e, r) /\ ~Breaking(r)
        BY <4>1, EndedHasNothing, NoElements DEF Breaking, Gone, LastOf
      <4>3. Idle
        BY <1>1, <1>2, <2>5, <4>2 DEF PairOK
      <4> QED BY <1>1, <1>2, <1>3, <1>8, <2>1, <4>3 DEF PairOK
    <3>2. CASE steerRun[e] # r
      <4>1. Idle
        BY <1>2, <1>4, <1>6, <2>5, <3>2 DEF PairOK
      <4> QED BY <1>1, <1>2, <1>3, <1>8, <2>1, <4>1 DEF PairOK
    <3> QED BY <3>1, <3>2
  <2> QED BY <1>1, <2>2, <2>3, <2>4, <2>5, OperationSteers
<1> QED BY <1>7, <1>8

\* The driver moves on or carries out an effect.
LEMMA PairDriver ==
  ASSUME Typed, OpenOK, HeldOK, RequestsOK, GivenOK, [RunnerNext]_runnerVars,
         Proceeds \/ TimePasses \/ ApplyFails \/ Shutdown \/ (\E x \in todo : Starts(x) \/ Cancels(x) \/ Tells(x)) \/ UNCHANGED runnerVars,
         NEW e \in Events, NEW r \in RunIds
  PROVE  PairOK(e, r)'
<1>0. ChannelsTyped /\ PlaceTyped /\ DriverOK /\ WorkersOK /\ JournalOK
  BY DEF Typed, RunnerTypeOK, ChannelsTyped, PlaceTyped
<1>1. PairOK(e, r)
  BY DEF GivenOK
<1>2. Breaking(r) /\ UNCHANGED <<updates, worker, outcome>> => Breaking(r)'
  BY BrokenStays DEF Breaking, LastOf
<1>3. CASE Proceeds \/ TimePasses \/ ApplyFails \/ Shutdown \/ UNCHANGED runnerVars
  <2>1. /\ UNCHANGED <<controls, updates, taken, got, worker, outcome, input, steer, steerRun>>
        /\ Steer(r, e) \in todo' => Steer(r, e) \in todo
        /\ pc' \notin {"shutdown", "down"} => pc \notin {"shutdown", "down"}
    BY <1>0, <1>3
       DEF Proceeds, TimePasses, ApplyFails, Shutdown, Lapse, runnerVars, channelVars, workerVars, driverVars, vars, runVars, steerVars,
           Started, DriverOK, Cancel, Steer
  <2>2. /\ InControls(e, r)' <=> InControls(e, r)
        /\ Once(e, r)' <=> Once(e, r)
        /\ Reporting(e, r)' <=> Reporting(e, r)
    BY <2>1 DEF InControls, Once, Reporting
  <2>3. status'[r] = status[r] \/ (status[r] = "queued" /\ status'[r] = "running")
    BY <1>0, <1>3 DEF Proceeds, TimePasses, ApplyFails, Started, Shutdown, Lapse, runnerVars, vars, runVars, JournalOK, TypeOK
  <2>4. Breaking(r) => Breaking(r)'
    BY <2>1, <2>3 DEF Breaking, Broken, LastOf
  <2> QED BY <1>1, <2>1, <2>2, <2>3, <2>4 DEF PairOK, Ahead
<1>4. ASSUME NEW x \in todo, Starts(x)
      PROVE  PairOK(e, r)'
  <2>1. /\ UNCHANGED <<controls, updates, taken, got, outcome, input, steer, steerRun, pc>> /\ todo' = todo \ {x}
        /\ x.run \in RunIds /\ status[x.run] = "queued" /\ status' = [status EXCEPT ![x.run] = "running"]
        /\ worker' = [worker EXCEPT ![x.run] = "handshake"] /\ x.type = "start"
    BY <1>0, <1>4, EffectFields DEF Starts, ApplyStart, Started, PlaceTyped, steerVars
  <2>2. /\ InControls(e, r)' <=> InControls(e, r)
        /\ Once(e, r)' <=> Once(e, r)
        /\ Reporting(e, r)' <=> Reporting(e, r)
    BY <2>1 DEF InControls, Once, Reporting
  <2>3. CASE r = x.run
    <3>1. taken[r] = <<>> /\ status'[r] = "running" /\ ~InControls(e, r) /\ ~Reporting(e, r) /\ ~Breaking(r)
      BY <1>0, <2>1, <2>3, EndedHasNothing DEF Works, Breaking, Gone, Broken, LastOf, JournalOK, TypeOK
    <3> QED BY <1>1, <2>1, <2>2, <3>1, NoElements DEF PairOK, Ahead
  <2>4. CASE r # x.run
    <3>1. status'[r] = status[r] /\ worker'[r] = worker[r]
      BY <1>0, <2>1, <2>4 DEF ChannelsTyped, JournalOK, TypeOK
    <3>2. Breaking(r) => Breaking(r)'
      BY <2>1, <3>1 DEF Breaking, LastOf
    <3> QED BY <1>1, <2>1, <2>2, <3>1, <3>2 DEF PairOK, Ahead
  <2> QED BY <2>3, <2>4
<1>5. ASSUME NEW x \in todo, Cancels(x) \/ Tells(x)
      PROVE  PairOK(e, r)'
  <2>1. /\ UNCHANGED <<updates, taken, got, worker, outcome, input, steer, steerRun, pc>> /\ todo' = todo \ {x} /\ x \in Effects
        /\ (Send(x.run, x) /\ x.run \in open) \/ UNCHANGED controls
    BY <1>0, <1>5 DEF Cancels, Tells, ApplyCancel, ApplyControl, Finished, PlaceTyped, workerVars, vars, runVars, steerVars
  <2>2. status'[r] = "cancelling" => status[r] = "cancelling"
    BY <1>0, <1>5 DEF Cancels, Tells, ApplyCancel, ApplyControl, Finished, SetStatus, vars, runVars, JournalOK, TypeOK
  <2>3. /\ InControls(e, r)' => InControls(e, r) \/ x = Steer(r, e)
        /\ Once(e, r) /\ (InControls(e, r) => x # Steer(r, e)) => Once(e, r)'
        /\ Reporting(e, r)' <=> Reporting(e, r)
    BY <1>0, <2>1, SendSteers DEF Reporting
  <2> QED BY <1>1, <1>2, <2>1, <2>2, <2>3 DEF PairOK, Ahead
<1> QED BY <1>3, <1>4, <1>5

\* A reported follow-up is settled; a report that is not heard is of a run being
\* cancelled, whose follow-ups do not wait.
LEMMA PairReceive ==
  ASSUME Typed, OpenOK, HeldOK, RequestsOK, GivenOK, Receive, [RunnerNext]_runnerVars,
         NEW e \in Events, NEW r \in RunIds
  PROVE  PairOK(e, r)'
<1> DEFINE u == Head(updates)
<1>0. ChannelsTyped /\ PlaceTyped /\ JournalOK
  BY DEF Typed, RunnerTypeOK, ChannelsTyped, PlaceTyped
<1>1. PairOK(e, r)
  BY DEF GivenOK
<1>2. u \in Published /\ u = updates[1] /\ 1 \in DOMAIN updates
  BY <1>0, Tailed DEF Receive, ChannelsTyped
<1>3. u.run \in RunIds /\ u.run \in open /\ status[u.run] \in Works
  BY <1>2, UpdateFields DEF OpenOK
<1>4. /\ IF Listens(u) THEN Hear(u) ELSE UNCHANGED vars
      /\ UNCHANGED <<pc, todo, controls, taken, got, worker, outcome>>
      /\ updates' = Tail(updates) /\ updates # <<>>
  BY DEF Receive, driverVars, workerVars
<1>5. /\ Reporting(e, r) <=> Reporting(e, r)' \/ (u.type = "steered" /\ u.run = r /\ u.about = e)
      /\ (\E i \in DOMAIN updates : LastOf(r, i) /\ updates[i].about \in Broken)
           <=> \/ (\E i \in DOMAIN updates : LastOf(r, i) /\ updates[i].about \in Broken)'
               \/ u.type = "finished" /\ u.run = r /\ u.about \in Broken
  BY <1>0, <1>4, ReceiveReports
<1> HIDE DEF u
<1>6. /\ InControls(e, r)' <=> InControls(e, r)
      /\ Once(e, r)' <=> Once(e, r)
  BY <1>4 DEF InControls, Once
<1>7. /\ input' = input /\ steerRun' = steerRun
      /\ status'[r] = "cancelling" => status[r] = "cancelling"
      /\ steer'[e] = steer[e]
           \/ (steer'[e] = "delivered" /\ u.type = "steered" /\ u.about = e /\ steer[e] = "pending" /\ steerRun[e] = u.run)
      /\ u.type = "steered" /\ u.about = e /\ steer[e] = "pending" /\ steerRun[e] = u.run /\ Listens(u) => steer'[e] = "delivered"
  BY <1>2, <1>4, HearSteers DEF vars, runVars, steerVars
<1>8. input[r] = e => steer[e] # "pending"
  BY <1>0, InputsDoNotWait DEF Feeds
<1>9. u.type = "steered" /\ ~Listens(u) => status[u.run] = "cancelling"
  BY <1>3 DEF Listens, Hears, Works
<1>10. Breaking(r) => Breaking(r)'
  <2>1. CASE status[r] \in Broken
    BY <2>1, BrokenStays DEF Breaking
  <2>2. CASE worker[r] = "ending" /\ outcome[r] \in Broken
    BY <1>4, <2>2 DEF Breaking
  <2>3. CASE \E i \in DOMAIN updates : LastOf(r, i) /\ updates[i].about \in Broken
    <3>1. CASE u.type = "finished" /\ u.run = r /\ u.about \in Broken
      <4>1. Listens(u)
        BY <1>3, <3>1 DEF Listens, Works, Active
      <4>2. status'[r] = u.about
        BY <1>2, <1>4, <3>1, <4>1, HearRuns
      <4> QED BY <3>1, <4>2 DEF Breaking
    <3>2. CASE ~(u.type = "finished" /\ u.run = r /\ u.about \in Broken)
      BY <1>5, <2>3, <3>2 DEF Breaking
    <3> QED BY <3>1, <3>2
  <2> QED BY <2>1, <2>2, <2>3 DEF Breaking
<1>11. steer'[e] = "delivered" /\ steer[e] = "pending" => u.run \in got[e] /\ ~Ahead(e, r)
  <2> SUFFICES ASSUME u.type = "steered", u.about = e, steer[e] = "pending", steerRun[e] = u.run
               PROVE  u.run \in got[e] /\ ~Ahead(e, r)
    BY <1>7
  <2>1. Reporting(e, u.run)
    BY <1>2 DEF Reporting
  <2>2. u.run \in got[e]
    BY <1>3, <2>1 DEF GivenOK, PairOK
  <2> QED BY <1>1, <2>2 DEF PairOK
<1>12. u.type = "steered" /\ u.run = r /\ u.about = e /\ steer[e] = "pending" /\ r \in got[e] => steer'[e] # "pending"
  BY <1>1, <1>7, <1>8, <1>9 DEF PairOK
<1> QED
  BY <1>1, <1>4, <1>5, <1>6, <1>7, <1>8, <1>10, <1>11, <1>12 DEF PairOK, Ahead

\* The process stops, is killed or starts again: texts on their way are lost.
LEMMA PairDown ==
  ASSUME Typed, OpenOK, HeldOK, GivenOK, Exit \/ Crash \/ (\E p \in Policies : Restart(p)),
         NEW e \in Events, NEW r \in RunIds
  PROVE  PairOK(e, r)'
<1>0. ChannelsTyped /\ PlaceTyped /\ DriverOK /\ WorkersOK /\ JournalOK
  BY DEF Typed, RunnerTypeOK, ChannelsTyped, PlaceTyped
<1>1. PairOK(e, r)
  BY DEF GivenOK
<1> DEFINE empty == <<>>
<1>2. DOMAIN empty = {}
  OBVIOUS
<1>3. CASE Exit \/ Crash
  <2>1. /\ controls' = [p \in RunIds |-> empty] /\ updates' = empty /\ todo' = {} /\ taken' = [p \in RunIds |-> <<>>] /\ got' = got
        /\ pc' = "down"
    BY <1>3 DEF Exit, Crash, Vanish
  <2> HIDE DEF empty
  <2>2. ~InControls(e, r)' /\ Once(e, r)' /\ ~Reporting(e, r)'
    BY <1>2, <2>1 DEF InControls, Once, Reporting
  <2>3. input' = input /\ steerRun' = steerRun /\ (steer[e] # "none" => steer'[e] # "none")
    BY <1>0, <1>3 DEF Exit, Crash, Recover, vars, runVars, steerVars
  <2>4. e \notin ToSet(taken'[r]) /\ ~Ahead(e, r)'
    BY <2>1, <2>2, NoElements DEF Ahead
  <2>5. steer'[e] = "pending" => UNCHANGED <<steer, status>>
    BY <1>0, <1>3 DEF Exit, Crash, Recover, vars, runVars, steerVars, JournalOK, TypeOK
  <2> QED BY <1>1, <2>1, <2>2, <2>3, <2>4, <2>5 DEF PairOK
<1>4. ASSUME NEW p \in Policies, Restart(p)
      PROVE  PairOK(e, r)'
  <2>1. /\ UNCHANGED <<controls, updates, todo, taken, got>> /\ open = {} /\ todo = {}
        /\ input' = input /\ steerRun' = steerRun /\ steer'[e] # "pending" /\ (steer[e] # "none" => steer'[e] # "none")
    BY <1>0, <1>4 DEF Restart, Recover, channelVars, workerVars, DriverOK, OpenOK, runVars, JournalOK, TypeOK
  <2>2. worker[r] \in Gone /\ DOMAIN updates = {}
    BY <2>1 DEF OpenOK
  <2>3. controls[r] = empty /\ taken[r] = <<>>
    BY <2>2 DEF HeldOK, Prompted, Gone
  <2> HIDE DEF empty
  <2>4. ~InControls(e, r)' /\ Once(e, r)' /\ ~Reporting(e, r)'
    BY <1>2, <2>1, <2>2, <2>3 DEF InControls, Once, Reporting
  <2> QED BY <1>1, <2>1, <2>3, <2>4, NoElements DEF PairOK, Ahead
<1> QED BY <1>3, <1>4

\* A step of a worker does nothing to another's.
LEMMA WorkersApart ==
  ASSUME Typed, WorkerNext, NEW p \in RunIds, WorkerStep(p), NEW r \in RunIds \ {p}, NEW e \in Events
  PROVE  /\ controls'[r] = controls[r] /\ taken'[r] = taken[r] /\ worker'[r] = worker[r] /\ outcome'[r] = outcome[r]
         /\ r \in got'[e] <=> r \in got[e]
         /\ Reporting(e, r)' <=> Reporting(e, r)
         /\ (\E i \in DOMAIN updates : LastOf(r, i) /\ updates[i].about \in Broken)'
              <=> \E i \in DOMAIN updates : LastOf(r, i) /\ updates[i].about \in Broken
<1> DEFINE Own == /\ controls'[r] = controls[r] /\ taken'[r] = taken[r] /\ worker'[r] = worker[r] /\ outcome'[r] = outcome[r]
                  /\ r \in got'[e] <=> r \in got[e]
           Breaks == \E i \in DOMAIN updates : LastOf(r, i) /\ updates[i].about \in Broken
<1>0. ChannelsTyped /\ updates' \in Seq(Published)
  BY WorkerTyped DEF Typed, RunnerTypeOK, ChannelsTyped
<1>1. Own
  <2> USE <1>0 DEF ChannelsTyped, channelVars, workerVars
  <2>1. CASE Ready(p)
    BY <2>1 DEF Ready
  <2>2. CASE Take(p)
    BY <2>2 DEF Take
  <2>3. ASSUME NEW s \in {"completed", "failed", "cancelled"}, Respond(p, s)
        PROVE  Own
    <3>1. /\ controls' = controls /\ worker' \in {[worker EXCEPT ![p] = "continuing"], [worker EXCEPT ![p] = "ending"]}
          /\ outcome' \in {outcome, [outcome EXCEPT ![p] = Outcome(p, s)]}
          /\ got' \in {got, [d \in Events |-> IF d \in ToSet(taken[p]) THEN got[d] \cup {p} ELSE got[d]]}
      BY <2>3 DEF Respond
    <3>2. taken' = taken \/ taken' = [taken EXCEPT ![p] = IF AfterTurn THEN <<>> ELSE @]
      BY <2>3 DEF Respond
    <3>3. controls'[r] = controls[r] /\ taken'[r] = taken[r] /\ worker'[r] = worker[r] /\ outcome'[r] = outcome[r]
      BY <3>1, <3>2
    <3>4. CASE got' = got
      BY <3>3, <3>4
    <3>5. CASE got' = [d \in Events |-> IF d \in ToSet(taken[p]) THEN got[d] \cup {p} ELSE got[d]]
      <4>1. got'[e] = got[e] \/ got'[e] = got[e] \cup {p}
        BY <3>5
      <4>2. r # p
        OBVIOUS
      <4> QED BY <3>3, <4>1, <4>2
    <3> QED BY <3>1, <3>4, <3>5
  <2>4. ASSUME NEW s \in {"failed", "interrupted"}, GiveUp(p, s)
        PROVE  Own
    BY <2>4 DEF GiveUp
  <2>5. CASE Say(p) \/ (\E q \in Requests : Ask(p, q)) \/ Report(p) \/ Continue(p) \/ Finish(p)
    BY <2>5 DEF Say, Ask, Report, Continue, Finish
  <2> QED BY <2>1, <2>2, <2>3, <2>4, <2>5 DEF WorkerStep
<1>2. (Reporting(e, r)' <=> Reporting(e, r)) /\ (Breaks' <=> Breaks)
  <2>1. CASE updates' = updates
    BY <2>1 DEF Reporting, LastOf
  <2>2. ASSUME NEW t, NEW x, Publish(t, p, x)
        PROVE  (Reporting(e, r)' <=> Reporting(e, r)) /\ (Breaks' <=> Breaks)
    <3>1. r # p
      OBVIOUS
    <3> QED BY <1>0, <2>2, <3>1, PublishReports
  <2>3. updates' = updates \/ \E t, x : Publish(t, p, x)
    BY DEF WorkerStep, Ready, Say, Ask, Take, Respond, GiveUp, Report, Continue, Finish, channelVars
  <2> QED BY <2>1, <2>2, <2>3
<1> QED BY <1>1, <1>2

\* A worker hands a text on from its channel to its agent and reports it.
LEMMA PairWorker ==
  ASSUME Typed, OpenOK, HeldOK, RequestsOK, GivenOK, WorkerNext,
         NEW e \in Events, NEW r \in RunIds
  PROVE  PairOK(e, r)'
<1> DEFINE Breaks == \E i \in DOMAIN updates : LastOf(r, i) /\ updates[i].about \in Broken
<1>0. ChannelsTyped /\ JournalOK /\ updates' \in Seq(Published)
  BY WorkerTyped DEF Typed, RunnerTypeOK, ChannelsTyped
<1>1. PairOK(e, r)
  BY DEF GivenOK
<1>2. UNCHANGED <<status, input, steer, steerRun, pc, todo>>
  BY DEF WorkerNext, vars, runVars, steerVars, driverVars
<1>3. Breaking(r) <=> \/ status[r] \in Broken
                      \/ worker[r] = "ending" /\ outcome[r] \in Broken
                      \/ Breaks
  BY DEF Breaking
<1>4. Breaking(r)' <=> \/ status[r] \in Broken
                       \/ worker'[r] = "ending" /\ outcome'[r] \in Broken
                       \/ Breaks'
  BY <1>2 DEF Breaking
<1>5. taken[r] # <<>> => worker[r] \in Prompted
  BY DEF HeldOK
<1> HIDE DEF Breaks
<1>6. ASSUME UNCHANGED updates
      PROVE  (Breaks' <=> Breaks) /\ (Reporting(e, r)' <=> Reporting(e, r))
  BY <1>6 DEF Breaks, Reporting, LastOf
<1>7. ASSUME NEW t, NEW x, Publish(t, r, x)
      PROVE  /\ Reporting(e, r)' <=> Reporting(e, r) \/ (t = "steered" /\ x = e)
             /\ Breaks' <=> Breaks \/ (t = "finished" /\ x \in Broken)
  <2>1. Reporting(e, r)' <=> Reporting(e, r) \/ (t = "steered" /\ r = r /\ x = e)
    BY <1>0, <1>7, PublishReports
  <2>2. Breaks' <=> Breaks \/ (t = "finished" /\ r = r /\ x \in Broken)
    BY <1>0, <1>7, PublishReports DEF Breaks
  <2> QED BY <2>1, <2>2
<1>8. ASSUME UNCHANGED controls
      PROVE  (InControls(e, r)' <=> InControls(e, r)) /\ (Once(e, r)' <=> Once(e, r))
  BY <1>8 DEF InControls, Once
<1>9. ASSUME NEW p \in RunIds, WorkerStep(p), p # r
      PROVE  PairOK(e, r)'
  <2>1. /\ controls'[r] = controls[r] /\ taken'[r] = taken[r] /\ worker'[r] = worker[r] /\ outcome'[r] = outcome[r]
        /\ r \in got'[e] <=> r \in got[e]
        /\ Reporting(e, r)' <=> Reporting(e, r)
        /\ Breaks' <=> Breaks
    BY <1>9, WorkersApart DEF Breaks
  <2>2. (InControls(e, r)' <=> InControls(e, r)) /\ (Once(e, r)' <=> Once(e, r))
    BY <2>1 DEF InControls, Once
  <2> QED BY <1>1, <1>2, <1>3, <1>4, <2>1, <2>2 DEF PairOK, Ahead
<1>10. ASSUME Ready(r)
       PROVE  PairOK(e, r)'
  <2>1. /\ worker[r] = "handshake" /\ worker' = [worker EXCEPT ![r] = "turn"] /\ UNCHANGED <<controls, outcome, taken>>
        /\ got' = [d \in Events |-> IF Feeds(d, r) THEN got[d] \cup {r} ELSE got[d]]
        /\ \E s : Publish("ready", r, s)
    BY <1>10 DEF Ready
  <2>2. worker'[r] = "turn" /\ taken[r] = <<>>
    BY <1>0, <1>5, <2>1 DEF ChannelsTyped, Prompted
  <2>3. r \in got'[e] <=> r \in got[e] \/ Feeds(e, r)
    BY <2>1
  <2>4. Feeds(e, r) => steer[e] \in {"none", "delivered"}
    BY <1>0, InputsDoNotWait
  <2>5. (Breaks' <=> Breaks) /\ (Reporting(e, r)' <=> Reporting(e, r))
    BY <1>7, <2>1
  <2> QED BY <1>1, <1>2, <1>3, <1>4, <1>8, <2>1, <2>2, <2>3, <2>4, <2>5, NoElements DEF PairOK, Ahead, Feeds
<1>11. ASSUME Say(r) \/ (\E q \in Requests : Ask(r, q))
       PROVE  PairOK(e, r)'
  <2>1. /\ UNCHANGED <<controls, worker, outcome, taken, got>>
        /\ \E x : \E t \in {"text", "tool", "permission"} : Publish(t, r, x)
    BY <1>11 DEF Say, Ask, workerVars
  <2>2. (Breaks' <=> Breaks) /\ (Reporting(e, r)' <=> Reporting(e, r))
    BY <1>7, <2>1
  <2> QED BY <1>1, <1>2, <1>3, <1>4, <1>8, <2>1, <2>2 DEF PairOK, Ahead
<1>12. ASSUME Take(r)
       PROVE  PairOK(e, r)'
  <2> DEFINE x == Head(controls[r])
             steered == x.type = "steer" /\ worker[r] = "turn"
  <2>1. /\ worker[r] \in {"turn", "stopping"} /\ controls[r] # <<>> /\ controls' = [controls EXCEPT ![r] = Tail(@)]
        /\ worker' = IF x.type = "cancel" THEN [worker EXCEPT ![r] = "stopping"] ELSE worker
        /\ taken' = [taken EXCEPT ![r] =
             IF steered THEN Append(@, x.event) ELSE IF x.type = "cancel" /\ AfterTurn THEN <<>> ELSE @]
        /\ got' = IF steered /\ ~AfterTurn THEN [got EXCEPT ![x.event] = @ \cup {r}] ELSE got
        /\ UNCHANGED <<updates, outcome>>
    BY <1>12 DEF Take
  <2>2. x \in Effects /\ x = controls[r][1] /\ 1 \in DOMAIN controls[r]
    BY <1>0, <2>1, Tailed DEF ChannelsTyped
  <2>3. x.run = r
    BY <2>2 DEF HeldOK
  <2>4. x.type = "steer" => x.event \in Events /\ x = Steer(r, x.event)
    BY <2>2, <2>3, EffectFields
  <2>5. /\ InControls(e, r)' => InControls(e, r)
        /\ Once(e, r)'
        /\ x = Steer(r, e) => InControls(e, r) /\ ~InControls(e, r)'
    BY <1>0, <1>1, <2>1, TakeSteers DEF PairOK
  <2>6. Steer(r, e).event = e
    BY DEF Steer
  <2> HIDE DEF x
  <2>7. CASE steered /\ x.event = e
    <3>1. x = Steer(r, e) /\ x.type # "cancel"
      BY <2>4, <2>7
    <3>2. ToSet(taken'[r]) = ToSet(taken[r]) \cup {e} /\ worker' = worker
      <4>1. taken'[r] = Append(taken[r], e) /\ taken[r] \in Seq(Events) /\ worker' = worker
        BY <1>0, <2>1, <2>7, <3>1 DEF ChannelsTyped
      <4> QED BY <4>1, Elements
    <3>3. IF AfterTurn THEN got' = got ELSE r \in got'[e]
      BY <1>0, <2>1, <2>7 DEF ChannelsTyped
    <3> QED BY <1>1, <1>2, <1>6, <2>1, <2>5, <2>7, <3>1, <3>2, <3>3 DEF PairOK, Ahead
  <2>8. CASE ~(steered /\ x.event = e)
    <3>0. /\ taken[r] \in Seq(Events)
          /\ \/ taken'[r] = taken[r]
             \/ AfterTurn /\ taken'[r] = <<>>
             \/ x.event \in Events /\ x.event # e /\ taken'[r] = Append(taken[r], x.event)
      BY <1>0, <2>1, <2>4, <2>8 DEF ChannelsTyped
    <3>5. x.event \in Events => ToSet(Append(taken[r], x.event)) = ToSet(taken[r]) \cup {x.event}
      BY <3>0, Elements
    <3>1. e \in ToSet(taken'[r]) => e \in ToSet(taken[r])
      BY <3>0, <3>5, NoElements
    <3>2. r \in got'[e] <=> r \in got[e]
      BY <1>0, <2>1, <2>4, <2>8 DEF ChannelsTyped
    <3>3. worker'[r] \in {"turn", "stopping"}
      BY <1>0, <2>1 DEF ChannelsTyped
    <3>4. e \in ToSet(taken[r]) /\ e \notin ToSet(taken'[r]) => AfterTurn
      BY <3>0, <3>5
    <3> QED BY <1>1, <1>2, <1>3, <1>4, <1>6, <2>1, <2>5, <3>1, <3>2, <3>3, <3>4 DEF PairOK, Ahead
  <2> QED BY <2>7, <2>8
<1>13. ASSUME NEW s \in {"completed", "failed", "cancelled"}, Respond(r, s)
       PROVE  PairOK(e, r)'
  <2>1. /\ worker[r] \in {"turn", "stopping"} /\ UNCHANGED <<controls, updates>>
    BY <1>13 DEF Respond, channelVars
  <2>2. CASE AfterTurn /\ worker[r] = "turn" /\ s = "completed" /\ taken[r] # <<>>
    <3>1. /\ worker' = [worker EXCEPT ![r] = "continuing"] /\ UNCHANGED <<outcome, taken>>
          /\ got' = [d \in Events |-> IF d \in ToSet(taken[r]) THEN got[d] \cup {r} ELSE got[d]]
      BY <1>13, <2>2 DEF Respond
    <3>2. worker'[r] = "continuing" /\ (r \in got'[e] <=> r \in got[e] \/ e \in ToSet(taken[r]))
      BY <1>0, <3>1 DEF ChannelsTyped
    <3> QED BY <1>1, <1>2, <1>3, <1>4, <1>6, <1>8, <2>1, <3>1, <3>2 DEF PairOK, Ahead
  <2>3. CASE ~(AfterTurn /\ worker[r] = "turn" /\ s = "completed" /\ taken[r] # <<>>)
    <3>1. /\ worker' = [worker EXCEPT ![r] = "ending"] /\ got' = got
          /\ taken' = [taken EXCEPT ![r] = IF AfterTurn THEN <<>> ELSE @]
      BY <1>13, <2>3 DEF Respond
    <3>2. worker'[r] = "ending" /\ taken'[r] = IF AfterTurn THEN <<>> ELSE taken[r]
      BY <1>0, <3>1 DEF ChannelsTyped
    <3> QED BY <1>1, <1>2, <1>3, <1>4, <1>6, <1>8, <2>1, <3>1, <3>2, NoElements DEF PairOK, Ahead
  <2> QED BY <2>2, <2>3
<1>14. ASSUME NEW s \in {"failed", "interrupted"}, GiveUp(r, s)
       PROVE  PairOK(e, r)'
  <2>1. /\ UNCHANGED <<controls, updates, got>> /\ worker' = [worker EXCEPT ![r] = "ending"]
        /\ outcome' = [outcome EXCEPT ![r] = s] /\ taken' = [taken EXCEPT ![r] = <<>>]
    BY <1>14 DEF GiveUp, channelVars
  <2>2. worker'[r] = "ending" /\ outcome'[r] \in Broken /\ taken'[r] = <<>>
    BY <1>0, <2>1 DEF ChannelsTyped, Broken
  <2> QED BY <1>1, <1>2, <1>4, <1>6, <1>8, <2>1, <2>2, NoElements DEF PairOK, Ahead
<1>15. ASSUME Report(r)
       PROVE  PairOK(e, r)'
  <2> DEFINE d == Head(taken[r])
  <2>1. /\ worker[r] \in {"continuing", "ending"} /\ taken[r] # <<>> /\ Publish("steered", r, d)
        /\ taken' = [taken EXCEPT ![r] = Tail(@)] /\ UNCHANGED <<controls, worker, outcome, got>>
    BY <1>15 DEF Report
  <2>2. ToSet(taken[r]) = ToSet(taken'[r]) \cup {d} /\ d \in Events
    BY <1>0, <2>1, Elements, Tailed DEF ChannelsTyped
  <2> HIDE DEF d
  <2>3. (Breaks' <=> Breaks) /\ (Reporting(e, r)' <=> Reporting(e, r) \/ d = e)
    BY <1>7, <2>1
  <2> QED BY <1>1, <1>2, <1>3, <1>4, <1>8, <2>1, <2>2, <2>3 DEF PairOK, Ahead
<1>16. ASSUME Continue(r)
       PROVE  PairOK(e, r)'
  <2>1. /\ worker[r] = "continuing" /\ taken[r] = <<>> /\ worker' = [worker EXCEPT ![r] = "turn"]
        /\ UNCHANGED <<controls, updates, outcome, taken, got>>
    BY <1>16 DEF Continue, channelVars
  <2> QED BY <1>1, <1>2, <1>3, <1>4, <1>6, <1>8, <2>1, NoElements DEF PairOK, Ahead
<1>17. ASSUME Finish(r)
       PROVE  PairOK(e, r)'
  <2>1. /\ worker[r] = "ending" /\ taken[r] = <<>> /\ Publish("finished", r, outcome[r])
        /\ controls' = [controls EXCEPT ![r] = <<>>] /\ UNCHANGED <<taken, got>>
    BY <1>17 DEF Finish
  <2>2. controls'[r] = <<>>
    BY <1>0, <2>1 DEF ChannelsTyped
  <2>3. ~InControls(e, r)' /\ Once(e, r)'
    BY <2>2 DEF InControls, Once
  <2>4. (Breaks' <=> Breaks \/ outcome[r] \in Broken) /\ (Reporting(e, r)' <=> Reporting(e, r))
    BY <1>7, <2>1
  <2> QED BY <1>1, <1>2, <1>3, <1>4, <2>1, <2>3, <2>4, NoElements DEF PairOK, Ahead
<1>18. ASSUME NEW q \in Requests, AskTimeout(q)
       PROVE  PairOK(e, r)'
  <2>1. UNCHANGED <<controls, updates, worker, outcome, taken, got>>
    BY <1>18 DEF AskTimeout, channelVars
  <2> QED BY <1>1, <1>2, <1>3, <1>4, <1>6, <1>8, <2>1 DEF PairOK, Ahead
<1> QED
  BY <1>9, <1>10, <1>11, <1>12, <1>13, <1>14, <1>15, <1>16, <1>17, <1>18 DEF WorkerNext, WorkerStep

\* Every text has one way to its agent, and the journal learns of it before it
\* could continue it elsewhere.
LEMMA NextGiven ==
  ASSUME Typed, OpenOK, HeldOK, RequestsOK, GivenOK, [RunnerNext]_runnerVars
  PROVE  GivenOK'
<1> SUFFICES ASSUME NEW e \in Events, NEW r \in RunIds PROVE PairOK(e, r)'
  BY DEF GivenOK
<1> QED
  BY PairOperates, PairDriver, PairReceive, PairDown, PairWorker, RunnerKinds DEF Other

-----------------------------------------------------------------------------
(* The limit of concurrent runs, and the order of continuations *)

\* A message is handled only when all that waited has been continued.
ClearedFirst == pc = "handle" /\ event \notin workload.commands => NoneWaits

\* The limit counts the conversations that will have a run when all that waits
\* has been continued.
LimitHeld == MaxConcurrent # 0 => Cardinality(Occupied) <= MaxConcurrent

LimitOK == PendingBound /\ WaitsAlone /\ ClearedFirst /\ LimitHeld

\* No more conversations are occupied than runs occupy them, and active runs
\* occupy one each.
LEMMA OccupiedSize ==
  ASSUME OneActiveRun
  PROVE  /\ IsFiniteSet(Occupied)
         /\ Cardinality(ActiveRuns) <= Cardinality(Occupied)
         /\ NoneWaits => Cardinality(Occupied) <= Cardinality(ActiveRuns)
<1> DEFINE S == {r \in RunIds : Occupies(r)}
           f == [r \in S |-> owner[r]]
           g == [r \in ActiveRuns |-> owner[r]]
<1>1. IsFiniteSet(S) /\ IsFiniteSet(ActiveRuns)
  BY FiniteAssumption, FS_Subset DEF ActiveRuns
<1>2. f \in Surjection(S, Occupied)
  BY DEF Surjection, Occupied
<1>3. IsFiniteSet(Occupied) /\ Cardinality(Occupied) <= Cardinality(S)
  BY <1>1, <1>2, FS_Surjection
<1>4. g \in Injection(ActiveRuns, Occupied)
  <2>1. g \in [ActiveRuns -> Occupied]
    BY DEF ActiveRuns, Occupied, Occupies
  <2>2. \A r, q \in ActiveRuns : g[r] = g[q] => r = q
    BY DEF ActiveRuns, OneActiveRun
  <2> QED BY <2>1, <2>2 DEF Injection, IsInjective
<1>5. Cardinality(ActiveRuns) <= Cardinality(Occupied)
  BY <1>3, <1>4, FS_Injection
<1>6. NoneWaits => S = ActiveRuns
  BY DEF NoneWaits, Occupies, ActiveRuns
<1> QED BY <1>3, <1>5, <1>6

\* Occupying fewer conversations keeps the limit.
LEMMA LimitKept ==
  ASSUME OneActiveRun, OneActiveRun', LimitHeld, Occupied' \subseteq Occupied
  PROVE  LimitHeld'
<1>1. IsFiniteSet(Occupied) /\ IsFiniteSet(Occupied')
  <2>1. IsFiniteSet(Occupied)
    BY OccupiedSize
  <2> QED BY <2>1, FS_Subset
<1>2. Cardinality(Occupied') <= Cardinality(Occupied) /\ Cardinality(Occupied') \in Nat /\ Cardinality(Occupied) \in Nat
  BY <1>1, FS_Subset, FS_CardinalityType
<1> DEFINE m == Cardinality(Occupied) n == Cardinality(Occupied')
<1>3. m \in Nat /\ n \in Nat /\ n <= m
  BY <1>2
<1>4. LimitHeld' <=> (MaxConcurrent # 0 => n <= MaxConcurrent)
  BY DEF LimitHeld
<1>5. MaxConcurrent # 0 => m <= MaxConcurrent
  BY DEF LimitHeld
<1> HIDE DEF m, n
<1> QED BY <1>3, <1>4, <1>5, ConfigAssumption

\* No active run ends so that its follow-ups may be continued.
EndsNone == \A r \in RunIds : status'[r] \in Resumable => status[r] \notin Active

\* Between the continuations and the message that they precede, nothing is
\* created and nothing ends so that it could be continued.
KeepsClear ==
  /\ CreatesNone
  /\ pc' = "handle" /\ event' \notin workload'.commands =>
       pc = "handle" /\ event \notin workload.commands /\ EndsNone

\* Runs are created by the message that is handled and by continuations, and
\* the place of the driver tells when nothing waits.
LEMMA Creations ==
  ASSUME Typed, [RunnerNext]_runnerVars
  PROVE  \/ /\ pc = "handle" /\ pc' = "idle" /\ event \in Events /\ event \notin workload.commands
            /\ \E r \in RunIds : HandleRequest(event, snapshot, r)
         \/ ResumePendingSteers
         \/ KeepsClear
<1> USE DEF At, Return, KeepsClear
<1>1. ASSUME NEW e \in Events, NEW snap \in Snapshots, BeginIngest(e, snap)
      PROVE  KeepsClear
  BY <1>1 DEF BeginIngest, vars, runVars, CreatesNone
<1>2. ASSUME IngestReconcile
      PROVE  KeepsClear
  <2>1. event' = event /\ workload' = workload /\ (pc' = "handle" => event \in workload.commands)
    BY <1>2 DEF IngestReconcile, boundVars
  <2>2. CreatesNone
    BY <1>2 DEF IngestReconcile, ReconcileRoom, SetStatus, ActiveRuns, Active, CreatesNone
  <2> QED BY <2>1, <2>2
<1>3. ASSUME IngestResume \/ TickResume
      PROVE  ResumePendingSteers
  BY <1>3 DEF IngestResume, TickResume
<1>4. ASSUME IngestHandle
      PROVE  \/ /\ pc = "handle" /\ pc' = "idle" /\ event \in Events /\ event \notin workload.commands
                /\ \E r \in RunIds : HandleRequest(event, snapshot, r)
             \/ KeepsClear
  <2>1. pc = "handle" /\ pc' = "idle" /\ event \in Events
    BY <1>4 DEF IngestHandle, Typed, DriverOK
  <2>2. CASE HandleCommand(event, snapshot)
    <3>1. CreatesNone
      BY <2>2 DEF HandleCommand, CommandInform, CommandPermissions, CommandApprove, CommandStop, Settle, SetStatus,
                  ActiveRunsOf, ActiveRuns, Active, runVars, CreatesNone
    <3> QED BY <2>1, <3>1
  <2>3. CASE HandleMessage(event, snapshot) /\ event \notin workload.commands
    <3>1. CASE \E r \in RunIds : HandleRequest(event, snapshot, r)
      BY <2>1, <2>3, <3>1
    <3>2. CASE HandleBlank(event, snapshot) \/ HandleAtLimit(event, snapshot) \/ \E r \in RunIds : HandleFollowUp(event, snapshot, r)
      <4>1. CreatesNone
        BY <3>2 DEF HandleBlank, HandleAtLimit, HandleFollowUp, runVars, CreatesNone
      <4> QED BY <2>1, <4>1
    <3> QED BY <2>3, <3>1, <3>2 DEF HandleMessage
  <2>4. CASE UNCHANGED vars
    <3>1. CreatesNone
      BY <2>4 DEF vars, runVars, CreatesNone
    <3> QED BY <2>1, <3>1
  <2> QED BY <1>4, <2>2, <2>3, <2>4 DEF IngestHandle
<1>5. ASSUME TickExpire
      PROVE  KeepsClear
  BY <1>5 DEF TickExpire, ExpireApprovals, Settle, CreatesNone
<1>6. ASSUME TickAutomatic
      PROVE  KeepsClear
  BY <1>6 DEF TickAutomatic, AutomaticApprovals, Settle, CreatesNone
<1>7. ASSUME NEW room \in Rooms, NEW snap \in Snapshots, Reconcile(room, snap)
      PROVE  KeepsClear
  BY <1>7 DEF Reconcile, ReconcileRoom, SetStatus, ActiveRuns, Active, CreatesNone
<1>8. ASSUME NEW r \in RunIds, PollMessage(r)
      PROVE  KeepsClear
  BY <1>8 DEF PollMessage, driverVars, ExplicitMessage, runVars, CreatesNone
<1>9. ASSUME Apply
      PROVE  KeepsClear
  <2>1. UNCHANGED <<pc, event, workload>>
    BY <1>9 DEF Apply, boundVars
  <2>2. PICK x \in todo : ApplyStart(x) \/ ApplyCancel(x) \/ ApplyControl(x)
    BY <1>9 DEF Apply
  <2>3. x.run \in RunIds
    BY EffectFields DEF Typed, RunnerTypeOK
  <2>4. \A r \in RunIds : status'[r] = status[r] \/ (status[r] \in Active /\ status'[r] \notin Resumable)
    BY <2>2, <2>3 DEF ApplyStart, ApplyCancel, ApplyControl, Started, Finished, SetStatus, vars, runVars, Active, Resumable,
                      Typed, JournalOK, TypeOK
  <2>5. CreatesNone /\ EndsNone
    BY <2>4 DEF CreatesNone, EndsNone, Active, Resumable
  <2> QED BY <2>1, <2>5
<1>10. ASSUME ApplyFails \/ Shutdown \/ Crash
       PROVE  KeepsClear
  <2>1. CreatesNone
    BY <1>10 DEF ApplyFails, Started, Shutdown, Crash, vars, runVars, CreatesNone, Typed, JournalOK, TypeOK
  <2> QED BY <1>10, <2>1 DEF ApplyFails, Shutdown, Crash, Vanish
<1>11. ASSUME Receive
       PROVE  KeepsClear
  <2> DEFINE u == Head(updates)
  <2>1. u \in Published
    BY <1>11, Tailed DEF Receive, Typed
  <2>2. pc' # "handle"
    BY <1>11 DEF Receive, driverVars
  <2>3. Hear(u) \/ UNCHANGED vars
    BY <1>11 DEF Receive
  <2> HIDE DEF u
  <2>4. CASE Hear(u)
    <3>1. u.type = "finished" => status[u.run] \in Active
      BY <2>1, <2>4, UpdateFields DEF Hear, Finished
    <3>2. CreatesNone
      BY <2>1, <2>4, <3>1, HearRuns DEF Works, Active, CreatesNone
    <3> QED BY <2>2, <3>2
  <2>5. CASE UNCHANGED vars
    BY <2>2, <2>5 DEF vars, runVars, CreatesNone
  <2> QED BY <2>3, <2>4, <2>5
<1>12. ASSUME Exit \/ \E p \in Policies : Restart(p)
       PROVE  KeepsClear
  BY <1>12 DEF Exit, Restart, Vanish, Recover, SetStatus, ActiveRuns, Active, CreatesNone
<1>13. ASSUME TimePasses \/ WorkerNext \/ UNCHANGED runnerVars
       PROVE  KeepsClear
  <2>1. UNCHANGED <<pc, event, workload, status>>
    BY <1>13 DEF TimePasses, WorkerNext, Lapse, runnerVars, driverVars, boundVars, vars, runVars
  <2>2. CreatesNone /\ EndsNone
    BY <2>1 DEF CreatesNone, EndsNone, Active, Resumable
  <2> QED BY <2>1, <2>2
<1> HIDE DEF KeepsClear
<1> QED
  BY <1>1, <1>2, <1>3, <1>4, <1>5, <1>6, <1>7, <1>8, <1>9, <1>10, <1>11, <1>12, <1>13
     DEF RunnerNext, Ingest, TickOn

\* A message that starts a run finds no conversation waiting, and occupies one
\* more than the active runs that were counted against the limit.
LEMMA RequestWithinLimit ==
  ASSUME JournalOK, OneActiveRun, NoneWaits,
         NEW e \in Events, NEW snap, NEW r \in RunIds, HandleRequest(e, snap, r)
  PROVE  NoneWaits' /\ LimitHeld'
<1>1. /\ status[r] = "none" /\ status' = [status EXCEPT ![r] = "queued"] /\ owner' = [owner EXCEPT ![r] = ConvOf[e]]
      /\ steer' = steer /\ steerRun' = steerRun /\ ~AtLimit
  BY DEF HandleRequest, steerVars
<1>2. \A q \in RunIds : /\ q # r => status'[q] = status[q] /\ owner'[q] = owner[q]
                        /\ q = r => status'[q] = "queued" /\ owner'[q] = ConvOf[e]
  BY <1>1 DEF JournalOK, TypeOK
<1>3. \A d \in Events : ~Waiting(d)'
  <2> SUFFICES ASSUME NEW d \in Events, steer[d] = "pending", status'[steerRun[d]] \in Resumable
               PROVE  FALSE
    BY <1>1 DEF Waiting
  <2>1. steerRun[d] \in RunIds
    BY DEF JournalOK, ForeignKeys
  <2>2. steerRun[d] # r
    BY <1>2 DEF Resumable
  <2>3. status[steerRun[d]] \in Resumable
    BY <1>2, <2>1, <2>2
  <2> QED BY <2>3 DEF NoneWaits, Waiting
<1>4. \A q \in RunIds : Occupies(q)' => q = r \/ (q # r /\ Occupies(q))
  BY <1>2, <1>3 DEF Occupies
<1>5. Occupied' \subseteq Occupied \cup {ConvOf[e]}
  BY <1>2, <1>4 DEF Occupied
<1> DEFINE n == Cardinality(Occupied) k == Cardinality(ActiveRuns) m == Cardinality(Occupied')
           big == Occupied \cup {ConvOf[e]}
<1>6. IsFiniteSet(Occupied) /\ n <= k /\ n \in Nat
  BY OccupiedSize, FS_CardinalityType
<1>7. k \in Nat
  BY FiniteAssumption, FS_Subset, FS_CardinalityType DEF ActiveRuns
<1>8. IsFiniteSet(big) /\ Cardinality(big) \in Nat /\ Cardinality(big) <= n + 1
  <2>1. /\ IsFiniteSet(big)
        /\ Cardinality(big) = IF ConvOf[e] \in Occupied THEN Cardinality(Occupied) ELSE Cardinality(Occupied) + 1
    BY <1>6, FS_AddElement
  <2>2. Cardinality(big) = n \/ Cardinality(big) = n + 1
    BY ONLY <2>1
  <2> HIDE DEF n
  <2> QED BY ONLY <1>6, <2>1, <2>2
<1>9. m <= Cardinality(big) /\ m \in Nat
  BY <1>5, <1>8, FS_Subset, FS_CardinalityType
<1>10. MaxConcurrent # 0 => ~(k >= MaxConcurrent)
  BY <1>1 DEF AtLimit
<1>11. LimitHeld' <=> (MaxConcurrent # 0 => m <= MaxConcurrent)
  BY DEF LimitHeld
<1> DEFINE j == Cardinality(big)
<1>12. j \in Nat /\ j <= n + 1 /\ m <= j /\ m \in Nat
  BY <1>8, <1>9
<1> HIDE DEF n, k, m, j, big
<1>13. LimitHeld'
  BY <1>6, <1>7, <1>10, <1>11, <1>12, ConfigAssumption
<1> QED BY <1>3, <1>13 DEF NoneWaits

\* Nothing waits beside an active run, or when a message is handled, so that
\* continuations never take more than the limit left.
LEMMA NextLimit ==
  ASSUME Typed, ConversationsAgree, OneActiveRun, OneActiveRun', LimitOK, [RunnerNext]_runnerVars
  PROVE  LimitOK'
<1>1. JournalOK /\ [Next]_vars /\ PendingBound /\ WaitsAlone /\ ClearedFirst /\ LimitHeld
  BY JournalStep DEF Typed, LimitOK
<1>2. PendingBound'
  BY <1>1, NextPendingBound
<1>3. ASSUME pc = "handle", pc' = "idle", event \in Events, event \notin workload.commands,
             NEW r \in RunIds, HandleRequest(event, snapshot, r)
      PROVE  LimitOK'
  <2>1. NoneWaits
    BY <1>1, <1>3 DEF ClearedFirst
  <2>2. NoneWaits' /\ LimitHeld'
    BY <1>1, <1>3, <2>1, RequestWithinLimit
  <2> QED BY <1>2, <1>3, <2>2 DEF LimitOK, WaitsAlone, NoneWaits, ClearedFirst
<1>4. CASE ResumePendingSteers
  <2>1. NoneWaits' /\ Occupied' \subseteq Occupied
    BY <1>1, <1>4, ResumeClears
  <2>2. LimitHeld'
    BY <1>1, <2>1, LimitKept
  <2> QED BY <1>2, <2>1, <2>2 DEF LimitOK, WaitsAlone, NoneWaits, ClearedFirst
<1>5. CASE KeepsClear
  <2>1. Shrinks
    BY <1>1, <1>5, OccupiedShrinks DEF KeepsClear, CreatesNone
  <2>2. LimitHeld'
    BY <1>1, <2>1, LimitKept DEF Shrinks
  <2>3. ClearedFirst'
    BY <1>1, <1>5, <2>1 DEF Shrinks, ClearedFirst, KeepsClear, EndsNone
  <2> QED BY <1>2, <2>1, <2>2, <2>3 DEF LimitOK, Shrinks
<1> QED BY <1>3, <1>4, <1>5, Creations

-----------------------------------------------------------------------------
(* Theorems about the specification *)

\* When the process is started for the first time, nothing is under way.
LEMMA InitRunner == RunnerInit => Typed /\ OpenOK /\ Attended /\ HeldOK /\ AskedOK /\ DecisionsOK
<1> SUFFICES ASSUME RunnerInit
             PROVE  Typed /\ OpenOK /\ Attended /\ HeldOK /\ AskedOK /\ DecisionsOK
  OBVIOUS
<1> DEFINE empty == <<>>
<1>1. JournalOK
  BY InitJournal DEF RunnerInit
<1>2. empty \in Seq(Published) /\ empty \in Seq(Effects) /\ Len(empty) = 0 /\ DOMAIN empty = {}
  OBVIOUS
<1>3. updates = empty /\ controls = [r \in RunIds |-> empty]
  BY DEF RunnerInit
<1> HIDE DEF empty
<1>4. ChannelsTyped
  BY <1>2, <1>3, RunnerAssumption DEF RunnerInit, ChannelsTyped, Phases
<1>5. PlaceTyped
  BY RunnerAssumption DEF RunnerInit, PlaceTyped
<1>6. DriverOK /\ WorkersOK
  BY DEF RunnerInit, DriverOK, WorkersOK
<1>7. Typed
  BY <1>1, <1>2, <1>3, <1>4, <1>5, <1>6, UpdatesHaveRuns DEF Typed, RunnerTypeOK, ChannelsTyped, PlaceTyped
<1>8. OpenOK
  BY <1>2, <1>3 DEF RunnerInit, OpenOK, Gone
<1>9. Attended
  BY DEF RunnerInit, Init, Attended, Active
<1>10. HeldOK
  <2>1. \A r \in RunIds : controls[r] = <<>> /\ DOMAIN controls[r] = {}
    BY <1>2, <1>3 DEF RunnerInit
  <2> QED BY <2>1 DEF RunnerInit, HeldOK
<1>11. AskedOK
  BY <1>2, <1>3 DEF RunnerInit, AskedOK
<1>12. DecisionsOK
  BY DEF RunnerInit, Init, DecisionsOK
<1> QED BY <1>7, <1>8, <1>9, <1>10, <1>11, <1>12

\* The driver and the workers keep their types and their bookkeeping: a worker
\* exists only for a run that was started, and what is published is about a run.
THEOREM RunnerCorrect == RunnerSpec => []Typed
<1>1. RunnerInit => Typed
  BY InitRunner
<1>2. Typed /\ [RunnerNext]_runnerVars => Typed'
  BY NextTyped
<1> QED BY <1>1, <1>2, PTL DEF RunnerSpec

\* The driver, its workers, a crash and a restart only ever do with the journal
\* what Bridge allows: all that is proved of Bridge holds of the whole process.
THEOREM RunnerJournal == RunnerSpec => Spec
<1>1. RunnerInit => Init
  BY DEF RunnerInit
<1>2. Typed /\ [RunnerNext]_runnerVars => [Next]_vars
  BY JournalStep
<1> QED BY <1>1, <1>2, RunnerCorrect, PTL DEF RunnerSpec, Spec

\* RunnerTypeOK of Runner: both kinds of channel stay within their capacity.
THEOREM RunnerTypeCorrect == RunnerSpec => []RunnerTypeOK
<1>1. Typed => RunnerTypeOK
  BY DEF Typed
<1> QED BY <1>1, RunnerCorrect, PTL

\* Runs, their entries in Runner.controls and their workers come and go together.
THEOREM OpenCorrect == RunnerSpec => [](OpenOK /\ Attended)
<1>1. RunnerInit => OpenOK /\ Attended
  BY InitRunner
<1>2. Typed /\ OpenOK /\ Attended /\ [RunnerNext]_runnerVars => OpenOK' /\ Attended'
  BY NextOpen
<1> QED BY <1>1, <1>2, RunnerCorrect, PTL DEF RunnerSpec

\* NoOrphans of Runner: whichever channel is full and however a stop races the
\* end of a turn, no active run is left without its dispatch, a worker, a report
\* or an end, but for those whose dispatch failed.
THEOREM NoOrphansCorrect == RunnerSpec => []NoOrphans
<1>1. Typed /\ OpenOK /\ Attended => NoOrphans
  <2> SUFFICES ASSUME Typed, OpenOK, Attended, pc \notin {"shutdown", "down"}, NEW r \in ActiveRuns
               PROVE  \/ r \in open /\ worker[r] \notin {"none", "gone"}
                      \/ \E i \in DOMAIN updates : updates[i].run = r /\ updates[i].type = "finished"
                      \/ {Start(r), Cancel(r)} \cap todo # {}
                      \/ r \in stranded /\ status[r] \in {"queued", "running"}
    BY DEF NoOrphans
  <2>1. \/ r \in open
        \/ Cancel(r) \in todo \/ Start(r) \in todo
        \/ r \in stranded /\ status[r] \in {"queued", "running"}
    BY DEF Attended, ActiveRuns
  <2> QED BY <2>1 DEF OpenOK, LastOf
<1> QED BY <1>1, RunnerCorrect, OpenCorrect, PTL

\* Channels hold messages of workers that live, and requests have one agent each.
THEOREM HeldCorrect == RunnerSpec => [](HeldOK /\ AskedOK)
<1>1. RunnerInit => HeldOK /\ AskedOK
  BY InitRunner
<1>2. Typed /\ OpenOK /\ HeldOK /\ AskedOK /\ [RunnerNext]_runnerVars => HeldOK' /\ AskedOK'
  BY NextHeld, NextAsked
<1> QED BY <1>1, <1>2, RunnerCorrect, OpenCorrect, PTL DEF RunnerSpec

\* DecisionsReachAgents of Runner: however a decision races a stop, the end of
\* the turn and full channels, the agent that waits for it will hear of it.
THEOREM DecisionsCorrect == RunnerSpec => []DecisionsReachAgents
<1>1. RunnerInit => DecisionsOK
  BY InitRunner
<1>2. Typed /\ OpenOK /\ HeldOK /\ AskedOK /\ DecisionsOK /\ [RunnerNext]_runnerVars => DecisionsOK'
  BY NextDecisions
<1>3. DecisionsOK => DecisionsReachAgents
  <2> SUFFICES ASSUME DecisionsOK, pc \notin {"shutdown", "down"}, NEW q \in Requests, NEW r \in RunIds,
                      approval[q] = "consumed", asker[q] = r
               PROVE  \/ worker[r] = "ending"
                      \/ \E x \in todo \cup {controls[r][i] : i \in DOMAIN controls[r]} :
                           x.run = r /\ (x.type = "cancel" \/ (x.type = "decide" /\ x.request = q))
    BY DEF DecisionsReachAgents
  <2>1. OnItsWay(q, r)
    BY DEF DecisionsOK
  <2> QED BY <2>1 DEF OnItsWay, Answers
<1> QED BY <1>1, <1>2, <1>3, RunnerCorrect, OpenCorrect, HeldCorrect, PTL DEF RunnerSpec

\* Every text is on one way to one agent, and the journal knows of it.
THEOREM GivenCorrect == RunnerSpec => []GivenOK
<1>1. RunnerInit => GivenOK
  <2> SUFFICES ASSUME RunnerInit, NEW e \in Events, NEW r \in RunIds
               PROVE  PairOK(e, r)
    BY DEF GivenOK
  <2> DEFINE empty == <<>>
  <2>1. empty = <<>> /\ DOMAIN empty = {}
    OBVIOUS
  <2>2. updates = empty /\ controls[r] = empty
    BY <2>1 DEF RunnerInit
  <2> HIDE DEF empty
  <2>3. got[e] = {} /\ taken[r] = <<>> /\ todo = {} /\ steer[e] = "none" /\ status[r] = "none"
    BY DEF RunnerInit, Init
  <2>4. ~InControls(e, r) /\ Once(e, r) /\ ~Reporting(e, r)
    BY <2>1, <2>2 DEF InControls, Once, Reporting
  <2> QED BY <2>3, <2>4, NoElements DEF PairOK, Ahead
<1>2. Typed /\ OpenOK /\ HeldOK /\ RequestsOK /\ GivenOK /\ [RunnerNext]_runnerVars => GivenOK'
  BY NextGiven
<1> QED BY <1>1, <1>2, RunnerCorrect, OpenCorrect, HeldCorrect, RunnerJournal, RequestsCorrect, PTL DEF RunnerSpec

\* GivenOnce of Runner: however the end of a turn, a stop, a crash and the
\* channels race, the text of a message reaches at most one agent run.
THEOREM GivenOnceCorrect == RunnerSpec => []GivenOnce
<1>1. Typed /\ RequestsOK /\ GivenOK => GivenOnce
  <2> SUFFICES ASSUME Typed, RequestsOK, GivenOK, NEW e \in Events
               PROVE  Cardinality(got[e]) <= 1
    BY DEF GivenOnce
  <2>1. got[e] \subseteq RunIds
    BY DEF Typed, RunnerTypeOK
  <2>2. \A r \in got[e] : (input[r] = e /\ status[r] # "none") \/ (steer[e] # "none" /\ steerRun[e] = r)
    BY <2>1, NoneAssumption DEF GivenOK, PairOK, Typed, JournalOK, ForeignKeys
  <2>3. \A r, q \in got[e] : r = q
    BY <2>1, <2>2 DEF RequestsOK, InputsAreGiven
  <2>4. CASE got[e] = {}
    BY <2>4, FS_EmptySet
  <2>5. ASSUME NEW r \in got[e]
        PROVE  Cardinality(got[e]) <= 1
    <3>1. got[e] = {r}
      BY <2>3
    <3>2. Cardinality({r}) = 1
      BY FS_Singleton
    <3> QED BY <3>1, <3>2
  <2> QED BY <2>4, <2>5
<1> QED BY <1>1, GivenCorrect, RunnerCorrect, RunnerJournal, RequestsCorrect, PTL

\* Follow-ups wait alone, and are cleared before a message is handled.
THEOREM LimitCorrect == RunnerSpec => []LimitOK
<1>1. RunnerInit => LimitOK
  <2> SUFFICES ASSUME RunnerInit
               PROVE  LimitOK
    OBVIOUS
  <2>1. /\ \A e \in Events : ~Waiting(e) /\ steer[e] # "pending"
        /\ \A r \in RunIds : ~Occupies(r)
    BY DEF RunnerInit, Init, Waiting, Occupies, Active
  <2>2. Occupied = {}
    BY <2>1 DEF Occupied
  <2>3. Cardinality(Occupied) = 0
    BY <2>2, FS_EmptySet
  <2> QED BY <2>1, <2>3, ConfigAssumption DEF RunnerInit, LimitOK, PendingBound, WaitsAlone, ClearedFirst, LimitHeld
<1>2. Typed /\ RequestsOK /\ OneActiveRun /\ OneActiveRun' /\ LimitOK /\ [RunnerNext]_runnerVars => LimitOK'
  BY NextLimit DEF RequestsOK
<1> QED BY <1>1, <1>2, RunnerCorrect, RunnerJournal, RequestsCorrect, OneActiveCorrect, PTL DEF RunnerSpec

\* WithinLimit of Runner: continuations are not counted against the limit of
\* concurrent workers, and yet it is never exceeded.
THEOREM WithinLimitCorrect == RunnerSpec => []WithinLimit
<1>1. Typed /\ OneActiveRun /\ LimitOK => WithinLimit
  <2> SUFFICES ASSUME OneActiveRun, LimitOK, MaxConcurrent # 0
               PROVE  Cardinality(ActiveRuns) <= MaxConcurrent
    BY DEF WithinLimit
  <2> DEFINE n == Cardinality(Occupied) k == Cardinality(ActiveRuns)
  <2>1. k <= n /\ n \in Nat
    BY OccupiedSize, FS_CardinalityType
  <2>2. k \in Nat
    BY FiniteAssumption, FS_Subset, FS_CardinalityType DEF ActiveRuns
  <2>3. n <= MaxConcurrent
    BY DEF LimitOK, LimitHeld
  <2> HIDE DEF n, k
  <2>4. k <= MaxConcurrent
    BY <2>1, <2>2, <2>3, ConfigAssumption
  <2> QED BY <2>4 DEF k
<1> QED BY <1>1, RunnerCorrect, LimitCorrect, RunnerJournal, OneActiveCorrect, PTL

\* OlderFirst of Runner: a run is created only when no follow-up that outlived
\* its run stays behind, in any conversation.
THEOREM OlderFirstCorrect == RunnerSpec => OlderFirst
<1>1. ASSUME Typed, OneActiveRun, LimitOK, [RunnerNext]_runnerVars
      PROVE  \A r \in RunIds :
               status[r] = "none" /\ status'[r] = "queued" =>
                 \A e \in Events : steer'[e] = "pending" => status'[steerRun'[e]] \notin Resumable
  <2>1. JournalOK /\ PendingBound /\ WaitsAlone /\ ClearedFirst
    BY <1>1 DEF Typed, LimitOK
  <2>2. NoneWaits' \/ CreatesNone
    <3>1. ASSUME pc = "handle", event \in Events, event \notin workload.commands,
                 NEW r \in RunIds, HandleRequest(event, snapshot, r)
          PROVE  NoneWaits'
      <4>1. NoneWaits
        BY <2>1, <3>1 DEF ClearedFirst
      <4> QED BY <1>1, <2>1, <3>1, <4>1, RequestWithinLimit
    <3>2. CASE ResumePendingSteers
      BY <2>1, <3>2, ResumeClears
    <3> QED BY <1>1, <3>1, <3>2, Creations DEF KeepsClear
  <2> QED BY <2>2 DEF NoneWaits, Waiting, CreatesNone
<1>2. Typed /\ OneActiveRun /\ LimitOK /\ [RunnerNext]_runnerVars =>
        [\A r \in RunIds :
           status[r] = "none" /\ status'[r] = "queued" =>
             \A e \in Events : steer'[e] = "pending" => status'[steerRun'[e]] \notin Resumable]_runnerVars
  BY <1>1
<1> QED BY <1>2, RunnerCorrect, LimitCorrect, RunnerJournal, OneActiveCorrect, PTL DEF RunnerSpec, OlderFirst
=============================================================================
