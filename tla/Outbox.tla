------------------------------- MODULE Outbox -------------------------------
(***************************************************************************)
(* The durable outbox of src/src/store.rs, the pass of src/src/matrix.rs   *)
(* that delivers it, and the replies to the scoped sending tool            *)
(* (src/src/runner.rs), against a homeserver that may be slow or silent.   *)
(*                                                                         *)
(* A row is named by its position in the table, which is also its Matrix   *)
(* transaction identifier.  Bodies are abstracted: a row is an ordinary    *)
(* text, the eyes reaction to a message, the reaction that reports the end *)
(* of its run, or one part of an explicit send.                            *)
(***************************************************************************)
EXTENDS Naturals, Sequences, FiniteSets

CONSTANTS
  Convs,       \* conversations
  Texts,       \* bound: ordinary texts the journal enqueues
  Messages,    \* bound: messages that get an eyes reaction and later a status
  Sends,       \* bound: calls of the sending tool
  ConvOf,      \* the conversation of each of these
  Parts,       \* into how many rows a send is split
  MaxFaults    \* bound: passes cut short, restarts and changes of a room, together

ASSUME OutboxAssumption ==
  /\ ConvOf \in [Texts \cup Messages \cup Sends -> Convs]
  /\ Parts \in Nat \ {0}
  /\ MaxFaults \in Nat

VARIABLES
  outbox,     \* the table, in rowid order
  delivered,  \* rows with a delivered_event
  failures,   \* rows in outbox_failures
  cleanup,    \* eyes rows with a row in reaction_cleanup
  cleaned,    \* those whose removal was acknowledged
  access,     \* what a pass finds when it asks for the snapshot of a conversation's
              \* room: "fit" if may_deliver accepts it, "unfit" if not, "closed" if
              \* there is no snapshot at all
  pc,         \* where the delivery pass is
  todo,       \* what it still has to do
  wire,       \* requests that have left and have not reached the server
  timeline,   \* rows the server shows, in order of arrival
  redacted,   \* rows the server no longer shows
  reply,      \* what the sending tool was answered
  held,       \* history: rows the policy held back
  faults      \* how many faults there were

tableVars  == <<outbox, delivered, failures, cleanup, cleaned>>
passVars   == <<pc, todo>>
serverVars == <<timeline, redacted>>
vars == <<tableVars, access, passVars, wire, serverVars, reply, held, faults>>

Row(kind, of) == [kind |-> kind, of |-> of]

Rows == DOMAIN outbox
ConvOfRow(i) == ConvOf[outbox[i].of]
OfSend(s) == {i \in Rows : outbox[i] = Row("part", s)}
Shown == {timeline[k] : k \in DOMAIN timeline}

\* A pass goes through its rows in rowid order.
Current == CHOOSE i \in todo : \A j \in todo : i <= j

\* What the snapshot it takes for the current row or removal says.
Found == access[ConvOfRow(Current)]

Init ==
  /\ outbox = <<>>
  /\ delivered = {} /\ failures = {} /\ cleanup = {} /\ cleaned = {}
  /\ access = [c \in Convs |-> "fit"]
  /\ pc = "idle" /\ todo = {}
  /\ wire = {}
  /\ timeline = <<>> /\ redacted = {}
  /\ reply = [s \in Sends |-> "none"]
  /\ held = {}
  /\ faults = 0

-----------------------------------------------------------------------------
(* The journal, between two passes *)

Enqueue(rows) ==
  /\ pc = "idle"
  /\ outbox' = outbox \o rows
  /\ UNCHANGED <<delivered, failures, cleanup, cleaned, access, passVars, wire, serverVars, held, faults>>

Enqueued(kind, x) == \E i \in Rows : outbox[i] = Row(kind, x)

PostText(x) == ~Enqueued("text", x) /\ Enqueue(<<Row("text", x)>>) /\ UNCHANGED reply

PostEyes(m) == ~Enqueued("eyes", m) /\ Enqueue(<<Row("eyes", m)>>) /\ UNCHANGED reply

\* Mutant: the eyes are given up as soon as the status is enqueued.
PostStatusEarly(m) ==
  /\ pc = "idle" /\ Enqueued("eyes", m) /\ ~Enqueued("status", m)
  /\ outbox' = Append(outbox, Row("status", m))
  /\ cleanup' = cleanup \cup {i \in Rows : outbox[i] = Row("eyes", m)}
  /\ UNCHANGED <<delivered, failures, cleaned, access, passVars, wire, serverVars, reply, held, faults>>

\* The status reaction follows the eyes reaction (MarksInOrder of Bridge).
PostStatus(m) ==
  /\ Enqueued("eyes", m) /\ ~Enqueued("status", m)
  /\ Enqueue(<<Row("status", m)>>)
  /\ UNCHANGED reply

\* poll_messages journals a request: all its parts in one transaction.
AcceptSend(s) ==
  /\ reply[s] = "none"
  /\ Enqueue([k \in 1..Parts |-> Row("part", s)])
  /\ reply' = [reply EXCEPT ![s] = "waiting"]

\* Mutant: a receipt does not wait for the last part.
AnswerEarly(s) ==
  IF OfSend(s) \cap failures # {} THEN "failed"
  ELSE IF OfSend(s) \cap delivered # {} THEN "sent" ELSE "waiting"

\* What poll_messages answers to a waiting send.
Answer(s) ==
  IF OfSend(s) \cap failures # {} THEN "failed"
  ELSE IF OfSend(s) \subseteq delivered THEN "sent" ELSE "waiting"

Answerable == {s \in Sends : reply[s] = "waiting" /\ Answer(s) # "waiting"}

\* poll_messages, before and after a pass, answers every send it can.
AnswerSends ==
  /\ pc = "idle" /\ Answerable # {}
  /\ reply' = [s \in Sends |-> IF s \in Answerable THEN Answer(s) ELSE reply[s]]
  /\ UNCHANGED <<tableVars, access, passVars, wire, serverVars, held, faults>>

-----------------------------------------------------------------------------
(* deliver: first the pending rows, then the pending removals *)

Pending == Rows \ (delivered \cup failures)

PendingRemovals == (cleanup \cap delivered) \ cleaned

BeginPass ==
  /\ pc = "idle" /\ Answerable = {}
  /\ pc' = "rows" /\ todo' = Pending
  /\ UNCHANGED <<tableVars, access, wire, serverVars, reply, held, faults>>

\* Mutant: a row the policy forbids fails, whatever it is.
HoldAny ==
  /\ pc = "rows" /\ todo # {} /\ Found = "unfit"
  /\ failures' = failures \cup {Current}
  /\ held' = held \cup {Current}
  /\ todo' = todo \ {Current}
  /\ UNCHANGED <<outbox, delivered, cleanup, cleaned, access, pc, wire, serverVars, reply, faults>>

\* The policy forbids the next row: an explicit one fails, others stay pending.
HoldRow ==
  /\ pc = "rows" /\ todo # {} /\ Found = "unfit"
  /\ failures' = IF outbox[Current].kind = "part" THEN failures \cup {Current} ELSE failures
  /\ held' = held \cup {Current}
  /\ todo' = todo \ {Current}
  /\ UNCHANGED <<outbox, delivered, cleanup, cleaned, access, pc, wire, serverVars, reply, faults>>

SubmitRow ==
  /\ pc = "rows" /\ todo # {} /\ Found = "fit"
  /\ wire' = wire \cup {<<"send", Current>>}
  /\ pc' = "sending"
  /\ UNCHANGED <<tableVars, access, todo, serverVars, reply, held, faults>>

\* Mutant: the rows after the status are compared.
LaterEyes(i) ==
  {j \in Rows : /\ outbox[i].kind = "status" /\ outbox[j] = Row("eyes", outbox[i].of)
                /\ j > i /\ j \notin cleanup}

\* The earlier eyes reactions to the message whose status row i reports.
Replaced(i) ==
  {j \in Rows : /\ outbox[i].kind = "status" /\ outbox[j] = Row("eyes", outbox[i].of)
                /\ j < i /\ j \notin cleanup}

\* The server acknowledged row i: Store::delivered.
ConfirmRow ==
  /\ pc = "sending" /\ <<"send", Current>> \notin wire
  /\ delivered' = delivered \cup {Current}
  /\ cleanup' = cleanup \cup Replaced(Current)
  /\ todo' = todo \ {Current} /\ pc' = "rows"
  /\ UNCHANGED <<outbox, failures, cleaned, access, wire, serverVars, reply, held, faults>>

BeginRemovals ==
  /\ pc = "rows" /\ todo = {}
  /\ pc' = "removals" /\ todo' = PendingRemovals
  /\ UNCHANGED <<tableVars, access, wire, serverVars, reply, held, faults>>

HoldRemoval ==
  /\ pc = "removals" /\ todo # {} /\ Found = "unfit"
  /\ todo' = todo \ {Current}
  /\ UNCHANGED <<tableVars, access, pc, wire, serverVars, reply, held, faults>>

SubmitRemoval ==
  /\ pc = "removals" /\ todo # {} /\ Found = "fit"
  /\ wire' = wire \cup {<<"redact", Current>>}
  /\ pc' = "redacting"
  /\ UNCHANGED <<tableVars, access, todo, serverVars, reply, held, faults>>

ConfirmRemoval ==
  /\ pc = "redacting" /\ <<"redact", Current>> \notin wire
  /\ cleaned' = cleaned \cup {Current}
  /\ todo' = todo \ {Current} /\ pc' = "removals"
  /\ UNCHANGED <<outbox, delivered, failures, cleanup, access, wire, serverVars, reply, held, faults>>

\* The room of the next row or removal has no snapshot: deliver returns the
\* error, and what comes after it is not reached.
NoSnapshot ==
  /\ pc \in {"rows", "removals"} /\ todo # {} /\ Found = "closed"
  /\ pc' = "idle" /\ todo' = {}
  /\ UNCHANGED <<tableVars, access, wire, serverVars, reply, held, faults>>

EndPass ==
  /\ pc = "removals" /\ todo = {}
  /\ pc' = "idle"
  /\ UNCHANGED <<tableVars, access, todo, wire, serverVars, reply, held, faults>>

\* Mutant: a pass goes on with the next row after an error.
CutRow ==
  /\ faults < MaxFaults /\ faults' = faults + 1
  /\ pc \in {"sending", "redacting"}
  /\ \E r \in {"send", "redact"} : wire' \in {wire, wire \ {<<r, Current>>}}
  /\ pc' = (IF pc = "sending" THEN "rows" ELSE "removals") /\ todo' = todo \ {Current}
  /\ UNCHANGED <<tableVars, access, serverVars, reply, held>>

\* An error, the deadline of the step or a signal ends the pass wherever it
\* waits; a request that has left may be lost or arrive later.
CutShort ==
  /\ faults < MaxFaults /\ faults' = faults + 1
  /\ pc # "idle"
  /\ \/ pc = "sending" /\ wire' \in {wire, wire \ {<<"send", Current>>}}
     \/ pc = "redacting" /\ wire' \in {wire, wire \ {<<"redact", Current>>}}
     \/ pc \in {"rows", "removals"} /\ todo # {} /\ UNCHANGED wire
  /\ pc' = "idle" /\ todo' = {}
  /\ UNCHANGED <<tableVars, access, serverVars, reply, held>>

\* The process stops; a waiting call is told that nothing was confirmed.
Restart ==
  /\ faults < MaxFaults /\ faults' = faults + 1
  /\ pc' = "idle" /\ todo' = {}
  /\ reply' = [s \in Sends |-> IF reply[s] = "waiting" THEN "unconfirmed" ELSE reply[s]]
  /\ UNCHANGED <<tableVars, access, wire, serverVars, held>>

-----------------------------------------------------------------------------
(* The homeserver and the room *)

\* A transaction identifier seen before does not make another event.
Arrive(i) ==
  /\ <<"send", i>> \in wire
  /\ wire' = wire \ {<<"send", i>>}
  /\ timeline' = IF i \in Shown THEN timeline ELSE Append(timeline, i)
  /\ UNCHANGED <<tableVars, access, passVars, redacted, reply, held, faults>>

ArriveRemoval(i) ==
  /\ <<"redact", i>> \in wire
  /\ wire' = wire \ {<<"redact", i>>}
  /\ redacted' = redacted \cup {i}
  /\ UNCHANGED <<tableVars, access, passVars, timeline, reply, held, faults>>

\* Members join or leave, encryption or the configured policy changes; or the
\* room is taken out of the configuration, is forgotten by the client, or its
\* members can no longer be fetched.
RoomChanges(c) ==
  /\ faults < MaxFaults /\ faults' = faults + 1
  /\ \E a \in {"fit", "unfit", "closed"} \ {access[c]} : access' = [access EXCEPT ![c] = a]
  /\ UNCHANGED <<tableVars, passVars, wire, serverVars, reply, held>>

-----------------------------------------------------------------------------
Journal ==
  \/ \E x \in Texts : PostText(x)
  \/ \E m \in Messages : PostEyes(m)
  \/ \E m \in Messages : PostStatus(m)
  \/ \E s \in Sends : AcceptSend(s)

Pass ==
  \/ BeginPass \/ HoldRow \/ SubmitRow \/ ConfirmRow
  \/ BeginRemovals \/ HoldRemoval \/ SubmitRemoval \/ ConfirmRemoval
  \/ NoSnapshot \/ EndPass

Next ==
  \/ Journal
  \/ AnswerSends
  \/ Pass
  \/ CutShort
  \/ Restart
  \/ \E i \in Rows : Arrive(i) \/ ArriveRemoval(i)
  \/ \E c \in Convs : RoomChanges(c)

Spec == Init /\ [][Next]_vars

\* The step is repeated for ever, and every request that is not lost arrives.
Fairness ==
  /\ WF_vars(AnswerSends)
  /\ WF_vars(Pass)
  /\ WF_vars(\E i \in Rows : Arrive(i) \/ ArriveRemoval(i))

FairSpec == Spec /\ Fairness

-----------------------------------------------------------------------------
(* Properties *)

Kinds == {"text", "eyes", "status", "part"}

\* Every table and every variable of the pass has its type: only explicit
\* sends fail for good, and only eyes reactions are cleaned up.
TypeOK ==
  /\ outbox \in Seq([kind : Kinds, of : Texts \cup Messages \cup Sends])
  /\ delivered \subseteq Rows
  /\ failures \subseteq {i \in Rows : outbox[i].kind = "part"} /\ failures \cap delivered = {}
  /\ cleanup \subseteq {i \in Rows : outbox[i].kind = "eyes"} /\ cleaned \subseteq cleanup
  /\ access \in [Convs -> {"fit", "unfit", "closed"}]
  /\ pc \in {"idle", "rows", "sending", "removals", "redacting"}
  /\ todo \subseteq Rows
  /\ wire \subseteq {"send", "redact"} \X Rows
  /\ timeline \in Seq(Rows) /\ redacted \subseteq Rows
  /\ reply \in [Sends -> {"none", "waiting", "sent", "failed", "unconfirmed"}]
  /\ held \subseteq Rows
  /\ faults \in 0..MaxFaults

\* Timeouts, retries and late requests never reorder what a room sees: a row
\* the policy did not hold back appears before every later row.
RowsInOrder ==
  \A k \in DOMAIN timeline : \A i \in Rows :
    i < timeline[k] /\ i \notin held => \E h \in 1..k : timeline[h] = i

\* What the journal and the sending tool were told is what the room saw: every
\* acknowledged row is shown, no row twice, and a receipt covers all its parts,
\* whatever was cut short, retried or late (messaging.rs:6, DeliveryReceipt).
ReceiptsAreHonest ==
  /\ delivered \subseteq Shown
  /\ \A k, h \in DOMAIN timeline : timeline[k] = timeline[h] => k = h
  /\ \A s \in Sends : reply[s] = "sent" => OfSend(s) \subseteq Shown

\* store.rs:221: an eyes reaction is taken away only once the status that
\* replaces it has reached the server, and nothing else is ever taken away.
EyesOutliveWork ==
  \A i \in redacted :
    /\ outbox[i].kind = "eyes"
    /\ \E j \in Shown : outbox[j] = Row("status", outbox[i].of)

\* A row is settled once it is acknowledged or refused for good.
Settled(i) == i \in delivered \cup failures

\* If a conversation stays fit for delivery and nothing waits for a room that
\* stays without a snapshot, all its rows are settled in the end, the sending
\* tool is answered, and a message with a status loses its eyes.  The second
\* premise is needed: NoSnapshot ends every pass at the same row.
OutboxDrains ==
  \A c \in Convs :
    <>[](/\ access[c] = "fit"
         /\ \A i \in Pending \cup PendingRemovals : access[ConvOfRow(i)] # "closed") =>
      []<>(/\ \A i \in Rows : ConvOfRow(i) = c => Settled(i)
           /\ \A s \in Sends : ConvOf[s] = c => reply[s] # "waiting"
           /\ \A m \in Messages :
                (ConvOf[m] = c /\ Enqueued("status", m)) =>
                  \E i \in cleaned : outbox[i] = Row("eyes", m))

\* POLICIES.md:40: "a policy-blocked explicit send fails and is not sent later".
BlockedSendsStay ==
  [][\A s \in Sends : reply[s] = "failed" =>
       \A i \in OfSend(s) : <<"send", i>> \in wire' => <<"send", i>> \in wire]_vars

=============================================================================
