---------------------------- MODULE OutboxProofs ----------------------------
(***************************************************************************)
(* Theorems about Outbox, proved for any number of conversations, texts,   *)
(* messages, sends, parts and faults.                                      *)
(*                                                                         *)
(* None of the invariants is inductive by itself: what is acknowledged was *)
(* shown only because the pass waits for its request, which may have been  *)
(* lost, repeated or late, and rows appear in order only because a pass    *)
(* submits a row after everything before it was acknowledged or held.      *)
(* OutboxOK says how a pass stands to the table, the wire and the room.    *)
(***************************************************************************)
EXTENDS Outbox, WellFoundedInduction, TLAPS

RowType == [kind : Kinds, of : Texts \cup Messages \cup Sends]

\* What a pass still has to do is what it found to be done, and what it has
\* passed by is acknowledged or was held.  It waits for a request until it has
\* reached the server.
PassKnows ==
  /\ pc \in {"rows", "sending"} =>
       /\ todo \cap (delivered \cup failures) = {}
       /\ Rows \subseteq delivered \cup held \cup todo
  /\ pc \in {"removals", "redacting"} => todo \subseteq cleanup
  /\ pc \in {"sending", "redacting"} => todo # {}
  /\ pc = "sending" => <<"send", Current>> \in wire \/ Current \in Shown

\* A request leaves only after everything before it was shown or held, and late
\* requests do not change that.
SubmittedInOrder ==
  /\ failures \subseteq held
  /\ \A i, j \in Rows :
       <<"send", i>> \in wire \/ i \in Shown => (j < i /\ j \notin held => j \in Shown)

\* Eyes are given up for a status that was acknowledged.
RemovalsJustified ==
  /\ \A i \in cleanup : \E j \in delivered : outbox[j] = Row("status", outbox[i].of)
  /\ \A i \in Rows : <<"redact", i>> \in wire => i \in cleanup
  /\ redacted \subseteq cleanup

OutboxOK ==
  /\ TypeOK
  /\ PassKnows
  /\ SubmittedInOrder
  /\ RemovalsJustified
  /\ RowsInOrder
  /\ ReceiptsAreHonest

-----------------------------------------------------------------------------
(* Rows *)

\* The row a pass is at is one of those it has to do, and the first.
LEMMA CurrentIsFirst ==
  ASSUME TypeOK, todo # {}
  PROVE  Current \in todo /\ \A j \in todo : Current <= j
<1>1. todo \subseteq Nat
  BY DEF TypeOK, Rows
<1>2. \E i \in todo : \A j \in todo : ~ (<<j, i>> \in OpToRel(<, Nat))
  BY <1>1, WFMin, NatLessThanWellFounded, Zenon
<1>3. \E i \in todo : \A j \in todo : ~ (j < i)
  BY <1>1, <1>2, Zenon DEF OpToRel
<1>4. \E i \in todo : \A j \in todo : i <= j
  BY <1>1, <1>3
<1> QED BY <1>4 DEF Current

\* What the journal appends leaves the rows there are where they are.
LEMMA AppendedRows ==
  ASSUME TypeOK, NEW rows \in Seq(RowType), outbox' = outbox \o rows
  PROVE  /\ outbox' \in Seq(RowType)
         /\ Rows \subseteq Rows'
         /\ \A i \in Rows : outbox'[i] = outbox[i]
         /\ \A i \in Rows' \ Rows : i > Len(outbox) /\ \E k \in DOMAIN rows : outbox'[i] = rows[k]
<1>1. outbox \in Seq(RowType)
  BY DEF TypeOK, RowType
<1>2. /\ outbox' \in Seq(RowType) /\ Len(outbox') = Len(outbox) + Len(rows)
      /\ \A i \in 1..Len(outbox) : outbox'[i] = outbox[i]
      /\ \A i \in (Len(outbox) + 1)..(Len(outbox) + Len(rows)) : outbox'[i] = rows[i - Len(outbox)]
  BY <1>1
<1>3. ASSUME NEW i \in Rows' \ Rows
      PROVE  i > Len(outbox) /\ \E k \in DOMAIN rows : outbox'[i] = rows[k]
  <2>1. i \in (Len(outbox) + 1)..(Len(outbox) + Len(rows)) /\ i - Len(outbox) \in DOMAIN rows
    BY <1>1, <1>2, <1>3 DEF Rows
  <2> QED BY <1>2, <2>1
<1> QED BY <1>1, <1>2, <1>3 DEF Rows

\* The operations of the journal append rows, of a send only when it is accepted.
LEMMA JournalAppends ==
  ASSUME TypeOK, Journal
  PROVE  \E rows \in Seq(RowType) :
           /\ Enqueue(rows)
           /\ reply' \in [Sends -> {"none", "waiting", "sent", "failed", "unconfirmed"}]
           /\ \A s \in Sends : reply'[s] = "sent" => reply[s] = "sent"
           /\ \A s \in Sends, k \in DOMAIN rows : rows[k] = Row("part", s) => reply'[s] # "sent"
<1>1. ASSUME NEW x \in Texts, PostText(x)
      PROVE  Enqueue(<<Row("text", x)>>) /\ UNCHANGED reply /\ <<Row("text", x)>> \in Seq(RowType)
  BY <1>1 DEF PostText, Row, RowType, Kinds
<1>2. ASSUME NEW m \in Messages, PostEyes(m)
      PROVE  Enqueue(<<Row("eyes", m)>>) /\ UNCHANGED reply /\ <<Row("eyes", m)>> \in Seq(RowType)
  BY <1>2 DEF PostEyes, Row, RowType, Kinds
<1>3. ASSUME NEW m \in Messages, PostStatus(m)
      PROVE  Enqueue(<<Row("status", m)>>) /\ UNCHANGED reply /\ <<Row("status", m)>> \in Seq(RowType)
  BY <1>3 DEF PostStatus, Row, RowType, Kinds
<1>4. ASSUME NEW s \in Sends, AcceptSend(s)
      PROVE  \E rows \in Seq(RowType) :
           /\ Enqueue(rows)
           /\ reply' \in [Sends -> {"none", "waiting", "sent", "failed", "unconfirmed"}]
           /\ \A t \in Sends : reply'[t] = "sent" => reply[t] = "sent"
           /\ \A t \in Sends, k \in DOMAIN rows : rows[k] = Row("part", t) => reply'[t] # "sent"
  <2> DEFINE rows == [k \in 1..Parts |-> Row("part", s)]
  <2>1. rows \in Seq(RowType) /\ DOMAIN rows = 1..Parts /\ \A k \in 1..Parts : rows[k] = Row("part", s)
    BY OutboxAssumption DEF Row, RowType, Kinds
  <2>2. \A t \in Sends : Row("part", s) = Row("part", t) => s = t
    BY DEF Row
  <2>3. /\ reply' \in [Sends -> {"none", "waiting", "sent", "failed", "unconfirmed"}]
        /\ \A t \in Sends : reply'[t] = "sent" => reply[t] = "sent"
        /\ reply'[s] = "waiting"
    BY <1>4 DEF AcceptSend, TypeOK
  <2>4. Enqueue(rows)
    BY <1>4 DEF AcceptSend
  <2>5. \A t \in Sends, k \in DOMAIN rows : rows[k] = Row("part", t) => reply'[t] # "sent"
    BY <2>1, <2>2, <2>3
  <2> HIDE DEF rows
  <2> QED BY <2>1, <2>3, <2>4, <2>5
<1>5. ASSUME NEW k1 \in Kinds \ {"part"}, NEW x \in Texts \cup Messages, UNCHANGED reply,
             Enqueue(<<Row(k1, x)>>), <<Row(k1, x)>> \in Seq(RowType)
      PROVE  \E rows \in Seq(RowType) :
           /\ Enqueue(rows)
           /\ reply' \in [Sends -> {"none", "waiting", "sent", "failed", "unconfirmed"}]
           /\ \A t \in Sends : reply'[t] = "sent" => reply[t] = "sent"
           /\ \A t \in Sends, k \in DOMAIN rows : rows[k] = Row("part", t) => reply'[t] # "sent"
  <2>1. \A t \in Sends, k \in DOMAIN <<Row(k1, x)>> : <<Row(k1, x)>>[k] # Row("part", t)
    BY DEF Row
  <2>2. /\ reply' \in [Sends -> {"none", "waiting", "sent", "failed", "unconfirmed"}]
        /\ \A t \in Sends : reply'[t] = "sent" => reply[t] = "sent"
    BY <1>5 DEF TypeOK
  <2> QED BY <1>5, <2>1, <2>2
<1> QED BY <1>1, <1>2, <1>3, <1>4, <1>5 DEF Journal, Kinds

\* Rows stay where they are, and nothing is taken back that was acknowledged,
\* held, given up or shown.
LEMMA StepKeeps ==
  ASSUME TypeOK, [Next]_vars
  PROVE  /\ Rows \subseteq Rows' /\ \A i \in Rows : outbox'[i] = outbox[i]
         /\ Shown \subseteq Shown'
         /\ delivered \subseteq delivered' /\ held \subseteq held' /\ cleanup \subseteq cleanup'
<1>1. CASE Journal
  <2> PICK rows \in Seq(RowType) : Enqueue(rows)
    BY <1>1, JournalAppends
  <2> QED BY AppendedRows DEF Enqueue, Shown, serverVars
<1>2. CASE \E i \in Rows : Arrive(i) \/ ArriveRemoval(i)
  <2> PICK i \in Rows : Arrive(i) \/ ArriveRemoval(i)
    BY <1>2
  <2>1. timeline' = timeline \/ timeline' = Append(timeline, i)
    BY DEF Arrive, ArriveRemoval
  <2>2. Shown \subseteq Shown'
    <3>1. timeline \in Seq(Rows)
      BY DEF TypeOK
    <3>2. \A k \in DOMAIN timeline : k \in DOMAIN timeline' /\ timeline'[k] = timeline[k]
      BY <2>1, <3>1
    <3> QED BY <3>2 DEF Shown
  <2> QED BY <2>2 DEF Arrive, ArriveRemoval, tableVars, Rows
<1>3. CASE AnswerSends \/ CutShort \/ Restart \/ (\E c \in Convs : RoomChanges(c)) \/ UNCHANGED vars
  BY <1>3 DEF AnswerSends, CutShort, Restart, RoomChanges, tableVars, serverVars, vars, Rows, Shown
<1>4. CASE Pass
  BY <1>4 DEF Pass, BeginPass, HoldRow, SubmitRow, ConfirmRow, BeginRemovals, HoldRemoval, SubmitRemoval,
              ConfirmRemoval, NoSnapshot, EndPass, tableVars, serverVars, Rows, Shown
<1> QED BY <1>1, <1>2, <1>3, <1>4 DEF Next

-----------------------------------------------------------------------------
(* The inductive invariant, operation by operation *)

\* What the journal appends is below no row there was, and no request of it has
\* left.
LEMMA AppendKeeps ==
  ASSUME OutboxOK, Journal
  PROVE  OutboxOK'
<1> USE DEF OutboxOK
<1> PICK rows \in Seq(RowType) :
      /\ Enqueue(rows)
      /\ reply' \in [Sends -> {"none", "waiting", "sent", "failed", "unconfirmed"}]
      /\ \A s \in Sends : reply'[s] = "sent" => reply[s] = "sent"
      /\ \A s \in Sends, k \in DOMAIN rows : rows[k] = Row("part", s) => reply'[s] # "sent"
  BY JournalAppends
<1>1. /\ outbox' \in Seq(RowType)
      /\ Rows \subseteq Rows'
      /\ \A i \in Rows : outbox'[i] = outbox[i]
      /\ \A i \in Rows' \ Rows : i > Len(outbox) /\ \E k \in DOMAIN rows : outbox'[i] = rows[k]
  BY AppendedRows DEF Enqueue
<1>2. /\ pc = "idle" /\ pc' = "idle" /\ todo' = todo
      /\ UNCHANGED <<delivered, failures, cleanup, cleaned, access, wire, timeline, redacted, held, faults>>
  BY DEF Enqueue, passVars, serverVars
<1>3. \A i \in Rows, j \in Rows' : j < i => j \in Rows
  <2>1. /\ Rows = 1..Len(outbox) /\ Rows' = 1..Len(outbox')
        /\ Len(outbox) \in Nat /\ Len(outbox') \in Nat
    BY <1>1 DEF Rows, TypeOK
  <2> QED BY <2>1
<1>4. TypeOK'
  <2>1. timeline' \in Seq(Rows')
    BY <1>1, <1>2 DEF TypeOK
  <2> QED BY <1>1, <1>2, <2>1 DEF TypeOK, RowType
<1>5. PassKnows'
  BY <1>2 DEF PassKnows
<1>6. SubmittedInOrder'
  <2> SUFFICES ASSUME NEW i \in Rows', NEW j \in Rows', <<"send", i>> \in wire \/ i \in Shown, j < i, j \notin held
               PROVE  j \in Shown
    BY <1>2 DEF SubmittedInOrder, Shown
  <2>1. i \in Rows
    BY DEF TypeOK, Shown
  <2>2. j \in Rows
    BY <1>3, <2>1
  <2> QED BY <2>1, <2>2 DEF SubmittedInOrder
<1>7. RemovalsJustified'
  <2>1. \A i \in Rows' : <<"redact", i>> \in wire => i \in Rows
    BY DEF TypeOK
  <2>2. cleanup \subseteq Rows /\ delivered \subseteq Rows
    BY DEF TypeOK
  <2>3. \A i \in cleanup : \E j \in delivered : outbox'[j] = Row("status", outbox'[i].of)
    BY <1>1, <2>2 DEF RemovalsJustified
  <2> QED BY <1>2, <2>1, <2>3 DEF RemovalsJustified
<1>8. RowsInOrder'
  <2> SUFFICES ASSUME NEW k \in DOMAIN timeline, NEW i \in Rows', i < timeline[k], i \notin held
               PROVE  \E h \in 1..k : timeline[h] = i
    BY <1>2 DEF RowsInOrder
  <2>1. timeline[k] \in Rows
    BY DEF TypeOK
  <2>2. i \in Rows
    BY <1>3, <2>1
  <2> QED BY <2>2 DEF RowsInOrder
<1>9. ReceiptsAreHonest'
  <2> SUFFICES ASSUME NEW s \in Sends, reply'[s] = "sent", NEW i \in Rows', outbox'[i] = Row("part", s)
               PROVE  i \in Shown
    <3>1. (delivered \subseteq Shown)' /\ (\A k, h \in DOMAIN timeline : timeline[k] = timeline[h] => k = h)'
      BY <1>2 DEF ReceiptsAreHonest, Shown
    <3>2. Shown' = Shown
      BY <1>2 DEF Shown
    <3> QED BY <3>1, <3>2 DEF ReceiptsAreHonest, OfSend
  <2>1. i \in Rows
    BY <1>1
  <2> QED BY <1>1, <2>1 DEF ReceiptsAreHonest, OfSend
<1> QED BY <1>4, <1>5, <1>6, <1>7, <1>8, <1>9

\* The server shows a row after everything before it that was not held.
LEMMA ArriveKeeps ==
  ASSUME OutboxOK, NEW i \in Rows, Arrive(i)
  PROVE  OutboxOK'
<1> USE DEF OutboxOK
<1>1. /\ UNCHANGED <<outbox, delivered, failures, cleanup, cleaned, access, pc, todo, redacted, reply, held, faults>>
      /\ wire' = wire \ {<<"send", i>>}
  BY DEF Arrive, tableVars, passVars
<1>2. Rows' = Rows /\ Current' = Current /\ \A s \in Sends : OfSend(s)' = OfSend(s)
  BY <1>1 DEF Rows, Current, OfSend
<1>3. timeline \in Seq(Rows)
  BY DEF TypeOK
<1>4. CASE i \in Shown
  <2>1. timeline' = timeline /\ Shown' = Shown
    BY <1>4 DEF Arrive, Shown
  <2> QED BY <1>1, <1>2, <1>4, <2>1 DEF TypeOK, PassKnows, SubmittedInOrder, RemovalsJustified, RowsInOrder, ReceiptsAreHonest
<1>5. CASE i \notin Shown
  <2>1. timeline' = Append(timeline, i)
    BY <1>5 DEF Arrive
  <2>2. /\ timeline' \in Seq(Rows) /\ DOMAIN timeline' = 1..(Len(timeline) + 1)
        /\ \A k \in DOMAIN timeline : timeline'[k] = timeline[k]
        /\ timeline'[Len(timeline) + 1] = i
        /\ Len(timeline) \in Nat /\ DOMAIN timeline = 1..Len(timeline)
    BY <1>3, <2>1
  <2>3. Shown' = Shown \cup {i}
    BY <2>2 DEF Shown
  <2>4. TypeOK'
    BY <1>1, <1>2, <2>2 DEF TypeOK
  <2>5. PassKnows'
    BY <1>1, <1>2, <2>3 DEF PassKnows
  <2>6. SubmittedInOrder'
    BY <1>1, <1>2, <2>3 DEF SubmittedInOrder, Arrive
  <2>7. RemovalsJustified'
    BY <1>1, <1>2 DEF RemovalsJustified
  <2>8. RowsInOrder'
    <3> SUFFICES ASSUME NEW k \in DOMAIN timeline', NEW j \in Rows, j < timeline'[k], j \notin held
                 PROVE  \E h \in 1..k : timeline'[h] = j
      BY <1>1, <1>2 DEF RowsInOrder
    <3>1. CASE k \in DOMAIN timeline
      <4>1. PICK h \in 1..k : timeline[h] = j
        BY <2>2, <3>1 DEF RowsInOrder
      <4> QED BY <2>2, <3>1, <4>1
    <3>2. CASE k = Len(timeline) + 1
      <4>1. j \in Shown
        BY <2>2, <3>2 DEF SubmittedInOrder, Arrive
      <4>2. PICK h \in DOMAIN timeline : timeline[h] = j
        BY <4>1 DEF Shown
      <4> QED BY <2>2, <3>2, <4>2
    <3> QED BY <2>2, <3>1, <3>2
  <2>9. ReceiptsAreHonest'
    <3>1. \A k, h \in DOMAIN timeline' : timeline'[k] = timeline'[h] => k = h
      BY <1>5, <2>2 DEF ReceiptsAreHonest, Shown
    <3> QED BY <1>1, <1>2, <2>3, <3>1 DEF ReceiptsAreHonest
  <2> QED BY <2>4, <2>5, <2>6, <2>7, <2>8, <2>9
<1> QED BY <1>4, <1>5

\* A removal that was asked for is justified, whenever it arrives.
LEMMA ArriveRemovalKeeps ==
  ASSUME OutboxOK, NEW i \in Rows, ArriveRemoval(i)
  PROVE  OutboxOK'
<1> USE DEF OutboxOK
<1>1. /\ UNCHANGED <<outbox, delivered, failures, cleanup, cleaned, access, pc, todo, timeline, reply, held, faults>>
      /\ wire' = wire \ {<<"redact", i>>} /\ <<"redact", i>> \in wire /\ redacted' = redacted \cup {i}
  BY DEF ArriveRemoval, tableVars, passVars
<1>2. Rows' = Rows /\ Current' = Current /\ Shown' = Shown /\ \A s \in Sends : OfSend(s)' = OfSend(s)
  BY <1>1 DEF Rows, Current, OfSend, Shown
<1>3. \A j \in Rows : <<"send", j>> \in wire' <=> <<"send", j>> \in wire
  BY <1>1
<1>4. TypeOK'
  BY <1>1, <1>2 DEF TypeOK
<1>5. PassKnows'
  BY <1>1, <1>2 DEF PassKnows
<1>6. SubmittedInOrder'
  BY <1>1, <1>2, <1>3 DEF SubmittedInOrder
<1>7. RemovalsJustified'
  BY <1>1, <1>2 DEF RemovalsJustified
<1>8. RowsInOrder' /\ ReceiptsAreHonest'
  BY <1>1, <1>2 DEF RowsInOrder, ReceiptsAreHonest
<1> QED BY <1>4, <1>5, <1>6, <1>7, <1>8

\* A receipt is given for parts that were acknowledged.
LEMMA AnswerKeeps ==
  ASSUME OutboxOK, AnswerSends
  PROVE  OutboxOK'
<1> USE DEF OutboxOK
<1>1. UNCHANGED <<outbox, delivered, failures, cleanup, cleaned, access, pc, todo, wire, timeline, redacted, held, faults>>
  BY DEF AnswerSends, tableVars, passVars, serverVars
<1>2. Rows' = Rows /\ Current' = Current /\ Shown' = Shown /\ \A s \in Sends : OfSend(s)' = OfSend(s)
  BY <1>1 DEF Rows, Current, OfSend, Shown
<1>3. \A s \in Sends : Answer(s) \in {"failed", "sent", "waiting"} /\ (Answer(s) = "sent" => OfSend(s) \subseteq delivered)
  BY DEF Answer
<1>4. TypeOK'
  <2>1. reply' \in [Sends -> {"none", "waiting", "sent", "failed", "unconfirmed"}]
    BY <1>3 DEF AnswerSends, TypeOK
  <2> QED BY <1>1, <1>2, <2>1 DEF TypeOK
<1>5. PassKnows' /\ SubmittedInOrder' /\ RemovalsJustified' /\ RowsInOrder'
  BY <1>1, <1>2 DEF PassKnows, SubmittedInOrder, RemovalsJustified, RowsInOrder
<1>6. ReceiptsAreHonest'
  <2>1. ASSUME NEW s \in Sends, reply'[s] = "sent"
        PROVE  OfSend(s) \subseteq Shown
    <3>1. CASE s \in Answerable
      BY <1>3, <2>1, <3>1 DEF AnswerSends, ReceiptsAreHonest
    <3>2. CASE s \notin Answerable
      BY <2>1, <3>2 DEF AnswerSends, ReceiptsAreHonest
    <3> QED BY <3>1, <3>2
  <2> QED BY <1>1, <1>2, <2>1 DEF ReceiptsAreHonest
<1> QED BY <1>4, <1>5, <1>6

\* Whatever is cut short leaves the table and the room alone; a request that
\* had left may be lost.
LEMMA FaultKeeps ==
  ASSUME OutboxOK, CutShort \/ Restart \/ \E c \in Convs : RoomChanges(c)
  PROVE  OutboxOK'
<1> USE DEF OutboxOK
<1>1. UNCHANGED <<outbox, delivered, failures, cleanup, cleaned, timeline, redacted, held>>
  BY DEF CutShort, Restart, RoomChanges, tableVars, serverVars
<1>2. Rows' = Rows /\ Shown' = Shown /\ \A s \in Sends : OfSend(s)' = OfSend(s)
  BY <1>1 DEF Rows, OfSend, Shown
<1>3. /\ access' \in [Convs -> {"fit", "unfit", "closed"}] /\ wire' \subseteq wire /\ faults' \in 0..MaxFaults
      /\ reply' \in [Sends -> {"none", "waiting", "sent", "failed", "unconfirmed"}]
      /\ \A s \in Sends : reply'[s] = "sent" => reply[s] = "sent"
      /\ (pc' = "idle" /\ todo' = {}) \/ UNCHANGED <<pc, todo, wire>>
  <2>1. CASE CutShort
    BY <2>1, OutboxAssumption DEF CutShort, TypeOK
  <2>2. CASE Restart
    BY <2>2, OutboxAssumption DEF Restart, TypeOK
  <2>3. CASE \E c \in Convs : RoomChanges(c)
    BY <2>3, OutboxAssumption DEF RoomChanges, TypeOK, passVars
  <2> QED BY <2>1, <2>2, <2>3
<1>4. TypeOK'
  <2>1. todo' \subseteq Rows /\ pc' \in {"idle", "rows", "sending", "removals", "redacting"}
    BY <1>3 DEF TypeOK
  <2> QED BY <1>1, <1>2, <1>3, <2>1 DEF TypeOK
<1>5. PassKnows'
  <2>1. CASE pc' = "idle" /\ todo' = {}
    BY <2>1 DEF PassKnows
  <2>2. CASE UNCHANGED <<pc, todo, wire>>
    <3>1. Current' = Current
      BY <2>2 DEF Current
    <3> QED BY <1>1, <1>2, <2>2, <3>1 DEF PassKnows
  <2> QED BY <1>3, <2>1, <2>2
<1>6. SubmittedInOrder' /\ RemovalsJustified'
  BY <1>1, <1>2, <1>3 DEF SubmittedInOrder, RemovalsJustified
<1>7. RowsInOrder' /\ ReceiptsAreHonest'
  BY <1>1, <1>2, <1>3 DEF RowsInOrder, ReceiptsAreHonest
<1> QED BY <1>4, <1>5, <1>6, <1>7

\* A pass goes through the rows it found, then through the removals.
LEMMA PassKeeps ==
  ASSUME OutboxOK, Pass
  PROVE  OutboxOK'
<1> USE DEF OutboxOK
<1>1. /\ UNCHANGED <<outbox, access, timeline, redacted, reply, faults>>
  BY DEF Pass, BeginPass, HoldRow, SubmitRow, ConfirmRow, BeginRemovals, HoldRemoval, SubmitRemoval,
         ConfirmRemoval, NoSnapshot, EndPass, tableVars, serverVars
<1>2. Rows' = Rows /\ Shown' = Shown /\ \A s \in Sends : OfSend(s)' = OfSend(s)
  BY <1>1 DEF Rows, OfSend, Shown
<1>3. todo # {} => Current \in todo /\ \A j \in todo : Current <= j
  BY CurrentIsFirst
<1>4. Rows \subseteq Nat
  BY DEF TypeOK, Rows
<1>5. CASE BeginPass
  <2> USE <1>5 DEF BeginPass, Pending, tableVars, serverVars
  <2>1. TypeOK'
    BY <1>1, <1>2 DEF TypeOK
  <2>2. PassKnows' /\ SubmittedInOrder' /\ RemovalsJustified'
    BY <1>1, <1>2 DEF PassKnows, SubmittedInOrder, RemovalsJustified
  <2>3. RowsInOrder' /\ ReceiptsAreHonest'
    BY <1>1, <1>2 DEF RowsInOrder, ReceiptsAreHonest
  <2> QED BY <2>1, <2>2, <2>3
<1>6. CASE HoldRow
  <2> USE <1>6 DEF HoldRow
  <2>0. UNCHANGED <<delivered, cleanup, cleaned, pc, wire>> /\ Current \in todo
    BY <1>3
  <2>1. TypeOK'
    BY <1>1, <1>2, <2>0 DEF TypeOK, PassKnows
  <2>2. PassKnows'
    BY <1>2, <2>0 DEF PassKnows
  <2>3. SubmittedInOrder' /\ RemovalsJustified'
    BY <1>1, <1>2, <2>0 DEF SubmittedInOrder, RemovalsJustified
  <2>4. RowsInOrder' /\ ReceiptsAreHonest'
    BY <1>1, <1>2, <2>0 DEF RowsInOrder, ReceiptsAreHonest
  <2> QED BY <2>1, <2>2, <2>3, <2>4
<1>7. CASE SubmitRow
  <2> USE <1>7 DEF SubmitRow, tableVars
  <2>0. /\ UNCHANGED <<delivered, failures, cleanup, cleaned, todo, held>> /\ Current \in todo /\ Current' = Current
        /\ Current \in Rows
    BY <1>3 DEF Current, TypeOK
  <2>1. TypeOK'
    BY <1>1, <1>2, <2>0 DEF TypeOK
  <2>2. PassKnows'
    BY <1>2, <2>0 DEF PassKnows
  <2>3. SubmittedInOrder'
    <3>1. \A j \in Rows : j < Current /\ j \notin held => j \in Shown
      <4> SUFFICES ASSUME NEW j \in Rows, j < Current, j \notin held
                   PROVE  j \in Shown
        OBVIOUS
      <4>1. j \notin todo
        BY <1>3, <1>4, <2>0
      <4> QED BY <4>1 DEF PassKnows, ReceiptsAreHonest
    <3> QED BY <1>1, <1>2, <2>0, <3>1 DEF SubmittedInOrder
  <2>4. RemovalsJustified' /\ RowsInOrder' /\ ReceiptsAreHonest'
    BY <1>1, <1>2, <2>0 DEF RemovalsJustified, RowsInOrder, ReceiptsAreHonest
  <2> QED BY <2>1, <2>2, <2>3, <2>4
<1>8. CASE ConfirmRow
  <2> USE <1>8 DEF ConfirmRow
  <2>0. /\ UNCHANGED <<failures, cleaned, wire, held>> /\ Current \in todo /\ Current \in Rows
        /\ Current \in Shown /\ Current \notin failures
    BY <1>3 DEF PassKnows, TypeOK
  <2>1. \A i \in Replaced(Current) : outbox[i].kind = "eyes" /\ outbox[Current] = Row("status", outbox[i].of) /\ i \in Rows
    <3>1. outbox \in Seq(RowType)
      BY DEF TypeOK, RowType
    <3>2. outbox[Current] \in RowType
      BY <2>0, <3>1 DEF Rows
    <3> QED BY <3>2 DEF Replaced, Row, RowType
  <2>2. TypeOK'
    BY <1>1, <1>2, <2>0, <2>1 DEF TypeOK
  <2>3. PassKnows'
    BY <1>2, <2>0 DEF PassKnows
  <2>4. SubmittedInOrder' /\ RowsInOrder'
    BY <1>1, <1>2, <2>0 DEF SubmittedInOrder, RowsInOrder
  <2>5. RemovalsJustified'
    BY <1>1, <1>2, <2>0, <2>1 DEF RemovalsJustified
  <2>6. ReceiptsAreHonest'
    BY <1>1, <1>2, <2>0 DEF ReceiptsAreHonest
  <2> QED BY <2>2, <2>3, <2>4, <2>5, <2>6
<1>9. CASE BeginRemovals \/ HoldRemoval \/ ConfirmRemoval \/ NoSnapshot \/ EndPass
  <2>0. /\ UNCHANGED <<delivered, failures, cleanup, wire, held>>
        /\ pc' \in {"removals", "idle"} /\ todo' \subseteq Rows
        /\ pc' = "removals" => todo' \subseteq cleanup
        /\ cleaned \subseteq cleaned' /\ cleaned' \subseteq cleanup
    BY <1>3, <1>9 DEF BeginRemovals, HoldRemoval, ConfirmRemoval, NoSnapshot, EndPass, PendingRemovals, tableVars, PassKnows, TypeOK
  <2>1. TypeOK'
    BY <1>1, <1>2, <2>0 DEF TypeOK
  <2>2. PassKnows' /\ SubmittedInOrder' /\ RemovalsJustified'
    BY <1>1, <1>2, <2>0 DEF PassKnows, SubmittedInOrder, RemovalsJustified
  <2>3. RowsInOrder' /\ ReceiptsAreHonest'
    BY <1>1, <1>2, <2>0 DEF RowsInOrder, ReceiptsAreHonest
  <2> QED BY <2>1, <2>2, <2>3
<1>10. CASE SubmitRemoval
  <2> USE <1>10 DEF SubmitRemoval, tableVars
  <2>0. /\ UNCHANGED <<delivered, failures, cleanup, cleaned, todo, held>> /\ Current \in todo
        /\ Current \in cleanup /\ Current \in Rows
        /\ \A i \in Rows : <<"send", i>> \in wire' <=> <<"send", i>> \in wire
    BY <1>3 DEF TypeOK, PassKnows
  <2>1. TypeOK'
    BY <1>1, <1>2, <2>0 DEF TypeOK
  <2>2. PassKnows' /\ SubmittedInOrder' /\ RemovalsJustified'
    BY <1>1, <1>2, <2>0 DEF PassKnows, SubmittedInOrder, RemovalsJustified
  <2>3. RowsInOrder' /\ ReceiptsAreHonest'
    BY <1>1, <1>2, <2>0 DEF RowsInOrder, ReceiptsAreHonest
  <2> QED BY <2>1, <2>2, <2>3
<1> QED BY <1>5, <1>6, <1>7, <1>8, <1>9, <1>10 DEF Pass

-----------------------------------------------------------------------------
(* Theorems about the specification *)

\* Whatever is delayed, lost, repeated, cut short or restarted, the table, the
\* pass, the wire and the room fit together.
THEOREM OutboxCorrect == Spec => []OutboxOK
<1>1. Init => OutboxOK
  <2> SUFFICES ASSUME Init
               PROVE  OutboxOK
    OBVIOUS
  <2> USE DEF Init
  <2>1. Rows = {} /\ Shown = {}
    BY DEF Rows, Shown
  <2>2. TypeOK
    BY <2>1, OutboxAssumption DEF TypeOK
  <2>3. PassKnows /\ SubmittedInOrder /\ RemovalsJustified
    BY <2>1 DEF PassKnows, SubmittedInOrder, RemovalsJustified
  <2>4. RowsInOrder /\ ReceiptsAreHonest
    BY <2>1 DEF RowsInOrder, ReceiptsAreHonest, OfSend
  <2> QED BY <2>2, <2>3, <2>4 DEF OutboxOK
<1>2. OutboxOK /\ [Next]_vars => OutboxOK'
  <2> SUFFICES ASSUME OutboxOK, [Next]_vars
               PROVE  OutboxOK'
    OBVIOUS
  <2>1. CASE UNCHANGED vars
    BY <2>1 DEF vars, tableVars, passVars, serverVars, OutboxOK, TypeOK, PassKnows, SubmittedInOrder, RemovalsJustified,
                RowsInOrder, ReceiptsAreHonest, Rows, Shown, Current, OfSend
  <2> QED BY <2>1, AppendKeeps, ArriveKeeps, ArriveRemovalKeeps, AnswerKeeps, FaultKeeps, PassKeeps DEF Next
<1> QED BY <1>1, <1>2, PTL DEF Spec

\* TypeOK of Outbox.
THEOREM OutboxTypeCorrect == Spec => []TypeOK
<1>1. OutboxOK => TypeOK
  BY DEF OutboxOK
<1> QED BY <1>1, OutboxCorrect, PTL

\* RowsInOrder of Outbox: timeouts, retries and late requests reorder nothing.
THEOREM RowsInOrderCorrect == Spec => []RowsInOrder
<1>1. OutboxOK => RowsInOrder
  BY DEF OutboxOK
<1> QED BY <1>1, OutboxCorrect, PTL

\* ReceiptsAreHonest of Outbox: what is acknowledged is shown, once, and a
\* receipt covers all parts.
THEOREM ReceiptsCorrect == Spec => []ReceiptsAreHonest
<1>1. OutboxOK => ReceiptsAreHonest
  BY DEF OutboxOK
<1> QED BY <1>1, OutboxCorrect, PTL

\* EyesOutliveWork of Outbox: only eyes are taken away, after the status that
\* replaces them was shown.
THEOREM EyesCorrect == Spec => []EyesOutliveWork
<1>1. OutboxOK => EyesOutliveWork
  BY DEF OutboxOK, RemovalsJustified, ReceiptsAreHonest, TypeOK, EyesOutliveWork
<1> QED BY <1>1, OutboxCorrect, PTL
=============================================================================
