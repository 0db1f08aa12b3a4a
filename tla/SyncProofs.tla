----------------------------- MODULE SyncProofs -----------------------------
(***************************************************************************)
(* Proofs about SyncPipeline, for any stream, window, cap and number of    *)
(* failures: its types, that no room key is lost and no event skipped, and *)
(* that none is taken as input twice, or from before the baseline unless   *)
(* it is sent again.                                                       *)
(***************************************************************************)
EXTENDS SyncPipeline, FiniteSetTheorems, TLAPS

\* How the cursors lie to each other and to the stream.
CursorsInOrder ==
  /\ Len(stream) <= MaxStream
  /\ acked <= token /\ token <= Len(stream) /\ staged.next <= Len(stream)
  /\ anchor = 0 \/ anchor <= token
  /\ baseline = NoToken <=> token = NoToken
  /\ baseline <= token

\* A step under way works on a staged batch.  Its window is what the server had
\* after the cursor, or else marked as limited, and leaves out only what is
\* earlier than all it has.
BatchStaged ==
  /\ pc # "idle" => HasStaged
  /\ pc # "ingest" => todo = {}
  /\ ~HasStaged => staged = Nothing
  /\ HasStaged => /\ staged.window \subseteq EventsIn(NoToken, staged.next)
                  /\ \A p \in staged.window : EventsIn(p, staged.next) \subseteq staged.window
                  /\ ~staged.limited => staged.window = EventsIn(staged.since, staged.next)

KeysUpTo(high) ==
  \A p \in DOMAIN stream : stream[p].kind = "key" /\ p <= high => stream[p].session \in keys

\* Keys up to the cursor are known, and up to its end once the SDK has synced.
KeysReceived ==
  /\ KeysUpTo(token)
  /\ pc \in {"decode", "ingest"} => KeysUpTo(staged.next)

\* What a batch brought in is still to be handled or is accounted for.
BatchAccounted ==
  /\ pc = "ingest" => Batch \subseteq todo \cup judged \cup archive
  /\ NothingSkipped

SyncOK == TypeOK /\ CursorsInOrder /\ BatchStaged /\ KeysReceived /\ BatchAccounted

-----------------------------------------------------------------------------
\* Events and room keys the stream already has are left alone by what follows.
LEMMA PostKeeps ==
  ASSUME TypeOK, NEW kind \in Kinds, NEW s \in Sessions, Post(kind, s)
  PROVE  /\ stream' \in Seq([kind : Kinds, session : Sessions])
         /\ Len(stream') = Len(stream) + 1
         /\ \A p \in 1..Len(stream) : p \in DOMAIN stream' /\ stream'[p] = stream[p]
         /\ Events \subseteq Events'
         /\ \A low, high \in Int : high <= Len(stream) => EventsIn(low, high)' = EventsIn(low, high)
<1>1. stream' = Append(stream, Item(kind, s)) /\ Item(kind, s) \in [kind : Kinds, session : Sessions]
  BY DEF Post, Item
<1>2. stream \in Seq([kind : Kinds, session : Sessions])
  BY DEF TypeOK
<1>3. /\ stream' \in Seq([kind : Kinds, session : Sessions]) /\ Len(stream') = Len(stream) + 1
      /\ \A p \in 1..Len(stream) : stream'[p] = stream[p]
  BY <1>1, <1>2
<1>4. DOMAIN stream = 1..Len(stream) /\ DOMAIN stream' = 1..Len(stream') /\ Len(stream) \in Nat
  BY <1>2, <1>3
<1>5. \A p \in 1..Len(stream) : p \in DOMAIN stream' /\ stream'[p] = stream[p]
  BY <1>3, <1>4
<1>6. Events \subseteq Events'
  BY <1>4, <1>5 DEF Events
<1>7. ASSUME NEW low \in Int, NEW high \in Int, high <= Len(stream)
      PROVE  EventsIn(low, high)' = EventsIn(low, high)
  BY <1>3, <1>4, <1>7 DEF EventsIn, Events
<1> QED BY <1>3, <1>5, <1>6, <1>7

\* What the stream has after a token and up to another is made of positions.
LEMMA EventsArePositions ==
  ASSUME TypeOK, Len(stream) <= MaxStream, NEW low, NEW high
  PROVE  EventsIn(low, high) \subseteq Positions /\ EventsIn(low, high) \subseteq Events
BY SyncAssumption DEF TypeOK, EventsIn, Events, Positions

\* A batch consists of events of the stream.
LEMMA BatchEvents ==
  ASSUME SyncOK
  PROVE  Batch \subseteq Events
<1>1. Missed \subseteq Events
  BY DEF Missed, EventsIn
<1>2. CASE HasStaged
  <2>1. staged.window \subseteq Events
    BY <1>2, EventsArePositions DEF SyncOK, BatchStaged, CursorsInOrder
  <2> QED BY <1>1, <2>1 DEF Batch
<1>3. CASE ~HasStaged
  BY <1>3 DEF SyncOK, BatchStaged, Nothing, Batch
<1> QED BY <1>2, <1>3

\* A batch brings in everything between the cursor and its end.
LEMMA BatchCovers ==
  ASSUME SyncOK, HasStaged, staged.since # NoToken
  PROVE  EventsIn(token, staged.next) \subseteq Batch
<1>1. staged.since = token /\ token \in Nat
  BY DEF SyncOK, TypeOK, Tokens, NoToken
<1>2. CASE ~staged.limited
  BY <1>1, <1>2 DEF SyncOK, BatchStaged, Batch
<1>3. CASE staged.limited
  <2>1. anchor \in Nat /\ anchor <= token
    BY <1>1 DEF SyncOK, TypeOK, CursorsInOrder
  <2>2. EventsIn(token, staged.next) \subseteq EventsIn(anchor, staged.next)
    <3>1. Events \subseteq Nat
      BY DEF SyncOK, TypeOK, Events
    <3>2. SUFFICES ASSUME NEW p \in Events, token < p PROVE anchor < p
      BY DEF EventsIn
    <3> QED BY <1>1, <2>1, <3>1, <3>2
  <2>3. CASE anchor \in staged.window
    BY <1>1, <2>2, <2>3 DEF SyncOK, BatchStaged, Batch
  <2>4. CASE anchor \notin staged.window
    BY <1>1, <1>3, <2>2, <2>4 DEF Batch, Gap, Missed
  <2> QED BY <2>3, <2>4
<1> QED BY <1>2, <1>3

-----------------------------------------------------------------------------
\* A new journal satisfies the invariant.
LEMMA InitSync == Init => SyncOK
<1> SUFFICES ASSUME Init PROVE SyncOK
  OBVIOUS
<1>1. ~HasStaged /\ staged = Nothing /\ staged.since = NoToken /\ staged.next = NoToken
  BY DEF Init, Nothing, HasStaged
<1>2. Events = {} /\ DOMAIN stream = {} /\ Len(stream) = 0
  BY DEF Init, Events
<1>3. TypeOK
  <2>1. stream \in Seq([kind : Kinds, session : Sessions]) /\ admitted \in Seq(Events)
    BY DEF Init
  <2>2. staged \in [since : Tokens, next : Tokens, window : SUBSET Positions, limited : BOOLEAN]
    BY <1>1, SyncAssumption DEF Nothing, Tokens, NoToken
  <2>3. acked \in Tokens /\ token \in Tokens /\ baseline \in Tokens /\ anchor \in 0..MaxStream /\ faults \in 0..MaxFaults
    BY SyncAssumption DEF Init, Tokens, NoToken
  <2>4. anchor <= Len(stream)
    BY <1>2 DEF Init
  <2>5. /\ keys \subseteq Sessions /\ policy \in Policies /\ inbox \subseteq judged /\ bound \in BOOLEAN
        /\ archive \subseteq Events /\ pc \in {"idle", "sdk", "decode", "ingest"}
        /\ todo \subseteq Batch /\ judged \subseteq Events /\ resent \subseteq Events
    BY DEF Init
  <2> QED BY <1>1, <2>1, <2>2, <2>3, <2>4, <2>5 DEF TypeOK
<1>4. CursorsInOrder
  BY <1>1, <1>2, SyncAssumption DEF Init, CursorsInOrder, NoToken
<1>5. BatchStaged
  BY <1>1 DEF Init, BatchStaged
<1>6. KeysReceived
  BY <1>2 DEF Init, KeysReceived, KeysUpTo
<1>7. BatchAccounted
  BY DEF Init, BatchAccounted, NothingSkipped
<1> QED BY <1>3, <1>4, <1>5, <1>6, <1>7 DEF SyncOK

-----------------------------------------------------------------------------
(* One lemma for each kind of step *)

\* A step that writes nothing but its own place keeps the invariant, if it is
\* left idle, or takes up a staged batch.
LEMMA PlaceKeeps ==
  ASSUME SyncOK, UNCHANGED <<stream, keys, policy, journalVars, history>>,
         acked' = acked \/ acked' = token, faults' \in 0..MaxFaults, todo' = {},
         pc' = "idle" \/ (pc' = "sdk" /\ HasStaged)
  PROVE  SyncOK'
<1> USE DEF journalVars, history
<1>1. Events' = Events /\ HasStaged' = HasStaged /\ Batch' = Batch
  BY DEF Events, HasStaged, Batch, Gap, Missed, EventsIn
<1>2. TypeOK'
  BY <1>1 DEF SyncOK, TypeOK
<1>3. CursorsInOrder'
  BY DEF SyncOK, TypeOK, CursorsInOrder, Tokens
<1>4. BatchStaged'
  BY <1>1 DEF SyncOK, BatchStaged, EventsIn, Events
<1>5. KeysReceived'
  BY DEF SyncOK, KeysReceived, KeysUpTo
<1>6. BatchAccounted'
  BY <1>1 DEF SyncOK, BatchAccounted, NothingSkipped, EventsIn, Events
<1> QED BY <1>2, <1>3, <1>4, <1>5, <1>6 DEF SyncOK

\* New items at the end of the stream are beyond every cursor.
LEMMA PostSync ==
  ASSUME SyncOK, NEW kind \in Kinds, NEW s \in Sessions, Post(kind, s)
  PROVE  SyncOK'
<1> USE DEF journalVars, history, stepVars
<1>1. /\ stream' \in Seq([kind : Kinds, session : Sessions])
      /\ Len(stream') = Len(stream) + 1
      /\ \A p \in 1..Len(stream) : p \in DOMAIN stream' /\ stream'[p] = stream[p]
      /\ Events \subseteq Events'
      /\ \A low, high \in Int : high <= Len(stream) => EventsIn(low, high)' = EventsIn(low, high)
  BY PostKeeps DEF SyncOK
<1>2. /\ UNCHANGED <<acked, keys, policy, token, anchor, staged, inbox, bound, archive, pc, todo, baseline, judged, admitted, resent, faults>>
      /\ HasStaged' = HasStaged
  BY DEF Post, HasStaged
<1>3. /\ acked \in Int /\ token \in Int /\ anchor \in Int /\ baseline \in Int /\ Len(stream) \in Nat
      /\ staged.since \in Int /\ staged.next \in Int
      /\ token <= Len(stream) /\ staged.next <= Len(stream) /\ anchor <= Len(stream) /\ acked <= token
  BY SyncAssumption DEF SyncOK, TypeOK, Tokens, NoToken, CursorsInOrder
<1>4. Batch' = Batch
  <2>1. Missed' = Missed
    BY <1>1, <1>2, <1>3 DEF Missed
  <2> QED BY <1>2, <2>1 DEF Batch, Gap
<1>5. TypeOK'
  <2>1. admitted' \in Seq(Events')
    BY <1>1, <1>2 DEF SyncOK, TypeOK
  <2> QED BY <1>1, <1>2, <1>3, <1>4, <2>1 DEF SyncOK, TypeOK
<1>6. CursorsInOrder'
  <2>1. Len(stream) < MaxStream
    BY DEF Post
  <2> QED BY <1>1, <1>2, <1>3, <2>1, SyncAssumption DEF SyncOK, CursorsInOrder
<1>7. BatchStaged'
  <2>1. NoToken \in Int /\ (HasStaged => staged.window \subseteq Int)
    BY DEF SyncOK, TypeOK, BatchStaged, EventsIn, Events, NoToken
  <2>2. EventsIn(NoToken, staged.next)' = EventsIn(NoToken, staged.next)
    BY <1>1, <1>2, <1>3, <2>1
  <2>3. HasStaged => \A p \in staged.window : EventsIn(p, staged.next)' = EventsIn(p, staged.next)
    BY <1>1, <1>2, <1>3, <2>1
  <2>4. EventsIn(staged.since, staged.next)' = EventsIn(staged.since, staged.next)
    BY <1>1, <1>2, <1>3
  <2> QED BY <1>2, <2>2, <2>3, <2>4 DEF SyncOK, BatchStaged
<1>8. KeysReceived'
  <2>1. ASSUME NEW high \in Int, high <= Len(stream), KeysUpTo(high) PROVE KeysUpTo(high)'
    <3>1. \A p \in DOMAIN stream' : p <= high => p \in 1..Len(stream) /\ p \in DOMAIN stream
      BY <1>1, <1>3, <2>1 DEF SyncOK, TypeOK
    <3> QED BY <1>1, <1>2, <2>1, <3>1 DEF KeysUpTo
  <2> QED BY <1>2, <1>3, <2>1 DEF SyncOK, KeysReceived
<1>9. BatchAccounted'
  BY <1>1, <1>2, <1>3, <1>4 DEF SyncOK, BatchAccounted, NothingSkipped
<1> QED BY <1>5, <1>6, <1>7, <1>8, <1>9 DEF SyncOK

\* The cursors and events as numbers.
LEMMA SyncNumbers ==
  ASSUME SyncOK
  PROVE  /\ Events \subseteq Nat /\ Len(stream) \in Nat /\ DOMAIN stream = 1..Len(stream)
         /\ token \in Int /\ anchor \in Nat /\ baseline \in Int /\ staged.since \in Int /\ staged.next \in Int
         /\ baseline <= token /\ token <= Len(stream) /\ staged.next <= Len(stream)
         /\ HasStaged => staged.since = token
         /\ admitted \in Seq(Events)
<1>1. stream \in Seq([kind : Kinds, session : Sessions])
  BY DEF SyncOK, TypeOK
<1>2. Events \subseteq Nat /\ Len(stream) \in Nat /\ DOMAIN stream = 1..Len(stream)
  BY <1>1 DEF Events
<1> QED BY <1>2, SyncAssumption DEF SyncOK, TypeOK, CursorsInOrder, Tokens, NoToken

\* The timelines a server answers with: events up to its end, with everything
\* later than each, and everything after the token unless they are limited.
LEMMA TimelineOfServer ==
  ASSUME SyncOK, NEW t \in Timelines(token)
  PROVE  /\ t.window \subseteq EventsIn(NoToken, Len(stream)) /\ t.limited \in BOOLEAN
         /\ \A p \in t.window : EventsIn(p, Len(stream)) \subseteq t.window
         /\ ~t.limited => t.window = EventsIn(token, Len(stream))
<1>1. Events \subseteq 1..Len(stream) /\ Len(stream) \in Nat /\ token \in Int /\ NoToken \in Int /\ NoToken < 1
  BY SyncNumbers DEF Events, NoToken
<1>2. ASSUME NEW since \in Int, NEW p \in WindowAfter(since), NEW q \in EventsIn(p, Len(stream))
      PROVE  q \in WindowAfter(since)
  <2>1. p \in Events /\ q \in Events /\ since < p /\ p < q /\ q <= Len(stream)
    BY DEF WindowAfter, EventsIn
  <2>2. EventsIn(q, Len(stream)) \subseteq EventsIn(p, Len(stream)) /\ q \in EventsIn(since, Len(stream))
    <3>1. \A x \in Events : q < x => p < x
      BY <1>1, <2>1
    <3>2. since < q
      BY <1>1, <2>1
    <3> QED BY <2>1, <3>1, <3>2 DEF EventsIn
  <2>3. IsFiniteSet(EventsIn(p, Len(stream)))
    <3>1. IsFiniteSet(1..Len(stream))
      BY <1>1, FS_Interval
    <3> QED BY <1>1, <3>1, FS_Subset DEF EventsIn
  <2>4. /\ Cardinality(EventsIn(q, Len(stream))) <= Cardinality(EventsIn(p, Len(stream)))
        /\ Cardinality(EventsIn(q, Len(stream))) \in Nat /\ Cardinality(EventsIn(p, Len(stream))) \in Nat
    BY <2>2, <2>3, FS_Subset, FS_CardinalityType
  <2> QED BY <2>2, <2>4, SyncAssumption DEF WindowAfter
<1>3. ASSUME NEW since \in Int
      PROVE  WindowAfter(since) \subseteq EventsIn(NoToken, Len(stream))
  <2>1. \A p \in Events : NoToken < p
    BY <1>1
  <2> QED BY <2>1 DEF WindowAfter, EventsIn
<1>4. /\ t.window = WindowAfter(token) \/ t.window = WindowAfter(NoToken)
      /\ t.limited \in BOOLEAN
      /\ ~t.limited => t.window = EventsIn(token, Len(stream))
  <2>1. \/ t = [window |-> WindowAfter(token), limited |-> WindowAfter(token) # EventsIn(token, Len(stream))]
        \/ t = [window |-> WindowAfter(NoToken), limited |-> TRUE]
    BY Zenon DEF Timelines
  <2>2. CASE t = [window |-> WindowAfter(token), limited |-> WindowAfter(token) # EventsIn(token, Len(stream))]
    <3>1. t.window = WindowAfter(token) /\ t.limited = (WindowAfter(token) # EventsIn(token, Len(stream)))
      BY <2>2, Zenon
    <3> QED BY <3>1, Zenon
  <2>3. CASE t = [window |-> WindowAfter(NoToken), limited |-> TRUE]
    BY <2>3, Zenon
  <2> QED BY <2>1, <2>2, <2>3
<1>5. CASE t.window = WindowAfter(token)
  BY <1>1, <1>2, <1>3, <1>4, <1>5
<1>6. CASE t.window = WindowAfter(NoToken)
  BY <1>1, <1>2, <1>3, <1>4, <1>6
<1> QED BY <1>4, <1>5, <1>6

\* A raw sync stages what comes after the cursor and forgets only known keys.
LEMMA RawSyncSync ==
  ASSUME SyncOK, RawSync
  PROVE  SyncOK'
<1> USE DEF journalVars, history, serverVars
<1> PICK t \in Timelines(token) :
      /\ staged' = [since |-> token, next |-> Len(stream), window |-> t.window, limited |-> t.limited]
      /\ resent' = resent \cup {p \in t.window : p <= baseline}
  BY DEF RawSync
<1>1. /\ UNCHANGED <<stream, keys, policy, token, anchor, inbox, bound, archive, todo, baseline, judged, admitted, faults>>
      /\ acked' = Later(acked, token) /\ pc' = "sdk" /\ todo = {}
  BY DEF RawSync, SyncOK, BatchStaged
<1>2. /\ staged'.since = token /\ staged'.next = Len(stream) /\ staged'.window = t.window
      /\ staged'.limited = t.limited
  OBVIOUS
<1>3. /\ token \in Tokens /\ acked \in Tokens /\ acked <= token /\ token <= Len(stream)
      /\ Len(stream) \in 0..MaxStream
  BY DEF SyncOK, TypeOK, CursorsInOrder
<1>4. acked' = token
  BY <1>1, <1>3, SyncAssumption DEF Later, Tokens, NoToken
<1>5. /\ Events' = Events /\ HasStaged'
      /\ \A low, high : EventsIn(low, high)' = EventsIn(low, high)
  BY <1>1, <1>2, <1>3, SyncAssumption DEF Events, HasStaged, EventsIn, NoToken
<1>6. /\ t.window \subseteq EventsIn(NoToken, Len(stream)) /\ t.limited \in BOOLEAN
      /\ \A p \in t.window : EventsIn(p, Len(stream)) \subseteq t.window
      /\ ~t.limited => t.window = EventsIn(token, Len(stream))
      /\ t.window \subseteq Positions /\ t.window \subseteq Events
  BY TimelineOfServer, EventsArePositions DEF SyncOK, CursorsInOrder
<1>7. TypeOK'
  <2>1. Len(stream) \in Tokens
    BY <1>3, SyncAssumption DEF Tokens, NoToken
  <2>2. staged' \in [since : Tokens, next : Tokens, window : SUBSET Positions, limited : BOOLEAN]
    BY <1>1, <1>3, <1>6, <2>1
  <2> QED BY <1>1, <1>2, <1>3, <1>4, <1>5, <1>6, <2>2 DEF SyncOK, TypeOK
<1>8. CursorsInOrder'
  BY <1>1, <1>2, <1>3, <1>4, SyncAssumption DEF SyncOK, CursorsInOrder, Tokens, NoToken
<1>9. BatchStaged'
  BY <1>1, <1>2, <1>5, <1>6 DEF SyncOK, BatchStaged
<1>10. KeysReceived'
  BY <1>1 DEF SyncOK, KeysReceived, KeysUpTo
<1>11. BatchAccounted'
  BY <1>1, <1>5 DEF SyncOK, BatchAccounted, NothingSkipped
<1> QED BY <1>7, <1>8, <1>9, <1>10, <1>11 DEF SyncOK

\* The SDK receives every key the server has not been told to forget.
LEMMA SdkSyncSync ==
  ASSUME SyncOK, SdkSync
  PROVE  SyncOK'
<1> USE DEF journalVars, history, serverVars
<1>1. /\ UNCHANGED <<stream, policy, token, anchor, staged, inbox, bound, archive, todo, baseline, judged, admitted, resent, faults>>
      /\ acked' = Later(acked, staged.since) /\ pc = "sdk" /\ pc' = "decode"
      /\ keys' = keys \cup KeysAfter(Later(acked, staged.since))
  BY DEF SdkSync
<1>2. HasStaged /\ staged.since = token /\ todo = {}
  BY <1>1 DEF SyncOK, TypeOK, BatchStaged
<1>3. Later(acked, staged.since) = token
  BY <1>2, SyncAssumption DEF SyncOK, TypeOK, CursorsInOrder, Tokens, NoToken, Later
<1>4. Events' = Events /\ HasStaged' = HasStaged /\ Batch' = Batch
  BY <1>1 DEF Events, HasStaged, Batch, Gap, Missed, EventsIn
<1>5. KeysAfter(token) \subseteq Sessions
  <2>1. \A p \in DOMAIN stream : stream[p].session \in Sessions
    <3> DEFINE Items == [kind : Kinds, session : Sessions]
    <3>1. stream \in Seq(Items)
      BY DEF SyncOK, TypeOK
    <3>2. \A p \in DOMAIN stream : stream[p] \in Items
      <4> HIDE DEF Items
      <4> QED BY <3>1
    <3> QED BY <3>2
  <2> QED BY <2>1 DEF KeysAfter
<1>6. TypeOK'
  BY <1>1, <1>3, <1>4, <1>5 DEF SyncOK, TypeOK
<1>7. CursorsInOrder'
  BY <1>1, <1>3, SyncAssumption DEF SyncOK, CursorsInOrder, TypeOK, Tokens, NoToken
<1>8. BatchStaged'
  BY <1>1, <1>2, <1>4 DEF SyncOK, BatchStaged, EventsIn, Events
<1>9. KeysReceived'
  <2>1. ASSUME NEW p \in DOMAIN stream, stream[p].kind = "key"
        PROVE  stream[p].session \in keys'
    <3>1. p \in Int /\ token \in Int
      BY SyncAssumption DEF SyncOK, TypeOK, Tokens, NoToken
    <3>2. CASE p <= token
      BY <1>1, <2>1, <3>2 DEF SyncOK, KeysReceived, KeysUpTo
    <3>3. CASE p > token
      BY <1>1, <1>3, <2>1, <3>3 DEF KeysAfter
    <3> QED BY <3>1, <3>2, <3>3
  <2> QED BY <1>1, <2>1 DEF KeysReceived, KeysUpTo
<1>10. BatchAccounted'
  BY <1>1, <1>4 DEF SyncOK, BatchAccounted, NothingSkipped, EventsIn, Events
<1> QED BY <1>6, <1>7, <1>8, <1>9, <1>10 DEF SyncOK

\* Decoding divides a batch between the archive and what is to be handled.
LEMMA DecodeSync ==
  ASSUME SyncOK, Decode
  PROVE  SyncOK'
<1> USE DEF journalVars, history, serverVars
<1>1. /\ UNCHANGED <<stream, acked, keys, policy, token, anchor, staged, inbox, bound, baseline, judged, admitted, resent, faults>>
      /\ archive' = archive \cup Unreadable(Batch) /\ todo' = Batch \ Unreadable(Batch)
      /\ pc = "decode" /\ pc' = "ingest"
  BY DEF Decode
<1>2. HasStaged
  BY <1>1 DEF SyncOK, BatchStaged
<1>3. Events' = Events /\ HasStaged' = HasStaged /\ Batch' = Batch
  BY <1>1 DEF Events, HasStaged, Batch, Gap, Missed, EventsIn
<1>4. Unreadable(Batch) \subseteq Events /\ Batch \subseteq Events
  BY BatchEvents DEF Unreadable
<1>5. TypeOK'
  BY <1>1, <1>3, <1>4 DEF SyncOK, TypeOK
<1>6. CursorsInOrder'
  BY <1>1 DEF SyncOK, CursorsInOrder
<1>7. BatchStaged'
  BY <1>1, <1>2, <1>3 DEF SyncOK, BatchStaged, EventsIn, Events
<1>8. KeysReceived'
  BY <1>1 DEF SyncOK, KeysReceived, KeysUpTo
<1>9. BatchAccounted'
  <2>1. NothingSkipped'
    BY <1>1, <1>3 DEF SyncOK, BatchAccounted, NothingSkipped, EventsIn
  <2> QED BY <1>1, <1>3, <2>1 DEF BatchAccounted
<1> QED BY <1>5, <1>6, <1>7, <1>8, <1>9 DEF SyncOK

\* Handling an event decides about it, and may archive what came before it.
LEMMA HandleSync ==
  ASSUME SyncOK, NEW e \in todo, Handle(e)
  PROVE  SyncOK'
<1> USE DEF journalVars, history, serverVars
<1>1. /\ UNCHANGED <<stream, acked, keys, policy, token, anchor, staged, pc, baseline, resent, faults>>
      /\ archive' = archive \cup Unreadable(Context(e))
      /\ inbox' = (IF New(e) THEN inbox \cup {e} ELSE inbox)
      /\ bound' = (bound \/ New(e))
      /\ admitted' = (IF New(e) THEN Append(admitted, e) ELSE admitted)
      /\ judged' = judged \cup {e} /\ todo' = todo \ {e} /\ pc = "ingest"
  BY DEF Handle, IsNext
<1>2. e \in Events
  BY BatchEvents DEF SyncOK, TypeOK
<1>3. Events' = Events /\ HasStaged' = HasStaged /\ Batch' = Batch
  BY <1>1 DEF Events, HasStaged, Batch, Gap, Missed, EventsIn
<1>4. Unreadable(Context(e)) \subseteq Events
  BY DEF Unreadable, Context, EventsIn
<1>5. TypeOK'
  <2>1. admitted' \in Seq(Events')
    BY <1>1, <1>2, <1>3 DEF SyncOK, TypeOK
  <2>2. inbox' \subseteq judged' /\ judged' \subseteq Events' /\ archive' \subseteq Events' /\ todo' \subseteq Batch'
    BY <1>1, <1>2, <1>3, <1>4 DEF SyncOK, TypeOK
  <2>3. bound' \in BOOLEAN
    BY <1>1
  <2> QED BY <1>1, <1>3, <2>1, <2>2, <2>3 DEF SyncOK, TypeOK
<1>6. CursorsInOrder'
  BY <1>1 DEF SyncOK, CursorsInOrder
<1>7. BatchStaged'
  BY <1>1, <1>3 DEF SyncOK, BatchStaged, EventsIn, Events
<1>8. KeysReceived'
  BY <1>1 DEF SyncOK, KeysReceived, KeysUpTo
<1>9. BatchAccounted'
  <2>1. NothingSkipped'
    BY <1>1, <1>3 DEF SyncOK, BatchAccounted, NothingSkipped, EventsIn
  <2> QED BY <1>1, <1>3, <2>1 DEF SyncOK, BatchAccounted
<1> QED BY <1>5, <1>6, <1>7, <1>8, <1>9 DEF SyncOK

\* A checkpoint moves the cursor over a batch that is handled.
LEMMA CheckpointSync ==
  ASSUME SyncOK, Checkpoint
  PROVE  SyncOK'
<1> USE DEF journalVars, history, serverVars
<1>1. /\ UNCHANGED <<stream, acked, keys, policy, inbox, bound, archive, todo, judged, admitted, resent, faults>>
      /\ token' = staged.next
      /\ baseline' = (IF token = NoToken THEN staged.next ELSE baseline)
      /\ anchor' \in (IF staged.window = {} THEN {anchor} ELSE Latest(staged.window))
      /\ staged' = Nothing /\ pc = "ingest" /\ pc' = "idle" /\ todo = {}
  BY DEF Checkpoint
<1>2. HasStaged /\ staged.since = token /\ token <= staged.next
  BY <1>1 DEF SyncOK, TypeOK, BatchStaged
<1>3. /\ token \in Int /\ acked \in Int /\ baseline \in Int /\ staged.next \in Nat /\ Len(stream) \in Nat
      /\ staged.next <= Len(stream) /\ anchor \in Nat /\ staged.next \in Tokens
      /\ token \in Tokens /\ staged.next # NoToken
  BY <1>2, SyncAssumption DEF SyncOK, TypeOK, CursorsInOrder, Tokens, NoToken, HasStaged
<1>4. /\ Events' = Events /\ ~HasStaged' /\ Events \subseteq Nat
      /\ staged'.next = NoToken /\ staged'.since = NoToken
  BY <1>1 DEF Events, HasStaged, Nothing, SyncOK, TypeOK
<1>5. anchor' = 0 \/ (anchor' \in Nat /\ anchor' <= staged.next)
  <2>1. CASE staged.window = {}
    BY <1>1, <1>2, <1>3, <2>1 DEF SyncOK, CursorsInOrder
  <2>2. CASE staged.window # {}
    <3>1. anchor' \in staged.window
      BY <1>1, <2>2 DEF Latest
    <3>2. anchor' \in EventsIn(NoToken, staged.next)
      BY <1>2, <3>1 DEF SyncOK, BatchStaged
    <3> QED BY <1>4, <3>2 DEF EventsIn
  <2> QED BY <2>1, <2>2
<1>6. anchor' \in 0..MaxStream /\ anchor' <= Len(stream)
  BY <1>3, <1>5, SyncAssumption DEF SyncOK, CursorsInOrder
<1>7. TypeOK'
  <2>1. staged' \in [since : Tokens, next : Tokens, window : SUBSET Positions, limited : BOOLEAN]
    BY <1>1, SyncAssumption DEF Nothing, Tokens, NoToken
  <2>2. baseline' \in Tokens /\ token' \in Tokens
    BY <1>1, <1>3 DEF SyncOK, TypeOK
  <2>3. todo' \subseteq Batch'
    BY <1>1
  <2> QED BY <1>1, <1>4, <1>6, <2>1, <2>2, <2>3 DEF SyncOK, TypeOK
<1>8. CursorsInOrder'
  <2>1. Len(stream') <= MaxStream /\ token' <= Len(stream') /\ acked' <= token' /\ staged'.next <= Len(stream')
    BY <1>1, <1>2, <1>3, <1>4 DEF SyncOK, CursorsInOrder, NoToken
  <2>2. anchor' = 0 \/ anchor' <= token'
    BY <1>1, <1>5
  <2>3. (baseline' = NoToken <=> token' = NoToken) /\ baseline' <= token'
    BY <1>1, <1>2, <1>3 DEF SyncOK, CursorsInOrder
  <2> QED BY <2>1, <2>2, <2>3 DEF CursorsInOrder
<1>9. BatchStaged'
  BY <1>1, <1>4 DEF BatchStaged, Nothing
<1>10. KeysReceived'
  BY <1>1 DEF SyncOK, KeysReceived, KeysUpTo
<1>11. NothingSkipped'
  <2>1. SUFFICES ASSUME NEW p \in Events, baseline' < p, p <= staged.next
                 PROVE  p \in judged \cup archive
    BY <1>1, <1>4 DEF NothingSkipped, EventsIn
  <2>2. CASE token = NoToken
    BY <1>1, <1>3, <1>4, <2>1, <2>2
  <2>3. CASE token # NoToken /\ p <= token
    BY <1>1, <2>1, <2>3 DEF SyncOK, BatchAccounted, NothingSkipped, CursorsInOrder, EventsIn
  <2>4. CASE token # NoToken /\ token < p
    <3>1. p \in Batch
      BY <1>2, <2>1, <2>4, BatchCovers DEF EventsIn
    <3> QED BY <1>1, <3>1 DEF SyncOK, BatchAccounted
  <2> QED BY <1>3, <1>4, <2>2, <2>3, <2>4
<1>12. BatchAccounted'
  BY <1>1, <1>11 DEF BatchAccounted
<1> QED BY <1>7, <1>8, <1>9, <1>10, <1>12 DEF SyncOK

\* Reading that stops, or is cut short, leaves some of its events archived.
LEMMA ReadingKeeps ==
  ASSUME SyncOK, NEW S \in SUBSET Events, NEW p,
         UNCHANGED <<serverVars, keys, policy, token, anchor, staged, inbox, bound, history>>,
         archive' = ArchivedBefore(S, p), pc' = "idle", todo' = {}, faults' \in 0..MaxFaults
  PROVE  SyncOK'
<1> USE DEF journalVars, history, serverVars
<1>1. archive \subseteq archive' /\ archive' \subseteq Events
  BY DEF ArchivedBefore, Unreadable, SyncOK, TypeOK
<1>2. Events' = Events /\ HasStaged' = HasStaged
  BY DEF Events, HasStaged
<1>4. TypeOK'
  BY <1>1, <1>2 DEF SyncOK, TypeOK
<1>5. CursorsInOrder'
  BY DEF SyncOK, CursorsInOrder
<1>6. BatchStaged'
  BY <1>2 DEF SyncOK, BatchStaged, EventsIn, Events
<1>7. KeysReceived'
  BY DEF SyncOK, KeysReceived, KeysUpTo
<1>8. BatchAccounted'
  BY <1>1, <1>2 DEF SyncOK, BatchAccounted, NothingSkipped, EventsIn
<1> QED BY <1>4, <1>5, <1>6, <1>7, <1>8 DEF SyncOK

-----------------------------------------------------------------------------
\* Every step keeps the invariant.
LEMMA NextSync == SyncOK /\ [Next]_vars => SyncOK'
<1> SUFFICES ASSUME SyncOK, [Next]_vars PROVE SyncOK'
  OBVIOUS
<1>1. ASSUME NEW kind \in Kinds, NEW s \in Sessions, Post(kind, s) PROVE SyncOK'
  BY <1>1, PostSync
<1>2. CASE RawSync
  BY <1>2, RawSyncSync
<1>3. CASE SdkSync
  BY <1>3, SdkSyncSync
<1>4. CASE Decode
  BY <1>4, DecodeSync
<1>5. ASSUME NEW e \in todo, Handle(e) PROVE SyncOK'
  BY <1>5, HandleSync
<1>6. CASE Checkpoint
  BY <1>6, CheckpointSync
<1>8. Later(acked, token) = token
  BY SyncAssumption DEF SyncOK, TypeOK, CursorsInOrder, Tokens, NoToken, Later
<1>9. faults \in 0..MaxFaults /\ (faults < MaxFaults => faults + 1 \in 0..MaxFaults)
  BY SyncAssumption DEF SyncOK, TypeOK
<1>7. CASE FailDecoding \/ CutDecoding
  <2>1. Batch \in SUBSET Events /\ todo = {}
    BY <1>7, BatchEvents DEF FailDecoding, CutDecoding, SyncOK, BatchStaged
  <2>2. PICK p : archive' = ArchivedBefore(Batch, p)
    BY <1>7 DEF FailDecoding, CutDecoding, CutReading
  <2>3. /\ UNCHANGED <<serverVars, keys, policy, token, anchor, staged, inbox, bound, history>>
        /\ pc' = "idle" /\ todo' = {} /\ faults' \in 0..MaxFaults
    BY <1>7, <1>9, <2>1 DEF FailDecoding, CutDecoding, CutReading
  <2> QED BY <2>1, <2>2, <2>3, ReadingKeeps
<1>16. ASSUME NEW e \in todo, FailContext(e) \/ CutContext(e) PROVE SyncOK'
  <2>1. Context(e) \in SUBSET Events
    BY DEF Context, EventsIn
  <2>2. PICK p : archive' = ArchivedBefore(Context(e), p)
    BY <1>16 DEF FailContext, CutContext, CutReading
  <2>3. /\ UNCHANGED <<serverVars, keys, policy, token, anchor, staged, inbox, bound, history>>
        /\ pc' = "idle" /\ todo' = {} /\ faults' \in 0..MaxFaults
    BY <1>9, <1>16 DEF FailContext, CutContext, CutReading
  <2> QED BY <2>1, <2>2, <2>3, ReadingKeeps
<1>10. CASE Retake
  <2>1. HasStaged /\ todo' = {} /\ pc' = "sdk" /\ faults' = faults /\ acked' = acked
        /\ UNCHANGED <<stream, keys, policy, journalVars, history>>
    BY <1>10 DEF Retake, serverVars, SyncOK, BatchStaged
  <2> QED BY <1>9, <2>1, PlaceKeeps
<1>11. CASE Hold \/ AwaitKey
  <2>1. todo' = {} /\ pc' = "idle" /\ faults' = faults /\ acked' = acked
        /\ UNCHANGED <<stream, keys, policy, journalVars, history>>
    BY <1>11 DEF Hold, AwaitKey, serverVars, SyncOK, BatchStaged
  <2> QED BY <1>9, <2>1, PlaceKeeps
<1>12. ASSUME NEW e \in todo, AwaitContext(e) PROVE SyncOK'
  <2>1. todo' = {} /\ pc' = "idle" /\ faults' = faults /\ acked' = acked
        /\ UNCHANGED <<stream, keys, policy, journalVars, history>>
    BY <1>12 DEF AwaitContext, serverVars
  <2> QED BY <1>9, <2>1, PlaceKeeps
<1>13. CASE RawSyncLost
  <2>1. todo' = {} /\ pc' = "idle" /\ faults' \in 0..MaxFaults /\ acked' = token
        /\ UNCHANGED <<stream, keys, policy, journalVars, history>>
    BY <1>8, <1>9, <1>13 DEF RawSyncLost, stepVars, SyncOK, BatchStaged
  <2> QED BY <2>1, PlaceKeeps
<1>14. CASE CutShort
  <2>1. todo' = {} /\ pc' = "idle" /\ faults' \in 0..MaxFaults /\ acked' = acked
        /\ UNCHANGED <<stream, keys, policy, journalVars, history>>
    BY <1>9, <1>14 DEF CutShort, serverVars
  <2> QED BY <2>1, PlaceKeeps
<1>15. CASE UNCHANGED vars
  <2>1. Events' = Events /\ HasStaged' = HasStaged /\ Batch' = Batch
    BY <1>15 DEF vars, serverVars, journalVars, stepVars, history, Events, HasStaged, Batch, Gap, Missed, EventsIn
  <2> QED BY <1>15, <2>1 DEF vars, serverVars, journalVars, stepVars, history, SyncOK, TypeOK, CursorsInOrder,
             BatchStaged, KeysReceived, KeysUpTo, BatchAccounted, NothingSkipped, EventsIn, Events
<1> QED BY <1>1, <1>2, <1>3, <1>4, <1>5, <1>6, <1>7, <1>10, <1>11, <1>12, <1>13, <1>14, <1>15, <1>16 DEF Next, Step

\* The cursors, the staged batch, the keys and what a batch brought in fit
\* together in every reachable state, for any stream and number of failures.
THEOREM SyncCorrect == Spec => []SyncOK
<1> QED BY InitSync, NextSync, PTL DEF Spec

\* TypeOK is an invariant of the pipeline.
THEOREM SyncTypeCorrect == Spec => []TypeOK
<1>1. SyncOK => TypeOK
  BY DEF SyncOK
<1> QED BY <1>1, SyncCorrect, PTL

\* No room key the server has forgotten is missing from the crypto store: the
\* server never hears of a token later than the cursor (matrix.rs:153-163).
THEOREM KeysCorrect == Spec => []KeysSurvive
<1>1. SyncOK => KeysSurvive
  BY SyncAssumption DEF SyncOK, TypeOK, Tokens, NoToken, CursorsInOrder, KeysReceived, KeysUpTo, KeysSurvive
<1> QED BY <1>1, SyncCorrect, PTL

\* The cursor passes no event that is neither decided about nor archived.
THEOREM NothingSkippedCorrect == Spec => []NothingSkipped
<1>1. SyncOK => NothingSkipped
  BY DEF SyncOK, BatchAccounted
<1> QED BY <1>1, SyncCorrect, PTL

-----------------------------------------------------------------------------
(* What is taken as input *)

\* What a batch brings in comes after the baseline, for no event lies between the
\* anchor and it, or was sent again; what was taken as input is in the inbox.
InputOK ==
  /\ HasStaged => \A p \in staged.window : p > baseline \/ p \in resent
  /\ pc = "ingest" => ~Held
  /\ anchor # 0 => EventsIn(anchor, baseline) = {}
  /\ \A i \in DOMAIN admitted : admitted[i] \in inbox
  /\ InputOnce

\* What is next to be handled comes after the baseline, or was sent again.
LEMMA BatchAfterBaseline ==
  ASSUME SyncOK, InputOK, pc = "ingest", NEW e \in todo
  PROVE  baseline # NoToken /\ (e > baseline \/ e \in resent) /\ e \in Events
<1>1. HasStaged /\ ~Held /\ e \in Batch /\ e \in Events
  BY BatchEvents DEF SyncOK, TypeOK, BatchStaged, InputOK
<1>2. staged.since # NoToken /\ staged.since = token
  BY <1>1, SyncNumbers DEF Batch
<1>3. baseline # NoToken
  BY <1>2 DEF SyncOK, CursorsInOrder
<1>4. CASE e \in staged.window
  BY <1>1, <1>3, <1>4 DEF InputOK
<1>5. CASE Gap /\ e \in Missed
  <2>1. anchor # 0 /\ anchor < e
    BY <1>1, <1>2, <1>5 DEF Held, Missed, EventsIn
  <2>2. e \notin EventsIn(anchor, baseline)
    BY <2>1 DEF InputOK
  <2> QED BY <1>1, <1>3, <2>1, <2>2, SyncNumbers DEF EventsIn
<1> QED BY <1>1, <1>2, <1>4, <1>5 DEF Batch

\* A step that leaves the stream, the staged batch, the cursors and the inbox
\* alone takes nothing as input.
LEMMA InputStays ==
  ASSUME InputOK, UNCHANGED <<stream, anchor, staged, baseline, admitted, resent, inbox>>, pc' = "ingest" => ~Held
  PROVE  InputOK'
<1>1. Events' = Events /\ HasStaged' = HasStaged /\ Held' = Held
  BY DEF Events, HasStaged, Held, Gap, Missed, EventsIn
<1> QED BY <1>1 DEF InputOK, InputOnce, EventsIn

\* Every step keeps what was taken as input apart and after the baseline.
LEMMA InputStep ==
  ASSUME SyncOK, InputOK, [Next]_vars
  PROVE  InputOK'
<1> USE DEF serverVars, journalVars, stepVars, history
<1>0. /\ Events \subseteq Nat /\ Len(stream) \in Nat /\ token \in Int /\ anchor \in Nat /\ baseline \in Int
      /\ staged.since \in Int /\ staged.next \in Int /\ baseline <= token /\ token <= Len(stream)
      /\ staged.next <= Len(stream)
      /\ HasStaged => staged.since = token
      /\ admitted \in Seq(Events)
  BY SyncNumbers
<1>1. ASSUME NEW kind \in Kinds, NEW s \in Sessions, Post(kind, s)
      PROVE  InputOK'
  <2>1. \A low, high \in Int : high <= Len(stream) => EventsIn(low, high)' = EventsIn(low, high)
    BY <1>1, PostKeeps DEF SyncOK
  <2>2. UNCHANGED <<anchor, staged, baseline, admitted, resent, inbox, pc>> /\ HasStaged' = HasStaged
    BY <1>1 DEF Post, HasStaged
  <2>3. EventsIn(anchor, baseline)' = EventsIn(anchor, baseline)
    BY <1>0, <2>1, <2>2
  <2>4. Held' = Held
    <3>1. EventsIn(anchor, staged.next)' = EventsIn(anchor, staged.next)
      BY <1>0, <2>1, <2>2
    <3> QED BY <2>2, <3>1 DEF Held, Gap, Missed, HasStaged
  <2> QED BY <2>2, <2>3, <2>4 DEF InputOK, InputOnce
<1>2. CASE RawSync
  <2> PICK t \in Timelines(token) :
        /\ staged' = [since |-> token, next |-> Len(stream), window |-> t.window, limited |-> t.limited]
        /\ resent' = resent \cup {p \in t.window : p <= baseline}
    BY <1>2 DEF RawSync
  <2>1. UNCHANGED <<stream, anchor, baseline, admitted, inbox>> /\ pc' = "sdk" /\ staged'.window = t.window
    BY <1>2 DEF RawSync
  <2>2. Events' = Events /\ \A low, high : EventsIn(low, high)' = EventsIn(low, high)
    BY <2>1 DEF Events, EventsIn
  <2>3. \A p \in t.window : p > baseline \/ p \in resent'
    <3>1. t.window \subseteq Nat
      BY <1>0, TimelineOfServer DEF EventsIn
    <3> QED BY <1>0, <3>1
  <2> QED BY <2>1, <2>2, <2>3 DEF InputOK, InputOnce
<1>3. CASE Decode
  BY <1>3, InputStays DEF Decode
<1>4. ASSUME NEW e \in todo, Handle(e)
      PROVE  InputOK'
  <2>1. /\ UNCHANGED <<stream, anchor, staged, baseline, resent, pc>> /\ pc = "ingest"
        /\ \/ UNCHANGED <<inbox, admitted>>
           \/ e \notin inbox /\ inbox' = inbox \cup {e} /\ admitted' = Append(admitted, e)
    BY <1>4 DEF Handle, IsNext, New
  <2>2. CASE UNCHANGED <<inbox, admitted>>
    BY <2>1, <2>2, InputStays DEF InputOK
  <2>3. CASE e \notin inbox /\ inbox' = inbox \cup {e} /\ admitted' = Append(admitted, e)
    <3>1. baseline # NoToken /\ (e > baseline \/ e \in resent) /\ e \in Events
      BY <2>1, BatchAfterBaseline
    <3>2. /\ Len(admitted) \in Nat /\ DOMAIN admitted = 1..Len(admitted) /\ DOMAIN admitted' = 1..(Len(admitted) + 1)
          /\ \A i \in 1..Len(admitted) : admitted'[i] = admitted[i]
          /\ admitted'[Len(admitted) + 1] = e
      BY <1>0, <2>3, <3>1
    <3>3. \A i \in DOMAIN admitted' : (i \in DOMAIN admitted /\ admitted'[i] = admitted[i]) \/ (i = Len(admitted) + 1 /\ admitted'[i] = e)
      <4>1. \A i \in 1..(Len(admitted) + 1) : i \in 1..Len(admitted) \/ i = Len(admitted) + 1
        BY <3>2
      <4> QED BY <3>2, <4>1
    <3>4. \A i \in DOMAIN admitted' : admitted'[i] \in inbox'
      BY <2>3, <3>3 DEF InputOK
    <3>5. \A i \in DOMAIN admitted' : baseline' # NoToken /\ (admitted'[i] > baseline' \/ admitted'[i] \in resent')
      BY <2>1, <3>1, <3>3 DEF InputOK, InputOnce
    <3>6. \A i \in DOMAIN admitted : admitted[i] # e
      BY <2>3 DEF InputOK
    <3>7. \A i, j \in DOMAIN admitted' : admitted'[i] = admitted'[j] => i = j
      BY <3>3, <3>6, Zenon DEF InputOK, InputOnce
    <3>8. /\ HasStaged' => \A p \in staged'.window : p > baseline' \/ p \in resent'
          /\ (pc' = "ingest" => ~Held') /\ (anchor' # 0 => EventsIn(anchor, baseline)' = {})
      BY <2>1 DEF InputOK, Held, HasStaged, Gap, Missed, EventsIn, Events
    <3> QED BY <3>4, <3>5, <3>7, <3>8 DEF InputOK, InputOnce
  <2> QED BY <2>1, <2>2, <2>3
<1>5. CASE Checkpoint
  <2>1. /\ UNCHANGED <<stream, admitted, resent, inbox>> /\ pc = "ingest" /\ pc' = "idle" /\ staged' = Nothing
        /\ baseline' = (IF token = NoToken THEN staged.next ELSE baseline)
        /\ anchor' \in (IF staged.window = {} THEN {anchor} ELSE Latest(staged.window))
    BY <1>5 DEF Checkpoint
  <2>5. \A low, high : EventsIn(low, high)' = EventsIn(low, high)
    BY <2>1 DEF EventsIn, Events
  <2>2. /\ HasStaged /\ Events' = Events /\ ~HasStaged' /\ token <= staged.next
        /\ staged.window \subseteq Events
        /\ \A p \in staged.window : EventsIn(p, staged.next) \subseteq staged.window
    BY <2>1 DEF SyncOK, TypeOK, BatchStaged, Events, HasStaged, Nothing, EventsIn
  <2>3. InputOnce'
    <3>1. baseline # NoToken => token # NoToken
      BY DEF SyncOK, CursorsInOrder
    <3> QED BY <2>1, <3>1 DEF InputOK, InputOnce
  <2>4. ASSUME anchor' # 0
        PROVE  EventsIn(anchor', baseline') = {}
    <3>1. CASE staged.window # {}
      <4>1. anchor' \in staged.window /\ \A q \in staged.window : q <= anchor'
        BY <2>1, <3>1 DEF Latest
      <4>2. \A q \in Events : ~(anchor' < q /\ q <= staged.next)
        <5> SUFFICES ASSUME NEW q \in Events, anchor' < q, q <= staged.next PROVE FALSE
          OBVIOUS
        <5>1. q \in staged.window
          BY <2>2, <4>1 DEF EventsIn
        <5>2. q <= anchor' /\ q \in Nat /\ anchor' \in Nat
          BY <1>0, <2>2, <4>1, <5>1
        <5> QED BY <5>2
      <4>3. baseline' \in Int /\ baseline' <= staged.next
        BY <1>0, <2>1, <2>2
      <4>4. \A q \in Events : q <= baseline' => q <= staged.next
        BY <1>0, <4>3
      <4> QED BY <2>2, <4>2, <4>4 DEF EventsIn
    <3>2. CASE staged.window = {}
      <4>1. anchor' = anchor /\ token # NoToken
        BY <1>0, <2>1, <2>4, <3>2 DEF SyncOK, CursorsInOrder, NoToken
      <4> QED BY <2>1, <2>2, <2>4, <4>1 DEF InputOK, EventsIn
    <3> QED BY <3>1, <3>2
  <2> QED BY <2>1, <2>2, <2>3, <2>4, <2>5 DEF InputOK
<1>6. ASSUME NEW e \in todo, AwaitContext(e) \/ FailContext(e) \/ CutContext(e)
      PROVE  InputOK'
  BY <1>6, InputStays DEF AwaitContext, FailContext, CutContext, CutReading
<1>7. CASE Retake \/ SdkSync \/ Hold \/ AwaitKey \/ FailDecoding \/ RawSyncLost \/ CutShort \/ CutDecoding
  <2>1. UNCHANGED <<stream, anchor, staged, baseline, admitted, resent, inbox>> /\ (pc' = "ingest" => pc = "ingest")
    BY <1>7 DEF Retake, SdkSync, Hold, AwaitKey, FailDecoding, RawSyncLost, CutShort, CutDecoding, CutReading
  <2> QED BY <2>1, InputStays DEF InputOK
<1>8. CASE UNCHANGED vars
  BY <1>8, InputStays DEF vars, InputOK
<1> QED BY <1>1, <1>2, <1>3, <1>4, <1>5, <1>6, <1>7, <1>8 DEF Next, Step

\* An event is taken as input at most once, however often its batch is retried or
\* the server sends it again, and one from before the baseline only in the latter
\* case (README.md:62).
THEOREM InputCorrect == Spec => []InputOnce
<1>1. Init => InputOK
  BY DEF Init, InputOK, HasStaged, Nothing, NoToken, InputOnce
<1>2. SyncOK /\ InputOK /\ [Next]_vars => InputOK'
  BY InputStep
<1>3. InputOK => InputOnce
  BY DEF InputOK
<1> QED BY <1>1, <1>2, <1>3, SyncCorrect, PTL DEF Spec

=============================================================================
