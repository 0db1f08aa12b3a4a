---------------------------- MODULE SyncPipeline ----------------------------
(***************************************************************************)
(* How Matrix events reach the journal (src/src/matrix.rs, src/src/store.rs *)
(* and the step of src/src/live.rs): a raw sync is staged, the SDK syncs    *)
(* from the same cursor to receive room keys, the staged events are         *)
(* decrypted, admitted one by one and the cursor is checkpointed.           *)
(*                                                                         *)
(* One room with one thread, in which the bot is mentioned or people talk.  *)
(* The homeserver keeps one stream; a token is a position in it.  An item   *)
(* is an event, encrypted for a session, or a room key sent to the device,  *)
(* which the server forgets once a later token is presented.  Senders,      *)
(* policies and what a request starts are in Bridge.                        *)
(***************************************************************************)
EXTENDS Integers, Sequences, FiniteSets

CONSTANTS
  Sessions,     \* Megolm sessions
  Forged,       \* those whose events fail the integrity or identity checks
  Policies,     \* values of missing_key_policy to consider
  Resends,      \* whether the server may send events again that it sent before
  WindowSize,   \* events the server puts in one response
  MaxBackfill,  \* events fetched to close a gap (500 in matrix.rs:559)
  MaxStream,    \* bound: length of the stream
  MaxFaults     \* bound: requests that fail, deadlines and crashes, together

ASSUME SyncAssumption ==
  /\ Forged \subseteq Sessions
  /\ Resends \in BOOLEAN
  /\ Policies \subseteq {"wait", "quarantine"} /\ Policies # {}
  /\ WindowSize \in Nat \ {0}
  /\ MaxBackfill \in Nat
  /\ MaxStream \in Nat
  /\ MaxFaults \in Nat

NoToken == -1

VARIABLES
  stream,    \* what the server has received
  acked,     \* the latest token presented to the server
  keys,      \* sessions the SDK's crypto store has
  policy,    \* missing_key_policy
  token,     \* the checkpointed cursor
  anchor,    \* the room's anchor, 0 if none
  staged,    \* the staged batch
  inbox,     \* events in the inbox of the journal
  bound,     \* whether the thread has a conversation
  archive,   \* events in unreadable_events
  pc,        \* where the step is
  todo,      \* events of the decoded batch not yet handled, earliest first
  baseline,  \* history: the first cursor checkpointed
  judged,    \* history: events the journal decided about
  admitted,  \* history: events it took as input, in order
  resent,    \* history: events from before it that the server sent again
  faults

serverVars  == <<stream, acked>>
journalVars == <<token, anchor, staged, inbox, bound, archive>>
stepVars    == <<pc, todo>>
history     == <<baseline, judged, admitted, resent>>
vars == <<serverVars, keys, policy, journalVars, stepVars, history, faults>>

Kinds == {"mention", "talk", "malformed", "key"}
Item(kind, session) == [kind |-> kind, session |-> session]

Events == {p \in DOMAIN stream : stream[p].kind # "key"}
EventsIn(low, high) == {p \in Events : low < p /\ p <= high}
HasKey(p) == stream[p].session \in keys

Nothing == [next |-> NoToken, since |-> NoToken, window |-> {}, limited |-> FALSE]
HasStaged == staged.next # NoToken

Init ==
  /\ stream = <<>> /\ acked = NoToken
  /\ keys = {}
  /\ policy \in Policies
  /\ token = NoToken /\ anchor = 0 /\ staged = Nothing
  /\ inbox = {} /\ bound = FALSE /\ archive = {}
  /\ pc = "idle" /\ todo = {}
  /\ baseline = NoToken /\ judged = {} /\ admitted = <<>> /\ resent = {}
  /\ faults = 0

-----------------------------------------------------------------------------
(* The homeserver and the people in the room *)

\* Of an event that is never read it does not matter what it says, nor which
\* session a malformed one names.
Post(kind, s) ==
  /\ Len(stream) < MaxStream
  /\ kind = "mention" => s \notin Forged
  /\ kind = "malformed" => s = CHOOSE x \in Sessions : TRUE
  /\ stream' = Append(stream, Item(kind, s))
  /\ UNCHANGED <<acked, keys, policy, journalVars, stepVars, history, faults>>

Later(a, b) == IF a < b THEN b ELSE a

\* The latest events after a token that fit in one response.
WindowAfter(since) ==
  {p \in EventsIn(since, Len(stream)) :
     Cardinality(EventsIn(p, Len(stream))) < WindowSize}

\* The timelines it may answer with: the latest events after the token or, if it
\* starts the room's timeline anew, the latest events whether sent before or not.
Timelines(since) ==
  {[window |-> WindowAfter(since), limited |-> WindowAfter(since) # EventsIn(since, Len(stream))]}
  \cup (IF ~Resends \/ since = NoToken \/ WindowAfter(NoToken) = {} THEN {}
        ELSE {[window |-> WindowAfter(NoToken), limited |-> TRUE]})

-----------------------------------------------------------------------------
(* poll *)

\* The response to a raw sync from the checkpointed cursor is staged.
RawSync ==
  /\ pc = "idle" /\ ~HasStaged
  /\ acked' = Later(acked, token)
  /\ \E t \in Timelines(token) :
       /\ staged' = [since |-> token, next |-> Len(stream), window |-> t.window, limited |-> t.limited]
       /\ resent' = resent \cup {p \in t.window : p <= baseline}
  /\ pc' = "sdk"
  /\ UNCHANGED <<stream, keys, policy, token, anchor, inbox, bound, archive, todo, baseline, judged, admitted, faults>>

\* The response is lost, or the process stops before it is staged.
RawSyncLost ==
  /\ pc = "idle" /\ ~HasStaged
  /\ faults < MaxFaults /\ faults' = faults + 1
  /\ acked' = Later(acked, token)
  /\ UNCHANGED <<stream, keys, policy, journalVars, stepVars, history>>

\* Mutant: a retained batch is decrypted again without another SDK sync.
RetakeDecoding ==
  /\ pc = "idle" /\ HasStaged
  /\ pc' = "decode"
  /\ UNCHANGED <<serverVars, keys, policy, journalVars, todo, history, faults>>

\* A retained batch is taken up again.
Retake ==
  /\ pc = "idle" /\ HasStaged
  /\ pc' = "sdk"
  /\ UNCHANGED <<serverVars, keys, policy, journalVars, todo, history, faults>>

\* The room keys the server still has for this device, after a token.
KeysAfter(since) ==
  {stream[p].session : p \in {q \in DOMAIN stream : stream[q].kind = "key" /\ q > since}}

\* Mutant: the SDK syncs from where the raw sync ended.
SdkSyncAhead ==
  /\ pc = "sdk"
  /\ acked' = Later(acked, staged.next)
  /\ keys' = keys \cup KeysAfter(staged.next)
  /\ pc' = "decode"
  /\ UNCHANGED <<stream, policy, journalVars, todo, history, faults>>

\* The SDK syncs from the cursor of the staged batch.
SdkSync ==
  /\ pc = "sdk"
  /\ acked' = Later(acked, staged.since)
  /\ keys' = keys \cup KeysAfter(Later(acked, staged.since))
  /\ pc' = "decode"
  /\ UNCHANGED <<stream, policy, journalVars, todo, history, faults>>

\* Mutant: a gap is not noticed.
NoGap == FALSE

\* The window does not reach back to what was seen last.
Gap == staged.limited /\ anchor \notin staged.window

Missed == EventsIn(anchor, staged.next) \ staged.window

\* matrix.rs:217 and backfill_to_anchor: the staged cursor is retained.
Held == HasStaged /\ staged.since # NoToken /\ Gap /\ (anchor = 0 \/ Cardinality(Missed) >= MaxBackfill)

\* Mutant: the first response is executed too.
BatchAlways == (IF Gap THEN Missed ELSE {}) \cup staged.window

\* What a batch brings in; the first one only establishes a baseline.
Batch ==
  IF staged.since = NoToken THEN {}
  ELSE (IF Gap THEN Missed ELSE {}) \cup staged.window

Hold ==
  /\ pc = "decode" /\ Held
  /\ pc' = "idle"
  /\ UNCHANGED <<serverVars, keys, policy, journalVars, todo, history, faults>>

\* An event without its key; the policy quarantine archives it.
Unreadable(S) == {p \in S : stream[p].kind # "malformed" /\ ~HasKey(p)}

\* An event that no policy excuses.
Failing(S) == {p \in S : stream[p].kind = "malformed" \/ (HasKey(p) /\ stream[p].session \in Forged)}

\* Events are read in the order of the room, up to the first that fails or,
\* under the policy wait, has no key.
Obstacles(S) == Failing(S) \cup IF policy = "wait" THEN Unreadable(S) ELSE {}
StopsAt(S, p) == p \in Obstacles(S) /\ \A q \in Obstacles(S) : p <= q

\* What has been archived by the time p is read.
ArchivedBefore(S, p) == archive \cup IF policy = "wait" THEN {} ELSE {q \in Unreadable(S) : q < p}

\* A key is missing: the batch is retained, and the step goes on without it.
AwaitKey ==
  /\ pc = "decode" /\ ~Held
  /\ \E p \in Unreadable(Batch) : StopsAt(Batch, p)
  /\ pc' = "idle"
  /\ UNCHANGED <<serverVars, keys, policy, journalVars, todo, history, faults>>

\* An event of the batch fails, and with it the step, whatever the policy.
FailDecoding ==
  /\ pc = "decode" /\ ~Held
  /\ \E p \in Failing(Batch) : StopsAt(Batch, p) /\ archive' = ArchivedBefore(Batch, p)
  /\ pc' = "idle"
  /\ UNCHANGED <<serverVars, keys, policy, token, anchor, staged, inbox, bound, todo, history, faults>>

Decode ==
  /\ pc = "decode" /\ ~Held
  /\ Obstacles(Batch) = {}
  /\ archive' = archive \cup Unreadable(Batch)
  /\ todo' = Batch \ Unreadable(Batch)
  /\ pc' = "ingest"
  /\ UNCHANGED <<serverVars, keys, policy, token, anchor, staged, inbox, bound, history, faults>>

-----------------------------------------------------------------------------
(* ingest_live_batch *)

\* A mention is admitted, and anything in a thread that has a conversation.
Admissible(p) == stream[p].kind = "mention" \/ bound

\* Mutant: the inbox is not consulted.
NewByRelation(e) == Admissible(e)

\* An event the inbox has is a duplicate.
New(e) == Admissible(e) /\ e \notin inbox

\* needs_context: a new request is given the thread up to it.
Context(p) == IF New(p) THEN EventsIn(0, p - 1) ELSE {}

\* The events of a batch are handled in the order of the room.
IsNext(e) == pc = "ingest" /\ e \in todo /\ \A f \in todo : e <= f

\* The history of the thread cannot be decrypted yet.
AwaitContext(e) ==
  /\ IsNext(e)
  /\ \E p \in Unreadable(Context(e)) : StopsAt(Context(e), p)
  /\ pc' = "idle" /\ todo' = {}
  /\ UNCHANGED <<serverVars, keys, policy, journalVars, history, faults>>

\* An event of that history fails.
FailContext(e) ==
  /\ IsNext(e)
  /\ \E p \in Failing(Context(e)) : StopsAt(Context(e), p) /\ archive' = ArchivedBefore(Context(e), p)
  /\ pc' = "idle" /\ todo' = {}
  /\ UNCHANGED <<serverVars, keys, policy, token, anchor, staged, inbox, bound, history, faults>>

Handle(e) ==
  /\ IsNext(e)
  /\ Obstacles(Context(e)) = {}
  /\ archive' = archive \cup Unreadable(Context(e))
  /\ inbox' = IF New(e) THEN inbox \cup {e} ELSE inbox
  /\ bound' = (bound \/ New(e))
  /\ admitted' = IF New(e) THEN Append(admitted, e) ELSE admitted
  /\ judged' = judged \cup {e}
  /\ todo' = todo \ {e}
  /\ UNCHANGED <<serverVars, keys, policy, token, anchor, staged, pc, baseline, resent, faults>>

\* Mutant: the staged batch stays.
CheckpointOnly ==
  /\ pc = "ingest" /\ todo = {}
  /\ token' = staged.next
  /\ pc' = "idle"
  /\ UNCHANGED <<serverVars, keys, policy, anchor, staged, inbox, bound, archive, todo, history, faults>>

Latest(S) == {p \in S : \A q \in S : q <= p}

\* checkpoint_sync_with_anchors: cursor, anchor and staged batch in one commit.
Checkpoint ==
  /\ pc = "ingest" /\ todo = {}
  /\ token' = staged.next
  /\ baseline' = IF token = NoToken THEN staged.next ELSE baseline
  /\ anchor' \in IF staged.window = {} THEN {anchor} ELSE Latest(staged.window)
  /\ staged' = Nothing
  /\ pc' = "idle"
  /\ UNCHANGED <<serverVars, keys, policy, inbox, bound, archive, todo, judged, admitted, resent, faults>>

\* An error, the deadline, a signal or a crash wherever the step waits.
CutShort ==
  /\ pc # "idle"
  /\ faults < MaxFaults /\ faults' = faults + 1
  /\ pc' = "idle" /\ todo' = {}
  /\ UNCHANGED <<serverVars, keys, policy, journalVars, history>>

\* The same while events are decrypted, some of which are archived already.
CutReading(S) ==
  /\ faults < MaxFaults /\ faults' = faults + 1
  /\ \E p \in S : (\A q \in Obstacles(S) : p <= q) /\ archive' = ArchivedBefore(S, p)
  /\ pc' = "idle" /\ todo' = {}
  /\ UNCHANGED <<serverVars, keys, policy, token, anchor, staged, inbox, bound, history>>

CutDecoding == pc = "decode" /\ ~Held /\ CutReading(Batch)
CutContext(e) == IsNext(e) /\ CutReading(Context(e))

-----------------------------------------------------------------------------
Step ==
  \/ RawSync \/ Retake \/ SdkSync \/ Hold \/ AwaitKey \/ FailDecoding \/ Decode
  \/ \E e \in todo : AwaitContext(e) \/ FailContext(e) \/ Handle(e)
  \/ Checkpoint

Next ==
  \/ \E kind \in Kinds, s \in Sessions : Post(kind, s)
  \/ Step
  \/ RawSyncLost
  \/ CutShort \/ CutDecoding \/ \E e \in todo : CutContext(e)

Spec == Init /\ [][Next]_vars

\* The step is repeated for ever.
FairSpec == Spec /\ WF_vars(Step)

-----------------------------------------------------------------------------
(* Properties *)

Positions == 1..MaxStream
Tokens == NoToken..MaxStream

\* Every variable has its type; a staged batch starts at the checkpointed
\* cursor, and what is left of a batch belongs to it.
TypeOK ==
  /\ stream \in Seq([kind : Kinds, session : Sessions])
  /\ acked \in Tokens /\ keys \subseteq Sessions /\ policy \in Policies
  /\ token \in Tokens /\ anchor \in 0..MaxStream /\ anchor <= Len(stream)
  /\ staged \in [since : Tokens, next : Tokens, window : SUBSET Positions, limited : BOOLEAN]
  /\ HasStaged => staged.since = token /\ token <= staged.next
  /\ inbox \subseteq judged /\ bound \in BOOLEAN /\ archive \subseteq Events
  /\ pc \in {"idle", "sdk", "decode", "ingest"}
  /\ todo \subseteq Batch
  /\ baseline \in Tokens /\ judged \subseteq Events /\ admitted \in Seq(Events) /\ resent \subseteq Events
  /\ faults \in 0..MaxFaults

\* The cursor never passes an event that was neither decided about nor
\* archived, whatever is lost, limited or cut short (ARCHITECTURE.md:47).
NothingSkipped ==
  baseline # NoToken => EventsIn(baseline, token) \subseteq judged \cup archive

\* A room key the server has forgotten is in the crypto store: the raw sync
\* never acknowledges keys the SDK has not received.
KeysSurvive ==
  \A p \in DOMAIN stream :
    stream[p].kind = "key" /\ p <= acked => stream[p].session \in keys

\* README.md:62 and ARCHITECTURE.md:37: an event is taken as input at most once,
\* however often its batch is retried or the server sends it again, and one from
\* before the baseline only if the server does send it again.
InputOnce ==
  /\ \A i, j \in DOMAIN admitted : admitted[i] = admitted[j] => i = j
  /\ \A i \in DOMAIN admitted : baseline # NoToken /\ (admitted[i] > baseline \/ admitted[i] \in resent)

\* No event fails, and the policy, or the room keys that were sent, allow every
\* event to be read.
Recoverable ==
  /\ Failing(Events) = {}
  /\ \/ policy = "quarantine"
     \/ \A p \in Events : \E q \in DOMAIN stream : stream[q] = Item("key", stream[p].session)

\* Every event is decided about or archived in the end, unless a gap holds the
\* cursor, an event fails under any policy (matrix.rs:61, TROUBLESHOOTING.md:55),
\* or a key is never sent under the policy wait: then the batch is retained.
CatchesUp ==
  <>[](~Held /\ Recoverable) =>
    []<>(baseline # NoToken /\ EventsIn(baseline, Len(stream)) \subseteq judged \cup archive)

\* POLICIES.md:29: "A real bot mention starts a thread; approved follow-ups in
\* an established bot thread continue it." What people said before is no input.
OnlyFollowUpsContinue ==
  \A i \in DOMAIN admitted :
    \E p \in Events : p <= admitted[i] /\ stream[p].kind = "mention" /\ p > baseline

\* TROUBLESHOOTING.md:50: "archived requests are never automatically replayed if
\* keys arrive later".
ArchivedStaysArchived == \A i \in DOMAIN admitted : admitted[i] \notin archive

=============================================================================
