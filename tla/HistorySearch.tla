--------------------------- MODULE HistorySearch ---------------------------
(***************************************************************************)
(* matrix_search (src/src/matrix_tools.rs): a client walks the history of  *)
(* a room, newest first, by calls with a limit and the cursor the call     *)
(* before returned.  A call fetches pages until it has enough matches.     *)
(*                                                                         *)
(* An event is a position of the history; what a search does with it       *)
(* depends on whether it matches the filters, can be read, or neither.     *)
(* The homeserver is external: a token of its pagination is the number of  *)
(* events older than it, and a page is stable, the same events from the    *)
(* same token.  A faithful server hands out tokens that go on where the    *)
(* page ended; a faulty one may hand out the newest instead.  Either may    *)
(* answer with an empty page and a token before the start of the history.  *)
(***************************************************************************)
EXTENDS Naturals, Sequences, SequencesExt, FiniteSetsExt

CONSTANTS
  Limits,      \* the limits a call may have
  MaxHistory,  \* bound: events of the room
  MaxPage,     \* events a page may hold
  None

ASSUME SearchAssumption ==
  /\ Limits \subseteq Nat \ {0}
  /\ MaxHistory \in Nat /\ MaxPage \in Nat \ {0}
  /\ None \notin 0..MaxHistory

VARIABLES
  faithful,   \* the server hands out the tokens it should
  pageSize,   \* how many events the server puts into the page from a token
  lastToken,  \* the server hands out a token at the start of the history
  history,    \* the events of the room, oldest first
  cursor,     \* the client's cursor: none at first, then next_cursor
  exhausted,  \* history_exhausted
  rest,       \* history: the events older than the page that ended the walk
  top,        \* history: how many events there were when the walk began
  found,      \* history: the events the client was given by a faithful server
  gaps,       \* history: those counted in undecryptable_events
  call        \* the locals of a call in progress, or None

serverVars == <<faithful, pageSize, lastToken>>
clientVars == <<cursor, exhausted, rest, found, gaps>>
vars == <<serverVars, history, clientVars, top, call>>

Kinds   == {"match", "other", "sealed"}
Tokens  == 0..MaxHistory
Start   == [from |-> None, skip |-> 0]

Init ==
  /\ faithful \in BOOLEAN
  /\ lastToken \in BOOLEAN /\ (lastToken => faithful)
  /\ pageSize \in [Tokens -> 0..MaxPage]
  /\ \A t \in Tokens : pageSize[t] <= t
  /\ history \in BoundedSeq(Kinds, MaxHistory)
  /\ cursor = Start /\ exhausted = FALSE /\ rest = 0
  /\ top = 0 /\ found = <<>> /\ gaps = <<>>
  /\ call = None

-----------------------------------------------------------------------------
(* The room and its server *)

Arrive(k) ==
  /\ Len(history) < MaxHistory
  /\ history' = Append(history, k)
  /\ UNCHANGED <<serverVars, clientVars, top, call>>

\* A missing key arrives.
Unseal(p, k) ==
  /\ history[p] = "sealed" /\ k # "sealed"
  /\ history' = [history EXCEPT ![p] = k]
  /\ UNCHANGED <<serverVars, clientVars, top, call>>

\* Where a page starts: at its token, or at the newest event.
StartOf(from) == IF from = None THEN Len(history) ELSE from

\* What page.end may be.
Ends(start) ==
  LET left == start - pageSize[start]
  IN CASE ~faithful -> {left, Len(history)}
       [] faithful /\ left = 0 /\ ~lastToken -> {None}
       [] OTHER -> {left}

-----------------------------------------------------------------------------
(* search *)

\* Bound: what a faulty server returned is not followed up.
Begin(limit) ==
  /\ call = None /\ ~exhausted /\ (faithful \/ cursor = Start)
  /\ call' = [limit |-> limit, cursor |-> cursor, messages |-> <<>>, sealed |-> <<>>, tokens |-> {}]
  /\ UNCHANGED <<serverVars, history, clientVars, top>>

\* Mutant: the page is resumed from the token it was asked with, and the first
\* page from none.
ResumeAsked(start, index, end) ==
  IF index + 1 < pageSize[start]
  THEN [from |-> call.cursor.from, skip |-> index + 1]
  ELSE [from |-> end, skip |-> 0]

\* next: the position within the page, or the page after it.
ResumeAfter(start, index, end) ==
  IF index + 1 < pageSize[start]
  THEN [from |-> start, skip |-> index + 1]
  ELSE [from |-> end, skip |-> 0]

\* The call returns what it found and where to go on; no token, no cursor.
\* Its last page left so many events of the history behind.
Return(messages, sealed, next, left) ==
  /\ call' = None
  /\ found' = IF faithful THEN found \o messages ELSE found
  /\ gaps' = IF faithful THEN gaps \o sealed ELSE gaps
  /\ exhausted' = (next.from = None)
  /\ rest' = IF next.from = None THEN left ELSE rest
  /\ cursor' = next

\* Mutant: repeated tokens are not noticed.
RepeatedNever(end) == FALSE

\* history pagination repeated a token
Repeated(end) == end \in call.tokens

\* The events of the page from start that are of kind k, newest first: picked[n]
\* has those at its first n positions, except that skip positions are passed over.
Picked(start, skip, k) ==
  LET picked[n \in 0..pageSize[start]] ==
        IF n <= skip THEN <<>>
        ELSE IF history[start - (n - 1)] = k THEN Append(picked[n - 1], start - (n - 1))
        ELSE picked[n - 1]
  IN picked

\* Another page is answered.
Page ==
  /\ call # None
  /\ LET start   == StartOf(call.cursor.from)
         length  == pageSize[start]
         seen(n, k) == Picked(start, call.cursor.skip, k)[n]
         enough == {j \in call.cursor.skip..(length - 1) :
                      Len(call.messages) + Len(seen(j + 1, "match")) = call.limit}
     IN /\ top' = IF call.cursor.from = None THEN start ELSE top
        /\ \E end \in Ends(start) :
             \/ /\ enough # {}
                /\ LET index == Min(enough)
                   IN Return(call.messages \o seen(index + 1, "match"),
                             call.sealed \o seen(index + 1, "sealed"),
                             ResumeAfter(start, index, end), start - (index + 1))
             \/ /\ enough = {} /\ (end = None \/ length = 0)
                /\ Return(call.messages \o seen(length, "match"),
                          call.sealed \o seen(length, "sealed"), Start, start - length)
             \/ /\ enough = {} /\ end # None /\ length > 0 /\ Repeated(end)
                /\ call' = None
                /\ UNCHANGED clientVars
             \/ /\ enough = {} /\ end # None /\ length > 0 /\ ~Repeated(end)
                /\ call' = [call EXCEPT
                     !.cursor = [from |-> end, skip |-> 0],
                     !.messages = @ \o seen(length, "match"),
                     !.sealed = @ \o seen(length, "sealed"),
                     !.tokens = @ \cup {end}]
                /\ UNCHANGED clientVars
  /\ UNCHANGED <<serverVars, history>>

\* The room is not permitted any more, or a request fails: the client may call
\* again with the cursor it has.
Fail ==
  /\ call # None
  /\ call' = None
  /\ UNCHANGED <<serverVars, history, clientVars, top>>

-----------------------------------------------------------------------------
Next ==
  \/ \E k \in Kinds : Arrive(k)
  \/ \E p \in DOMAIN history, k \in Kinds : Unseal(p, k)
  \/ \E limit \in Limits : Begin(limit)
  \/ Page
  \/ Fail

\* A request is answered or fails.
Spec == Init /\ [][Next]_vars /\ WF_vars(Page)

-----------------------------------------------------------------------------
(* Properties *)

Decreasing(s) == \A i, j \in DOMAIN s : i < j => s[i] > s[j]

\* matrix_tools.rs:346, "Follow next_cursor until history_exhausted;
\* undecryptable_events reports missing-key gaps. Returns newest first": with
\* whatever limits, page boundaries, new messages, late keys and failed calls,
\* the walk returns no event twice and none out of order, and at its end every
\* match it came past was returned or was counted as a gap.  It came past the
\* whole history unless a page with nothing in it, which the code takes for the
\* start of the history, ended it.
EachOnce ==
  faithful =>
    /\ Decreasing(found) /\ Decreasing(gaps)
    /\ exhausted =>
         /\ \A p \in (rest + 1)..top :
              history[p] \in {"match", "sealed"} => p \in ToSet(found) \cup ToSet(gaps)
         /\ rest > 0 => pageSize[rest] = 0

\* A call ends even if the server sends it in circles.
CallsEnd == []<>(call = None)
=============================================================================
