---------------------------- MODULE SearchProofs ----------------------------
(***************************************************************************)
(* Proofs about HistorySearch, for any history, page sizes and limits: a   *)
(* walk through a faithful server's history returns each event once.       *)
(*                                                                         *)
(* What a walk or a call returned so far is a piece of the history         *)
(* (Walked): it has all that counts between two positions, newest first.   *)
(* Adjacent pieces join (WalkedJoin), and the part of a page a call reads  *)
(* is one (PageWalked).                                                    *)
(***************************************************************************)
EXTENDS HistorySearch, WellFoundedInduction, TLAPS

Within(s, low, high) == \A i \in DOMAIN s : low < s[i] /\ s[i] <= high

Covers(h, s, g, low, high) ==
  \A p \in (low + 1)..high : h[p] \in {"match", "sealed"} => p \in ToSet(s) \cup ToSet(g)

\* Of history h, s has the matches and g the gaps older than or at high and
\* newer than low.
Walked(h, s, g, low, high) ==
  /\ low \in Nat /\ high \in Nat /\ low <= high
  /\ s \in Seq(Nat) /\ g \in Seq(Nat)
  /\ Decreasing(s) /\ Decreasing(g)
  /\ Within(s, low, high) /\ Within(g, low, high)
  /\ Covers(h, s, g, low, high)

Cursors == {Start} \cup {c \in [from : Tokens, skip : Nat] : c.skip <= pageSize[c.from]}

\* The position a cursor goes on at, of a walk that began at top.
Reached(c) == IF c.from = None THEN top ELSE c.from - c.skip

ServerOK ==
  /\ pageSize \in [Tokens -> Nat]
  /\ \A t \in Tokens : pageSize[t] <= t

HistoryOK ==
  /\ history \in Seq(Kinds) /\ Len(history) <= MaxHistory
  /\ top \in 0..Len(history)

\* The client has what lies between the newest event and its cursor, or the
\* rest of the history, which is none or behind an empty page.
WalkOK ==
  /\ cursor \in Cursors
  /\ Walked(history, found, gaps, IF exhausted THEN rest ELSE Reached(cursor), top)
  /\ exhausted /\ rest > 0 => pageSize[rest] = 0

\* A call has what lies between the client's cursor and its own.
CallOK ==
  call # None =>
    /\ ~exhausted
    /\ call \in [limit : Limits, cursor : Cursors, messages : Seq(Nat), sealed : Seq(Nat), tokens : SUBSET Tokens]
    /\ call.cursor.from = None => cursor.from = None
    /\ Walked(history, call.messages, call.sealed, Reached(call.cursor), Reached(cursor))

SearchOK == faithful => ServerOK /\ HistoryOK /\ WalkOK /\ CallOK
-----------------------------------------------------------------------------
(* Pieces of the history *)

\* A set of naturals that is closed under successor from 0 to n holds n.
LEMMA UpTo ==
  ASSUME NEW n \in Nat, NEW S, 0 \in S,
         \A i \in 0..n : i \in S /\ i # n => i + 1 \in S
  PROVE  \A i \in 0..n : i \in S
<1> SUFFICES ASSUME NEW k \in 0..n, k \notin S
             PROVE  FALSE
  OBVIOUS
<1> DEFINE T == {i \in Nat : i <= n /\ i \notin S}
<1>1. PICK i \in T : \A j \in T : ~ (<<j, i>> \in OpToRel(<, Nat))
  <2>1. T \subseteq Nat /\ T # {}
    OBVIOUS
  <2> HIDE DEF T
  <2> QED BY <2>1, NatLessThanWellFounded, WFMin
<1>2. i \in Nat /\ i - 1 \in T
  OBVIOUS
<1>3. \A x, y \in Nat : x < y => <<x, y>> \in OpToRel(<, Nat)
  BY DEF OpToRel
<1>4. \A x \in Nat : x < i => x \notin T
  <2> HIDE DEF T
  <2>1. i \in Nat
    BY <1>2
  <2> QED BY <2>1, <1>1, <1>3, Zenon
<1> QED BY <1>2, <1>4

\* A set of naturals that holds something has a smallest element.
LEMMA Smallest ==
  ASSUME NEW T \in SUBSET Nat, T # {}
  PROVE  \E i \in T : \A j \in T : i <= j
<1>1. PICK i \in T : \A j \in T : ~ (<<j, i>> \in OpToRel(<, Nat))
  BY NatLessThanWellFounded, WFMin
<1>2. \A x, y \in Nat : x < y => <<x, y>> \in OpToRel(<, Nat)
  BY DEF OpToRel
<1>3. \A x \in T : ~(x < i)
  BY <1>1, <1>2, Zenon
<1> QED BY <1>3

\* The elements of two sequences are those of their concatenation.
LEMMA JoinedElements ==
  ASSUME NEW T, NEW s \in Seq(T), NEW t \in Seq(T)
  PROVE  ToSet(s \o t) = ToSet(s) \cup ToSet(t)
<1>1. ASSUME NEW x \in ToSet(s)
      PROVE  x \in ToSet(s \o t)
  BY <1>1 DEF ToSet
<1>2. ASSUME NEW x \in ToSet(t)
      PROVE  x \in ToSet(s \o t)
  <2>1. PICK i \in 1..Len(t) : x = t[i]
    BY <1>2 DEF ToSet
  <2>2. Len(s) + i \in 1..Len(s \o t) /\ (s \o t)[Len(s) + i] = x
    BY <2>1
  <2> QED BY <2>2 DEF ToSet
<1>3. ASSUME NEW x \in ToSet(s \o t)
      PROVE  x \in ToSet(s) \cup ToSet(t)
  <2>1. PICK i \in 1..Len(s \o t) : x = (s \o t)[i]
    BY <1>3 DEF ToSet
  <2>2. CASE i <= Len(s)
    BY <2>1, <2>2 DEF ToSet
  <2>3. CASE i > Len(s)
    <3>1. i - Len(s) \in 1..Len(t) /\ t[i - Len(s)] = x
      BY <2>1, <2>3
    <3> QED BY <3>1 DEF ToSet
  <2> QED BY <2>1, <2>2, <2>3
<1> QED BY <1>1, <1>2, <1>3

\* Appending is joining a sequence of one; joining nothing changes nothing.
LEMMA JoinedOne ==
  ASSUME NEW s \in Seq(Nat), NEW x \in Nat
  PROVE  s \o <<x>> = Append(s, x) /\ s \o <<>> = s
<1>1. s \o <<x>> \in Seq(Nat) /\ Append(s, x) \in Seq(Nat) /\ s \o <<>> \in Seq(Nat)
  OBVIOUS
<1>2. Len(s \o <<x>>) = Len(Append(s, x)) /\ \A i \in 1..Len(s \o <<x>>) : (s \o <<x>>)[i] = Append(s, x)[i]
  OBVIOUS
<1>3. Len(s \o <<>>) = Len(s) /\ \A i \in 1..Len(s) : (s \o <<>>)[i] = s[i]
  OBVIOUS
<1> QED BY <1>1, <1>2, <1>3

\* Sequences that are newest first and adjacent in the history join to one.
LEMMA JoinedInOrder ==
  ASSUME NEW low \in Nat, NEW mid \in Nat, NEW high \in Nat, low <= mid, mid <= high,
         NEW s \in Seq(Nat), NEW t \in Seq(Nat), Decreasing(s), Decreasing(t),
         Within(s, mid, high), Within(t, low, mid)
  PROVE  /\ s \o t \in Seq(Nat)
         /\ Decreasing(s \o t)
         /\ Within(s \o t, low, high)
<1>1. \A i \in DOMAIN (s \o t) :
        \/ i \in DOMAIN s /\ (s \o t)[i] = s[i]
        \/ i > Len(s) /\ i - Len(s) \in DOMAIN t /\ (s \o t)[i] = t[i - Len(s)]
  OBVIOUS
<1>2. DOMAIN s = 1..Len(s) /\ DOMAIN t = 1..Len(t) /\ DOMAIN (s \o t) \subseteq Nat
      /\ (\A i \in DOMAIN s : s[i] \in Nat) /\ (\A i \in DOMAIN t : t[i] \in Nat)
  OBVIOUS
<1>3. Within(s \o t, low, high)
  BY <1>1, <1>2 DEF Within
<1>4. ASSUME NEW i \in DOMAIN (s \o t), NEW j \in DOMAIN (s \o t), i < j
      PROVE  (s \o t)[i] > (s \o t)[j]
  <2>1. CASE j <= Len(s)
    <3>1. i \in DOMAIN s /\ j \in DOMAIN s /\ (s \o t)[i] = s[i] /\ (s \o t)[j] = s[j]
      BY <1>1, <1>2, <1>4, <2>1
    <3> QED BY <3>1, <1>4 DEF Decreasing
  <2>2. CASE i > Len(s)
    <3>1. /\ i - Len(s) \in DOMAIN t /\ (s \o t)[i] = t[i - Len(s)]
          /\ j - Len(s) \in DOMAIN t /\ (s \o t)[j] = t[j - Len(s)]
          /\ i - Len(s) < j - Len(s)
      BY <1>1, <1>2, <1>4, <2>2
    <3> QED BY <3>1 DEF Decreasing
  <2>3. CASE i <= Len(s) /\ j > Len(s)
    <3>1. /\ i \in DOMAIN s /\ (s \o t)[i] = s[i]
          /\ j - Len(s) \in DOMAIN t /\ (s \o t)[j] = t[j - Len(s)]
      BY <1>1, <1>2, <1>4, <2>3
    <3> QED BY <3>1, <1>2 DEF Within
  <2> QED BY <1>2, <1>4, <2>1, <2>2, <2>3
<1> QED BY <1>3, <1>4 DEF Decreasing

\* A piece of the history and the next older one make a piece.
LEMMA WalkedJoin ==
  ASSUME NEW h, NEW s1, NEW g1, NEW s2, NEW g2, NEW low, NEW mid, NEW high,
         Walked(h, s1, g1, mid, high), Walked(h, s2, g2, low, mid)
  PROVE  Walked(h, s1 \o s2, g1 \o g2, low, high)
<1>1. /\ low \in Nat /\ mid \in Nat /\ high \in Nat /\ low <= mid /\ mid <= high
      /\ s1 \in Seq(Nat) /\ s2 \in Seq(Nat) /\ g1 \in Seq(Nat) /\ g2 \in Seq(Nat)
  BY DEF Walked
<1>2. s1 \o s2 \in Seq(Nat) /\ Decreasing(s1 \o s2) /\ Within(s1 \o s2, low, high)
  BY <1>1, JoinedInOrder DEF Walked
<1>3. g1 \o g2 \in Seq(Nat) /\ Decreasing(g1 \o g2) /\ Within(g1 \o g2, low, high)
  BY <1>1, JoinedInOrder DEF Walked
<1>4. ToSet(s1 \o s2) = ToSet(s1) \cup ToSet(s2) /\ ToSet(g1 \o g2) = ToSet(g1) \cup ToSet(g2)
  BY <1>1, JoinedElements
<1>5. Covers(h, s1 \o s2, g1 \o g2, low, high)
  <2> SUFFICES ASSUME NEW p \in (low + 1)..high, h[p] \in {"match", "sealed"}
               PROVE  p \in ToSet(s1 \o s2) \cup ToSet(g1 \o g2)
    BY DEF Covers
  <2>1. p \in (mid + 1)..high \/ p \in (low + 1)..mid
    BY <1>1
  <2>2. CASE p \in (mid + 1)..high
    BY <2>2, <1>4 DEF Walked, Covers
  <2>3. CASE p \in (low + 1)..mid
    BY <2>3, <1>4 DEF Walked, Covers
  <2> QED BY <2>1, <2>2, <2>3
<1> QED BY <1>1, <1>2, <1>3, <1>5 DEF Walked

\* Nothing is a piece of no length, and a piece of no length is nothing.
LEMMA WalkedNowhere ==
  ASSUME NEW h, NEW s, NEW g, NEW low \in Nat
  PROVE  Walked(h, s, g, low, low) <=> s = <<>> /\ g = <<>>
<1>1. ASSUME NEW t \in Seq(Nat), Within(t, low, low)
      PROVE  t = <<>>
  <2> SUFFICES ASSUME t # <<>>
               PROVE  FALSE
    OBVIOUS
  <2>1. 1 \in DOMAIN t /\ t[1] \in Nat
    OBVIOUS
  <2> QED BY <1>1, <2>1 DEF Within
<1>2. Walked(h, <<>>, <<>>, low, low)
  BY DEF Walked, Decreasing, Within, Covers
<1> QED BY <1>1, <1>2 DEF Walked

\* One turn of the loop over a page: what follows s at position n.
Extended(h, start, skip, k, n, s) ==
  IF n <= skip THEN <<>>
  ELSE IF h[start - (n - 1)] = k THEN Append(s, start - (n - 1))
  ELSE s

IsLoop(f, h, start, skip, k, size) ==
  f = [n \in 0..size |-> Extended(h, start, skip, k, n, f[n - 1])]

\* The loop over a page is well defined.
LEMMA LoopExists ==
  ASSUME NEW h, NEW start, NEW skip \in Nat, NEW k, NEW size \in Nat
  PROVE  \E f : IsLoop(f, h, start, skip, k, size)
<1> DEFINE G(n, s) == Extended(h, start, skip, k, n, s)
<1> DEFINE S == {m \in Nat : \E f : f = [n \in 0..m |-> G(n, f[n - 1])]}
<1>1. \A s, t : G(0, s) = G(0, t)
  BY DEF Extended
<1> HIDE DEF G
<1>2. 0 \in S
  <2> DEFINE f == [n \in 0..0 |-> G(0, <<>>)]
  <2>1. f = [n \in 0..0 |-> G(n, f[n - 1])]
    BY <1>1
  <2> QED BY <2>1
<1>3. ASSUME NEW m \in Nat, m \in S
      PROVE  m + 1 \in S
  <2>1. PICK f : f = [n \in 0..m |-> G(n, f[n - 1])]
    BY <1>3
  <2> DEFINE g == [n \in 0..(m + 1) |-> IF n = m + 1 THEN G(n, f[m]) ELSE f[n]]
  <2>2. \A n \in 0..m : f[n] = G(n, f[n - 1])
    BY <2>1
  <2>3. ASSUME NEW n \in 0..(m + 1)
        PROVE  g[n] = G(n, g[n - 1])
    <3>1. CASE n = m + 1
      BY <3>1
    <3>2. CASE n \in 1..m
      BY <3>2, <2>2
    <3>3. CASE n = 0
      BY <3>3, <2>2, <1>1
    <3> QED BY <3>1, <3>2, <3>3
  <2>4. g = [n \in 0..(m + 1) |-> G(n, g[n - 1])]
    BY <2>3
  <2> HIDE DEF g
  <2>5. \E x : x = [n \in 0..(m + 1) |-> G(n, x[n - 1])]
    BY <2>4, Zenon
  <2> QED BY <2>5
<1>4. size \in S
  BY <1>2, <1>3, UpTo, size \in 0..size
<1> QED BY <1>4 DEF G, IsLoop

\* What the loop has picked from a page at each position.
LEMMA PickedStep ==
  ASSUME NEW start, NEW skip \in Nat, NEW k, pageSize[start] \in Nat,
         NEW n \in 0..pageSize[start]
  PROVE  Picked(start, skip, k)[n] = Extended(history, start, skip, k, n, Picked(start, skip, k)[n - 1])
<1>1. Picked(start, skip, k) =
        [m \in 0..pageSize[start] |-> Extended(history, start, skip, k, m, Picked(start, skip, k)[m - 1])]
  <2> DEFINE P(f) == IsLoop(f, history, start, skip, k, pageSize[start])
  <2>1. \E f : P(f)
    BY LoopExists
  <2>2. Picked(start, skip, k) = CHOOSE f : P(f)
    BY Zenon DEF Picked, Extended, IsLoop
  <2> HIDE DEF P
  <2>3. P(CHOOSE f : P(f))
    BY <2>1, Zenon
  <2>4. P(Picked(start, skip, k))
    BY <2>2, <2>3, Zenon
  <2> QED BY <2>4 DEF P, IsLoop
<1> QED BY <1>1

\* A single event is a piece, of a match, a gap or nothing that counts.
LEMMA WalkedOne ==
  ASSUME NEW h, NEW p \in Nat, p > 0
  PROVE  Walked(h, IF h[p] = "match" THEN <<p>> ELSE <<>>,
                   IF h[p] = "sealed" THEN <<p>> ELSE <<>>, p - 1, p)
<1> DEFINE s == IF h[p] = "match" THEN <<p>> ELSE <<>>
           g == IF h[p] = "sealed" THEN <<p>> ELSE <<>>
<1>1. /\ <<p>> \in Seq(Nat) /\ Decreasing(<<p>>) /\ Within(<<p>>, p - 1, p) /\ p \in ToSet(<<p>>)
      /\ <<>> \in Seq(Nat) /\ Decreasing(<<>>) /\ Within(<<>>, p - 1, p)
  BY DEF Decreasing, Within, ToSet
<1>2. Covers(h, s, g, p - 1, p)
  <2> SUFFICES ASSUME NEW x \in ((p - 1) + 1)..p, h[x] \in {"match", "sealed"}
               PROVE  x \in ToSet(s) \cup ToSet(g)
    BY DEF Covers
  <2>1. x = p
    OBVIOUS
  <2> QED BY <2>1, <1>1
<1> QED BY <1>1, <1>2 DEF Walked

\* What the loop has picked from a page up to position n is the piece of the
\* history from position skip of the page to n.
LEMMA PageWalked ==
  ASSUME ServerOK, NEW start \in Tokens, NEW skip \in Nat,
         NEW n \in skip..pageSize[start]
  PROVE  Walked(history, Picked(start, skip, "match")[n], Picked(start, skip, "sealed")[n],
                start - n, start - skip)
<1> DEFINE M(m) == Picked(start, skip, "match")[m]
           G(m) == Picked(start, skip, "sealed")[m]
           low(m) == IF m <= skip THEN start - skip ELSE start - m
           S == {m \in Nat : Walked(history, M(m), G(m), low(m), start - skip)}
<1>1. /\ start \in Nat /\ pageSize[start] \in Nat /\ pageSize[start] <= start /\ skip <= pageSize[start]
      /\ n \in Nat /\ start - skip \in Nat
  BY SearchAssumption DEF ServerOK, Tokens
<1>0. ASSUME NEW k, NEW m \in 0..pageSize[start]
      PROVE  Picked(start, skip, k)[m] = Extended(history, start, skip, k, m, Picked(start, skip, k)[m - 1])
  BY <1>1, PickedStep
<1>2. ASSUME NEW m \in 0..pageSize[start], m <= skip
      PROVE  m \in S
  <2>0. /\ M(m) = Extended(history, start, skip, "match", m, M(m - 1))
        /\ G(m) = Extended(history, start, skip, "sealed", m, G(m - 1))
    BY <1>0
  <2>1. M(m) = <<>> /\ G(m) = <<>>
    <3> HIDE DEF M, G
    <3> QED BY <1>2, <2>0 DEF Extended
  <2> QED BY <1>1, <1>2, <2>1, WalkedNowhere
<1>3. 0 \in S
  BY <1>1, <1>2
<1>4. ASSUME NEW m \in 0..pageSize[start], m \in S, m # pageSize[start]
      PROVE  m + 1 \in S
  <2>1. CASE m + 1 <= skip
    BY <1>1, <1>2, <2>1
  <2>2. CASE m >= skip
    <3> DEFINE p == start - m
               s == IF history[p] = "match" THEN <<p>> ELSE <<>>
               g == IF history[p] = "sealed" THEN <<p>> ELSE <<>>
    <3>0. m + 1 \in 0..pageSize[start]
      BY <1>1, <1>4
    <3>1. p \in Nat /\ p > 0 /\ low(m) = p /\ low(m + 1) = p - 1
      BY <1>1, <1>4, <2>2
    <3>2. Walked(history, s, g, p - 1, p)
      BY <3>1, WalkedOne
    <3>3. Walked(history, M(m), G(m), p, start - skip)
      BY <1>4, <3>1
    <3>4. Walked(history, M(m) \o s, G(m) \o g, p - 1, start - skip)
      <4> HIDE DEF M, G, s, g, p
      <4> QED BY <3>2, <3>3, WalkedJoin
    <3>5. M(m) \in Seq(Nat) /\ G(m) \in Seq(Nat)
      <4> HIDE DEF M, G, p
      <4> QED BY <3>3 DEF Walked
    <3>6. M(m + 1) = (IF history[p] = "match" THEN Append(M(m), p) ELSE M(m))
      <4>1. M(m + 1) = Extended(history, start, skip, "match", m + 1, M((m + 1) - 1))
        BY <1>0, <3>0
      <4>2. (m + 1) - 1 = m /\ ~(m + 1 <= skip)
        BY <1>1, <2>2
      <4> HIDE DEF M
      <4> QED BY <4>1, <4>2 DEF Extended
    <3>7. G(m + 1) = (IF history[p] = "sealed" THEN Append(G(m), p) ELSE G(m))
      <4>1. G(m + 1) = Extended(history, start, skip, "sealed", m + 1, G((m + 1) - 1))
        BY <1>0, <3>0
      <4>2. (m + 1) - 1 = m /\ ~(m + 1 <= skip)
        BY <1>1, <2>2
      <4> HIDE DEF G
      <4> QED BY <4>1, <4>2 DEF Extended
    <3>8. M(m + 1) = M(m) \o s /\ G(m + 1) = G(m) \o g
      <4>1. \A t \in Seq(Nat) : t \o <<p>> = Append(t, p) /\ t \o <<>> = t
        BY <3>1, JoinedOne
      <4> HIDE DEF M, G, p
      <4> QED BY <4>1, <3>5, <3>6, <3>7
    <3>9. Walked(history, M(m + 1), G(m + 1), low(m + 1), start - skip)
      <4> HIDE DEF M, G, s, g, low, p
      <4> QED BY <3>1, <3>4, <3>8
    <3> HIDE DEF M, G, low
    <3> QED BY <3>0, <3>9
  <2> QED BY <1>1, <2>1, <2>2
<1>5. n \in S
  <2> HIDE DEF S
  <2> QED BY <1>1, <1>3, <1>4, UpTo, n \in 0..pageSize[start]
<1>6. low(n) = start - n
  BY <1>1
<1> HIDE DEF low
<1> QED BY <1>5, <1>6
-----------------------------------------------------------------------------
(* Steps of a search *)

\* New events and late keys leave pieces of the history what they are.
LEMMA WalkedLasts ==
  ASSUME NEW h, NEW k, NEW s, NEW g, NEW low, NEW high, Walked(h, s, g, low, high),
         \A p \in (low + 1)..high : k[p] = h[p] \/ h[p] = "sealed"
  PROVE  Walked(k, s, g, low, high)
<1>1. Covers(k, s, g, low, high)
  BY DEF Walked, Covers
<1> QED BY <1>1 DEF Walked

\* Where a call stands when a page is answered.
LEMMA PageStands ==
  ASSUME faithful, SearchOK, call # None, NEW start, start = StartOf(call.cursor.from),
         NEW newest, newest = (IF call.cursor.from = None THEN start ELSE top),
         NEW high, high = (IF cursor.from = None THEN newest ELSE cursor.from - cursor.skip)
  PROVE  /\ start \in Tokens /\ call.cursor.skip \in Nat /\ call.cursor.skip <= pageSize[start]
         /\ newest \in 0..Len(history)
         /\ Walked(history, found, gaps, high, newest)
         /\ Walked(history, call.messages, call.sealed, start - call.cursor.skip, high)
<1>0. ServerOK /\ HistoryOK /\ WalkOK /\ CallOK
  BY DEF SearchOK
<1>1. /\ ~exhausted /\ call.cursor \in Cursors
      /\ call.cursor.from = None => cursor.from = None
      /\ Walked(history, call.messages, call.sealed, Reached(call.cursor), Reached(cursor))
      /\ Walked(history, found, gaps, Reached(cursor), top)
      /\ Len(history) \in Tokens
  BY <1>0, SearchAssumption DEF CallOK, WalkOK, HistoryOK, Tokens
<1>2. CASE call.cursor.from = None
  <2>1. call.cursor = Start /\ start = Len(history) /\ newest = start /\ high = start /\ start \in Nat
    BY <1>1, <1>2, SearchAssumption DEF Cursors, Start, StartOf, Tokens
  <2>2. Reached(cursor) = top /\ Reached(call.cursor) = top /\ top \in Nat
    BY <1>0, <1>1, <1>2 DEF Reached, HistoryOK
  <2>3. call.messages = <<>> /\ call.sealed = <<>> /\ found = <<>> /\ gaps = <<>>
    BY <1>1, <2>2, WalkedNowhere
  <2>4. Walked(history, <<>>, <<>>, start, start)
    BY <2>1, WalkedNowhere
  <2>5. call.cursor.skip = 0 /\ start - 0 = start /\ pageSize[start] \in Nat
    BY <1>0, <1>1, <2>1 DEF Start, ServerOK
  <2> QED BY <1>1, <2>1, <2>3, <2>4, <2>5
<1>3. CASE call.cursor.from # None
  <2>1. start = call.cursor.from /\ newest = top /\ high = Reached(cursor)
        /\ Reached(call.cursor) = start - call.cursor.skip
    BY <1>3 DEF StartOf, Reached
  <2>2. call.cursor \in [from : Tokens, skip : Nat] /\ call.cursor.skip <= pageSize[start]
    BY <1>1, <1>3, <2>1 DEF Cursors, Start
  <2> QED BY <1>0, <1>1, <2>1, <2>2 DEF HistoryOK
<1> QED BY <1>2, <1>3

\* A call that was answered a page has one piece more.
LEMMA PageKeeps ==
  ASSUME faithful, SearchOK, Page
  PROVE  SearchOK'
<1> DEFINE start == StartOf(call.cursor.from)
           skip == call.cursor.skip
           length == pageSize[start]
           seen(n, k) == Picked(start, skip, k)[n]
           enough == {j \in skip..(length - 1) : Len(call.messages) + Len(seen(j + 1, "match")) = call.limit}
           newest == IF call.cursor.from = None THEN start ELSE top
           high == IF cursor.from = None THEN newest ELSE cursor.from - cursor.skip
<1>0. ServerOK /\ HistoryOK /\ WalkOK /\ CallOK /\ call # None
  BY DEF SearchOK, Page
<1>1. /\ start \in Tokens /\ skip \in Nat /\ skip <= length
      /\ newest \in 0..Len(history)
      /\ Walked(history, found, gaps, high, newest)
      /\ Walked(history, call.messages, call.sealed, start - skip, high)
  BY <1>0, PageStands
<1>2. start \in Nat /\ length \in Nat /\ length <= start
  BY <1>0, <1>1, SearchAssumption DEF ServerOK, Tokens
<1>3. ASSUME NEW n \in skip..length
      PROVE  Walked(history, call.messages \o seen(n, "match"), call.sealed \o seen(n, "sealed"), start - n, high)
  <2>1. Walked(history, seen(n, "match"), seen(n, "sealed"), start - n, start - skip)
    BY <1>0, <1>1, PageWalked
  <2> HIDE DEF seen, start, skip, high
  <2> QED BY <1>1, <2>1, WalkedJoin
<1>4. PICK end \in Ends(start) :
        /\ top' = newest
        /\ \/ /\ enough # {}
              /\ Return(call.messages \o seen(Min(enough) + 1, "match"), call.sealed \o seen(Min(enough) + 1, "sealed"),
                        ResumeAfter(start, Min(enough), end), start - (Min(enough) + 1))
           \/ /\ enough = {} /\ (end = None \/ length = 0)
              /\ Return(call.messages \o seen(length, "match"), call.sealed \o seen(length, "sealed"), Start, start - length)
           \/ /\ call' = None /\ UNCHANGED clientVars
           \/ /\ end # None
              /\ call' = [call EXCEPT
                   !.cursor = [from |-> end, skip |-> 0],
                   !.messages = @ \o seen(length, "match"),
                   !.sealed = @ \o seen(length, "sealed"),
                   !.tokens = @ \cup {end}]
              /\ UNCHANGED clientVars
        /\ UNCHANGED <<serverVars, history>>
  BY DEF Page
<1>5. end \in {None, start - length} /\ start - length \in Tokens /\ (end = None => start = length)
  <2>1. start - length \in Tokens /\ start - length # None
    BY <1>1, <1>2, SearchAssumption DEF Tokens
  <2> HIDE DEF start
  <2> QED BY <1>2, <1>4, <2>1 DEF Ends
<1>6. cursor \in Cursors /\ ~exhausted
      /\ call \in [limit : Limits, cursor : Cursors, messages : Seq(Nat), sealed : Seq(Nat), tokens : SUBSET Tokens]
  BY <1>0 DEF WalkOK, CallOK
<1>7. ServerOK' /\ HistoryOK' /\ faithful' /\ Cursors' = Cursors
  <2> HIDE DEF start, newest, skip, enough, seen, length
  <2> QED BY <1>0, <1>1, <1>4 DEF ServerOK, HistoryOK, Cursors, serverVars
<1>8. ASSUME NEW n \in skip..length, NEW next \in Cursors,
             Return(call.messages \o seen(n, "match"), call.sealed \o seen(n, "sealed"), next, start - n),
             next.from # None => start - n = next.from - next.skip,
             next.from = None /\ start - n > 0 => pageSize[start - n] = 0
      PROVE  SearchOK'
  <2>1. /\ found' = found \o (call.messages \o seen(n, "match"))
        /\ gaps' = gaps \o (call.sealed \o seen(n, "sealed"))
        /\ exhausted' = (next.from = None) /\ cursor' = next /\ call' = None
        /\ exhausted' => rest' = start - n
    BY <1>8 DEF Return
  <2>2. Walked(history, call.messages \o seen(n, "match"), call.sealed \o seen(n, "sealed"), start - n, high)
    BY <1>3
  <2>3. Walked(history, found', gaps', start - n, newest)
    <3> HIDE DEF seen, start, high, newest
    <3> QED BY <1>1, <2>1, <2>2, WalkedJoin
  <2>4. (IF exhausted THEN rest ELSE Reached(cursor))' = start - n
    BY <1>8, <2>1 DEF Reached
  <2>5. top' = newest /\ history' = history
    BY <1>4
  <2>8. exhausted' /\ rest' > 0 => pageSize'[rest'] = 0
    <3>1. pageSize' = pageSize
      BY <1>4 DEF serverVars
    <3> HIDE DEF seen, start, newest, skip, length
    <3> QED BY <1>8, <2>1, <3>1
  <2>6. WalkOK'
    <3> HIDE DEF seen, start, newest, skip, length
    <3> QED BY <1>7, <1>8, <2>1, <2>3, <2>4, <2>5, <2>8 DEF WalkOK
  <2>7. CallOK'
    BY <2>1 DEF CallOK
  <2> QED BY <1>7, <2>6, <2>7 DEF SearchOK
<1>9. CASE /\ enough # {}
           /\ Return(call.messages \o seen(Min(enough) + 1, "match"), call.sealed \o seen(Min(enough) + 1, "sealed"),
                     ResumeAfter(start, Min(enough), end), start - (Min(enough) + 1))
  <2>1. Min(enough) \in skip..(length - 1)
    <3>1. \E j \in enough : \A i \in enough : j <= i
      <4>1. enough \subseteq Nat
        <5>1. \A j \in skip..(length - 1) : j \in Nat
          <6> HIDE DEF skip, length
          <6> QED BY <1>1, <1>2
        <5>2. enough \subseteq skip..(length - 1)
          <6> HIDE DEF seen, skip, length
          <6> QED BY Zenon
        <5> HIDE DEF enough
        <5> QED BY <5>1, <5>2
      <4> HIDE DEF enough
      <4> QED BY <1>9, <4>1, Smallest
    <3>2. Min(enough) \in enough
      <4> HIDE DEF enough
      <4> QED BY <3>1 DEF Min
    <3> QED BY <3>2
  <2> DEFINE index == Min(enough)
             next == ResumeAfter(start, index, end)
  <2>2. index \in Nat /\ index + 1 \in skip..length
    <3> HIDE DEF enough, skip, length
    <3> QED BY <1>1, <1>2, <2>1
  <2>3. CASE index + 1 < length
    <3>1. next = [from |-> start, skip |-> index + 1]
      BY <2>3 DEF ResumeAfter
    <3> HIDE DEF index, next, seen, enough, start, length, skip
    <3>2. next \in Cursors
          /\ (next.from # None => start - (index + 1) = next.from - next.skip)
          /\ (next.from = None => start - (index + 1) = 0)
      <4>1. start # None
        BY <1>1, SearchAssumption DEF Tokens
      <4>2. index + 1 \in Nat /\ index + 1 <= pageSize[start]
        BY <2>2, <2>3 DEF length
      <4> QED BY <1>1, <3>1, <4>1, <4>2 DEF Cursors
    <3> QED BY <1>8, <1>9, <2>2, <3>1, <3>2 DEF index, next
  <2>4. CASE ~(index + 1 < length)
    <3>1. next = [from |-> end, skip |-> 0] /\ index + 1 = length
      <4>1. next = [from |-> end, skip |-> 0]
        BY <2>4 DEF ResumeAfter
      <4> HIDE DEF index, skip, length
      <4> QED BY <1>2, <2>2, <2>4, <4>1
    <3> HIDE DEF index, next, seen, enough, start, length, skip
    <3>2. next \in Cursors
          /\ (next.from # None => start - (index + 1) = next.from - next.skip)
          /\ (next.from = None => start - (index + 1) = 0)
      <4>1. CASE end = None
        BY <1>2, <1>5, <3>1, <4>1 DEF Cursors, Start
      <4>2. CASE end # None
        <5>1. end \in Tokens /\ end = start - length /\ end \in Nat
          BY <1>5, <4>2, SearchAssumption DEF Tokens
        <5>2. pageSize[end] \in Nat
          BY <1>0, <5>1 DEF ServerOK
        <5> QED BY <3>1, <4>2, <5>1, <5>2 DEF Cursors
      <4> QED BY <4>1, <4>2
    <3> QED BY <1>8, <1>9, <2>2, <3>1, <3>2 DEF index, next
  <2> QED BY <2>3, <2>4
<1>10. CASE /\ end = None \/ length = 0
            /\ Return(call.messages \o seen(length, "match"), call.sealed \o seen(length, "sealed"), Start, start - length)
  <2> HIDE DEF seen, start, length, skip
  <2>1. start - length > 0 => pageSize[start - length] = 0
    <3>1. end = None => start - length = 0
      BY <1>2, <1>5
    <3>2. length = 0 => start - length = start /\ pageSize[start] = 0
      BY <1>2 DEF length
    <3> QED BY <1>10, <3>1, <3>2
  <2>2. Start \in Cursors /\ Start.from = None
    BY DEF Start, Cursors
  <2>3. length \in skip..length
    BY <1>1, <1>2
  <2> QED BY <1>8, <1>10, <2>1, <2>2, <2>3
<1>11. ASSUME UNCHANGED clientVars
       PROVE  WalkOK' /\ Reached(cursor)' = high
  <2>1. cursor' = cursor /\ exhausted' = exhausted /\ rest' = rest /\ found' = found /\ gaps' = gaps
    BY <1>11 DEF clientVars
  <2>2. top' = newest /\ history' = history
    BY <1>4
  <2>3. Reached(cursor)' = high
    BY <2>1, <2>2 DEF Reached
  <2> HIDE DEF newest, high
  <2> QED BY <1>1, <1>6, <1>7, <2>1, <2>2, <2>3 DEF WalkOK
<1>12. CASE call' = None /\ UNCHANGED clientVars
  BY <1>7, <1>11, <1>12 DEF SearchOK, CallOK
<1>13. CASE /\ end # None
            /\ call' = [call EXCEPT
                 !.cursor = [from |-> end, skip |-> 0],
                 !.messages = @ \o seen(length, "match"),
                 !.sealed = @ \o seen(length, "sealed"),
                 !.tokens = @ \cup {end}]
            /\ UNCHANGED clientVars
  <2> HIDE DEF seen, start, length, skip, newest, high
  <2>1. end \in Tokens /\ end = start - length /\ end \in Nat
    BY <1>5, <1>13, SearchAssumption DEF Tokens
  <2>2. [from |-> end, skip |-> 0] \in Cursors
    <3>1. pageSize[end] \in Nat
      BY <1>0, <2>1 DEF ServerOK
    <3> QED BY <2>1, <3>1 DEF Cursors
  <2>3. Walked(history, call.messages \o seen(length, "match"), call.sealed \o seen(length, "sealed"), end, high)
    BY <1>1, <1>2, <1>3, <2>1
  <2>4. /\ call'.messages = call.messages \o seen(length, "match")
        /\ call'.sealed = call.sealed \o seen(length, "sealed")
        /\ call'.cursor = [from |-> end, skip |-> 0]
        /\ call' \in [limit : Limits, cursor : Cursors, messages : Seq(Nat), sealed : Seq(Nat), tokens : SUBSET Tokens]
    <3>1. call.messages \o seen(length, "match") \in Seq(Nat) /\ call.sealed \o seen(length, "sealed") \in Seq(Nat)
      BY <2>3 DEF Walked
    <3> QED BY <1>6, <1>13, <2>1, <2>2, <3>1
  <2>5. Reached(call.cursor)' = end /\ call'.cursor.from # None
    BY <1>13, <2>1, <2>4 DEF Reached
  <2>6. CallOK'
    BY <1>4, <1>6, <1>7, <1>11, <1>13, <2>3, <2>4, <2>5 DEF CallOK, clientVars
  <2> QED BY <1>7, <1>11, <1>13, <2>6 DEF SearchOK
<1> QED BY <1>4, <1>9, <1>10, <1>12, <1>13

\* Every step of a search keeps what its pieces are.
LEMMA SearchStep ==
  ASSUME SearchOK, [Next]_vars
  PROVE  SearchOK'
<1> SUFFICES ASSUME faithful'
             PROVE  SearchOK'
  BY DEF SearchOK
<1>0. faithful /\ pageSize' = pageSize /\ Cursors' = Cursors
  BY DEF Next, Arrive, Unseal, Begin, Page, Fail, vars, serverVars, Cursors
<1>1. ServerOK /\ HistoryOK /\ WalkOK /\ CallOK /\ ServerOK'
  BY <1>0 DEF SearchOK, ServerOK
<1>2. ASSUME NEW k \in Seq(Kinds), history' = k, Len(k) \in Len(history)..MaxHistory,
             \A p \in DOMAIN history : k[p] = history[p] \/ history[p] = "sealed",
             UNCHANGED <<serverVars, clientVars, top, call>>
      PROVE  SearchOK'
  <2>1. ASSUME NEW s, NEW g, NEW low, NEW high, Walked(history, s, g, low, high), high <= top
        PROVE  Walked(history', s, g, low, high)
    <3>1. \A p \in (low + 1)..high : p \in DOMAIN history
      BY <1>1, <2>1 DEF HistoryOK, Walked
    <3> QED BY <1>2, <2>1, <3>1, WalkedLasts
  <2>2. HistoryOK'
    BY <1>1, <1>2 DEF HistoryOK
  <2>3. Reached(cursor)' = Reached(cursor) /\ cursor' = cursor /\ exhausted' = exhausted
        /\ rest' = rest /\ found' = found /\ gaps' = gaps /\ top' = top /\ call' = call
    BY <1>2 DEF Reached, clientVars
  <2>4. WalkOK'
    <3>1. top <= top
      BY <1>1 DEF HistoryOK
    <3> QED BY <1>0, <1>1, <2>1, <2>3, <3>1 DEF WalkOK
  <2>5. CallOK'
    <3> SUFFICES ASSUME call # None
                 PROVE  CallOK'
      BY <2>3 DEF CallOK
    <3>1. Reached(cursor) <= top
      BY <1>1 DEF CallOK, WalkOK, Walked
    <3>2. Reached(call.cursor)' = Reached(call.cursor)
      BY <2>3 DEF Reached
    <3>3. Walked(history', call.messages, call.sealed, Reached(call.cursor), Reached(cursor))
      BY <1>1, <2>1, <3>1 DEF CallOK
    <3> QED BY <1>0, <1>1, <2>3, <3>2, <3>3 DEF CallOK
  <2> QED BY <1>1, <2>2, <2>4, <2>5 DEF SearchOK
<1>3. ASSUME NEW k \in Kinds, Arrive(k)
      PROVE  SearchOK'
  <2>1. /\ Append(history, k) \in Seq(Kinds)
        /\ Len(Append(history, k)) \in Len(history)..MaxHistory
        /\ \A p \in DOMAIN history : Append(history, k)[p] = history[p]
    BY <1>1, <1>3, SearchAssumption DEF Arrive, HistoryOK
  <2> QED BY <1>2, <1>3, <2>1 DEF Arrive
<1>4. ASSUME NEW p \in DOMAIN history, NEW k \in Kinds, Unseal(p, k)
      PROVE  SearchOK'
  <2>1. /\ [history EXCEPT ![p] = k] \in Seq(Kinds)
        /\ Len([history EXCEPT ![p] = k]) \in Len(history)..MaxHistory
        /\ \A i \in DOMAIN history : [history EXCEPT ![p] = k][i] = history[i] \/ history[i] = "sealed"
    BY <1>1, <1>4, SearchAssumption DEF Unseal, HistoryOK
  <2> QED BY <1>2, <1>4, <2>1 DEF Unseal
<1>5. ASSUME UNCHANGED <<history, top, clientVars>>
      PROVE  HistoryOK' /\ WalkOK' /\ Reached(cursor)' = Reached(cursor)
  BY <1>0, <1>1, <1>5 DEF HistoryOK, WalkOK, Reached, clientVars
<1>6. ASSUME NEW limit \in Limits, Begin(limit)
      PROVE  SearchOK'
  <2>1. call' = [limit |-> limit, cursor |-> cursor, messages |-> <<>>, sealed |-> <<>>, tokens |-> {}]
    BY <1>6 DEF Begin
  <2>2. cursor \in Cursors /\ ~exhausted /\ Reached(cursor) \in Nat /\ cursor' = cursor /\ top' = top
    BY <1>1, <1>6 DEF WalkOK, Walked, Begin, clientVars
  <2>3. Walked(history', <<>>, <<>>, Reached(cursor), Reached(cursor))
    BY <2>2, WalkedNowhere
  <2>4. Reached(call.cursor)' = Reached(cursor) /\ Reached(cursor)' = Reached(cursor)
    BY <2>1, <2>2 DEF Reached
  <2>5. call' \in [limit : Limits, cursor : Cursors, messages : Seq(Nat), sealed : Seq(Nat), tokens : SUBSET Tokens]
    BY <2>1, <2>2
  <2>6. CallOK'
    BY <1>0, <1>6, <2>1, <2>2, <2>3, <2>4, <2>5 DEF CallOK, Begin, clientVars
  <2> QED BY <1>1, <1>5, <1>6, <2>6 DEF SearchOK, Begin
<1>7. CASE Page
  BY <1>0, <1>7, PageKeeps
<1>8. CASE Fail
  BY <1>1, <1>5, <1>8 DEF SearchOK, CallOK, Fail
<1>9. CASE UNCHANGED vars
  <2>1. CallOK'
    BY <1>0, <1>1, <1>5, <1>9 DEF CallOK, Reached, vars, clientVars
  <2> QED BY <1>1, <1>5, <1>9, <2>1 DEF SearchOK, vars
<1> QED BY <1>3, <1>4, <1>6, <1>7, <1>8, <1>9 DEF Next

\* A search begins with nothing.
LEMMA SearchInit ==
  ASSUME Init
  PROVE  SearchOK
<1>1. ServerOK
  BY SearchAssumption DEF Init, ServerOK, Tokens
<1>2. history \in Seq(Kinds) /\ Len(history) <= MaxHistory
  <2>1. PICK m \in 0..MaxHistory : history \in [1..m -> Kinds]
    BY Zenon DEF Init, BoundedSeq, SeqOf
  <2> QED BY <2>1, SearchAssumption
<1>3. HistoryOK
  BY <1>2 DEF HistoryOK, Init
<1>4. Reached(cursor) = 0 /\ ~exhausted /\ top = 0 /\ cursor \in Cursors /\ found = <<>> /\ gaps = <<>> /\ call = None
  BY DEF Init, Reached, Start, Cursors
<1>5. Walked(history, <<>>, <<>>, 0, 0)
  BY WalkedNowhere
<1>6. WalkOK /\ CallOK
  BY <1>4, <1>5 DEF WalkOK, CallOK
<1> QED BY <1>1, <1>3, <1>6 DEF SearchOK

\* At every moment of a search, what the client and its call have are pieces of
\* the history that join where the cursors are.
THEOREM SearchCorrect == Spec => []SearchOK
<1>1. Init => SearchOK
  BY SearchInit
<1>2. SearchOK /\ [Next]_vars => SearchOK'
  BY SearchStep
<1> QED BY <1>1, <1>2, PTL DEF Spec

\* matrix_search: a walk through the history of a faithful server returns no
\* event twice and none out of order, and at its end it has returned every match
\* it came past or counted it as a gap, whatever the limits, the pages, new
\* messages, late keys and failed calls; only a page with nothing in it keeps it
\* from coming past the whole history.
THEOREM SearchEachOnce == Spec => []EachOnce
<1>1. SearchOK => EachOnce
  <2> SUFFICES ASSUME faithful, SearchOK
               PROVE  EachOnce
    BY DEF EachOnce
  <2>1. Walked(history, found, gaps, IF exhausted THEN rest ELSE Reached(cursor), top)
    BY DEF SearchOK, WalkOK
  <2>2. Decreasing(found) /\ Decreasing(gaps)
    BY <2>1 DEF Walked
  <2>3. exhausted => Covers(history, found, gaps, rest, top)
    BY <2>1 DEF Walked
  <2>4. exhausted /\ rest > 0 => pageSize[rest] = 0
    BY DEF SearchOK, WalkOK
  <2> QED BY <2>2, <2>3, <2>4 DEF EachOnce, Covers
<1> QED BY <1>1, SearchCorrect, PTL
=============================================================================
