--------------------------- MODULE AcpTurnProofs ---------------------------
(***************************************************************************)
(* Theorems about AcpTurn, proved for any number of follow-ups and stops   *)
(* and every set of steering strategies.                                   *)
(*                                                                         *)
(* That AcpTurn implements AgentContract is not inductive: at the end of a *)
(* turn the follow-ups that were reported are those that were given only   *)
(* because of where each of them was on its way before.  FollowUpOK says   *)
(* where a follow-up may be; TurnState says how far the turn, the drain    *)
(* and the agent are.                                                      *)
(***************************************************************************)
EXTENDS AcpTurn, SequenceTheorems, TLAPS

\* The members of F occur in s at most once.
Once(F, s) == \A i, j \in DOMAIN s : s[i] \in F /\ s[i] = s[j] => i = j

Channel == FollowUps \cup {"cancel"}
Box     == FollowUps \cup {"info"}
Waiting == ToSet(commands) \cap FollowUps
Kept    == ToSet(steering)
Boxed   == ToSet(mailbox) \cap FollowUps
Given   == ToSet(given)

\* Where follow-up e is: it waits in the control channel, is kept for the next
\* prompt, is on its way to the agent, or was given; and it is reported once it
\* was given, will be read before the turn ends, or is the next to be prompted.
FollowUpOK(e) ==
  /\ e \notin posted => e \notin Waiting \cup Kept \cup concurrent \cup Boxed \cup Given \cup reported /\ call[e] = "none"
  /\ e \in Waiting => e \notin Kept \cup concurrent \cup Boxed \cup Given \cup reported /\ call[e] = "none"
  /\ e \in Kept => e \notin concurrent \cup Boxed \cup Given /\ call[e] = "none" /\ (pc = "turn" => e \notin reported)
  /\ e \in concurrent => e \in Given /\ e \notin reported /\ call[e] = "none" /\ outcome = None
  /\ call[e] # "none" => e \notin reported /\ drain = "none"
  /\ call[e] \in {"unsent", "sent", "required"} => e \notin Given \cup Boxed
  /\ call[e] = "injected" => e \in Given
  /\ call[e] = "queued" => e \in Given \cup Boxed
  /\ e \in Boxed => e \notin Given /\ (call[e] = "queued" \/ (e \in reported /\ needsDrain))
  /\ e \in Given => e \in reported \cup concurrent \/ call[e] \in {"injected", "queued"}
  /\ e \in reported => e \in Given \cup Boxed \/ (pc = "append" /\ e \in Kept)

\* The newest prompt was answered.
Answered == outcome # None \/ \E k \in DOMAIN replies : replies[k].generation = generation

\* The agent has an interjection to look at, or has made work of it.
Interjected == needsDrain \/ \E e \in FollowUps : call[e] = "queued"

\* No follow-up is twice on the same stretch of its way.
Distinct ==
  Once(FollowUps, commands) /\ Once(FollowUps, steering) /\ Once(Box, mailbox) /\ Once(FollowUps, given)

\* What is settled outside a prompt.
Phases ==
  /\ stopping \/ "cancel" \in ToSet(commands) => stops > 0
  /\ pc # "turn" => ~stopping
  /\ pc = "handshake" => Given = {} /\ reported = {} /\ mailbox = <<>> /\ concurrent = {} /\ drain = "none" /\ Calls = {}
  /\ pc = "append" => outcome = "completed" /\ Calls = {} /\ ~needsDrain

\* A drain follows the answer; its request is the last thing in the mailbox.
Draining ==
  /\ drain # "none" => outcome # None /\ needsDrain
  /\ "info" \in ToSet(mailbox) <=> drain = "info"
  /\ \A i \in DOMAIN mailbox : mailbox[i] = "info" => i = Len(mailbox)
  /\ drain \in {"list", "busy", "idle"} => mailbox = <<>>
  /\ drain = "idle" => ~working

\* An agent that answered the newest prompt has nothing left but interjections.
NothingElse == Answered => generation \notin open /\ (working => Interjected)

\* How far the turn, its drain and the agent are.
TurnState == Distinct /\ Phases /\ Draining /\ NothingElse

\* The inductive invariant.
TurnOK ==
  /\ TypeOK
  /\ NoWorkLeftBehind
  /\ pc # "ended" => status = "running" /\ TurnState /\ \A e \in FollowUps : FollowUpOK(e)

-----------------------------------------------------------------------------
(* Sequences *)

\* What appending an element does to the elements.
LEMMA AppendElements ==
  ASSUME NEW S, NEW s \in Seq(S), NEW x \in S
  PROVE  ToSet(Append(s, x)) = ToSet(s) \cup {x}
<1>1. /\ Len(s) \in Nat /\ DOMAIN s = 1..Len(s)
      /\ DOMAIN Append(s, x) = 1..(Len(s) + 1)
      /\ \A i \in 1..Len(s) : Append(s, x)[i] = s[i]
      /\ Append(s, x)[Len(s) + 1] = x
  OBVIOUS
<1> QED BY <1>1 DEF ToSet

\* An element that is new is in the sequence once.
LEMMA AppendItems ==
  ASSUME NEW S, NEW F, NEW s \in Seq(S), NEW x \in S, Once(F, s), x \in F => x \notin ToSet(s)
  PROVE  Once(F, Append(s, x))
<1>1. /\ Len(s) \in Nat /\ DOMAIN s = 1..Len(s)
      /\ DOMAIN Append(s, x) = 1..(Len(s) + 1)
      /\ \A i \in 1..Len(s) : Append(s, x)[i] = s[i]
      /\ Append(s, x)[Len(s) + 1] = x
  OBVIOUS
<1> QED BY <1>1 DEF Once, ToSet

\* What joining two sequences does to their elements.
LEMMA JoinItems ==
  ASSUME NEW S, NEW s \in Seq(S), NEW t \in Seq(S)
  PROVE  /\ s \o t \in Seq(S)
         /\ ToSet(s \o t) = ToSet(s) \cup ToSet(t)
         /\ Once(S, s) /\ Once(S, t) /\ ToSet(s) \cap ToSet(t) = {} => Once(S, s \o t)
<1>1. /\ s \o t \in Seq(S) /\ Len(s) \in Nat /\ Len(t) \in Nat
      /\ DOMAIN s = 1..Len(s) /\ DOMAIN t = 1..Len(t) /\ DOMAIN (s \o t) = 1..(Len(s) + Len(t))
      /\ \A i \in 1..(Len(s) + Len(t)) : (s \o t)[i] = IF i <= Len(s) THEN s[i] ELSE t[i - Len(s)]
      /\ \A i \in DOMAIN s : s[i] \in S
      /\ \A i \in DOMAIN t : t[i] \in S
  OBVIOUS
<1>2. ASSUME NEW x
      PROVE  x \in ToSet(s \o t) <=> x \in ToSet(s) \/ x \in ToSet(t)
  <2>1. ASSUME NEW i \in DOMAIN s
        PROVE  i \in DOMAIN (s \o t) /\ (s \o t)[i] = s[i]
    BY <1>1
  <2>2. ASSUME NEW i \in DOMAIN t
        PROVE  i + Len(s) \in DOMAIN (s \o t) /\ (s \o t)[i + Len(s)] = t[i]
    BY <1>1
  <2>3. ASSUME NEW i \in DOMAIN (s \o t)
        PROVE  (i \in DOMAIN s /\ (s \o t)[i] = s[i]) \/ (i - Len(s) \in DOMAIN t /\ (s \o t)[i] = t[i - Len(s)])
    BY <1>1
  <2>4. ASSUME x \in ToSet(s) \/ x \in ToSet(t)
        PROVE  x \in ToSet(s \o t)
    BY <2>1, <2>2, <2>4, Zenon DEF ToSet
  <2>5. ASSUME x \in ToSet(s \o t)
        PROVE  x \in ToSet(s) \/ x \in ToSet(t)
    <3>1. PICK i \in DOMAIN (s \o t) : (s \o t)[i] = x
      BY <2>5 DEF ToSet
    <3> QED BY <2>3, <3>1, Zenon DEF ToSet
  <2> QED BY <2>4, <2>5
<1>3. ASSUME Once(S, s), Once(S, t), ToSet(s) \cap ToSet(t) = {}
      PROVE  Once(S, s \o t)
  <2> SUFFICES ASSUME NEW i \in DOMAIN (s \o t), NEW j \in DOMAIN (s \o t), (s \o t)[i] = (s \o t)[j]
               PROVE  i = j
    BY DEF Once
  <2>1. CASE i <= Len(s) /\ j <= Len(s)
    BY <1>1, <1>3, <2>1 DEF Once
  <2>2. CASE ~(i <= Len(s)) /\ ~(j <= Len(s))
    BY <1>1, <1>3, <2>2 DEF Once
  <2>3. ASSUME NEW a \in DOMAIN (s \o t), NEW b \in DOMAIN (s \o t), a <= Len(s), ~(b <= Len(s))
        PROVE  (s \o t)[a] # (s \o t)[b]
    <3>1. a \in DOMAIN s /\ (s \o t)[a] = s[a] /\ b - Len(s) \in DOMAIN t /\ (s \o t)[b] = t[b - Len(s)]
      BY <1>1, <2>3
    <3>2. s[a] \in ToSet(s) /\ t[b - Len(s)] \in ToSet(t)
      BY <3>1, Zenon DEF ToSet
    <3> QED BY <1>3, <3>1, <3>2
  <2> QED BY <2>1, <2>2, <2>3
<1> QED BY <1>1, <1>2, <1>3

\* What taking the first element away does.
LEMMA TailItems ==
  ASSUME NEW S, NEW F, NEW s \in Seq(S), s # <<>>
  PROVE  /\ Tail(s) \in Seq(S) /\ Head(s) \in S
         /\ ToSet(s) = ToSet(Tail(s)) \cup {Head(s)}
         /\ Once(F, s) => Once(F, Tail(s)) /\ (Head(s) \in F => Head(s) \notin ToSet(Tail(s)))
<1>1. /\ Tail(s) \in Seq(S) /\ Head(s) \in S /\ Len(s) \in Nat \ {0} /\ DOMAIN s = 1..Len(s)
      /\ Head(s) = s[1] /\ DOMAIN Tail(s) = 1..(Len(s) - 1)
      /\ \A i \in 1..(Len(s) - 1) : Tail(s)[i] = s[i + 1]
  OBVIOUS
<1>2. ASSUME NEW x
      PROVE  x \in ToSet(s) <=> x \in ToSet(Tail(s)) \/ x = Head(s)
  <2>1. ASSUME NEW i \in DOMAIN s
        PROVE  s[i] = Head(s) \/ (i - 1 \in DOMAIN Tail(s) /\ Tail(s)[i - 1] = s[i])
    BY <1>1
  <2>2. ASSUME NEW i \in DOMAIN Tail(s)
        PROVE  i + 1 \in DOMAIN s /\ Tail(s)[i] = s[i + 1]
    BY <1>1
  <2> QED BY <1>1, <2>1, <2>2 DEF ToSet
<1>3. ASSUME Once(F, s)
      PROVE  Once(F, Tail(s)) /\ (Head(s) \in F => Head(s) \notin ToSet(Tail(s)))
  <2>1. \A i \in DOMAIN Tail(s) : i + 1 \in DOMAIN s /\ i + 1 # 1 /\ Tail(s)[i] = s[i + 1]
    BY <1>1
  <2>2. Once(F, Tail(s))
    BY <1>1, <1>3, <2>1 DEF Once
  <2>3. Head(s) \in F => Head(s) \notin ToSet(Tail(s))
    BY <1>1, <1>3, <2>1 DEF Once, ToSet
  <2> QED BY <2>2, <2>3
<1> QED BY <1>1, <1>2, <1>3

\* The head is an element.
LEMMA HeadItem ==
  ASSUME NEW S, NEW s \in Seq(S), s # <<>>
  PROVE  Head(s) \in ToSet(s)
<1>1. 1 \in DOMAIN s /\ Head(s) = s[1]
  OBVIOUS
<1> QED BY <1>1 DEF ToSet

\* Removing an element that is only at the end takes the end away.
LEMMA RemoveLast ==
  ASSUME NEW S, NEW s \in Seq(S), NEW x \in S, s # <<>>,
         \A i \in 1..Len(s) : s[i] = x <=> i = Len(s)
  PROVE  /\ RemoveFirst(s, x) = Front(s)
         /\ Front(s) \in Seq(S)
         /\ ToSet(Front(s)) = ToSet(s) \ {x}
         /\ Once(S, s) => Once(S, Front(s))
<1>1. Len(s) \in 1..Len(s) /\ Len(s) \in Nat
  OBVIOUS
<1>2. {i \in 1..Len(s) : s[i] = x} = {Len(s)}
  BY <1>1
<1>3. Min({Len(s)}) = Len(s)
  BY <1>1 DEF Min
<1>4. SelectInSeq(s, LAMBDA v : v = x) = Len(s)
  BY <1>2, <1>3 DEF SelectInSeq
<1>5. RemoveAt(s, Len(s)) = Front(s)
  <2>1. SubSeq(s, Len(s) + 1, Len(s)) = <<>>
    BY <1>1, SubSeqEmpty
  <2>2. SubSeq(s, 1, Len(s) - 1) \in Seq(S)
    BY <1>1
  <2> QED BY <2>1, <2>2, ConcatEmptySeq DEF RemoveAt, Front
<1>6. /\ Front(s) \in Seq(S) /\ DOMAIN Front(s) = 1..(Len(s) - 1) /\ DOMAIN s = 1..Len(s)
      /\ \A k \in 1..(Len(s) - 1) : Front(s)[k] = s[k]
  <2>1. \A k \in 1..(Len(s) - 1) : s[k] \in S
    BY <1>1
  <2> QED BY <1>1, <2>1, SubSeqProperties DEF Front
<1>7. ToSet(Front(s)) = ToSet(s) \ {x}
  <2>1. \A k \in 1..(Len(s) - 1) : k \in 1..Len(s) /\ s[k] # x
    BY <1>1
  <2>2. \A k \in 1..Len(s) : k \in 1..(Len(s) - 1) \/ s[k] = x
    BY <1>1
  <2> QED BY <1>6, <2>1, <2>2 DEF ToSet
<1>8. Once(S, s) => Once(S, Front(s))
  <2>1. \A k \in 1..(Len(s) - 1) : k \in 1..Len(s)
    BY <1>1
  <2> QED BY <1>6, <2>1 DEF Once
<1>9. RemoveFirst(s, x) = Front(s)
  BY <1>1, <1>4, <1>5 DEF RemoveFirst
<1> QED BY <1>6, <1>7, <1>8, <1>9

\* Dropping the drain takes its request out of the mailbox and nothing else.
LEMMA DropTakesInfo ==
  ASSUME TypeOK, TurnState, DropDrain
  PROVE  /\ mailbox' \in Seq(Box) /\ drain' = "none"
         /\ ToSet(mailbox') = ToSet(mailbox) \ {"info"}
         /\ Once(Box, mailbox')
<1>1. mailbox \in Seq(Box) /\ drain' = "none" /\ mailbox' = RemoveFirst(mailbox, "info")
  BY DEF TypeOK, Box, DropDrain
<1>2. Len(mailbox) \in Nat /\ DOMAIN mailbox = 1..Len(mailbox)
  BY <1>1
<1>3. CASE "info" \notin ToSet(mailbox)
  <2>1. mailbox' = mailbox
    BY <1>1, <1>2, <1>3 DEF RemoveFirst, ToSet
  <2> QED BY <1>1, <1>3, <2>1 DEF TurnState, Distinct, Phases, Draining
<1>4. CASE "info" \in ToSet(mailbox)
  <2>1. PICK i \in DOMAIN mailbox : mailbox[i] = "info"
    BY <1>4 DEF ToSet
  <2>2. mailbox # <<>> /\ \A k \in 1..Len(mailbox) : mailbox[k] = "info" <=> k = Len(mailbox)
    <3>1. \A k \in DOMAIN mailbox : mailbox[k] = "info" => k = Len(mailbox)
      BY DEF TurnState, Distinct, Phases, Draining
    <3>2. mailbox[Len(mailbox)] = "info" /\ mailbox # <<>>
      BY <1>1, <2>1, <3>1
    <3>3. \A k \in 1..Len(mailbox) : k \in DOMAIN mailbox
      BY <1>2
    <3>4. ASSUME NEW k \in 1..Len(mailbox)
          PROVE  mailbox[k] = "info" <=> k = Len(mailbox)
      BY <3>1, <3>2, <3>3, Zenon
    <3> QED BY <3>2, <3>4, Zenon
  <2>3. "info" \in Box /\ Once(Box, mailbox)
    BY DEF Box, TurnState, Distinct, Phases, Draining
  <2>4. mailbox \in Seq(Box)
    BY <1>1
  <2>5. /\ RemoveFirst(mailbox, "info") = Front(mailbox) /\ Front(mailbox) \in Seq(Box)
        /\ ToSet(Front(mailbox)) = ToSet(mailbox) \ {"info"}
        /\ Once(Box, mailbox) => Once(Box, Front(mailbox))
    BY <2>2, <2>3, <2>4, RemoveLast, Zenon
  <2> QED BY <1>1, <2>3, <2>5
<1> QED BY <1>3, <1>4

-----------------------------------------------------------------------------
(* Types *)

\* Every step keeps the types.
LEMMA TypeStep ==
  ASSUME TurnOK, [Next]_vars
  PROVE  TypeOK'
<1> USE TurnAssumption DEF TurnOK
<1>0. pc # "ended" => TurnState
  OBVIOUS
<1>1. ASSUME NEW e \in FollowUps, PostSteer(e)
      PROVE  TypeOK'
  BY <1>1 DEF TypeOK, PostSteer, turnVars, agentVars
<1>2. CASE PostCancel
  BY <1>2 DEF TypeOK, PostCancel, turnVars, agentVars
<1>3. CASE Ready
  <2>1. given' \in Seq(FollowUps)
    BY <1>3, ConcatProperties, EmptySeq DEF Ready, StartTurn, Submit, TypeOK
  <2>2. replies' = <<>> /\ generation' = 0 /\ open' = {0}
    BY <1>3 DEF Ready, StartTurn
  <2>3. replies' \in Seq([generation : 0..generation', status : Statuses]) /\ open' \subseteq 0..generation'
    BY <2>2, EmptySeq
  <2>4. prompts' \in Nat /\ steering' \in Seq(FollowUps)
    BY <1>3 DEF Ready, StartTurn, Submit, TypeOK
  <2>5. /\ UNCHANGED <<mode, posted, stops, commands, status, reported, mailbox>>
        /\ pc' = "turn" /\ stopping' = FALSE /\ needsDrain' = FALSE /\ working' = TRUE
        /\ concurrent' = {} /\ call' = [e \in FollowUps |-> "none"] /\ outcome' = None /\ drain' = "none"
    BY <1>3 DEF Ready, StartTurn, Submit, driverVars
  <2> QED BY <2>1, <2>2, <2>3, <2>4, <2>5 DEF TypeOK
<1>4. CASE AppendPrompt
  <2>1. given' \in Seq(FollowUps)
    BY <1>4, ConcatProperties DEF AppendPrompt, StartTurn, Submit, TypeOK
  <2>2. replies' = <<>> /\ generation' = 0 /\ open' = {0}
    BY <1>4 DEF AppendPrompt, StartTurn
  <2>3. replies' \in Seq([generation : 0..generation', status : Statuses]) /\ open' \subseteq 0..generation'
    BY <2>2, EmptySeq
  <2>4. prompts' \in Nat /\ steering' \in Seq(FollowUps)
    BY <1>4 DEF AppendPrompt, StartTurn, Submit, TypeOK
  <2>5. /\ UNCHANGED <<mode, posted, stops, commands, status, reported, mailbox>>
        /\ pc' = "turn" /\ stopping' = FALSE /\ needsDrain' = FALSE /\ working' = TRUE
        /\ concurrent' = {} /\ call' = [e \in FollowUps |-> "none"] /\ outcome' = None /\ drain' = "none"
    BY <1>4 DEF AppendPrompt, StartTurn, Submit, driverVars
  <2> QED BY <2>1, <2>2, <2>3, <2>4, <2>5 DEF TypeOK
<1>5. ASSUME NEW e \in FollowUps, TakeSteer(e)
      PROVE  TypeOK'
  <2>1. pc = "turn" /\ TurnState /\ commands' \in Seq(FollowUps \cup {"cancel"})
    BY <1>0, <1>5 DEF TakeSteer, Selects, TypeOK
  <2>2. UNCHANGED <<mode, posted, stops, pc, status, stopping, needsDrain, replies>>
    BY <1>5 DEF TakeSteer, driverVars
  <2>3. CASE stopping
    BY <1>5, <2>1, <2>2, <2>3 DEF TypeOK, TakeSteer
  <2>4. CASE ~stopping
    <3>1. mailbox' \in Seq(FollowUps \cup {"info"}) /\ drain' = "none"
      BY <1>5, <2>1, <2>4, DropTakesInfo DEF TakeSteer, Box, TurnOK
    <3>2. CASE SteerAfterTurn(e)
      BY <2>1, <2>2, <3>1, <3>2 DEF TypeOK, SteerAfterTurn
    <3>3. CASE SteerByPrompt(e)
      <4>1. given' \in Seq(FollowUps)
        BY <3>3, ConcatProperties DEF SteerByPrompt, Submit, TypeOK
      <4>2. generation' = generation + 1 /\ generation \in Nat /\ 0..generation \subseteq 0..generation'
        BY <3>3 DEF SteerByPrompt, TypeOK
      <4>3. replies' \in Seq([generation : 0..generation', status : Statuses])
        <5> DEFINE Old == [generation : 0..generation, status : Statuses]
                   New == [generation : 0..generation', status : Statuses]
        <5>1. replies \in Seq(Old) /\ replies' = replies
          BY <2>2 DEF TypeOK
        <5>2. Old \subseteq New
          BY <4>2
        <5>3. replies' \in Seq(New)
          <6> HIDE DEF Old, New
          <6> QED BY <5>1, <5>2, SeqMonotonic, Zenon
        <5> QED BY <5>3
      <4>4. open' \subseteq 0..generation'
        BY <3>3, <4>2 DEF SteerByPrompt, TypeOK
      <4>5. /\ outcome' = None /\ UNCHANGED <<steering, call, reported>> /\ prompts' = prompts + 1 /\ working' = TRUE
            /\ concurrent' = concurrent \cup {e}
        BY <3>3 DEF SteerByPrompt, Submit
      <4>6. prompts' \in Nat /\ generation' \in Nat /\ concurrent' \subseteq FollowUps
        BY <4>2, <4>5 DEF TypeOK
      <4> QED BY <2>1, <2>2, <3>1, <4>1, <4>3, <4>4, <4>5, <4>6 DEF TypeOK
    <3>4. CASE SteerByCall(e)
      BY <2>1, <2>2, <3>1, <3>4 DEF TypeOK, SteerByCall
    <3> QED BY <1>5, <2>4, <3>2, <3>3, <3>4 DEF TakeSteer
  <2> QED BY <2>3, <2>4
<1>6. CASE TakeCancel
  BY <1>6 DEF TypeOK, TakeCancel, driverVars, agentVars
<1>7. CASE TakeResponse
  <2> DEFINE Reply == [generation : 0..generation, status : Statuses]
  <2>1. replies \in Seq(Reply) /\ replies # <<>> /\ replies' = Tail(replies)
    BY <1>7 DEF TypeOK, TakeResponse
  <2>2. replies' \in Seq(Reply) /\ Head(replies) \in Reply
    BY <2>1, HeadTailProperties, Zenon
  <2>3. outcome' \in Statuses \cup {None} /\ reported' \subseteq FollowUps /\ concurrent' \subseteq FollowUps
    BY <1>7, <2>2 DEF TypeOK, TakeResponse
  <2>4. UNCHANGED <<mode, posted, stops, commands, pc, status, stopping, steering, call, generation,
                    needsDrain, drain, prompts, working, open, mailbox, given>>
    BY <1>7 DEF TakeResponse, driverVars
  <2>5. replies' \in Seq([generation : 0..generation', status : Statuses])
    BY <2>2, <2>4
  <2> HIDE DEF Reply
  <2> QED BY <2>3, <2>4, <2>5 DEF TypeOK
<1>8. ASSUME NEW e \in FollowUps, SendCall(e) \/ TakeAnswer(e)
      PROVE  TypeOK'
  <2>1. CASE SendCall(e)
    BY <2>1 DEF TypeOK, SendCall, driverVars, agentVars
  <2>2. CASE TakeAnswer(e)
    <3>1. call' \in [FollowUps -> {"none", "unsent", "sent", "injected", "required", "queued"}]
      BY <2>2 DEF TypeOK, TakeAnswer
    <3>2. steering' \in Seq(FollowUps) /\ reported' \subseteq FollowUps
      <4>1. steering \in Seq(FollowUps) /\ Append(steering, e) \in Seq(FollowUps) /\ reported \subseteq FollowUps
        BY DEF TypeOK
      <4> QED BY <2>2, <4>1 DEF TakeAnswer
    <3>3. UNCHANGED <<mode, posted, stops, commands, pc, status, stopping, concurrent, generation,
                      outcome, needsDrain, drain, prompts, working, open, replies, mailbox, given>>
      BY <2>2 DEF TakeAnswer, driverVars, agentVars
    <3> QED BY <3>1, <3>2, <3>3 DEF TypeOK
  <2> QED BY <1>8, <2>1, <2>2
<1>9. ASSUME NEW e \in FollowUps, TakeQueued(e)
      PROVE  TypeOK'
  <2>1. mailbox' \in Seq(FollowUps \cup {"info"}) /\ drain' = "none"
    BY <1>0, <1>9, DropTakesInfo DEF TakeQueued, Selects, Box
  <2> QED BY <1>9, <2>1 DEF TypeOK, TakeQueued, driverVars
<1>10. CASE PollSession
  BY <1>10 DEF TypeOK, PollSession, driverVars
<1>11. CASE TakeDrained
  BY <1>11 DEF TypeOK, TakeDrained, driverVars, agentVars
<1>12. CASE EndTurn
  BY <1>12 DEF TypeOK, EndTurn, Finish, Settled, driverVars, turnVars, agentVars, Statuses
<1>13. CASE AppendReport
  BY <1>13 DEF TypeOK, AppendReport, Unreported, driverVars, turnVars, agentVars
<1>14. CASE Deadline \/ Fail
  BY <1>14 DEF TypeOK, Deadline, Fail, Finish, driverVars, turnVars, agentVars, Statuses
<1>15. ASSUME NEW g \in 0..generation, NEW st \in Statuses, Answer(g, st), working' \in BOOLEAN
       PROVE  TypeOK'
  <2> DEFINE Reply == [generation : 0..generation, status : Statuses]
  <2>1. replies \in Seq(Reply) /\ [generation |-> g, status |-> st] \in Reply
    BY <1>15 DEF TypeOK
  <2>2. replies' \in Seq(Reply)
    BY <1>15, <2>1, AppendProperties, Zenon DEF Answer
  <2>3. /\ UNCHANGED <<mode, posted, stops, commands, pc, status, stopping, steering, concurrent, call, generation,
                       outcome, needsDrain, drain, reported, prompts, mailbox, given>>
        /\ open' \subseteq open
    BY <1>15 DEF Answer, driverVars, turnVars
  <2>4. replies' \in Seq([generation : 0..generation', status : Statuses])
    BY <2>2, <2>3
  <2> HIDE DEF Reply
  <2> QED BY <1>15, <2>3, <2>4 DEF TypeOK
<1>16. ASSUME NEW st \in Statuses, AgentEndsTurn(st)
       PROVE  TypeOK'
  <2>1. generation \in 0..generation
    BY DEF TypeOK
  <2> QED BY <1>15, <1>16, <2>1 DEF AgentEndsTurn
<1>17. ASSUME NEW g \in open, NEW st \in Statuses, AgentAnswersOld(g, st)
       PROVE  TypeOK'
  <2>1. g \in 0..generation /\ working \in BOOLEAN
    BY DEF TypeOK
  <2> QED BY <1>15, <1>17, <2>1 DEF AgentAnswersOld
<1>18. ASSUME NEW e \in FollowUps, AgentSteers(e) \/ AgentQueues(e)
       PROVE  TypeOK'
  <2>1. call' \in [FollowUps -> {"none", "unsent", "sent", "injected", "required", "queued"}]
    BY <1>18 DEF TypeOK, AgentSteers, AgentQueues
  <2>2. given' \in Seq(FollowUps) /\ mailbox' \in Seq(FollowUps \cup {"info"})
    <3>1. /\ given \in Seq(FollowUps) /\ Append(given, e) \in Seq(FollowUps)
          /\ mailbox \in Seq(FollowUps \cup {"info"}) /\ Append(mailbox, e) \in Seq(FollowUps \cup {"info"})
      BY DEF TypeOK
    <3> QED BY <1>18, <3>1 DEF AgentSteers, AgentQueues
  <2>3. UNCHANGED <<mode, posted, stops, commands, pc, status, stopping, steering, concurrent, generation,
                    outcome, needsDrain, drain, reported, prompts, working, open, replies>>
    BY <1>18 DEF AgentSteers, AgentQueues, driverVars
  <2> QED BY <2>1, <2>2, <2>3 DEF TypeOK
<1>19. CASE AgentReadsInterjection \/ AgentReadsInfo
  <2>1. mailbox \in Seq(FollowUps \cup {"info"}) /\ mailbox # <<>> /\ mailbox' = Tail(mailbox)
    BY <1>19 DEF TypeOK, AgentReadsInterjection, AgentReadsInfo
  <2>2. mailbox' \in Seq(FollowUps \cup {"info"})
    BY <2>1
  <2>3. given' \in Seq(FollowUps)
    <3>1. given \in Seq(FollowUps) /\ \A e \in FollowUps : Append(given, e) \in Seq(FollowUps)
      BY DEF TypeOK
    <3> QED BY <1>19, <3>1 DEF AgentReadsInterjection, AgentReadsInfo
  <2>4. /\ UNCHANGED <<mode, posted, stops, commands, pc, status, stopping, steering, concurrent, call, generation,
                       outcome, needsDrain, reported, prompts, open, replies>>
        /\ drain' \in {drain, "list"} /\ working' \in {working, TRUE}
    BY <1>19 DEF AgentReadsInterjection, AgentReadsInfo, driverVars, turnVars
  <2> QED BY <2>2, <2>3, <2>4 DEF TypeOK
<1>20. CASE AgentLists \/ AgentSettles
  BY <1>20 DEF TypeOK, AgentLists, AgentSettles, driverVars, turnVars, agentVars
<1>21. CASE UNCHANGED vars
  BY <1>21 DEF TypeOK, vars, driverVars, turnVars, agentVars
<1> QED
  BY <1>1, <1>2, <1>3, <1>4, <1>5, <1>6, <1>7, <1>8, <1>9, <1>10, <1>11, <1>12, <1>13, <1>14, <1>16, <1>17, <1>18,
     <1>19, <1>20, <1>21
     DEF Next, Driver, TakeCommand, TakeWork, LeaveTurn, Agent

-----------------------------------------------------------------------------
(* Where the follow-ups are *)

\* What stays where it is.
LEMMA PlacesStay ==
  /\ commands' = commands => Waiting' = Waiting
  /\ steering' = steering => Kept' = Kept
  /\ mailbox' = mailbox => Boxed' = Boxed
  /\ given' = given => Given' = Given
BY DEF Waiting, Kept, Boxed, Given

\* Who changes what.
LEMMA Changes ==
  ASSUME [Next]_vars
  PROVE  /\ commands' # commands => (\E e \in FollowUps : PostSteer(e) \/ TakeSteer(e)) \/ PostCancel \/ TakeCancel
         /\ steering' # steering =>
              (\E e \in FollowUps : TakeSteer(e) \/ TakeAnswer(e)) \/ TakeCancel \/ Ready \/ AppendPrompt
         /\ mailbox' # mailbox =>
              \/ \E e \in FollowUps : TakeSteer(e) \/ TakeQueued(e) \/ AgentQueues(e)
              \/ PollSession \/ AgentReadsInterjection \/ AgentReadsInfo
         /\ given' # given =>
              (\E e \in FollowUps : TakeSteer(e) \/ AgentSteers(e)) \/ AgentReadsInterjection \/ Ready \/ AppendPrompt
         /\ stopping' # stopping => TakeCancel \/ Ready \/ AppendPrompt
         /\ stops' # stops => PostCancel
         /\ posted' # posted => \E e \in FollowUps : PostSteer(e)
         /\ reported' # reported => (\E e \in FollowUps : TakeAnswer(e) \/ TakeQueued(e)) \/ TakeResponse \/ AppendReport
         /\ prompts' # prompts => (\E e \in FollowUps : TakeSteer(e)) \/ Ready \/ AppendPrompt
         /\ pc' # pc => Ready \/ EndTurn \/ AppendPrompt \/ Deadline \/ Fail
         /\ status' # status => EndTurn \/ Deadline \/ Fail
         /\ pc = "ended" => UNCHANGED vars
<1> USE DEF driverVars, turnVars, agentVars, vars
<1> QED
  BY DEF Next, Driver, TakeCommand, TakeWork, LeaveTurn, Agent, PostSteer, PostCancel, Ready, StartTurn, Submit,
         TakeSteer, SteerAfterTurn, SteerByPrompt, SteerByCall, TakeCancel, TakeResponse, SendCall, TakeAnswer, TakeQueued,
         PollSession, TakeDrained, Selects, EndTurn, AppendReport, AppendPrompt, Deadline, Fail, Finish, AgentEndsTurn,
         AgentAnswersOld, Answer, AgentSteers, AgentQueues, AgentReadsInterjection, AgentReadsInfo, AgentLists, AgentSettles, Alive

\* Every follow-up stays on its way or moves on along it.
LEMMA FollowUpStep ==
  ASSUME TurnOK, [Next]_vars, pc' # "ended", NEW f \in FollowUps
  PROVE  FollowUpOK(f)'
<1> USE TurnAssumption DEF TurnOK
<1>0. TypeOK /\ TurnState /\ FollowUpOK(f) /\ pc # "ended"
  BY DEF Next, vars, Driver, TakeCommand, TakeWork, LeaveTurn, Agent, PostSteer, PostCancel, Ready, StartTurn,
         TakeSteer, TakeCancel, TakeResponse, SendCall, TakeAnswer, TakeQueued, PollSession, TakeDrained, Selects,
         EndTurn, AppendReport, AppendPrompt, Deadline, Fail, AgentEndsTurn, AgentAnswersOld, AgentSteers, AgentQueues,
         AgentReadsInterjection, AgentReadsInfo, AgentLists, AgentSettles, Alive
<1>t. /\ commands \in Seq(Channel) /\ "cancel" \in Channel /\ FollowUps \subseteq Channel /\ steering \in Seq(FollowUps)
      /\ mailbox \in Seq(Box) /\ given \in Seq(FollowUps)
      /\ "cancel" \notin FollowUps /\ "info" \notin FollowUps /\ "info" \in Box /\ FollowUps \subseteq Box
  BY <1>0 DEF TypeOK, Box, Channel
<1>c. ASSUME commands # <<>>, commands' = Tail(commands)
      PROVE  /\ Head(commands) \in FollowUps => Head(commands) \in Waiting /\ Waiting' = Waiting \ {Head(commands)}
             /\ Head(commands) \notin FollowUps => Waiting' = Waiting
  <2>1. /\ ToSet(commands) = ToSet(Tail(commands)) \cup {Head(commands)}
        /\ Head(commands) \in FollowUps => Head(commands) \notin ToSet(Tail(commands))
    BY <1>0, <1>t, <1>c, TailItems DEF TurnState, Distinct, Phases, Draining
  <2> QED BY <1>c, <2>1 DEF Waiting
<1>p. ASSUME NEW x \in Channel, commands' = Append(commands, x)
      PROVE  ToSet(commands') = ToSet(commands) \cup {x}
  BY <1>t, <1>p, AppendElements
<1>m. ASSUME NEW x \in Box, mailbox' = Append(mailbox, x)
      PROVE  ToSet(mailbox') = ToSet(mailbox) \cup {x}
  BY <1>t, <1>m, AppendElements
<1>g. ASSUME NEW e \in FollowUps, given' = Append(given, e)
      PROVE  Given' = Given \cup {e}
  <2>1. ToSet(given') = ToSet(given) \cup {e}
    BY <1>t, <1>g, AppendElements
  <2> QED BY <2>1 DEF Given
<1>k. ASSUME NEW e \in FollowUps, steering' = Append(steering, e)
      PROVE  Kept' = Kept \cup {e}
  <2>1. ToSet(steering') = ToSet(steering) \cup {e}
    BY <1>t, <1>k, AppendElements
  <2> QED BY <2>1 DEF Kept
<1>d. ASSUME DropDrain
      PROVE  Boxed' = Boxed /\ drain' = "none"
  <2>1. ToSet(mailbox') = ToSet(mailbox) \ {"info"} /\ drain' = "none"
    BY <1>0, <1>d, DropTakesInfo, Zenon
  <2> QED BY <1>t, <2>1 DEF Boxed
<1>1. ASSUME NEW e \in FollowUps, PostSteer(e)
      PROVE  FollowUpOK(f)'
  <2>1. Waiting' = Waiting \cup {e}
    <3>1. ToSet(commands') = ToSet(commands) \cup {e}
      BY <1>1, <1>t, <1>p DEF PostSteer
    <3> QED BY <3>1 DEF Waiting
  <2>2. /\ UNCHANGED <<Kept, Boxed, Given, concurrent, reported, call, pc, outcome, drain, needsDrain>>
        /\ posted' = posted \cup {e} /\ e \notin posted
    BY <1>1, PlacesStay DEF PostSteer, turnVars, agentVars
  <2> QED BY <1>0, <2>1, <2>2 DEF FollowUpOK
<1>2. CASE PostCancel
  <2>1. Waiting' = Waiting
    <3>1. ToSet(commands') = ToSet(commands) \cup {"cancel"}
      BY <1>2, <1>t, <1>p DEF PostCancel
    <3> QED BY <1>t, <3>1 DEF Waiting
  <2>2. UNCHANGED <<Kept, Boxed, Given, concurrent, reported, call, pc, outcome, drain, needsDrain, posted>>
    BY <1>2, PlacesStay DEF PostCancel, turnVars, agentVars
  <2> QED BY <1>0, <2>1, <2>2 DEF FollowUpOK
<1>3. CASE Ready
  <2>1. /\ UNCHANGED <<Waiting, Boxed, posted, reported>>
        /\ Kept' = {} /\ concurrent' = {} /\ call'[f] = "none" /\ pc' = "turn"
    BY <1>3, PlacesStay DEF Ready, StartTurn, driverVars, Kept, ToSet
  <2>2. Given' = Given
    <3>1. given' = given
      BY <1>3, <1>t, ConcatEmptySeq DEF Ready, StartTurn, Submit
    <3> QED BY <3>1, PlacesStay
  <2>3. Given = {} /\ Boxed = {} /\ reported = {}
    BY <1>0, <1>3 DEF TurnState, Distinct, Phases, Draining, Ready, Boxed, ToSet
  <2> QED BY <1>0, <2>1, <2>2, <2>3 DEF FollowUpOK
<1>4. CASE AppendPrompt
  <2>1. /\ UNCHANGED <<Waiting, Boxed, posted, reported>>
        /\ Kept' = {} /\ concurrent' = {} /\ call'[f] = "none" /\ pc = "append" /\ pc' = "turn"
    BY <1>4, PlacesStay DEF AppendPrompt, StartTurn, driverVars, Kept, ToSet
  <2>2. Given' = Given \cup Kept
    BY <1>4, <1>t, JoinItems DEF AppendPrompt, StartTurn, Submit, Given, Kept
  <2>3. Kept \subseteq reported
    BY <1>4 DEF AppendPrompt, Unreported, Kept, ToSet
  <2>4. outcome # None /\ call[f] = "none" /\ ~needsDrain
    BY <1>0, <2>1 DEF TurnState, Distinct, Phases, Draining, Calls
  <2> QED BY <1>0, <2>1, <2>2, <2>3, <2>4 DEF FollowUpOK
<1>5. ASSUME NEW e \in FollowUps, TakeSteer(e)
      PROVE  FollowUpOK(f)'
  <2>1. /\ Waiting' = Waiting \ {e} /\ e \in Waiting /\ pc = "turn"
        /\ UNCHANGED <<posted, pc, needsDrain>>
    BY <1>5, <1>c DEF TakeSteer, Selects, driverVars
  <2>2. CASE stopping
    <3>1. UNCHANGED <<Kept, Boxed, Given, concurrent, reported, call, outcome, drain>>
      BY <1>5, <2>2, PlacesStay DEF TakeSteer
    <3> QED BY <1>0, <2>1, <3>1 DEF FollowUpOK
  <2>3. CASE ~stopping
    <3>0. FollowUpOK(e) /\ call \in [FollowUps -> {"none", "unsent", "sent", "injected", "required", "queued"}]
      BY <1>0 DEF TypeOK
    <3>1. Boxed' = Boxed /\ drain' = "none"
      BY <1>5, <1>d, <2>3 DEF TakeSteer
    <3>2. CASE SteerAfterTurn(e)
      <4>1. Kept' = Kept \cup {e}
        BY <1>k, <3>2 DEF SteerAfterTurn
      <4>2. UNCHANGED <<Given, concurrent, reported, call, outcome>>
        BY <3>2, PlacesStay DEF SteerAfterTurn
      <4> QED BY <1>0, <2>1, <3>0, <3>1, <4>1, <4>2 DEF FollowUpOK
    <3>3. CASE SteerByPrompt(e)
      <4>1. Given' = Given \cup {e}
        <5>1. ToSet(<<e>>) = {e} /\ <<e>> \in Seq(FollowUps)
          BY DEF ToSet
        <5>2. given' = given \o <<e>>
          BY <3>3 DEF SteerByPrompt, Submit
        <5>3. ToSet(given \o <<e>>) = ToSet(given) \cup ToSet(<<e>>)
          BY <1>t, <5>1, JoinItems, Zenon
        <5> QED BY <5>1, <5>2, <5>3 DEF Given
      <4>2. UNCHANGED <<Kept, reported, call>> /\ concurrent' = concurrent \cup {e} /\ outcome' = None
        BY <3>3, PlacesStay DEF SteerByPrompt
      <4> QED BY <1>0, <2>1, <3>0, <3>1, <4>1, <4>2 DEF FollowUpOK
    <3>4. CASE SteerByCall(e)
      <4>1. UNCHANGED <<Kept, Given, concurrent, reported, outcome>> /\ call' = [call EXCEPT ![e] = "unsent"]
        BY <3>4, PlacesStay DEF SteerByCall
      <4>2. (f = e /\ call'[f] = "unsent") \/ (f # e /\ call'[f] = call[f])
        BY <3>0, <4>1
      <4> QED BY <1>0, <2>1, <3>0, <3>1, <4>1, <4>2 DEF FollowUpOK
    <3> QED BY <1>5, <2>3, <3>2, <3>3, <3>4 DEF TakeSteer
  <2> QED BY <2>2, <2>3
<1>6. CASE TakeCancel
  <2>1. Waiting' = Waiting /\ Kept' = {}
    BY <1>6, <1>t, <1>c DEF TakeCancel, Kept, ToSet
  <2>2. UNCHANGED <<Boxed, Given, concurrent, reported, call, pc, outcome, drain, needsDrain, posted>> /\ pc = "turn"
    BY <1>6, PlacesStay DEF TakeCancel, driverVars, agentVars, Selects
  <2> QED BY <1>0, <2>1, <2>2 DEF FollowUpOK
<1>7. CASE TakeResponse
  <2>1. /\ UNCHANGED <<Waiting, Kept, Boxed, Given, call, pc, drain, needsDrain, posted>>
        /\ pc = "turn" /\ outcome = None
        /\ \/ reported' = reported \cup concurrent /\ concurrent' = {}
           \/ UNCHANGED <<reported, concurrent, outcome>>
    BY <1>7, PlacesStay DEF TakeResponse, Selects, driverVars
  <2> QED BY <1>0, <2>1 DEF FollowUpOK
<1>8. ASSUME NEW e \in FollowUps, SendCall(e) \/ TakeAnswer(e) \/ TakeQueued(e)
      PROVE  FollowUpOK(f)'
  <2>0. FollowUpOK(e) /\ call \in [FollowUps -> {"none", "unsent", "sent", "injected", "required", "queued"}]
    BY <1>0 DEF TypeOK
  <2>1. UNCHANGED <<Waiting, Given, concurrent, pc, posted>> /\ pc = "turn"
    BY <1>8, PlacesStay DEF SendCall, TakeAnswer, TakeQueued, Selects, driverVars, agentVars
  <2>2. CASE SendCall(e)
    <3>1. UNCHANGED <<Kept, Boxed, reported, outcome, drain, needsDrain>> /\ call[e] = "unsent" /\ call' = [call EXCEPT ![e] = "sent"]
      BY <2>2, PlacesStay DEF SendCall, agentVars
    <3>2. (f = e /\ call'[f] = "sent") \/ (f # e /\ call'[f] = call[f])
      BY <2>0, <3>1
    <3> QED BY <1>0, <2>0, <2>1, <3>1, <3>2 DEF FollowUpOK
  <2>3. CASE TakeAnswer(e)
    <3>1. UNCHANGED <<Boxed, outcome, drain, needsDrain>> /\ call' = [call EXCEPT ![e] = "none"]
      BY <2>3, PlacesStay DEF TakeAnswer, agentVars
    <3>2. (f = e /\ call'[f] = "none") \/ (f # e /\ call'[f] = call[f])
      BY <2>0, <3>1
    <3>3. \/ call[e] = "injected" /\ reported' = reported \cup {e} /\ Kept' = Kept
          \/ call[e] = "required" /\ reported' = reported /\ Kept' = Kept \cup {e}
      BY <1>k, <2>3, PlacesStay DEF TakeAnswer
    <3> QED BY <1>0, <2>0, <2>1, <3>1, <3>2, <3>3 DEF FollowUpOK
  <2>4. CASE TakeQueued(e)
    <3>1. /\ UNCHANGED <<Kept, outcome>> /\ call' = [call EXCEPT ![e] = "none"] /\ call[e] = "queued"
          /\ needsDrain' = TRUE /\ reported' = reported \cup {e} /\ Boxed' = Boxed /\ drain' = "none"
      BY <1>d, <2>4, PlacesStay DEF TakeQueued
    <3>2. (f = e /\ call'[f] = "none") \/ (f # e /\ call'[f] = call[f])
      BY <2>0, <3>1
    <3> QED BY <1>0, <2>0, <2>1, <3>1, <3>2 DEF FollowUpOK
  <2> QED BY <1>8, <2>2, <2>3, <2>4
<1>9. CASE PollSession
  <2>1. Boxed' = Boxed
    <3>1. ToSet(mailbox') = ToSet(mailbox) \cup {"info"}
      BY <1>9, <1>t, <1>m DEF PollSession
    <3> QED BY <1>t, <3>1 DEF Boxed
  <2>2. /\ UNCHANGED <<Waiting, Kept, Given, concurrent, reported, call, pc, outcome, needsDrain, posted>>
        /\ drain = "busy" \/ call[f] = "none"
    BY <1>9, PlacesStay DEF PollSession, driverVars, Calls
  <2> QED BY <1>0, <2>1, <2>2 DEF FollowUpOK
<1>10. CASE TakeDrained
  <2>1. UNCHANGED <<Waiting, Kept, Boxed, Given, concurrent, reported, call, pc, outcome, posted>> /\ drain = "idle" /\ drain' = "none"
    BY <1>10, PlacesStay DEF TakeDrained, driverVars, agentVars
  <2>2. Boxed = {}
    BY <1>0, <2>1 DEF TurnState, Distinct, Phases, Draining, Boxed, ToSet
  <2> QED BY <1>0, <2>1, <2>2 DEF FollowUpOK
<1>11. CASE EndTurn \/ Deadline \/ Fail
  <2>1. UNCHANGED <<Waiting, Kept, Boxed, Given, concurrent, reported, call, outcome, drain, needsDrain, posted>> /\ pc = "turn" /\ pc' = "append"
    BY <1>11, PlacesStay DEF EndTurn, Deadline, Fail, Finish, driverVars, turnVars, agentVars
  <2> QED BY <1>0, <2>1 DEF FollowUpOK
<1>12. CASE AppendReport
  <2>1. PICK i \in Unreported : reported' = reported \cup {steering[i]}
    BY <1>12 DEF AppendReport
  <2>2. /\ UNCHANGED <<Waiting, Kept, Boxed, Given, concurrent, call, pc, outcome, drain, needsDrain, posted>> /\ pc = "append"
        /\ steering[i] \in Kept
    BY <1>12, PlacesStay DEF AppendReport, Unreported, driverVars, turnVars, agentVars, Kept, ToSet
  <2>3. outcome # None
    BY <1>0, <2>2 DEF TurnState, Distinct, Phases, Draining
  <2> QED BY <1>0, <2>1, <2>2, <2>3 DEF FollowUpOK
<1>13. CASE (\E st \in Statuses : AgentEndsTurn(st) \/ \E g \in open : AgentAnswersOld(g, st)) \/ AgentSettles \/ UNCHANGED vars
  <2>1. UNCHANGED <<Waiting, Kept, Boxed, Given, concurrent, reported, call, pc, outcome, drain, needsDrain, posted>>
    BY <1>13, PlacesStay DEF AgentEndsTurn, AgentAnswersOld, Answer, AgentSettles, vars, driverVars, turnVars, agentVars
  <2> QED BY <1>0, <2>1 DEF FollowUpOK
<1>14. ASSUME NEW e \in FollowUps, AgentSteers(e) \/ AgentQueues(e)
       PROVE  FollowUpOK(f)'
  <2>0. FollowUpOK(e) /\ call \in [FollowUps -> {"none", "unsent", "sent", "injected", "required", "queued"}]
    BY <1>0 DEF TypeOK
  <2>1. UNCHANGED <<Waiting, Kept, concurrent, reported, pc, outcome, drain, needsDrain, posted>> /\ call[e] = "sent"
    BY <1>14, PlacesStay DEF AgentSteers, AgentQueues, driverVars
  <2>2. CASE AgentSteers(e)
    <3>1. \/ call' = [call EXCEPT ![e] = "injected"] /\ Given' = Given \cup {e}
          \/ call' = [call EXCEPT ![e] = "required"] /\ Given' = Given
      BY <1>g, <2>2, PlacesStay DEF AgentSteers
    <3>2. Boxed' = Boxed
      BY <2>2, PlacesStay DEF AgentSteers
    <3>3. f # e => call'[f] = call[f]
      BY <2>0, <3>1
    <3>4. f = e => (call'[f] = "injected" /\ Given' = Given \cup {e}) \/ (call'[f] = "required" /\ Given' = Given)
      BY <2>0, <3>1
    <3>5. Given \subseteq Given' /\ Given' \subseteq Given \cup {e}
      BY <3>1
    <3> QED BY <1>0, <2>0, <2>1, <3>2, <3>3, <3>4, <3>5 DEF FollowUpOK
  <2>3. CASE AgentQueues(e)
    <3>1. Boxed' = Boxed \cup {e}
      <4>1. ToSet(mailbox') = ToSet(mailbox) \cup {e}
        BY <1>t, <1>m, <2>3 DEF AgentQueues
      <4> QED BY <4>1 DEF Boxed
    <3>2. Given' = Given /\ call' = [call EXCEPT ![e] = "queued"]
      BY <2>3, PlacesStay DEF AgentQueues
    <3>3. (f = e /\ call'[f] = "queued") \/ (f # e /\ call'[f] = call[f])
      BY <2>0, <3>2
    <3> QED BY <1>0, <2>0, <2>1, <3>1, <3>2, <3>3 DEF FollowUpOK
  <2> QED BY <1>14, <2>2, <2>3
<1>15. CASE AgentReadsInterjection
  <2>1. PICK e \in FollowUps : e = Head(mailbox)
    BY <1>15 DEF AgentReadsInterjection
  <2>2. /\ ToSet(mailbox) = ToSet(Tail(mailbox)) \cup {e} /\ e \notin ToSet(Tail(mailbox))
    BY <1>0, <1>15, <1>t, <2>1, TailItems DEF AgentReadsInterjection, TurnState, Distinct, Phases, Draining
  <2>3. e \in Boxed /\ Boxed' = Boxed \ {e}
    BY <1>15, <2>1, <2>2 DEF AgentReadsInterjection, Boxed
  <2>4. Given' = Given \cup {e}
    BY <1>15, <1>g, <2>1 DEF AgentReadsInterjection
  <2>5. UNCHANGED <<Waiting, Kept, concurrent, reported, call, pc, outcome, drain, needsDrain, posted>>
    BY <1>15, PlacesStay DEF AgentReadsInterjection, driverVars, turnVars
  <2> QED BY <1>0, <2>3, <2>4, <2>5 DEF FollowUpOK
<1>16. CASE AgentReadsInfo \/ AgentLists
  <2>1. UNCHANGED <<Waiting, Kept, Given, concurrent, reported, call, pc, outcome, needsDrain, posted>>
    BY <1>16, PlacesStay DEF AgentReadsInfo, AgentLists, driverVars, turnVars, agentVars
  <2>2. Boxed' = Boxed /\ drain # "none"
    <3>1. CASE AgentLists
      BY <3>1, PlacesStay DEF AgentLists, agentVars
    <3>2. CASE AgentReadsInfo
      <4>1. ToSet(mailbox) = ToSet(mailbox') \cup {"info"}
        BY <1>t, <3>2, TailItems DEF AgentReadsInfo
      <4> QED BY <1>0, <1>t, <4>1 DEF Boxed, TurnState, Distinct, Phases, Draining
    <3> QED BY <1>16, <3>1, <3>2
  <2> QED BY <1>0, <2>1, <2>2 DEF FollowUpOK
<1> QED
  BY <1>1, <1>2, <1>3, <1>4, <1>5, <1>6, <1>7, <1>8, <1>9, <1>10, <1>11, <1>12, <1>13, <1>14, <1>15, <1>16
     DEF Next, Driver, TakeCommand, TakeWork, LeaveTurn, Agent
-----------------------------------------------------------------------------
(* How far the turn is *)

\* A follow-up that is taken was waiting.
LEMMA TakesWaiting ==
  ASSUME TypeOK, NEW e \in FollowUps, TakeSteer(e)
  PROVE  e \in Waiting
<1>1. commands \in Seq(Channel) /\ commands # <<>> /\ Head(commands) = e
  BY DEF TypeOK, TakeSteer, Channel
<1>2. Head(commands) \in ToSet(commands)
  BY <1>1, HeadItem, Zenon
<1> QED BY <1>1, <1>2 DEF Waiting

\* No step puts a follow-up where it already is.
LEMMA DistinctStep ==
  ASSUME TurnOK, [Next]_vars, pc # "ended"
  PROVE  Distinct'
<1>0. TypeOK /\ TurnState /\ Distinct /\ \A e \in FollowUps : FollowUpOK(e)
  BY DEF TurnOK, TurnState
<1>t. /\ commands \in Seq(Channel) /\ "cancel" \in Channel /\ FollowUps \subseteq Channel /\ steering \in Seq(FollowUps)
      /\ mailbox \in Seq(Box) /\ given \in Seq(FollowUps)
      /\ "cancel" \notin FollowUps /\ "info" \notin FollowUps /\ "info" \in Box /\ FollowUps \subseteq Box
  BY <1>0, TurnAssumption DEF TypeOK, Box, Channel
<1>e. \A F : Once(F, <<>>)
  BY DEF Once
<1>1. Once(FollowUps, commands')
  <2>1. ASSUME NEW x \in Channel, commands' = Append(commands, x), x \in FollowUps => x \notin posted
        PROVE  Once(FollowUps, commands')
    <3>1. x \in FollowUps => x \notin ToSet(commands)
      BY <1>0, <2>1 DEF FollowUpOK, Waiting
    <3>2. Once(FollowUps, Append(commands, x))
      BY <1>0, <1>t, <2>1, <3>1, AppendItems, Zenon DEF Distinct
    <3> QED BY <2>1, <3>2
  <2>2. ASSUME NEW e \in FollowUps, PostSteer(e)
        PROVE  Once(FollowUps, commands')
    BY <1>t, <2>1, <2>2 DEF PostSteer
  <2>3. CASE PostCancel
    BY <1>t, <2>1, <2>3 DEF PostCancel
  <2>4. CASE (\E e \in FollowUps : TakeSteer(e)) \/ TakeCancel
    <3>1. commands # <<>> /\ commands' = Tail(commands)
      BY <2>4 DEF TakeSteer, TakeCancel
    <3>2. Once(FollowUps, Tail(commands))
      BY <1>0, <1>t, <3>1, TailItems, Zenon DEF Distinct
    <3> QED BY <3>1, <3>2
  <2> QED BY <1>0, <2>2, <2>3, <2>4, Changes DEF Distinct
<1>2. Once(FollowUps, steering')
  <2>1. ASSUME NEW e \in FollowUps, steering' = Append(steering, e), e \in Waiting \/ call[e] # "none"
        PROVE  Once(FollowUps, steering')
    <3>1. e \notin ToSet(steering)
      BY <1>0, <2>1 DEF FollowUpOK, Kept
    <3>2. Once(FollowUps, Append(steering, e))
      BY <1>0, <1>t, <2>1, <3>1, AppendItems, Zenon DEF Distinct
    <3> QED BY <2>1, <3>2
  <2>2. ASSUME NEW e \in FollowUps, TakeSteer(e)
        PROVE  Once(FollowUps, steering')
    <3>1. e \in Waiting
      BY <1>0, <2>2, TakesWaiting
    <3> QED BY <1>0, <2>1, <2>2, <3>1 DEF TakeSteer, SteerAfterTurn, SteerByPrompt, SteerByCall, Distinct
  <2>3. ASSUME NEW e \in FollowUps, TakeAnswer(e)
        PROVE  Once(FollowUps, steering')
    BY <1>0, <2>1, <2>3 DEF TakeAnswer, Distinct
  <2>4. CASE TakeCancel \/ Ready \/ AppendPrompt
    BY <1>e, <2>4 DEF TakeCancel, Ready, AppendPrompt, StartTurn
  <2> QED BY <1>0, <2>2, <2>3, <2>4, Changes DEF Distinct
<1>3. Once(Box, mailbox')
  <2>1. ASSUME NEW x \in Box, mailbox' = Append(mailbox, x), x \notin ToSet(mailbox)
        PROVE  Once(Box, mailbox')
    <3>1. Once(Box, Append(mailbox, x))
      BY <1>0, <1>t, <2>1, AppendItems, Zenon DEF Distinct
    <3> QED BY <2>1, <3>1
  <2>2. CASE DropDrain
    BY <1>0, <2>2, DropTakesInfo
  <2>3. ASSUME NEW e \in FollowUps, AgentQueues(e)
        PROVE  Once(Box, mailbox')
    <3>1. e \notin ToSet(mailbox)
      BY <1>0, <2>3 DEF AgentQueues, FollowUpOK, Boxed
    <3> QED BY <1>t, <2>1, <2>3, <3>1 DEF AgentQueues
  <2>4. CASE PollSession
    <3>1. "info" \notin ToSet(mailbox)
      BY <1>0, <2>4 DEF PollSession, TurnState, Draining
    <3> QED BY <1>t, <2>1, <2>4, <3>1 DEF PollSession
  <2>5. CASE AgentReadsInterjection \/ AgentReadsInfo
    <3>1. mailbox # <<>> /\ mailbox' = Tail(mailbox)
      BY <2>5 DEF AgentReadsInterjection, AgentReadsInfo
    <3>2. Once(Box, Tail(mailbox))
      BY <1>0, <1>t, <3>1, TailItems, Zenon DEF Distinct
    <3> QED BY <3>1, <3>2
  <2>6. ASSUME NEW e \in FollowUps, TakeSteer(e) \/ TakeQueued(e)
        PROVE  mailbox' = mailbox \/ DropDrain
    BY <2>6 DEF TakeSteer, TakeQueued
  <2> QED BY <1>0, <2>2, <2>3, <2>4, <2>5, <2>6, Changes DEF Distinct
<1>4. Once(FollowUps, given')
  <2>1. ASSUME NEW e \in FollowUps, given' = Append(given, e), e \notin ToSet(given)
        PROVE  Once(FollowUps, given')
    <3>1. Once(FollowUps, Append(given, e))
      BY <1>0, <1>t, <2>1, AppendItems, Zenon DEF Distinct
    <3> QED BY <2>1, <3>1
  <2>2. ASSUME NEW t \in Seq(FollowUps), given' = given \o t, Once(FollowUps, t), ToSet(given) \cap ToSet(t) = {}
        PROVE  Once(FollowUps, given')
    <3>1. Once(FollowUps, given \o t)
      BY <1>0, <1>t, <2>2, JoinItems, Zenon DEF Distinct
    <3> QED BY <2>2, <3>1
  <2>3. ASSUME NEW e \in FollowUps, TakeSteer(e)
        PROVE  Once(FollowUps, given')
    <3>1. e \in Waiting
      BY <1>0, <2>3, TakesWaiting
    <3>2. <<e>> \in Seq(FollowUps) /\ Once(FollowUps, <<e>>) /\ ToSet(<<e>>) = {e} /\ e \notin ToSet(given)
      BY <1>0, <3>1 DEF Once, ToSet, FollowUpOK, Given
    <3>3. given' = given \/ given' = given \o <<e>>
      BY <2>3 DEF TakeSteer, SteerAfterTurn, SteerByPrompt, SteerByCall, Submit
    <3> QED BY <1>0, <2>2, <3>2, <3>3 DEF Distinct
  <2>4. ASSUME NEW e \in FollowUps, AgentSteers(e)
        PROVE  Once(FollowUps, given')
    <3>1. call[e] = "sent" /\ e \notin ToSet(given)
      BY <1>0, <2>4 DEF AgentSteers, FollowUpOK, Given
    <3> QED BY <1>0, <2>1, <2>4, <3>1 DEF AgentSteers, Distinct
  <2>5. CASE AgentReadsInterjection
    <3>1. Head(mailbox) \in ToSet(mailbox)
      <4>1. mailbox # <<>>
        BY <2>5 DEF AgentReadsInterjection
      <4> QED BY <1>t, <4>1, HeadItem, Zenon
    <3>2. Head(mailbox) \in FollowUps /\ Head(mailbox) \notin ToSet(given)
      BY <1>0, <2>5, <3>1 DEF AgentReadsInterjection, FollowUpOK, Boxed, Given
    <3> QED BY <2>1, <2>5, <3>2 DEF AgentReadsInterjection
  <2>6. CASE Ready
    BY <1>0, <1>t, <2>6, ConcatEmptySeq DEF Ready, StartTurn, Submit, Distinct
  <2>7. CASE AppendPrompt
    <3>1. ToSet(given) \cap ToSet(steering) = {}
      <4>1. \A x \in ToSet(steering) : x \in FollowUps
        BY <1>t DEF ToSet
      <4> QED BY <1>0, <4>1 DEF FollowUpOK, Kept, Given
    <3> QED BY <1>0, <1>t, <2>2, <2>7, <3>1 DEF AppendPrompt, StartTurn, Submit, Distinct
  <2> QED BY <1>0, <2>3, <2>4, <2>5, <2>6, <2>7, Changes DEF Distinct
<1> QED BY <1>1, <1>2, <1>3, <1>4 DEF Distinct

\* What taking the mailbox's head away leaves of a drain's request.
LEMMA MailboxHead ==
  ASSUME TypeOK, Distinct, Draining, mailbox # <<>>, mailbox' = Tail(mailbox)
  PROVE  /\ Head(mailbox) = "info" => mailbox' = <<>> /\ drain = "info"
         /\ Head(mailbox) # "info" => ("info" \in ToSet(mailbox') <=> drain = "info")
         /\ \A i \in DOMAIN mailbox' : mailbox'[i] = "info" => i = Len(mailbox')
<1>1. mailbox \in Seq(Box) /\ "info" \in Box
  BY DEF TypeOK, Box
<1>2. /\ Tail(mailbox) \in Seq(Box) /\ Len(mailbox) \in Nat \ {0} /\ DOMAIN mailbox = 1..Len(mailbox)
      /\ Head(mailbox) = mailbox[1] /\ DOMAIN Tail(mailbox) = 1..(Len(mailbox) - 1) /\ Len(Tail(mailbox)) = Len(mailbox) - 1
      /\ \A i \in 1..(Len(mailbox) - 1) : Tail(mailbox)[i] = mailbox[i + 1]
  BY <1>1
<1>3. \A i \in DOMAIN mailbox : mailbox[i] = "info" => i = Len(mailbox)
  BY DEF Draining
<1>4. ASSUME Head(mailbox) = "info"
      PROVE  mailbox' = <<>> /\ drain = "info"
  <2>1. 1 \in DOMAIN mailbox /\ mailbox[1] = "info"
    BY <1>2, <1>4
  <2>2. 1 = Len(mailbox)
    BY <1>3, <2>1
  <2>3. Tail(mailbox) = <<>>
    <3>1. Tail(mailbox) \in Seq(Box) /\ Len(Tail(mailbox)) = 0
      BY <1>2, <2>2
    <3> QED BY <3>1, EmptySeq
  <2>4. "info" \in ToSet(mailbox)
    BY <2>1 DEF ToSet
  <2> QED BY <2>3, <2>4 DEF Draining
<1>5. ASSUME Head(mailbox) # "info"
      PROVE  "info" \in ToSet(mailbox') <=> drain = "info"
  <2>1. ToSet(mailbox) = ToSet(Tail(mailbox)) \cup {Head(mailbox)}
    BY <1>1, TailItems, Zenon
  <2> QED BY <1>5, <2>1 DEF Draining
<1>6. ASSUME NEW i \in DOMAIN Tail(mailbox), Tail(mailbox)[i] = "info"
      PROVE  i = Len(Tail(mailbox))
  <2>1. i + 1 \in DOMAIN mailbox /\ mailbox[i + 1] = "info" /\ i \in Nat
    BY <1>2, <1>6
  <2>2. i + 1 = Len(mailbox)
    BY <1>3, <2>1
  <2>3. Len(mailbox) \in Nat /\ Len(Tail(mailbox)) = Len(mailbox) - 1
    BY <1>2
  <2> QED BY <2>1, <2>2, <2>3
<1> QED BY <1>4, <1>5, <1>6

\* What appending to the mailbox does.
LEMMA MailboxEnd ==
  ASSUME TypeOK, NEW x \in Box, mailbox' = Append(mailbox, x), "info" \notin ToSet(mailbox)
  PROVE  /\ "info" \in ToSet(mailbox') <=> x = "info"
         /\ \A i \in DOMAIN mailbox' : mailbox'[i] = "info" => i = Len(mailbox')
<1>1. mailbox \in Seq(Box)
  BY DEF TypeOK, Box
<1>2. ToSet(mailbox') = ToSet(mailbox) \cup {x}
  BY <1>1, AppendElements
<1>3. /\ Len(mailbox) \in Nat /\ DOMAIN mailbox = 1..Len(mailbox) /\ DOMAIN Append(mailbox, x) = 1..(Len(mailbox) + 1)
      /\ Len(Append(mailbox, x)) = Len(mailbox) + 1
      /\ \A i \in 1..Len(mailbox) : Append(mailbox, x)[i] = mailbox[i]
  BY <1>1
<1>4. \A i \in DOMAIN mailbox : mailbox[i] # "info"
  BY DEF ToSet
<1>5. ASSUME NEW i \in DOMAIN Append(mailbox, x), Append(mailbox, x)[i] = "info"
      PROVE  i = Len(Append(mailbox, x))
  <2>1. CASE i \in 1..Len(mailbox)
    BY <1>3, <1>4, <1>5, <2>1
  <2>2. CASE i \notin 1..Len(mailbox)
    BY <1>3, <1>5, <2>2
  <2> QED BY <2>1, <2>2
<1> QED BY <1>2, <1>5

\* A mailbox without the drain's request.
LEMMA NoInfo ==
  ASSUME "info" \notin ToSet(mailbox')
  PROVE  \A i \in DOMAIN mailbox' : mailbox'[i] = "info" => i = Len(mailbox')
BY DEF ToSet

\* Every step keeps the drain behind the answer and its request at the end.
LEMMA DrainingStep ==
  ASSUME TurnOK, [Next]_vars, pc # "ended"
  PROVE  Draining'
<1> USE TurnAssumption
<1>0. TypeOK /\ TurnState /\ Distinct /\ Draining /\ \A e \in FollowUps : FollowUpOK(e)
  BY DEF TurnOK, TurnState
<1>t. /\ mailbox \in Seq(Box) /\ "info" \notin FollowUps /\ "info" \in Box /\ FollowUps \subseteq Box
      /\ None \notin Statuses /\ drain \in {"none", "info", "list", "busy", "idle"}
      /\ working \in BOOLEAN /\ needsDrain \in BOOLEAN
  BY <1>0 DEF TypeOK, Box, Statuses
<1>1. CASE UNCHANGED <<drain, mailbox, outcome, needsDrain>> /\ (working' => working)
  BY <1>0, <1>1 DEF Draining
<1>2. CASE drain' = "none" /\ "info" \notin ToSet(mailbox')
  BY <1>2, NoInfo DEF Draining
<1>3. CASE Driver \/ TakeCancel \/ EndTurn \/ AppendReport \/ Deadline \/ Fail \/ UNCHANGED vars
  BY <1>1, <1>3 DEF Driver, PostSteer, PostCancel, TakeCancel, EndTurn, AppendReport, Deadline, Fail, Finish, agentVars, turnVars, vars
<1>4. CASE Ready \/ AppendPrompt
  <2>1. drain' = "none" /\ mailbox' = mailbox
    BY <1>4 DEF Ready, AppendPrompt, StartTurn
  <2>2. drain = "none"
    BY <1>0, <1>4 DEF TurnState, Phases, Draining, Ready, AppendPrompt
  <2> QED BY <1>0, <1>2, <2>1, <2>2 DEF Draining
<1>5. ASSUME NEW e \in FollowUps, TakeSteer(e)
      PROVE  Draining'
  <2>1. CASE stopping
    BY <1>1, <1>5, <2>1 DEF TakeSteer
  <2>2. CASE ~stopping
    BY <1>0, <1>2, <1>5, <2>2, DropTakesInfo DEF TakeSteer
  <2> QED BY <2>1, <2>2
<1>6. CASE TakeResponse
  <2>1. /\ UNCHANGED <<drain, mailbox, needsDrain, working>> /\ outcome = None
    BY <1>6 DEF TakeResponse
  <2>2. drain = "none"
    BY <1>0, <1>t, <2>1 DEF Draining
  <2> QED BY <1>0, <1>2, <2>1, <2>2 DEF Draining
<1>7. ASSUME NEW e \in FollowUps, SendCall(e) \/ TakeAnswer(e) \/ AgentSteers(e)
      PROVE  Draining'
  BY <1>1, <1>7 DEF SendCall, TakeAnswer, AgentSteers, agentVars
<1>8. ASSUME NEW e \in FollowUps, TakeQueued(e)
      PROVE  Draining'
  BY <1>0, <1>2, <1>8, DropTakesInfo DEF TakeQueued
<1>9. CASE PollSession
  <2>1. /\ drain' = "info" /\ mailbox' = Append(mailbox, "info") /\ UNCHANGED <<outcome, needsDrain>>
        /\ (outcome # None /\ needsDrain /\ drain = "none") \/ drain = "busy"
    BY <1>9 DEF PollSession
  <2>2. outcome # None /\ needsDrain /\ "info" \notin ToSet(mailbox)
    BY <1>0, <2>1 DEF Draining
  <2>3. "info" \in ToSet(mailbox') /\ \A i \in DOMAIN mailbox' : mailbox'[i] = "info" => i = Len(mailbox')
    BY <1>0, <1>t, <2>1, <2>2, MailboxEnd
  <2> QED BY <2>1, <2>2, <2>3 DEF Draining
<1>10. CASE TakeDrained
  <2>1. drain' = "none" /\ mailbox' = mailbox /\ drain = "idle"
    BY <1>10 DEF TakeDrained, agentVars
  <2> QED BY <1>0, <1>2, <2>1 DEF Draining
<1>11. CASE (\E st \in Statuses : AgentEndsTurn(st) \/ \E g \in open : AgentAnswersOld(g, st)) \/ AgentSettles
  BY <1>1, <1>11 DEF AgentEndsTurn, AgentAnswersOld, Answer, AgentSettles, turnVars
<1>12. ASSUME NEW e \in FollowUps, AgentQueues(e)
       PROVE  Draining'
  <2>1. call[e] = "sent" /\ mailbox' = Append(mailbox, e) /\ UNCHANGED drain
    BY <1>12 DEF AgentQueues
  <2>2. drain = "none"
    BY <1>0, <2>1 DEF FollowUpOK
  <2>3. "info" \notin ToSet(mailbox) /\ e # "info" /\ e \in Box
    BY <1>0, <1>t, <2>2 DEF Draining
  <2>4. "info" \notin ToSet(mailbox')
    BY <1>0, <2>1, <2>3, MailboxEnd
  <2> QED BY <1>2, <2>1, <2>2, <2>4
<1>13. CASE AgentReadsInterjection
  <2>1. mailbox # <<>> /\ mailbox' = Tail(mailbox) /\ Head(mailbox) # "info" /\ UNCHANGED <<drain, outcome, needsDrain>>
    BY <1>13, <1>t DEF AgentReadsInterjection, turnVars
  <2>2. /\ "info" \in ToSet(mailbox') <=> drain = "info"
        /\ \A i \in DOMAIN mailbox' : mailbox'[i] = "info" => i = Len(mailbox')
    BY <1>0, <2>1, MailboxHead
  <2>3. drain \notin {"list", "busy", "idle"}
    BY <1>0, <2>1 DEF Draining
  <2>4. drain # "none" => outcome # None /\ needsDrain
    BY <1>0 DEF Draining
  <2> QED BY <2>1, <2>2, <2>3, <2>4 DEF Draining
<1>14. CASE AgentReadsInfo
  <2>1. mailbox # <<>> /\ mailbox' = Tail(mailbox) /\ Head(mailbox) = "info" /\ UNCHANGED <<outcome, needsDrain>> /\ drain' = "list"
    BY <1>14 DEF AgentReadsInfo
  <2>2. mailbox' = <<>> /\ drain = "info"
    BY <1>0, <2>1, MailboxHead
  <2>3. "info" \notin ToSet(mailbox')
    BY <2>2 DEF ToSet
  <2>4. outcome # None /\ needsDrain
    BY <1>0, <2>2 DEF Draining
  <2> QED BY <2>1, <2>2, <2>3, <2>4, NoInfo DEF Draining
<1>15. CASE AgentLists
  <2>1. /\ UNCHANGED <<mailbox, outcome, needsDrain, working>> /\ drain = "list"
        /\ drain' = IF working THEN "busy" ELSE "idle"
    BY <1>15 DEF AgentLists, agentVars
  <2> QED BY <1>0, <2>1 DEF Draining
<1> QED
  BY <1>3, <1>4, <1>5, <1>6, <1>7, <1>8, <1>9, <1>10, <1>11, <1>12, <1>13, <1>14, <1>15
     DEF Next, TakeCommand, TakeWork, LeaveTurn, Agent

\* Only the turn itself starts steering requests, and only a stop stops it.
LEMMA PhasesStep ==
  ASSUME TurnOK, [Next]_vars, pc # "ended", pc' # "ended"
  PROVE  Phases'
<1> USE TurnAssumption
<1>0. TypeOK /\ TurnState /\ Phases
  BY DEF TurnOK, TurnState
<1>t. /\ commands \in Seq(Channel) /\ "cancel" \in Channel /\ FollowUps \subseteq Channel /\ "cancel" \notin FollowUps
      /\ stops \in Nat
  BY <1>0 DEF TypeOK, Channel
<1>1. stopping' \/ "cancel" \in ToSet(commands') => stops' > 0
  <2>1. stops' >= stops /\ stops' \in Nat
    BY <1>t, Changes DEF PostCancel
  <2>2. ASSUME commands # <<>>, commands' = Tail(commands)
        PROVE  /\ ToSet(commands) = ToSet(commands') \cup {Head(commands)}
    BY <1>t, <2>2, TailItems, Zenon
  <2>3. ASSUME NEW x \in Channel, commands' = Append(commands, x)
        PROVE  ToSet(commands') = ToSet(commands) \cup {x}
    <3>1. commands \in Seq(Channel)
      BY <1>t
    <3>2. ToSet(Append(commands, x)) = ToSet(commands) \cup {x}
      BY <3>1, AppendElements
    <3> QED BY <2>3, <3>2
  <2>4. CASE TakeCancel
    <3>1. "cancel" \in ToSet(commands)
      BY <2>2, <2>4 DEF TakeCancel
    <3> QED BY <1>0, <1>t, <2>1, <3>1 DEF Phases
  <2>5. CASE PostCancel
    BY <1>t, <2>5 DEF PostCancel
  <2>6. CASE Ready \/ AppendPrompt
    BY <1>0, <1>t, <2>6 DEF Ready, AppendPrompt, StartTurn, driverVars, Phases
  <2>7. ASSUME NEW e \in FollowUps, PostSteer(e) \/ TakeSteer(e)
        PROVE  ("cancel" \in ToSet(commands') => "cancel" \in ToSet(commands)) /\ stopping' = stopping
    <3>1. CASE PostSteer(e)
      <4>1. ToSet(commands') = ToSet(commands) \cup {e} /\ stopping' = stopping
        BY <1>t, <2>3, <3>1 DEF PostSteer, turnVars
      <4> QED BY <1>t, <4>1
    <3>2. CASE TakeSteer(e)
      <4>1. commands # <<>> /\ commands' = Tail(commands) /\ stopping' = stopping
        BY <3>2 DEF TakeSteer
      <4>2. ToSet(commands) = ToSet(commands') \cup {Head(commands)}
        BY <2>2, <4>1
      <4> QED BY <4>1, <4>2
    <3> QED BY <2>7, <3>1, <3>2
  <2>8. CASE commands' = commands /\ stopping' = stopping
    BY <1>0, <1>t, <2>1, <2>8 DEF Phases
  <2> QED BY <1>0, <1>t, <2>1, <2>4, <2>5, <2>6, <2>7, <2>8, Changes DEF Phases
<1>2. pc' # "turn" => ~stopping'
  <2>1. CASE EndTurn
    BY <2>1 DEF EndTurn, Continues, Finish, turnVars
  <2>2. CASE Ready \/ AppendPrompt
    BY <2>2 DEF Ready, AppendPrompt, StartTurn
  <2>3. CASE Deadline \/ Fail
    BY <2>3 DEF Deadline, Fail, Finish
  <2>4. CASE TakeCancel
    BY <2>4 DEF TakeCancel, Selects
  <2>5. CASE pc' = pc /\ stopping' = stopping
    BY <1>0, <2>5 DEF Phases
  <2> QED BY <2>1, <2>2, <2>3, <2>4, <2>5, Changes
<1>3. pc' = "handshake" => Given' = {} /\ reported' = {} /\ mailbox' = <<>> /\ concurrent' = {} /\ drain' = "none" /\ Calls' = {}
  <2> SUFFICES ASSUME pc' = "handshake"
               PROVE  UNCHANGED <<given, reported, mailbox, concurrent, drain, call>> /\ pc = "handshake"
    BY <1>0 DEF Phases, Given, Calls
  <2>1. pc = "handshake"
    BY Changes DEF Ready, AppendPrompt, StartTurn, EndTurn, Deadline, Fail, Finish
  <2>2. mailbox = <<>> /\ drain = "none" /\ \A e \in FollowUps : call[e] = "none"
    BY <1>0, <2>1 DEF Phases, Calls
  <2>3. (\E st \in Statuses : AgentEndsTurn(st) \/ \E g \in open : AgentAnswersOld(g, st)) \/ AgentSettles \/ Driver \/ UNCHANGED vars
    BY <2>1, <2>2
       DEF Next, TakeCommand, TakeWork, LeaveTurn, Agent, Ready, StartTurn, TakeSteer, TakeCancel, TakeResponse, SendCall,
           TakeAnswer, TakeQueued, PollSession, TakeDrained, Selects, EndTurn, AppendReport, AppendPrompt, Deadline, Fail,
           Finish, AgentSteers, AgentQueues, AgentReadsInterjection, AgentReadsInfo, AgentLists
  <2> QED BY <2>1, <2>3 DEF AgentEndsTurn, AgentAnswersOld, Answer, AgentSettles, Driver, PostSteer, PostCancel, vars, turnVars, agentVars
<1>4. pc' = "append" => outcome' = "completed" /\ Calls' = {} /\ ~needsDrain'
  <2>1. CASE pc = "turn" /\ pc' = "append"
    <3>1. EndTurn
      BY <2>1, Changes DEF Ready, AppendPrompt, StartTurn, Deadline, Fail, Finish
    <3> QED BY <2>1, <3>1 DEF EndTurn, Settled, Continues, Finish, turnVars, Calls
  <2>2. CASE pc = "append" /\ pc' = "append"
    <3>1. outcome = "completed" /\ ~needsDrain /\ \A e \in FollowUps : call[e] = "none"
      BY <1>0, <2>2 DEF Phases, Calls
    <3>2. UNCHANGED <<outcome, needsDrain, call>>
      BY <2>2, <3>1
         DEF Next, Driver, PostSteer, PostCancel, TakeCommand, TakeWork, LeaveTurn, Agent, Ready, StartTurn, TakeSteer,
             TakeCancel, TakeResponse, SendCall, TakeAnswer, TakeQueued, PollSession, TakeDrained, Selects, EndTurn,
             AppendReport, AppendPrompt, Deadline, Fail, Finish, AgentEndsTurn, AgentAnswersOld, Answer, AgentSteers,
             AgentQueues, AgentReadsInterjection, AgentReadsInfo, AgentLists, AgentSettles, vars, turnVars, agentVars
    <3> QED BY <3>1, <3>2 DEF Calls
  <2>3. pc' = "append" => pc = "turn" \/ pc = "append"
    BY Changes DEF Ready, AppendPrompt, StartTurn, EndTurn, Deadline, Fail, Finish
  <2> QED BY <2>1, <2>2, <2>3
<1> QED BY <1>1, <1>2, <1>3, <1>4 DEF Phases

\* The agent has no work after its answer that is not an interjection.
LEMMA NothingElseStep ==
  ASSUME TurnOK, [Next]_vars, pc # "ended"
  PROVE  NothingElse'
<1> USE TurnAssumption
<1>0. TypeOK /\ TurnState /\ NothingElse /\ Draining /\ \A e \in FollowUps : FollowUpOK(e)
  BY DEF TurnOK, TurnState
<1>t. /\ call \in [FollowUps -> {"none", "unsent", "sent", "injected", "required", "queued"}]
      /\ generation \in Nat /\ open \subseteq 0..generation
      /\ replies \in Seq([generation : 0..generation, status : Statuses])
      /\ DOMAIN replies = 1..Len(replies) /\ Len(replies) \in Nat
  BY <1>0 DEF TypeOK
<1>1. ASSUME UNCHANGED <<outcome, replies, generation, open>>, Interjected => Interjected', working' => working \/ Interjected'
      PROVE  NothingElse'
  BY <1>0, <1>1 DEF NothingElse, Answered
<1>2. ASSUME ~Answered'
      PROVE  NothingElse'
  BY <1>2 DEF NothingElse
<1>3. CASE Driver \/ TakeCancel \/ EndTurn \/ AppendReport \/ Deadline \/ Fail \/ UNCHANGED vars \/ PollSession \/ AgentReadsInfo \/ AgentLists \/ AgentSettles
  BY <1>1, <1>3 DEF Driver, PostSteer, PostCancel, TakeCancel, EndTurn, AppendReport, Deadline, Fail, Finish, PollSession,
                    AgentReadsInfo, AgentLists, AgentSettles, agentVars, turnVars, vars, Interjected
<1>4. CASE Ready \/ AppendPrompt
  <2>1. outcome' = None /\ replies' = <<>>
    BY <1>4 DEF Ready, AppendPrompt, StartTurn
  <2> QED BY <1>2, <2>1 DEF Answered
<1>5. ASSUME NEW e \in FollowUps, TakeSteer(e)
      PROVE  NothingElse'
  <2>1. UNCHANGED <<replies, needsDrain>> /\ call[e] = "none"
    BY <1>0, <1>5, TakesWaiting DEF TakeSteer, FollowUpOK
  <2>2. CASE stopping
    BY <1>1, <1>5, <2>1, <2>2 DEF TakeSteer, Interjected
  <2>3. CASE SteerAfterTurn(e)
    BY <1>1, <2>1, <2>3 DEF SteerAfterTurn, Interjected
  <2>4. CASE SteerByPrompt(e)
    <3>1. outcome' = None /\ generation' = generation + 1 /\ replies' = replies
      BY <2>1, <2>4 DEF SteerByPrompt
    <3>2. \A k \in DOMAIN replies : replies[k].generation \in 0..generation
      <4>1. ASSUME NEW k \in DOMAIN replies
            PROVE  replies[k] \in [generation : 0..generation, status : Statuses]
        BY <1>t, <4>1, ElementOfSeq
      <4> QED BY <4>1
    <3> QED BY <1>2, <1>t, <3>1, <3>2 DEF Answered
  <2>5. CASE SteerByCall(e)
    <3>1. UNCHANGED <<outcome, generation, open, working>> /\ call' = [call EXCEPT ![e] = "unsent"]
      BY <2>5 DEF SteerByCall
    <3>2. \A f \in FollowUps : call[f] = "queued" => call'[f] = "queued"
      BY <1>t, <2>1, <3>1
    <3> QED BY <1>1, <2>1, <3>1, <3>2 DEF Interjected
  <2> QED BY <1>5, <2>2, <2>3, <2>4, <2>5 DEF TakeSteer
<1>6. CASE TakeResponse
  <2>1. /\ replies # <<>> /\ replies' = Tail(replies) /\ UNCHANGED <<call, generation, needsDrain, working, open>>
        /\ outcome' = outcome \/ Head(replies).generation = generation
    BY <1>6 DEF TakeResponse
  <2>2. 1 \in DOMAIN replies /\ Head(replies) = replies[1]
        /\ \A k \in DOMAIN Tail(replies) : k + 1 \in DOMAIN replies /\ Tail(replies)[k] = replies[k + 1]
    BY <1>t, <2>1
  <2>3. Answered' => Answered
    BY <2>1, <2>2 DEF Answered
  <2> QED BY <1>0, <2>1, <2>3 DEF NothingElse, Interjected
<1>7. ASSUME NEW e \in FollowUps, SendCall(e) \/ TakeAnswer(e) \/ AgentSteers(e) \/ AgentQueues(e)
      PROVE  NothingElse'
  <2>1. /\ UNCHANGED <<outcome, replies, generation, open, needsDrain, working>> /\ call[e] # "queued"
        /\ \E st \in {"none", "sent", "injected", "required", "queued"} : call' = [call EXCEPT ![e] = st]
    BY <1>7 DEF SendCall, TakeAnswer, AgentSteers, AgentQueues, agentVars
  <2>2. \A f \in FollowUps : call[f] = "queued" => call'[f] = "queued"
    BY <1>t, <2>1
  <2> QED BY <1>1, <2>1, <2>2 DEF Interjected
<1>8. ASSUME NEW e \in FollowUps, TakeQueued(e)
      PROVE  NothingElse'
  BY <1>1, <1>8 DEF TakeQueued, Interjected
<1>9. CASE TakeDrained
  <2>1. UNCHANGED <<outcome, replies, generation, open, working>> /\ drain = "idle"
    BY <1>9 DEF TakeDrained, agentVars
  <2>2. ~working
    BY <1>0, <2>1 DEF Draining
  <2> QED BY <1>0, <2>1, <2>2 DEF NothingElse, Answered
<1>10. ASSUME NEW g \in open, NEW st \in Statuses, Answer(g, st), (g = generation /\ working' = FALSE) \/ (g < generation /\ working' = working)
       PROVE  NothingElse'
  <2>1. /\ UNCHANGED <<outcome, generation, call, needsDrain>> /\ open' = open \ {g}
        /\ replies' = Append(replies, [generation |-> g, status |-> st])
    BY <1>10 DEF Answer, turnVars
  <2>2. CASE g = generation /\ working' = FALSE
    BY <2>1, <2>2 DEF NothingElse
  <2>3. CASE g < generation /\ working' = working
    <3>1. /\ DOMAIN Append(replies, [generation |-> g, status |-> st]) = 1..(Len(replies) + 1)
          /\ \A k \in 1..Len(replies) : Append(replies, [generation |-> g, status |-> st])[k] = replies[k]
          /\ Append(replies, [generation |-> g, status |-> st])[Len(replies) + 1] = [generation |-> g, status |-> st]
      BY <1>t
    <3>2. ASSUME NEW k \in 1..(Len(replies) + 1)
          PROVE  k \in 1..Len(replies) \/ k = Len(replies) + 1
      BY <1>t
    <3>3. g # generation
      BY <1>t, <2>3
    <3>4. Answered' => Answered
      BY <1>t, <2>1, <3>1, <3>2, <3>3 DEF Answered
    <3> QED BY <1>0, <2>1, <2>3, <3>4 DEF NothingElse, Interjected
  <2> QED BY <1>10, <2>2, <2>3
<1>11. CASE AgentReadsInterjection
  <2>1. mailbox # <<>> /\ Head(mailbox) \in FollowUps /\ UNCHANGED <<outcome, replies, generation, open, call, needsDrain>>
    BY <1>11 DEF AgentReadsInterjection, turnVars
  <2>2. Head(mailbox) \in Boxed
    <3>1. mailbox \in Seq(Box)
      BY <1>0 DEF TypeOK, Box
    <3>2. Head(mailbox) \in ToSet(mailbox)
      BY <2>1, <3>1, HeadItem, Zenon
    <3> QED BY <2>1, <3>2 DEF Boxed
  <2>3. Interjected
    BY <1>0, <2>1, <2>2 DEF FollowUpOK, Interjected
  <2> QED BY <1>1, <2>1, <2>3 DEF Interjected
<1> QED
  BY <1>3, <1>4, <1>5, <1>6, <1>7, <1>8, <1>9, <1>10, <1>11
     DEF Next, TakeCommand, TakeWork, LeaveTurn, Agent, AgentEndsTurn, AgentAnswersOld, Answer

-----------------------------------------------------------------------------
(* The end of a turn, and the theorems *)

\* When the loop leaves a turn, the agent is done, and what was reported is
\* what it was given.
LEMMA Settles ==
  ASSUME TypeOK, TurnState, \A e \in FollowUps : FollowUpOK(e), pc = "turn", Settled
  PROVE  /\ ~working /\ mailbox = <<>> /\ generation \notin open
         /\ Given = reported
<1>1. Distinct /\ Phases /\ Draining /\ NothingElse
  BY DEF TurnState
<1>2. outcome # None /\ ~needsDrain /\ \A e \in FollowUps : call[e] = "none"
  BY DEF Settled, Calls
<1>3. drain = "none" /\ "info" \notin ToSet(mailbox)
  BY <1>1, <1>2 DEF Draining
<1>4. Boxed = {}
  <2>1. ASSUME NEW e \in Boxed
        PROVE  FALSE
    <3>1. e \in FollowUps
      BY DEF Boxed
    <3> QED BY <1>2, <2>1, <3>1 DEF FollowUpOK
  <2> QED BY <2>1
<1>5. mailbox = <<>>
  <2>1. mailbox \in Seq(Box)
    BY DEF TypeOK, Box
  <2>2. mailbox # <<>> => Head(mailbox) \in ToSet(mailbox) /\ Head(mailbox) \in Box
    BY <2>1, HeadItem
  <2> QED BY <1>3, <1>4, <2>2 DEF Boxed, Box
<1>6. ~working /\ generation \notin open
  BY <1>1, <1>2 DEF NothingElse, Answered, Interjected
<1>7. Given = reported
  <2>1. given \in Seq(FollowUps) /\ reported \subseteq FollowUps
    BY DEF TypeOK
  <2>2. \A x \in Given : x \in FollowUps
    BY <2>1 DEF Given, ToSet
  <2>3. ASSUME NEW e \in FollowUps
        PROVE  e \in Given <=> e \in reported
    <3>1. FollowUpOK(e) /\ call[e] = "none" /\ e \notin concurrent /\ e \notin Boxed
      BY <1>2, <1>4 DEF FollowUpOK
    <3> QED BY <3>1 DEF FollowUpOK
  <2> QED BY <2>1, <2>2, <2>3
<1> QED BY <1>5, <1>6, <1>7

\* A run only reports completed or cancelled when its turn settled.
LEMMA EndsSettled ==
  ASSUME TurnOK, [Next]_vars, pc # "ended", status' # "running"
  PROVE  /\ pc' = "ended" /\ UNCHANGED <<posted, stops, reported, given, working, mailbox, call, generation, open>>
         /\ \/ Settled /\ pc = "turn"
            \/ status' = "failed"
            \/ status' = "interrupted" /\ stopping
<1>1. EndTurn \/ Deadline \/ Fail
  BY Changes DEF TurnOK
<1> QED BY <1>1 DEF TurnOK, EndTurn, Deadline, Fail, Finish, driverVars, turnVars, agentVars

\* No step ends a run with work left behind.
LEMMA NoWorkStep ==
  ASSUME TurnOK, [Next]_vars
  PROVE  NoWorkLeftBehind'
<1>1. CASE pc = "ended"
  BY <1>1, Changes DEF TurnOK, NoWorkLeftBehind, vars, turnVars, agentVars, Calls
<1>2. CASE pc # "ended" /\ status' = "running"
  BY <1>2 DEF NoWorkLeftBehind
<1>3. CASE pc # "ended" /\ status' # "running" /\ status' \in {"completed", "cancelled"}
  <2>1. Settled /\ pc = "turn" /\ UNCHANGED <<working, mailbox, call, generation, open>>
    BY <1>3, EndsSettled
  <2>2. Calls = {} /\ ~working /\ mailbox = <<>> /\ generation \notin open
    BY <1>3, <2>1, Settles DEF TurnOK, Settled
  <2> QED BY <2>1, <2>2 DEF NoWorkLeftBehind, Calls
<1> QED BY <1>1, <1>2, <1>3 DEF NoWorkLeftBehind

\* TurnOK is inductive.
LEMMA TurnStep ==
  ASSUME TurnOK, [Next]_vars
  PROVE  TurnOK'
<1>1. TypeOK' /\ NoWorkLeftBehind'
  BY TypeStep, NoWorkStep
<1>2. ASSUME pc' # "ended"
      PROVE  status' = "running" /\ TurnState' /\ \A e \in FollowUps : FollowUpOK(e)'
  <2>1. pc # "ended"
    BY <1>2, Changes DEF vars
  <2>2. status' = "running"
    BY <1>2, <2>1, EndsSettled
  <2>3. Distinct' /\ Draining' /\ NothingElse' /\ Phases'
    BY <1>2, <2>1, DistinctStep, DrainingStep, NothingElseStep, PhasesStep
  <2>4. \A e \in FollowUps : FollowUpOK(e)'
    BY <1>2, FollowUpStep
  <2> QED BY <2>2, <2>3, <2>4 DEF TurnState
<1> QED BY <1>1, <1>2 DEF TurnOK

\* A turn has begun with nothing on its way.
LEMMA TurnInit ==
  ASSUME Init
  PROVE  TurnOK
<1> USE TurnAssumption DEF Init
<1>1. TypeOK
  <2>1. <<>> \in Seq(FollowUps) /\ <<>> \in Seq(FollowUps \cup {"cancel"}) /\ <<>> \in Seq(FollowUps \cup {"info"})
    OBVIOUS
  <2>2. replies \in Seq([generation : 0..generation, status : Statuses])
    BY EmptySeq
  <2>3. stops \in 0..MaxStops /\ mode \in Modes /\ open \subseteq 0..generation
    BY DEF TurnAssumption
  <2> QED BY <2>1, <2>2, <2>3 DEF TypeOK, Statuses
<1>2. Waiting = {} /\ Kept = {} /\ Boxed = {} /\ Given = {} /\ ToSet(mailbox) = {} /\ ToSet(commands) = {}
  BY DEF Waiting, Kept, Boxed, Given, ToSet
<1>3. Distinct
  BY DEF Distinct, Once
<1>4. Phases
  BY <1>2 DEF Phases, Calls
<1>5. Draining
  BY <1>2 DEF Draining
<1>6. NothingElse
  BY DEF NothingElse, Answered
<1>7. \A e \in FollowUps : FollowUpOK(e)
  BY <1>2 DEF FollowUpOK
<1> QED BY <1>1, <1>3, <1>4, <1>5, <1>6, <1>7 DEF TurnOK, TurnState, NoWorkLeftBehind

\* The inductive invariant holds throughout: wherever a follow-up is, it is
\* where FollowUpOK says, and the turn is as far as TurnState says.
THEOREM TurnCorrect == Spec => []TurnOK
<1>1. Init => TurnOK
  BY TurnInit
<1>2. TurnOK /\ [Next]_vars => TurnOK'
  BY TurnStep
<1> QED BY <1>1, <1>2, PTL DEF Spec

\* The locals of the loop and what the agent holds keep their types.
THEOREM TurnTypeCorrect == Spec => []TypeOK
<1>1. TurnOK => TypeOK
  BY DEF TurnOK
<1> QED BY <1>1, TurnCorrect, PTL

\* A run that ends completed or cancelled leaves an agent with nothing to do.
THEOREM NoWorkCorrect == Spec => []NoWorkLeftBehind
<1>1. TurnOK => NoWorkLeftBehind
  BY DEF TurnOK
<1> QED BY <1>1, TurnCorrect, PTL

\* Once a run is stopping it submits no further prompt and stays stopping.
THEOREM StopIsFinalCorrect == Spec => StopIsFinal
<1>1. TurnOK /\ [Next]_vars => [stopping => stopping' /\ prompts' = prompts]_vars
  <2> SUFFICES ASSUME TurnOK, [Next]_vars, stopping, vars' # vars
               PROVE  stopping' /\ prompts' = prompts
    OBVIOUS
  <2>1. pc = "turn"
    BY Changes DEF TurnOK, TurnState, Phases
  <2>2. ~Ready /\ ~AppendPrompt
    BY <2>1 DEF Ready, AppendPrompt
  <2>3. stopping'
    BY <2>2, Changes DEF TakeCancel
  <2>4. prompts' = prompts
    BY <2>2, Changes DEF TakeSteer
  <2> QED BY <2>3, <2>4
<1> QED BY <1>1, TurnCorrect, PTL DEF Spec, StopIsFinal

-----------------------------------------------------------------------------
(* What the journal relies on *)

\* The agent is given follow-ups it was not given before.
LEMMA Gives ==
  ASSUME TurnOK, [Next]_vars, pc # "ended", pc' # "ended", given' # given,
         UNCHANGED <<posted, reported, stops, status>>
  PROVE  Contract!Give
<1>0. TypeOK /\ TypeOK' /\ TurnOK' /\ Distinct'
  BY TurnStep DEF TurnOK, TurnState
<1>t. /\ given \in Seq(FollowUps) /\ given' \in Seq(FollowUps) /\ steering \in Seq(FollowUps)
      /\ mailbox \in Seq(Box)
  BY <1>0 DEF TypeOK, Box
<1>1. \E t \in Seq(FollowUps) : given' = given \o t
  <2>1. ASSUME NEW e \in FollowUps, given' = Append(given, e)
        PROVE  given' = given \o <<e>> /\ <<e>> \in Seq(FollowUps)
    BY <1>t, <2>1, AppendIsConcat
  <2>2. ASSUME NEW e \in FollowUps, TakeSteer(e)
        PROVE  given' = given \o <<e>> /\ <<e>> \in Seq(FollowUps)
    BY <2>2 DEF TakeSteer, SteerAfterTurn, SteerByPrompt, SteerByCall, Submit
  <2>3. ASSUME NEW e \in FollowUps, AgentSteers(e)
        PROVE  given' = Append(given, e)
    BY <2>3 DEF AgentSteers
  <2>4. CASE AgentReadsInterjection
    BY <2>1, <2>4 DEF AgentReadsInterjection
  <2>5. CASE Ready \/ AppendPrompt
    <3>1. given' = given \o steering \/ given' = given \o <<>>
      BY <2>5 DEF Ready, AppendPrompt, StartTurn, Submit
    <3> QED BY <1>t, <3>1, EmptySeq
  <2> QED BY <2>1, <2>2, <2>3, <2>4, <2>5, Changes
<1>2. PICK t \in Seq(FollowUps) : given' = given \o t
  BY <1>1
<1>3. Len(given) < Len(given') /\ given = SubSeq(given', 1, Len(given))
  <2>1. t # <<>>
    BY <1>t, <1>2, ConcatEmptySeq
  <2>2. Len(t) \in Nat \ {0} /\ Len(given) \in Nat
    BY <1>t, <1>2, <2>1, EmptySeq
  <2>3. Len(given') = Len(given) + Len(t)
    BY <1>t, <1>2
  <2>4. given = SubSeq(given \o t, 1, Len(given))
    BY <1>t, <1>2
  <2>5. given = SubSeq(given', 1, Len(given))
    BY <1>2, <2>4, Zenon
  <2>6. Len(given) < Len(given')
    BY <2>2, <2>3
  <2> QED BY <2>5, <2>6
<1>4. Contract!NoRepeats(given')
  <2>1. \A i \in DOMAIN given' : given'[i] \in FollowUps
    BY <1>t
  <2> QED BY <1>0, <2>1 DEF Distinct, Once, Contract!NoRepeats
<1>5. Contract!Elements(given') \subseteq posted
  <2>1. Contract!Elements(given') = Given'
    BY DEF Contract!Elements, Given, ToSet
  <2>2. \A x \in Given' : x \in FollowUps
    BY <1>t DEF Given, ToSet
  <2>3. \A e \in FollowUps : FollowUpOK(e)'
    BY <1>0 DEF TurnOK
  <2> QED BY <2>1, <2>2, <2>3 DEF FollowUpOK
<1> QED BY <1>3, <1>4, <1>5 DEF Contract!Give

\* What is reported was posted and had not been reported.
LEMMA Reports ==
  ASSUME TurnOK, [Next]_vars, pc # "ended", pc' # "ended", reported' # reported,
         UNCHANGED <<posted, given, stops, status>>
  PROVE  \E S \in SUBSET FollowUps : Contract!Report(S)
<1>1. reported \subseteq reported'
  BY Changes DEF TakeAnswer, TakeQueued, TakeResponse, AppendReport
<1>2. TypeOK' /\ \A e \in FollowUps : FollowUpOK(e)'
  BY TurnStep DEF TurnOK
<1>3. reported' \subseteq FollowUps
  BY <1>2 DEF TypeOK
<1>4. reported' \subseteq posted
  BY <1>2, <1>3 DEF FollowUpOK
<1>5. Contract!Report(reported' \ reported)
  BY <1>1, <1>4 DEF Contract!Report
<1> QED BY <1>3, <1>5

\* Every step of the worker and its agent is a step of the contract.
LEMMA ContractStep ==
  ASSUME TurnOK, [Next]_vars
  PROVE  [Contract!Next]_<<posted, given, reported, stops > 0, status>>
<1>1. CASE pc = "ended"
  BY <1>1, Changes DEF vars, driverVars, agentVars
<1>2. CASE pc # "ended" /\ status' # "running"
  <2>1. status = "running" /\ UNCHANGED <<posted, stops, reported, given>>
    BY <1>2, EndsSettled DEF TurnOK
  <2>2. CASE Settled /\ pc = "turn"
    <3>1. Given = reported
      BY <1>2, <2>2, Settles DEF TurnOK
    <3>2. Contract!Elements(given) = reported
      BY <3>1 DEF Contract!Elements, Given, ToSet
    <3>3. EndTurn \/ Deadline \/ Fail
      BY <1>2, Changes DEF TurnOK
    <3>4. ~Deadline /\ (EndTurn => status' \in {"completed", "failed", "cancelled"}) /\ (Fail => status' = "failed")
      BY <1>2, <2>2 DEF TurnOK, TypeOK, Statuses, EndTurn, Deadline, Selects, Settled, Fail, Finish
    <3> QED BY <2>1, <3>2, <3>3, <3>4 DEF Contract!Next, Contract!Finish, Contract!Terminal
  <2>3. CASE status' = "failed"
    BY <2>1, <2>3 DEF Contract!Next, Contract!Finish, Contract!Terminal
  <2>4. CASE status' = "interrupted" /\ stopping
    <3>1. stops > 0
      BY <1>2, <2>4 DEF TurnOK, TurnState, Phases
    <3> QED BY <2>1, <2>4, <3>1 DEF Contract!Next, Contract!Finish, Contract!Terminal
  <2> QED BY <1>2, <2>2, <2>3, <2>4, EndsSettled
<1>3. CASE pc # "ended" /\ status' = "running"
  <2>0. status = "running" /\ stops \in Nat /\ pc' # "ended"
    <3>1. status = "running" /\ stops \in Nat /\ outcome \in Statuses \cup {None}
      BY <1>3 DEF TurnOK, TypeOK
    <3>2. EndTurn => pc' # "ended"
      BY <1>3, <3>1 DEF EndTurn, Settled, Finish, Statuses
    <3>3. ~Deadline /\ ~Fail
      BY <1>3 DEF Deadline, Fail, Finish
    <3>4. Ready \/ AppendPrompt => pc' # "ended"
      BY DEF Ready, AppendPrompt, StartTurn
    <3> QED BY <1>3, <3>1, <3>2, <3>3, <3>4, Changes
  <2>1. CASE \E e \in FollowUps : PostSteer(e)
    BY <2>0, <2>1 DEF PostSteer, agentVars, Contract!Next, Contract!Post
  <2>2. CASE PostCancel
    BY <2>0, <2>2 DEF PostCancel, agentVars, Contract!Next, Contract!Stop
  <2>3. CASE given' # given
    <3>1. UNCHANGED <<posted, reported, stops, status>>
      <4>1. ASSUME NEW e \in FollowUps, TakeSteer(e)
            PROVE  UNCHANGED <<posted, reported, stops, status>>
        BY <4>1 DEF TakeSteer, SteerAfterTurn, SteerByPrompt, SteerByCall, driverVars
      <4>2. ASSUME NEW e \in FollowUps, AgentSteers(e)
            PROVE  UNCHANGED <<posted, reported, stops, status>>
        BY <4>2 DEF AgentSteers, driverVars
      <4>3. CASE AgentReadsInterjection \/ Ready \/ AppendPrompt
        BY <4>3 DEF AgentReadsInterjection, Ready, AppendPrompt, StartTurn, driverVars
      <4> QED BY <2>3, <4>1, <4>2, <4>3, Changes
    <3> QED BY <1>3, <2>0, <2>3, <3>1, Gives DEF Contract!Next
  <2>4. CASE given' = given /\ reported' # reported
    <3>1. UNCHANGED <<posted, stops, status>>
      BY <1>3, <2>0, <2>4, Changes DEF TakeAnswer, TakeQueued, TakeResponse, AppendReport, driverVars
    <3> QED BY <1>3, <2>0, <2>4, <3>1, Reports DEF Contract!Next
  <2>5. CASE UNCHANGED <<given, reported, posted, stops, status>>
    BY <2>5
  <2> QED BY <1>3, <2>0, <2>1, <2>2, <2>3, <2>4, <2>5, Changes
<1> QED BY <1>1, <1>2, <1>3

\* In every steering strategy the worker and its agent keep the contract the
\* journal relies on: no follow-up is given twice, and at a completed or
\* cancelled end the reported follow-ups are the given ones.
THEOREM ContractCorrect == Spec => Implements
<1>1. Init => Contract!Init
  BY DEF Init, Contract!Init
<1>2. TurnOK /\ [Next]_vars => [Contract!Next]_<<posted, given, reported, stops > 0, status>>
  BY ContractStep
<1> QED BY <1>1, <1>2, TurnCorrect, PTL DEF Spec, Implements, Contract!Spec

=============================================================================
