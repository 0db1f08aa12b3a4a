---------------------------- MODULE AgentContract ----------------------------
(***************************************************************************)
(* What the journal relies on when a worker steers an agent (README.md,    *)
(* "Follow-ups and providers"), whichever strategy is configured.  The     *)
(* follow-ups of a run are given to the agent at most once each, and when  *)
(* the run ends completed or cancelled, exactly those reported as steered  *)
(* have been given: the journal continues the others in a new run, which   *)
(* neither repeats nor loses one.  AcpTurn implements it.                  *)
(***************************************************************************)
EXTENDS Naturals, Sequences

CONSTANT FollowUps

VARIABLES
  posted,    \* follow-ups handed to the worker
  given,     \* those the agent was given, in order
  reported,  \* those reported with AgentEvent::Steered
  stopped,   \* a cancellation was handed to the worker
  status     \* "running", or what AgentEvent::Finished said

Terminal == {"completed", "failed", "cancelled", "interrupted"}

Elements(s) == {s[i] : i \in DOMAIN s}
NoRepeats(s) == \A i, j \in DOMAIN s : s[i] = s[j] => i = j

Init ==
  /\ posted = {} /\ given = <<>> /\ reported = {}
  /\ stopped = FALSE /\ status = "running"

Post(e) ==
  /\ posted' = posted \cup {e}
  /\ UNCHANGED <<given, reported, stopped, status>>

Stop == stopped' = TRUE /\ UNCHANGED <<posted, given, reported, status>>

\* The agent receives follow-ups it has not received yet.
Give ==
  /\ Len(given) < Len(given') /\ given = SubSeq(given', 1, Len(given))
  /\ NoRepeats(given') /\ Elements(given') \subseteq posted
  /\ UNCHANGED <<posted, reported, stopped, status>>

Report(S) ==
  /\ S \subseteq posted \ reported
  /\ reported' = reported \cup S
  /\ UNCHANGED <<posted, given, stopped, status>>

Finish(s) ==
  /\ s \in {"completed", "cancelled"} => Elements(given) = reported
  /\ s = "interrupted" => stopped
  /\ status' = s
  /\ UNCHANGED <<posted, given, reported, stopped>>

Next ==
  /\ status = "running"
  /\ \/ \E e \in FollowUps : Post(e)
     \/ Stop
     \/ Give
     \/ \E S \in SUBSET FollowUps : Report(S)
     \/ \E s \in Terminal : Finish(s)

Spec == Init /\ [][Next]_<<posted, given, reported, stopped, status>>
=============================================================================
