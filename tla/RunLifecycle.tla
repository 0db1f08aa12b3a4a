---------------------------- MODULE RunLifecycle ----------------------------
(***************************************************************************)
(* What the bridge promises about runs (ARCHITECTURE.md, "one run at a     *)
(* time in each conversation"), without saying how: a run belongs to one   *)
(* conversation for ever, its status only moves along the edges below, and *)
(* a conversation never has two active runs.  Bridge implements it.        *)
(***************************************************************************)
CONSTANTS RunIds, Conversations, None

VARIABLES
  status,  \* RunStatus of model.rs, or "none" before the run exists
  owner    \* the conversation of a run

Active   == {"queued", "running", "waiting_approval", "cancelling"}
Terminal == {"completed", "failed", "cancelled", "interrupted"}

\* The statuses a run may move to from each status; a terminal one is final.
NextStatus(s) ==
  CASE s = "none"             -> {"queued"}
    [] s = "queued"           -> {"running", "cancelling"} \cup Terminal
    [] s = "running"          -> {"waiting_approval", "cancelling"} \cup Terminal
    [] s = "waiting_approval" -> {"running", "cancelling"} \cup Terminal
    [] s = "cancelling"       -> Terminal
    [] OTHER                  -> {}

Exclusive(st, ow) ==
  \A r, q \in RunIds :
    st[r] \in Active /\ st[q] \in Active /\ ow[r] = ow[q] => r = q

Init ==
  /\ status = [r \in RunIds |-> "none"]
  /\ owner = [r \in RunIds |-> None]

Next ==
  /\ status' \in [RunIds -> Active \cup Terminal \cup {"none"}]
  /\ owner' \in [RunIds -> Conversations \cup {None}]
  /\ \A r \in RunIds :
       /\ status'[r] # status[r] => status'[r] \in NextStatus(status[r])
       /\ status[r] # "none" => owner'[r] = owner[r]
  /\ Exclusive(status', owner')

Spec == Init /\ [][Next]_<<status, owner>>
=============================================================================
