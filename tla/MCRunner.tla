------------------------------ MODULE MCRunner ------------------------------
(* Small instances of Runner for TLC. *)
EXTENDS Runner, TLC

CONSTANTS c1, c2, c3, e1, e2, e3, e4, e5, e6, room

OneConv    == {c1}
ThreeConvs == {c1, c2, c3}
OneRoom    == [c \in Conversations |-> room]
AllInOne   == [e \in Events |-> c1]
Apart      == [e \in Events |-> CASE e \in {e1, e3, e6} -> c1 [] e = e2 -> c2 [] OTHER -> c3]

Arrivals(E) == [messages |-> E, commands |-> {}, publishes |-> {}, restarts |-> 0]

\* Messages only, of two conversations or of one, or a request for permission
\* with a command of the operator, through a restart.
TurnsOrApprovals ==
  { Arrivals({e1, e2, e3}),
    Arrivals({e1, e3, e6}),
    [messages |-> {e4}, commands |-> {e5}, publishes |-> {"text", "tool", "permission"}, restarts |-> 1] }

MessagesOnly == {Arrivals(Events)}

\* e1 and e3 come together in every workload.
Symmetry == Permutations(RunIds) \cup Permutations({e1, e3})
=============================================================================
