------------------------------ MODULE MCBridge ------------------------------
(* Small instances of Bridge for TLC. *)
EXTENDS Bridge, TLC

CONSTANTS c1, c2, e1, e2, e3, room

OneRoom  == [c \in Conversations |-> room]
TwoConvs == {c1, c2}
E2Apart  == [e \in Events |-> IF e = e2 THEN c2 ELSE c1]

\* e1 and e3 fall into the same conversation with E2Apart.
ApartSymmetry == Permutations(RunIds) \cup Permutations(Requests) \cup Permutations(Events \ {e2})
=============================================================================
