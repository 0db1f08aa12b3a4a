------------------------------ MODULE MCLedger ------------------------------
(* Small instances of ContextLedger for TLC. *)
EXTENDS ContextLedger, TLC

CONSTANTS c1, room, e1, e2, e3, o1

OneConv  == {c1}
OneRoom  == [c \in Conversations |-> room]
AllInOne == [e \in Events |-> c1]

\* A message, a reader's and another in its thread, and one outside of it that
\* replies to the first and has only the last of these in its surroundings.
RoomInOrder == [x \in Rooms |-> <<e1, o1, e2, e3>>]
Threads     == [m \in Messages |-> IF m \in {o1, e2} THEN e1 ELSE None]
Replies     == [m \in Messages |-> IF m = e3 THEN e1 ELSE None]

Symmetry == Permutations(RunIds) \cup Permutations(Policies)
=============================================================================
