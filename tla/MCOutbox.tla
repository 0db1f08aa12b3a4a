------------------------------ MODULE MCOutbox ------------------------------
(* Small instances of Outbox for TLC. *)
EXTENDS Outbox, TLC

CONSTANTS c1, c2, t1, m1, s1

TwoConvs == {c1, c2}
Together == [x \in Texts \cup Messages \cup Sends |-> c1]
TextsApart == [x \in Texts \cup Messages \cup Sends |-> IF x \in Texts THEN c2 ELSE c1]
=============================================================================
