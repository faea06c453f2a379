--------------------------- MODULE MCAnswerCache ---------------------------
(***************************************************************************)
(* Three requests, two of them of one conversation, and three questions:   *)
(* two that are close, and one that asks about today.                      *)
(***************************************************************************)
EXTENDS AnswerCache

CONSTANTS r1, r2, r3, s1, s2, q1, q2, q3, a1, a2

MCSessionOf == [r \in Run |-> IF r = r3 THEN s2 ELSE s1]
MCScore == [p \in Question |-> [q \in Question |->
             IF p = q THEN 100 ELSE IF {p, q} = {q1, q2} THEN 85 ELSE 84]]
=============================================================================
