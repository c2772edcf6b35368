----------------------------- MODULE MCSession ------------------------------
(* An instance of Session: q2 is to be invoked after q1. *)
EXTENDS Session

CONSTANTS q1, q2

MCQueries == {q1, q2}
MCAfter == [q \in {q2} |-> q1]
=============================================================================
