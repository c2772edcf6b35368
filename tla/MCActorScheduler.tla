--------------------------- MODULE MCActorScheduler ---------------------------
(* A model checking instance of ActorScheduler: two schedulers, an actor     *)
(* created on each, one of which always waits for its mailbox, and a thread  *)
(* without actors.                                                           *)
EXTENDS ActorScheduler

CONSTANTS s1, s2, c1, a1, a2

HomeOfActors == [a \in Actors |-> IF a = a1 THEN s1 ELSE s2]
=============================================================================
