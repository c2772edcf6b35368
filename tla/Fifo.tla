--------------------------------- MODULE Fifo ---------------------------------
(***************************************************************************)
(* What queues between threads promise: from each of them values come out  *)
(* in the order in which they were put, none lost, none twice.             *)
(* MpscPollableQueue.tla implements this.                                  *)
(***************************************************************************)
EXTENDS Sequences

CONSTANTS Queues, Values

VARIABLE queue

Init == queue = [q \in Queues |-> <<>>]

Put(q, v) == queue' = [queue EXCEPT ![q] = Append(@, v)]

Get(q) == queue[q] # <<>> /\ queue' = [queue EXCEPT ![q] = Tail(@)]

Next == \E q \in Queues : Get(q) \/ \E v \in Values : Put(q, v)

Spec == Init /\ [][Next]_queue
=============================================================================
