-------------------------- MODULE MpscPollableQueue --------------------------
(***************************************************************************)
(* tdutils/td/utils/MpscPollableQueue.h: the inbound queue of a scheduler. *)
(* Any thread puts values into it; the one thread that owns it takes them  *)
(* out, and sleeps in epoll_wait when it is empty.  A writer wakes the     *)
(* owner through an eventfd, but only when the owner said that it is about *)
(* to sleep (wait_event_fd_), and it does so after it has released the     *)
(* lock.                                                                   *)
(*                                                                         *)
(* Between a write to the eventfd and the owner's loop() there are three   *)
(* more memories of the wake-up, each of which could swallow it: the       *)
(* counter of the eventfd, which EventFdLinux::acquire resets; the edge    *)
(* that epoll keeps (EPOLLET, Epoll.cpp), and the flag Read in             *)
(* PollFlagsSet::to_write_, which notifies the observer only when it was   *)
(* not set yet.                                                            *)
(*                                                                         *)
(* The owner is Scheduler::ServiceActor: its loop() reads the queue until  *)
(* it is empty and then waits to be notified.  One module describes all    *)
(* the queues of a ConcurrentScheduler.                                    *)
(***************************************************************************)
EXTENDS Naturals, Sequences

CONSTANTS
  Queues,    \* the schedulers: each owns one queue
  Threads,   \* all who write: schedulers, and threads without actors
  Values

ASSUME QueueAssumption == Queues \subseteq Threads

VARIABLES
  writer_vector,  \* values put and not yet taken over by the owner
  reader_vector,  \* values taken over: from reader_pos_ on
  wait_event_fd,  \* the next writer has to wake the owner
  releasing,      \* the queue whose event_fd_ a thread is about to release,
                  \* the lock already given back: at most one
  event_fd,       \* the counter of the eventfd is not zero
  epoll_edge,     \* epoll has noted a write since its last epoll_wait
  to_write,       \* Read is set in PollFlagsSet::to_write_
  service         \* what ServiceActor does: see below

queueVars == <<writer_vector, reader_vector, wait_event_fd, releasing, event_fd,
               epoll_edge, to_write, service>>

(* "notified": an event (Start or Yield) is in its mailbox, loop() will run *)
(* "second":   between the two rounds of reader_wait_nonblock               *)
(* "reading":  loop() works through reader_vector                           *)
(* "waiting":  loop() has returned, nothing is in its mailbox               *)
ServiceStates == {"notified", "second", "reading", "waiting"}

QueueInit ==
  /\ writer_vector = [q \in Queues |-> <<>>]
  /\ reader_vector = [q \in Queues |-> <<>>]
  /\ wait_event_fd = [q \in Queues |-> FALSE]
  /\ releasing = [t \in Threads |-> {}]
  /\ event_fd = [q \in Queues |-> FALSE]
  /\ epoll_edge = [q \in Queues |-> FALSE]
  /\ to_write = [q \in Queues |-> FALSE]
  /\ service = [q \in Queues |-> "notified"]
-----------------------------------------------------------------------------
(* writer_put up to the end of its critical section *)
WriterPut(t, q, v) ==
  /\ releasing[t] = {}
  /\ writer_vector' = [writer_vector EXCEPT ![q] = Append(@, v)]
  /\ wait_event_fd' = [wait_event_fd EXCEPT ![q] = FALSE]
  /\ releasing' = [releasing EXCEPT ![t] = IF wait_event_fd[q] THEN {q} ELSE {}]
  /\ UNCHANGED <<reader_vector, event_fd, epoll_edge, to_write, service>>

(* the rest of writer_put: event_fd_.release().  The kernel counts, and    *)
(* notes an edge for epoll.                                                *)
WriterRelease(t) ==
  \E q \in releasing[t] :
    /\ releasing' = [releasing EXCEPT ![t] = {}]
    /\ event_fd' = [event_fd EXCEPT ![q] = TRUE]
    /\ epoll_edge' = [epoll_edge EXCEPT ![q] = TRUE]
    /\ UNCHANGED <<writer_vector, reader_vector, wait_event_fd, to_write, service>>
-----------------------------------------------------------------------------
(* the values are copied: those put before are there again *)
TakeOver_Copy(q) ==
  /\ reader_vector' = [reader_vector EXCEPT ![q] = writer_vector[q]]
  /\ service' = [service EXCEPT ![q] = "reading"]
  /\ UNCHANGED <<writer_vector, wait_event_fd, releasing, event_fd, epoll_edge, to_write>>

(* swap(writer_vector_, reader_vector_) *)
TakeOver(q) ==
  /\ reader_vector' = [reader_vector EXCEPT ![q] = writer_vector[q]]
  /\ writer_vector' = [writer_vector EXCEPT ![q] = <<>>]
  /\ service' = [service EXCEPT ![q] = "reading"]
  /\ UNCHANGED <<wait_event_fd, releasing, event_fd, epoll_edge, to_write>>

(* the flag is read without being flushed: to_write_ keeps Read *)
Acquire_NoFlush(q) ==
  /\ event_fd' = [event_fd EXCEPT ![q] = FALSE]
  /\ UNCHANGED to_write

(* EventFdLinux::acquire: get_flags() flushes to_write_, the counter is    *)
(* read, and with that reset, and Read is cleared                          *)
Acquire(q) ==
  /\ event_fd' = [event_fd EXCEPT ![q] = FALSE]
  /\ to_write' = [to_write EXCEPT ![q] = FALSE]

(* reader_wait_nonblock, first round, under the lock. Its early return for *)
(* values that are still unread (lines 27-30) is left out: the only reader *)
(* asks again only when it has read all it was told of                     *)
ReaderFirst(q) ==
  /\ service[q] = "notified"
  /\ \/ /\ writer_vector[q] # <<>>
        /\ TakeOver(q)
     \/ /\ writer_vector[q] = <<>>
        /\ Acquire(q)
        /\ service' = [service EXCEPT ![q] = "second"]
        /\ UNCHANGED <<writer_vector, reader_vector, wait_event_fd, releasing, epoll_edge>>

(* the second round trusts the first: it does not look at the values again *)
ReaderSecond_Blind(q) ==
  /\ service[q] = "second"
  /\ wait_event_fd' = [wait_event_fd EXCEPT ![q] = TRUE]
  /\ service' = [service EXCEPT ![q] = "waiting"]
  /\ UNCHANGED <<writer_vector, reader_vector, releasing, event_fd, epoll_edge, to_write>>

(* reader_wait_nonblock, second round: the owner will sleep only if there  *)
(* is still nothing                                                        *)
ReaderSecond(q) ==
  /\ service[q] = "second"
  /\ \/ /\ writer_vector[q] # <<>>
        /\ TakeOver(q)
     \/ /\ writer_vector[q] = <<>>
        /\ wait_event_fd' = [wait_event_fd EXCEPT ![q] = TRUE]
        /\ service' = [service EXCEPT ![q] = "waiting"]
        /\ UNCHANGED <<writer_vector, reader_vector, releasing, event_fd, epoll_edge, to_write>>

(* reader_get_unsafe *)
ReaderGet(q) ==
  /\ service[q] = "reading"
  /\ reader_vector[q] # <<>>
  /\ reader_vector' = [reader_vector EXCEPT ![q] = Tail(@)]
  /\ UNCHANGED <<writer_vector, wait_event_fd, releasing, event_fd, epoll_edge,
                 to_write, service>>

(* loop() counts one value too few *)
ReaderYield_OneEarly(q) ==
  /\ service[q] = "reading"
  /\ Len(reader_vector[q]) < 2
  /\ service' = [service EXCEPT ![q] = "notified"]
  /\ UNCHANGED <<writer_vector, reader_vector, wait_event_fd, releasing, event_fd,
                 epoll_edge, to_write>>

(* the end of ServiceActor::loop: yield() *)
ReaderYield(q) ==
  /\ service[q] = "reading"
  /\ reader_vector[q] = <<>>
  /\ service' = [service EXCEPT ![q] = "notified"]
  /\ UNCHANGED <<writer_vector, reader_vector, wait_event_fd, releasing, event_fd,
                 epoll_edge, to_write>>

(* Epoll::run: an edge is reported if the eventfd can still be read, and   *)
(* forgotten in any case; the ServiceActor is notified if the flag is new  *)
EpollRun(q) ==
  /\ service[q] = "waiting"
  /\ epoll_edge[q]
  /\ epoll_edge' = [epoll_edge EXCEPT ![q] = FALSE]
  /\ to_write' = [to_write EXCEPT ![q] = @ \/ event_fd[q]]
  /\ service' = [service EXCEPT ![q] =
                   IF event_fd[q] /\ ~to_write[q] THEN "notified" ELSE "waiting"]
  /\ UNCHANGED <<writer_vector, reader_vector, wait_event_fd, releasing, event_fd>>

QueueNext ==
  \/ \E t \in Threads, q \in Queues, v \in Values : WriterPut(t, q, v)
  \/ \E t \in Threads : WriterRelease(t)
  \/ \E q \in Queues : \/ ReaderFirst(q) \/ ReaderSecond(q) \/ ReaderGet(q)
                       \/ ReaderYield(q) \/ EpollRun(q)

QueueSpec == QueueInit /\ [][QueueNext]_queueVars
-----------------------------------------------------------------------------
(* Types of the queue's variables. *)
QueueTypeOK ==
  /\ writer_vector \in [Queues -> Seq(Values)]
  /\ reader_vector \in [Queues -> Seq(Values)]
  /\ wait_event_fd \in [Queues -> BOOLEAN]
  /\ releasing \in [Threads -> SUBSET Queues]
  /\ event_fd \in [Queues -> BOOLEAN]
  /\ epoll_edge \in [Queues -> BOOLEAN]
  /\ to_write \in [Queues -> BOOLEAN]
  /\ service \in [Queues -> ServiceStates]

(***************************************************************************)
(* No wake-up is lost: when the owner of a queue sleeps although a value   *)
(* is in it, then the wake-up is on its way: a writer is about to release  *)
(* the eventfd, or the next epoll_wait will report it and the ServiceActor *)
(* will be notified.  (A poll that times out does not read the queue, so a *)
(* wake-up lost here would leave the values there until the next writer.)  *)
(***************************************************************************)
NoLostWakeUp ==
  \A q \in Queues :
    service[q] = "waiting" /\ writer_vector[q] # <<>> =>
      \/ \E t \in Threads : q \in releasing[t]
      \/ epoll_edge[q] /\ event_fd[q] /\ ~to_write[q]

Contents == [q \in Queues |-> reader_vector[q] \o writer_vector[q]]

Promise == INSTANCE Fifo WITH queue <- Contents

(***************************************************************************)
(* Every inbound queue is a FIFO queue for all its writers together: the   *)
(* swap of the two vectors under the lock neither loses nor reorders a     *)
(* value.                                                                  *)
(***************************************************************************)
QueuesAreFifo == Promise!Spec
=============================================================================
