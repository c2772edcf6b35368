------------------------ MODULE ActorScheduler_proofs ------------------------
(***************************************************************************)
(* Proofs about MpscPollableQueue and about ActorScheduler, which uses it. *)
(*                                                                         *)
(* The queues, for any number of queues, writers and values: no wake-up is *)
(* lost, and every queue is a FIFO queue.                                  *)
(*                                                                         *)
(* The schedulers, for any number of schedulers, threads, actors and       *)
(* events: they use their inbound queues as MpscPollableQueue specifies,   *)
(* an actor runs only where it lives, a migrating actor arrives exactly    *)
(* once, every event is in exactly one place, and the events of one sender *)
(* to one actor that stays are handled in order.                           *)
(***************************************************************************)
EXTENDS ActorScheduler, SequenceTheorems, FiniteSetTheorems, TLAPS

(* MpscPollableQueue *)

(* A thread is about to release one eventfd at most. *)
OneRelease == \A t \in Threads : \A p, q \in releasing[t] : p = q

(* The owner announces its sleep only over an empty queue, and the first   *)
(* writer takes the announcement back.                                     *)
AnnouncedIsEmpty == \A q \in Queues : wait_event_fd[q] => writer_vector[q] = <<>>

(* acquire() comes before the sleep, so that Read is not set in it.        *)
FlagIsFlushed ==
  \A q \in Queues : service[q] \in {"second", "waiting"} => ~to_write[q]

(* Once the announcement is taken back, the wake-up is on its way.  This   *)
(* does not mention the values: the next writers find the announcement     *)
(* gone and rely on the first one.                                         *)
WakeUpIsUnderWay ==
  \A q \in Queues :
    service[q] = "waiting" /\ ~wait_event_fd[q] =>
      \/ \E t \in Threads : q \in releasing[t]
      \/ epoll_edge[q] /\ event_fd[q]

(* Values are taken over only when the last ones have been read.           *)
ReadBeforeTakeOver == \A q \in Queues : service[q] # "reading" => reader_vector[q] = <<>>

IInv ==
  /\ QueueTypeOK /\ OneRelease /\ AnnouncedIsEmpty /\ FlagIsFlushed
  /\ WakeUpIsUnderWay /\ ReadBeforeTakeOver
-----------------------------------------------------------------------------
LEMMA InitIInv == QueueInit => IInv
  BY DEF QueueInit, IInv, QueueTypeOK, OneRelease, AnnouncedIsEmpty, FlagIsFlushed,
         WakeUpIsUnderWay, ReadBeforeTakeOver, ServiceStates

LEMMA WriterPutKeeps ==
  ASSUME IInv, NEW t \in Threads, NEW q \in Queues, NEW v \in Values, WriterPut(t, q, v)
  PROVE  IInv'
<1> USE DEF WriterPut
<1>1. QueueTypeOK'
  BY DEF IInv, QueueTypeOK
<1>2. OneRelease'
  BY DEF IInv, QueueTypeOK, OneRelease
<1>3. AnnouncedIsEmpty'
  BY DEF IInv, QueueTypeOK, AnnouncedIsEmpty
<1>4. FlagIsFlushed'
  BY DEF IInv, FlagIsFlushed
<1>5. WakeUpIsUnderWay'
  <2> SUFFICES ASSUME NEW p \in Queues, service[p] = "waiting", ~wait_event_fd'[p],
                      ~(epoll_edge[p] /\ event_fd[p])
               PROVE  \E u \in Threads : p \in releasing'[u]
    BY DEF WakeUpIsUnderWay
  <2>1. CASE p = q /\ wait_event_fd[q]
    <3>1. q \in releasing'[t]
      BY <2>1 DEF IInv, QueueTypeOK
    <3> QED
      BY <3>1, <2>1
  <2>2. CASE ~wait_event_fd[p]
    <3>1. PICK u \in Threads : p \in releasing[u]
      BY <2>2 DEF IInv, WakeUpIsUnderWay
    <3>2. u # t
      BY <3>1
    <3> QED
      BY <3>1, <3>2 DEF IInv, QueueTypeOK
  <2>3. wait_event_fd[p] => p = q
    BY DEF IInv, QueueTypeOK
  <2> QED
    BY <2>1, <2>2, <2>3
<1>6. ReadBeforeTakeOver'
  BY DEF IInv, ReadBeforeTakeOver
<1> QED
  BY <1>1, <1>2, <1>3, <1>4, <1>5, <1>6 DEF IInv

LEMMA WriterReleaseKeeps ==
  ASSUME IInv, NEW t \in Threads, WriterRelease(t)
  PROVE  IInv'
<1>1. PICK q \in releasing[t] :
        /\ releasing' = [releasing EXCEPT ![t] = {}]
        /\ event_fd' = [event_fd EXCEPT ![q] = TRUE]
        /\ epoll_edge' = [epoll_edge EXCEPT ![q] = TRUE]
        /\ UNCHANGED <<writer_vector, reader_vector, wait_event_fd, to_write, service>>
  BY DEF WriterRelease
<1>2. q \in Queues
  BY DEF IInv, QueueTypeOK
<1>3. QueueTypeOK'
  BY <1>1, <1>2 DEF IInv, QueueTypeOK
<1>4. OneRelease'
  BY <1>1 DEF IInv, QueueTypeOK, OneRelease
<1>5. AnnouncedIsEmpty' /\ FlagIsFlushed' /\ ReadBeforeTakeOver'
  BY <1>1 DEF IInv, AnnouncedIsEmpty, FlagIsFlushed, ReadBeforeTakeOver
<1>6. WakeUpIsUnderWay'
  <2> SUFFICES ASSUME NEW p \in Queues, service[p] = "waiting", ~wait_event_fd[p]
               PROVE  \/ \E u \in Threads : p \in releasing'[u]
                      \/ epoll_edge'[p] /\ event_fd'[p]
    BY <1>1 DEF WakeUpIsUnderWay
  <2>1. CASE p = q
    BY <1>1, <1>2, <2>1 DEF IInv, QueueTypeOK
  <2>2. CASE p # q
    <3>1. p \notin releasing[t]
      BY <2>2 DEF IInv, OneRelease
    <3>2. CASE epoll_edge[p] /\ event_fd[p]
      BY <1>1, <2>2, <3>2 DEF IInv, QueueTypeOK
    <3>3. CASE \E u \in Threads : p \in releasing[u]
      <4>1. PICK u \in Threads : p \in releasing[u]
        BY <3>3
      <4>2. p \in releasing'[u]
        BY <1>1, <3>1, <4>1 DEF IInv, QueueTypeOK
      <4> QED
        BY <4>2
    <3> QED
      BY <3>2, <3>3 DEF IInv, WakeUpIsUnderWay
  <2> QED
    BY <2>1, <2>2
<1> QED
  BY <1>3, <1>4, <1>5, <1>6 DEF IInv

(* The owner's steps; they leave alone what the threads are about to do.   *)
LEMMA TakeOverKeeps ==
  ASSUME IInv, NEW q \in Queues, TakeOver(q), writer_vector[q] # <<>>
  PROVE  IInv'
<1> USE DEF TakeOver
<1>1. QueueTypeOK'
  BY DEF IInv, QueueTypeOK, ServiceStates
<1>2. OneRelease' /\ AnnouncedIsEmpty'
  BY DEF IInv, QueueTypeOK, OneRelease, AnnouncedIsEmpty
<1>3. FlagIsFlushed' /\ WakeUpIsUnderWay'
  BY DEF IInv, QueueTypeOK, FlagIsFlushed, WakeUpIsUnderWay
<1>4. ReadBeforeTakeOver'
  BY DEF IInv, QueueTypeOK, ReadBeforeTakeOver
<1> QED
  BY <1>1, <1>2, <1>3, <1>4 DEF IInv

LEMMA ReaderKeeps ==
  ASSUME IInv, NEW q \in Queues,
         ReaderFirst(q) \/ ReaderSecond(q) \/ ReaderGet(q) \/ ReaderYield(q)
  PROVE  IInv'
<1>1. CASE (ReaderFirst(q) \/ ReaderSecond(q)) /\ writer_vector[q] # <<>>
  BY <1>1, TakeOverKeeps DEF ReaderFirst, ReaderSecond
<1>2. CASE ReaderFirst(q) /\ writer_vector[q] = <<>>
  <2> USE <1>2 DEF ReaderFirst, Acquire
  <2>1. QueueTypeOK'
    BY ZenonT(60) DEF IInv, QueueTypeOK, ServiceStates
  <2>2. OneRelease' /\ AnnouncedIsEmpty' /\ ReadBeforeTakeOver'
    BY DEF IInv, QueueTypeOK, OneRelease, AnnouncedIsEmpty, ReadBeforeTakeOver
  <2>3. FlagIsFlushed'
    BY DEF IInv, QueueTypeOK, FlagIsFlushed
  <2>4. WakeUpIsUnderWay'
    BY DEF IInv, QueueTypeOK, WakeUpIsUnderWay
  <2> QED
    BY <2>1, <2>2, <2>3, <2>4 DEF IInv
<1>3. CASE ReaderSecond(q) /\ writer_vector[q] = <<>>
  <2> USE <1>3 DEF ReaderSecond
  <2>1. QueueTypeOK'
    BY DEF IInv, QueueTypeOK, ServiceStates
  <2>2. OneRelease' /\ AnnouncedIsEmpty' /\ ReadBeforeTakeOver'
    BY DEF IInv, QueueTypeOK, OneRelease, AnnouncedIsEmpty, ReadBeforeTakeOver
  <2>3. FlagIsFlushed' /\ WakeUpIsUnderWay'
    BY DEF IInv, QueueTypeOK, FlagIsFlushed, WakeUpIsUnderWay
  <2> QED
    BY <2>1, <2>2, <2>3 DEF IInv
<1>4. CASE ReaderGet(q)
  <2> USE <1>4 DEF ReaderGet
  <2>1. QueueTypeOK'
    <3>1. Tail(reader_vector[q]) \in Seq(Values)
      BY HeadTailProperties DEF IInv, QueueTypeOK
    <3> QED
      BY <3>1 DEF IInv, QueueTypeOK
  <2>2. OneRelease' /\ AnnouncedIsEmpty' /\ FlagIsFlushed' /\ WakeUpIsUnderWay'
    BY DEF IInv, OneRelease, AnnouncedIsEmpty, FlagIsFlushed, WakeUpIsUnderWay
  <2>3. ReadBeforeTakeOver'
    BY DEF IInv, QueueTypeOK, ReadBeforeTakeOver
  <2> QED
    BY <2>1, <2>2, <2>3 DEF IInv
<1>5. CASE ReaderYield(q)
  <2> USE <1>5 DEF ReaderYield
  <2>1. QueueTypeOK' /\ OneRelease' /\ AnnouncedIsEmpty'
    BY DEF IInv, QueueTypeOK, ServiceStates, OneRelease, AnnouncedIsEmpty
  <2>2. FlagIsFlushed' /\ WakeUpIsUnderWay' /\ ReadBeforeTakeOver'
    BY DEF IInv, QueueTypeOK, FlagIsFlushed, WakeUpIsUnderWay, ReadBeforeTakeOver
  <2> QED
    BY <2>1, <2>2 DEF IInv
<1> QED
  BY <1>1, <1>2, <1>3, <1>4, <1>5

(* An edge without a counter is stale: acquire() has consumed the counter. *)
(* Then the wake-up is still with a writer.                                *)
LEMMA EpollRunKeeps ==
  ASSUME IInv, NEW q \in Queues, EpollRun(q)
  PROVE  IInv'
<1> USE DEF EpollRun
<1>1. QueueTypeOK'
  BY DEF IInv, QueueTypeOK, ServiceStates
<1>2. OneRelease' /\ AnnouncedIsEmpty' /\ ReadBeforeTakeOver'
  BY DEF IInv, QueueTypeOK, OneRelease, AnnouncedIsEmpty, ReadBeforeTakeOver
<1>3. FlagIsFlushed'
  BY DEF IInv, QueueTypeOK, FlagIsFlushed
<1>4. WakeUpIsUnderWay'
  <2> SUFFICES ASSUME NEW p \in Queues, service'[p] = "waiting", ~wait_event_fd[p]
               PROVE  \/ \E u \in Threads : p \in releasing[u]
                      \/ epoll_edge'[p] /\ event_fd[p]
    BY DEF WakeUpIsUnderWay
  <2>1. service[p] = "waiting"
    BY DEF IInv, QueueTypeOK
  <2>2. p = q => ~event_fd[p]
    BY DEF IInv, QueueTypeOK, FlagIsFlushed
  <2> QED
    BY <2>1, <2>2 DEF IInv, QueueTypeOK, WakeUpIsUnderWay
<1> QED
  BY <1>1, <1>2, <1>3, <1>4 DEF IInv

LEMMA NextIInv == IInv /\ [QueueNext]_queueVars => IInv'
<1> SUFFICES ASSUME IInv, [QueueNext]_queueVars PROVE IInv'
  OBVIOUS
<1>1. ASSUME NEW t \in Threads, NEW q \in Queues, NEW v \in Values, WriterPut(t, q, v)
      PROVE  IInv'
  BY <1>1, WriterPutKeeps
<1>2. ASSUME NEW t \in Threads, WriterRelease(t) PROVE IInv'
  BY <1>2, WriterReleaseKeeps
<1>3. ASSUME NEW q \in Queues,
             ReaderFirst(q) \/ ReaderSecond(q) \/ ReaderGet(q) \/ ReaderYield(q)
      PROVE  IInv'
  BY <1>3, ReaderKeeps
<1>4. ASSUME NEW q \in Queues, EpollRun(q) PROVE IInv'
  BY <1>4, EpollRunKeeps
<1>5. CASE UNCHANGED queueVars
  BY <1>5 DEF queueVars, IInv, QueueTypeOK, OneRelease, AnnouncedIsEmpty, FlagIsFlushed,
              WakeUpIsUnderWay, ReadBeforeTakeOver
<1> QED
  BY <1>1, <1>2, <1>3, <1>4, <1>5 DEF QueueNext

(* A sleeping owner with values has lost its announcement, so the wake-up  *)
(* is under way, and the flag that could swallow it is not set.            *)
LEMMA IInvIsEnough == IInv => NoLostWakeUp
  BY DEF IInv, NoLostWakeUp, AnnouncedIsEmpty, FlagIsFlushed, WakeUpIsUnderWay

(* writer_put, reader_wait_nonblock, the eventfd, epoll and PollFlags      *)
(* together lose no wake-up.                                               *)
THEOREM NoWakeUpIsLost == QueueSpec => []NoLostWakeUp
<1>1. IInv /\ [QueueNext]_queueVars => IInv'
  BY NextIInv
<1> QED
  BY <1>1, InitIInv, IInvIsEnough, PTL DEF QueueSpec
-----------------------------------------------------------------------------
(* Facts about sequences, for the two vectors read as one queue.           *)
LEMMA AppendToSecond ==
  ASSUME NEW S, NEW r \in Seq(S), NEW w \in Seq(S), NEW v \in S
  PROVE  r \o Append(w, v) = Append(r \o w, v)
<1>1. /\ r \o w \in Seq(S) /\ Append(w, v) \in Seq(S)
      /\ Append(r \o w, v) \in Seq(S) /\ r \o Append(w, v) \in Seq(S)
  BY ConcatProperties, AppendProperties
<1> QED
  BY <1>1, ConcatProperties, AppendProperties, SeqEqual

LEMMA TailOfFirst ==
  ASSUME NEW S, NEW r \in Seq(S), NEW w \in Seq(S), r # <<>>
  PROVE  r \o w # <<>> /\ Tail(r) \o w = Tail(r \o w)
<1>1. r \o w \in Seq(S) /\ Len(r \o w) = Len(r) + Len(w) /\ Len(r) > 0
      /\ Len(r) \in Nat /\ Len(w) \in Nat
  BY ConcatProperties, EmptySeq, LenProperties
<1>2. r \o w # <<>>
  BY <1>1
<1>3. /\ Tail(r) \in Seq(S) /\ Len(Tail(r)) = Len(r) - 1
      /\ \A i \in 1..Len(Tail(r)) : Tail(r)[i] = r[i + 1]
  BY HeadTailProperties
<1>4. /\ Tail(r \o w) \in Seq(S) /\ Len(Tail(r \o w)) = Len(r) + Len(w) - 1
      /\ \A i \in 1..Len(Tail(r \o w)) : Tail(r \o w)[i] = (r \o w)[i + 1]
  BY <1>1, <1>2, HeadTailProperties
<1>5. /\ Tail(r) \o w \in Seq(S) /\ Len(Tail(r) \o w) = Len(r) + Len(w) - 1
  BY <1>1, <1>3, ConcatProperties
<1>6. ASSUME NEW i \in 1..Len(r) + Len(w) - 1
      PROVE  (Tail(r) \o w)[i] = (r \o w)[i + 1]
  <2>1. CASE i <= Len(r) - 1
    BY <1>1, <1>3, <2>1, ConcatProperties
  <2>2. CASE i > Len(r) - 1
    BY <1>1, <1>3, <2>2, ConcatProperties
  <2> QED
    BY <1>1, <2>1, <2>2
<1> QED
  BY <1>2, <1>4, <1>5, <1>6, SeqEqual

(* Steps that leave the vectors alone leave the queue alone. *)
LEMMA SameVectors ==
  ASSUME UNCHANGED <<writer_vector, reader_vector>>
  PROVE  UNCHANGED Contents
  BY DEF Contents

LEMMA TakeOverIsSilent ==
  ASSUME IInv, NEW q \in Queues, TakeOver(q), service[q] # "reading"
  PROVE  UNCHANGED Contents
<1>1. reader_vector[q] = <<>>
  BY DEF IInv, ReadBeforeTakeOver
<1>2. ASSUME NEW p \in Queues
      PROVE  reader_vector'[p] \o writer_vector'[p] = reader_vector[p] \o writer_vector[p]
  <2>1. CASE p = q
    <3>1. /\ reader_vector'[p] = writer_vector[p] /\ writer_vector'[p] = <<>>
          /\ writer_vector[p] \in Seq(Values)
      BY <2>1 DEF TakeOver, IInv, QueueTypeOK
    <3>2. writer_vector[p] \o <<>> = <<>> \o writer_vector[p]
      BY <3>1, ConcatEmptySeq
    <3> QED
      BY <1>1, <2>1, <3>1, <3>2
  <2>2. CASE p # q
    BY <2>2 DEF TakeOver, IInv, QueueTypeOK
  <2> QED
    BY <2>1, <2>2
<1> QED
  BY <1>2 DEF Contents

LEMMA PutAppends ==
  ASSUME IInv, NEW t \in Threads, NEW q \in Queues, NEW v \in Values, WriterPut(t, q, v)
  PROVE  Contents' = [Contents EXCEPT ![q] = Append(@, v)]
<1>1. reader_vector[q] \o Append(writer_vector[q], v)
        = Append(reader_vector[q] \o writer_vector[q], v)
  BY AppendToSecond DEF IInv, QueueTypeOK
<1>2. writer_vector' = [writer_vector EXCEPT ![q] = Append(@, v)]
      /\ reader_vector' = reader_vector
  BY DEF WriterPut
<1> QED
  BY <1>1, <1>2 DEF Contents, IInv, QueueTypeOK

LEMMA GetTakesFirst ==
  ASSUME IInv, NEW q \in Queues, ReaderGet(q)
  PROVE  Contents[q] # <<>> /\ Contents' = [Contents EXCEPT ![q] = Tail(@)]
<1>1. /\ reader_vector[q] # <<>> /\ writer_vector' = writer_vector
      /\ reader_vector' = [reader_vector EXCEPT ![q] = Tail(@)]
  BY DEF ReaderGet
<1>2. /\ reader_vector[q] \o writer_vector[q] # <<>>
      /\ Tail(reader_vector[q]) \o writer_vector[q]
           = Tail(reader_vector[q] \o writer_vector[q])
  BY <1>1, TailOfFirst DEF IInv, QueueTypeOK
<1> QED
  BY <1>1, <1>2 DEF Contents, IInv, QueueTypeOK

(* Waking and sleeping leave the queue alone. *)
LEMMA OthersAreSilent ==
  ASSUME IInv, NEW q \in Queues,
         ReaderFirst(q) \/ ReaderSecond(q) \/ ReaderYield(q) \/ EpollRun(q)
  PROVE  UNCHANGED Contents
<1>1. CASE ReaderYield(q) \/ EpollRun(q)
  BY <1>1, SameVectors DEF ReaderYield, EpollRun
<1>2. CASE ReaderFirst(q) \/ ReaderSecond(q)
  <2>1. CASE TakeOver(q)
    BY <1>2, <2>1, TakeOverIsSilent DEF ReaderFirst, ReaderSecond
  <2>2. CASE ~TakeOver(q)
    BY <1>2, <2>2, SameVectors DEF ReaderFirst, ReaderSecond
  <2> QED
    BY <2>1, <2>2
<1> QED
  BY <1>1, <1>2

LEMMA StepIsFifo == IInv /\ [QueueNext]_queueVars => [Promise!Next]_Contents
<1> SUFFICES ASSUME IInv, [QueueNext]_queueVars
             PROVE  Promise!Next \/ UNCHANGED Contents
  OBVIOUS
<1>1. ASSUME NEW t \in Threads, NEW q \in Queues, NEW v \in Values, WriterPut(t, q, v)
      PROVE  Promise!Next
  <2>1. Contents' = [Contents EXCEPT ![q] = Append(@, v)]
    BY <1>1, PutAppends
  <2> QED
    BY <2>1 DEF Promise!Next, Promise!Put
<1>2. ASSUME NEW q \in Queues, ReaderGet(q) PROVE Promise!Next
  <2>1. Contents[q] # <<>> /\ Contents' = [Contents EXCEPT ![q] = Tail(@)]
    BY <1>2, GetTakesFirst
  <2> QED
    BY <2>1 DEF Promise!Next, Promise!Get
<1>3. ASSUME NEW t \in Threads, WriterRelease(t) PROVE UNCHANGED Contents
  BY <1>3, SameVectors DEF WriterRelease
<1>4. ASSUME NEW q \in Queues,
             ReaderFirst(q) \/ ReaderSecond(q) \/ ReaderYield(q) \/ EpollRun(q)
      PROVE  UNCHANGED Contents
  BY <1>4, OthersAreSilent
<1>5. CASE UNCHANGED queueVars
  BY <1>5, SameVectors DEF queueVars
<1> QED
  BY <1>1, <1>2, <1>3, <1>4, <1>5 DEF QueueNext

(* The two vectors, exchanged under the lock, are one FIFO queue per       *)
(* scheduler for all writers together.                                     *)
THEOREM ImplementsFifo == QueueSpec => QueuesAreFifo
<1>1. QueueInit => Promise!Init
  <2>1. QueueInit => \A q \in Queues : reader_vector[q] \o writer_vector[q] = <<>>
    BY ConcatEmptySeq, EmptySeq DEF QueueInit
  <2> QED
    BY <2>1 DEF Promise!Init, Contents
<1>2. IInv /\ [QueueNext]_queueVars => IInv'
  BY NextIInv
<1>3. IInv /\ [QueueNext]_queueVars => [Promise!Next]_Contents
  BY StepIsFifo
<1> QED
  BY <1>1, <1>2, <1>3, InitIInv, PTL DEF QueueSpec, QueuesAreFifo, Promise!Spec
-----------------------------------------------------------------------------
(* ActorScheduler *)

(* Guards are on the stack of the scheduler that owns their actor. *)
GuardedAtHome ==
  \A s \in Scheds : \A i \in DOMAIN stack[s] :
    /\ stack[s][i].actor \in alive
    /\ sched[stack[s][i].actor] = s /\ ~migrating[stack[s][i].actor]

OneGuard ==
  \A s \in Scheds : \A i, j \in DOMAIN stack[s] :
    stack[s][i].actor = stack[s][j].actor => i = j

(* Also an actor that runs may be in a list of ready actors, the right one. *)
ReadyAtHome ==
  \A s \in Scheds : \A a \in ready[s] : a \in alive /\ sched[a] = s /\ ~migrating[a]

Running == { a \in Actors : IsRunning(a) }

ReadyHasMail ==
  \A a \in alive : a \notin Running /\ ~migrating[a] =>
    (a \in ready[sched[a]] <=> mailbox[a] # <<>>)

ActorsAtHome == GuardedAtHome /\ OneGuard /\ ReadyAtHome /\ ReadyHasMail

(* The places, named by the tag and by an element of S, of what is x.      *)
Tagged(tag, S, F, x) == { <<tag, b>> : b \in { c \in S : x \in F[c] } }

(* In whose hands and in which queues an item is. *)
Held == [t \in Threads |-> IF putting[t] = <<>> THEN {} ELSE {putting[t][2]}]
Stored == [s \in Scheds |-> Range(Contents[s])]
InHands(item) == Tagged("thread", Threads, Held, item)
InQueues(item) == Tagged("queue", Scheds, Stored, item)
Way(item) == InHands(item) \cup InQueues(item)

(* An actor that migrates is alive and on its way to where it belongs.     *)
OnTheMove ==
  \A a \in Actors :
    /\ migrating[a] => a \in alive
    /\ migrating[a] <=> Way(ActorItem(a)) # {}
    /\ AtMostOne(Way(ActorItem(a)))
    /\ \A t \in Threads : putting[t] # <<>> /\ putting[t][2] = ActorItem(a) =>
                            putting[t][1] = sched[a]
    /\ \A s \in Scheds : ActorItem(a) \in Range(Contents[s]) => sched[a] = s
    /\ \A s \in Scheds : pending_events[s][a] # <<>> => migrating[a] /\ sched[a] = s

(* With which actors an event is, and how; and all its places. *)
Ranges(M) == [a \in Actors |-> Range(M[a])]
Kept == [y \in Scheds \X Actors |-> Range(pending_events[y[1]][y[2]])]
Extras == [y \in Scheds \X Nat |->
            IF y[2] \in DOMAIN stack[y[1]] THEN {stack[y[1]][y[2]].extra} ELSE {}]
InHandled(n) == Tagged("handled", Actors, Ranges(handled), n)
InMailbox(n) == Tagged("mailbox", Actors, Ranges(mailbox), n)
InPending(n) == Tagged("pending", Scheds \X Actors, Kept, n)
InGuards(n) == Tagged("guard", Scheds \X Nat, Extras, n)
Rest(n) == InHandled(n) \cup InMailbox(n) \cup InPending(n) \cup InGuards(n)
Place(n) == Way(EventItem(n)) \cup Rest(n)

(* No queue holds anything twice. *)
OnceOnly(q) == \A i, j \in 1..Len(q) : q[i] = q[j] => i = j

NoRepeats ==
  /\ \A s \in Scheds : OnceOnly(Contents[s])
  /\ \A a \in Actors : OnceOnly(handled[a]) /\ OnceOnly(mailbox[a])
  /\ \A s \in Scheds, a \in Actors : OnceOnly(pending_events[s][a])

(* Events are with the actors they were sent to. *)
Addressed ==
  /\ \A a \in Actors : \A n \in Range(handled[a]) \cup Range(mailbox[a]) : sent[n].to = a
  /\ \A s \in Scheds, a \in Actors : \A n \in Range(pending_events[s][a]) : sent[n].to = a
  /\ \A s \in Scheds : \A i \in DOMAIN stack[s] :
       stack[s][i].extra # 0 => sent[stack[s][i].extra].to = stack[s][i].actor

(* An event that was not sent is nowhere, one that was sent in one place.  *)
OnePlace ==
  \A n \in Events :
    /\ AtMostOne(Place(n))
    /\ Place(n) # {} => n <= Len(sent)
    /\ n <= Len(sent) /\ sent[n].to \in alive => Place(n) # {}

EventsKept == NoRepeats /\ Addressed /\ OnePlace

Core == ActorsAtHome /\ OnTheMove /\ EventsKept
SInv == TypeOK /\ IInv /\ Core
-----------------------------------------------------------------------------
(* Facts about sequences without repetitions.                              *)
LEMMA InRange ==
  ASSUME NEW S, NEW q \in Seq(S)
  PROVE  /\ \A x \in Range(q) : \E i \in 1..Len(q) : q[i] = x
         /\ \A i \in 1..Len(q) : q[i] \in Range(q)
<1>1. DOMAIN q = 1..Len(q) /\ Len(q) \in Nat
  BY LenProperties, Zenon
<1> QED
  BY <1>1, Zenon DEF Range

LEMMA RangeOfNone ==
  ASSUME NEW S, NEW q \in Seq(S), q # <<>>
  PROVE  Range(q) # {}
<1>1. Len(q) \in Nat \ {0}
  BY EmptySeq
<1>2. 1 \in 1..Len(q)
  BY <1>1
<1> QED
  BY <1>2, InRange

LEMMA EmptyQueue == Range(<<>>) = {} /\ OnceOnly(<<>>)
  BY EmptySeq DEF Range, OnceOnly

LEMMA AppendOnce ==
  ASSUME NEW S, NEW q \in Seq(S), NEW v \in S
  PROVE  /\ Append(q, v) \in Seq(S) /\ Range(Append(q, v)) = Range(q) \cup {v}
         /\ OnceOnly(q) /\ v \notin Range(q) => OnceOnly(Append(q, v))
         /\ Append(q, v) # <<>>
<1>1. /\ Append(q, v) \in Seq(S) /\ Len(Append(q, v)) = Len(q) + 1
      /\ Append(q, v)[Len(q) + 1] = v /\ \A i \in 1..Len(q) : Append(q, v)[i] = q[i]
      /\ Append(q, v) # <<>>
  BY AppendProperties
<1> DEFINE r == Append(q, v)
<1> HIDE DEF r
<1>2. /\ r \in Seq(S) /\ Len(r) = Len(q) + 1
      /\ r[Len(q) + 1] = v /\ \A i \in 1..Len(q) : r[i] = q[i]
  BY <1>1 DEF r
<1>3. /\ \A x \in Range(q) : \E i \in 1..Len(q) : q[i] = x
      /\ \A i \in 1..Len(q) : q[i] \in Range(q)
      /\ Len(q) \in Nat
  BY InRange, LenProperties
<1>4. /\ \A x \in Range(r) : \E i \in 1..Len(r) : r[i] = x
      /\ \A i \in 1..Len(r) : r[i] \in Range(r)
  BY <1>2, InRange
<1>5. \A i \in 1..Len(r) : i \in 1..Len(q) \/ i = Len(q) + 1
  BY <1>2, <1>3
<1>6. Range(r) = Range(q) \cup {v}
  <2>1. \A x \in Range(r) : x \in Range(q) \cup {v}
    BY <1>2, <1>3, <1>4, <1>5
  <2>2. Len(q) + 1 \in 1..Len(r) /\ \A i \in 1..Len(q) : i \in 1..Len(r)
    BY <1>2, <1>3
  <2>3. \A x \in Range(q) \cup {v} : x \in Range(r)
    BY <2>2, <1>2, <1>3, <1>4
  <2> QED
    BY <2>1, <2>3
<1>7. OnceOnly(q) /\ v \notin Range(q) => OnceOnly(r)
  BY <1>2, <1>3, <1>5 DEF OnceOnly
<1> QED
  BY <1>1, <1>6, <1>7 DEF r

LEMMA TailOnce ==
  ASSUME NEW S, NEW q \in Seq(S), q # <<>>, OnceOnly(q)
  PROVE  /\ Tail(q) \in Seq(S) /\ OnceOnly(Tail(q))
         /\ Range(Tail(q)) = Range(q) \ {Head(q)} /\ Head(q) \in Range(q) /\ Head(q) \in S
<1> DEFINE r == Tail(q)
<1>1. /\ r \in Seq(S) /\ Len(r) = Len(q) - 1 /\ Len(q) \in Nat \ {0}
      /\ Head(q) = q[1] /\ Head(q) \in S /\ \A i \in 1..Len(r) : r[i] = q[i + 1]
  BY HeadTailProperties
<1> HIDE DEF r
<1>3. /\ \A x \in Range(q) : \E i \in 1..Len(q) : q[i] = x
      /\ \A i \in 1..Len(q) : q[i] \in Range(q)
      /\ \A i, j \in 1..Len(q) : q[i] = q[j] => i = j
  BY InRange DEF OnceOnly
<1>4. /\ \A x \in Range(r) : \E i \in 1..Len(r) : r[i] = x
      /\ \A i \in 1..Len(r) : r[i] \in Range(r)
  BY <1>1, InRange
<1>5. /\ \A i \in 1..Len(r) : i + 1 \in 1..Len(q) /\ i + 1 # 1
      /\ \A i \in 1..Len(q) : i = 1 \/ (i - 1 \in 1..Len(r) /\ (i - 1) + 1 = i)
      /\ 1 \in 1..Len(q)
  BY <1>1
<1>6. OnceOnly(r)
  <2> SUFFICES ASSUME NEW i \in 1..Len(r), NEW j \in 1..Len(r), r[i] = r[j] PROVE i = j
    BY DEF OnceOnly
  <2>1. i + 1 = j + 1
    BY <1>1, <1>3, <1>5
  <2> QED
    BY <2>1
<1>7. Range(r) = Range(q) \ {q[1]}
  <2>1. \A x \in Range(r) : x \in Range(q) /\ x # q[1]
    BY <1>1, <1>3, <1>4, <1>5
  <2>2. \A x \in Range(q) : x # q[1] => x \in Range(r)
    <3> SUFFICES ASSUME NEW x \in Range(q), x # q[1] PROVE x \in Range(r)
      OBVIOUS
    <3>1. PICK i \in 1..Len(q) : q[i] = x
      BY <1>3
    <3>2. r[i - 1] = x /\ i - 1 \in 1..Len(r)
      BY <3>1, <1>1, <1>5
    <3> QED
      BY <3>2, <1>4
  <2> QED
    BY <2>1, <2>2
<1>8. q[1] \in Range(q)
  BY <1>3, <1>5
<1> QED
  BY <1>1, <1>6, <1>7, <1>8 DEF r

LEMMA ConcatOnce ==
  ASSUME NEW S, NEW q \in Seq(S), NEW r \in Seq(S)
  PROVE  /\ q \o r \in Seq(S) /\ Range(q \o r) = Range(q) \cup Range(r)
         /\ OnceOnly(q) /\ OnceOnly(r) /\ (\A x \in Range(q) : x \notin Range(r))
            => OnceOnly(q \o r)
<1> DEFINE t == q \o r
<1>1. /\ t \in Seq(S) /\ Len(t) = Len(q) + Len(r)
      /\ \A i \in 1..Len(t) : t[i] = IF i <= Len(q) THEN q[i] ELSE r[i - Len(q)]
  BY ConcatProperties
<1> HIDE DEF t
<1>2. /\ \A x \in Range(q) : \E i \in 1..Len(q) : q[i] = x
      /\ \A i \in 1..Len(q) : q[i] \in Range(q)
      /\ \A x \in Range(r) : \E i \in 1..Len(r) : r[i] = x
      /\ \A i \in 1..Len(r) : r[i] \in Range(r)
      /\ \A x \in Range(t) : \E i \in 1..Len(t) : t[i] = x
      /\ \A i \in 1..Len(t) : t[i] \in Range(t)
      /\ Len(q) \in Nat /\ Len(r) \in Nat
  BY <1>1, InRange, LenProperties
<1>3. \A i \in 1..Len(t) : \/ i \in 1..Len(q) /\ t[i] = q[i]
                           \/ i - Len(q) \in 1..Len(r) /\ t[i] = r[i - Len(q)]
  BY <1>1, <1>2
<1>4. \A i \in 1..Len(q) : i \in 1..Len(t) /\ t[i] = q[i]
  BY <1>1, <1>2
<1>5. Range(t) = Range(q) \cup Range(r)
  <2>1. ASSUME NEW x \in Range(t) PROVE x \in Range(q) \cup Range(r)
    <3>1. PICK i \in 1..Len(t) : t[i] = x
      BY <1>2
    <3> QED
      BY <3>1, <1>2, <1>3
  <2>2. ASSUME NEW x \in Range(q) PROVE x \in Range(t)
    <3>1. PICK i \in 1..Len(q) : q[i] = x
      BY <1>2
    <3> QED
      BY <3>1, <1>2, <1>4
  <2>3. ASSUME NEW x \in Range(r) PROVE x \in Range(t)
    <3>1. PICK i \in 1..Len(r) : r[i] = x
      BY <1>2
    <3>2. /\ i + Len(q) \in 1..Len(t) /\ ~(i + Len(q) <= Len(q))
          /\ (i + Len(q)) - Len(q) = i
      BY <1>1, <1>2
    <3>3. t[i + Len(q)] = x
      BY <3>1, <3>2, <1>1
    <3> QED
      BY <3>2, <3>3, <1>2
  <2> QED
    BY <2>1, <2>2, <2>3
<1>6. ASSUME OnceOnly(q), OnceOnly(r), \A x \in Range(q) : x \notin Range(r)
      PROVE  OnceOnly(t)
  <2> SUFFICES ASSUME NEW i \in 1..Len(t), NEW j \in 1..Len(t), t[i] = t[j] PROVE i = j
    BY DEF OnceOnly
  <2>1. CASE i \in 1..Len(q) /\ t[i] = q[i]
    <3>1. j \in 1..Len(q) /\ t[j] = q[j]
      BY <2>1, <1>2, <1>3, <1>6
    <3> QED
      BY <2>1, <3>1, <1>6 DEF OnceOnly
  <2>2. CASE i - Len(q) \in 1..Len(r) /\ t[i] = r[i - Len(q)]
    <3>1. j - Len(q) \in 1..Len(r) /\ t[j] = r[j - Len(q)]
      BY <2>2, <1>2, <1>3, <1>6
    <3>2. i - Len(q) = j - Len(q)
      BY <2>2, <3>1, <1>6 DEF OnceOnly
    <3> QED
      BY <3>2, <1>2
  <2> QED
    BY <2>1, <2>2, <1>3
<1> QED
  BY <1>1, <1>5, <1>6 DEF t
-----------------------------------------------------------------------------
(* What pushing, popping and changing a guard do to the stacks.            *)
LEMMA StackPushed ==
  ASSUME NEW st \in [Scheds -> Seq(Guards)], NEW s \in Scheds, NEW g \in Guards,
         NEW st2, st2 = [st EXCEPT ![s] = Append(@, g)]
  PROVE  /\ st2 \in [Scheds -> Seq(Guards)]
         /\ \A r \in Scheds : \A i \in DOMAIN st2[r] :
              \/ i \in DOMAIN st[r] /\ st2[r][i] = st[r][i]
              \/ r = s /\ i = Len(st[s]) + 1 /\ st2[r][i] = g
         /\ \A r \in Scheds : \A i \in DOMAIN st[r] : i \in DOMAIN st2[r] /\ st2[r][i] = st[r][i]
         /\ Len(st[s]) + 1 \in DOMAIN st2[s] /\ st2[s][Len(st[s]) + 1] = g
         /\ Len(st[s]) + 1 \notin DOMAIN st[s]
<1>1. /\ Append(st[s], g) \in Seq(Guards)
      /\ Len(Append(st[s], g)) = Len(st[s]) + 1
      /\ Append(st[s], g)[Len(st[s]) + 1] = g
      /\ \A i \in 1..Len(st[s]) : Append(st[s], g)[i] = st[s][i]
  BY AppendProperties
<1>2. st2[s] = Append(st[s], g) /\ \A r \in Scheds \ {s} : st2[r] = st[r]
  OBVIOUS
<1>3. st2 \in [Scheds -> Seq(Guards)]
  BY <1>1
<1>4. DOMAIN st[s] = 1..Len(st[s]) /\ Len(st[s]) \in Nat /\ DOMAIN st2[s] = 1..Len(st2[s])
  BY <1>3, LenProperties, Zenon
<1>5. /\ DOMAIN st2[s] = 1..(Len(st[s]) + 1)
      /\ \A i \in DOMAIN st[s] : st2[s][i] = st[s][i] /\ i \in DOMAIN st2[s]
      /\ \A i \in DOMAIN st2[s] : i \in DOMAIN st[s] \/ i = Len(st[s]) + 1
      /\ Len(st[s]) + 1 \in DOMAIN st2[s] /\ st2[s][Len(st[s]) + 1] = g
      /\ Len(st[s]) + 1 \notin DOMAIN st[s]
  BY <1>1, <1>2, <1>4
<1> QED
  BY <1>2, <1>3, <1>5

LEMMA StackTop ==
  ASSUME NEW st \in [Scheds -> Seq(Guards)], NEW s \in Scheds, st[s] # <<>>
  PROVE  /\ Len(st[s]) \in DOMAIN st[s] /\ Last(st[s]) = st[s][Len(st[s])]
         /\ Last(st[s]) \in Guards
<1>1. DOMAIN st[s] = 1..Len(st[s])
  BY LenProperties, Zenon
<1>2. Len(st[s]) \in Nat \ {0}
  BY EmptySeq
<1>3. Len(st[s]) \in DOMAIN st[s]
  BY <1>1, <1>2
<1>4. st[s][Len(st[s])] \in Guards
  BY <1>2, ElementOfSeq
<1> QED
  BY <1>3, <1>4 DEF Last

LEMMA StackPopped ==
  ASSUME NEW st \in [Scheds -> Seq(Guards)], NEW s \in Scheds, st[s] # <<>>,
         NEW st2, st2 = [st EXCEPT ![s] = Front(@)]
  PROVE  /\ st2 \in [Scheds -> Seq(Guards)]
         /\ \A r \in Scheds : \A i \in DOMAIN st2[r] :
              i \in DOMAIN st[r] /\ st2[r][i] = st[r][i] /\ (r = s => i # Len(st[s]))
         /\ \A r \in Scheds : \A i \in DOMAIN st[r] :
              i \in DOMAIN st2[r] \/ (r = s /\ i = Len(st[s]))
<1>1. Len(st[s]) \in Nat \ {0} /\ DOMAIN st[s] = 1..Len(st[s])
  BY EmptySeq, LenProperties
<1>2. /\ Front(st[s]) \in Seq(Guards) /\ Len(Front(st[s])) = Len(st[s]) - 1
      /\ \A i \in 1..(Len(st[s]) - 1) : Front(st[s])[i] = st[s][i]
  BY <1>1, SubSeqProperties DEF Front
<1>3. st2[s] = Front(st[s]) /\ \A r \in Scheds \ {s} : st2[r] = st[r]
  OBVIOUS
<1>4. st2 \in [Scheds -> Seq(Guards)]
  BY <1>2
<1>5. DOMAIN st2[s] = 1..Len(st2[s])
  BY <1>4, LenProperties, Zenon
<1>6. /\ \A i \in DOMAIN st2[s] : i \in DOMAIN st[s] /\ st2[s][i] = st[s][i] /\ i # Len(st[s])
      /\ \A i \in DOMAIN st[s] : i \in DOMAIN st2[s] \/ i = Len(st[s])
  BY <1>1, <1>2, <1>3, <1>5, SMTT(30)
<1> QED
  BY <1>3, <1>4, <1>6

LEMMA StackChanged ==
  ASSUME stack \in [Scheds -> Seq(Guards)], NEW s \in Scheds, stack[s] # <<>>, NEW g \in Guards,
         stack' = [stack EXCEPT ![s] = Append(Front(@), g)]
  PROVE  /\ stack' \in [Scheds -> Seq(Guards)]
         /\ \A r \in Scheds : DOMAIN stack'[r] = DOMAIN stack[r]
         /\ stack'[s][Len(stack[s])] = g
         /\ \A r \in Scheds : \A i \in DOMAIN stack[r] :
              r # s \/ i # Len(stack[s]) => stack'[r][i] = stack[r][i]
<1>1. Len(stack[s]) \in Nat \ {0} /\ DOMAIN stack[s] = 1..Len(stack[s])
  BY EmptySeq, LenProperties
<1>2. /\ Front(stack[s]) \in Seq(Guards) /\ Len(Front(stack[s])) = Len(stack[s]) - 1
      /\ \A i \in 1..(Len(stack[s]) - 1) : Front(stack[s])[i] = stack[s][i]
  BY <1>1, SubSeqProperties DEF Front
<1> DEFINE f == Front(stack[s])
<1> HIDE DEF f
<1>3. /\ Append(f, g) \in Seq(Guards) /\ Len(Append(f, g)) = Len(f) + 1
      /\ Append(f, g)[Len(f) + 1] = g /\ \A i \in 1..Len(f) : Append(f, g)[i] = f[i]
  BY <1>2, AppendProperties DEF f
<1>4. stack'[s] = Append(f, g) /\ \A r \in Scheds \ {s} : stack'[r] = stack[r]
  BY DEF f
<1>5. stack' \in [Scheds -> Seq(Guards)]
  BY <1>3 DEF f
<1>6. DOMAIN stack'[s] = 1..Len(stack'[s])
  BY <1>5, LenProperties, Zenon
<1>7. Len(f) + 1 = Len(stack[s]) /\ \A i \in 1..Len(f) : f[i] = stack[s][i]
  BY <1>1, <1>2 DEF f
<1>8. /\ DOMAIN stack'[s] = DOMAIN stack[s] /\ stack'[s][Len(stack[s])] = g
      /\ \A i \in DOMAIN stack[s] : i # Len(stack[s]) => stack'[s][i] = stack[s][i]
  <2>1. Len(stack'[s]) = Len(stack[s]) /\ stack'[s][Len(stack[s])] = g
    BY <1>3, <1>4, <1>7
  <2>2. \A i \in DOMAIN stack[s] : i # Len(stack[s]) => i \in 1..Len(f)
    BY <1>1, <1>2 DEF f
  <2> QED
    BY <2>1, <2>2, <1>1, <1>3, <1>4, <1>6, <1>7
<1> QED
  BY <1>4, <1>5, <1>8
-----------------------------------------------------------------------------
(* How the places of items and events change with the data.                *)
LEMMA TypeOfContents ==
  ASSUME QueueTypeOK
  PROVE  Contents \in [Scheds -> Seq(Values)]
<1>1. \A s \in Queues : reader_vector[s] \o writer_vector[s] \in Seq(Values)
  BY ConcatProperties DEF QueueTypeOK
<1> QED
  BY <1>1 DEF Contents, Scheds

LEMMA HandsFilled ==
  ASSUME NEW t \in Threads, NEW d \in Scheds, NEW item, DOMAIN putting = Threads,
         putting[t] = <<>>, putting' = [putting EXCEPT ![t] = <<d, item>>]
  PROVE  /\ InHands(item)' = InHands(item) \cup { <<"thread", t>> }
         /\ \A x : x # item => InHands(x)' = InHands(x)
<1>1. <<d, item>> # <<>> /\ <<d, item>>[2] = item
  OBVIOUS
<1>2. Held[t] = {} /\ Held'[t] = {item}
  BY <1>1 DEF Held
<1>3. \A u \in Threads : u # t => Held'[u] = Held[u]
  BY DEF Held
<1>4. Held'[t] = Held[t] \cup {item}
  BY <1>2
<1>5. /\ Tagged("thread", Threads, Held', item) =
           Tagged("thread", Threads, Held, item) \cup {<<"thread", t>>}
      /\ \A y : y # item => Tagged("thread", Threads, Held', y) =
                        Tagged("thread", Threads, Held, y)
  BY <1>3, <1>4, SMT DEF Tagged
<1> QED
  BY <1>5, Zenon DEF InHands

LEMMA HandsEmptied ==
  ASSUME NEW t \in Threads, DOMAIN putting = Threads, putting[t] # <<>>,
         NEW item, item = putting[t][2], putting' = [putting EXCEPT ![t] = <<>>]
  PROVE  /\ InHands(item)' = InHands(item) \ { <<"thread", t>> }
         /\ \A x : x # item => InHands(x)' = InHands(x)
         /\ <<"thread", t>> \in InHands(item)
<1>2. Held[t] = {item} /\ Held'[t] = {}
  BY DEF Held
<1>3. \A u \in Threads : u # t => Held'[u] = Held[u]
  BY DEF Held
<1>4. Held'[t] = Held[t] \ {item} /\ item \in Held[t]
  BY <1>2
<1>5. /\ Tagged("thread", Threads, Held', item) =
           Tagged("thread", Threads, Held, item) \ {<<"thread", t>>}
      /\ \A y : y # item => Tagged("thread", Threads, Held', y) =
                        Tagged("thread", Threads, Held, y)
      /\ <<"thread", t>> \in Tagged("thread", Threads, Held, item)
  BY <1>3, <1>4, SMT DEF Tagged
<1> QED
  BY <1>5, Zenon DEF InHands

LEMMA QueueGrows ==
  ASSUME QueueTypeOK, NEW s \in Scheds, NEW v \in Values,
         \A r \in Scheds : OnceOnly(Contents[r]),
         Contents' = [Contents EXCEPT ![s] = Append(@, v)], v \notin Range(Contents[s])
  PROVE  /\ InQueues(v)' = InQueues(v) \cup { <<"queue", s>> }
         /\ \A x : x # v => InQueues(x)' = InQueues(x)
         /\ \A r \in Scheds : OnceOnly(Contents'[r])
         /\ Range(Contents'[s]) = Range(Contents[s]) \cup {v}
         /\ \A r \in Scheds : r # s => Range(Contents'[r]) = Range(Contents[r])
<1>1. Contents \in [Scheds -> Seq(Values)]
  BY TypeOfContents
<1>2. /\ Range(Append(Contents[s], v)) = Range(Contents[s]) \cup {v}
      /\ OnceOnly(Append(Contents[s], v))
  BY <1>1, AppendOnce
<1>3. Contents'[s] = Append(Contents[s], v)
  BY <1>1
<1>4. \A r \in Scheds : r # s => Contents'[r] = Contents[r]
  BY <1>1
<1>5. \A r \in Scheds : OnceOnly(Contents'[r])
  BY <1>2, <1>3, <1>4, Zenon
<1>6. /\ Range(Contents'[s]) = Range(Contents[s]) \cup {v}
      /\ \A r \in Scheds : r # s => Range(Contents'[r]) = Range(Contents[r])
  BY <1>2, <1>3, <1>4, Zenon
<1>7. /\ Stored'[s] = Stored[s] \cup {v}
      /\ \A r \in Scheds : r # s => Stored'[r] = Stored[r]
  BY <1>6 DEF Stored
<1>8. /\ Tagged("queue", Scheds, Stored', v) =
           Tagged("queue", Scheds, Stored, v) \cup {<<"queue", s>>}
      /\ \A y : y # v => Tagged("queue", Scheds, Stored', y) =
                     Tagged("queue", Scheds, Stored, y)
  BY <1>7, SMT DEF Tagged
<1> QED
  BY <1>5, <1>6, <1>8, Zenon DEF InQueues

LEMMA QueueShrinks ==
  ASSUME QueueTypeOK, NEW s \in Scheds, NEW v, v = Head(Contents[s]),
         \A r \in Scheds : OnceOnly(Contents[r]),
         Contents[s] # <<>>, Contents' = [Contents EXCEPT ![s] = Tail(@)]
  PROVE  /\ InQueues(v)' = InQueues(v) \ { <<"queue", s>> }
         /\ \A x : x # v => InQueues(x)' = InQueues(x)
         /\ <<"queue", s>> \in InQueues(v)
         /\ \A r \in Scheds : OnceOnly(Contents'[r])
         /\ Range(Contents'[s]) = Range(Contents[s]) \ {v}
         /\ \A r \in Scheds : r # s => Range(Contents'[r]) = Range(Contents[r])
         /\ v \in Range(Contents[s]) /\ v \in Values
<1>1. Contents \in [Scheds -> Seq(Values)]
  BY TypeOfContents
<1>2. /\ Range(Tail(Contents[s])) = Range(Contents[s]) \ {v}
      /\ OnceOnly(Tail(Contents[s])) /\ v \in Range(Contents[s]) /\ v \in Values
  BY <1>1, TailOnce
<1>3. Contents'[s] = Tail(Contents[s])
  BY <1>1
<1>4. \A r \in Scheds : r # s => Contents'[r] = Contents[r]
  BY <1>1
<1>5. \A r \in Scheds : OnceOnly(Contents'[r])
  BY <1>2, <1>3, <1>4, Zenon
<1>6. /\ Range(Contents'[s]) = Range(Contents[s]) \ {v}
      /\ \A r \in Scheds : r # s => Range(Contents'[r]) = Range(Contents[r])
  BY <1>2, <1>3, <1>4, Zenon
<1>7. /\ Stored'[s] = Stored[s] \ {v} /\ v \in Stored[s]
      /\ \A r \in Scheds : r # s => Stored'[r] = Stored[r]
  BY <1>2, <1>6 DEF Stored
<1>8. /\ Tagged("queue", Scheds, Stored', v) =
           Tagged("queue", Scheds, Stored, v) \ {<<"queue", s>>}
      /\ \A y : y # v => Tagged("queue", Scheds, Stored', y) =
                     Tagged("queue", Scheds, Stored, y)
      /\ <<"queue", s>> \in Tagged("queue", Scheds, Stored, v)
  BY <1>7, SMT DEF Tagged
<1> QED
  BY <1>2, <1>5, <1>6, <1>8, Zenon DEF InQueues

(* Where events are that are in hands and queues. *)
LEMMA WayIs ==
  ASSUME NEW item
  PROVE  /\ \A t \in Threads : (putting[t] # <<>> /\ putting[t][2] = item)
                               <=> <<"thread", t>> \in InHands(item)
         /\ \A s \in Scheds : item \in Range(Contents[s]) <=> <<"queue", s>> \in InQueues(item)
         /\ \A p \in InHands(item) : \E t \in Threads :
              p = <<"thread", t>> /\ putting[t] # <<>> /\ putting[t][2] = item
         /\ \A p \in InQueues(item) : \E s \in Scheds :
              p = <<"queue", s>> /\ item \in Range(Contents[s])
<1>1. \A t \in Threads : item \in Held[t] <=> (putting[t] # <<>> /\ putting[t][2] = item)
  BY DEF Held
<1>2. \A s \in Scheds : item \in Stored[s] <=> item \in Range(Contents[s])
  BY DEF Stored
<1> QED
  BY <1>1, <1>2 DEF InHands, InQueues, Tagged

(* The events of a mailbox are replaced by those of q. *)
LEMMA MailboxSet ==
  ASSUME mailbox \in [Actors -> Seq(Events)], NEW a \in Actors, NEW q,
         mailbox' = [mailbox EXCEPT ![a] = q]
  PROVE  /\ \A k : k \in Range(q) => InMailbox(k)' = InMailbox(k) \cup {<<"mailbox", a>>}
         /\ \A k : k \notin Range(q) => InMailbox(k)' = InMailbox(k) \ {<<"mailbox", a>>}
         /\ \A k : k \in Range(mailbox[a]) <=> <<"mailbox", a>> \in InMailbox(k)
         /\ \A k : (k \in Range(q) <=> k \in Range(mailbox[a])) => InMailbox(k)' = InMailbox(k)
         /\ mailbox'[a] = q /\ \A b \in Actors : b # a => mailbox'[b] = mailbox[b]
<1>1. mailbox'[a] = q /\ \A b \in Actors : b # a => mailbox'[b] = mailbox[b]
  OBVIOUS
<1> DEFINE F == Ranges(mailbox)
           F2 == Ranges(mailbox')
<1>2. /\ F2[a] = Range(q) /\ F[a] = Range(mailbox[a])
      /\ \A b \in Actors : b # a => F2[b] = F[b]
  BY <1>1 DEF Ranges
<1> HIDE DEF F, F2
<1>3. /\ \A k : k \in Range(q) =>
           Tagged("mailbox", Actors, F2, k) = Tagged("mailbox", Actors, F, k) \cup {<<"mailbox", a>>}
      /\ \A k : k \notin Range(q) =>
           Tagged("mailbox", Actors, F2, k) = Tagged("mailbox", Actors, F, k) \ {<<"mailbox", a>>}
      /\ \A k : k \in Range(mailbox[a]) <=> <<"mailbox", a>> \in Tagged("mailbox", Actors, F, k)
  BY <1>2, SMT DEF Tagged
<1>4. ASSUME NEW k, k \in Range(q) <=> k \in Range(mailbox[a])
      PROVE  Tagged("mailbox", Actors, F2, k) = Tagged("mailbox", Actors, F, k)
  <2>1. \A b \in Actors : k \in F2[b] <=> k \in F[b]
    BY <1>2, <1>4
  <2> QED
    BY <2>1, SMT DEF Tagged
<1> QED
  BY <1>1, <1>3, <1>4, Zenon DEF InMailbox, F, F2

LEMMA HandledGrows ==
  ASSUME handled \in [Actors -> Seq(Events)], NEW a \in Actors, NEW n \in Events,
         handled' = [handled EXCEPT ![a] = Append(@, n)]
  PROVE  /\ InHandled(n)' = InHandled(n) \cup {<<"handled", a>>}
         /\ \A k : k # n => InHandled(k)' = InHandled(k)
         /\ Range(handled'[a]) = Range(handled[a]) \cup {n}
         /\ \A b \in Actors : b # a => handled'[b] = handled[b]
         /\ OnceOnly(handled[a]) /\ n \notin Range(handled[a]) => OnceOnly(handled'[a])
         /\ handled' \in [Actors -> Seq(Events)]
<1>1. handled'[a] = Append(handled[a], n) /\ \A b \in Actors : b # a => handled'[b] = handled[b]
  OBVIOUS
<1>2. /\ Append(handled[a], n) \in Seq(Events)
      /\ Range(Append(handled[a], n)) = Range(handled[a]) \cup {n}
      /\ OnceOnly(handled[a]) /\ n \notin Range(handled[a]) => OnceOnly(Append(handled[a], n))
  BY AppendOnce
<1>4. handled' \in [Actors -> Seq(Events)]
  BY <1>2
<1> DEFINE F == Ranges(handled)
           F2 == Ranges(handled')
<1>3. F2[a] = F[a] \cup {n} /\ \A b \in Actors : b # a => F2[b] = F[b]
  BY <1>1, <1>2 DEF Ranges
<1> HIDE DEF F, F2
<1>5. \A b \in Actors : \A k : k \in F2[b] <=> (k \in F[b] \/ (k = n /\ b = a))
  BY <1>3
<1>8. Tagged("handled", Actors, F2, n) = Tagged("handled", Actors, F, n) \cup {<<"handled", a>>}
  BY <1>5, SMT DEF Tagged
<1>9. \A k : k # n => Tagged("handled", Actors, F2, k) = Tagged("handled", Actors, F, k)
  BY <1>5, SMT DEF Tagged
<1>6. /\ InHandled(n)' = InHandled(n) \cup {<<"handled", a>>}
      /\ \A k : k # n => InHandled(k)' = InHandled(k)
  BY <1>8, <1>9, Zenon DEF InHandled, F, F2
<1>7. /\ Range(handled'[a]) = Range(handled[a]) \cup {n}
      /\ OnceOnly(handled[a]) /\ n \notin Range(handled[a]) => OnceOnly(handled'[a])
  BY <1>1, <1>2, Zenon
<1> QED
  BY <1>1, <1>4, <1>6, <1>7, Zenon

(* The events that s keeps for a are replaced. *)
LEMMA PendingSet ==
  ASSUME pending_events \in [Scheds -> [Actors -> Seq(Events)]], NEW s \in Scheds,
         NEW a \in Actors,
         \A r \in Scheds, b \in Actors :
           r # s \/ b # a => pending_events'[r][b] = pending_events[r][b]
  PROVE  /\ \A k : k \in Range(pending_events'[s][a]) => InPending(k)' = InPending(k) \cup {<<"pending", <<s, a>>>>}
         /\ \A k : k \notin Range(pending_events'[s][a]) => InPending(k)' = InPending(k) \ {<<"pending", <<s, a>>>>}
         /\ \A k : k \in Range(pending_events[s][a]) <=> <<"pending", <<s, a>>>> \in InPending(k)
         /\ \A k : (k \in Range(pending_events'[s][a]) <=> k \in Range(pending_events[s][a]))
                    => InPending(k)' = InPending(k)
<1> DEFINE P == Scheds \X Actors
           x == <<s, a>>
<1>2. /\ Kept'[x] = Range(pending_events'[s][a]) /\ Kept[x] = Range(pending_events[s][a]) /\ x \in P
      /\ \A y \in P : y # x => Kept'[y] = Kept[y]
  BY DEF Kept
<1> HIDE DEF P, x
<1>3. /\ \A k : k \in Range(pending_events'[s][a]) =>
           Tagged("pending", P, Kept', k) = Tagged("pending", P, Kept, k) \cup {<<"pending", x>>}
      /\ \A k : k \notin Range(pending_events'[s][a]) =>
           Tagged("pending", P, Kept', k) = Tagged("pending", P, Kept, k) \ {<<"pending", x>>}
      /\ \A k : k \in Range(pending_events[s][a])
                  <=> <<"pending", x>> \in Tagged("pending", P, Kept, k)
  BY <1>2, SMT DEF Tagged
<1>4. ASSUME NEW k, k \in Range(pending_events'[s][a]) <=> k \in Range(pending_events[s][a])
      PROVE  Tagged("pending", P, Kept', k) = Tagged("pending", P, Kept, k)
  <2>1. \A y \in P : k \in Kept'[y] <=> k \in Kept[y]
    BY <1>2, <1>4
  <2> QED
    BY <2>1, SMT DEF Tagged
<1> QED
  BY <1>3, <1>4, Zenon DEF InPending, P, x

(* Where the guards' events are. *)
LEMMA GuardsAre ==
  ASSUME stack \in [Scheds -> Seq(Guards)]
  PROVE  /\ \A s \in Scheds : \A i \in DOMAIN stack[s] :
              i \in Nat /\ Extras[<<s, i>>] = {stack[s][i].extra} /\ <<s, i>> \in Scheds \X Nat
         /\ \A s \in Scheds : \A i \in Nat \ DOMAIN stack[s] : Extras[<<s, i>>] = {}
         /\ \A k : \A s \in Scheds : \A i \in DOMAIN stack[s] :
              stack[s][i].extra = k <=> <<"guard", <<s, i>>>> \in InGuards(k)
         /\ \A k : \A p \in InGuards(k) : \E s \in Scheds : \E i \in DOMAIN stack[s] :
              p = <<"guard", <<s, i>>>> /\ stack[s][i].extra = k
<1>1. \A s \in Scheds : DOMAIN stack[s] = 1..Len(stack[s])
  BY LenProperties, Zenon
<1>2. \A s \in Scheds : \A i \in DOMAIN stack[s] :
        i \in Nat /\ Extras[<<s, i>>] = {stack[s][i].extra} /\ <<s, i>> \in Scheds \X Nat
  BY <1>1 DEF Extras
<1>3. \A s \in Scheds : \A i \in Nat \ DOMAIN stack[s] : Extras[<<s, i>>] = {}
  BY DEF Extras
<1> DEFINE P == Scheds \X Nat
<1>4. \A x \in P : /\ x = <<x[1], x[2]>> /\ x[1] \in Scheds /\ x[2] \in Nat
                   /\ x[2] \in DOMAIN stack[x[1]] => Extras[x] = {stack[x[1]][x[2]].extra}
                   /\ x[2] \notin DOMAIN stack[x[1]] => Extras[x] = {}
  BY <1>2, <1>3
<1> HIDE DEF P
<1>5. \A k : \A s \in Scheds : \A i \in DOMAIN stack[s] :
        stack[s][i].extra = k <=> <<"guard", <<s, i>>>> \in Tagged("guard", P, Extras, k)
  <2> SUFFICES ASSUME NEW k, NEW s \in Scheds, NEW i \in DOMAIN stack[s]
               PROVE  stack[s][i].extra = k <=> <<"guard", <<s, i>>>> \in Tagged("guard", P, Extras, k)
    OBVIOUS
  <2> DEFINE x == <<s, i>>
  <2>1. x \in P /\ Extras[x] = {stack[s][i].extra}
    BY <1>2 DEF P
  <2> HIDE DEF x
  <2>2. k \in Extras[x] <=> <<"guard", x>> \in Tagged("guard", P, Extras, k)
    BY <2>1 DEF Tagged
  <2> QED
    BY <2>1, <2>2 DEF x
<1>6. ASSUME NEW k, NEW p \in Tagged("guard", P, Extras, k)
      PROVE  \E s \in Scheds : \E i \in DOMAIN stack[s] :
               p = <<"guard", <<s, i>>>> /\ stack[s][i].extra = k
  <2>1. PICK x \in P : p = <<"guard", x>> /\ k \in Extras[x]
    BY <1>6 DEF Tagged
  <2>2. x[2] \in DOMAIN stack[x[1]]
    BY <1>4, <2>1
  <2>3. stack[x[1]][x[2]].extra = k
    BY <1>4, <2>1, <2>2
  <2> QED
    BY <1>4, <2>1, <2>2, <2>3
<1> QED
  BY <1>2, <1>3, <1>5, <1>6, Zenon DEF InGuards, P

(* What becomes of the guard i of s alone, of events with it and of others. *)
LEMMA GuardsChange ==
  ASSUME stack \in [Scheds -> Seq(Guards)], stack' \in [Scheds -> Seq(Guards)],
         NEW s \in Scheds, NEW i \in Nat,
         \A r \in Scheds : \A j \in Nat : <<r, j>> # <<s, i>> => Extras'[<<r, j>>] = Extras[<<r, j>>]
  PROVE  /\ \A k : k \in Extras'[<<s, i>>] => InGuards(k)' = InGuards(k) \cup {<<"guard", <<s, i>>>>}
         /\ \A k : k \notin Extras'[<<s, i>>] => InGuards(k)' = InGuards(k) \ {<<"guard", <<s, i>>>>}
         /\ \A k : k \in Extras[<<s, i>>] <=> <<"guard", <<s, i>>>> \in InGuards(k)
         /\ \A k : (k \in Extras'[<<s, i>>] <=> k \in Extras[<<s, i>>]) => InGuards(k)' = InGuards(k)
<1> DEFINE P == Scheds \X Nat
           x == <<s, i>>
<1>1. x \in P /\ \A y \in P : y # x => Extras'[y] = Extras[y]
  OBVIOUS
<1>2. /\ \A k : k \in Extras'[x] =>
           Tagged("guard", P, Extras', k) = Tagged("guard", P, Extras, k) \cup {<<"guard", x>>}
      /\ \A k : k \notin Extras'[x] =>
           Tagged("guard", P, Extras', k) = Tagged("guard", P, Extras, k) \ {<<"guard", x>>}
      /\ \A k : k \in Extras[x] <=> <<"guard", x>> \in Tagged("guard", P, Extras, k)
      /\ \A k : (k \in Extras'[x] <=> k \in Extras[x]) =>
           Tagged("guard", P, Extras', k) = Tagged("guard", P, Extras, k)
  <2> HIDE DEF P, x
  <2>1. ASSUME NEW k, k \in Extras'[x] <=> k \in Extras[x]
        PROVE  Tagged("guard", P, Extras', k) = Tagged("guard", P, Extras, k)
    <3>1. \A y \in P : k \in Extras'[y] <=> k \in Extras[y]
      BY <1>1, <2>1
    <3> QED
      BY <3>1, SMT DEF Tagged
  <2> QED
    BY <1>1, <2>1, SMT DEF Tagged
<1> QED
  BY <1>2, Zenon DEF InGuards

(* An event that is kept, or that moves from one place to another, is in   *)
(* one place again; one of a dead actor may get lost.                      *)
LEMMA PlacesKept ==
  ASSUME OnePlace, sent' = sent, alive' \subseteq alive,
         \A k \in Events :
           \/ Place(k)' = Place(k)
           \/ \E p \in Place(k) : \E p2 : Place(k)' = (Place(k) \ {p}) \cup {p2}
           \/ sent[k].to \notin alive' /\ Place(k)' \subseteq Place(k)
  PROVE  OnePlace'
<1> SUFFICES ASSUME NEW k \in Events
             PROVE  /\ AtMostOne(Place(k)')
                    /\ Place(k)' # {} => k <= Len(sent)
                    /\ k <= Len(sent) /\ sent[k].to \in alive' => Place(k)' # {}
  BY DEF OnePlace, AtMostOne
<1>1. /\ AtMostOne(Place(k))
      /\ Place(k) # {} => k <= Len(sent)
      /\ k <= Len(sent) /\ sent[k].to \in alive => Place(k) # {}
  BY DEF OnePlace
<1> DEFINE P == Place(k)
           P2 == Place(k)'
<1> HIDE DEF P, P2
<1>2. \/ P2 = P \/ (\E p \in P : \E p2 : P2 = (P \ {p}) \cup {p2})
      \/ sent[k].to \notin alive' /\ P2 \subseteq P
  BY DEF P, P2
<1>3. /\ AtMostOne(P2)
      /\ P2 # {} => P # {}
      /\ sent[k].to \in alive' => (P # {} => P2 # {})
  BY <1>1, <1>2 DEF AtMostOne, P
<1> QED
  BY <1>1, <1>3 DEF P, P2

(* An EventGuard is entered, changed and left. *)
LEMMA GuardPushed ==
  ASSUME stack \in [Scheds -> Seq(Guards)], NEW s \in Scheds, NEW a \in Actors, NEW left \in Nat,
         NEW n \in Events \cup {0}, stack' = Pushed(s, Guard(a, left, n))
  PROVE  /\ stack' \in [Scheds -> Seq(Guards)]
         /\ \A r \in Scheds : \A i \in DOMAIN stack'[r] :
              \/ i \in DOMAIN stack[r] /\ stack'[r][i] = stack[r][i]
              \/ r = s /\ i = Len(stack[s]) + 1 /\ stack'[r][i] = Guard(a, left, n)
         /\ Running' = Running \cup {a}
         /\ \A k : k # n => InGuards(k)' = InGuards(k)
         /\ InGuards(n)' = InGuards(n) \cup {<<"guard", <<s, Len(stack[s]) + 1>>>>}
<1> DEFINE g == Guard(a, left, n)
           i0 == Len(stack[s]) + 1
<1>1. g \in Guards /\ g.actor = a /\ g.extra = n
  BY DEF Guard, Guards
<1>2. stack' = [stack EXCEPT ![s] = Append(@, g)]
  BY DEF Pushed
<1> HIDE DEF g
<1>3. /\ stack' \in [Scheds -> Seq(Guards)]
      /\ \A r \in Scheds : \A i \in DOMAIN stack'[r] :
           \/ i \in DOMAIN stack[r] /\ stack'[r][i] = stack[r][i]
           \/ r = s /\ i = i0 /\ stack'[r][i] = g
      /\ \A r \in Scheds : \A i \in DOMAIN stack[r] :
           i \in DOMAIN stack'[r] /\ stack'[r][i] = stack[r][i]
      /\ i0 \in DOMAIN stack'[s] /\ stack'[s][i0] = g
      /\ i0 \notin DOMAIN stack[s]
  BY <1>1, <1>2, StackPushed
<1>4. i0 \in Nat
  BY LenProperties
<1> HIDE DEF i0
<1>5. Running' = Running \cup {a}
  <2>1. \A b \in Actors : b \in Running' => b \in Running \cup {a}
    BY <1>1, <1>3 DEF Running, IsRunning
  <2>2. \A b \in Running : b \in Running'
    BY <1>3 DEF Running, IsRunning
  <2>3. a \in Running'
    BY <1>1, <1>3 DEF Running, IsRunning
  <2>4. Running' \subseteq Actors
    BY DEF Running
  <2> QED
    BY <2>1, <2>2, <2>3, <2>4
<1>6. /\ Extras[<<s, i0>>] = {} /\ Extras'[<<s, i0>>] = {n}
      /\ \A r \in Scheds : \A j \in Nat : <<r, j>> # <<s, i0>> => Extras'[<<r, j>>] = Extras[<<r, j>>]
  <2>1. Extras[<<s, i0>>] = {} /\ Extras'[<<s, i0>>] = {n}
    BY <1>1, <1>3, <1>4 DEF Extras
  <2>2. ASSUME NEW r \in Scheds, NEW j \in Nat, <<r, j>> # <<s, i0>>
        PROVE  Extras'[<<r, j>>] = Extras[<<r, j>>]
    <3>1. j \in DOMAIN stack'[r] <=> j \in DOMAIN stack[r]
      BY <2>2, <1>3
    <3>2. j \in DOMAIN stack[r] => stack'[r][j] = stack[r][j]
      BY <1>3
    <3> QED
      BY <3>1, <3>2 DEF Extras
  <2> QED
    BY <2>1, <2>2
<1>7. /\ \A k : k \in Extras'[<<s, i0>>] => InGuards(k)' = InGuards(k) \cup {<<"guard", <<s, i0>>>>}
      /\ \A k : k \notin Extras'[<<s, i0>>] => InGuards(k)' = InGuards(k) \ {<<"guard", <<s, i0>>>>}
      /\ \A k : k \in Extras[<<s, i0>>] <=> <<"guard", <<s, i0>>>> \in InGuards(k)
      /\ \A k : (k \in Extras'[<<s, i0>>] <=> k \in Extras[<<s, i0>>]) => InGuards(k)' = InGuards(k)
  BY <1>3, <1>4, <1>6, GuardsChange
<1>8. /\ \A k : k # n => InGuards(k)' = InGuards(k)
      /\ InGuards(n)' = InGuards(n) \cup {<<"guard", <<s, i0>>>>}
  BY <1>6, <1>7
<1> QED
  BY <1>3, <1>5, <1>8 DEF g, i0

LEMMA GuardChanged ==
  ASSUME stack \in [Scheds -> Seq(Guards)], NEW s \in Scheds, stack[s] # <<>>,
         NEW g \in Guards, g.actor = Top(s).actor, g.extra \in {0, Top(s).extra},
         stack' = WithTop(s, g)
  PROVE  /\ stack' \in [Scheds -> Seq(Guards)]
         /\ \A r \in Scheds : DOMAIN stack'[r] = DOMAIN stack[r]
         /\ \A r \in Scheds : \A i \in DOMAIN stack[r] :
              \/ stack'[r][i] = stack[r][i]
              \/ r = s /\ stack[r][i] = Top(s) /\ stack'[r][i] = g
         /\ Running' = Running
         /\ \A k \in Events : k # Top(s).extra \/ g.extra = k => InGuards(k)' = InGuards(k)
         /\ Top(s).extra \in Events /\ g.extra = 0 =>
              \A k : k = Top(s).extra => \E p \in InGuards(k) : InGuards(k)' = InGuards(k) \ {p}
<1> DEFINE i0 == Len(stack[s])
           h == Top(s)
<1>1. i0 \in DOMAIN stack[s] /\ h = stack[s][i0] /\ h \in Guards
  BY StackTop DEF Top
<1> HIDE DEF h
<1>2. stack' = [stack EXCEPT ![s] = Append(Front(@), g)]
  BY DEF WithTop
<1>3. /\ stack' \in [Scheds -> Seq(Guards)]
      /\ \A r \in Scheds : DOMAIN stack'[r] = DOMAIN stack[r]
      /\ stack'[s][i0] = g
      /\ \A r \in Scheds : \A i \in DOMAIN stack[r] :
           r # s \/ i # i0 => stack'[r][i] = stack[r][i]
  BY <1>2, StackChanged
<1>4. DOMAIN stack[s] = 1..Len(stack[s])
  BY LenProperties, Zenon
<1>5. i0 \in Nat /\ 0 \notin Events
  BY <1>1, <1>4 DEF Events
<1> HIDE DEF i0
<1>6. g.actor = h.actor /\ g.extra \in {0, h.extra}
  BY DEF h
<1>7. Running' = Running
  <2>1. \A r \in Scheds : \A i \in DOMAIN stack[r] : stack'[r][i].actor = stack[r][i].actor
    BY <1>1, <1>3, <1>6
  <2>2. Running' \subseteq Running
    BY <2>1, <1>3 DEF Running, IsRunning
  <2>3. Running \subseteq Running'
    BY <2>1, <1>3 DEF Running, IsRunning
  <2> QED
    BY <2>2, <2>3
<1>8. /\ Extras[<<s, i0>>] = {h.extra} /\ Extras'[<<s, i0>>] = {g.extra}
      /\ \A r \in Scheds : \A j \in Nat : <<r, j>> # <<s, i0>> => Extras'[<<r, j>>] = Extras[<<r, j>>]
  <2>1. Extras[<<s, i0>>] = {h.extra} /\ Extras'[<<s, i0>>] = {g.extra}
    BY <1>1, <1>3, <1>5 DEF Extras
  <2>2. ASSUME NEW r \in Scheds, NEW j \in Nat, <<r, j>> # <<s, i0>>
        PROVE  Extras'[<<r, j>>] = Extras[<<r, j>>]
    <3>1. j \in DOMAIN stack'[r] <=> j \in DOMAIN stack[r]
      BY <1>3
    <3>2. j \in DOMAIN stack[r] => stack'[r][j] = stack[r][j]
      BY <2>2, <1>3
    <3> QED
      BY <3>1, <3>2 DEF Extras
  <2> QED
    BY <2>1, <2>2
<1>9. /\ \A k : k \in Extras'[<<s, i0>>] => InGuards(k)' = InGuards(k) \cup {<<"guard", <<s, i0>>>>}
      /\ \A k : k \notin Extras'[<<s, i0>>] => InGuards(k)' = InGuards(k) \ {<<"guard", <<s, i0>>>>}
      /\ \A k : k \in Extras[<<s, i0>>] <=> <<"guard", <<s, i0>>>> \in InGuards(k)
      /\ \A k : (k \in Extras'[<<s, i0>>] <=> k \in Extras[<<s, i0>>]) => InGuards(k)' = InGuards(k)
  BY <1>3, <1>5, <1>8, GuardsChange
<1>10. \A k \in Events : k # h.extra \/ g.extra = k => InGuards(k)' = InGuards(k)
  BY <1>5, <1>6, <1>8, <1>9
<1>11. h.extra \in Events /\ g.extra = 0 =>
         \A k : k = h.extra => \E p \in InGuards(k) : InGuards(k)' = InGuards(k) \ {p}
  BY <1>5, <1>8, <1>9
<1>12. \A r \in Scheds : \A i \in DOMAIN stack[r] :
              \/ stack'[r][i] = stack[r][i]
              \/ r = s /\ stack[r][i] = h /\ stack'[r][i] = g
  BY <1>1, <1>3
<1> QED
  BY <1>3, <1>7, <1>10, <1>11, <1>12 DEF h

LEMMA GuardPopped ==
  ASSUME stack \in [Scheds -> Seq(Guards)], NEW s \in Scheds, stack[s] # <<>>,
         GuardedAtHome, OneGuard, stack' = [stack EXCEPT ![s] = Front(@)]
  PROVE  /\ stack' \in [Scheds -> Seq(Guards)]
         /\ \A r \in Scheds : \A i \in DOMAIN stack'[r] :
              /\ i \in DOMAIN stack[r] /\ stack'[r][i] = stack[r][i]
              /\ stack'[r][i].actor # Top(s).actor
         /\ Running' = Running \ {Top(s).actor}
         /\ \A k \in Events : k # Top(s).extra => InGuards(k)' = InGuards(k)
         /\ \A k : k = Top(s).extra => \E p \in InGuards(k) : InGuards(k)' = InGuards(k) \ {p}
         /\ Top(s) \in Guards /\ Len(stack[s]) \in DOMAIN stack[s]
         /\ Top(s) = stack[s][Len(stack[s])]
<1> DEFINE i0 == Len(stack[s])
           h == Top(s)
<1>1. i0 \in DOMAIN stack[s] /\ h = stack[s][i0] /\ h \in Guards
  BY StackTop DEF Top
<1> HIDE DEF h
<1>3. /\ stack' \in [Scheds -> Seq(Guards)]
      /\ \A r \in Scheds : \A i \in DOMAIN stack'[r] :
              i \in DOMAIN stack[r] /\ stack'[r][i] = stack[r][i] /\ (r = s => i # i0)
      /\ \A r \in Scheds : \A i \in DOMAIN stack[r] :
              i \in DOMAIN stack'[r] \/ (r = s /\ i = i0)
  BY StackPopped
<1>4. DOMAIN stack[s] = 1..Len(stack[s])
  BY LenProperties, Zenon
<1>5. i0 \in Nat
  BY <1>1, <1>4
<1> HIDE DEF i0
<1>6. \A r \in Scheds : \A i \in DOMAIN stack'[r] : stack'[r][i].actor # h.actor
  BY <1>1, <1>3 DEF GuardedAtHome, OneGuard
<1>7. Running' = Running \ {h.actor}
  <2>1. \A b \in Running' : b \in Running /\ b # h.actor
    BY <1>3, <1>6 DEF Running, IsRunning
  <2>2. \A b \in Running : b # h.actor => b \in Running'
    BY <1>1, <1>3 DEF Running, IsRunning
  <2> QED
    BY <2>1, <2>2
<1>8. /\ Extras[<<s, i0>>] = {h.extra} /\ Extras'[<<s, i0>>] = {}
      /\ \A r \in Scheds : \A j \in Nat : <<r, j>> # <<s, i0>> => Extras'[<<r, j>>] = Extras[<<r, j>>]
  <2>1. Extras[<<s, i0>>] = {h.extra} /\ Extras'[<<s, i0>>] = {}
    BY <1>1, <1>3, <1>5 DEF Extras
  <2>2. ASSUME NEW r \in Scheds, NEW j \in Nat, <<r, j>> # <<s, i0>>
        PROVE  Extras'[<<r, j>>] = Extras[<<r, j>>]
    <3>1. j \in DOMAIN stack'[r] <=> j \in DOMAIN stack[r]
      BY <2>2, <1>3
    <3>2. j \in DOMAIN stack[r] => stack'[r][j] = stack[r][j]
      BY <3>1, <1>3
    <3> QED
      BY <3>1, <3>2 DEF Extras
  <2> QED
    BY <2>1, <2>2
<1>9. /\ \A k : k \notin Extras'[<<s, i0>>] => InGuards(k)' = InGuards(k) \ {<<"guard", <<s, i0>>>>}
      /\ \A k : k \in Extras[<<s, i0>>] <=> <<"guard", <<s, i0>>>> \in InGuards(k)
      /\ \A k : (k \in Extras'[<<s, i0>>] <=> k \in Extras[<<s, i0>>]) => InGuards(k)' = InGuards(k)
  BY <1>3, <1>5, <1>8, GuardsChange
<1>10. \A k \in Events : k # h.extra => InGuards(k)' = InGuards(k)
  BY <1>8, <1>9
<1>11. \A k : k = h.extra => \E p \in InGuards(k) : InGuards(k)' = InGuards(k) \ {p}
  BY <1>8, <1>9
<1> QED
  BY <1>1, <1>3, <1>6, <1>7, <1>10, <1>11 DEF h, i0
-----------------------------------------------------------------------------
(* The schedulers use their queues as MpscPollableQueue says.              *)
LEMMA StepOfQueues == TypeOK /\ [Next]_vars => [QueueNext]_queueVars
<1> SUFFICES ASSUME TypeOK, [Next]_vars PROVE QueueNext \/ UNCHANGED queueVars
  OBVIOUS
<1>1. ASSUME NEW t \in Threads, Put(t) PROVE QueueNext
  <2>1. putting[t] \in Scheds \X Items
    BY <1>1 DEF Put, TypeOK
  <2>2. putting[t][1] \in Queues /\ putting[t][2] \in Values
    BY <2>1, ItemsAssumption DEF Scheds
  <2> QED
    BY <1>1, <2>2 DEF Put, QueueNext
<1>2. ASSUME NEW t \in Threads, Release(t) PROVE QueueNext
  BY <1>2 DEF Release, QueueNext
<1>3. ASSUME NEW c \in Clients, NEW a \in Actors, ClientSend(c, a) PROVE UNCHANGED queueVars
  BY <1>3 DEF ClientSend, Send
<1>4. ASSUME NEW s \in Scheds, SchedulerStep(s) PROVE QueueNext \/ UNCHANGED queueVars
  <2>1. s \in Queues
    BY DEF Scheds
  <2>2. CASE \E a \in Actors, later \in BOOLEAN : HandlerSend(s, a, later)
    BY <2>2 DEF HandlerSend, Send
  <2>3. CASE \E d \in Scheds : HandlerMigrate(s, d)
    BY <2>3 DEF HandlerMigrate
  <2>4. CASE HandlerStop(s) \/ HandlerReturn(s)
    BY <2>4 DEF HandlerStop, HandlerReturn
  <2>5. CASE DoEvent(s) \/ LeaveGuard(s)
    BY <2>5 DEF DoEvent, LeaveGuard
  <2>6. CASE \E a \in Actors : RunMailbox(s, a)
    BY <2>6 DEF RunMailbox
  <2>7. CASE RunService(s)
    BY <2>1, <2>7 DEF RunService, QueueNext
  <2>8. CASE GoOnService(s)
    BY <2>1, <2>8 DEF GoOnService, QueueNext
  <2>9. CASE ServiceItem(s)
    BY <2>1, <2>9 DEF ServiceItem, QueueNext
  <2>10. CASE Poll(s)
    BY <2>1, <2>10 DEF Poll, QueueNext
  <2> QED
    BY <1>4, <2>2, <2>3, <2>4, <2>5, <2>6, <2>7, <2>8, <2>9, <2>10 DEF SchedulerStep
<1>5. CASE UNCHANGED vars
  BY <1>5 DEF vars
<1> QED
  BY <1>1, <1>2, <1>3, <1>4, <1>5 DEF Next

(* Steps that move nothing and nobody. *)
LEMMA QuietKeeps ==
  ASSUME TypeOK, Core, QueueTypeOK', waits' \in [Actors -> BOOLEAN], UNCHANGED Contents,
         UNCHANGED <<alive, sched, migrating, mailbox, ready, pending_events, sent, handled,
                     moved, stack, putting>>
  PROVE  TypeOK' /\ Core'
<1>1. TypeOK'
  BY DEF TypeOK
<1>2. ActorsAtHome'
  BY DEF Core, ActorsAtHome, GuardedAtHome, OneGuard, ReadyAtHome, ReadyHasMail, Running, IsRunning
<1>3. Stored' = Stored /\ Held' = Held /\ Kept' = Kept /\ Extras' = Extras
  BY DEF Stored, Held, Kept, Extras
<1>4. OnTheMove'
  BY <1>3 DEF Core, OnTheMove, Way, InHands, InQueues
<1>5. NoRepeats' /\ Addressed'
  BY DEF Core, EventsKept, NoRepeats, Addressed
<1>6. OnePlace'
  BY <1>3 DEF Core, EventsKept, OnePlace, Place, Rest, Way, InHands, InQueues, InHandled, InMailbox,
              InPending, InGuards
<1> QED
  BY <1>1, <1>2, <1>4, <1>5, <1>6 DEF Core, EventsKept

(* Waking and sleeping of the ServiceActor, and of its thread. *)
LEMMA QueueStepsKeep ==
  ASSUME SInv, IInv', NEW s \in Scheds,
         \/ \E t \in Threads : Release(t)
         \/ RunService(s) \/ GoOnService(s) \/ Poll(s)
  PROVE  TypeOK' /\ Core'
<1>1. s \in Queues /\ IInv /\ TypeOK /\ Core /\ QueueTypeOK'
  BY DEF Scheds, SInv, IInv
<1>2. UNCHANGED Contents
  <2>1. CASE \E t \in Threads : Release(t)
    BY <2>1, SameVectors DEF Release, WriterRelease
  <2>2. CASE RunService(s) \/ GoOnService(s) \/ Poll(s)
    BY <2>2, <1>1, OthersAreSilent DEF RunService, GoOnService, Poll
  <2> QED
    BY <2>1, <2>2
<1>3. UNCHANGED <<alive, sched, migrating, mailbox, ready, pending_events, sent, handled,
                  moved, stack, putting>>
  BY DEF Release, RunService, GoOnService, Poll, actorVars, notes
<1>4. waits' \in [Actors -> BOOLEAN]
  BY <1>1 DEF TypeOK, Release, RunService, GoOnService, Poll, actorVars, NextGeneration
<1> QED
  BY <1>1, <1>2, <1>3, <1>4, QuietKeeps

(* What a handler asks of its EventGuard moves nothing yet. *)
LEMMA HandlerKeeps ==
  ASSUME SInv, IInv', NEW s \in Scheds,
         \/ \E d \in Scheds : HandlerMigrate(s, d)
         \/ HandlerStop(s) \/ HandlerReturn(s)
  PROVE  TypeOK' /\ Core'
<1>1. /\ stack[s] # <<>>
      /\ UNCHANGED <<queueVars, actorVars, sent, handled, moved, putting>>
  BY DEF HandlerMigrate, HandlerStop, HandlerReturn, Busy, notes
<1>2. /\ stack \in [Scheds -> Seq(Guards)] /\ TypeOK /\ QueueTypeOK' /\ Core
      /\ ActorsAtHome /\ OnTheMove /\ EventsKept
  BY DEF SInv, TypeOK, IInv, Core
<1>3. /\ Top(s) \in Guards /\ Len(stack[s]) \in DOMAIN stack[s]
      /\ Top(s) = stack[s][Len(stack[s])]
  BY <1>1, <1>2, StackTop DEF Top
<1>4. Top(s).left <= Len(mailbox[Top(s).actor]) /\ s \notin Top(s).dest
  BY <1>3 DEF SInv, TypeOK
<1>5. \E g \in Guards : /\ stack' = WithTop(s, g)
                        /\ g.actor = Top(s).actor /\ g.extra = Top(s).extra
                        /\ g.left = Top(s).left /\ s \notin g.dest
  <2>1. CASE HandlerStop(s)
    <3> DEFINE g == [Top(s) EXCEPT !.stop = TRUE]
    <3>1. g \in Guards /\ g.actor = Top(s).actor /\ g.extra = Top(s).extra /\ g.left = Top(s).left
          /\ g.dest = Top(s).dest
      BY <1>3 DEF Guards
    <3> QED
      BY <2>1, <3>1, <1>4 DEF HandlerStop
  <2>2. CASE HandlerReturn(s)
    <3> DEFINE g == [Top(s) EXCEPT !.busy = FALSE]
    <3>1. g \in Guards /\ g.actor = Top(s).actor /\ g.extra = Top(s).extra /\ g.left = Top(s).left
          /\ g.dest = Top(s).dest
      BY <1>3 DEF Guards
    <3> QED
      BY <2>2, <3>1, <1>4 DEF HandlerReturn
  <2>3. ASSUME NEW d \in Scheds, HandlerMigrate(s, d)
        PROVE  \E g \in Guards : /\ stack' = WithTop(s, g)
                                 /\ g.actor = Top(s).actor /\ g.extra = Top(s).extra
                                 /\ g.left = Top(s).left /\ s \notin g.dest
    <3> DEFINE g == [Top(s) EXCEPT !.dest = {d}]
    <3>1. g \in Guards /\ g.actor = Top(s).actor /\ g.extra = Top(s).extra /\ g.left = Top(s).left
          /\ g.dest = {d}
      BY <1>3 DEF Guards
    <3> QED
      BY <2>3, <3>1 DEF HandlerMigrate
  <2> QED
    BY <2>1, <2>2, <2>3
<1>6. PICK g \in Guards : /\ stack' = WithTop(s, g)
                          /\ g.actor = Top(s).actor /\ g.extra = Top(s).extra
                          /\ g.left = Top(s).left /\ s \notin g.dest
  BY <1>5
<1>7. /\ stack' \in [Scheds -> Seq(Guards)]
      /\ \A r \in Scheds : DOMAIN stack'[r] = DOMAIN stack[r]
      /\ \A r \in Scheds : \A i \in DOMAIN stack[r] :
           \/ stack'[r][i] = stack[r][i]
           \/ r = s /\ stack[r][i] = Top(s) /\ stack'[r][i] = g
      /\ Running' = Running
      /\ \A k \in Events : k # Top(s).extra \/ g.extra = k => InGuards(k)' = InGuards(k)
  BY <1>1, <1>2, <1>6, GuardChanged
<1>8. \A r \in Scheds : \A i \in DOMAIN stack[r] :
        /\ stack'[r][i].actor = stack[r][i].actor /\ stack'[r][i].extra = stack[r][i].extra
        /\ stack'[r][i].left = stack[r][i].left
        /\ r \notin stack'[r][i].dest
  <2>1. \A r \in Scheds : \A i \in DOMAIN stack[r] : r \notin stack[r][i].dest
    BY <1>2 DEF TypeOK
  <2> QED
    BY <1>6, <1>7, <2>1
<1>9. TypeOK'
  <2>1. \A r \in Scheds : \A i \in DOMAIN stack'[r] :
          /\ stack'[r][i].left <= Len(mailbox'[stack'[r][i].actor])
          /\ r \notin stack'[r][i].dest
    <3>1. \A r \in Scheds : \A i \in DOMAIN stack[r] :
            stack[r][i].left <= Len(mailbox[stack[r][i].actor])
      BY <1>2 DEF TypeOK
    <3>2. mailbox' = mailbox
      BY <1>1 DEF actorVars
    <3> QED
      BY <3>1, <3>2, <1>7, <1>8
  <2> QED
    BY <1>1, <1>2, <1>7, <2>1 DEF TypeOK, actorVars
<1>10. ActorsAtHome'
  <2>1. GuardedAtHome' /\ OneGuard'
    BY <1>1, <1>2, <1>7, <1>8 DEF ActorsAtHome, GuardedAtHome, OneGuard, actorVars
  <2>2. ReadyAtHome' /\ ReadyHasMail'
    BY <1>1, <1>2, <1>7 DEF ActorsAtHome, ReadyAtHome, ReadyHasMail, actorVars
  <2> QED
    BY <2>1, <2>2 DEF ActorsAtHome
<1>11. UNCHANGED Contents
  BY <1>1, SameVectors DEF queueVars
<1>12. Stored' = Stored /\ Held' = Held /\ Kept' = Kept
  BY <1>1, <1>11 DEF Stored, Held, Kept, actorVars
<1>13. OnTheMove'
  BY <1>1, <1>2, <1>11, <1>12 DEF OnTheMove, Way, InHands, InQueues, actorVars
<1>14. NoRepeats' /\ Addressed'
  <2>1. NoRepeats'
    BY <1>1, <1>2, <1>11 DEF EventsKept, NoRepeats, actorVars
  <2>2. Addressed'
    BY <1>1, <1>2, <1>7, <1>8 DEF EventsKept, Addressed, actorVars
  <2> QED
    BY <2>1, <2>2
<1>15. OnePlace'
  <2>1. \A k \in Events : InGuards(k)' = InGuards(k)
    BY <1>6, <1>7
  <2>2. \A k : InHands(k)' = InHands(k) /\ InQueues(k)' = InQueues(k) /\ InHandled(k)' = InHandled(k)
               /\ InMailbox(k)' = InMailbox(k) /\ InPending(k)' = InPending(k)
    BY <1>1, <1>12 DEF InHands, InQueues, InHandled, InMailbox, InPending, actorVars
  <2>3. \A k \in Events : Place(k)' = Place(k)
    BY <2>1, <2>2 DEF Place, Rest, Way
  <2> QED
    BY <2>3, <1>1, <1>2, PlacesKept DEF EventsKept, actorVars
<1> QED
  BY <1>9, <1>10, <1>13, <1>14, <1>15 DEF Core, EventsKept
-----------------------------------------------------------------------------
LEMMA ItemsDiffer ==
  /\ \A k, n : k # n => EventItem(k) # EventItem(n)
  /\ \A k, b : EventItem(k) # ActorItem(b)
  /\ \A a, b : a # b => ActorItem(a) # ActorItem(b)
  BY DEF EventItem, ActorItem

(* The event n for the actor a is new, or was just taken out of a queue:   *)
(* it is in no place, and its next place is to be found.                   *)
Loose(n, a) ==
  /\ n \in Events /\ a \in Actors
  /\ Rest(n) = {} /\ InHands(EventItem(n)) = {} /\ InQueues(EventItem(n))' = {}
  /\ \A k \in Events : k # n => InQueues(EventItem(k))' = InQueues(EventItem(k))
  /\ \A b \in Actors : InQueues(ActorItem(b))' = InQueues(ActorItem(b))
  /\ \A s \in Scheds : OnceOnly(Contents'[s]) /\ Range(Contents'[s]) \subseteq Range(Contents[s])
  /\ sent' \in Seq([from : Actors \cup Clients, to : Actors]) /\ Len(sent') <= MaxEvents
  /\ n <= Len(sent') /\ sent'[n].to = a
  /\ \A k \in Events : k <= Len(sent) => k <= Len(sent') /\ sent'[k] = sent[k]
  /\ \A k \in Events : k # n /\ k <= Len(sent') => k <= Len(sent)
  /\ QueueTypeOK' /\ handled' = handled /\ moved' = moved

LEMMA LooseIsNowhere ==
  ASSUME NEW n, NEW a, Loose(n, a), stack \in [Scheds -> Seq(Guards)]
  PROVE  /\ \A b \in Actors : n \notin Range(handled[b]) /\ n \notin Range(mailbox[b])
         /\ \A s \in Scheds, b \in Actors : n \notin Range(pending_events[s][b])
         /\ \A s \in Scheds : \A i \in DOMAIN stack[s] : stack[s][i].extra # n
<1>1. InHandled(n) = {} /\ InMailbox(n) = {} /\ InPending(n) = {} /\ InGuards(n) = {}
  BY DEF Loose, Rest
<1>2. \A b \in Actors : n \notin Ranges(handled)[b] /\ n \notin Ranges(mailbox)[b]
  BY <1>1 DEF InHandled, InMailbox, Tagged
<1>3. \A s \in Scheds, b \in Actors : n \notin Kept[<<s, b>>]
  <2>1. \A y \in Scheds \X Actors : n \notin Kept[y]
    BY <1>1 DEF InPending, Tagged
  <2> QED
    BY <2>1
<1>4. \A s \in Scheds : \A i \in DOMAIN stack[s] : stack[s][i].extra # n
  BY <1>1, GuardsAre
<1> QED
  BY <1>2, <1>3, <1>4 DEF Ranges, Kept

(* The loose event has found its place, or its actor is dead. *)
LEMMA LoosePlaced ==
  ASSUME OnePlace, NEW n, NEW a, Loose(n, a), alive' = alive,
         \A k \in Events : k # n => Rest(k)' = Rest(k) /\ InHands(EventItem(k))' = InHands(EventItem(k)),
         \/ a \in alive /\ \E p : Rest(n)' \cup InHands(EventItem(n))' = {p}
         \/ a \notin alive /\ Rest(n)' \cup InHands(EventItem(n))' = {}
  PROVE  OnePlace'
<1> SUFFICES ASSUME NEW k \in Events
             PROVE  /\ AtMostOne(Place(k)')
                    /\ Place(k)' # {} => k <= Len(sent')
                    /\ k <= Len(sent') /\ sent'[k].to \in alive' => Place(k)' # {}
  BY DEF OnePlace, AtMostOne
<1>1. CASE k = n
  <2>1. Place(k)' = Rest(n)' \cup InHands(EventItem(n))'
    BY <1>1 DEF Place, Way, Loose
  <2>2. n <= Len(sent') /\ sent'[n].to = a
    BY DEF Loose
  <2> QED
    BY <1>1, <2>1, <2>2 DEF AtMostOne
<1>2. CASE k # n
  <2>1. Place(k)' = Place(k)
    BY <1>2 DEF Place, Way, Loose
  <2>2. k <= Len(sent') => k <= Len(sent)
    BY <1>2 DEF Loose
  <2>3. k <= Len(sent) => k <= Len(sent') /\ sent'[k] = sent[k]
    BY DEF Loose
  <2>4. /\ AtMostOne(Place(k))
        /\ Place(k) # {} => k <= Len(sent)
        /\ k <= Len(sent) /\ sent[k].to \in alive => Place(k) # {}
    BY DEF OnePlace
  <2> QED
    BY <2>1, <2>2, <2>3, <2>4
<1> QED
  BY <1>1, <1>2

(* What everywhere else follows from the event having been loose. *)
LEMMA LooseOthers ==
  ASSUME TypeOK, Core, NEW n, NEW a, Loose(n, a)
  PROVE  /\ \A b \in Actors : \A k \in Range(handled'[b]) \cup Range(mailbox[b]) : sent'[k].to = b
         /\ \A s \in Scheds, b \in Actors : \A k \in Range(pending_events[s][b]) : sent'[k].to = b
         /\ \A s \in Scheds : \A i \in DOMAIN stack[s] :
              stack[s][i].extra # 0 => sent'[stack[s][i].extra].to = stack[s][i].actor
         /\ \A b \in Actors : OnceOnly(handled'[b])
<1>1. handled' = handled /\ OnePlace /\ Addressed /\ NoRepeats
  BY DEF Loose, Core, EventsKept
<1>2. \A k \in Events : Rest(k) # {} => sent'[k] = sent[k]
  <2>1. \A k \in Events : Rest(k) # {} => k <= Len(sent)
    BY <1>1 DEF OnePlace, Place
  <2> QED
    BY <2>1 DEF Loose
<1>3. ASSUME NEW b \in Actors, NEW k \in Range(handled[b]) \cup Range(mailbox[b])
      PROVE  sent'[k].to = b
  <2>1. k \in Events
    <3>1. handled[b] \in Seq(Events) /\ mailbox[b] \in Seq(Events)
      BY DEF TypeOK
    <3>2. \A q \in Seq(Events) : Range(q) \subseteq Events
      BY RangeOfSeq
    <3> QED
      BY <3>1, <3>2
  <2>2. k \in Ranges(handled)[b] \/ k \in Ranges(mailbox)[b]
    BY <1>3 DEF Ranges
  <2>3. Rest(k) # {}
    BY <2>2 DEF Rest, InHandled, InMailbox, Tagged
  <2> QED
    BY <2>1, <2>3, <1>1, <1>2, <1>3 DEF Addressed
<1>4. ASSUME NEW s \in Scheds, NEW b \in Actors, NEW k \in Range(pending_events[s][b])
      PROVE  sent'[k].to = b
  <2>1. k \in Events
    <3>1. pending_events[s][b] \in Seq(Events)
      BY DEF TypeOK
    <3>2. \A q \in Seq(Events) : Range(q) \subseteq Events
      BY RangeOfSeq
    <3> QED
      BY <3>1, <3>2
  <2>2. k \in Kept[<<s, b>>] /\ <<s, b>> \in Scheds \X Actors
    BY <1>4 DEF Kept
  <2>3. Rest(k) # {}
    BY <2>2 DEF Rest, InPending, Tagged
  <2> QED
    BY <2>1, <2>3, <1>1, <1>2, <1>4 DEF Addressed
<1>5. ASSUME NEW s \in Scheds, NEW i \in DOMAIN stack[s], stack[s][i].extra # 0
      PROVE  sent'[stack[s][i].extra].to = stack[s][i].actor
  <2>1. stack \in [Scheds -> Seq(Guards)] /\ DOMAIN stack[s] = 1..Len(stack[s])
    BY LenProperties DEF TypeOK
  <2>2. stack[s][i] \in Guards
    BY <2>1, ElementOfSeq
  <2>3. stack[s][i].extra \in Events
    BY <2>2, <1>5 DEF Guards
  <2>4. Rest(stack[s][i].extra) # {}
    BY <2>1, GuardsAre DEF Rest
  <2> QED
    BY <2>3, <2>4, <1>1, <1>2, <1>5 DEF Addressed
<1> QED
  BY <1>1, <1>3, <1>4, <1>5 DEF NoRepeats

(* Wherever the event goes, the actors on the move are not disturbed. *)
LEMMA LooseOnTheMove ==
  ASSUME TypeOK, Core, NEW n, NEW a, Loose(n, a), UNCHANGED <<alive, sched, migrating>>,
         \A b \in Actors : InHands(ActorItem(b))' = InHands(ActorItem(b)),
         \A t \in Threads : \/ putting'[t] = putting[t]
                            \/ \A b \in Actors : putting'[t][2] # ActorItem(b),
         \A s \in Scheds, b \in Actors : pending_events'[s][b] # <<>> =>
           pending_events[s][b] # <<>> \/ (migrating[b] /\ sched[b] = s)
  PROVE  OnTheMove'
<1>1. \A b \in Actors : Way(ActorItem(b))' = Way(ActorItem(b))
  BY DEF Way, Loose
<1>2. \A s \in Scheds, b \in Actors :
        ActorItem(b) \in Range(Contents'[s]) => ActorItem(b) \in Range(Contents[s])
  BY DEF Loose
<1>3. OnTheMove
  BY DEF Core
<1> SUFFICES ASSUME NEW b \in Actors
             PROVE  /\ migrating'[b] => b \in alive'
                    /\ migrating'[b] <=> Way(ActorItem(b))' # {}
                    /\ AtMostOne(Way(ActorItem(b))')
                    /\ \A t \in Threads : putting'[t] # <<>> /\ putting'[t][2] = ActorItem(b) =>
                                            putting'[t][1] = sched'[b]
                    /\ \A s \in Scheds : ActorItem(b) \in Range(Contents'[s]) => sched'[b] = s
                    /\ \A s \in Scheds : pending_events'[s][b] # <<>> => migrating'[b] /\ sched'[b] = s
  BY DEF OnTheMove, AtMostOne
<1> QED
  BY <1>1, <1>2, <1>3 DEF OnTheMove

LEMMA LooseTypes ==
  ASSUME TypeOK, NEW n, NEW a, Loose(n, a), UNCHANGED <<alive, sched, migrating>>,
         mailbox' \in [Actors -> Seq(Events)], waits' \in [Actors -> BOOLEAN],
         ready' \in [Scheds -> SUBSET Actors],
         pending_events' \in [Scheds -> [Actors -> Seq(Events)]],
         stack' \in [Scheds -> Seq(Guards)],
         putting' \in [Threads -> {<<>>} \cup (Scheds \X Items)],
         \A s \in Scheds : \A i \in DOMAIN stack'[s] :
           /\ stack'[s][i].left <= Len(mailbox'[stack'[s][i].actor])
           /\ s \notin stack'[s][i].dest
  PROVE  TypeOK'
  BY DEF TypeOK, Loose

(* send_impl to a stopped actor. *)
LEMMA SendDeadKeeps ==
  ASSUME TypeOK, Core, NEW n, NEW a, Loose(n, a), a \notin alive,
         UNCHANGED <<actorVars, stack, putting>>
  PROVE  TypeOK' /\ Core'
<1>1. TypeOK'
  BY DEF TypeOK, Loose, actorVars
<1>2. ActorsAtHome'
  BY DEF Core, ActorsAtHome, GuardedAtHome, OneGuard, ReadyAtHome, ReadyHasMail, Running, IsRunning,
         actorVars
<1>3. Held' = Held /\ Kept' = Kept /\ Extras' = Extras
  BY DEF Held, Kept, Extras, actorVars
<1>4. /\ \A k : InHands(k)' = InHands(k) /\ Rest(k)' = Rest(k)
      /\ UNCHANGED <<alive, sched, migrating, mailbox, pending_events, handled, stack, putting>>
  BY <1>3 DEF InHands, Rest, InHandled, InMailbox, InPending, InGuards, Loose, actorVars
<1>5. OnTheMove'
  BY <1>4, LooseOnTheMove
<1>6. NoRepeats' /\ Addressed'
  <2>1. NoRepeats'
    BY <1>4 DEF Core, EventsKept, NoRepeats, Loose
  <2>2. Addressed'
    BY <1>4, LooseOthers DEF Addressed
  <2> QED
    BY <2>1, <2>2
<1>7. OnePlace
  BY DEF Core, EventsKept
<1>8. Rest(n)' \cup InHands(EventItem(n))' = {}
  BY <1>4 DEF Loose
<1>9. OnePlace'
  BY <1>4, <1>7, <1>8, LoosePlaced
<1> QED
  BY <1>1, <1>2, <1>5, <1>6, <1>9 DEF Core, EventsKept

(* send_impl that runs the event at once. *)
LEMMA RunNowKeeps ==
  ASSUME TypeOK, Core, NEW n, NEW a, Loose(n, a), NEW t, OnCurrentSched(t, a), a \in alive,
         ~IsRunning(a), RunNow(t, a, n)
  PROVE  TypeOK' /\ Core'
<1>1. /\ a \in Actors /\ n \in Events /\ t \in Scheds /\ sched[a] = t /\ ~migrating[a]
      /\ Len(mailbox[a]) \in Nat /\ stack \in [Scheds -> Seq(Guards)]
      /\ 0 \notin Events /\ a \notin Running
  BY LenProperties DEF Loose, OnCurrentSched, TypeOK, Events, Running
<1> DEFINE left == Len(mailbox[a])
           g == Guard(a, left, n)
<1>2. stack' = Pushed(t, Guard(a, left, n)) /\ UNCHANGED <<actorVars, putting>>
  BY DEF RunNow
<1>3. g.actor = a /\ g.left = left /\ g.extra = n /\ g.dest = {}
  BY DEF Guard
<1> HIDE DEF left
<1>4. /\ stack' \in [Scheds -> Seq(Guards)]
      /\ \A r \in Scheds : \A i \in DOMAIN stack'[r] :
           \/ i \in DOMAIN stack[r] /\ stack'[r][i] = stack[r][i]
           \/ r = t /\ i = Len(stack[t]) + 1 /\ stack'[r][i] = g
      /\ Running' = Running \cup {a}
      /\ \A k : k # n => InGuards(k)' = InGuards(k)
      /\ InGuards(n)' = InGuards(n) \cup {<<"guard", <<t, Len(stack[t]) + 1>>>>}
  BY <1>1, <1>2, GuardPushed DEF left
<1> HIDE DEF g
<1>5. /\ UNCHANGED <<alive, sched, migrating, mailbox, waits, ready, pending_events>>
      /\ handled' = handled /\ putting' = putting
  BY <1>2 DEF actorVars, Loose
<1>6. TypeOK'
  <2>1. \A r \in Scheds : \A i \in DOMAIN stack'[r] :
          /\ stack'[r][i].left <= Len(mailbox'[stack'[r][i].actor])
          /\ r \notin stack'[r][i].dest
    <3>1. \A r \in Scheds : \A i \in DOMAIN stack[r] :
            stack[r][i].left <= Len(mailbox[stack[r][i].actor]) /\ r \notin stack[r][i].dest
      BY DEF TypeOK
    <3>2. left <= Len(mailbox[a])
      BY <1>1 DEF left
    <3> QED
      BY <3>1, <3>2, <1>3, <1>4, <1>5
  <2> QED
    BY <2>1, <1>4, <1>5, LooseTypes DEF TypeOK
<1>7. ActorsAtHome'
  <2>1. GuardedAtHome'
    <3>1. \A r \in Scheds : \A i \in DOMAIN stack[r] :
            /\ stack[r][i].actor \in alive
            /\ sched[stack[r][i].actor] = r /\ ~migrating[stack[r][i].actor]
      BY DEF Core, ActorsAtHome, GuardedAtHome
    <3>2. ASSUME NEW r \in Scheds, NEW i \in DOMAIN stack'[r]
          PROVE  /\ stack'[r][i].actor \in alive
                 /\ sched[stack'[r][i].actor] = r /\ ~migrating[stack'[r][i].actor]
      <4>1. CASE i \in DOMAIN stack[r] /\ stack'[r][i] = stack[r][i]
        BY <3>1, <4>1
      <4>2. CASE r = t /\ stack'[r][i] = g
        <5>1. stack'[r][i].actor = a
          BY <4>2, <1>3
        <5> QED
          BY <5>1, <4>2, <1>1
      <4> QED
        BY <4>1, <4>2, <1>4
    <3> QED
      BY <3>2, <1>5 DEF GuardedAtHome
  <2>2. \A r \in Scheds : \A i \in DOMAIN stack[r] : stack[r][i].actor # a
    BY <1>1 DEF Running, IsRunning
  <2>3. OneGuard'
    BY <2>2, <1>3, <1>4 DEF Core, ActorsAtHome, OneGuard
  <2>4. ReadyAtHome' /\ ReadyHasMail'
    BY <1>4, <1>5 DEF Core, ActorsAtHome, ReadyAtHome, ReadyHasMail
  <2> QED
    BY <2>1, <2>3, <2>4 DEF ActorsAtHome
<1>8. Held' = Held /\ Kept' = Kept
  BY <1>5 DEF Held, Kept
<1>9. \A k : /\ InHands(k)' = InHands(k) /\ InHandled(k)' = InHandled(k)
             /\ InMailbox(k)' = InMailbox(k) /\ InPending(k)' = InPending(k)
  BY <1>5, <1>8 DEF InHands, InHandled, InMailbox, InPending
<1>10. OnTheMove'
  BY <1>5, <1>9, LooseOnTheMove
<1>11. NoRepeats'
  BY <1>5 DEF Core, EventsKept, NoRepeats, Loose
<1>12. Addressed'
  <2>1. sent'[n].to = a
    BY DEF Loose
  <2>2. \A r \in Scheds : \A i \in DOMAIN stack'[r] :
          stack'[r][i].extra # 0 => sent'[stack'[r][i].extra].to = stack'[r][i].actor
    BY <2>1, <1>3, <1>4, LooseOthers
  <2> QED
    BY <2>2, <1>5, LooseOthers DEF Addressed
<1>13. OnePlace'
  <2>1. \A k \in Events : k # n => Rest(k)' = Rest(k) /\ InHands(EventItem(k))' = InHands(EventItem(k))
    BY <1>4, <1>9 DEF Rest
  <2>2. Rest(n)' = Rest(n) \cup {<<"guard", <<t, Len(stack[t]) + 1>>>>}
    BY <1>4, <1>9 DEF Rest
  <2>3. Rest(n)' \cup InHands(EventItem(n))' = {<<"guard", <<t, Len(stack[t]) + 1>>>>}
    BY <2>2, <1>9 DEF Loose
  <2> QED
    BY <2>1, <2>3, <1>5, LoosePlaced DEF Core, EventsKept
<1> QED
  BY <1>6, <1>7, <1>10, <1>11, <1>12, <1>13 DEF Core, EventsKept

(* send_impl that leaves the event in the mailbox. *)
LEMMA AddToMailboxKeeps ==
  ASSUME TypeOK, Core, NEW n, NEW a, Loose(n, a), NEW t, OnCurrentSched(t, a), a \in alive,
         NEW later \in BOOLEAN, AddToMailbox(a, n, later)
  PROVE  TypeOK' /\ Core'
<1>1. /\ a \in Actors /\ n \in Events /\ sched[a] = t /\ sched[a] \in Scheds /\ ~migrating[a]
      /\ mailbox \in [Actors -> Seq(Events)] /\ stack \in [Scheds -> Seq(Guards)]
      /\ ready \in [Scheds -> SUBSET Actors]
  BY DEF Loose, OnCurrentSched, TypeOK
<1>2. /\ UNCHANGED <<alive, sched, migrating, pending_events, stack, putting>>
      /\ handled' = handled
  BY DEF AddToMailbox, Loose
<1>3. n \notin Range(mailbox[a]) /\ OnceOnly(mailbox[a])
  BY <1>1, LooseIsNowhere DEF Core, EventsKept, NoRepeats
<1> DEFINE q == Append(mailbox[a], n)
<1>4. /\ q \in Seq(Events) /\ Range(q) = Range(mailbox[a]) \cup {n} /\ OnceOnly(q) /\ q # <<>>
      /\ Len(q) = Len(mailbox[a]) + 1 /\ Len(mailbox[a]) \in Nat
  BY <1>1, <1>3, AppendOnce, AppendProperties, LenProperties
<1>5. mailbox' = [mailbox EXCEPT ![a] = q]
  BY DEF AddToMailbox
<1> HIDE DEF q
<1>6. /\ \A k : k \in Range(q) => InMailbox(k)' = InMailbox(k) \cup {<<"mailbox", a>>}
      /\ \A k : k \notin Range(q) => InMailbox(k)' = InMailbox(k) \ {<<"mailbox", a>>}
      /\ \A k : (k \in Range(q) <=> k \in Range(mailbox[a])) => InMailbox(k)' = InMailbox(k)
      /\ mailbox'[a] = q /\ \A b \in Actors : b # a => mailbox'[b] = mailbox[b]
  BY <1>1, <1>5, MailboxSet
<1>7. mailbox' \in [Actors -> Seq(Events)]
  BY <1>1, <1>4, <1>5
<1>8. /\ \A b \in Actors : b # a => \A s \in Scheds : b \in ready'[s] <=> b \in ready[s]
      /\ \A s \in Scheds : s # sched[a] => (a \in ready'[s] <=> a \in ready[s])
      /\ a \notin Running => a \in ready'[sched[a]]
      /\ ready' \in [Scheds -> SUBSET Actors]
  BY <1>1 DEF AddToMailbox, Running
<1>9. TypeOK'
  <2>1. waits' \in [Actors -> BOOLEAN]
    BY DEF AddToMailbox, TypeOK
  <2>2. \A s \in Scheds : \A i \in DOMAIN stack'[s] :
          /\ stack'[s][i].left <= Len(mailbox'[stack'[s][i].actor])
          /\ s \notin stack'[s][i].dest
    <3> SUFFICES ASSUME NEW s \in Scheds, NEW i \in DOMAIN stack[s]
                 PROVE  /\ stack[s][i].left <= Len(mailbox'[stack[s][i].actor])
                        /\ s \notin stack[s][i].dest
      BY <1>2
    <3>1. stack[s][i].left <= Len(mailbox[stack[s][i].actor]) /\ s \notin stack[s][i].dest
      BY DEF TypeOK
    <3>2. stack[s][i] \in Guards
      BY <1>1, ElementOfSeq, LenProperties
    <3>3. stack[s][i].actor \in Actors /\ stack[s][i].left \in Nat
      BY <3>2 DEF Guards
    <3>4. CASE stack[s][i].actor = a
      BY <3>1, <3>3, <3>4, <1>4, <1>6
    <3>5. CASE stack[s][i].actor # a
      BY <3>1, <3>3, <3>5, <1>6
    <3> QED
      BY <3>4, <3>5
  <2> QED
    BY <2>1, <2>2, <1>2, <1>7, <1>8, LooseTypes DEF TypeOK
<1>10. ActorsAtHome'
  <2>1. GuardedAtHome' /\ OneGuard'
    BY <1>2 DEF Core, ActorsAtHome, GuardedAtHome, OneGuard
  <2>2. ReadyAtHome'
    <3> SUFFICES ASSUME NEW s \in Scheds, NEW b \in ready'[s]
                 PROVE  b \in alive /\ sched[b] = s /\ ~migrating[b]
      BY <1>2 DEF ReadyAtHome
    <3>1. b \in Actors
      BY <1>8
    <3>2. CASE b \in ready[s]
      BY <3>2 DEF Core, ActorsAtHome, ReadyAtHome
    <3>3. CASE b = a /\ s = sched[a]
      BY <3>3, <1>1
    <3> QED
      BY <3>1, <3>2, <3>3, <1>8
  <2>3. Running' = Running
    BY <1>2 DEF Running, IsRunning
  <2>4. ReadyHasMail'
    <3> SUFFICES ASSUME NEW b \in alive, b \notin Running, ~migrating[b]
                 PROVE  b \in ready'[sched[b]] <=> mailbox'[b] # <<>>
      BY <1>2, <2>3 DEF ReadyHasMail
    <3>1. b \in Actors /\ sched[b] \in Scheds
      BY DEF TypeOK
    <3>2. CASE b = a
      BY <3>2, <1>4, <1>6, <1>8
    <3>3. CASE b # a
      BY <3>1, <3>3, <1>6, <1>8 DEF Core, ActorsAtHome, ReadyHasMail
    <3> QED
      BY <3>2, <3>3
  <2> QED
    BY <2>1, <2>2, <2>4 DEF ActorsAtHome
<1>11. Held' = Held /\ Kept' = Kept /\ Extras' = Extras
  BY <1>2 DEF Held, Kept, Extras
<1>12. \A k : /\ InHands(k)' = InHands(k) /\ InHandled(k)' = InHandled(k)
              /\ InGuards(k)' = InGuards(k) /\ InPending(k)' = InPending(k)
  BY <1>2, <1>11 DEF InHands, InHandled, InGuards, InPending
<1>13. OnTheMove'
  BY <1>2, <1>12, LooseOnTheMove
<1>14. NoRepeats'
  <2>1. \A b \in Actors : OnceOnly(mailbox'[b])
    BY <1>4, <1>6 DEF Core, EventsKept, NoRepeats
  <2> QED
    BY <2>1, <1>2 DEF Core, EventsKept, NoRepeats, Loose
<1>15. Addressed'
  <2>1. sent'[n].to = a
    BY DEF Loose
  <2>2. \A b \in Actors : \A k \in Range(mailbox'[b]) : sent'[k].to = b
    BY <2>1, <1>4, <1>6, LooseOthers
  <2> QED
    BY <2>2, <1>2, LooseOthers DEF Addressed
<1>16. OnePlace'
  <2>1. \A k : k # n => InMailbox(k)' = InMailbox(k)
    BY <1>4, <1>6
  <2>2. InMailbox(n)' = InMailbox(n) \cup {<<"mailbox", a>>}
    BY <1>4, <1>6
  <2>3. \A k \in Events : k # n => Rest(k)' = Rest(k) /\ InHands(EventItem(k))' = InHands(EventItem(k))
    BY <2>1, <1>12 DEF Rest
  <2>4. Rest(n)' = Rest(n) \cup {<<"mailbox", a>>}
    BY <2>2, <1>12 DEF Rest
  <2>5. Rest(n)' \cup InHands(EventItem(n))' = {<<"mailbox", a>>}
    BY <2>4, <1>12 DEF Loose
  <2> QED
    BY <2>3, <2>5, <1>2, LoosePlaced DEF Core, EventsKept
<1> QED
  BY <1>9, <1>10, <1>13, <1>14, <1>15, <1>16 DEF Core, EventsKept

(* send_to_scheduler: to the events that wait for the actor, or away. *)
LEMMA SendPendingKeeps ==
  ASSUME TypeOK, Core, NEW n, NEW a, Loose(n, a), NEW t \in Threads, ~OnCurrentSched(t, a),
         a \in alive, sched[a] = t, SendToScheduler(t, a, n)
  PROVE  TypeOK' /\ Core'
<1>0. UNCHANGED <<alive, sched, migrating, mailbox, waits, ready, stack, putting>>
  BY DEF SendToScheduler
<1>1. /\ a \in Actors /\ n \in Events /\ t \in Scheds /\ migrating[a]
      /\ pending_events \in [Scheds -> [Actors -> Seq(Events)]]
      /\ stack \in [Scheds -> Seq(Guards)] /\ handled' = handled
  BY DEF Loose, OnCurrentSched, TypeOK
<1>3. n \notin Range(pending_events[t][a]) /\ OnceOnly(pending_events[t][a])
      /\ pending_events[t][a] \in Seq(Events)
  BY <1>1, LooseIsNowhere DEF Core, EventsKept, NoRepeats
<1> DEFINE q == Append(pending_events[t][a], n)
<1>4. q \in Seq(Events) /\ Range(q) = Range(pending_events[t][a]) \cup {n} /\ OnceOnly(q)
  BY <1>1, <1>3, AppendOnce
<1>5. pending_events' = [pending_events EXCEPT ![t][a] = q]
  BY DEF SendToScheduler
<1> HIDE DEF q
<1>2. /\ pending_events'[t][a] = q
      /\ \A r \in Scheds, b \in Actors :
           r # t \/ b # a => pending_events'[r][b] = pending_events[r][b]
  BY <1>1, <1>5
<1>6. /\ \A k : k \in Range(q) => InPending(k)' = InPending(k) \cup {<<"pending", <<t, a>>>>}
      /\ \A k : (k \in Range(q) <=> k \in Range(pending_events[t][a])) => InPending(k)' = InPending(k)
  <2>1. /\ \A k : k \in Range(pending_events'[t][a]) =>
             InPending(k)' = InPending(k) \cup {<<"pending", <<t, a>>>>}
        /\ \A k : (k \in Range(pending_events'[t][a]) <=> k \in Range(pending_events[t][a]))
             => InPending(k)' = InPending(k)
    BY <1>1, <1>2, PendingSet, ZenonT(60)
  <2> QED
    BY <2>1, <1>2
<1>7. pending_events' \in [Scheds -> [Actors -> Seq(Events)]]
  BY <1>1, <1>4, <1>5
<1>8. TypeOK'
  <2>1. \A s \in Scheds : \A i \in DOMAIN stack'[s] :
          /\ stack'[s][i].left <= Len(mailbox'[stack'[s][i].actor])
          /\ s \notin stack'[s][i].dest
    BY <1>0 DEF TypeOK
  <2> QED
    BY <2>1, <1>0, <1>7, LooseTypes DEF TypeOK
<1>9. ActorsAtHome'
  BY <1>0 DEF Core, ActorsAtHome, GuardedAtHome, OneGuard, ReadyAtHome, ReadyHasMail, Running, IsRunning
<1>11. Held' = Held /\ Extras' = Extras
  BY <1>0 DEF Held, Extras
<1>12. \A k : /\ InHands(k)' = InHands(k) /\ InHandled(k)' = InHandled(k)
              /\ InGuards(k)' = InGuards(k) /\ InMailbox(k)' = InMailbox(k)
  BY <1>0, <1>1, <1>11 DEF InHands, InHandled, InGuards, InMailbox
<1>13. OnTheMove'
  <2>1. \A s \in Scheds, b \in Actors : pending_events'[s][b] # <<>> =>
           pending_events[s][b] # <<>> \/ (migrating[b] /\ sched[b] = s)
    BY <1>1, <1>2
  <2> QED
    BY <2>1, <1>0, <1>12, LooseOnTheMove
<1>14. NoRepeats'
  <2>1. \A s \in Scheds, b \in Actors : OnceOnly(pending_events'[s][b])
    BY <1>2, <1>4 DEF Core, EventsKept, NoRepeats
  <2> QED
    BY <2>1, <1>0, <1>1 DEF Core, EventsKept, NoRepeats, Loose
<1>15. Addressed'
  <2>1. sent'[n].to = a
    BY DEF Loose
  <2>2. \A s \in Scheds, b \in Actors : \A k \in Range(pending_events'[s][b]) : sent'[k].to = b
    <3>1. \A s \in Scheds, b \in Actors : \A k \in Range(pending_events[s][b]) : sent'[k].to = b
      BY LooseOthers
    <3>2. \A k \in Range(q) : sent'[k].to = a
      BY <2>1, <3>1, <1>1, <1>4
    <3>3. ASSUME NEW s \in Scheds, NEW b \in Actors, NEW k \in Range(pending_events'[s][b])
          PROVE  sent'[k].to = b
      <4>1. CASE s = t /\ b = a
        BY <4>1, <3>2, <3>3, <1>2
      <4>2. CASE s # t \/ b # a
        BY <4>2, <3>1, <3>3, <1>2
      <4> QED
        BY <4>1, <4>2
    <3> QED
      BY <3>3
  <2> QED
    BY <2>2, <1>0, <1>1, LooseOthers DEF Addressed
<1>16. OnePlace'
  <2>1. \A k : k # n => InPending(k)' = InPending(k)
    BY <1>4, <1>6
  <2>2. InPending(n)' = InPending(n) \cup {<<"pending", <<t, a>>>>}
    BY <1>4, <1>6
  <2>3. \A k \in Events : k # n => Rest(k)' = Rest(k) /\ InHands(EventItem(k))' = InHands(EventItem(k))
    BY <2>1, <1>12 DEF Rest
  <2>4. Rest(n)' = Rest(n) \cup {<<"pending", <<t, a>>>>}
    BY <2>2, <1>12 DEF Rest
  <2>5. Rest(n)' \cup InHands(EventItem(n))' = {<<"pending", <<t, a>>>>}
    BY <2>4, <1>12 DEF Loose
  <2> QED
    BY <2>3, <2>5, <1>0, <1>1, LoosePlaced DEF Core, EventsKept
<1> QED
  BY <1>8, <1>9, <1>13, <1>14, <1>15, <1>16 DEF Core, EventsKept

LEMMA SendAwayKeeps ==
  ASSUME TypeOK, Core, NEW n, NEW a, Loose(n, a), NEW t \in Threads, a \in alive,
         putting[t] = <<>>, putting' = [putting EXCEPT ![t] = <<sched[a], EventItem(n)>>],
         UNCHANGED <<actorVars, stack>>
  PROVE  TypeOK' /\ Core'
<1>1. /\ a \in Actors /\ n \in Events /\ sched[a] \in Scheds /\ handled' = handled
      /\ putting \in [Threads -> {<<>>} \cup (Scheds \X Items)] /\ EventItem(n) \in Items
  BY DEF Loose, TypeOK, Items
<1>2. UNCHANGED <<alive, sched, migrating, mailbox, waits, ready, pending_events, stack>>
  BY DEF actorVars
<1>3. /\ putting'[t] = <<sched[a], EventItem(n)>> /\ putting'[t][2] = EventItem(n)
      /\ \A u \in Threads : u # t => putting'[u] = putting[u]
      /\ putting' \in [Threads -> {<<>>} \cup (Scheds \X Items)]
  BY <1>1
<1>4. /\ InHands(EventItem(n))' = InHands(EventItem(n)) \cup { <<"thread", t>> }
      /\ \A x : x # EventItem(n) => InHands(x)' = InHands(x)
  BY <1>1, HandsFilled
<1>5. TypeOK'
  <2>1. \A s \in Scheds : \A i \in DOMAIN stack'[s] :
          /\ stack'[s][i].left <= Len(mailbox'[stack'[s][i].actor])
          /\ s \notin stack'[s][i].dest
    BY <1>2 DEF TypeOK
  <2> QED
    BY <2>1, <1>2, <1>3, LooseTypes DEF TypeOK
<1>6. ActorsAtHome'
  BY <1>2 DEF Core, ActorsAtHome, GuardedAtHome, OneGuard, ReadyAtHome, ReadyHasMail, Running, IsRunning
<1>7. Kept' = Kept /\ Extras' = Extras
  BY <1>2 DEF Kept, Extras
<1>8. \A k : Rest(k)' = Rest(k)
  BY <1>1, <1>2, <1>7 DEF Rest, InPending, InHandled, InGuards, InMailbox
<1>9. OnTheMove'
  <2>1. \A b \in Actors : EventItem(n) # ActorItem(b)
    BY ItemsDiffer
  <2>2. \A u \in Threads : \/ putting'[u] = putting[u]
                           \/ \A b \in Actors : putting'[u][2] # ActorItem(b)
    BY <2>1, <1>3
  <2>3. \A b \in Actors : InHands(ActorItem(b))' = InHands(ActorItem(b))
    BY <2>1, <1>4
  <2> QED
    BY <2>2, <2>3, <1>2, LooseOnTheMove
<1>10. NoRepeats' /\ Addressed'
  <2>1. NoRepeats'
    BY <1>1, <1>2 DEF Core, EventsKept, NoRepeats, Loose
  <2>2. Addressed'
    BY <1>2, LooseOthers DEF Addressed
  <2> QED
    BY <2>1, <2>2
<1>11. OnePlace'
  <2>1. \A k \in Events : k # n => Rest(k)' = Rest(k) /\ InHands(EventItem(k))' = InHands(EventItem(k))
    BY <1>4, <1>8, ItemsDiffer
  <2>2. Rest(n)' \cup InHands(EventItem(n))' = {<<"thread", t>>}
    BY <1>4, <1>8 DEF Loose
  <2> QED
    BY <2>1, <2>2, <1>2, LoosePlaced DEF Core, EventsKept
<1> QED
  BY <1>5, <1>6, <1>9, <1>10, <1>11 DEF Core, EventsKept

(* Scheduler::send_impl finds a place for every event. *)
LEMMA SendImplKeeps ==
  ASSUME TypeOK, Core, NEW n, NEW a, Loose(n, a), NEW t \in Threads, Free(t),
         NEW later \in BOOLEAN, SendImpl(t, a, n, later)
  PROVE  TypeOK' /\ Core'
<1>1. CASE a \notin alive
  <2>1. UNCHANGED <<actorVars, stack, putting>>
    BY <1>1 DEF SendImpl
  <2> QED
    BY <1>1, <2>1, SendDeadKeeps
<1>2. CASE a \in alive /\ OnCurrentSched(t, a)
  <2>1. CASE ~later /\ ~IsRunning(a) /\ ~MustWait(a)
    <3>1. RunNow(t, a, n)
      BY <1>2, <2>1 DEF SendImpl
    <3> QED
      BY <1>2, <2>1, <3>1, RunNowKeeps
  <2>2. CASE ~(~later /\ ~IsRunning(a) /\ ~MustWait(a))
    <3>1. AddToMailbox(a, n, later)
      BY <1>2, <2>2 DEF SendImpl
    <3> QED
      BY <1>2, <3>1, AddToMailboxKeeps
  <2> QED
    BY <2>1, <2>2
<1>3. CASE a \in alive /\ ~OnCurrentSched(t, a)
  <2>1. SendToScheduler(t, a, n)
    BY <1>3 DEF SendImpl
  <2>2. CASE sched[a] = t
    BY <1>3, <2>1, <2>2, SendPendingKeeps
  <2>3. CASE sched[a] # t
    <3>1. /\ putting[t] = <<>> /\ putting' = [putting EXCEPT ![t] = <<sched[a], EventItem(n)>>]
          /\ UNCHANGED <<actorVars, stack>>
      BY <2>1, <2>3 DEF SendToScheduler, Free
    <3> QED
      BY <1>3, <3>1, SendAwayKeeps
  <2> QED
    BY <2>2, <2>3
<1> QED
  BY <1>1, <1>2, <1>3

(* A new event is loose: nobody has its number yet. *)
LEMMA SendKeeps ==
  ASSUME SInv, NEW t \in Threads, Free(t), NEW from \in Actors \cup Clients, NEW a \in Actors,
         NEW later \in BOOLEAN, Send(t, from, a, later)
  PROVE  TypeOK' /\ Core'
<1> DEFINE m == [from |-> from, to |-> a]
<1>0. PICK n \in Nat : n = Len(sent) + 1
  BY LenProperties DEF SInv, TypeOK
<1>1. /\ sent \in Seq([from : Actors \cup Clients, to : Actors]) /\ Len(sent) < MaxEvents
      /\ sent' = Append(sent, m) /\ SendImpl(t, a, n, later)
      /\ UNCHANGED <<queueVars, handled, moved>>
  BY <1>0 DEF SInv, TypeOK, Send
<1>2. m \in [from : Actors \cup Clients, to : Actors] /\ m.to = a
  OBVIOUS
<1> HIDE DEF m
<1>3. /\ sent' \in Seq([from : Actors \cup Clients, to : Actors]) /\ Len(sent') = Len(sent) + 1
      /\ sent'[Len(sent) + 1] = m /\ \A i \in 1..Len(sent) : sent'[i] = sent[i]
      /\ Len(sent) \in Nat
  BY <1>1, <1>2, AppendProperties, LenProperties
<1>4. MaxEvents \in Nat
  BY SchedulerAssumption
<1>5. n \in Events /\ ~(n <= Len(sent))
  BY <1>0, <1>1, <1>3, <1>4 DEF Events
<1>6. Place(n) = {}
  BY <1>5 DEF SInv, Core, EventsKept, OnePlace
<1>7. UNCHANGED Contents
  BY <1>1, SameVectors DEF queueVars
<1>8. Stored' = Stored
  BY <1>7 DEF Stored
<1>9. \A x : InQueues(x)' = InQueues(x)
  BY <1>8 DEF InQueues
<1>10. QueueTypeOK'
  BY <1>1 DEF SInv, TypeOK, QueueTypeOK, queueVars
<1>11. \A s \in Scheds : OnceOnly(Contents'[s]) /\ Range(Contents'[s]) \subseteq Range(Contents[s])
  BY <1>7 DEF SInv, Core, EventsKept, NoRepeats
<1>12. \A k \in Events : k <= Len(sent) => k <= Len(sent') /\ sent'[k] = sent[k]
  BY <1>0, <1>3 DEF Events
<1>13. \A k \in Events : k # n /\ k <= Len(sent') => k <= Len(sent)
  BY <1>0, <1>3 DEF Events
<1>14. n <= Len(sent') /\ Len(sent') <= MaxEvents /\ sent'[n].to = a
  BY <1>0, <1>1, <1>2, <1>3, <1>4
<1>15. Rest(n) = {} /\ InHands(EventItem(n)) = {} /\ InQueues(EventItem(n)) = {}
  BY <1>6 DEF Place, Way
<1>16. InQueues(EventItem(n))' = {}
  BY <1>9, <1>15
<1>17. Loose(n, a)
  BY <1>1, <1>3, <1>5, <1>9, <1>10, <1>11, <1>12, <1>13, <1>14, <1>15, <1>16 DEF Loose
<1> QED
  BY <1>1, <1>17, SendImplKeeps DEF SInv
-----------------------------------------------------------------------------
(* writer_put: what was in the hands of the thread is in the queue. *)
LEMMA PutKeeps ==
  ASSUME SInv, IInv', NEW t \in Threads, Put(t)
  PROVE  TypeOK' /\ Core'
<1>1. /\ TypeOK /\ IInv /\ QueueTypeOK /\ QueueTypeOK' /\ OnTheMove /\ EventsKept /\ OnePlace
      /\ NoRepeats /\ Addressed /\ ActorsAtHome
  BY DEF SInv, IInv, Core, EventsKept
<1>2. /\ putting[t] # <<>> /\ putting' = [putting EXCEPT ![t] = <<>>]
      /\ UNCHANGED <<actorVars, notes, stack>>
      /\ DOMAIN putting = Threads /\ putting[t] \in Scheds \X Items
  BY <1>1 DEF Put, TypeOK
<1>3. PICK q \in Scheds, v \in Items : putting[t][1] = q /\ putting[t][2] = v
  BY <1>2
<1>4. q \in Queues /\ v \in Values
  BY ItemsAssumption DEF Scheds
<1>5. Contents' = [Contents EXCEPT ![q] = Append(@, v)]
  BY <1>1, <1>3, <1>4, PutAppends DEF Put
<1>6. /\ InHands(v)' = InHands(v) \ {<<"thread", t>>}
      /\ \A x : x # v => InHands(x)' = InHands(x)
      /\ <<"thread", t>> \in InHands(v)
  BY <1>2, <1>3, HandsEmptied
<1>7. AtMostOne(Way(v))
  <2>1. CASE \E n \in Events : v = EventItem(n)
    BY <2>1, <1>1 DEF OnePlace, Place, AtMostOne
  <2>2. CASE \E a \in Actors : v = ActorItem(a)
    BY <2>2, <1>1 DEF OnTheMove
  <2> QED
    BY <2>1, <2>2 DEF Items
<1>8. v \notin Range(Contents[q])
  <2>1. <<"thread", t>> # <<"queue", q>>
    OBVIOUS
  <2>2. <<"queue", q>> \notin InQueues(v)
    BY <2>1, <1>6, <1>7 DEF AtMostOne, Way
  <2> QED
    BY <2>2, WayIs
<1>9. /\ InQueues(v)' = InQueues(v) \cup { <<"queue", q>> }
      /\ \A x : x # v => InQueues(x)' = InQueues(x)
      /\ \A r \in Scheds : OnceOnly(Contents'[r])
      /\ Range(Contents'[q]) = Range(Contents[q]) \cup {v}
      /\ \A r \in Scheds : r # q => Range(Contents'[r]) = Range(Contents[r])
  BY <1>1, <1>4, <1>5, <1>8, QueueGrows DEF NoRepeats
<1>10. /\ UNCHANGED <<alive, sched, migrating, mailbox, waits, ready, pending_events, stack>>
       /\ UNCHANGED <<sent, handled, moved>>
  BY <1>2 DEF actorVars, notes
<1>11. /\ \A u \in Threads : u # t => putting'[u] = putting[u]
       /\ putting'[t] = <<>> /\ putting' \in [Threads -> {<<>>} \cup (Scheds \X Items)]
  BY <1>1, <1>2 DEF TypeOK
<1>12. TypeOK'
  BY <1>1, <1>10, <1>11 DEF TypeOK
<1>13. ActorsAtHome'
  BY <1>1, <1>10 DEF ActorsAtHome, GuardedAtHome, OneGuard, ReadyAtHome, ReadyHasMail, Running, IsRunning
<1>14. /\ Way(v)' = (Way(v) \ {<<"thread", t>>}) \cup { <<"queue", q>> }
       /\ <<"thread", t>> \in Way(v)
       /\ \A x : x # v => Way(x)' = Way(x)
  <2>1. <<"thread", t>> \notin InQueues(v)
    BY WayIs
  <2> QED
    BY <2>1, <1>6, <1>9 DEF Way
<1>15. OnTheMove'
  <2> SUFFICES ASSUME NEW b \in Actors
               PROVE  /\ migrating'[b] => b \in alive'
                      /\ migrating'[b] <=> Way(ActorItem(b))' # {}
                      /\ AtMostOne(Way(ActorItem(b))')
                      /\ \A u \in Threads : putting'[u] # <<>> /\ putting'[u][2] = ActorItem(b) =>
                                              putting'[u][1] = sched'[b]
                      /\ \A s \in Scheds : ActorItem(b) \in Range(Contents'[s]) => sched'[b] = s
                      /\ \A s \in Scheds : pending_events'[s][b] # <<>> => migrating'[b] /\ sched'[b] = s
    BY DEF OnTheMove, AtMostOne
  <2>1. /\ migrating[b] => b \in alive
        /\ migrating[b] <=> Way(ActorItem(b)) # {}
        /\ AtMostOne(Way(ActorItem(b)))
        /\ \A u \in Threads : putting[u] # <<>> /\ putting[u][2] = ActorItem(b) =>
                                putting[u][1] = sched[b]
        /\ \A s \in Scheds : ActorItem(b) \in Range(Contents[s]) => sched[b] = s
        /\ \A s \in Scheds : pending_events[s][b] # <<>> => migrating[b] /\ sched[b] = s
    BY <1>1 DEF OnTheMove
  <2>2. (Way(ActorItem(b)) # {} <=> Way(ActorItem(b))' # {}) /\ AtMostOne(Way(ActorItem(b))')
    <3>1. CASE ActorItem(b) = v
      BY <2>1, <3>1, <1>14 DEF AtMostOne
    <3>2. CASE ActorItem(b) # v
      BY <2>1, <3>2, <1>14
    <3> QED
      BY <3>1, <3>2
  <2>3. \A s \in Scheds : ActorItem(b) \in Range(Contents'[s]) => sched[b] = s
    <3>1. ActorItem(b) = v => sched[b] = q
      BY <2>1, <1>2, <1>3
    <3> QED
      BY <2>1, <3>1, <1>9
  <2>4. \A u \in Threads : putting'[u] # <<>> /\ putting'[u][2] = ActorItem(b) =>
                             putting'[u][1] = sched[b]
    BY <2>1, <1>11
  <2> QED
    BY <2>1, <2>2, <2>3, <2>4, <1>10
<1>16. NoRepeats' /\ Addressed'
  BY <1>1, <1>9, <1>10 DEF NoRepeats, Addressed
<1>17. OnePlace'
  <2>1. Kept' = Kept /\ Extras' = Extras
    BY <1>10 DEF Kept, Extras
  <2>2. \A k : Rest(k)' = Rest(k)
    BY <2>1, <1>10 DEF Rest, InPending, InHandled, InGuards, InMailbox
  <2>3. ASSUME NEW k \in Events
        PROVE  \/ Place(k)' = Place(k)
               \/ \E p \in Place(k) : \E p2 : Place(k)' = (Place(k) \ {p}) \cup {p2}
    <3>1. CASE EventItem(k) # v
      BY <3>1, <2>2, <1>14 DEF Place
    <3>2. CASE EventItem(k) = v
      <4>1. <<"thread", t>> \in Place(k) /\ AtMostOne(Place(k))
        BY <3>2, <1>1, <1>14 DEF Place, OnePlace
      <4>2. Way(v) = {<<"thread", t>>} /\ Rest(k) \subseteq {<<"thread", t>>}
        BY <3>2, <4>1, <1>14 DEF Place, AtMostOne
      <4>3. <<"thread", t>> \notin Rest(k)
        BY DEF Rest, InHandled, InMailbox, InPending, InGuards, Tagged
      <4>4. Place(k)' = {<<"queue", q>>} /\ Place(k) = {<<"thread", t>>}
        BY <3>2, <4>2, <4>3, <2>2, <1>14 DEF Place
      <4> QED
        BY <4>4
    <3> QED
      BY <3>1, <3>2
  <2> QED
    BY <2>3, <1>1, <1>10, PlacesKept
<1> QED
  BY <1>12, <1>13, <1>15, <1>16, <1>17 DEF Core, EventsKept

(* run_mailbox takes an actor that does not run. *)
LEMMA RunMailboxKeeps ==
  ASSUME SInv, NEW s \in Scheds, NEW a \in Actors, RunMailbox(s, a)
  PROVE  TypeOK' /\ Core'
<1>1. /\ TypeOK /\ OnTheMove /\ OnePlace /\ NoRepeats /\ Addressed /\ ActorsAtHome
      /\ stack \in [Scheds -> Seq(Guards)] /\ Len(mailbox[a]) \in Nat
  BY LenProperties DEF SInv, Core, EventsKept, TypeOK
<1>2. /\ stack[s] = <<>> /\ a \in ready[s] /\ ready' = [ready EXCEPT ![s] = @ \ {a}]
      /\ stack' = Pushed(s, Guard(a, Len(mailbox[a]), 0))
      /\ UNCHANGED <<queueVars, alive, sched, migrating, mailbox, pending_events, putting>>
      /\ UNCHANGED <<sent, handled, moved>>
  BY DEF RunMailbox, Idle, notes
<1>3. a \in alive /\ sched[a] = s /\ ~migrating[a]
  BY <1>1, <1>2 DEF ActorsAtHome, ReadyAtHome
<1>4. \A r \in Scheds : \A i \in DOMAIN stack[r] : stack[r][i].actor # a
  <2>1. \A r \in Scheds : \A i \in DOMAIN stack[r] : stack[r][i].actor = a => r = s
    BY <1>1, <1>3 DEF ActorsAtHome, GuardedAtHome
  <2>2. \A i \in DOMAIN stack[s] : FALSE
    BY <1>2, EmptySeq
  <2> QED
    BY <2>1, <2>2
<1> DEFINE left == Len(mailbox[a])
           g == Guard(a, left, 0)
<1>5. g.actor = a /\ g.left = left /\ g.extra = 0 /\ g.dest = {} /\ left <= Len(mailbox[a])
  BY <1>1 DEF Guard
<1> HIDE DEF left
<1>6. /\ stack' \in [Scheds -> Seq(Guards)]
      /\ \A r \in Scheds : \A i \in DOMAIN stack'[r] :
           \/ i \in DOMAIN stack[r] /\ stack'[r][i] = stack[r][i]
           \/ r = s /\ i = Len(stack[s]) + 1 /\ stack'[r][i] = g
      /\ Running' = Running \cup {a}
      /\ \A k : k # 0 => InGuards(k)' = InGuards(k)
  BY <1>1, <1>2, GuardPushed DEF left
<1> HIDE DEF g
<1>7. /\ ready' \in [Scheds -> SUBSET Actors]
      /\ \A r \in Scheds : ready'[r] \subseteq ready[r]
      /\ \A r \in Scheds : \A b \in Actors : b # a => (b \in ready'[r] <=> b \in ready[r])
  BY <1>1, <1>2 DEF TypeOK
<1>8. TypeOK'
  <2>1. \A r \in Scheds : \A i \in DOMAIN stack'[r] :
          /\ stack'[r][i].left <= Len(mailbox[stack'[r][i].actor])
          /\ r \notin stack'[r][i].dest
    <3>1. \A r \in Scheds : \A i \in DOMAIN stack[r] :
            stack[r][i].left <= Len(mailbox[stack[r][i].actor]) /\ r \notin stack[r][i].dest
      BY <1>1 DEF TypeOK
    <3> QED
      BY <3>1, <1>5, <1>6
  <2>2. waits' \in [Actors -> BOOLEAN]
    BY DEF RunMailbox, NextGeneration
  <2>3. QueueTypeOK'
    BY <1>1, <1>2 DEF TypeOK, QueueTypeOK, queueVars
  <2> QED
    BY <2>1, <2>2, <2>3, <1>1, <1>2, <1>6, <1>7 DEF TypeOK
<1>9. ActorsAtHome'
  <2>1. GuardedAtHome'
    <3> SUFFICES ASSUME NEW r \in Scheds, NEW i \in DOMAIN stack'[r]
                 PROVE  /\ stack'[r][i].actor \in alive
                        /\ sched[stack'[r][i].actor] = r /\ ~migrating[stack'[r][i].actor]
      BY <1>2 DEF GuardedAtHome
    <3>1. CASE i \in DOMAIN stack[r] /\ stack'[r][i] = stack[r][i]
      BY <3>1, <1>1 DEF ActorsAtHome, GuardedAtHome
    <3>2. CASE r = s /\ stack'[r][i] = g
      <4>1. stack'[r][i].actor = a
        BY <3>2, <1>5
      <4> QED
        BY <4>1, <3>2, <1>3
    <3> QED
      BY <3>1, <3>2, <1>6
  <2>2. OneGuard'
    BY <1>1, <1>4, <1>5, <1>6 DEF ActorsAtHome, OneGuard
  <2>3. ReadyAtHome'
    BY <1>1, <1>2, <1>7 DEF ActorsAtHome, ReadyAtHome
  <2>4. ReadyHasMail'
    <3> SUFFICES ASSUME NEW b \in alive, b \notin Running', ~migrating[b]
                 PROVE  b \in ready'[sched[b]] <=> mailbox[b] # <<>>
      BY <1>2 DEF ReadyHasMail
    <3>1. b \in Actors /\ sched[b] \in Scheds /\ b # a /\ b \notin Running
      BY <1>1, <1>6 DEF TypeOK
    <3> QED
      BY <3>1, <1>1, <1>7 DEF ActorsAtHome, ReadyHasMail
  <2> QED
    BY <2>1, <2>2, <2>3, <2>4 DEF ActorsAtHome
<1>10. UNCHANGED Contents
  BY <1>2, SameVectors DEF queueVars
<1>11. Stored' = Stored /\ Held' = Held /\ Kept' = Kept
  BY <1>2, <1>10 DEF Stored, Held, Kept
<1>12. OnTheMove'
  BY <1>1, <1>2, <1>10, <1>11 DEF OnTheMove, Way, InHands, InQueues
<1>13. NoRepeats' /\ Addressed'
  <2>1. NoRepeats'
    BY <1>1, <1>2, <1>10 DEF NoRepeats
  <2>2. \A r \in Scheds : \A i \in DOMAIN stack'[r] :
          stack'[r][i].extra # 0 => sent[stack'[r][i].extra].to = stack'[r][i].actor
    BY <1>1, <1>5, <1>6 DEF Addressed
  <2>3. Addressed'
    BY <2>2, <1>1, <1>2 DEF Addressed
  <2> QED
    BY <2>1, <2>3
<1>14. OnePlace'
  <2>1. \A k \in Events : InGuards(k)' = InGuards(k)
    BY <1>6 DEF Events
  <2>2. \A k : InHands(k)' = InHands(k) /\ InQueues(k)' = InQueues(k) /\ InHandled(k)' = InHandled(k)
               /\ InMailbox(k)' = InMailbox(k) /\ InPending(k)' = InPending(k)
    BY <1>2, <1>11 DEF InHands, InQueues, InHandled, InMailbox, InPending
  <2>3. \A k \in Events : Place(k)' = Place(k)
    BY <2>1, <2>2 DEF Place, Rest, Way
  <2> QED
    BY <2>3, <1>1, <1>2, PlacesKept
<1> QED
  BY <1>8, <1>9, <1>12, <1>13, <1>14 DEF Core, EventsKept

(* What is about to be handled is nowhere else. *)
LEMMA OnlyHere ==
  ASSUME OnePlace, NEW k \in Events, NEW p \in Place(k)
  PROVE  Place(k) = {p}
  BY DEF OnePlace, AtMostOne

LEMMA RestMoved ==
  ASSUME OnePlace, NEW k \in Events, Way(EventItem(k))' = Way(EventItem(k)), Rest(k) # {},
         \E p2 : Rest(k)' = {p2}
  PROVE  \E p \in Place(k) : \E p2 : Place(k)' = (Place(k) \ {p}) \cup {p2}
<1>1. PICK p2 : Rest(k)' = {p2}
  OBVIOUS
<1>2. PICK p \in Rest(k) : TRUE
  OBVIOUS
<1>3. Place(k) = {p}
  BY <1>2, OnlyHere DEF Place
<1>4. Way(EventItem(k)) \subseteq {p}
  BY <1>3 DEF Place
<1>5. p \notin Way(EventItem(k))
  BY <1>2, WayIs DEF Way, Rest, InHandled, InMailbox, InPending, InGuards, Tagged
<1>6. Place(k)' = {p2}
  BY <1>1, <1>4, <1>5 DEF Place
<1>7. p \in Place(k) /\ Place(k)' = (Place(k) \ {p}) \cup {p2}
  BY <1>3, <1>6
<1> QED
  BY <1>7

(* The guard that runs is the only one of its actor. *)
LEMMA TopIsAlone ==
  ASSUME TypeOK, ActorsAtHome, NEW s \in Scheds, stack[s] # <<>>
  PROVE  /\ Top(s) \in Guards /\ Top(s).actor \in Actors /\ Top(s).actor \in alive
         /\ sched[Top(s).actor] = s /\ ~migrating[Top(s).actor]
         /\ Top(s).actor \in Running
         /\ Top(s).left \in Nat /\ Top(s).left <= Len(mailbox[Top(s).actor])
         /\ Len(stack[s]) \in DOMAIN stack[s] /\ Top(s) = stack[s][Len(stack[s])]
         /\ \A r \in Scheds : \A i \in DOMAIN stack[r] :
              stack[r][i].actor = Top(s).actor => stack[r][i] = Top(s)
<1>1. stack \in [Scheds -> Seq(Guards)]
  BY DEF TypeOK
<1>2. /\ Top(s) \in Guards /\ Len(stack[s]) \in DOMAIN stack[s] /\ Top(s) = stack[s][Len(stack[s])]
  BY <1>1, StackTop DEF Top
<1> DEFINE h == Top(s)
           i0 == Len(stack[s])
<1> HIDE DEF h, i0
<1>3. h \in Guards /\ i0 \in DOMAIN stack[s] /\ h = stack[s][i0]
  BY <1>2 DEF h, i0
<1>4. h.actor \in Actors /\ h.left \in Nat /\ h.left <= Len(mailbox[h.actor])
  BY <1>3 DEF Guards, TypeOK
<1>5. h.actor \in alive /\ sched[h.actor] = s /\ ~migrating[h.actor] /\ h.actor \in Running
  BY <1>3, <1>4 DEF ActorsAtHome, GuardedAtHome, Running, IsRunning
<1>6. \A r \in Scheds : \A i \in DOMAIN stack[r] : stack[r][i].actor = h.actor => stack[r][i] = h
  BY <1>3, <1>5 DEF ActorsAtHome, GuardedAtHome, OneGuard
<1> QED
  BY <1>3, <1>4, <1>5, <1>6 DEF h, i0

(* An event that is handled leaves the place where it waited: where it did *)
(* and what else changes is left to the two lemmas that follow.            *)
LEMMA HandledKeeps ==
  ASSUME TypeOK, Core, NEW s \in Scheds, stack[s] # <<>>, NEW g \in Guards, stack' = WithTop(s, g),
         g.actor = Top(s).actor, g.extra \in {0, Top(s).extra}, g.left <= Len(mailbox'[g.actor]),
         g.dest = Top(s).dest,
         NEW n \in Events, sent[n].to = Top(s).actor, n \notin Range(handled[Top(s).actor]),
         handled' = [handled EXCEPT ![Top(s).actor] = Append(@, n)],
         mailbox' \in [Actors -> Seq(Events)], \A b \in Actors : OnceOnly(mailbox'[b]),
         \A b \in Actors : Range(mailbox'[b]) \subseteq Range(mailbox[b]),
         \A b \in Actors : b # Top(s).actor => mailbox'[b] = mailbox[b],
         UNCHANGED <<queueVars, alive, sched, migrating, waits, ready, pending_events, sent, moved, putting>>,
         \A k \in Events :
           \/ k # n /\ Rest(k)' = Rest(k)
           \/ k = n /\ \E p2 : Rest(k)' = {p2}, Rest(n) # {}
  PROVE  TypeOK' /\ Core'
<1>1. /\ OnTheMove /\ OnePlace /\ NoRepeats /\ Addressed /\ ActorsAtHome
      /\ stack \in [Scheds -> Seq(Guards)] /\ handled \in [Actors -> Seq(Events)]
  BY DEF Core, EventsKept, TypeOK
<1>2. PICK a \in Actors : a = Top(s).actor
  BY <1>1, TopIsAlone
<1>3. /\ stack' \in [Scheds -> Seq(Guards)]
      /\ \A r \in Scheds : DOMAIN stack'[r] = DOMAIN stack[r]
      /\ \A r \in Scheds : \A i \in DOMAIN stack[r] :
           \/ stack'[r][i] = stack[r][i]
           \/ r = s /\ stack[r][i] = Top(s) /\ stack'[r][i] = g
      /\ Running' = Running
  BY <1>1, GuardChanged
<1>4. /\ a \in alive /\ sched[a] = s /\ ~migrating[a] /\ a \in Running
      /\ \A r \in Scheds : \A i \in DOMAIN stack[r] : stack[r][i].actor = a => stack[r][i] = Top(s)
      /\ Top(s) \in Guards /\ s \notin Top(s).dest
  <2>1. Len(stack[s]) \in DOMAIN stack[s] /\ Top(s) = stack[s][Len(stack[s])]
    BY <1>1, TopIsAlone
  <2>2. s \notin Top(s).dest
    BY <2>1 DEF TypeOK
  <2> QED
    BY <2>2, <1>1, <1>2, TopIsAlone
<1>5. \A r \in Scheds : \A i \in DOMAIN stack[r] : stack'[r][i].actor = stack[r][i].actor
  BY <1>3
<1>6. handled' = [handled EXCEPT ![a] = Append(@, n)] /\ n \notin Range(handled[a]) /\ sent[n].to = a
  BY <1>2
<1>7. /\ Range(handled'[a]) = Range(handled[a]) \cup {n}
      /\ \A b \in Actors : b # a => handled'[b] = handled[b]
      /\ OnceOnly(handled[a]) /\ n \notin Range(handled[a]) => OnceOnly(handled'[a])
      /\ handled' \in [Actors -> Seq(Events)]
  BY <1>1, <1>6, HandledGrows, ZenonT(60)
<1>8. TypeOK'
  <2>1. \A r \in Scheds : \A i \in DOMAIN stack'[r] :
          /\ stack'[r][i].left <= Len(mailbox'[stack'[r][i].actor])
          /\ r \notin stack'[r][i].dest
    <3> SUFFICES ASSUME NEW r \in Scheds, NEW i \in DOMAIN stack[r]
                 PROVE  /\ stack'[r][i].left <= Len(mailbox'[stack'[r][i].actor])
                        /\ r \notin stack'[r][i].dest
      BY <1>3
    <3>1. stack[r][i].left <= Len(mailbox[stack[r][i].actor]) /\ r \notin stack[r][i].dest
      BY DEF TypeOK
    <3>2. CASE r = s /\ stack'[r][i] = g
      BY <3>2, <1>4
    <3>3. CASE stack'[r][i] = stack[r][i] /\ stack[r][i].actor # a
      <4>1. stack[r][i] \in Guards
        BY <1>1, ElementOfSeq, LenProperties
      <4>2. stack[r][i].actor \in Actors
        BY <4>1 DEF Guards
      <4> QED
        BY <3>1, <3>3, <4>2, <1>2
    <3>4. CASE stack'[r][i] = stack[r][i] /\ stack[r][i].actor = a
      <4>1. r = s /\ stack[r][i] = Top(s)
        BY <3>4, <1>1, <1>4 DEF ActorsAtHome, GuardedAtHome
      <4>2. i = Len(stack[s])
        <5>1. Len(stack[s]) \in DOMAIN stack[s] /\ Top(s) = stack[s][Len(stack[s])]
          BY <1>1, TopIsAlone
        <5> QED
          BY <4>1, <5>1, <1>1 DEF ActorsAtHome, OneGuard
      <4>3. stack'[s][Len(stack[s])] = g
        BY <1>1, StackChanged DEF WithTop
      <4> QED
        BY <4>1, <4>2, <4>3, <1>4
    <3> QED
      BY <3>2, <3>3, <3>4, <1>3
  <2>2. QueueTypeOK'
    BY DEF TypeOK, QueueTypeOK, queueVars
  <2> QED
    BY <2>1, <2>2, <1>3, <1>7 DEF TypeOK
<1>9. ActorsAtHome'
  <2>1. GuardedAtHome'
    BY <1>1, <1>3, <1>5 DEF ActorsAtHome, GuardedAtHome
  <2>4. OneGuard'
    BY <1>1, <1>3, <1>5 DEF ActorsAtHome, OneGuard
  <2>2. ReadyAtHome'
    BY <1>1 DEF ActorsAtHome, ReadyAtHome
  <2>3. ReadyHasMail'
    BY <1>1, <1>2, <1>3, <1>4 DEF ActorsAtHome, ReadyHasMail, TypeOK
  <2> QED
    BY <2>1, <2>2, <2>3, <2>4 DEF ActorsAtHome
<1>10. UNCHANGED Contents
  BY SameVectors DEF queueVars
<1>11. Stored' = Stored /\ Held' = Held
  BY <1>10 DEF Stored, Held
<1>12. OnTheMove'
  BY <1>1, <1>10, <1>11, ZenonT(60) DEF OnTheMove, Way, InHands, InQueues
<1>13. NoRepeats'
  <2>1. \A b \in Actors : OnceOnly(handled'[b])
    BY <1>1, <1>6, <1>7 DEF NoRepeats
  <2> QED
    BY <2>1, <1>1, <1>10 DEF NoRepeats
<1>14. Addressed'
  <2>1. \A b \in Actors : \A k \in Range(handled'[b]) : sent[k].to = b
    BY <1>1, <1>6, <1>7 DEF Addressed
  <2>2. \A b \in Actors : \A k \in Range(mailbox'[b]) : sent[k].to = b
    BY <1>1 DEF Addressed
  <2>3. \A r \in Scheds : \A i \in DOMAIN stack'[r] :
          stack'[r][i].extra # 0 => sent[stack'[r][i].extra].to = stack'[r][i].actor
    BY <1>1, <1>3, SMTT(30) DEF Addressed
  <2> QED
    BY <2>1, <2>2, <2>3, <1>1 DEF Addressed
<1>15. OnePlace'
  <2>1. \A x : InHands(x)' = InHands(x) /\ InQueues(x)' = InQueues(x)
    BY <1>11 DEF InHands, InQueues
  <2>2. ASSUME NEW k \in Events
        PROVE  \/ Place(k)' = Place(k)
               \/ \E p \in Place(k) : \E p2 : Place(k)' = (Place(k) \ {p}) \cup {p2}
    <3>1. CASE k # n
      BY <3>1, <2>1 DEF Place, Way
    <3>2. CASE k = n
      <4>1. Way(EventItem(k))' = Way(EventItem(k)) /\ Rest(k) # {} /\ \E p2 : Rest(k)' = {p2}
        BY <2>1, <3>2 DEF Way
      <4> QED
        BY <4>1, <1>1, RestMoved
    <3> QED
      BY <3>1, <3>2
  <2> QED
    BY <2>2, <1>1, PlacesKept
<1> QED
  BY <1>8, <1>9, <1>12, <1>13, <1>14, <1>15 DEF Core, EventsKept

(* do_event with the next event of the mailbox. *)
LEMMA DoMailKeeps ==
  ASSUME SInv, NEW s \in Scheds, DoEvent(s), Top(s).left > 0
  PROVE  TypeOK' /\ Core'
<1>1. /\ TypeOK /\ Core /\ OnePlace /\ NoRepeats /\ Addressed /\ ActorsAtHome
      /\ stack \in [Scheds -> Seq(Guards)] /\ handled \in [Actors -> Seq(Events)]
      /\ mailbox \in [Actors -> Seq(Events)] /\ stack[s] # <<>>
  BY DEF SInv, Core, EventsKept, TypeOK, DoEvent, Between
<1>2. /\ Top(s) \in Guards /\ Top(s).actor \in Actors
      /\ Top(s).left \in Nat /\ Top(s).left <= Len(mailbox[Top(s).actor])
  BY <1>1, TopIsAlone
<1>3. PICK a \in Actors : a = Top(s).actor
  BY <1>2
<1>4. Len(mailbox[a]) \in Nat /\ Top(s).left <= Len(mailbox[a]) /\ mailbox[a] # <<>>
  <2>1. Len(mailbox[a]) \in Nat /\ Top(s).left <= Len(mailbox[a])
    BY <1>1, <1>2, <1>3, LenProperties
  <2>2. Len(mailbox[a]) # 0
    BY <2>1, <1>2
  <2> QED
    BY <2>1, <2>2, <1>1, EmptySeq
<1>5. PICK q \in Seq(Events) : q = Tail(mailbox[a]) /\ Len(q) = Len(mailbox[a]) - 1
  BY <1>1, <1>4, HeadTailProperties
<1>6. PICK n \in Events : n = Head(mailbox[a])
  BY <1>1, <1>4, HeadTailProperties
<1>7. OnceOnly(q) /\ Range(q) = Range(mailbox[a]) \ {n} /\ n \in Range(mailbox[a])
  BY <1>1, <1>4, <1>5, <1>6, TailOnce DEF NoRepeats
<1>8. PICK g \in Guards : /\ stack' = WithTop(s, g) /\ g.actor = a /\ g.extra = Top(s).extra
                          /\ g.left = Top(s).left - 1 /\ g.dest = Top(s).dest
  <2> DEFINE g == [Top(s) EXCEPT !.left = @ - 1, !.busy = TRUE]
  <2>1. /\ g \in Guards /\ g.actor = a /\ g.extra = Top(s).extra
        /\ g.left = Top(s).left - 1 /\ g.dest = Top(s).dest
    <3>1. Top(s).left - 1 \in Nat
      BY <1>2
    <3>2. \A h \in Guards : \A l \in Nat :
            LET f == [h EXCEPT !.left = l, !.busy = TRUE]
            IN  f \in Guards /\ f.actor = h.actor /\ f.extra = h.extra /\ f.left = l /\ f.dest = h.dest
      BY DEF Guards
    <3> QED
      BY <3>1, <3>2, <1>2, <1>3
  <2>2. stack' = WithTop(s, g)
    BY DEF DoEvent
  <2> QED
    BY <2>1, <2>2
<1>9. /\ handled' = [handled EXCEPT ![a] = Append(@, n)]
      /\ mailbox' = [mailbox EXCEPT ![a] = q]
      /\ UNCHANGED <<queueVars, alive, sched, migrating, waits, ready, pending_events, sent, moved,
                     putting>>
  BY <1>3, <1>5, <1>6 DEF DoEvent
<1>10. /\ \A k : k \in Range(q) => InMailbox(k)' = InMailbox(k) \cup {<<"mailbox", a>>}
       /\ \A k : k \notin Range(q) => InMailbox(k)' = InMailbox(k) \ {<<"mailbox", a>>}
       /\ \A k : k \in Range(mailbox[a]) <=> <<"mailbox", a>> \in InMailbox(k)
       /\ \A k : (k \in Range(q) <=> k \in Range(mailbox[a])) => InMailbox(k)' = InMailbox(k)
       /\ mailbox'[a] = q /\ \A b \in Actors : b # a => mailbox'[b] = mailbox[b]
  BY <1>1, <1>9, MailboxSet
<1>11. /\ mailbox' \in [Actors -> Seq(Events)]
       /\ \A b \in Actors : OnceOnly(mailbox'[b]) /\ Range(mailbox'[b]) \subseteq Range(mailbox[b])
  <2>1. mailbox' \in [Actors -> Seq(Events)]
    BY <1>1, <1>9
  <2> QED
    BY <2>1, <1>1, <1>7, <1>10 DEF NoRepeats
<1>12. Place(n) = {<<"mailbox", a>>}
  BY <1>1, <1>7, <1>10, OnlyHere DEF Place, Rest
<1>13. n \notin Range(handled[a])
  <2>1. <<"handled", a>> \notin Place(n)
    BY <1>12
  <2>2. n \notin Ranges(handled)[a]
    BY <2>1 DEF Place, Rest, InHandled, Tagged
  <2> QED
    BY <2>2 DEF Ranges
<1>14. /\ InHandled(n)' = InHandled(n) \cup {<<"handled", a>>}
       /\ \A k : k # n => InHandled(k)' = InHandled(k)
  BY <1>1, <1>9, HandledGrows, ZenonT(60)
<1>15. \A k \in Events : InGuards(k)' = InGuards(k)
  <2>1. \A k \in Events : k # Top(s).extra \/ g.extra = k => InGuards(k)' = InGuards(k)
    BY <1>1, <1>3, <1>8, GuardChanged
  <2> QED
    BY <2>1, <1>8
<1>16. \A k : InPending(k)' = InPending(k)
  <2>1. Kept' = Kept
    BY <1>9 DEF Kept
  <2> QED
    BY <2>1 DEF InPending
<1>17. \A k \in Events : k # n => Rest(k)' = Rest(k)
  BY <1>7, <1>10, <1>14, <1>15, <1>16 DEF Rest
<1>18. Rest(n)' = {<<"handled", a>>} /\ Rest(n) # {}
  <2>1. /\ InHandled(n) = {} /\ InPending(n) = {} /\ InGuards(n) = {}
        /\ InMailbox(n) = {<<"mailbox", a>>}
    <3>1. <<"mailbox", a>> \notin InHandled(n) \cup InPending(n) \cup InGuards(n)
      BY DEF InHandled, InPending, InGuards, Tagged
    <3>2. Rest(n) \subseteq {<<"mailbox", a>>} /\ <<"mailbox", a>> \in InMailbox(n)
      BY <1>7, <1>10, <1>12 DEF Place
    <3> QED
      BY <3>1, <3>2 DEF Rest
  <2>2. InMailbox(n)' = {}
    BY <2>1, <1>7, <1>10
  <2> QED
    BY <2>1, <2>2, <1>14, <1>15, <1>16 DEF Rest
<1>19. sent[n].to = a
  BY <1>1, <1>7 DEF Addressed
<1>20. g.left <= Len(mailbox'[g.actor])
  BY <1>2, <1>4, <1>5, <1>8, <1>10
<1> QED
  <2>1. \A k \in Events : \/ k # n /\ Rest(k)' = Rest(k)
                          \/ k = n /\ \E p2 : Rest(k)' = {p2}
    BY <1>17, <1>18
  <2>2. /\ g.actor = Top(s).actor /\ g.extra \in {0, Top(s).extra} /\ g.dest = Top(s).dest
        /\ sent[n].to = Top(s).actor /\ n \notin Range(handled[Top(s).actor])
        /\ handled' = [handled EXCEPT ![Top(s).actor] = Append(@, n)]
        /\ \A b \in Actors : b # Top(s).actor => mailbox'[b] = mailbox[b]
    BY <1>3, <1>8, <1>9, <1>10, <1>13, <1>19
  <2> QED
    BY <2>1, <2>2, <1>1, <1>8, <1>9, <1>11, <1>18, <1>20, HandledKeeps

(* do_event with the event that was sent, after the mailbox. *)
LEMMA DoExtraKeeps ==
  ASSUME SInv, NEW s \in Scheds, DoEvent(s), ~(Top(s).left > 0)
  PROVE  TypeOK' /\ Core'
<1>1. /\ TypeOK /\ Core /\ OnePlace /\ NoRepeats /\ Addressed /\ ActorsAtHome
      /\ stack \in [Scheds -> Seq(Guards)] /\ handled \in [Actors -> Seq(Events)]
      /\ mailbox \in [Actors -> Seq(Events)] /\ stack[s] # <<>> /\ Top(s).extra # 0
  BY DEF SInv, Core, EventsKept, TypeOK, DoEvent, Between
<1>2. /\ Top(s) \in Guards /\ Top(s).actor \in Actors
      /\ Top(s).left \in Nat /\ Top(s).left <= Len(mailbox[Top(s).actor])
      /\ Len(stack[s]) \in DOMAIN stack[s] /\ Top(s) = stack[s][Len(stack[s])]
  BY <1>1, TopIsAlone
<1>3. PICK a \in Actors : a = Top(s).actor
  BY <1>2
<1>4. PICK n \in Events : n = Top(s).extra
  BY <1>1, <1>2 DEF Guards
<1>5. 0 \notin Events
  BY DEF Events
<1>8. PICK g \in Guards : /\ stack' = WithTop(s, g) /\ g.actor = a /\ g.extra = 0
                          /\ g.left = Top(s).left /\ g.dest = Top(s).dest
  <2> DEFINE g == [Top(s) EXCEPT !.extra = 0, !.busy = TRUE]
  <2>1. /\ g \in Guards /\ g.actor = a /\ g.extra = 0
        /\ g.left = Top(s).left /\ g.dest = Top(s).dest
    BY <1>2, <1>3 DEF Guards
  <2>2. stack' = WithTop(s, g)
    BY DEF DoEvent
  <2> QED
    BY <2>1, <2>2
<1>9. /\ handled' = [handled EXCEPT ![a] = Append(@, n)] /\ mailbox' = mailbox
      /\ UNCHANGED <<queueVars, alive, sched, migrating, waits, ready, pending_events, sent, moved,
                     putting>>
  BY <1>3, <1>4 DEF DoEvent
<1>10. /\ \A k \in Events : k # n => InGuards(k)' = InGuards(k)
       /\ \E p \in InGuards(n) : InGuards(n)' = InGuards(n) \ {p}
  <2>1. /\ \A k \in Events : k # Top(s).extra \/ g.extra = k => InGuards(k)' = InGuards(k)
        /\ Top(s).extra \in Events /\ g.extra = 0 =>
             \A k : k = Top(s).extra => \E p \in InGuards(k) : InGuards(k)' = InGuards(k) \ {p}
    BY <1>1, <1>3, <1>8, GuardChanged
  <2> QED
    BY <2>1, <1>4, <1>8
<1>11. PICK p \in InGuards(n) : InGuards(n)' = InGuards(n) \ {p}
  BY <1>10
<1>12. Place(n) = {p}
  BY <1>1, OnlyHere DEF Place, Rest
<1>13. /\ InHandled(n) = {} /\ InPending(n) = {} /\ InMailbox(n) = {} /\ InGuards(n) = {p}
  <2>1. p \notin InHandled(n) \cup InPending(n) \cup InMailbox(n)
    BY <1>11 DEF InHandled, InPending, InMailbox, InGuards, Tagged
  <2>2. Rest(n) \subseteq {p}
    BY <1>12 DEF Place
  <2> QED
    BY <2>1, <2>2, <1>11 DEF Rest
<1>14. n \notin Range(handled[a])
  <2>1. n \notin Ranges(handled)[a]
    BY <1>13 DEF InHandled, Tagged
  <2> QED
    BY <2>1 DEF Ranges
<1>15. /\ InHandled(n)' = InHandled(n) \cup {<<"handled", a>>}
       /\ \A k : k # n => InHandled(k)' = InHandled(k)
  BY <1>1, <1>9, HandledGrows
<1>16. \A k : InPending(k)' = InPending(k) /\ InMailbox(k)' = InMailbox(k)
  <2>1. Kept' = Kept
    BY <1>9 DEF Kept
  <2> QED
    BY <2>1, <1>9 DEF InPending, InMailbox
<1>17. \A k \in Events : k # n => Rest(k)' = Rest(k)
  BY <1>10, <1>15, <1>16 DEF Rest
<1>18. Rest(n)' = {<<"handled", a>>} /\ Rest(n) # {}
  BY <1>11, <1>13, <1>15, <1>16 DEF Rest
<1>19. sent[n].to = a
  BY <1>1, <1>2, <1>3, <1>4 DEF Addressed
<1>20. g.left <= Len(mailbox'[g.actor])
  BY <1>2, <1>3, <1>8, <1>9
<1> QED
  <2>1. \A k \in Events : \/ k # n /\ Rest(k)' = Rest(k)
                          \/ k = n /\ \E p2 : Rest(k)' = {p2}
    BY <1>17, <1>18
  <2>2. /\ g.actor = Top(s).actor /\ g.extra \in {0, Top(s).extra} /\ g.dest = Top(s).dest
        /\ sent[n].to = Top(s).actor /\ n \notin Range(handled[Top(s).actor])
        /\ handled' = [handled EXCEPT ![Top(s).actor] = Append(@, n)]
        /\ \A b \in Actors : b # Top(s).actor => mailbox'[b] = mailbox[b]
        /\ mailbox' \in [Actors -> Seq(Events)] /\ \A b \in Actors : OnceOnly(mailbox'[b])
        /\ \A b \in Actors : Range(mailbox'[b]) \subseteq Range(mailbox[b])
    BY <1>1, <1>3, <1>8, <1>9, <1>14, <1>19 DEF NoRepeats
  <2> QED
    BY <2>1, <2>2, <1>1, <1>8, <1>9, <1>18, <1>20, HandledKeeps
-----------------------------------------------------------------------------
(* Leaving the EventGuard.  An event that could not be run any more goes   *)
(* to the head of the mailbox.                                             *)
MailOf(g) == IF g.extra # 0 THEN <<g.extra>> \o mailbox[g.actor] ELSE mailbox[g.actor]

LEMMA OneElement ==
  ASSUME NEW S, NEW x \in S
  PROVE  <<x>> \in Seq(S) /\ Range(<<x>>) = {x} /\ OnceOnly(<<x>>)
<1>1. <<x>> \in Seq(S) /\ Len(<<x>>) = 1 /\ <<x>>[1] = x /\ DOMAIN <<x>> = {1}
  OBVIOUS
<1>2. \A i \in 1..1 : i = 1
  OBVIOUS
<1> QED
  BY <1>1, <1>2 DEF Range, OnceOnly

LEMMA MailIsKept ==
  ASSUME TypeOK, Core, NEW s \in Scheds, stack[s] # <<>>, NEW a \in Actors, a = Top(s).actor,
         NEW q, q = MailOf(Top(s)), mailbox' = [mailbox EXCEPT ![a] = q],
         stack' = [stack EXCEPT ![s] = Front(@)], UNCHANGED <<pending_events, handled, sent>>
  PROVE  /\ mailbox' \in [Actors -> Seq(Events)] /\ \A b \in Actors : OnceOnly(mailbox'[b])
         /\ mailbox'[a] = q /\ \A b \in Actors : b # a => mailbox'[b] = mailbox[b]
         /\ \A k \in Events : \/ Rest(k)' = Rest(k)
                              \/ Rest(k) # {} /\ \E p2 : Rest(k)' = {p2}
         /\ Addressed'
         /\ \A r \in Scheds : \A i \in DOMAIN stack'[r] :
              stack'[r][i].left <= Len(mailbox'[stack'[r][i].actor]) /\ r \notin stack'[r][i].dest
<1>1. /\ OnePlace /\ NoRepeats /\ Addressed /\ ActorsAtHome /\ GuardedAtHome /\ OneGuard
      /\ stack \in [Scheds -> Seq(Guards)] /\ mailbox \in [Actors -> Seq(Events)]
      /\ mailbox[a] \in Seq(Events) /\ OnceOnly(mailbox[a])
  BY DEF Core, EventsKept, TypeOK, ActorsAtHome, NoRepeats
<1>2. PICK h \in Guards : h = Top(s)
  BY <1>1, TopIsAlone
<1>3. /\ stack' \in [Scheds -> Seq(Guards)]
      /\ \A r \in Scheds : \A i \in DOMAIN stack'[r] :
           /\ i \in DOMAIN stack[r] /\ stack'[r][i] = stack[r][i]
           /\ stack'[r][i].actor # h.actor
      /\ \A k \in Events : k # h.extra => InGuards(k)' = InGuards(k)
      /\ \A k : k = h.extra => \E p \in InGuards(k) : InGuards(k)' = InGuards(k) \ {p}
      /\ Len(stack[s]) \in DOMAIN stack[s] /\ h = stack[s][Len(stack[s])]
  <2>1. /\ stack' \in [Scheds -> Seq(Guards)]
        /\ \A r \in Scheds : \A i \in DOMAIN stack'[r] :
             /\ i \in DOMAIN stack[r] /\ stack'[r][i] = stack[r][i]
             /\ stack'[r][i].actor # Top(s).actor
        /\ \A k \in Events : k # Top(s).extra => InGuards(k)' = InGuards(k)
        /\ \A k : k = Top(s).extra => \E p \in InGuards(k) : InGuards(k)' = InGuards(k) \ {p}
        /\ Len(stack[s]) \in DOMAIN stack[s] /\ Top(s) = stack[s][Len(stack[s])]
    BY <1>1, GuardPopped
  <2> QED
    BY <2>1, <1>2
<1>4. /\ h.extra \in Events \cup {0} /\ 0 \notin Events /\ h.actor = a
      /\ h.extra # 0 => sent[h.extra].to = a
  BY <1>1, <1>2, <1>3, SMTT(30) DEF Guards, Events, Addressed
<1>5. CASE h.extra = 0
  <2>1. q = mailbox[a] /\ mailbox' = mailbox
    BY <1>1, <1>2, <1>4, <1>5 DEF MailOf
  <2>2. Kept' = Kept
    BY DEF Kept
  <2>3. \A k \in Events : Rest(k)' = Rest(k)
    BY <2>1, <2>2, <1>3, <1>4, <1>5 DEF Rest, InHandled, InMailbox, InPending
  <2>4. Addressed'
    BY <2>1, <1>1, <1>3 DEF Addressed
  <2>5. \A r \in Scheds : \A i \in DOMAIN stack'[r] :
          stack'[r][i].left <= Len(mailbox[stack'[r][i].actor]) /\ r \notin stack'[r][i].dest
    <3>1. \A r \in Scheds : \A i \in DOMAIN stack[r] :
            stack[r][i].left <= Len(mailbox[stack[r][i].actor]) /\ r \notin stack[r][i].dest
      BY DEF TypeOK
    <3> QED
      BY <3>1, <1>3
  <2> QED
    BY <2>1, <2>3, <2>4, <2>5, <1>1 DEF NoRepeats
<1>6. CASE h.extra # 0
  <2>1. PICK n \in Events : n = h.extra
    BY <1>4, <1>6
  <2>2. q = <<n>> \o mailbox[a]
    BY <2>1, <1>2, <1>4, <1>6 DEF MailOf
  <2>3. <<n>> \in Seq(Events) /\ Range(<<n>>) = {n} /\ OnceOnly(<<n>>)
    BY OneElement
  <2>4. PICK p \in InGuards(n) : InGuards(n)' = InGuards(n) \ {p}
    BY <2>1, <1>3
  <2>5. Place(n) = {p}
    BY <2>4, <1>1, OnlyHere DEF Place, Rest
  <2>6. /\ InHandled(n) = {} /\ InPending(n) = {} /\ InMailbox(n) = {} /\ InGuards(n) = {p}
    <3>1. p \notin InHandled(n) \cup InPending(n) \cup InMailbox(n)
      BY <2>4 DEF InHandled, InPending, InMailbox, InGuards, Tagged
    <3>2. Rest(n) \subseteq {p}
      BY <2>5 DEF Place
    <3> QED
      BY <3>1, <3>2, <2>4 DEF Rest
  <2>7. n \notin Range(mailbox[a])
    <3>1. n \notin Ranges(mailbox)[a]
      BY <2>6 DEF InMailbox, Tagged
    <3> QED
      BY <3>1 DEF Ranges
  <2>8. q \in Seq(Events) /\ Range(q) = Range(mailbox[a]) \cup {n} /\ OnceOnly(q)
    <3>1. PICK m \in Seq(Events) : m = <<n>>
      BY <2>3
    <3>2. Range(m) = {n} /\ OnceOnly(m) /\ \A x \in Range(m) : x \notin Range(mailbox[a])
      BY <2>3, <2>7, <3>1
    <3>3. /\ m \o mailbox[a] \in Seq(Events)
          /\ Range(m \o mailbox[a]) = Range(m) \cup Range(mailbox[a])
          /\ OnceOnly(m \o mailbox[a])
      BY <3>2, <1>1, ConcatOnce
    <3> QED
      BY <3>1, <3>2, <3>3, <2>2
  <2>9. /\ \A k : k \in Range(q) => InMailbox(k)' = InMailbox(k) \cup {<<"mailbox", a>>}
        /\ \A k : (k \in Range(q) <=> k \in Range(mailbox[a])) => InMailbox(k)' = InMailbox(k)
        /\ mailbox'[a] = q /\ \A b \in Actors : b # a => mailbox'[b] = mailbox[b]
    BY <1>1, MailboxSet
  <2>10. mailbox' \in [Actors -> Seq(Events)]
    BY <2>8, <1>1
  <2>11. \A b \in Actors : OnceOnly(mailbox'[b])
    BY <2>8, <2>9, <1>1 DEF NoRepeats
  <2>12. Kept' = Kept
    BY DEF Kept
  <2>13. \A k : InHandled(k)' = InHandled(k) /\ InPending(k)' = InPending(k)
    BY <2>12 DEF InHandled, InPending
  <2>14. \A k \in Events : k # n => Rest(k)' = Rest(k)
    BY <2>1, <2>8, <2>9, <2>13, <1>3 DEF Rest
  <2>15. Rest(n)' = {<<"mailbox", a>>} /\ Rest(n) # {}
    BY <2>4, <2>6, <2>8, <2>9, <2>13 DEF Rest
  <2>16. Addressed'
    <3>1. \A b \in Actors : \A k \in Range(mailbox'[b]) : sent[k].to = b
      BY <2>1, <2>8, <2>9, <1>1, <1>4, <1>6 DEF Addressed
    <3>2. \A r \in Scheds : \A i \in DOMAIN stack'[r] :
            stack'[r][i].extra # 0 => sent[stack'[r][i].extra].to = stack'[r][i].actor
      BY <1>1, <1>3 DEF Addressed
    <3> QED
      BY <3>1, <3>2, <1>1 DEF Addressed
  <2>17. ASSUME NEW r \in Scheds, NEW i \in DOMAIN stack'[r]
         PROVE  stack'[r][i].left <= Len(mailbox'[stack'[r][i].actor]) /\ r \notin stack'[r][i].dest
    <3>1. i \in DOMAIN stack[r] /\ stack'[r][i] = stack[r][i] /\ stack[r][i].actor # a
      BY <2>17, <1>3, <1>4
    <3>2. stack[r][i] \in Guards
      BY <3>1, <1>1, ElementOfSeq, LenProperties
    <3>3. stack[r][i].actor \in Actors
      BY <3>2 DEF Guards
    <3>4. mailbox'[stack[r][i].actor] = mailbox[stack[r][i].actor]
      BY <3>1, <3>3, <2>9
    <3> QED
      BY <3>1, <3>4 DEF TypeOK
  <2>18. \A k \in Events : Rest(k)' = Rest(k) \/ (Rest(k) # {} /\ \E p2 : Rest(k)' = {p2})
    BY <2>14, <2>15
  <2> QED
    BY <2>9, <2>10, <2>11, <2>16, <2>17, <2>18
<1> QED
  BY <1>5, <1>6

(* ~EventGuard of an actor that stays. *)
LEMMA SettleKeeps ==
  ASSUME SInv, NEW s \in Scheds, LeaveGuard(s), NEW a \in Actors, a = Top(s).actor,
         Settle(s, a, MailOf(Top(s)))
  PROVE  TypeOK' /\ Core'
<1>1. /\ TypeOK /\ Core /\ OnTheMove /\ OnePlace /\ NoRepeats /\ Addressed /\ ActorsAtHome
      /\ GuardedAtHome /\ OneGuard /\ stack \in [Scheds -> Seq(Guards)] /\ stack[s] # <<>>
  BY DEF SInv, Core, EventsKept, TypeOK, ActorsAtHome, LeaveGuard, Between
<1>2. /\ stack' = [stack EXCEPT ![s] = Front(@)]
      /\ UNCHANGED <<queueVars, waits, pending_events, sent, handled>>
  BY DEF LeaveGuard
<1>3. PICK q : q = MailOf(Top(s))
  OBVIOUS
<1>4. /\ mailbox' = [mailbox EXCEPT ![a] = q]
      /\ ready' = [ready EXCEPT ![s] = IF q = <<>> THEN @ \ {a} ELSE @ \cup {a}]
      /\ UNCHANGED <<alive, sched, migrating, putting, moved>>
  BY <1>3 DEF Settle
<1>5. /\ mailbox' \in [Actors -> Seq(Events)] /\ \A b \in Actors : OnceOnly(mailbox'[b])
      /\ mailbox'[a] = q /\ \A b \in Actors : b # a => mailbox'[b] = mailbox[b]
      /\ \A k \in Events : \/ Rest(k)' = Rest(k)
                           \/ Rest(k) # {} /\ \E p2 : Rest(k)' = {p2}
      /\ Addressed'
      /\ \A r \in Scheds : \A i \in DOMAIN stack'[r] :
           stack'[r][i].left <= Len(mailbox'[stack'[r][i].actor]) /\ r \notin stack'[r][i].dest
  BY <1>1, <1>2, <1>3, <1>4, MailIsKept
<1>6. /\ stack' \in [Scheds -> Seq(Guards)]
      /\ \A r \in Scheds : \A i \in DOMAIN stack'[r] :
           /\ i \in DOMAIN stack[r] /\ stack'[r][i] = stack[r][i]
           /\ stack'[r][i].actor # a
      /\ Running' = Running \ {a}
  BY <1>1, <1>2, GuardPopped, ZenonT(60)
<1>7. a \in alive /\ sched[a] = s /\ ~migrating[a]
  BY <1>1, TopIsAlone
<1>8. /\ ready' \in [Scheds -> SUBSET Actors]
      /\ \A r \in Scheds : \A b \in Actors : b # a \/ r # s => (b \in ready'[r] <=> b \in ready[r])
      /\ a \in ready'[s] <=> q # <<>>
  BY <1>1, <1>4 DEF TypeOK
<1>9. TypeOK'
  <2>1. QueueTypeOK'
    BY <1>1, <1>2 DEF TypeOK, QueueTypeOK, queueVars
  <2> QED
    BY <2>1, <1>1, <1>2, <1>4, <1>5, <1>6, <1>8 DEF TypeOK
<1>10. ActorsAtHome'
  <2>1. GuardedAtHome'
    BY <1>1, <1>4, <1>6 DEF GuardedAtHome
  <2>2. OneGuard'
    BY <1>1, <1>6 DEF OneGuard
  <2>3. ReadyAtHome'
    <3> SUFFICES ASSUME NEW r \in Scheds, NEW b \in ready'[r]
                 PROVE  b \in alive /\ sched[b] = r /\ ~migrating[b]
      BY <1>4 DEF ReadyAtHome
    <3>1. b \in Actors
      BY <1>8
    <3>2. CASE b = a /\ r = s
      BY <3>2, <1>7
    <3>3. CASE b # a \/ r # s
      BY <3>1, <3>3, <1>1, <1>8 DEF ActorsAtHome, ReadyAtHome
    <3> QED
      BY <3>2, <3>3
  <2>4. ReadyHasMail'
    <3> SUFFICES ASSUME NEW b \in alive, b \notin Running', ~migrating[b]
                 PROVE  b \in ready'[sched[b]] <=> mailbox'[b] # <<>>
      BY <1>4 DEF ReadyHasMail
    <3>1. b \in Actors /\ sched[b] \in Scheds
      BY <1>1 DEF TypeOK
    <3>2. CASE b = a
      BY <3>2, <1>5, <1>7, <1>8
    <3>3. CASE b # a
      <4>1. b \notin Running
        BY <3>3, <1>6
      <4> QED
        BY <3>1, <3>3, <4>1, <1>1, <1>5, <1>8 DEF ActorsAtHome, ReadyHasMail
    <3> QED
      BY <3>2, <3>3
  <2> QED
    BY <2>1, <2>2, <2>3, <2>4 DEF ActorsAtHome
<1>11. UNCHANGED Contents
  BY <1>2, SameVectors DEF queueVars
<1>12. Stored' = Stored /\ Held' = Held
  BY <1>4, <1>11 DEF Stored, Held
<1>13. OnTheMove' /\ \A x : Way(x)' = Way(x)
  BY <1>1, <1>2, <1>4, <1>11, <1>12 DEF OnTheMove, Way, InHands, InQueues
<1>14. NoRepeats'
  BY <1>1, <1>2, <1>5, <1>11 DEF NoRepeats
<1>15. OnePlace'
  <2>1. ASSUME NEW k \in Events
        PROVE  \/ Place(k)' = Place(k)
               \/ \E p \in Place(k) : \E p2 : Place(k)' = (Place(k) \ {p}) \cup {p2}
    <3>1. CASE Rest(k)' = Rest(k)
      BY <3>1, <1>13 DEF Place
    <3>2. CASE Rest(k) # {} /\ \E p2 : Rest(k)' = {p2}
      BY <3>2, <1>1, <1>13, RestMoved
    <3> QED
      BY <3>1, <3>2, <1>5
  <2> QED
    BY <2>1, <1>1, <1>2, <1>4, PlacesKept
<1> QED
  BY <1>5, <1>9, <1>10, <1>13, <1>14, <1>15 DEF Core, EventsKept

(* start_migrate_actor: the actor is in the hands of its old scheduler. *)
LEMMA MigrateKeeps ==
  ASSUME SInv, NEW s \in Scheds, LeaveGuard(s), NEW a \in Actors, a = Top(s).actor,
         NEW d \in Top(s).dest, MigrateActor(s, a, d, MailOf(Top(s)))
  PROVE  TypeOK' /\ Core'
<1>1. /\ TypeOK /\ Core /\ OnTheMove /\ OnePlace /\ NoRepeats /\ Addressed /\ ActorsAtHome
      /\ GuardedAtHome /\ OneGuard /\ stack \in [Scheds -> Seq(Guards)] /\ stack[s] # <<>>
      /\ putting[s] = <<>> /\ s \in Threads
  BY QueueAssumption DEF SInv, Core, EventsKept, TypeOK, ActorsAtHome, LeaveGuard, Between, Free, Scheds
<1>2. /\ stack' = [stack EXCEPT ![s] = Front(@)]
      /\ UNCHANGED <<queueVars, waits, pending_events, sent, handled>>
  BY DEF LeaveGuard
<1>3. PICK q : q = MailOf(Top(s))
  OBVIOUS
<1>4. /\ mailbox' = [mailbox EXCEPT ![a] = q]
      /\ sched' = [sched EXCEPT ![a] = d]
      /\ migrating' = [migrating EXCEPT ![a] = TRUE]
      /\ ready' = [ready EXCEPT ![s] = @ \ {a}]
      /\ putting' = [putting EXCEPT ![s] = <<d, ActorItem(a)>>]
      /\ moved' = moved \cup {a} /\ alive' = alive
  BY <1>3 DEF MigrateActor
<1>5. /\ mailbox' \in [Actors -> Seq(Events)] /\ \A b \in Actors : OnceOnly(mailbox'[b])
      /\ mailbox'[a] = q /\ \A b \in Actors : b # a => mailbox'[b] = mailbox[b]
      /\ \A k \in Events : \/ Rest(k)' = Rest(k)
                           \/ Rest(k) # {} /\ \E p2 : Rest(k)' = {p2}
      /\ Addressed'
      /\ \A r \in Scheds : \A i \in DOMAIN stack'[r] :
           stack'[r][i].left <= Len(mailbox'[stack'[r][i].actor]) /\ r \notin stack'[r][i].dest
  BY <1>1, <1>2, <1>3, <1>4, MailIsKept
<1>6. /\ stack' \in [Scheds -> Seq(Guards)]
      /\ \A r \in Scheds : \A i \in DOMAIN stack'[r] :
           /\ i \in DOMAIN stack[r] /\ stack'[r][i] = stack[r][i]
           /\ stack'[r][i].actor # a
      /\ Running' = Running \ {a}
  <2>1. /\ stack' \in [Scheds -> Seq(Guards)]
        /\ \A r \in Scheds : \A i \in DOMAIN stack'[r] :
             /\ i \in DOMAIN stack[r] /\ stack'[r][i] = stack[r][i]
             /\ stack'[r][i].actor # Top(s).actor
        /\ Running' = Running \ {Top(s).actor}
    BY <1>1, <1>2, GuardPopped
  <2> QED
    BY <2>1
<1>7. a \in alive /\ sched[a] = s /\ ~migrating[a] /\ Top(s) \in Guards
  BY <1>1, TopIsAlone
<1>8. d \in Scheds
  BY <1>7 DEF Guards
<1>9. /\ ready' \in [Scheds -> SUBSET Actors]
      /\ \A r \in Scheds : \A b \in ready'[r] : b \in ready[r] /\ (b # a \/ r # s)
      /\ \A r \in Scheds : \A b \in Actors : b # a => (b \in ready'[r] <=> b \in ready[r])
  BY <1>1, <1>4 DEF TypeOK
<1>10. /\ sched' \in [Actors -> Scheds] /\ sched'[a] = d
       /\ \A b \in Actors : b # a => sched'[b] = sched[b]
       /\ migrating' \in [Actors -> BOOLEAN] /\ migrating'[a]
       /\ \A b \in Actors : b # a => migrating'[b] = migrating[b]
  BY <1>1, <1>4, <1>8 DEF TypeOK
<1>11. /\ putting' \in [Threads -> {<<>>} \cup (Scheds \X Items)]
       /\ putting'[s] = <<d, ActorItem(a)>> /\ putting'[s][1] = d /\ putting'[s][2] = ActorItem(a)
       /\ \A t \in Threads : t # s => putting'[t] = putting[t]
       /\ DOMAIN putting = Threads
  <2>1. ActorItem(a) \in Items
    BY DEF Items
  <2> QED
    BY <2>1, <1>1, <1>4, <1>8 DEF TypeOK
<1>12. TypeOK'
  <2>1. QueueTypeOK'
    BY <1>1, <1>2 DEF TypeOK, QueueTypeOK, queueVars
  <2>2. /\ sent' = sent /\ handled' = handled /\ alive' = alive /\ waits' = waits
        /\ pending_events' = pending_events /\ moved' \subseteq Actors
    BY <1>1, <1>2, <1>4 DEF TypeOK
  <2> QED
    BY <2>1, <2>2, <1>1, <1>5, <1>6, <1>9, <1>10, <1>11 DEF TypeOK
<1>13. ActorsAtHome'
  <2>0. \A r \in Scheds : \A i \in DOMAIN stack[r] : stack[r][i].actor \in Actors
    <3>1. \A r \in Scheds : \A i \in DOMAIN stack[r] : stack[r][i] \in Guards
      BY <1>1, ElementOfSeq, LenProperties
    <3> QED
      BY <3>1 DEF Guards
  <2>1. GuardedAtHome'
    BY <2>0, <1>1, <1>4, <1>6, <1>10 DEF GuardedAtHome
  <2>2. OneGuard'
    BY <1>1, <1>6 DEF OneGuard
  <2>3. ReadyAtHome'
    <3> SUFFICES ASSUME NEW r \in Scheds, NEW b \in ready'[r]
                 PROVE  b \in alive /\ sched'[b] = r /\ ~migrating'[b]
      BY <1>4 DEF ReadyAtHome
    <3>1. b \in Actors /\ b \in ready[r] /\ (b # a \/ r # s)
      BY <1>9
    <3>2. b \in alive /\ sched[b] = r /\ ~migrating[b]
      BY <3>1, <1>1 DEF ActorsAtHome, ReadyAtHome
    <3>3. b # a
      BY <3>1, <3>2, <1>7
    <3> QED
      BY <3>1, <3>2, <3>3, <1>10
  <2>4. ReadyHasMail'
    <3> SUFFICES ASSUME NEW b \in alive, b \notin Running', ~migrating'[b]
                 PROVE  b \in ready'[sched'[b]] <=> mailbox'[b] # <<>>
      BY <1>4 DEF ReadyHasMail
    <3>1. b \in Actors /\ sched[b] \in Scheds
      BY <1>1 DEF TypeOK
    <3>2. b # a
      BY <1>10
    <3>3. sched'[b] = sched[b] /\ ~migrating[b] /\ b \notin Running
      BY <3>1, <3>2, <1>6, <1>10
    <3> QED
      BY <3>1, <3>2, <3>3, <1>1, <1>5, <1>9 DEF ActorsAtHome, ReadyHasMail
  <2> QED
    BY <2>1, <2>2, <2>3, <2>4 DEF ActorsAtHome
<1>14. UNCHANGED Contents
  BY <1>2, SameVectors DEF queueVars
<1>15. Stored' = Stored
  BY <1>14 DEF Stored
<1>16. /\ InHands(ActorItem(a))' = InHands(ActorItem(a)) \cup { <<"thread", s>> }
       /\ \A x : x # ActorItem(a) => InHands(x)' = InHands(x)
  <2>1. putting' = [putting EXCEPT ![s] = <<d, ActorItem(a)>>]
    BY <1>4
  <2>2. DOMAIN putting = Threads /\ putting[s] = <<>> /\ s \in Threads /\ d \in Scheds
    BY <1>1, <1>8, <1>11
  <2>3. PICK item : item = ActorItem(a)
    OBVIOUS
  <2>4. /\ InHands(item)' = InHands(item) \cup { <<"thread", s>> }
        /\ \A x : x # item => InHands(x)' = InHands(x)
    BY <2>1, <2>2, <2>3, HandsFilled
  <2> QED
    BY <2>3, <2>4
<1>17. /\ Way(ActorItem(a))' = {<<"thread", s>>}
       /\ \A x : x # ActorItem(a) => Way(x)' = Way(x)
  <2>1. Way(ActorItem(a)) = {}
    BY <1>1, <1>7 DEF OnTheMove
  <2> QED
    BY <2>1, <1>15, <1>16 DEF Way, InQueues
<1>18. OnTheMove'
  <2> SUFFICES ASSUME NEW b \in Actors
               PROVE  /\ migrating'[b] => b \in alive'
                      /\ migrating'[b] <=> Way(ActorItem(b))' # {}
                      /\ AtMostOne(Way(ActorItem(b))')
                      /\ \A t \in Threads : putting'[t] # <<>> /\ putting'[t][2] = ActorItem(b) =>
                                              putting'[t][1] = sched'[b]
                      /\ \A r \in Scheds : ActorItem(b) \in Range(Contents'[r]) => sched'[b] = r
                      /\ \A r \in Scheds : pending_events'[r][b] # <<>> => migrating'[b] /\ sched'[b] = r
    BY DEF OnTheMove, AtMostOne
  <2>1. /\ migrating[b] => b \in alive
        /\ migrating[b] <=> Way(ActorItem(b)) # {}
        /\ AtMostOne(Way(ActorItem(b)))
        /\ \A t \in Threads : putting[t] # <<>> /\ putting[t][2] = ActorItem(b) =>
                                putting[t][1] = sched[b]
        /\ \A r \in Scheds : ActorItem(b) \in Range(Contents[r]) => sched[b] = r
        /\ \A r \in Scheds : pending_events[r][b] # <<>> => migrating[b] /\ sched[b] = r
    BY <1>1 DEF OnTheMove
  <2>2. CASE b = a
    <3>1. \A t \in Threads : ~(putting[t] # <<>> /\ putting[t][2] = ActorItem(a))
      BY <2>1, <2>2, <1>7, WayIs DEF Way
    <3>2. \A r \in Scheds : ActorItem(a) \notin Range(Contents[r])
      BY <2>1, <2>2, <1>7, WayIs DEF Way
    <3>3. \A t \in Threads : putting'[t] # <<>> /\ putting'[t][2] = ActorItem(a) =>
                               putting'[t][1] = sched'[a]
      BY <3>1, <1>10, <1>11
    <3> QED
      BY <2>1, <2>2, <3>2, <3>3, <1>2, <1>4, <1>7, <1>10, <1>14, <1>17 DEF AtMostOne
  <2>3. CASE b # a
    <3>1. ActorItem(b) # ActorItem(a)
      BY <2>3, ItemsDiffer
    <3>2. \A t \in Threads : putting'[t] # <<>> /\ putting'[t][2] = ActorItem(b) =>
                               putting'[t][1] = sched[b]
      BY <3>1, <2>1, <1>11
    <3> QED
      BY <2>1, <2>3, <3>1, <3>2, <1>2, <1>4, <1>10, <1>14, <1>17
  <2> QED
    BY <2>2, <2>3
<1>19. NoRepeats'
  BY <1>1, <1>2, <1>5, <1>14 DEF NoRepeats
<1>20. OnePlace'
  <2>1. \A k : Way(EventItem(k))' = Way(EventItem(k))
    BY <1>17, ItemsDiffer
  <2>2. ASSUME NEW k \in Events
        PROVE  \/ Place(k)' = Place(k)
               \/ \E p \in Place(k) : \E p2 : Place(k)' = (Place(k) \ {p}) \cup {p2}
    <3>1. CASE Rest(k)' = Rest(k)
      BY <3>1, <2>1 DEF Place
    <3>2. CASE Rest(k) # {} /\ \E p2 : Rest(k)' = {p2}
      BY <3>2, <2>1, <1>1, RestMoved
    <3> QED
      BY <3>1, <3>2, <1>5
  <2> QED
    BY <2>2, <1>1, <1>2, <1>4, PlacesKept
<1> QED
  BY <1>5, <1>12, <1>13, <1>18, <1>19, <1>20 DEF Core, EventsKept

(* do_stop_actor: what the actor still had to do is gone with it. *)
LEMMA StopKeeps ==
  ASSUME SInv, NEW s \in Scheds, LeaveGuard(s), NEW a \in Actors, a = Top(s).actor,
         StopActor(s, a)
  PROVE  TypeOK' /\ Core'
<1>1. /\ TypeOK /\ Core /\ OnTheMove /\ OnePlace /\ NoRepeats /\ Addressed /\ ActorsAtHome
      /\ GuardedAtHome /\ OneGuard /\ stack \in [Scheds -> Seq(Guards)] /\ stack[s] # <<>>
      /\ mailbox \in [Actors -> Seq(Events)]
  BY DEF SInv, Core, EventsKept, TypeOK, ActorsAtHome, LeaveGuard, Between
<1>2. /\ stack' = [stack EXCEPT ![s] = Front(@)]
      /\ UNCHANGED <<queueVars, waits, pending_events, sent, handled>>
  BY DEF LeaveGuard
<1>3. PICK q : q = <<>>
  OBVIOUS
<1>4. /\ mailbox' = [mailbox EXCEPT ![a] = q]
      /\ ready' = [ready EXCEPT ![s] = @ \ {a}] /\ alive' = alive \ {a}
      /\ UNCHANGED <<sched, migrating, putting, moved>>
  BY <1>3 DEF StopActor
<1>5. PICK h \in Guards : h = Top(s)
  BY <1>1, TopIsAlone
<1>6. /\ stack' \in [Scheds -> Seq(Guards)]
      /\ \A r \in Scheds : \A i \in DOMAIN stack'[r] :
           /\ i \in DOMAIN stack[r] /\ stack'[r][i] = stack[r][i]
           /\ stack'[r][i].actor # a
      /\ Running' = Running \ {a}
      /\ \A k \in Events : k # h.extra => InGuards(k)' = InGuards(k)
      /\ \A k : k = h.extra => \E p \in InGuards(k) : InGuards(k)' = InGuards(k) \ {p}
      /\ Len(stack[s]) \in DOMAIN stack[s] /\ h = stack[s][Len(stack[s])]
  <2>1. /\ stack' \in [Scheds -> Seq(Guards)]
        /\ \A r \in Scheds : \A i \in DOMAIN stack'[r] :
             /\ i \in DOMAIN stack[r] /\ stack'[r][i] = stack[r][i]
             /\ stack'[r][i].actor # Top(s).actor
        /\ Running' = Running \ {Top(s).actor}
        /\ \A k \in Events : k # Top(s).extra => InGuards(k)' = InGuards(k)
        /\ \A k : k = Top(s).extra => \E p \in InGuards(k) : InGuards(k)' = InGuards(k) \ {p}
        /\ Len(stack[s]) \in DOMAIN stack[s] /\ Top(s) = stack[s][Len(stack[s])]
    BY <1>1, <1>2, GuardPopped
  <2> QED
    BY <2>1, <1>5
<1>7. a \in alive /\ sched[a] = s /\ ~migrating[a]
  BY <1>1, TopIsAlone
<1>8. /\ ready' \in [Scheds -> SUBSET Actors]
      /\ \A r \in Scheds : \A b \in ready'[r] : b \in ready[r] /\ (b # a \/ r # s)
      /\ \A r \in Scheds : \A b \in Actors : b # a => (b \in ready'[r] <=> b \in ready[r])
  BY <1>1, <1>4 DEF TypeOK
<1>9. q \in Seq(Events) /\ Range(q) = {} /\ OnceOnly(q)
  BY <1>3, EmptyQueue
<1>10. /\ \A k : k \notin Range(q) => InMailbox(k)' = InMailbox(k) \ {<<"mailbox", a>>}
       /\ \A k : (k \in Range(q) <=> k \in Range(mailbox[a])) => InMailbox(k)' = InMailbox(k)
       /\ mailbox'[a] = q /\ \A b \in Actors : b # a => mailbox'[b] = mailbox[b]
  BY <1>1, <1>4, MailboxSet
<1>11. mailbox' \in [Actors -> Seq(Events)]
  BY <1>1, <1>4, <1>9
<1>12. \A r \in Scheds : \A i \in DOMAIN stack[r] : stack[r][i].actor \in Actors
  <2>1. \A r \in Scheds : \A i \in DOMAIN stack[r] : stack[r][i] \in Guards
    BY <1>1, ElementOfSeq, LenProperties
  <2> QED
    BY <2>1 DEF Guards
<1>13. TypeOK'
  <2>1. QueueTypeOK'
    BY <1>1, <1>2 DEF TypeOK, QueueTypeOK, queueVars
  <2>2. ASSUME NEW r \in Scheds, NEW i \in DOMAIN stack'[r]
        PROVE  stack'[r][i].left <= Len(mailbox'[stack'[r][i].actor]) /\ r \notin stack'[r][i].dest
    <3>1. i \in DOMAIN stack[r] /\ stack'[r][i] = stack[r][i] /\ stack[r][i].actor # a
      BY <2>2, <1>6
    <3>2. mailbox'[stack[r][i].actor] = mailbox[stack[r][i].actor]
      BY <3>1, <1>10, <1>12
    <3> QED
      BY <3>1, <3>2, <1>1 DEF TypeOK
  <2>3. /\ sent' = sent /\ handled' = handled /\ alive' \subseteq Actors /\ waits' = waits
        /\ pending_events' = pending_events /\ moved' = moved /\ sched' = sched
        /\ migrating' = migrating /\ putting' = putting
    BY <1>1, <1>2, <1>4 DEF TypeOK
  <2> QED
    BY <2>1, <2>2, <2>3, <1>1, <1>6, <1>8, <1>11 DEF TypeOK
<1>14. ActorsAtHome'
  <2>1. GuardedAtHome'
    BY <1>1, <1>4, <1>6 DEF GuardedAtHome
  <2>2. OneGuard'
    BY <1>1, <1>6 DEF OneGuard
  <2>3. ReadyAtHome'
    <3> SUFFICES ASSUME NEW r \in Scheds, NEW b \in ready'[r]
                 PROVE  b \in alive' /\ sched[b] = r /\ ~migrating[b]
      BY <1>4 DEF ReadyAtHome
    <3>1. b \in Actors /\ b \in ready[r] /\ (b # a \/ r # s)
      BY <1>8
    <3>2. b \in alive /\ sched[b] = r /\ ~migrating[b]
      BY <3>1, <1>1 DEF ActorsAtHome, ReadyAtHome
    <3> QED
      BY <3>1, <3>2, <1>4, <1>7
  <2>4. ReadyHasMail'
    <3> SUFFICES ASSUME NEW b \in alive', b \notin Running', ~migrating[b]
                 PROVE  b \in ready'[sched[b]] <=> mailbox'[b] # <<>>
      BY <1>4 DEF ReadyHasMail
    <3>1. b \in alive /\ b # a
      BY <1>4
    <3>2. b \in Actors /\ sched[b] \in Scheds
      BY <3>1, <1>1 DEF TypeOK
    <3>3. b \notin Running
      BY <3>1, <1>6
    <3> QED
      BY <3>1, <3>2, <3>3, <1>1, <1>8, <1>10 DEF ActorsAtHome, ReadyHasMail
  <2> QED
    BY <2>1, <2>2, <2>3, <2>4 DEF ActorsAtHome
<1>15. UNCHANGED Contents
  BY <1>2, SameVectors DEF queueVars
<1>16. Stored' = Stored /\ Held' = Held
  BY <1>4, <1>15 DEF Stored, Held
<1>17. \A x : Way(x)' = Way(x)
  BY <1>16 DEF Way, InHands, InQueues
<1>18. OnTheMove'
  BY <1>1, <1>2, <1>4, <1>7, <1>15, <1>17 DEF OnTheMove
<1>19. NoRepeats'
  <2>1. \A b \in Actors : OnceOnly(mailbox'[b])
    BY <1>1, <1>9, <1>10 DEF NoRepeats
  <2> QED
    BY <2>1, <1>1, <1>2, <1>15 DEF NoRepeats
<1>20. Addressed'
  <2>1. \A b \in Actors : \A k \in Range(mailbox'[b]) : sent[k].to = b
    BY <1>1, <1>9, <1>10 DEF Addressed
  <2>2. \A r \in Scheds : \A i \in DOMAIN stack'[r] :
          stack'[r][i].extra # 0 => sent[stack'[r][i].extra].to = stack'[r][i].actor
    BY <1>1, <1>6 DEF Addressed
  <2> QED
    BY <2>1, <2>2, <1>1, <1>2 DEF Addressed
<1>21. Kept' = Kept
  BY <1>2 DEF Kept
<1>22. \A k : InHandled(k)' = InHandled(k) /\ InPending(k)' = InPending(k)
  BY <1>2, <1>21 DEF InHandled, InPending
<1>23. OnePlace'
  <2>1. ASSUME NEW k \in Events
        PROVE  \/ Place(k)' = Place(k)
               \/ sent[k].to \notin alive' /\ Place(k)' \subseteq Place(k)
    <3>1. CASE k # h.extra /\ k \notin Range(mailbox[a])
      <4>1. InMailbox(k)' = InMailbox(k)
        BY <3>1, <1>9, <1>10
      <4>2. InGuards(k)' = InGuards(k)
        BY <3>1, <1>6
      <4> QED
        BY <4>1, <4>2, <1>17, <1>22 DEF Place, Rest
    <3>2. CASE k = h.extra \/ k \in Range(mailbox[a])
      <4>1. sent[k].to = a
        <5>1. k # 0
          BY DEF Events
        <5>2. k = h.extra => sent[k].to = h.actor
          BY <5>1, <1>1, <1>6 DEF Addressed
        <5> QED
          BY <3>2, <5>2, <1>1, <1>5 DEF Addressed
      <4>2. InMailbox(k)' \subseteq InMailbox(k)
        BY <1>9, <1>10
      <4>3. InGuards(k)' \subseteq InGuards(k)
        BY <1>6
      <4>4. Place(k)' \subseteq Place(k)
        BY <4>2, <4>3, <1>17, <1>22 DEF Place, Rest
      <4> QED
        BY <4>1, <4>4, <1>4
    <3> QED
      BY <3>1, <3>2
  <2>2. alive' \subseteq alive
    BY <1>4
  <2> QED
    BY <2>1, <2>2, <1>1, <1>2, PlacesKept
<1> QED
  BY <1>13, <1>14, <1>18, <1>19, <1>20, <1>23 DEF Core, EventsKept

LEMMA LeaveGuardKeeps ==
  ASSUME SInv, NEW s \in Scheds, LeaveGuard(s)
  PROVE  TypeOK' /\ Core'
<1>1. TypeOK /\ ActorsAtHome /\ stack[s] # <<>>
  BY DEF SInv, Core, LeaveGuard, Between
<1>2. PICK a \in Actors : a = Top(s).actor
  BY <1>1, TopIsAlone
<1>3. \/ StopActor(s, a)
      \/ \E d \in Top(s).dest : MigrateActor(s, a, d, MailOf(Top(s)))
      \/ Settle(s, a, MailOf(Top(s)))
  BY <1>2 DEF LeaveGuard, MailOf
<1> QED
  BY <1>2, <1>3, StopKeeps, MigrateKeeps, SettleKeeps

LEMMA HeadOfFirst ==
  ASSUME NEW S, NEW r \in Seq(S), NEW w \in Seq(S), r # <<>>
  PROVE  Head(r) = Head(r \o w)
<1>1. Len(r) \in Nat \ {0} /\ Len(w) \in Nat
  BY EmptySeq, LenProperties
<1>2. /\ r \o w \in Seq(S) /\ Len(r \o w) = Len(r) + Len(w)
      /\ \A i \in 1..Len(r \o w) : (r \o w)[i] = IF i <= Len(r) THEN r[i] ELSE w[i - Len(r)]
  BY ConcatProperties
<1>3. (r \o w)[1] = r[1] /\ r \o w # <<>>
  BY <1>1, <1>2
<1>4. Head(r) = r[1]
  BY HeadTailProperties
<1>5. Head(r \o w) = (r \o w)[1]
  BY <1>2, <1>3, HeadTailProperties
<1> QED
  BY <1>3, <1>4, <1>5

(* What the body of ServiceActor::loop takes was in this queue only. *)
LEMMA ItemTaken ==
  ASSUME SInv, NEW s \in Scheds, ReaderGet(s), NEW v, v = Head(reader_vector[s])
  PROVE  /\ InQueues(v)' = {} /\ Way(v) = {<<"queue", s>>} /\ InHands(v) = {}
         /\ \A x : x # v => InQueues(x)' = InQueues(x)
         /\ \A r \in Scheds : OnceOnly(Contents'[r])
         /\ \A r \in Scheds : Range(Contents'[r]) \subseteq Range(Contents[r])
         /\ \A r \in Scheds : v \notin Range(Contents'[r])
         /\ v \in Items /\ v \in Range(Contents[s])
<1>1. /\ TypeOK /\ IInv /\ QueueTypeOK /\ OnTheMove /\ OnePlace /\ NoRepeats
  BY DEF SInv, IInv, Core, EventsKept
<1>2. s \in Queues
  BY DEF Scheds
<1>3. Contents[s] # <<>> /\ Contents' = [Contents EXCEPT ![s] = Tail(@)]
  BY <1>1, <1>2, GetTakesFirst
<1>4. v = Head(Contents[s])
  <2>1. /\ reader_vector[s] \in Seq(Values) /\ writer_vector[s] \in Seq(Values)
        /\ reader_vector[s] # <<>>
    BY <1>1, <1>2 DEF QueueTypeOK, ReaderGet
  <2>2. Head(reader_vector[s]) = Head(reader_vector[s] \o writer_vector[s])
    BY <2>1, HeadOfFirst
  <2> QED
    BY <2>2, <1>2 DEF Contents
<1>5. \A r \in Scheds : OnceOnly(Contents[r])
  BY <1>1 DEF NoRepeats
<1>6. /\ InQueues(v)' = InQueues(v) \ { <<"queue", s>> }
      /\ \A x : x # v => InQueues(x)' = InQueues(x)
      /\ <<"queue", s>> \in InQueues(v)
      /\ \A r \in Scheds : OnceOnly(Contents'[r])
      /\ Range(Contents'[s]) = Range(Contents[s]) \ {v}
      /\ \A r \in Scheds : r # s => Range(Contents'[r]) = Range(Contents[r])
      /\ v \in Range(Contents[s]) /\ v \in Values
  BY <1>1, <1>3, <1>4, <1>5, QueueShrinks
<1>7. v \in Items
  BY <1>6, ItemsAssumption
<1>8. AtMostOne(Way(v))
  <2>1. CASE \E n \in Events : v = EventItem(n)
    BY <2>1, <1>1 DEF OnePlace, Place, AtMostOne
  <2>2. CASE \E a \in Actors : v = ActorItem(a)
    BY <2>2, <1>1 DEF OnTheMove
  <2> QED
    BY <2>1, <2>2, <1>7 DEF Items
<1>9. Way(v) = {<<"queue", s>>} /\ InQueues(v) = {<<"queue", s>>}
  BY <1>6, <1>8 DEF Way, AtMostOne
<1>10. InHands(v) = {}
  <2>1. <<"queue", s>> \notin InHands(v)
    BY WayIs
  <2> QED
    BY <2>1, <1>9 DEF Way
<1>11. InQueues(v)' = {}
  BY <1>6, <1>9
<1>12. \A r \in Scheds : v \notin Range(Contents'[r])
  <2>1. \A r \in Scheds : r # s => v \notin Range(Contents[r])
    <3> SUFFICES ASSUME NEW r \in Scheds, r # s, v \in Range(Contents[r]) PROVE FALSE
      OBVIOUS
    <3>1. <<"queue", r>> \in InQueues(v) /\ <<"queue", r>> # <<"queue", s>>
      BY WayIs
    <3> QED
      BY <3>1, <1>9
  <2> QED
    BY <2>1, <1>6
<1> QED
  BY <1>6, <1>7, <1>9, <1>10, <1>11, <1>12

(* The ServiceActor sends an event again, now from its own thread. *)
LEMMA ServiceEventKeeps ==
  ASSUME SInv, IInv', NEW s \in Scheds, Idle(s), ReaderGet(s), UNCHANGED notes,
         NEW n \in Events, EventItem(n) = Head(reader_vector[s]),
         NEW a, a = sent[n].to, SendImpl(s, a, n, FALSE)
  PROVE  TypeOK' /\ Core'
<1>1. TypeOK /\ Core /\ OnePlace /\ QueueTypeOK' /\ sent' = sent /\ handled' = handled /\ moved' = moved
  BY DEF SInv, IInv, Core, EventsKept, notes
<1>2. PICK v : v = EventItem(n)
  OBVIOUS
<1>3. /\ InQueues(v)' = {} /\ Way(v) = {<<"queue", s>>} /\ InHands(v) = {}
      /\ \A x : x # v => InQueues(x)' = InQueues(x)
      /\ \A r \in Scheds : OnceOnly(Contents'[r])
      /\ \A r \in Scheds : Range(Contents'[r]) \subseteq Range(Contents[r])
  BY <1>2, ItemTaken
<1>4. Place(n) = {<<"queue", s>>}
  BY <1>1, <1>2, <1>3, OnlyHere DEF Place
<1>5. Rest(n) = {}
  <2>1. <<"queue", s>> \notin Rest(n)
    BY DEF Rest, InHandled, InMailbox, InPending, InGuards, Tagged
  <2> QED
    BY <2>1, <1>4 DEF Place
<1>6. n <= Len(sent)
  BY <1>1, <1>4 DEF OnePlace
<1>7. sent \in Seq([from : Actors \cup Clients, to : Actors]) /\ Len(sent) <= MaxEvents
  BY <1>1 DEF TypeOK
<1>8. a \in Actors
  <2>1. n \in 1..Len(sent)
    BY <1>6, <1>7, LenProperties DEF Events
  <2>2. sent[n] \in [from : Actors \cup Clients, to : Actors]
    BY <2>1, <1>7, ElementOfSeq
  <2> QED
    BY <2>2
<1>9. Loose(n, a)
  <2>1. \A k \in Events : k # n => EventItem(k) # v
    BY <1>2, ItemsDiffer
  <2>2. \A b \in Actors : ActorItem(b) # v
    BY <1>2, ItemsDiffer
  <2>3. /\ InHands(EventItem(n)) = {} /\ InQueues(EventItem(n))' = {}
    BY <1>2, <1>3
  <2>4. \A k \in Events : k # n => InQueues(EventItem(k))' = InQueues(EventItem(k))
    BY <2>1, <1>3
  <2>5. \A b \in Actors : InQueues(ActorItem(b))' = InQueues(ActorItem(b))
    BY <2>2, <1>3
  <2> QED
    BY <2>3, <2>4, <2>5, <1>1, <1>3, <1>5, <1>6, <1>7, <1>8 DEF Loose
<1>10. s \in Threads /\ Free(s)
  BY QueueAssumption DEF Idle, Scheds
<1> QED
  BY <1>1, <1>9, <1>10, SendImplKeeps

(* register_migrated_actor: the actor has arrived, and what had overtaken  *)
(* it is behind what it brought along.                                     *)
LEMMA RegisterKeeps ==
  ASSUME SInv, IInv', NEW s \in Scheds, ReaderGet(s), UNCHANGED notes,
         NEW a \in Actors, ActorItem(a) = Head(reader_vector[s]), RegisterMigratedActor(s, a)
  PROVE  TypeOK' /\ Core'
<1>1. /\ TypeOK /\ OnTheMove /\ OnePlace /\ NoRepeats /\ Addressed /\ ActorsAtHome
      /\ QueueTypeOK' /\ stack \in [Scheds -> Seq(Guards)]
      /\ mailbox \in [Actors -> Seq(Events)]
      /\ pending_events \in [Scheds -> [Actors -> Seq(Events)]]
  BY DEF SInv, IInv, Core, EventsKept, TypeOK
<1>2. PICK v : v = ActorItem(a)
  OBVIOUS
<1>3. PICK q : q = mailbox[a] \o pending_events[s][a]
  OBVIOUS
<1>4. /\ migrating' = [migrating EXCEPT ![a] = FALSE]
      /\ mailbox' = [mailbox EXCEPT ![a] = q]
      /\ pending_events' = [pending_events EXCEPT ![s][a] = <<>>]
      /\ ready' = IF q = <<>> THEN ready ELSE [ready EXCEPT ![s] = @ \cup {a}]
      /\ \E w \in BOOLEAN : waits' = [waits EXCEPT ![a] = w]
      /\ UNCHANGED <<alive, sched, stack, putting, sent, handled, moved>>
  BY <1>3 DEF RegisterMigratedActor, notes
<1>5. /\ InQueues(v)' = {} /\ Way(v) = {<<"queue", s>>} /\ InHands(v) = {}
      /\ \A x : x # v => InQueues(x)' = InQueues(x)
      /\ \A r \in Scheds : OnceOnly(Contents'[r])
      /\ \A r \in Scheds : Range(Contents'[r]) \subseteq Range(Contents[r])
      /\ \A r \in Scheds : v \notin Range(Contents'[r])
      /\ v \in Range(Contents[s])
  BY <1>2, ItemTaken
<1>6. Held' = Held
  BY <1>4 DEF Held
<1>7. /\ Way(v)' = {} /\ \A x : x # v => Way(x)' = Way(x)
      /\ \A t \in Threads : ~(putting[t] # <<>> /\ putting[t][2] = v)
  <2>1. \A x : InHands(x)' = InHands(x)
    BY <1>6 DEF InHands
  <2>2. \A t \in Threads : ~(putting[t] # <<>> /\ putting[t][2] = v)
    BY <1>5, WayIs
  <2> QED
    BY <2>1, <2>2, <1>5 DEF Way
<1>8. migrating[a] /\ sched[a] = s /\ a \in alive
  BY <1>1, <1>2, <1>5 DEF OnTheMove
<1>9. a \notin Running
  BY <1>1, <1>8 DEF Running, IsRunning, ActorsAtHome, GuardedAtHome
<1>10. /\ pending_events'[s][a] = <<>>
       /\ \A r \in Scheds, b \in Actors :
            r # s \/ b # a => pending_events'[r][b] = pending_events[r][b]
       /\ pending_events' \in [Scheds -> [Actors -> Seq(Events)]]
  <2>1. <<>> \in Seq(Events)
    OBVIOUS
  <2> QED
    BY <2>1, <1>1, <1>4
<1>11. \A k : (k \in Range(mailbox[a]) => <<"mailbox", a>> \in InMailbox(k))
              /\ (k \in Range(pending_events[s][a]) => <<"pending", <<s, a>>>> \in InPending(k))
  <2>1. \A k : k \in Range(mailbox[a]) => <<"mailbox", a>> \in InMailbox(k)
    BY <1>1, <1>4, MailboxSet
  <2>2. \A k : k \in Range(pending_events[s][a]) => <<"pending", <<s, a>>>> \in InPending(k)
    BY <1>1, <1>10, PendingSet
  <2> QED
    BY <2>1, <2>2
<1>12. /\ mailbox[a] \in Seq(Events) /\ pending_events[s][a] \in Seq(Events)
       /\ OnceOnly(mailbox[a]) /\ OnceOnly(pending_events[s][a])
  BY <1>1 DEF NoRepeats
<1>13. /\ Range(mailbox[a]) \subseteq Events /\ Range(pending_events[s][a]) \subseteq Events
  <2>1. /\ \A k \in Range(mailbox[a]) : \E i \in 1..Len(mailbox[a]) : mailbox[a][i] = k
        /\ \A k \in Range(pending_events[s][a]) :
             \E i \in 1..Len(pending_events[s][a]) : pending_events[s][a][i] = k
    BY <1>12, InRange
  <2> QED
    BY <2>1, <1>12, ElementOfSeq
<1>14. \A k \in Range(mailbox[a]) : k \notin Range(pending_events[s][a])
  <2> SUFFICES ASSUME NEW k \in Range(mailbox[a]), k \in Range(pending_events[s][a])
               PROVE  FALSE
    OBVIOUS
  <2>1. k \in Events /\ AtMostOne(Place(k))
    BY <1>1, <1>13 DEF OnePlace
  <2>2. <<"mailbox", a>> \in Place(k) /\ <<"pending", <<s, a>>>> \in Place(k)
    BY <1>11 DEF Place, Rest
  <2>3. <<"mailbox", a>> # <<"pending", <<s, a>>>>
    OBVIOUS
  <2> QED
    BY <2>1, <2>2, <2>3 DEF AtMostOne
<1>15. /\ q \in Seq(Events) /\ Range(q) = Range(mailbox[a]) \cup Range(pending_events[s][a])
       /\ OnceOnly(q)
  BY <1>3, <1>12, <1>14, ConcatOnce
<1>16. /\ \A k : k \in Range(q) => InMailbox(k)' = InMailbox(k) \cup {<<"mailbox", a>>}
       /\ \A k : (k \in Range(q) <=> k \in Range(mailbox[a])) => InMailbox(k)' = InMailbox(k)
       /\ mailbox'[a] = q /\ \A b \in Actors : b # a => mailbox'[b] = mailbox[b]
  BY <1>1, <1>4, MailboxSet
<1>17. /\ \A k : k \notin Range(pending_events'[s][a]) =>
            InPending(k)' = InPending(k) \ {<<"pending", <<s, a>>>>}
       /\ \A k : (k \in Range(pending_events'[s][a]) <=> k \in Range(pending_events[s][a]))
                   => InPending(k)' = InPending(k)
  BY <1>1, <1>10, PendingSet
<1>18. Range(pending_events'[s][a]) = {}
  BY <1>10, EmptyQueue
<1>19. Extras' = Extras
  BY <1>4 DEF Extras
<1>20. \A k : InHandled(k)' = InHandled(k) /\ InGuards(k)' = InGuards(k)
  BY <1>4, <1>19 DEF InHandled, InGuards
<1>21. ASSUME NEW k \in Events
       PROVE  \/ Rest(k)' = Rest(k)
              \/ Rest(k) # {} /\ \E p2 : Rest(k)' = {p2}
  <2>1. CASE k \notin Range(pending_events[s][a])
    <3>1. InMailbox(k)' = InMailbox(k)
      BY <2>1, <1>15, <1>16
    <3>2. InPending(k)' = InPending(k)
      BY <2>1, <1>17, <1>18
    <3> QED
      BY <3>1, <3>2, <1>20 DEF Rest
  <2>2. CASE k \in Range(pending_events[s][a])
    <3>1. <<"pending", <<s, a>>>> \in InPending(k)
      BY <2>2, <1>11
    <3>2. Place(k) = {<<"pending", <<s, a>>>>}
      BY <3>1, <1>1, OnlyHere DEF Place, Rest
    <3>3. <<"pending", <<s, a>>>> \notin InHandled(k) \cup InMailbox(k) \cup InGuards(k)
      BY DEF InHandled, InMailbox, InGuards, Tagged
    <3>4. /\ InHandled(k) = {} /\ InMailbox(k) = {} /\ InGuards(k) = {}
          /\ InPending(k) = {<<"pending", <<s, a>>>>}
      BY <3>1, <3>2, <3>3 DEF Place, Rest
    <3>5. InMailbox(k)' = {<<"mailbox", a>>}
      BY <2>2, <3>4, <1>15, <1>16
    <3>6. InPending(k)' = {}
      BY <3>4, <1>17, <1>18
    <3> QED
      BY <3>1, <3>4, <3>5, <3>6, <1>20 DEF Rest
  <2> QED
    BY <2>1, <2>2
<1>22. /\ migrating' \in [Actors -> BOOLEAN] /\ ~migrating'[a]
       /\ \A b \in Actors : b # a => migrating'[b] = migrating[b]
  BY <1>1, <1>4 DEF TypeOK
<1>23. /\ ready' \in [Scheds -> SUBSET Actors]
       /\ \A r \in Scheds : \A b \in Actors : b # a \/ r # s => (b \in ready'[r] <=> b \in ready[r])
       /\ a \in ready'[s] <=> q # <<>>
  <2>1. a \notin ready[s]
    BY <1>1, <1>8 DEF ActorsAtHome, ReadyAtHome
  <2>2. ready \in [Scheds -> SUBSET Actors]
    BY <1>1 DEF TypeOK
  <2>3. CASE q = <<>>
    BY <2>1, <2>2, <2>3, <1>4
  <2>4. CASE q # <<>>
    BY <2>1, <2>2, <2>4, <1>4
  <2> QED
    BY <2>3, <2>4
<1>24. mailbox' \in [Actors -> Seq(Events)] /\ \A b \in Actors : OnceOnly(mailbox'[b])
  <2>1. mailbox' \in [Actors -> Seq(Events)]
    BY <1>1, <1>4, <1>15
  <2>2. \A b \in Actors : OnceOnly(mailbox'[b])
    BY <1>1, <1>15, <1>16 DEF NoRepeats
  <2> QED
    BY <2>1, <2>2
<1>25. \A r \in Scheds : \A i \in DOMAIN stack[r] :
         stack[r][i].actor \in Actors /\ stack[r][i].actor # a
  <2>1. \A r \in Scheds : \A i \in DOMAIN stack[r] : stack[r][i] \in Guards
    BY <1>1, ElementOfSeq, LenProperties
  <2>2. \A r \in Scheds : \A i \in DOMAIN stack[r] : stack[r][i].actor \in Actors
    BY <2>1 DEF Guards
  <2> QED
    BY <2>2, <1>9 DEF Running, IsRunning
<1>26. TypeOK'
  <2>1. waits' \in [Actors -> BOOLEAN]
    BY <1>1, <1>4 DEF TypeOK
  <2>2. ASSUME NEW r \in Scheds, NEW i \in DOMAIN stack[r]
        PROVE  stack[r][i].left <= Len(mailbox'[stack[r][i].actor]) /\ r \notin stack[r][i].dest
    <3>1. mailbox'[stack[r][i].actor] = mailbox[stack[r][i].actor]
      BY <1>16, <1>25
    <3> QED
      BY <3>1, <1>1 DEF TypeOK
  <2>3. /\ sent' = sent /\ handled' = handled /\ alive' = alive
        /\ moved' = moved /\ sched' = sched /\ stack' = stack /\ putting' = putting
    BY <1>4
  <2> QED
    BY <2>1, <2>2, <2>3, <1>1, <1>10, <1>22, <1>23, <1>24 DEF TypeOK
<1>27. ActorsAtHome'
  <2>1. GuardedAtHome'
    BY <1>1, <1>4, <1>22, <1>25 DEF ActorsAtHome, GuardedAtHome
  <2>2. OneGuard'
    BY <1>1, <1>4 DEF ActorsAtHome, OneGuard
  <2>3. ReadyAtHome'
    <3> SUFFICES ASSUME NEW r \in Scheds, NEW b \in ready'[r]
                 PROVE  b \in alive /\ sched[b] = r /\ ~migrating'[b]
      BY <1>4 DEF ReadyAtHome
    <3>1. b \in Actors
      BY <1>23
    <3>2. CASE b = a /\ r = s
      BY <3>2, <1>8, <1>22
    <3>3. CASE b # a \/ r # s
      <4>1. b \in alive /\ sched[b] = r /\ ~migrating[b]
        BY <3>1, <3>3, <1>1, <1>23 DEF ActorsAtHome, ReadyAtHome
      <4> QED
        BY <4>1, <3>1, <1>8, <1>22
    <3> QED
      BY <3>2, <3>3
  <2>4. ReadyHasMail'
    <3>1. Running' = Running
      BY <1>4 DEF Running, IsRunning
    <3> SUFFICES ASSUME NEW b \in alive, b \notin Running, ~migrating'[b]
                 PROVE  b \in ready'[sched[b]] <=> mailbox'[b] # <<>>
      BY <1>4, <3>1 DEF ReadyHasMail
    <3>2. b \in Actors /\ sched[b] \in Scheds
      BY <1>1 DEF TypeOK
    <3>3. CASE b = a
      BY <3>3, <1>8, <1>16, <1>23
    <3>4. CASE b # a
      <4>1. ~migrating[b] /\ mailbox'[b] = mailbox[b]
        BY <3>2, <3>4, <1>16, <1>22
      <4>2. b \in ready'[sched[b]] <=> b \in ready[sched[b]]
        BY <3>2, <3>4, <1>23
      <4> QED
        BY <4>1, <4>2, <1>1 DEF ActorsAtHome, ReadyHasMail
    <3> QED
      BY <3>3, <3>4
  <2> QED
    BY <2>1, <2>2, <2>3, <2>4 DEF ActorsAtHome
<1>28. OnTheMove'
  <2> SUFFICES ASSUME NEW b \in Actors
               PROVE  /\ migrating'[b] => b \in alive'
                      /\ migrating'[b] <=> Way(ActorItem(b))' # {}
                      /\ AtMostOne(Way(ActorItem(b))')
                      /\ \A t \in Threads : putting'[t] # <<>> /\ putting'[t][2] = ActorItem(b) =>
                                              putting'[t][1] = sched'[b]
                      /\ \A r \in Scheds : ActorItem(b) \in Range(Contents'[r]) => sched'[b] = r
                      /\ \A r \in Scheds : pending_events'[r][b] # <<>> => migrating'[b] /\ sched'[b] = r
    BY DEF OnTheMove, AtMostOne
  <2>1. /\ migrating[b] => b \in alive
        /\ migrating[b] <=> Way(ActorItem(b)) # {}
        /\ AtMostOne(Way(ActorItem(b)))
        /\ \A t \in Threads : putting[t] # <<>> /\ putting[t][2] = ActorItem(b) =>
                                putting[t][1] = sched[b]
        /\ \A r \in Scheds : ActorItem(b) \in Range(Contents[r]) => sched[b] = r
        /\ \A r \in Scheds : pending_events[r][b] # <<>> => migrating[b] /\ sched[b] = r
    BY <1>1 DEF OnTheMove
  <2>2. \A r \in Scheds : ActorItem(b) \in Range(Contents'[r]) => sched[b] = r
    BY <2>1, <1>5
  <2>3. CASE b = a
    <3>1. Way(ActorItem(b))' = {}
      BY <2>3, <1>2, <1>7
    <3>2. \A r \in Scheds : pending_events'[r][b] = <<>>
      BY <2>1, <2>3, <1>8, <1>10
    <3> QED
      BY <2>1, <2>2, <2>3, <3>1, <3>2, <1>4, <1>22 DEF AtMostOne
  <2>4. CASE b # a
    <3>1. ActorItem(b) # v
      BY <2>4, <1>2, ItemsDiffer
    <3>2. Way(ActorItem(b))' = Way(ActorItem(b))
      BY <3>1, <1>7
    <3>3. \A r \in Scheds : pending_events'[r][b] = pending_events[r][b]
      BY <2>4, <1>10
    <3> QED
      BY <2>1, <2>2, <2>4, <3>2, <3>3, <1>4, <1>22
  <2> QED
    BY <2>3, <2>4
<1>29. NoRepeats'
  <2>1. \A r \in Scheds, b \in Actors : OnceOnly(pending_events'[r][b])
    BY <1>1, <1>10, EmptyQueue DEF NoRepeats
  <2> QED
    BY <2>1, <1>1, <1>4, <1>5, <1>24 DEF NoRepeats
<1>30. Addressed'
  <2>1. \A b \in Actors : \A k \in Range(mailbox'[b]) : sent[k].to = b
    BY <1>1, <1>15, <1>16 DEF Addressed
  <2>2. ASSUME NEW r \in Scheds, NEW b \in Actors, NEW k \in Range(pending_events'[r][b])
        PROVE  sent[k].to = b
    <3>1. r # s \/ b # a
      BY <2>2, <1>18
    <3>2. k \in Range(pending_events[r][b])
      BY <2>2, <3>1, <1>10
    <3> QED
      BY <3>2, <1>1 DEF Addressed
  <2> QED
    BY <2>1, <2>2, <1>1, <1>4 DEF Addressed
<1>31. OnePlace'
  <2>1. \A k : Way(EventItem(k))' = Way(EventItem(k))
    BY <1>2, <1>7, ItemsDiffer
  <2>2. ASSUME NEW k \in Events
        PROVE  \/ Place(k)' = Place(k)
               \/ \E p \in Place(k) : \E p2 : Place(k)' = (Place(k) \ {p}) \cup {p2}
    <3>1. CASE Rest(k)' = Rest(k)
      BY <3>1, <2>1 DEF Place
    <3>2. CASE Rest(k) # {} /\ \E p2 : Rest(k)' = {p2}
      BY <3>2, <2>1, <1>1, RestMoved
    <3> QED
      BY <3>1, <3>2, <1>21
  <2> QED
    BY <2>2, <1>1, <1>4, PlacesKept
<1> QED
  BY <1>26, <1>27, <1>28, <1>29, <1>30, <1>31 DEF Core, EventsKept

LEMMA ServiceItemKeeps ==
  ASSUME SInv, IInv', NEW s \in Scheds, ServiceItem(s)
  PROVE  TypeOK' /\ Core'
<1>1. PICK v : v = Head(reader_vector[s])
  OBVIOUS
<1>2. Idle(s) /\ ReaderGet(s) /\ UNCHANGED notes
  BY DEF ServiceItem
<1>3. v \in Items
  BY <1>1, <1>2, ItemTaken
<1>4. \/ v[1] = "actor" /\ RegisterMigratedActor(s, v[2])
      \/ v[1] = "event" /\ SendImpl(s, sent[v[2]].to, v[2], FALSE)
  BY <1>1 DEF ServiceItem
<1>5. CASE \E n \in Events : v = EventItem(n)
  <2>1. PICK n \in Events : v = EventItem(n)
    BY <1>5
  <2>2. PICK a : a = sent[n].to
    OBVIOUS
  <2>3. v[1] = "event" /\ v[2] = n
    BY <2>1 DEF EventItem
  <2>4. SendImpl(s, a, n, FALSE)
    BY <2>2, <2>3, <1>4
  <2> QED
    BY <2>1, <2>2, <2>4, <1>1, <1>2, ServiceEventKeeps
<1>6. CASE \E a \in Actors : v = ActorItem(a)
  <2>1. PICK a \in Actors : v = ActorItem(a)
    BY <1>6
  <2>2. v[1] = "actor" /\ v[2] = a
    BY <2>1 DEF ActorItem
  <2>3. RegisterMigratedActor(s, a)
    BY <2>2, <1>4
  <2> QED
    BY <2>1, <2>3, <1>1, <1>2, RegisterKeeps
<1> QED
  BY <1>3, <1>5, <1>6 DEF Items
-----------------------------------------------------------------------------
(* The Start events: each number up to that of the actors is that of one.  *)
LEMMA CreatedOnce ==
  LET N == Cardinality(Actors)
  IN /\ N \in Nat /\ DOMAIN Created = 1..N
     /\ \A n \in 1..N : Created[n] \in Actors
     /\ \A n, m \in 1..N : Created[n] = Created[m] => n = m
     /\ \A a \in Actors : \E n \in 1..N : Created[n] = a
<1> DEFINE N == Cardinality(Actors)
<1>1. IsFiniteSet(Actors)
  BY SchedulerAssumption
<1>2. N \in Nat /\ ExistsBijection(1..N, Actors)
  BY <1>1, FS_CardinalityType
<1>3. \E f \in [1..N -> Actors] : IsInjective(f)
  BY <1>2 DEF ExistsBijection, Bijection, Injection
<1>4. Created \in [1..N -> Actors] /\ IsInjective(Created)
  BY <1>3 DEF Created, SetToSeq
<1>5. Created \in Injection(1..N, Actors)
  BY <1>4 DEF Injection
<1>6. Cardinality(1..N) = N
  <2>1. 1 \in Int /\ N \in Int
    BY <1>2
  <2>2. Cardinality(1..N) = IF 1 > N THEN 0 ELSE N - 1 + 1
    BY <2>1, FS_Interval
  <2> QED
    BY <2>2, <1>2
<1>7. Created \in Surjection(1..N, Actors)
  BY <1>1, <1>5, <1>6, FS_Injection
<1> QED
  BY <1>2, <1>4, <1>7 DEF IsInjective, Surjection

LEMMA InitSInv == Init => SInv
<1> SUFFICES ASSUME Init PROVE SInv
  OBVIOUS
<1> DEFINE N == Cardinality(Actors)
<1>1. /\ N \in Nat /\ DOMAIN Created = 1..N
      /\ \A n \in 1..N : Created[n] \in Actors
      /\ \A n, m \in 1..N : Created[n] = Created[m] => n = m
      /\ \A a \in Actors : \E n \in 1..N : Created[n] = a
  BY CreatedOnce
<1>2. N <= MaxEvents /\ MaxEvents \in Nat /\ Home \in [Actors -> Scheds] /\ Creator \in Clients
  BY SchedulerAssumption DEF Creator
<1> HIDE DEF N
<1>3. IInv /\ QueueTypeOK
  BY InitIInv DEF Init, IInv
<1>4. /\ sent = [n \in 1..N |-> [from |-> Creator, to |-> Created[n]]]
      /\ handled = [a \in Actors |-> <<>>] /\ moved = {} /\ alive = Actors /\ sched = Home
      /\ migrating = [a \in Actors |-> FALSE] /\ waits = [a \in Actors |-> TRUE]
      /\ ready = [s \in Scheds |-> { a \in Actors : Home[a] = s }]
      /\ pending_events = [s \in Scheds |-> [a \in Actors |-> <<>>]]
      /\ stack = [s \in Scheds |-> <<>>] /\ putting = [t \in Threads |-> <<>>]
  BY <1>1 DEF Init
<1>5. sent \in Seq([from : Actors \cup Clients, to : Actors]) /\ Len(sent) = N
  <2>1. \A n \in 1..N : [from |-> Creator, to |-> Created[n]] \in [from : Actors \cup Clients, to : Actors]
    BY <1>1, <1>2
  <2> QED
    BY <2>1, <1>1, <1>4
<1> DEFINE first(a) == CHOOSE n \in 1..N : Created[n] = a
<1>6. mailbox = [a \in Actors |-> <<first(a)>>]
  BY <1>1 DEF Init
<1>7. \A a \in Actors : first(a) \in 1..N /\ Created[first(a)] = a
  BY <1>1
<1>8. \A n \in 1..N : n \in Events
  BY <1>1, <1>2 DEF Events
<1> HIDE DEF first
<1>9. \A a \in Actors : first(a) \in Events
  BY <1>7, <1>8
<1>10. \A a \in Actors : /\ mailbox[a] \in Seq(Events) /\ Range(mailbox[a]) = {first(a)}
                         /\ OnceOnly(mailbox[a]) /\ mailbox[a] # <<>>
  <2> SUFFICES ASSUME NEW a \in Actors
               PROVE  /\ mailbox[a] \in Seq(Events) /\ Range(mailbox[a]) = {first(a)}
                      /\ OnceOnly(mailbox[a]) /\ mailbox[a] # <<>>
    OBVIOUS
  <2>1. PICK n \in Events : n = first(a)
    BY <1>9
  <2>2. mailbox[a] = <<n>>
    BY <2>1, <1>6
  <2>3. <<n>> \in Seq(Events) /\ Range(<<n>>) = {n} /\ OnceOnly(<<n>>) /\ <<n>> # <<>>
    BY OneElement
  <2> QED
    BY <2>1, <2>2, <2>3
<1>11. TypeOK
  <2>1. /\ handled \in [Actors -> Seq(Events)]
        /\ pending_events \in [Scheds -> [Actors -> Seq(Events)]]
        /\ stack \in [Scheds -> Seq(Guards)]
        /\ putting \in [Threads -> {<<>>} \cup (Scheds \X Items)]
    BY <1>4
  <2>2. mailbox \in [Actors -> Seq(Events)]
    BY <1>6, <1>10
  <2>3. \A s \in Scheds : DOMAIN stack[s] = {}
    BY <1>4
  <2>4. /\ alive \subseteq Actors /\ moved \subseteq Actors
        /\ sched \in [Actors -> Scheds] /\ migrating \in [Actors -> BOOLEAN]
        /\ waits \in [Actors -> BOOLEAN] /\ ready \in [Scheds -> SUBSET Actors]
    BY <1>2, <1>4
  <2> QED
    BY <2>1, <2>2, <2>3, <2>4, <1>2, <1>3, <1>5 DEF TypeOK
<1>12. \A s \in Scheds : Contents[s] = <<>>
  <2>1. \A s \in Scheds : reader_vector[s] = <<>> /\ writer_vector[s] = <<>>
    BY DEF Init, QueueInit, Scheds
  <2> QED
    BY <2>1, ConcatEmptySeq, EmptySeq DEF Contents, Scheds
<1>13. /\ \A s \in Scheds : Range(Contents[s]) = {} /\ OnceOnly(Contents[s])
       /\ \A a \in Actors : Range(handled[a]) = {} /\ OnceOnly(handled[a])
       /\ \A s \in Scheds, a \in Actors :
            Range(pending_events[s][a]) = {} /\ OnceOnly(pending_events[s][a])
       /\ \A s \in Scheds : DOMAIN stack[s] = {}
  BY <1>4, <1>12, EmptyQueue
<1>14. Running = {}
  BY <1>13 DEF Running, IsRunning
<1>15. ActorsAtHome
  BY <1>2, <1>4, <1>10, <1>13, <1>14
  DEF ActorsAtHome, GuardedAtHome, OneGuard, ReadyAtHome, ReadyHasMail
<1>16. \A item : Way(item) = {}
  <2>1. \A item : InHands(item) = {}
    BY <1>4 DEF InHands, Tagged, Held
  <2>2. \A item : InQueues(item) = {}
    BY <1>13 DEF InQueues, Tagged, Stored
  <2> QED
    BY <2>1, <2>2 DEF Way
<1>17. OnTheMove
  BY <1>4, <1>13, <1>16 DEF OnTheMove, AtMostOne
<1>18. \A k : Place(k) = { <<"mailbox", a>> : a \in { b \in Actors : k = first(b) } }
  <2>1. \A k : InHandled(k) = {}
    BY <1>13 DEF InHandled, Tagged, Ranges
  <2>2. \A k : InPending(k) = {}
    <3>1. \A y \in Scheds \X Actors : Kept[y] = {}
      BY <1>13 DEF Kept
    <3> QED
      BY <3>1 DEF InPending, Tagged
  <2>3. \A k : InGuards(k) = {}
    <3>1. \A y \in Scheds \X Nat : Extras[y] = {}
      BY <1>13 DEF Extras
    <3> QED
      BY <3>1 DEF InGuards, Tagged
  <2>4. \A k : InMailbox(k) = { <<"mailbox", a>> : a \in { b \in Actors : k = first(b) } }
    <3>1. \A a \in Actors : Ranges(mailbox)[a] = {first(a)}
      BY <1>10 DEF Ranges
    <3> QED
      BY <3>1 DEF InMailbox, Tagged
  <2> QED
    BY <2>1, <2>2, <2>3, <2>4, <1>16 DEF Place, Rest
<1>19. OnePlace
  <2> SUFFICES ASSUME NEW n \in Events
               PROVE  /\ AtMostOne(Place(n))
                      /\ Place(n) # {} => n <= Len(sent)
                      /\ n <= Len(sent) /\ sent[n].to \in alive => Place(n) # {}
    BY DEF OnePlace
  <2>1. \A p \in Place(n) : \E b \in Actors : p = <<"mailbox", b>> /\ n = first(b)
    BY <1>18
  <2>2. AtMostOne(Place(n))
    BY <2>1, <1>7 DEF AtMostOne
  <2>3. Place(n) # {} => n <= Len(sent)
    BY <2>1, <1>1, <1>5, <1>7
  <2>4. ASSUME n <= Len(sent) PROVE Place(n) # {}
    <3>1. n \in 1..N
      BY <2>4, <1>1, <1>5 DEF Events
    <3>2. PICK a \in Actors : a = Created[n]
      BY <3>1, <1>1
    <3>3. first(a) = n
      BY <3>1, <3>2, <1>1, <1>7
    <3> QED
      BY <3>2, <3>3, <1>18
  <2> QED
    BY <2>2, <2>3, <2>4
<1>20. NoRepeats
  BY <1>10, <1>13 DEF NoRepeats
<1>21. Addressed
  <2>1. \A a \in Actors : sent[first(a)].to = a
    BY <1>4, <1>7
  <2> QED
    BY <2>1, <1>10, <1>13, ZenonT(60) DEF Addressed
<1> QED
  BY <1>3, <1>11, <1>15, <1>17, <1>19, <1>20, <1>21 DEF SInv, Core, EventsKept

LEMMA NextSInv == SInv /\ [Next]_vars => SInv'
<1> SUFFICES ASSUME SInv, [Next]_vars PROVE SInv'
  OBVIOUS
<1>1. TypeOK /\ IInv /\ Core /\ ActorsAtHome
  BY DEF SInv, Core
<1>2. IInv'
  BY <1>1, StepOfQueues, NextIInv
<1>3. ASSUME NEW t \in Threads, Put(t) PROVE TypeOK' /\ Core'
  BY <1>2, <1>3, PutKeeps
<1>4. ASSUME NEW t \in Threads, Release(t) PROVE TypeOK' /\ Core'
  <2>1. CASE \E s \in Scheds : TRUE
    BY <2>1, <1>2, <1>4, QueueStepsKeep
  <2>2. CASE ~ \E s \in Scheds : TRUE
    <3>1. releasing[t] \subseteq Scheds
      BY <1>1 DEF TypeOK, QueueTypeOK, Scheds
    <3> QED
      BY <2>2, <3>1, <1>4 DEF Release, WriterRelease
  <2> QED
    BY <2>1, <2>2
<1>5. ASSUME NEW c \in Clients, NEW a \in Actors, ClientSend(c, a) PROVE TypeOK' /\ Core'
  <2>1. c \in Threads /\ c \in Actors \cup Clients /\ FALSE \in BOOLEAN
    BY DEF Clients
  <2>2. Free(c) /\ Send(c, c, a, FALSE)
    BY <1>5 DEF ClientSend
  <2> QED
    BY <2>1, <2>2, SendKeeps
<1>6. ASSUME NEW s \in Scheds, SchedulerStep(s) PROVE TypeOK' /\ Core'
  <2>1. ASSUME NEW a \in Actors, NEW later \in BOOLEAN, HandlerSend(s, a, later)
        PROVE  TypeOK' /\ Core'
    <3>1. Free(s) /\ stack[s] # <<>> /\ s \in Threads
      BY <2>1, QueueAssumption DEF HandlerSend, Busy, Scheds
    <3>2. PICK from \in Actors \cup Clients : from = Top(s).actor
      BY <3>1, <1>1, TopIsAlone
    <3>3. Send(s, from, a, later)
      BY <2>1, <3>2 DEF HandlerSend
    <3> QED
      BY <3>1, <3>3, SendKeeps
  <2>2. CASE (\E d \in Scheds : HandlerMigrate(s, d)) \/ HandlerStop(s) \/ HandlerReturn(s)
    BY <2>2, <1>2, HandlerKeeps
  <2>3. CASE DoEvent(s)
    BY <2>3, DoMailKeeps, DoExtraKeeps
  <2>4. CASE LeaveGuard(s)
    BY <2>4, LeaveGuardKeeps
  <2>5. ASSUME NEW a \in Actors, RunMailbox(s, a) PROVE TypeOK' /\ Core'
    BY <2>5, RunMailboxKeeps
  <2>6. CASE RunService(s) \/ GoOnService(s) \/ Poll(s)
    BY <2>6, <1>2, QueueStepsKeep
  <2>7. CASE ServiceItem(s)
    BY <2>7, <1>2, ServiceItemKeeps
  <2> QED
    BY <1>6, <2>1, <2>2, <2>3, <2>4, <2>5, <2>6, <2>7 DEF SchedulerStep
<1>7. CASE UNCHANGED vars
  <2>1. UNCHANGED Contents
    BY <1>7, SameVectors DEF vars, queueVars
  <2>2. /\ waits' \in [Actors -> BOOLEAN] /\ QueueTypeOK'
        /\ UNCHANGED <<alive, sched, migrating, mailbox, ready, pending_events, sent, handled,
                       moved, stack, putting>>
    BY <1>1, <1>2, <1>7 DEF vars, actorVars, notes, TypeOK, IInv
  <2> QED
    BY <2>1, <2>2, <1>1, <1>2, QuietKeeps DEF SInv
<1> QED
  BY <1>2, <1>3, <1>4, <1>5, <1>6, <1>7 DEF Next, SInv
-----------------------------------------------------------------------------
(* The inductive invariant says what the properties say.                   *)
LEMMA SInvRunsAtHome == SInv => RunsAtHome
<1> SUFFICES ASSUME SInv PROVE RunsAtHome
  OBVIOUS
<1>1. TypeOK /\ GuardedAtHome /\ OneGuard /\ ReadyAtHome /\ ReadyHasMail
  BY DEF SInv, Core, ActorsAtHome
<1>2. ASSUME NEW a \in Actors, NEW s \in Scheds, ~IsRunning(a)
      PROVE  a \in ready[s] <=> /\ a \in alive
                                /\ sched[a] = s /\ ~migrating[a]
                                /\ mailbox[a] # <<>>
  <2>1. a \notin Running
    BY <1>2 DEF Running
  <2>2. a \in alive /\ sched[a] = s /\ ~migrating[a] => (a \in ready[s] <=> mailbox[a] # <<>>)
    BY <2>1, <1>1 DEF ReadyHasMail
  <2>3. a \in ready[s] => a \in alive /\ sched[a] = s /\ ~migrating[a]
    BY <1>1 DEF ReadyAtHome
  <2> QED
    BY <2>2, <2>3
<1>3. \A s \in Scheds : \A i \in DOMAIN stack[s] :
        /\ stack[s][i].actor \in alive
        /\ sched[stack[s][i].actor] = s /\ ~migrating[stack[s][i].actor]
  BY <1>1 DEF GuardedAtHome
<1>4. \A s \in Scheds : \A i, j \in DOMAIN stack[s] :
        stack[s][i].actor = stack[s][j].actor => i = j
  BY <1>1 DEF OneGuard
<1> QED
  BY <1>2, <1>3, <1>4 DEF RunsAtHome

(* The two ways to name the places of what travels.                        *)
LEMMA TravellingIsWay ==
  ASSUME QueueTypeOK, NEW item
  PROVE  /\ \A p \in Travelling(item) :
              \/ \E t \in Threads : p = <<"thread", t, 0>> /\ <<"thread", t>> \in Way(item)
              \/ \E s \in Scheds : \E i \in 1..Len(Contents[s]) :
                   /\ p = <<"queue", s, i>> /\ <<"queue", s>> \in Way(item)
                   /\ Contents[s][i] = item
         /\ Way(item) # {} => Travelling(item) # {}
<1>1. Contents \in [Scheds -> Seq(Values)]
  BY TypeOfContents
<1>2. \A s \in Scheds : DOMAIN Contents[s] = 1..Len(Contents[s])
  BY <1>1, LenProperties, Zenon
<1>3. \A s \in Scheds : /\ \A x \in Range(Contents[s]) :
                             \E i \in 1..Len(Contents[s]) : Contents[s][i] = x
                        /\ \A i \in 1..Len(Contents[s]) : Contents[s][i] \in Range(Contents[s])
  BY <1>1, InRange
<1>4. ASSUME NEW p \in Travelling(item)
      PROVE  \/ \E t \in Threads : p = <<"thread", t, 0>> /\ <<"thread", t>> \in Way(item)
             \/ \E s \in Scheds : \E i \in 1..Len(Contents[s]) :
                  /\ p = <<"queue", s, i>> /\ <<"queue", s>> \in Way(item)
                  /\ Contents[s][i] = item
  <2>1. \/ \E t \in Threads : p = <<"thread", t, 0>> /\ putting[t] # <<>> /\ putting[t][2] = item
        \/ \E s \in Scheds : \E i \in DOMAIN Contents[s] :
             p = <<"queue", s, i>> /\ Contents[s][i] = item
    BY <1>4 DEF Travelling, Positions
  <2>2. CASE \E t \in Threads : p = <<"thread", t, 0>> /\ putting[t] # <<>> /\ putting[t][2] = item
    BY <2>2, WayIs DEF Way
  <2>3. CASE \E s \in Scheds : \E i \in DOMAIN Contents[s] :
               p = <<"queue", s, i>> /\ Contents[s][i] = item
    <3>1. PICK s \in Scheds : \E i \in DOMAIN Contents[s] :
                                p = <<"queue", s, i>> /\ Contents[s][i] = item
      BY <2>3
    <3>2. PICK i \in 1..Len(Contents[s]) : p = <<"queue", s, i>> /\ Contents[s][i] = item
      BY <3>1, <1>2
    <3>3. item \in Range(Contents[s])
      BY <3>2, <1>3
    <3>4. <<"queue", s>> \in Way(item)
      BY <3>3, WayIs DEF Way
    <3> QED
      BY <3>2, <3>4
  <2> QED
    BY <2>1, <2>2, <2>3
<1>5. ASSUME NEW c \in Way(item) PROVE Travelling(item) # {}
  <2>1. CASE c \in InHands(item)
    <3>1. PICK t \in Threads : putting[t] # <<>> /\ putting[t][2] = item
      BY <2>1, WayIs
    <3>2. <<"thread", t, 0>> \in Travelling(item)
      BY <3>1 DEF Travelling
    <3> QED
      BY <3>2
  <2>2. CASE c \in InQueues(item)
    <3>1. PICK s \in Scheds : item \in Range(Contents[s])
      BY <2>2, WayIs
    <3>2. PICK i \in DOMAIN Contents[s] : Contents[s][i] = item
      BY <3>1, <1>2, <1>3
    <3>3. <<"queue", s, i>> \in Travelling(item)
      BY <3>2 DEF Travelling, Positions
    <3> QED
      BY <3>3
  <2> QED
    BY <1>5, <2>1, <2>2 DEF Way
<1> QED
  BY <1>4, <1>5

LEMMA SInvMigrations == SInv => MigrationIsOnItsWay
<1> SUFFICES ASSUME SInv, NEW a \in Actors
             PROVE  /\ AtMostOne(Travelling(ActorItem(a)))
                    /\ migrating[a] <=> Travelling(ActorItem(a)) # {}
                    /\ \A t \in Threads : putting[t] # <<>> /\ putting[t][2] = ActorItem(a) =>
                                            putting[t][1] = sched[a]
                    /\ \A s \in Scheds : pending_events[s][a] # <<>> => migrating[a] /\ sched[a] = s
  BY DEF MigrationIsOnItsWay
<1>1. QueueTypeOK /\ OnTheMove /\ NoRepeats
  BY DEF SInv, IInv, Core, EventsKept
<1>2. PICK item : item = ActorItem(a)
  OBVIOUS
<1>3. /\ migrating[a] <=> Way(item) # {}
      /\ AtMostOne(Way(item))
      /\ \A t \in Threads : putting[t] # <<>> /\ putting[t][2] = item => putting[t][1] = sched[a]
      /\ \A s \in Scheds : pending_events[s][a] # <<>> => migrating[a] /\ sched[a] = s
  BY <1>1, <1>2 DEF OnTheMove
<1>4. /\ \A p \in Travelling(item) :
           \/ \E t \in Threads : p = <<"thread", t, 0>> /\ <<"thread", t>> \in Way(item)
           \/ \E s \in Scheds : \E i \in 1..Len(Contents[s]) :
                /\ p = <<"queue", s, i>> /\ <<"queue", s>> \in Way(item)
                /\ Contents[s][i] = item
      /\ Way(item) # {} => Travelling(item) # {}
  BY <1>1, TravellingIsWay
<1>5. Travelling(item) # {} => Way(item) # {}
  BY <1>4
<1>6. ASSUME NEW p \in Travelling(item), NEW q \in Travelling(item) PROVE p = q
  <2>1. CASE \E t \in Threads : p = <<"thread", t, 0>> /\ <<"thread", t>> \in Way(item)
    <3>1. PICK t \in Threads : p = <<"thread", t, 0>> /\ <<"thread", t>> \in Way(item)
      BY <2>1
    <3>2. \A c \in Way(item) : c = <<"thread", t>>
      BY <3>1, <1>3 DEF AtMostOne
    <3> QED
      BY <3>1, <3>2, <1>4
  <2>2. CASE \E s \in Scheds : \E i \in 1..Len(Contents[s]) :
               /\ p = <<"queue", s, i>> /\ <<"queue", s>> \in Way(item)
               /\ Contents[s][i] = item
    <3>1. PICK s \in Scheds : \E i \in 1..Len(Contents[s]) :
               /\ p = <<"queue", s, i>> /\ <<"queue", s>> \in Way(item)
               /\ Contents[s][i] = item
      BY <2>2
    <3>2. PICK i \in 1..Len(Contents[s]) :
               /\ p = <<"queue", s, i>> /\ <<"queue", s>> \in Way(item)
               /\ Contents[s][i] = item
      BY <3>1
    <3>3. \A c \in Way(item) : c = <<"queue", s>>
      BY <3>2, <1>3 DEF AtMostOne
    <3>4. PICK j \in 1..Len(Contents[s]) : q = <<"queue", s, j>> /\ Contents[s][j] = item
      BY <3>3, <1>4
    <3>5. i = j
      BY <3>2, <3>4, <1>1 DEF NoRepeats, OnceOnly
    <3> QED
      BY <3>2, <3>4, <3>5
  <2> QED
    BY <2>1, <2>2, <1>4
<1>7. AtMostOne(Travelling(item))
  BY <1>6 DEF AtMostOne
<1> QED
  BY <1>2, <1>3, <1>4, <1>5, <1>7

(* The two ways to name the places of an event with its actor.             *)
LEMMA ArrivedIsRest ==
  ASSUME TypeOK, NEW n \in Events, NEW a \in Actors
  PROVE  \A p \in Arrived(a, n) :
           \/ \E i \in 1..Len(handled[a]) :
                /\ p = <<"handled", a, i>> /\ <<"handled", a>> \in Rest(n) /\ handled[a][i] = n
           \/ \E i \in 1..Len(mailbox[a]) :
                /\ p = <<"mailbox", a, i>> /\ <<"mailbox", a>> \in Rest(n) /\ mailbox[a][i] = n
           \/ \E s \in Scheds : \E i \in 1..Len(pending_events[s][a]) :
                /\ p = <<"pending", s, i>> /\ <<"pending", <<s, a>>>> \in Rest(n)
                /\ pending_events[s][a][i] = n
           \/ \E s \in Scheds : \E i \in DOMAIN stack[s] :
                /\ p = <<"guard", s, i>> /\ <<"guard", <<s, i>>>> \in Rest(n)
<1>1. /\ handled[a] \in Seq(Events) /\ mailbox[a] \in Seq(Events)
      /\ \A s \in Scheds : pending_events[s][a] \in Seq(Events)
      /\ stack \in [Scheds -> Seq(Guards)]
  BY DEF TypeOK
<1>2. /\ DOMAIN handled[a] = 1..Len(handled[a]) /\ DOMAIN mailbox[a] = 1..Len(mailbox[a])
      /\ \A s \in Scheds : DOMAIN pending_events[s][a] = 1..Len(pending_events[s][a])
  BY <1>1, LenProperties, Zenon
<1>3. /\ \A i \in 1..Len(handled[a]) : handled[a][i] \in Range(handled[a])
      /\ \A i \in 1..Len(mailbox[a]) : mailbox[a][i] \in Range(mailbox[a])
      /\ \A s \in Scheds : \A i \in 1..Len(pending_events[s][a]) :
           pending_events[s][a][i] \in Range(pending_events[s][a])
  BY <1>1, InRange
<1>4. n \in Range(handled[a]) => <<"handled", a>> \in Rest(n)
  BY DEF Rest, InHandled, Tagged, Ranges
<1>5. n \in Range(mailbox[a]) => <<"mailbox", a>> \in Rest(n)
  BY DEF Rest, InMailbox, Tagged, Ranges
<1>6. \A s \in Scheds : n \in Range(pending_events[s][a]) => <<"pending", <<s, a>>>> \in Rest(n)
  <2> SUFFICES ASSUME NEW s \in Scheds, n \in Range(pending_events[s][a])
               PROVE  <<"pending", <<s, a>>>> \in Rest(n)
    OBVIOUS
  <2>1. <<s, a>> \in Scheds \X Actors /\ n \in Kept[<<s, a>>]
    BY DEF Kept
  <2> QED
    BY <2>1 DEF Rest, InPending, Tagged
<1>7. \A s \in Scheds : \A i \in DOMAIN stack[s] :
        stack[s][i].extra = n => <<"guard", <<s, i>>>> \in Rest(n)
  BY <1>1, GuardsAre DEF Rest
<1>8. ASSUME NEW p \in Arrived(a, n)
      PROVE  \/ \E i \in DOMAIN handled[a] : p = <<"handled", a, i>> /\ handled[a][i] = n
             \/ \E i \in DOMAIN mailbox[a] : p = <<"mailbox", a, i>> /\ mailbox[a][i] = n
             \/ \E s \in Scheds : \E i \in DOMAIN pending_events[s][a] :
                  p = <<"pending", s, i>> /\ pending_events[s][a][i] = n
             \/ \E s \in Scheds : \E i \in DOMAIN stack[s] :
                  p = <<"guard", s, i>> /\ stack[s][i].extra = n
  <2> DEFINE P(s) == { <<"pending", s, i>> : i \in Positions(pending_events[s][a], n) }
             G(s) == { <<"guard", s, i>> :
                       i \in { j \in DOMAIN stack[s] : stack[s][j].actor = a /\ stack[s][j].extra = n } }
  <2>1. \/ p \in { <<"handled", a, i>> : i \in Positions(handled[a], n) }
        \/ p \in { <<"mailbox", a, i>> : i \in Positions(mailbox[a], n) }
        \/ p \in UNION { P(s) : s \in Scheds }
        \/ p \in UNION { G(s) : s \in Scheds }
    BY <1>8, Zenon DEF Arrived
  <2> HIDE DEF P, G
  <2>2. CASE p \in UNION { P(s) : s \in Scheds }
    <3>1. PICK s \in Scheds : p \in P(s)
      BY <2>2
    <3>2. \E i \in DOMAIN pending_events[s][a] :
            p = <<"pending", s, i>> /\ pending_events[s][a][i] = n
      BY <3>1 DEF P, Positions
    <3> QED
      BY <3>2
  <2>3. CASE p \in UNION { G(s) : s \in Scheds }
    <3>1. PICK s \in Scheds : p \in G(s)
      BY <2>3
    <3>2. \E i \in DOMAIN stack[s] : p = <<"guard", s, i>> /\ stack[s][i].extra = n
      BY <3>1 DEF G
    <3> QED
      BY <3>2
  <2> QED
    BY <2>1, <2>2, <2>3 DEF Positions
<1> SUFFICES ASSUME NEW p \in Arrived(a, n)
             PROVE  \/ \E i \in 1..Len(handled[a]) :
                         /\ p = <<"handled", a, i>> /\ <<"handled", a>> \in Rest(n)
                         /\ handled[a][i] = n
                    \/ \E i \in 1..Len(mailbox[a]) :
                         /\ p = <<"mailbox", a, i>> /\ <<"mailbox", a>> \in Rest(n)
                         /\ mailbox[a][i] = n
                    \/ \E s \in Scheds : \E i \in 1..Len(pending_events[s][a]) :
                         /\ p = <<"pending", s, i>> /\ <<"pending", <<s, a>>>> \in Rest(n)
                         /\ pending_events[s][a][i] = n
                    \/ \E s \in Scheds : \E i \in DOMAIN stack[s] :
                         /\ p = <<"guard", s, i>> /\ <<"guard", <<s, i>>>> \in Rest(n)
  OBVIOUS
<1>9. CASE \E i \in DOMAIN handled[a] : p = <<"handled", a, i>> /\ handled[a][i] = n
  BY <1>2, <1>3, <1>4, <1>9
<1>10. CASE \E i \in DOMAIN mailbox[a] : p = <<"mailbox", a, i>> /\ mailbox[a][i] = n
  BY <1>2, <1>3, <1>5, <1>10
<1>11. CASE \E s \in Scheds : \E i \in DOMAIN pending_events[s][a] :
              p = <<"pending", s, i>> /\ pending_events[s][a][i] = n
  BY <1>2, <1>3, <1>6, <1>11
<1>12. CASE \E s \in Scheds : \E i \in DOMAIN stack[s] :
              p = <<"guard", s, i>> /\ stack[s][i].extra = n
  BY <1>7, <1>12
<1> QED
  BY <1>8, <1>9, <1>10, <1>11, <1>12

(* An event that is with an actor is with the one it was sent to. *)
LEMMA RestHasArrived ==
  ASSUME TypeOK, Addressed, NEW n \in Events, NEW a \in Actors, a = sent[n].to, Rest(n) # {}
  PROVE  Arrived(a, n) # {}
<1>1. /\ \A b \in Actors : handled[b] \in Seq(Events) /\ mailbox[b] \in Seq(Events)
      /\ \A s \in Scheds, b \in Actors : pending_events[s][b] \in Seq(Events)
      /\ stack \in [Scheds -> Seq(Guards)]
  BY DEF TypeOK
<1>2. PICK c : c \in Rest(n)
  OBVIOUS
<1>3. CASE c \in InHandled(n)
  <2>1. PICK b \in Actors : n \in Range(handled[b])
    BY <1>3 DEF InHandled, Tagged, Ranges
  <2>2. b = a
    BY <2>1 DEF Addressed
  <2>3. PICK i \in DOMAIN handled[a] : handled[a][i] = n
    BY <2>1, <2>2 DEF Range
  <2>4. <<"handled", a, i>> \in Arrived(a, n)
    BY <2>3 DEF Arrived, Positions
  <2> QED
    BY <2>4
<1>4. CASE c \in InMailbox(n)
  <2>1. PICK b \in Actors : n \in Range(mailbox[b])
    BY <1>4 DEF InMailbox, Tagged, Ranges
  <2>2. b = a
    BY <2>1 DEF Addressed
  <2>3. PICK i \in DOMAIN mailbox[a] : mailbox[a][i] = n
    BY <2>1, <2>2 DEF Range
  <2>4. <<"mailbox", a, i>> \in Arrived(a, n)
    BY <2>3 DEF Arrived, Positions
  <2> QED
    BY <2>4
<1>5. CASE c \in InPending(n)
  <2>1. PICK y \in Scheds \X Actors : n \in Kept[y]
    BY <1>5 DEF InPending, Tagged
  <2>2. PICK s \in Scheds, b \in Actors : y = <<s, b>>
    BY <2>1
  <2>3. n \in Range(pending_events[s][b])
    BY <2>1, <2>2 DEF Kept
  <2>4. b = a
    BY <2>3 DEF Addressed
  <2>5. PICK i \in DOMAIN pending_events[s][a] : pending_events[s][a][i] = n
    BY <2>3, <2>4 DEF Range
  <2>6. <<"pending", s, i>> \in Arrived(a, n)
    <3>1. <<"pending", s, i>> \in { <<"pending", s, j>> : j \in Positions(pending_events[s][a], n) }
      BY <2>5 DEF Positions
    <3>2. <<"pending", s, i>> \in
            UNION { { <<"pending", r, j>> : j \in Positions(pending_events[r][a], n) } : r \in Scheds }
      BY <3>1
    <3> QED
      BY <3>2 DEF Arrived
  <2> QED
    BY <2>6
<1>6. CASE c \in InGuards(n)
  <2>1. PICK s \in Scheds : \E i \in DOMAIN stack[s] : stack[s][i].extra = n
    BY <1>1, <1>6, GuardsAre
  <2>2. PICK i \in DOMAIN stack[s] : stack[s][i].extra = n
    BY <2>1
  <2>3. stack[s][i].actor = a
    <3>1. n # 0
      BY DEF Events
    <3> QED
      BY <3>1, <2>2 DEF Addressed
  <2>4. <<"guard", s, i>> \in Arrived(a, n)
    <3> DEFINE G(r) == { <<"guard", r, j>> :
                         j \in { k \in DOMAIN stack[r] : stack[r][k].actor = a /\ stack[r][k].extra = n } }
    <3>1. <<"guard", s, i>> \in G(s)
      BY <2>2, <2>3
    <3> HIDE DEF G
    <3>2. <<"guard", s, i>> \in UNION { G(r) : r \in Scheds }
      BY <3>1
    <3> QED
      BY <3>2, Zenon DEF Arrived, G
  <2> QED
    BY <2>4
<1> QED
  BY <1>2, <1>3, <1>4, <1>5, <1>6 DEF Rest

LEMMA SInvNothingLost == SInv => NothingLostOrDoubled
<1> SUFFICES ASSUME SInv, NEW n \in DOMAIN sent
             PROVE  LET places == Travelling(EventItem(n)) \cup Arrived(sent[n].to, n)
                    IN /\ AtMostOne(places)
                       /\ sent[n].to \in alive => places # {}
  BY DEF NothingLostOrDoubled
<1>1. TypeOK /\ QueueTypeOK /\ NoRepeats /\ Addressed /\ OnePlace
  BY DEF SInv, IInv, Core, EventsKept
<1>2. /\ sent \in Seq([from : Actors \cup Clients, to : Actors])
      /\ Len(sent) \in Nat /\ Len(sent) <= MaxEvents /\ MaxEvents \in Nat
  BY <1>1, SchedulerAssumption, LenProperties DEF TypeOK
<1>3. n \in 1..Len(sent)
  <2>1. DOMAIN sent = 1..Len(sent)
    BY <1>2, LenProperties, Zenon
  <2> QED
    BY <2>1
<1>4. n \in Events /\ n <= Len(sent)
  BY <1>2, <1>3 DEF Events
<1>5. PICK a \in Actors : a = sent[n].to
  <2>1. sent[n] \in [from : Actors \cup Clients, to : Actors]
    BY <1>2, <1>3, ElementOfSeq
  <2> QED
    BY <2>1
<1>6. PICK item : item = EventItem(n)
  OBVIOUS
<1>7. AtMostOne(Place(n)) /\ (a \in alive => Place(n) # {})
  BY <1>1, <1>4, <1>5 DEF OnePlace
<1>8. /\ \A p \in Travelling(item) :
           \/ \E t \in Threads : p = <<"thread", t, 0>> /\ <<"thread", t>> \in Way(item)
           \/ \E s \in Scheds : \E i \in 1..Len(Contents[s]) :
                /\ p = <<"queue", s, i>> /\ <<"queue", s>> \in Way(item)
                /\ Contents[s][i] = item
      /\ Way(item) # {} => Travelling(item) # {}
  BY <1>1, TravellingIsWay
<1>9. \A p \in Arrived(a, n) :
        \/ \E i \in 1..Len(handled[a]) :
             /\ p = <<"handled", a, i>> /\ <<"handled", a>> \in Rest(n) /\ handled[a][i] = n
        \/ \E i \in 1..Len(mailbox[a]) :
             /\ p = <<"mailbox", a, i>> /\ <<"mailbox", a>> \in Rest(n) /\ mailbox[a][i] = n
        \/ \E s \in Scheds : \E i \in 1..Len(pending_events[s][a]) :
             /\ p = <<"pending", s, i>> /\ <<"pending", <<s, a>>>> \in Rest(n)
             /\ pending_events[s][a][i] = n
        \/ \E s \in Scheds : \E i \in DOMAIN stack[s] :
             /\ p = <<"guard", s, i>> /\ <<"guard", <<s, i>>>> \in Rest(n)
  BY <1>1, <1>4, ArrivedIsRest
<1> DEFINE Of(p, c) ==
      \/ \E t \in Threads : p = <<"thread", t, 0>> /\ c = <<"thread", t>>
      \/ \E s \in Scheds : \E i \in 1..Len(Contents[s]) :
           p = <<"queue", s, i>> /\ c = <<"queue", s>> /\ Contents[s][i] = item
      \/ \E i \in 1..Len(handled[a]) :
           p = <<"handled", a, i>> /\ c = <<"handled", a>> /\ handled[a][i] = n
      \/ \E i \in 1..Len(mailbox[a]) :
           p = <<"mailbox", a, i>> /\ c = <<"mailbox", a>> /\ mailbox[a][i] = n
      \/ \E s \in Scheds : \E i \in 1..Len(pending_events[s][a]) :
           p = <<"pending", s, i>> /\ c = <<"pending", <<s, a>>>> /\ pending_events[s][a][i] = n
      \/ \E s \in Scheds : \E i \in DOMAIN stack[s] :
           p = <<"guard", s, i>> /\ c = <<"guard", <<s, i>>>>
<1>10. ASSUME NEW p \in Travelling(item) \cup Arrived(a, n)
       PROVE  \E c \in Place(n) : Of(p, c)
  <2>1. Place(n) = Way(item) \cup Rest(n)
    BY <1>6 DEF Place
  <2>2. CASE p \in Travelling(item)
    BY <2>1, <2>2, <1>8, ZenonT(60)
  <2>3. CASE p \in Arrived(a, n)
    BY <2>1, <2>3, <1>9
  <2> QED
    BY <1>10, <2>2, <2>3
<1>11. ASSUME NEW p, NEW q, NEW c, Of(p, c), Of(q, c) PROVE p = q
  <2>1. ASSUME NEW t \in Threads, p = <<"thread", t, 0>>, c = <<"thread", t>> PROVE p = q
    BY <1>11, <2>1
  <2>2. ASSUME NEW s \in Scheds, NEW i \in 1..Len(Contents[s]),
               p = <<"queue", s, i>>, c = <<"queue", s>>, Contents[s][i] = item
        PROVE  p = q
    <3>1. PICK j \in 1..Len(Contents[s]) : q = <<"queue", s, j>> /\ Contents[s][j] = item
      BY <1>11, <2>2
    <3> QED
      BY <2>2, <3>1, <1>1 DEF NoRepeats, OnceOnly
  <2>3. ASSUME NEW i \in 1..Len(handled[a]),
               p = <<"handled", a, i>>, c = <<"handled", a>>, handled[a][i] = n
        PROVE  p = q
    <3>1. PICK j \in 1..Len(handled[a]) : q = <<"handled", a, j>> /\ handled[a][j] = n
      BY <1>11, <2>3
    <3> QED
      BY <2>3, <3>1, <1>1 DEF NoRepeats, OnceOnly
  <2>4. ASSUME NEW i \in 1..Len(mailbox[a]),
               p = <<"mailbox", a, i>>, c = <<"mailbox", a>>, mailbox[a][i] = n
        PROVE  p = q
    <3>1. PICK j \in 1..Len(mailbox[a]) : q = <<"mailbox", a, j>> /\ mailbox[a][j] = n
      BY <1>11, <2>4
    <3> QED
      BY <2>4, <3>1, <1>1 DEF NoRepeats, OnceOnly
  <2>5. ASSUME NEW s \in Scheds, NEW i \in 1..Len(pending_events[s][a]),
               p = <<"pending", s, i>>, c = <<"pending", <<s, a>>>>, pending_events[s][a][i] = n
        PROVE  p = q
    <3>1. PICK j \in 1..Len(pending_events[s][a]) :
            q = <<"pending", s, j>> /\ pending_events[s][a][j] = n
      BY <1>11, <2>5
    <3> QED
      BY <2>5, <3>1, <1>1 DEF NoRepeats, OnceOnly
  <2>6. ASSUME NEW s \in Scheds, NEW i \in DOMAIN stack[s],
               p = <<"guard", s, i>>, c = <<"guard", <<s, i>>>>
        PROVE  p = q
    BY <1>11, <2>6
  <2> QED
    BY <1>11, <2>1, <2>2, <2>3, <2>4, <2>5, <2>6
<1> HIDE DEF Of
<1>12. AtMostOne(Travelling(item) \cup Arrived(a, n))
  BY <1>7, <1>10, <1>11 DEF AtMostOne
<1>13. a \in alive => Travelling(item) \cup Arrived(a, n) # {}
  <2>1. Rest(n) # {} => Arrived(a, n) # {}
    BY <1>1, <1>4, <1>5, RestHasArrived
  <2> QED
    BY <2>1, <1>6, <1>7, <1>8 DEF Place
<1> QED
  BY <1>5, <1>6, <1>12, <1>13
-----------------------------------------------------------------------------
(* Every step keeps the inductive invariant, so that it always holds.      *)
LEMMA AlwaysSInv == Spec => []SInv
  BY InitSInv, NextSInv, PTL DEF Spec

(* Types: also that an EventGuard has no more events to run than there are *)
(* in the mailbox, and that no actor migrates to where it is.              *)
THEOREM TypesAreKept == Spec => []TypeOK
<1>1. SInv => TypeOK
  BY DEF SInv
<1> QED
  BY <1>1, AlwaysSInv, PTL

(* The schedulers use their inbound queues only as the queue allows: every *)
(* step of the threads is a step of the queues, or none.                   *)
THEOREM UsesTheQueues == Spec => QueueSpec
<1>1. Init => QueueInit
  BY DEF Init
<1>2. TypeOK /\ [Next]_vars => [QueueNext]_queueVars
  BY StepOfQueues
<1> QED
  BY <1>1, <1>2, TypesAreKept, PTL DEF Spec, QueueSpec

(* No thread sleeps over a full inbound queue while the schedulers work.   *)
THEOREM SchedulersWakeUp == Spec => []NoLostWakeUp
  BY UsesTheQueues, NoWakeUpIsLost, PTL

(* What is put into an inbound queue comes out once and in order, also     *)
(* when schedulers and other threads put into it together.                 *)
THEOREM InboundIsFifo == Spec => QueuesAreFifo
  BY UsesTheQueues, ImplementsFifo, PTL

(* An actor runs only on the thread that owns it, never while it migrates  *)
(* and never within itself; one with a full mailbox is not forgotten       *)
(* (send_impl, run_mailbox, ~EventGuard).                                  *)
THEOREM ActorsRunAtHome == Spec => []RunsAtHome
  BY AlwaysSInv, SInvRunsAtHome, PTL

(* A migrating actor is on its way exactly once, to where its sched_id_    *)
(* says, and events are kept for it only there (start_migrate_actor,       *)
(* register_migrated_actor).                                               *)
THEOREM MigrationsArrive == Spec => []MigrationIsOnItsWay
  BY AlwaysSInv, SInvMigrations, PTL

(* No event is lost, doubled or handled twice, however often its actor     *)
(* migrates while it is sent (send_to_scheduler, ServiceActor::loop).      *)
THEOREM NoEventIsLost == Spec => []NothingLostOrDoubled
  BY AlwaysSInv, SInvNothingLost, PTL
-----------------------------------------------------------------------------
(***************************************************************************)
(* The order of events with one sender and one receiver that stays.  What  *)
(* matters of an actor is a line: what it has handled, the mailbox with    *)
(* the event that was sent to run at once in its place, the inbound queue  *)
(* of its scheduler, and the hands of the threads.                         *)
(***************************************************************************)

(* The events x and y are in the order in which one sender sent them. *)
Follows(S, x, y) == S[x].from = S[y].from => x < y

Increasing(S, q) == \A i, j \in 1..Len(q) : i < j => Follows(S, q[i], q[j])

(* What an actor has handled (H), its mailbox (M), the events that an      *)
(* EventGuard runs after that much of the mailbox (G) and what is on its   *)
(* way (W) are in order.                                                   *)
InLine(S, H, M, G, W) ==
  /\ Increasing(S, H) /\ Increasing(S, M)
  /\ \A i \in 1..Len(H), j \in 1..Len(M) : Follows(S, H[i], M[j])
  /\ \A i \in 1..Len(H), n \in W : Follows(S, H[i], n)
  /\ \A i \in 1..Len(M), n \in W : Follows(S, M[i], n)
  /\ \A g \in G :
       /\ \A i \in 1..Len(H) : Follows(S, H[i], g[2])
       /\ \A i \in 1..Len(M) : i <= g[1] => Follows(S, M[i], g[2])
       /\ \A i \in 1..Len(M) : i > g[1] => Follows(S, g[2], M[i])
       /\ \A n \in W : Follows(S, g[2], n)

(* the thread t is about to put the event n into a queue; n is in a queue *)
Holds(t, n) == putting[t] # <<>> /\ putting[t][2] = EventItem(n)
Queued(s, n) == EventItem(n) \in Range(Contents[s])

AwayTo(a) ==
  { n \in Events : /\ n <= Len(sent) /\ sent[n].to = a
                   /\ (\E t \in Threads : Holds(t, n)) \/ (\E s \in Scheds : Queued(s, n)) }

GuardsOf(a) ==
  { g \in Nat \X Events :
      \E s \in Scheds : \E k \in DOMAIN stack[s] :
        stack[s][k].actor = a /\ stack[s][k].left = g[1] /\ stack[s][k].extra = g[2] }

OwnLine(a) == InLine(sent, handled[a], mailbox[a], GuardsOf(a), AwayTo(a))

(* The lines of the actors that have not migrated. *)
LinesInOrder ==
  \A a \in Actors \ moved : sched[a] = Home[a] /\ ~migrating[a] /\ OwnLine(a)

(* n is an event to an actor that has not migrated *)
ToStay(n) == n <= Len(sent) /\ sent[n].to \notin moved

(* Who holds an event is its sender's thread, in the middle of a send.     *)
Sends(t, from) ==
  \/ t \in Clients /\ from = t
  \/ t \in Scheds /\ stack[t] # <<>> /\ from = Top(t).actor

HandsInOrder ==
  \A t \in Threads, n \in Events : Holds(t, n) /\ ToStay(n) =>
    /\ putting[t][1] = Home[sent[n].to] /\ putting[t][1] # t
    /\ Sends(t, sent[n].from)

(* In a queue q the events of one sender to one actor (not one of MV) are  *)
(* in order, and a sender that follows its events is behind them.          *)
Ranked(q, S, MV) ==
  \A i, j \in 1..Len(q), n \in Events :
    q[i] = EventItem(n) /\ n <= Len(S) /\ S[n].to \notin MV =>
      /\ \A m \in Events : i < j /\ q[j] = EventItem(m) /\ S[m].to = S[n].to => Follows(S, n, m)
      /\ q[j] = ActorItem(S[n].from) => i < j

QueuesRanked == \A s \in Scheds : Ranked(Contents[s], sent, moved)

(* An event is in the queue of its receiver's thread, in front of what     *)
(* others of its sender are in hands, and its sender is not there yet.     *)
QueuesBehind ==
  \A s \in Scheds, n \in Events : Queued(s, n) /\ ToStay(n) =>
    /\ s = Home[sent[n].to]
    /\ \A t \in Threads, m \in Events :
         Holds(t, m) /\ sent[m].to = sent[n].to => Follows(sent, n, m)
    /\ sent[n].from \in Actors /\ sched[sent[n].from] = s => migrating[sent[n].from]

OrderInv == LinesInOrder /\ HandsInOrder /\ QueuesRanked /\ QueuesBehind
-----------------------------------------------------------------------------
(* Lines that get shorter, that are seen by later senders, and that get    *)
(* longer.                                                                 *)
LEMMA LineLess ==
  ASSUME NEW S, NEW H, NEW M, NEW G, NEW W, NEW G2, NEW W2,
         InLine(S, H, M, G, W), G2 \subseteq G, W2 \subseteq W
  PROVE  InLine(S, H, M, G2, W2)
  BY DEF InLine

LEMMA LineSent ==
  ASSUME NEW N, NEW S, NEW S2, NEW H \in Seq(N), NEW M \in Seq(N), NEW G, NEW W,
         G \subseteq Nat \X N, W \subseteq N,
         \A n \in N : S2[n] = S[n], InLine(S, H, M, G, W)
  PROVE  InLine(S2, H, M, G, W)
<1>1. /\ \A i \in 1..Len(H) : H[i] \in N
      /\ \A i \in 1..Len(M) : M[i] \in N
  BY ElementOfSeq
<1>2. \A g \in G : g[2] \in N
  OBVIOUS
<1>3. \A x, y \in N : Follows(S, x, y) => Follows(S2, x, y)
  BY DEF Follows
<1> QED
  BY <1>1, <1>2, <1>3 DEF InLine, Increasing

(* The event n may come next. *)
Due(S, H, M, G, n) ==
  /\ \A i \in 1..Len(H) : Follows(S, H[i], n)
  /\ \A i \in 1..Len(M) : Follows(S, M[i], n)
  /\ \A g \in G : Follows(S, g[2], n)

LEMMA LineAway ==
  ASSUME NEW S, NEW H, NEW M, NEW G, NEW W, NEW n,
         InLine(S, H, M, G, W), Due(S, H, M, G, n)
  PROVE  InLine(S, H, M, G, W \cup {n})
  BY DEF InLine, Due

LEMMA LineMail ==
  ASSUME NEW N, NEW S, NEW H, NEW M \in Seq(N), NEW G, NEW W, NEW n \in N,
         InLine(S, H, M, G, W), Due(S, H, M, G, n),
         \A g \in G : g[1] \in Nat /\ g[1] <= Len(M), \A w \in W : Follows(S, n, w)
  PROVE  InLine(S, H, Append(M, n), G, W)
<1>1. /\ Len(Append(M, n)) = Len(M) + 1 /\ Append(M, n)[Len(M) + 1] = n
      /\ \A i \in 1..Len(M) : Append(M, n)[i] = M[i]
  BY AppendProperties
<1> DEFINE R == Append(M, n)
<1> HIDE DEF R
<1>2. Len(M) \in Nat
  BY LenProperties
<1>3. /\ Len(R) = Len(M) + 1 /\ R[Len(M) + 1] = n
      /\ \A i \in 1..Len(M) : R[i] = M[i]
      /\ \A i \in 1..Len(R) : i \in 1..Len(M) \/ i = Len(M) + 1
  BY <1>1, <1>2 DEF R
<1>4. Increasing(S, R)
  <2> SUFFICES ASSUME NEW i \in 1..Len(R), NEW j \in 1..Len(R), i < j
               PROVE  Follows(S, R[i], R[j])
    BY DEF Increasing
  <2>1. i \in 1..Len(M)
    BY <1>2, <1>3
  <2> QED
    BY <2>1, <1>3 DEF InLine, Increasing, Due
<1>5. \A i \in 1..Len(H), j \in 1..Len(R) : Follows(S, H[i], R[j])
  BY <1>3 DEF InLine, Due
<1>6. \A i \in 1..Len(R), w \in W : Follows(S, R[i], w)
  BY <1>3 DEF InLine
<1>7. ASSUME NEW g \in G
      PROVE  /\ \A i \in 1..Len(R) : i <= g[1] => Follows(S, R[i], g[2])
             /\ \A i \in 1..Len(R) : i > g[1] => Follows(S, g[2], R[i])
  <2>1. ~(Len(M) + 1 <= g[1])
    BY <1>2
  <2> QED
    BY <2>1, <1>3 DEF InLine, Due
<1> QED
  BY <1>4, <1>5, <1>6, <1>7 DEF InLine, R

LEMMA LineRun ==
  ASSUME NEW N, NEW S, NEW H, NEW M \in Seq(N), NEW W, NEW n,
         InLine(S, H, M, {}, W), Due(S, H, M, {}, n), \A w \in W : Follows(S, n, w)
  PROVE  InLine(S, H, M, {<<Len(M), n>>}, W)
<1>1. Len(M) \in Nat
  BY LenProperties
<1>2. \A i \in 1..Len(M) : ~(i > Len(M))
  BY <1>1
<1> QED
  BY <1>2 DEF InLine, Due

(* The first of the mailbox is handled: the guard, if any, has one less in *)
(* front of its event.                                                     *)
LEMMA LineDone ==
  ASSUME NEW N, NEW S, NEW H \in Seq(N), NEW M \in Seq(N), M # <<>>, NEW G, NEW G2, NEW W,
         InLine(S, H, M, G, W), G \subseteq Nat \X N,
         \A g \in G2 : \E h \in G : h[1] > 0 /\ g[1] = h[1] - 1 /\ g[2] = h[2]
  PROVE  InLine(S, Append(H, Head(M)), Tail(M), G2, W)
<1>1. PICK n : n = Head(M)
  OBVIOUS
<1>2. PICK T : T = Tail(M)
  OBVIOUS
<1>3. /\ T \in Seq(N) /\ Len(T) = Len(M) - 1 /\ Len(M) \in Nat \ {0}
      /\ n = M[1] /\ n \in N /\ \A i \in 1..Len(T) : T[i] = M[i + 1]
  BY <1>1, <1>2, HeadTailProperties
<1>4. PICK R : R = Append(H, n)
  OBVIOUS
<1>5. /\ Len(R) = Len(H) + 1 /\ R[Len(H) + 1] = n /\ Len(H) \in Nat
      /\ \A i \in 1..Len(H) : R[i] = H[i]
  BY <1>3, <1>4, AppendProperties, LenProperties
<1>6. /\ \A i \in 1..Len(R) : i \in 1..Len(H) \/ i = Len(H) + 1
      /\ \A i \in 1..Len(T) : i + 1 \in 1..Len(M) /\ 1 < i + 1
      /\ 1 \in 1..Len(M)
  BY <1>3, <1>5
<1>7. \A i \in 1..Len(T) : Follows(S, n, T[i])
  BY <1>3, <1>6 DEF InLine, Increasing
<1>8. Increasing(S, R)
  <2> SUFFICES ASSUME NEW i \in 1..Len(R), NEW j \in 1..Len(R), i < j
               PROVE  Follows(S, R[i], R[j])
    BY DEF Increasing
  <2>1. i \in 1..Len(H)
    BY <1>5, <1>6
  <2> QED
    BY <2>1, <1>3, <1>5, <1>6 DEF InLine, Increasing
<1>9. Increasing(S, T)
  <2> SUFFICES ASSUME NEW i \in 1..Len(T), NEW j \in 1..Len(T), i < j
               PROVE  Follows(S, T[i], T[j])
    BY DEF Increasing
  <2>1. i + 1 < j + 1
    OBVIOUS
  <2> QED
    BY <2>1, <1>3, <1>6 DEF InLine, Increasing
<1>10. \A i \in 1..Len(R), j \in 1..Len(T) : Follows(S, R[i], T[j])
  BY <1>3, <1>5, <1>6, <1>7 DEF InLine
<1>11. /\ \A i \in 1..Len(R), w \in W : Follows(S, R[i], w)
       /\ \A i \in 1..Len(T), w \in W : Follows(S, T[i], w)
  BY <1>3, <1>5, <1>6 DEF InLine
<1>12. ASSUME NEW g \in G2
       PROVE  /\ \A i \in 1..Len(R) : Follows(S, R[i], g[2])
              /\ \A i \in 1..Len(T) : i <= g[1] => Follows(S, T[i], g[2])
              /\ \A i \in 1..Len(T) : i > g[1] => Follows(S, g[2], T[i])
              /\ \A w \in W : Follows(S, g[2], w)
  <2>1. PICK h \in G : h[1] > 0 /\ g[1] = h[1] - 1 /\ g[2] = h[2]
    OBVIOUS
  <2>2. h[1] \in Nat /\ 1 <= h[1]
    BY <2>1
  <2>3. \A i \in 1..Len(T) : (i <= g[1] => i + 1 <= h[1]) /\ (i > g[1] => i + 1 > h[1])
    BY <2>1, <2>2
  <2>4. /\ \A i \in 1..Len(H) : Follows(S, H[i], h[2])
        /\ \A i \in 1..Len(M) : i <= h[1] => Follows(S, M[i], h[2])
        /\ \A i \in 1..Len(M) : i > h[1] => Follows(S, h[2], M[i])
        /\ \A w \in W : Follows(S, h[2], w)
    BY DEF InLine
  <2>5. \A i \in 1..Len(R) : Follows(S, R[i], g[2])
    BY <2>1, <2>2, <2>4, <1>3, <1>5, <1>6
  <2>6. /\ \A i \in 1..Len(T) : i <= g[1] => Follows(S, T[i], g[2])
        /\ \A i \in 1..Len(T) : i > g[1] => Follows(S, g[2], T[i])
    BY <2>1, <2>3, <2>4, <1>3, <1>6
  <2> QED
    BY <2>1, <2>4, <2>5, <2>6
<1> QED
  BY <1>1, <1>2, <1>4, <1>8, <1>9, <1>10, <1>11, <1>12 DEF InLine

(* The event of the only guard is handled. *)
LEMMA LineExtra ==
  ASSUME NEW N, NEW S, NEW H \in Seq(N), NEW M, NEW n \in N, NEW G, NEW W,
         InLine(S, H, M, G, W), <<0, n>> \in G
  PROVE  InLine(S, Append(H, n), M, {}, W)
<1>4. PICK R : R = Append(H, n)
  OBVIOUS
<1>5. /\ Len(R) = Len(H) + 1 /\ R[Len(H) + 1] = n /\ Len(H) \in Nat
      /\ \A i \in 1..Len(H) : R[i] = H[i]
  BY <1>4, AppendProperties, LenProperties
<1>6. \A i \in 1..Len(R) : i \in 1..Len(H) \/ i = Len(H) + 1
  BY <1>5
<1>7. /\ \A i \in 1..Len(H) : Follows(S, H[i], n)
      /\ \A i \in 1..Len(M) : i > 0 => Follows(S, n, M[i])
      /\ \A w \in W : Follows(S, n, w)
  BY DEF InLine
<1>8. Increasing(S, R)
  <2> SUFFICES ASSUME NEW i \in 1..Len(R), NEW j \in 1..Len(R), i < j
               PROVE  Follows(S, R[i], R[j])
    BY DEF Increasing
  <2>1. i \in 1..Len(H)
    BY <1>5, <1>6
  <2> QED
    BY <2>1, <1>5, <1>6, <1>7 DEF InLine, Increasing
<1>9. \A i \in 1..Len(M) : Follows(S, n, M[i])
  BY <1>7
<1> QED
  BY <1>4, <1>5, <1>6, <1>7, <1>8, <1>9 DEF InLine

LEMMA LineCleared ==
  ASSUME NEW S, NEW H, NEW M, NEW G, NEW W, InLine(S, H, M, G, W)
  PROVE  InLine(S, H, <<>>, {}, W)
  BY DEF InLine, Increasing
-----------------------------------------------------------------------------
(* A queue that gets shorter and longer. *)
LEMMA RankedTail ==
  ASSUME NEW N, NEW q \in Seq(N), q # <<>>, NEW S, NEW MV, Ranked(q, S, MV)
  PROVE  /\ Ranked(Tail(q), S, MV)
         /\ \A n \in Events : Head(q) = EventItem(n) /\ n <= Len(S) /\ S[n].to \notin MV =>
              \A m \in Events : EventItem(m) \in Range(Tail(q)) /\ S[m].to = S[n].to => Follows(S, n, m)
         /\ \A n \in Events : EventItem(n) \in Range(q) /\ n <= Len(S) /\ S[n].to \notin MV =>
              Head(q) # ActorItem(S[n].from)
<1>1. PICK r : r = Tail(q)
  OBVIOUS
<1>2. /\ r \in Seq(N) /\ Len(r) = Len(q) - 1 /\ Len(q) \in Nat \ {0}
      /\ Head(q) = q[1] /\ \A i \in 1..Len(r) : r[i] = q[i + 1]
  BY <1>1, HeadTailProperties
<1>3. /\ \A i \in 1..Len(r) : i + 1 \in 1..Len(q) /\ 1 < i + 1
      /\ 1 \in 1..Len(q)
      /\ \A i, j \in 1..Len(r) : (i < j <=> i + 1 < j + 1)
      /\ \A i \in 1..Len(q) : ~(i < 1)
  BY <1>2
<1>4. Ranked(r, S, MV)
  <2> SUFFICES ASSUME NEW i \in 1..Len(r), NEW j \in 1..Len(r), NEW n \in Events,
                      r[i] = EventItem(n), n <= Len(S), S[n].to \notin MV
               PROVE  /\ \A m \in Events : i < j /\ r[j] = EventItem(m) /\ S[m].to = S[n].to
                                             => Follows(S, n, m)
                      /\ r[j] = ActorItem(S[n].from) => i < j
    BY DEF Ranked
  <2>1. /\ i + 1 \in 1..Len(q) /\ j + 1 \in 1..Len(q) /\ q[i + 1] = r[i] /\ q[j + 1] = r[j]
        /\ (i < j <=> i + 1 < j + 1)
    BY <1>2, <1>3
  <2>2. /\ \A m \in Events : i + 1 < j + 1 /\ q[j + 1] = EventItem(m) /\ S[m].to = S[n].to
                               => Follows(S, n, m)
        /\ q[j + 1] = ActorItem(S[n].from) => i + 1 < j + 1
    BY <2>1 DEF Ranked
  <2> QED
    BY <2>1, <2>2
<1>5. ASSUME NEW n \in Events, q[1] = EventItem(n), n <= Len(S), S[n].to \notin MV,
             NEW m \in Events, EventItem(m) \in Range(r), S[m].to = S[n].to
      PROVE  Follows(S, n, m)
  <2>1. PICK j \in 1..Len(r) : r[j] = EventItem(m)
    BY <1>2, <1>5, InRange
  <2>2. j + 1 \in 1..Len(q) /\ 1 < j + 1 /\ q[j + 1] = EventItem(m)
    BY <2>1, <1>2, <1>3
  <2> QED
    BY <2>2, <1>3, <1>5 DEF Ranked
<1>6. ASSUME NEW n \in Events, EventItem(n) \in Range(q), n <= Len(S), S[n].to \notin MV
      PROVE  q[1] # ActorItem(S[n].from)
  <2>1. PICK i \in 1..Len(q) : q[i] = EventItem(n)
    BY <1>6, InRange
  <2> QED
    BY <2>1, <1>3, <1>6 DEF Ranked
<1> QED
  BY <1>1, <1>2, <1>4, <1>5, <1>6

LEMMA RankedAppend ==
  ASSUME NEW N, NEW q \in Seq(N), NEW v \in N, NEW S, NEW MV, Ranked(q, S, MV),
         \A n \in Events : v = EventItem(n) /\ n <= Len(S) /\ S[n].to \notin MV =>
           ActorItem(S[n].from) \notin Range(q),
         \A n, m \in Events :
           EventItem(n) \in Range(q) /\ n <= Len(S) /\ S[n].to \notin MV =>
             (v = EventItem(m) /\ S[m].to = S[n].to => Follows(S, n, m))
  PROVE  Ranked(Append(q, v), S, MV)
<1>1. PICK r : r = Append(q, v)
  OBVIOUS
<1>2. /\ Len(r) = Len(q) + 1 /\ r[Len(q) + 1] = v /\ Len(q) \in Nat
      /\ \A i \in 1..Len(q) : r[i] = q[i]
  BY <1>1, AppendProperties, LenProperties
<1>3. /\ \A i \in 1..Len(r) : i \in 1..Len(q) \/ i = Len(q) + 1
      /\ \A i \in 1..Len(q) : i < Len(q) + 1
      /\ \A i \in 1..Len(r) : i < Len(q) + 1 => i \in 1..Len(q)
      /\ \A i \in 1..Len(q) : q[i] \in Range(q)
      /\ \A i \in 1..Len(r) : ~(Len(q) + 1 < i)
  BY <1>2, InRange
<1> SUFFICES ASSUME NEW i \in 1..Len(r), NEW j \in 1..Len(r), NEW n \in Events,
                    r[i] = EventItem(n), n <= Len(S), S[n].to \notin MV
             PROVE  /\ \A m \in Events : i < j /\ r[j] = EventItem(m) /\ S[m].to = S[n].to
                                           => Follows(S, n, m)
                    /\ r[j] = ActorItem(S[n].from) => i < j
  BY <1>1 DEF Ranked
<1>4. CASE i \in 1..Len(q) /\ j \in 1..Len(q)
  BY <1>4, <1>2 DEF Ranked
<1>5. CASE i \in 1..Len(q) /\ j = Len(q) + 1
  BY <1>5, <1>2, <1>3
<1>6. CASE i = Len(q) + 1
  <2>1. v = EventItem(n) /\ ~(i < j)
    BY <1>6, <1>2, <1>3
  <2>2. ActorItem(S[n].from) \notin Range(q) /\ ActorItem(S[n].from) # v
    BY <2>1, ItemsDiffer
  <2>3. r[j] # ActorItem(S[n].from)
    BY <2>2, <1>2, <1>3
  <2> QED
    BY <2>1, <2>3
<1> QED
  BY <1>3, <1>4, <1>5, <1>6

(* It is seen by later senders, and more actors have migrated. *)
LEMMA RankedMore ==
  ASSUME NEW N, NEW q \in Seq(N), NEW S, NEW MV, Ranked(q, S, MV), NEW S2, NEW MV2,
         MV \subseteq MV2, \A n \in Events : EventItem(n) \in Range(q) => n <= Len(S) /\ S2[n] = S[n]
  PROVE  Ranked(q, S2, MV2)
<1>1. \A i \in 1..Len(q) : q[i] \in Range(q)
  BY InRange
<1> SUFFICES ASSUME NEW i \in 1..Len(q), NEW j \in 1..Len(q), NEW n \in Events,
                    q[i] = EventItem(n), n <= Len(S2), S2[n].to \notin MV2
             PROVE  /\ \A m \in Events : i < j /\ q[j] = EventItem(m) /\ S2[m].to = S2[n].to
                                           => Follows(S2, n, m)
                    /\ q[j] = ActorItem(S2[n].from) => i < j
  BY DEF Ranked
<1>2. n <= Len(S) /\ S2[n] = S[n] /\ S[n].to \notin MV
  BY <1>1
<1>3. \A m \in Events : q[j] = EventItem(m) => S2[m] = S[m]
  BY <1>1
<1> QED
  BY <1>2, <1>3 DEF Ranked, Follows
-----------------------------------------------------------------------------
LEMMA SmallerSeq ==
  ASSUME NEW S, NEW N, NEW q \in Seq(S), \A i \in 1..Len(q) : q[i] \in N
  PROVE  q \in Seq(N)
<1>1. Len(q) \in Nat /\ q \in [1..Len(q) -> S]
  BY LenProperties
<1>2. q \in [1..Len(q) -> N]
  BY <1>1
<1> QED
  BY <1>1, <1>2, SeqDef

(* What is anywhere was sent. *)
LEMMA KnownEvents ==
  ASSUME SInv, NEW N, N = 1..Len(sent)
  PROVE  /\ N \subseteq Events
         /\ \A b \in Actors : /\ handled[b] \in Seq(N) /\ mailbox[b] \in Seq(N)
                              /\ GuardsOf(b) \subseteq Nat \X N /\ AwayTo(b) \subseteq N
         /\ \A s \in Scheds, n \in Events : Queued(s, n) => n \in N
         /\ \A t \in Threads, n \in Events : Holds(t, n) => n \in N
<1>1. /\ handled \in [Actors -> Seq(Events)] /\ mailbox \in [Actors -> Seq(Events)]
      /\ stack \in [Scheds -> Seq(Guards)] /\ Len(sent) \in Nat /\ Len(sent) <= MaxEvents
      /\ OnePlace
  BY LenProperties DEF SInv, TypeOK, Core, EventsKept
<1>2. MaxEvents \in Nat
  BY SchedulerAssumption
<1>3. N \subseteq Events /\ \A n \in Events : n <= Len(sent) => n \in N
  BY <1>1, <1>2 DEF Events
<1>4. \A n \in Events : Place(n) # {} => n \in N
  BY <1>1, <1>3 DEF OnePlace
<1>5. ASSUME NEW b \in Actors
      PROVE  handled[b] \in Seq(N) /\ mailbox[b] \in Seq(N)
  <2>1. handled[b] \in Seq(Events) /\ mailbox[b] \in Seq(Events)
    BY <1>1
  <2>2. \A n \in Events : n \in Range(handled[b]) \cup Range(mailbox[b]) => n \in N
    <3> SUFFICES ASSUME NEW n \in Events, n \in Range(handled[b]) \cup Range(mailbox[b])
                 PROVE  Place(n) # {}
      BY <1>4
    <3>1. n \in Ranges(handled)[b] \/ n \in Ranges(mailbox)[b]
      BY DEF Ranges
    <3>2. <<"handled", b>> \in InHandled(n) \/ <<"mailbox", b>> \in InMailbox(n)
      BY <3>1 DEF InHandled, InMailbox, Tagged
    <3> QED
      BY <3>2 DEF Place, Rest
  <2>3. \A i \in 1..Len(handled[b]) : handled[b][i] \in N
    <3>1. \A i \in 1..Len(handled[b]) : handled[b][i] \in Range(handled[b]) /\ handled[b][i] \in Events
      BY <2>1, InRange, ElementOfSeq
    <3> QED
      BY <3>1, <2>2
  <2>4. \A i \in 1..Len(mailbox[b]) : mailbox[b][i] \in N
    <3>1. \A i \in 1..Len(mailbox[b]) : mailbox[b][i] \in Range(mailbox[b]) /\ mailbox[b][i] \in Events
      BY <2>1, InRange, ElementOfSeq
    <3> QED
      BY <3>1, <2>2
  <2> QED
    BY <2>1, <2>3, <2>4, SmallerSeq
<1>6. ASSUME NEW b \in Actors PROVE GuardsOf(b) \subseteq Nat \X N
  <2> SUFFICES ASSUME NEW g \in GuardsOf(b) PROVE g \in Nat \X N
    OBVIOUS
  <2>1. g \in Nat \X Events
    BY DEF GuardsOf
  <2>2. PICK s \in Scheds : \E k \in DOMAIN stack[s] : stack[s][k].extra = g[2]
    BY DEF GuardsOf
  <2>3. PICK k \in DOMAIN stack[s] : stack[s][k].extra = g[2]
    BY <2>2
  <2>4. <<"guard", <<s, k>>>> \in InGuards(g[2])
    BY <2>3, <1>1, GuardsAre
  <2>5. g[2] \in N
    BY <2>1, <2>4, <1>4 DEF Place, Rest
  <2> QED
    BY <2>1, <2>5
<1>7. \A b \in Actors : AwayTo(b) \subseteq N
  BY <1>3 DEF AwayTo
<1>8. ASSUME NEW n \in Events, Way(EventItem(n)) # {} PROVE n \in N
  BY <1>4, <1>8 DEF Place
<1>9. \A s \in Scheds, n \in Events : Queued(s, n) => n \in N
  BY <1>8, WayIs DEF Way, Queued
<1>10. \A t \in Threads, n \in Events : Holds(t, n) => n \in N
  BY <1>8, WayIs DEF Way, Holds
<1> QED
  BY <1>3, <1>5, <1>6, <1>7, <1>9, <1>10

(* Steps that move no event from a line, and what they may do to queues.   *)
LEMMA OwnLineKept ==
  ASSUME NEW b \in Actors, OwnLine(b), sent' = sent, handled'[b] = handled[b],
         mailbox'[b] = mailbox[b], GuardsOf(b)' \subseteq GuardsOf(b), AwayTo(b)' \subseteq AwayTo(b)
  PROVE  OwnLine(b)'
  BY LineLess DEF OwnLine

LEMMA AwayKept ==
  ASSUME NEW b \in Actors, sent' = sent,
         \A t \in Threads, n \in Events : Holds(t, n)' => Holds(t, n),
         \A s \in Scheds, n \in Events : Queued(s, n)' => Queued(s, n)
  PROVE  AwayTo(b)' \subseteq AwayTo(b)
  BY DEF AwayTo

LEMMA HandsKept ==
  ASSUME HandsInOrder, sent' = sent, moved \subseteq moved',
         \A t \in Threads, n \in Events : Holds(t, n)' =>
           /\ Holds(t, n) /\ putting'[t] = putting[t]
           /\ t \in Scheds => stack'[t] = stack[t]
  PROVE  HandsInOrder'
<1> SUFFICES ASSUME NEW t \in Threads, NEW n \in Events, Holds(t, n)', ToStay(n)'
             PROVE  /\ putting'[t][1] = Home[sent'[n].to] /\ putting'[t][1] # t
                    /\ Sends(t, sent[n].from)'
  BY DEF HandsInOrder
<1>1. Holds(t, n) /\ putting'[t] = putting[t] /\ (t \in Scheds => stack'[t] = stack[t]) /\ ToStay(n)
  BY DEF ToStay
<1>2. putting[t][1] = Home[sent[n].to] /\ putting[t][1] # t /\ Sends(t, sent[n].from)
  BY <1>1 DEF HandsInOrder
<1> QED
  BY <1>1, <1>2 DEF Sends, Top

LEMMA QueuesKept ==
  ASSUME SInv, QueuesRanked, QueuesBehind, sent' = sent, moved \subseteq moved',
         UNCHANGED Contents,
         \A t \in Threads, n \in Events : Holds(t, n)' => Holds(t, n),
         \A b \in Actors : \/ sched'[b] = sched[b] /\ migrating'[b] = migrating[b]
                           \/ migrating'[b]
  PROVE  QueuesRanked' /\ QueuesBehind'
<1>1. QueuesRanked'
  <2>1. \A s \in Scheds : Contents[s] \in Seq(Values)
    BY TypeOfContents DEF SInv, TypeOK
  <2>2. \A s \in Scheds, n \in Events : EventItem(n) \in Range(Contents[s]) => n <= Len(sent)
    BY LenProperties, KnownEvents DEF SInv, TypeOK, Queued
  <2>3. \A s \in Scheds : Ranked(Contents[s], sent, moved)
    BY DEF QueuesRanked
  <2>4. \A s \in Scheds : Ranked(Contents[s], sent, moved')
    BY <2>1, <2>2, <2>3, RankedMore
  <2> QED
    BY <2>4 DEF QueuesRanked
<1>2. QueuesBehind'
  <2> SUFFICES ASSUME NEW s \in Scheds, NEW n \in Events, Queued(s, n)', ToStay(n)'
               PROVE  /\ s = Home[sent[n].to]
                      /\ \A t \in Threads, m \in Events :
                           Holds(t, m)' /\ sent[m].to = sent[n].to => Follows(sent, n, m)
                      /\ sent[n].from \in Actors /\ sched'[sent[n].from] = s => migrating'[sent[n].from]
    BY DEF QueuesBehind
  <2>1. Queued(s, n) /\ ToStay(n)
    BY DEF Queued, ToStay
  <2>2. /\ s = Home[sent[n].to]
        /\ \A t \in Threads, m \in Events :
             Holds(t, m) /\ sent[m].to = sent[n].to => Follows(sent, n, m)
        /\ sent[n].from \in Actors /\ sched[sent[n].from] = s => migrating[sent[n].from]
    BY <2>1 DEF QueuesBehind
  <2>3. PICK f : f = sent[n].from
    OBVIOUS
  <2>4. f \in Actors /\ sched'[f] = s => migrating'[f]
    BY <2>2, <2>3
  <2> QED
    BY <2>2, <2>3, <2>4
<1> QED
  BY <1>1, <1>2

LEMMA OrderKept ==
  ASSUME SInv, OrderInv, sent' = sent, moved \subseteq moved', UNCHANGED Contents,
         \A t \in Threads, n \in Events : Holds(t, n)' =>
           /\ Holds(t, n) /\ putting'[t] = putting[t]
           /\ t \in Scheds => stack'[t] = stack[t],
         \A b \in Actors : \/ sched'[b] = sched[b] /\ migrating'[b] = migrating[b]
                           \/ migrating'[b] /\ b \in moved',
         \A b \in Actors \ moved' : AwayTo(b)' \subseteq AwayTo(b) => OwnLine(b)'
  PROVE  OrderInv'
<1>1. HandsInOrder'
  BY HandsKept DEF OrderInv
<1>2. QueuesRanked' /\ QueuesBehind'
  BY QueuesKept DEF OrderInv
<1>3. \A s \in Scheds, n \in Events : Queued(s, n)' => Queued(s, n)
  BY DEF Queued
<1>4. \A b \in Actors : AwayTo(b)' \subseteq AwayTo(b)
  BY <1>3, AwayKept
<1>5. LinesInOrder'
  BY <1>4 DEF LinesInOrder, OrderInv
<1> QED
  BY <1>1, <1>2, <1>5 DEF OrderInv

LEMMA GuardsKept ==
  ASSUME NEW b,
         \A r \in Scheds : \A i \in DOMAIN stack'[r] :
           stack'[r][i].actor = b /\ stack'[r][i].extra \in Events =>
             /\ i \in DOMAIN stack[r] /\ stack[r][i].actor = b
             /\ stack[r][i].left = stack'[r][i].left /\ stack[r][i].extra = stack'[r][i].extra
  PROVE  GuardsOf(b)' \subseteq GuardsOf(b)
<1> SUFFICES ASSUME NEW g \in GuardsOf(b)' PROVE g \in GuardsOf(b)
  OBVIOUS
<1>1. g \in Nat \X Events
  BY DEF GuardsOf
<1>2. PICK r \in Scheds : \E i \in DOMAIN stack'[r] :
        stack'[r][i].actor = b /\ stack'[r][i].left = g[1] /\ stack'[r][i].extra = g[2]
  BY DEF GuardsOf
<1>3. PICK i \in DOMAIN stack'[r] :
        stack'[r][i].actor = b /\ stack'[r][i].left = g[1] /\ stack'[r][i].extra = g[2]
  BY <1>2
<1>4. g[2] \in Events
  BY <1>1
<1>5. i \in DOMAIN stack[r] /\ stack[r][i].actor = b /\ stack[r][i].left = g[1] /\ stack[r][i].extra = g[2]
  BY <1>3, <1>4
<1> QED
  BY <1>1, <1>5 DEF GuardsOf

(* A thread that does something holds nothing. *)
LEMMA FreeHolds ==
  ASSUME NEW s \in Threads, putting[s] = <<>>, UNCHANGED putting,
         \A r \in Scheds : r # s => stack'[r] = stack[r]
  PROVE  \A t \in Threads, n \in Events : Holds(t, n)' =>
           /\ Holds(t, n) /\ putting'[t] = putting[t]
           /\ t \in Scheds => stack'[t] = stack[t]
  BY DEF Holds

LEMMA QuietOrder ==
  ASSUME SInv, OrderInv, UNCHANGED Contents,
         UNCHANGED <<sched, migrating, mailbox, sent, handled, moved, stack, putting>>
  PROVE  OrderInv'
<1>1. \A t \in Threads, n \in Events : Holds(t, n)' =>
           /\ Holds(t, n) /\ putting'[t] = putting[t]
           /\ t \in Scheds => stack'[t] = stack[t]
  BY DEF Holds
<1>2. ASSUME NEW b \in Actors \ moved', AwayTo(b)' \subseteq AwayTo(b) PROVE OwnLine(b)'
  <2>1. GuardsOf(b)' \subseteq GuardsOf(b)
    BY GuardsKept
  <2> QED
    BY <1>2, <2>1, OwnLineKept DEF OrderInv, LinesInOrder
<1> QED
  BY <1>1, <1>2, OrderKept

LEMMA QueueStepsOrder ==
  ASSUME SInv, OrderInv, NEW s \in Scheds,
         \/ \E t \in Threads : Release(t)
         \/ RunService(s) \/ GoOnService(s) \/ Poll(s)
  PROVE  OrderInv'
<1>1. s \in Queues /\ IInv
  BY DEF Scheds, SInv
<1>2. UNCHANGED Contents
  <2>1. CASE \E t \in Threads : Release(t)
    BY <2>1, SameVectors DEF Release, WriterRelease
  <2>2. CASE RunService(s) \/ GoOnService(s) \/ Poll(s)
    BY <2>2, <1>1, OthersAreSilent DEF RunService, GoOnService, Poll
  <2> QED
    BY <2>1, <2>2
<1>3. UNCHANGED <<sched, migrating, mailbox, sent, handled, moved, stack, putting>>
  BY DEF Release, RunService, GoOnService, Poll, actorVars, notes
<1> QED
  BY <1>2, <1>3, QuietOrder

(* What a handler asks of its EventGuard changes no line. *)
LEMMA HandlerOrder ==
  ASSUME SInv, OrderInv, NEW s \in Scheds,
         \/ \E d \in Scheds : HandlerMigrate(s, d)
         \/ HandlerStop(s) \/ HandlerReturn(s)
  PROVE  OrderInv'
<1>1. /\ stack[s] # <<>> /\ putting[s] = <<>>
      /\ UNCHANGED <<queueVars, actorVars, sent, handled, moved, putting>>
  BY DEF HandlerMigrate, HandlerStop, HandlerReturn, Busy, Free, notes
<1>2. stack \in [Scheds -> Seq(Guards)] /\ s \in Threads
  BY QueueAssumption DEF SInv, TypeOK, Scheds
<1>3. Top(s) \in Guards
  BY <1>1, <1>2, StackTop DEF Top
<1>4. PICK g \in Guards : /\ stack' = WithTop(s, g)
                          /\ g.actor = Top(s).actor /\ g.extra = Top(s).extra
                          /\ g.left = Top(s).left
  <2>1. CASE HandlerStop(s)
    <3> DEFINE g == [Top(s) EXCEPT !.stop = TRUE]
    <3>1. g \in Guards /\ g.actor = Top(s).actor /\ g.extra = Top(s).extra /\ g.left = Top(s).left
      BY <1>3 DEF Guards
    <3> QED
      BY <2>1, <3>1 DEF HandlerStop
  <2>2. CASE HandlerReturn(s)
    <3> DEFINE g == [Top(s) EXCEPT !.busy = FALSE]
    <3>1. g \in Guards /\ g.actor = Top(s).actor /\ g.extra = Top(s).extra /\ g.left = Top(s).left
      BY <1>3 DEF Guards
    <3> QED
      BY <2>2, <3>1 DEF HandlerReturn
  <2>3. ASSUME NEW d \in Scheds, HandlerMigrate(s, d)
        PROVE  \E g \in Guards : /\ stack' = WithTop(s, g)
                                 /\ g.actor = Top(s).actor /\ g.extra = Top(s).extra
                                 /\ g.left = Top(s).left
    <3> DEFINE g == [Top(s) EXCEPT !.dest = {d}]
    <3>1. g \in Guards /\ g.actor = Top(s).actor /\ g.extra = Top(s).extra /\ g.left = Top(s).left
      BY <1>3 DEF Guards
    <3> QED
      BY <2>3, <3>1 DEF HandlerMigrate
  <2> QED
    BY <2>1, <2>2, <2>3
<1>5. /\ \A r \in Scheds : DOMAIN stack'[r] = DOMAIN stack[r]
      /\ \A r \in Scheds : \A i \in DOMAIN stack[r] :
           \/ stack'[r][i] = stack[r][i]
           \/ r = s /\ stack[r][i] = Top(s) /\ stack'[r][i] = g
  BY <1>1, <1>2, <1>4, GuardChanged
<1>6. \A r \in Scheds : r # s => stack'[r] = stack[r]
  BY <1>2, <1>4 DEF WithTop
<1>7. \A t \in Threads, n \in Events : Holds(t, n)' =>
           /\ Holds(t, n) /\ putting'[t] = putting[t]
           /\ t \in Scheds => stack'[t] = stack[t]
  BY <1>1, <1>2, <1>6, FreeHolds
<1>8. /\ UNCHANGED Contents
      /\ UNCHANGED <<sched, migrating, mailbox, sent, handled, moved>>
  BY <1>1, SameVectors DEF queueVars, actorVars
<1>9. ASSUME NEW b \in Actors \ moved', AwayTo(b)' \subseteq AwayTo(b) PROVE OwnLine(b)'
  <2>1. \A r \in Scheds : \A i \in DOMAIN stack'[r] :
          /\ i \in DOMAIN stack[r] /\ stack[r][i].actor = stack'[r][i].actor
          /\ stack[r][i].left = stack'[r][i].left /\ stack[r][i].extra = stack'[r][i].extra
    BY <1>4, <1>5
  <2>2. GuardsOf(b)' \subseteq GuardsOf(b)
    BY <2>1, GuardsKept
  <2> QED
    BY <1>8, <1>9, <2>2, OwnLineKept DEF OrderInv, LinesInOrder
<1> QED
  BY <1>7, <1>8, <1>9, OrderKept

(* run_mailbox takes an actor: its guard has no event of its own. *)
LEMMA RunMailboxOrder ==
  ASSUME SInv, OrderInv, NEW s \in Scheds, NEW a \in Actors, RunMailbox(s, a)
  PROVE  OrderInv'
<1>1. /\ stack \in [Scheds -> Seq(Guards)] /\ s \in Threads /\ Len(mailbox[a]) \in Nat
      /\ putting[s] = <<>>
  BY QueueAssumption, LenProperties DEF SInv, TypeOK, Scheds, RunMailbox, Idle, Free
<1>2. stack' = Pushed(s, Guard(a, Len(mailbox[a]), 0))
  BY DEF RunMailbox
<1>3. /\ UNCHANGED Contents
      /\ UNCHANGED <<sched, migrating, mailbox, sent, handled, moved, putting>>
  BY SameVectors DEF RunMailbox, queueVars, notes
<1>4. \A r \in Scheds : \A i \in DOMAIN stack'[r] :
        \/ i \in DOMAIN stack[r] /\ stack'[r][i] = stack[r][i]
        \/ stack'[r][i] = Guard(a, Len(mailbox[a]), 0)
  BY <1>1, <1>2, GuardPushed
<1>5. \A r \in Scheds : r # s => stack'[r] = stack[r]
  BY <1>1, <1>2 DEF Pushed
<1>6. \A t \in Threads, n \in Events : Holds(t, n)' =>
           /\ Holds(t, n) /\ putting'[t] = putting[t]
           /\ t \in Scheds => stack'[t] = stack[t]
  BY <1>1, <1>3, <1>5, FreeHolds
<1>7. 0 \notin Events /\ Guard(a, Len(mailbox[a]), 0).extra = 0
  BY SchedulerAssumption DEF Events, Guard
<1>8. ASSUME NEW b \in Actors \ moved', AwayTo(b)' \subseteq AwayTo(b) PROVE OwnLine(b)'
  <2>1. GuardsOf(b)' \subseteq GuardsOf(b)
    BY <1>4, <1>7, GuardsKept
  <2> QED
    BY <1>3, <1>8, <2>1, OwnLineKept DEF OrderInv, LinesInOrder
<1> QED
  BY <1>3, <1>6, <1>8, OrderKept

(* The one guard of a running actor. *)
LEMMA GuardsOfTop ==
  ASSUME TypeOK, ActorsAtHome, NEW s \in Scheds, stack[s] # <<>>, NEW a, a = Top(s).actor
  PROVE  /\ \A g \in GuardsOf(a) : g[1] = Top(s).left /\ g[2] = Top(s).extra
         /\ Top(s).extra \in Events => <<Top(s).left, Top(s).extra>> \in GuardsOf(a)
<1>1. /\ Top(s).left \in Nat /\ Len(stack[s]) \in DOMAIN stack[s] /\ Top(s) = stack[s][Len(stack[s])]
      /\ \A r \in Scheds : \A i \in DOMAIN stack[r] :
              stack[r][i].actor = Top(s).actor => stack[r][i] = Top(s)
  BY TopIsAlone
<1>2. PICK h : h = Top(s)
  OBVIOUS
<1>3. PICK k \in DOMAIN stack[s] : stack[s][k] = h
  BY <1>1, <1>2
<1>4. \A g \in GuardsOf(a) : g[1] = h.left /\ g[2] = h.extra
  BY <1>1, <1>2 DEF GuardsOf
<1>5. ASSUME h.extra \in Events PROVE <<h.left, h.extra>> \in GuardsOf(a)
  <2>1. PICK g : g = <<h.left, h.extra>>
    OBVIOUS
  <2>2. g \in Nat \X Events /\ g[1] = h.left /\ g[2] = h.extra
    BY <2>1, <1>1, <1>2, <1>5
  <2>3. g \in GuardsOf(a)
    BY <2>2, <1>2, <1>3 DEF GuardsOf
  <2> QED
    BY <2>1, <2>3
<1> QED
  BY <1>2, <1>4, <1>5

(* do_event: the next of the line is handled. *)
LEMMA DoEventOrder ==
  ASSUME SInv, SInv', OrderInv, NEW s \in Scheds, DoEvent(s)
  PROVE  OrderInv'
<1>1. /\ TypeOK /\ ActorsAtHome /\ TypeOK' /\ ActorsAtHome'
      /\ stack \in [Scheds -> Seq(Guards)] /\ handled \in [Actors -> Seq(Events)]
      /\ mailbox \in [Actors -> Seq(Events)] /\ stack[s] # <<>> /\ putting[s] = <<>> /\ s \in Threads
  BY QueueAssumption DEF SInv, Core, TypeOK, DoEvent, Between, Free, Scheds
<1>2. /\ Top(s) \in Guards /\ Top(s).actor \in Actors
      /\ Top(s).left \in Nat /\ Top(s).left <= Len(mailbox[Top(s).actor])
  BY <1>1, TopIsAlone
<1>3. PICK a \in Actors : a = Top(s).actor
  BY <1>2
<1>4. PICK h \in Guards : h = Top(s)
  BY <1>2
<1>5. PICK g : /\ stack' = WithTop(s, g)
               /\ g = IF h.left > 0 THEN [h EXCEPT !.left = @ - 1, !.busy = TRUE]
                                    ELSE [h EXCEPT !.extra = 0, !.busy = TRUE]
  BY <1>4 DEF DoEvent
<1>6. /\ g \in Guards /\ g.actor = h.actor
      /\ h.left > 0 => g.left = h.left - 1 /\ g.extra = h.extra
      /\ ~(h.left > 0) => g.left = h.left /\ g.extra = 0
  <2>1. \A l \in Nat : LET f == [h EXCEPT !.left = l, !.busy = TRUE]
                       IN  f \in Guards /\ f.actor = h.actor /\ f.extra = h.extra /\ f.left = l
    BY DEF Guards
  <2>2. LET f == [h EXCEPT !.extra = 0, !.busy = TRUE]
        IN  f \in Guards /\ f.actor = h.actor /\ f.extra = 0 /\ f.left = h.left
    BY DEF Guards
  <2>3. CASE h.left > 0
    <3>1. h.left - 1 \in Nat
      BY <2>3, <1>2, <1>4
    <3>2. g = [h EXCEPT !.left = h.left - 1, !.busy = TRUE]
      BY <2>3, <1>5
    <3> QED
      BY <2>1, <2>3, <3>1, <3>2
  <2>4. CASE ~(h.left > 0)
    BY <2>2, <2>4, <1>5
  <2> QED
    BY <2>3, <2>4
<1>7. /\ \A r \in Scheds : DOMAIN stack'[r] = DOMAIN stack[r]
      /\ \A r \in Scheds : \A i \in DOMAIN stack[r] :
           \/ stack'[r][i] = stack[r][i]
           \/ r = s /\ stack[r][i] = Top(s) /\ stack'[r][i] = g
      /\ stack'[s][Len(stack[s])] = g
  <2>1. g.actor = Top(s).actor /\ g.extra \in {0, Top(s).extra}
    BY <1>4, <1>6
  <2>2. stack' = [stack EXCEPT ![s] = Append(Front(@), g)]
    BY <1>5 DEF WithTop
  <2>3. /\ \A r \in Scheds : DOMAIN stack'[r] = DOMAIN stack[r]
        /\ \A r \in Scheds : \A i \in DOMAIN stack[r] :
             \/ stack'[r][i] = stack[r][i]
             \/ r = s /\ stack[r][i] = Top(s) /\ stack'[r][i] = g
    BY <2>1, <1>1, <1>5, <1>6, GuardChanged
  <2>4. stack'[s][Len(stack[s])] = g
    BY <2>2, <1>1, <1>6, StackChanged
  <2> QED
    BY <2>3, <2>4
<1>8. \A r \in Scheds : r # s => stack'[r] = stack[r]
  BY <1>1, <1>5 DEF WithTop
<1>9. /\ UNCHANGED Contents
      /\ UNCHANGED <<sched, migrating, sent, moved, putting>>
  BY SameVectors DEF DoEvent, queueVars
<1>10. \A t \in Threads, n \in Events : Holds(t, n)' =>
           /\ Holds(t, n) /\ putting'[t] = putting[t]
           /\ t \in Scheds => stack'[t] = stack[t]
  BY <1>1, <1>8, <1>9, FreeHolds
<1>11. ASSUME NEW b \in Actors \ moved', AwayTo(b)' \subseteq AwayTo(b), b # a PROVE OwnLine(b)'
  <2>1. GuardsOf(b)' \subseteq GuardsOf(b)
    BY <1>3, <1>4, <1>6, <1>7, <1>11, GuardsKept
  <2>2. handled'[b] = handled[b] /\ mailbox'[b] = mailbox[b]
    BY <1>1, <1>3, <1>11 DEF DoEvent
  <2> QED
    BY <1>9, <1>11, <2>1, <2>2, OwnLineKept DEF OrderInv, LinesInOrder
<1>12. ASSUME a \notin moved', AwayTo(a)' \subseteq AwayTo(a) PROVE OwnLine(a)'
  <2>1. OwnLine(a)
    BY <1>9, <1>12 DEF OrderInv, LinesInOrder
  <2>2. PICK N : N = 1..Len(sent)
    OBVIOUS
  <2>3. /\ handled[a] \in Seq(N) /\ mailbox[a] \in Seq(N) /\ GuardsOf(a) \subseteq Nat \X N
        /\ N \subseteq Events
    BY <2>2, KnownEvents
  <2>4. \A k \in GuardsOf(a) : k[1] = h.left /\ k[2] = h.extra
    BY <1>1, <1>3, <1>4, GuardsOfTop
  <2>5. \A r \in Scheds : \A i \in DOMAIN stack'[r] :
          stack'[r][i].actor = a => stack'[r][i] = g
    <3>1. \A r \in Scheds : \A i \in DOMAIN stack[r] :
            stack[r][i].actor = a => r = s /\ i = Len(stack[s])
      <4>1. /\ Len(stack[s]) \in DOMAIN stack[s] /\ Top(s) = stack[s][Len(stack[s])]
            /\ sched[a] = s
        BY <1>1, <1>3, TopIsAlone
      <4> QED
        BY <4>1, <1>1, <1>3 DEF ActorsAtHome, GuardedAtHome, OneGuard
    <3>2. \A r \in Scheds : \A i \in DOMAIN stack'[r] :
            stack'[r][i].actor = a => stack[r][i].actor = a
      BY <1>3, <1>4, <1>6, <1>7
    <3> QED
      BY <3>1, <3>2, <1>7
  <2>6. \A k \in GuardsOf(a)' : k[1] = g.left /\ k[2] = g.extra /\ k[2] \in Events /\ k[1] \in Nat
    BY <2>5 DEF GuardsOf
  <2>7. handled \in [Actors -> Seq(Events)]
    BY <1>1
  <2>8. CASE h.left > 0
    <3>1. mailbox[a] # <<>>
      <4>1. Len(mailbox[a]) \in Nat /\ h.left <= Len(mailbox[a])
        BY <1>1, <1>2, <1>3, <1>4, LenProperties
      <4>2. Len(mailbox[a]) # 0
        BY <4>1, <2>8, <1>2, <1>4
      <4> QED
        BY <4>2, <1>1, EmptySeq
    <3>2. /\ handled'[a] = Append(handled[a], Head(mailbox[a]))
          /\ mailbox'[a] = Tail(mailbox[a])
      BY <2>8, <1>1, <1>3, <1>4 DEF DoEvent
    <3>3. \A k \in GuardsOf(a)' : \E l \in GuardsOf(a) : l[1] > 0 /\ k[1] = l[1] - 1 /\ k[2] = l[2]
      <4> SUFFICES ASSUME NEW k \in GuardsOf(a)'
                   PROVE  \E l \in GuardsOf(a) : l[1] > 0 /\ k[1] = l[1] - 1 /\ k[2] = l[2]
        OBVIOUS
      <4>1. k[1] = h.left - 1 /\ k[2] = h.extra /\ k[2] \in Events
        BY <2>6, <2>8, <1>6
      <4>2. <<h.left, h.extra>> \in GuardsOf(a)
        BY <4>1, <1>1, <1>3, <1>4, GuardsOfTop
      <4> QED
        BY <4>1, <4>2, <2>8
    <3>4. InLine(sent, Append(handled[a], Head(mailbox[a])), Tail(mailbox[a]), GuardsOf(a)', AwayTo(a))
      <4>1. PICK G, G2, W : G = GuardsOf(a) /\ G2 = GuardsOf(a)' /\ W = AwayTo(a)
        OBVIOUS
      <4>2. InLine(sent, handled[a], mailbox[a], G, W) /\ G \subseteq Nat \X N
        BY <4>1, <2>1, <2>3 DEF OwnLine
      <4>3. \A k \in G2 : \E l \in G : l[1] > 0 /\ k[1] = l[1] - 1 /\ k[2] = l[2]
        BY <4>1, <3>3
      <4>4. InLine(sent, Append(handled[a], Head(mailbox[a])), Tail(mailbox[a]), G2, W)
        BY <4>2, <4>3, <2>3, <3>1, LineDone
      <4> QED
        BY <4>1, <4>4
    <3>5. InLine(sent, handled'[a], mailbox'[a], GuardsOf(a)', AwayTo(a)')
      BY <3>2, <3>4, <1>12, LineLess
    <3> QED
      BY <3>5, <1>9 DEF OwnLine
  <2>9. CASE ~(h.left > 0)
    <3>1. h.left = 0 /\ h.extra # 0
      BY <2>9, <1>2, <1>4 DEF DoEvent
    <3>2. PICK n \in Events : n = h.extra
      BY <3>1 DEF Guards
    <3>3. /\ handled'[a] = Append(handled[a], n)
          /\ mailbox'[a] = mailbox[a]
      BY <2>9, <3>2, <1>1, <1>3, <1>4 DEF DoEvent
    <3>4. <<0, n>> \in GuardsOf(a)
      <4>1. <<h.left, h.extra>> \in GuardsOf(a)
        BY <3>2, <1>1, <1>3, <1>4, GuardsOfTop
      <4> QED
        BY <4>1, <3>1, <3>2
    <3>5. n \in N
      BY <3>4, <2>3
    <3>6. InLine(sent, Append(handled[a], n), mailbox[a], {}, AwayTo(a))
      BY <2>1, <2>3, <3>4, <3>5, LineExtra DEF OwnLine
    <3>7. GuardsOf(a)' = {}
      <4>1. 0 \notin Events
        BY SchedulerAssumption DEF Events
      <4>2. \A k \in GuardsOf(a)' : FALSE
        BY <4>1, <2>6, <2>9, <1>6
      <4> QED
        BY <4>2
    <3>8. InLine(sent, handled'[a], mailbox'[a], GuardsOf(a)', AwayTo(a)')
      BY <3>3, <3>6, <3>7, <1>12, LineLess
    <3> QED
      BY <3>8, <1>9 DEF OwnLine
  <2> QED
    BY <2>8, <2>9
<1>13. \A b \in Actors \ moved' : AwayTo(b)' \subseteq AwayTo(b) => OwnLine(b)'
  BY <1>11, <1>12
<1> QED
  BY <1>9, <1>10, <1>13, OrderKept

(* The end of an EventGuard: what is left of the line of its actor stays,  *)
(* is cleared, or migrates with the actor.                                 *)
LEMMA LeaveGuardOrder ==
  ASSUME SInv, OrderInv, NEW s \in Scheds, LeaveGuard(s)
  PROVE  OrderInv'
<1>1. /\ TypeOK /\ ActorsAtHome /\ GuardedAtHome /\ OneGuard
      /\ stack \in [Scheds -> Seq(Guards)] /\ putting \in [Threads -> {<<>>} \cup (Scheds \X Items)]
      /\ mailbox \in [Actors -> Seq(Events)] /\ stack[s] # <<>> /\ putting[s] = <<>> /\ s \in Threads
  BY QueueAssumption DEF SInv, Core, ActorsAtHome, TypeOK, LeaveGuard, Between, Free, Scheds
<1>2. PICK a \in Actors : a = Top(s).actor
  BY <1>1, TopIsAlone
<1>3. \/ StopActor(s, a)
      \/ \E d \in Top(s).dest : MigrateActor(s, a, d, MailOf(Top(s)))
      \/ Settle(s, a, MailOf(Top(s))) /\ Top(s).extra = 0
  BY <1>2 DEF LeaveGuard, MailOf
<1>4. stack' = [stack EXCEPT ![s] = Front(@)]
  BY DEF LeaveGuard
<1>5. \A r \in Scheds : \A i \in DOMAIN stack'[r] :
        /\ i \in DOMAIN stack[r] /\ stack'[r][i] = stack[r][i]
        /\ stack'[r][i].actor # Top(s).actor
  BY <1>1, <1>4, GuardPopped
<1>6. \A b : GuardsOf(b)' \subseteq GuardsOf(b)
  BY <1>5, GuardsKept
<1>7. GuardsOf(a)' = {}
  BY <1>2, <1>5 DEF GuardsOf
<1>8. \A r \in Scheds : r # s => stack'[r] = stack[r]
  BY <1>1, <1>4
<1>9. UNCHANGED Contents /\ sent' = sent /\ handled' = handled
  BY SameVectors DEF LeaveGuard, queueVars
<1>10. CASE StopActor(s, a)
  <2>1. /\ UNCHANGED <<sched, migrating, putting, moved>>
        /\ mailbox'[a] = <<>> /\ \A b \in Actors : b # a => mailbox'[b] = mailbox[b]
    BY <1>1, <1>10 DEF StopActor
  <2>2. \A t \in Threads, n \in Events : Holds(t, n)' =>
           /\ Holds(t, n) /\ putting'[t] = putting[t]
           /\ t \in Scheds => stack'[t] = stack[t]
    BY <1>1, <1>8, <2>1, FreeHolds
  <2>3. ASSUME NEW b \in Actors \ moved', AwayTo(b)' \subseteq AwayTo(b) PROVE OwnLine(b)'
    <3>1. OwnLine(b)
      BY <2>1, <2>3 DEF OrderInv, LinesInOrder
    <3>2. CASE b # a
      BY <1>6, <1>9, <2>1, <2>3, <3>1, <3>2, OwnLineKept
    <3>3. CASE b = a
      <4>1. InLine(sent, handled[a], <<>>, {}, AwayTo(a))
        BY <3>1, <3>3, LineCleared DEF OwnLine
      <4>2. InLine(sent, handled[a], <<>>, {}, AwayTo(a)')
        BY <4>1, <2>3, <3>3, LineLess
      <4> QED
        BY <4>2, <3>3, <1>7, <1>9, <2>1 DEF OwnLine
    <3> QED
      BY <3>2, <3>3
  <2> QED
    BY <1>9, <2>1, <2>2, <2>3, OrderKept
<1>11. CASE Settle(s, a, MailOf(Top(s))) /\ Top(s).extra = 0
  <2>1. MailOf(Top(s)) = mailbox[a]
    BY <1>2, <1>11 DEF MailOf
  <2>2. UNCHANGED <<sched, migrating, putting, moved>> /\ \A b \in Actors : mailbox'[b] = mailbox[b]
    BY <1>1, <1>11, <2>1 DEF Settle
  <2>3. \A t \in Threads, n \in Events : Holds(t, n)' =>
           /\ Holds(t, n) /\ putting'[t] = putting[t]
           /\ t \in Scheds => stack'[t] = stack[t]
    BY <1>1, <1>8, <2>2, FreeHolds
  <2>4. ASSUME NEW b \in Actors \ moved', AwayTo(b)' \subseteq AwayTo(b) PROVE OwnLine(b)'
    BY <1>6, <1>9, <2>2, <2>4, OwnLineKept DEF OrderInv, LinesInOrder
  <2> QED
    BY <1>9, <2>2, <2>3, <2>4, OrderKept
<1>12. ASSUME NEW d \in Top(s).dest, MigrateActor(s, a, d, MailOf(Top(s))) PROVE OrderInv'
  <2>1. /\ moved' = moved \cup {a} /\ migrating' = [migrating EXCEPT ![a] = TRUE]
        /\ sched' = [sched EXCEPT ![a] = d] /\ putting' = [putting EXCEPT ![s] = <<d, ActorItem(a)>>]
        /\ \A b \in Actors : b # a => mailbox'[b] = mailbox[b]
    BY <1>1, <1>12 DEF MigrateActor
  <2>2. \A b \in Actors : \/ sched'[b] = sched[b] /\ migrating'[b] = migrating[b]
                          \/ migrating'[b] /\ b \in moved'
    <3>1. sched \in [Actors -> Scheds] /\ migrating \in [Actors -> BOOLEAN]
      BY <1>1 DEF TypeOK
    <3> QED
      BY <2>1, <3>1
  <2>3. \A t \in Threads, n \in Events : Holds(t, n)' =>
           /\ Holds(t, n) /\ putting'[t] = putting[t]
           /\ t \in Scheds => stack'[t] = stack[t]
    <3>1. putting'[s][2] = ActorItem(a) /\ \A t \in Threads : t # s => putting'[t] = putting[t]
      BY <1>1, <2>1
    <3>2. \A n \in Events : ~Holds(s, n)'
      BY <3>1, ItemsDiffer DEF Holds
    <3> QED
      BY <3>1, <3>2, <1>8 DEF Holds
  <2>4. ASSUME NEW b \in Actors \ moved', AwayTo(b)' \subseteq AwayTo(b) PROVE OwnLine(b)'
    <3>1. b # a /\ b \notin moved
      BY <2>1, <2>4
    <3> QED
      BY <1>6, <1>9, <2>1, <2>4, <3>1, OwnLineKept DEF OrderInv, LinesInOrder
  <2> QED
    BY <1>9, <2>1, <2>2, <2>3, <2>4, OrderKept
<1> QED
  BY <1>3, <1>10, <1>11, <1>12
-----------------------------------------------------------------------------
(* A sender is on one thread and does not travel. *)
LEMMA SenderIsHere ==
  ASSUME SInv, NEW t \in Threads, NEW f, Sends(t, f)
  PROVE  /\ f \in Actors => t \in Scheds /\ sched[f] = t /\ ~migrating[f]
         /\ \A u \in Threads : Sends(u, f) => u = t
         /\ \A s \in Scheds : ActorItem(f) \notin Range(Contents[s])
<1>1. TypeOK /\ ActorsAtHome /\ OnTheMove
  BY DEF SInv, Core
<1>2. \A u \in Scheds : stack[u] # <<>> =>
        Top(u).actor \in Actors /\ sched[Top(u).actor] = u /\ ~migrating[Top(u).actor]
  BY <1>1, TopIsAlone
<1>3. \A c \in Clients : c \notin Actors /\ c \notin Scheds /\ c \in Threads
  BY SendersAssumption DEF Clients
<1>4. f \in Actors => t \in Scheds /\ sched[f] = t /\ ~migrating[f]
  BY <1>2, <1>3 DEF Sends
<1>5. \A u \in Threads : Sends(u, f) => u = t
  BY <1>2, <1>3 DEF Sends
<1>6. ASSUME NEW s \in Scheds, ActorItem(f) \in Range(Contents[s]) PROVE FALSE
  <2>1. Contents[s] \in Seq(Values)
    BY <1>1, TypeOfContents DEF TypeOK
  <2>2. ActorItem(f) \in Items
    <3>1. PICK i \in 1..Len(Contents[s]) : Contents[s][i] = ActorItem(f)
      BY <1>6, <2>1, InRange
    <3>2. Contents[s][i] \in Values
      BY <2>1, ElementOfSeq
    <3> QED
      BY <3>1, <3>2, ItemsAssumption
  <2>3. f \in Actors
    BY <2>2 DEF Items, ActorItem, EventItem
  <2>4. Way(ActorItem(f)) = {}
    BY <2>3, <1>1, <1>4 DEF OnTheMove
  <2> QED
    BY <2>4, <1>6, WayIs DEF Way
<1> QED
  BY <1>4, <1>5, <1>6

(* writer_put: what was in hands is now the last of the queue. *)
LEMMA PutOrder ==
  ASSUME SInv, OrderInv, NEW t \in Threads, Put(t)
  PROVE  OrderInv'
<1>1. /\ TypeOK /\ IInv /\ putting[t] # <<>> /\ putting' = [putting EXCEPT ![t] = <<>>]
      /\ putting \in [Threads -> {<<>>} \cup (Scheds \X Items)]
      /\ UNCHANGED <<sched, migrating, mailbox, sent, handled, moved, stack>>
  BY DEF SInv, TypeOK, Put, actorVars, notes
<1>2. PICK q \in Scheds, v \in Items : putting[t][1] = q /\ putting[t][2] = v
  BY <1>1
<1>3. q \in Queues /\ v \in Values
  BY ItemsAssumption DEF Scheds
<1>4. Contents' = [Contents EXCEPT ![q] = Append(@, v)]
  BY <1>1, <1>2, <1>3, PutAppends DEF Put
<1>5. Contents \in [Scheds -> Seq(Values)]
  BY <1>1, TypeOfContents DEF TypeOK
<1>6. Contents'[q] = Append(Contents[q], v) /\ \A s \in Scheds : s # q => Contents'[s] = Contents[s]
  BY <1>4, <1>5
<1>7. \A s \in Scheds, n \in Events : Queued(s, n)' => Queued(s, n) \/ (s = q /\ v = EventItem(n))
  <2>1. Range(Contents'[q]) = Range(Contents[q]) \cup {v}
    BY <1>3, <1>5, <1>6, AppendOnce
  <2> QED
    BY <2>1, <1>6 DEF Queued
<1>8. /\ \A u \in Threads, n \in Events : Holds(u, n)' => Holds(u, n) /\ u # t /\ putting'[u] = putting[u]
      /\ \A n \in Events : v = EventItem(n) => Holds(t, n)
  BY <1>1, <1>2 DEF Holds
<1>9. LinesInOrder'
  <2> SUFFICES ASSUME NEW b \in Actors \ moved PROVE OwnLine(b)'
    BY <1>1 DEF LinesInOrder, OrderInv
  <2>1. AwayTo(b)' \subseteq AwayTo(b)
    BY <1>1, <1>7, <1>8 DEF AwayTo
  <2>2. GuardsOf(b)' \subseteq GuardsOf(b)
    BY <1>1 DEF GuardsOf
  <2> QED
    BY <2>1, <2>2, <1>1, OwnLineKept DEF LinesInOrder, OrderInv
<1>10. HandsInOrder'
  BY <1>1, <1>8, HandsKept DEF OrderInv
<1>11. ASSUME NEW n \in Events, Holds(t, n), ToStay(n)
       PROVE  /\ q = Home[sent[n].to] /\ q # t /\ Sends(t, sent[n].from)
  BY <1>2, <1>11 DEF OrderInv, HandsInOrder
<1>12. QueuesRanked'
  <2>1. \A s \in Scheds : Ranked(Contents[s], sent, moved)
    BY DEF OrderInv, QueuesRanked
  <2>2. \A n \in Events : v = EventItem(n) /\ n <= Len(sent) /\ sent[n].to \notin moved =>
          ActorItem(sent[n].from) \notin Range(Contents[q])
    BY <1>8, <1>11, SenderIsHere DEF ToStay
  <2>3. \A n, m \in Events :
          EventItem(n) \in Range(Contents[q]) /\ n <= Len(sent) /\ sent[n].to \notin moved =>
            (v = EventItem(m) /\ sent[m].to = sent[n].to => Follows(sent, n, m))
    BY <1>8 DEF OrderInv, QueuesBehind, ToStay, Queued
  <2>4. Ranked(Append(Contents[q], v), sent, moved)
    BY <2>1, <2>2, <2>3, <1>3, <1>5, RankedAppend
  <2> QED
    BY <2>1, <2>4, <1>1, <1>6 DEF QueuesRanked
<1>13. QueuesBehind'
  <2> SUFFICES ASSUME NEW s \in Scheds, NEW n \in Events, Queued(s, n)', ToStay(n)'
               PROVE  /\ s = Home[sent[n].to]
                      /\ \A u \in Threads, m \in Events :
                           Holds(u, m)' /\ sent[m].to = sent[n].to => Follows(sent, n, m)
                      /\ sent[n].from \in Actors /\ sched[sent[n].from] = s => migrating[sent[n].from]
    BY <1>1 DEF QueuesBehind
  <2>1. ToStay(n)
    BY <1>1 DEF ToStay
  <2>2. CASE Queued(s, n)
    BY <2>1, <2>2, <1>8 DEF OrderInv, QueuesBehind
  <2>3. CASE s = q /\ v = EventItem(n)
    <3>1. q = Home[sent[n].to] /\ q # t /\ Sends(t, sent[n].from)
      BY <2>1, <2>3, <1>8, <1>11
    <3>2. ASSUME NEW u \in Threads, NEW m \in Events, Holds(u, m)', sent[m].to = sent[n].to
          PROVE  Follows(sent, n, m)
      <4>1. Holds(u, m) /\ u # t
        BY <3>2, <1>8
      <4>2. m <= Len(sent)
        BY <4>1, KnownEvents, LenProperties DEF SInv, TypeOK
      <4>3. Sends(u, sent[m].from)
        BY <4>1, <4>2, <2>1, <3>2 DEF ToStay, OrderInv, HandsInOrder
      <4>4. sent[m].from # sent[n].from
        BY <4>1, <4>3, <3>1, SenderIsHere
      <4> QED
        BY <4>4 DEF Follows
    <3>3. sent[n].from \in Actors => sched[sent[n].from] # s
      BY <2>3, <3>1, SenderIsHere
    <3> QED
      BY <2>3, <3>1, <3>2, <3>3
  <2> QED
    BY <2>2, <2>3, <1>7
<1> QED
  BY <1>9, <1>10, <1>12, <1>13 DEF OrderInv

(* The event n for the actor a is new, or was just taken out of a queue,   *)
(* and is the next one for a.                                              *)
NextIn(t, n, a) ==
  /\ \A k \in Events : k <= Len(sent) => k <= Len(sent') /\ sent'[k] = sent[k]
  /\ \A k \in Events : k # n /\ k <= Len(sent') => k <= Len(sent)
  /\ n <= Len(sent') /\ sent'[n].to = a /\ handled' = handled /\ moved' = moved
  /\ \A s \in Scheds, k \in Events : Queued(s, k)' => Queued(s, k) /\ k # n
  /\ \A u \in Threads : ~Holds(u, n)
  /\ a \notin moved =>
       /\ Due(sent', handled[a], mailbox[a], GuardsOf(a), n)
       /\ sched[a] = t => \A w \in AwayTo(a) \ {n} : Follows(sent', n, w)
       /\ sched[a] # t => Sends(t, sent'[n].from)

LEMMA LineOfOthers ==
  ASSUME SInv, NEW t, NEW n \in Events, NEW a, NextIn(t, n, a),
         NEW b \in Actors, OwnLine(b), NEW W, W \subseteq AwayTo(b)
  PROVE  InLine(sent', handled[b], mailbox[b], GuardsOf(b), W)
<1>1. PICK N : N = 1..Len(sent)
  OBVIOUS
<1>2. /\ N \subseteq Events /\ handled[b] \in Seq(N) /\ mailbox[b] \in Seq(N)
      /\ GuardsOf(b) \subseteq Nat \X N /\ AwayTo(b) \subseteq N
  BY <1>1, KnownEvents
<1>3. \A k \in N : sent'[k] = sent[k]
  BY <1>1, <1>2 DEF NextIn
<1>4. PICK G : G = GuardsOf(b)
  OBVIOUS
<1>5. InLine(sent, handled[b], mailbox[b], G, W)
  BY <1>4, LineLess DEF OwnLine
<1>6. InLine(sent', handled[b], mailbox[b], G, W)
  BY <1>2, <1>3, <1>4, <1>5, LineSent
<1> QED
  BY <1>4, <1>6

LEMMA SendImplOrder ==
  ASSUME SInv, LinesInOrder, HandsInOrder, NEW t \in Threads, NEW n \in Events, NEW a \in Actors,
         NEW later \in BOOLEAN, NextIn(t, n, a), Free(t), SendImpl(t, a, n, later)
  PROVE  /\ LinesInOrder' /\ HandsInOrder' /\ UNCHANGED <<sched, migrating>>
         /\ \A u \in Threads, k \in Events :
              Holds(u, k)' => Holds(u, k) \/ (k = n /\ sched[a] # t)
<1>1. /\ TypeOK /\ putting[t] = <<>> /\ UNCHANGED <<sched, migrating>>
      /\ putting \in [Threads -> {<<>>} \cup (Scheds \X Items)]
      /\ stack \in [Scheds -> Seq(Guards)] /\ mailbox \in [Actors -> Seq(Events)]
  BY DEF SInv, TypeOK, Free, SendImpl, SendToScheduler, RunNow, AddToMailbox, actorVars
<1>2. \/ putting' = putting
      \/ /\ sched[a] # t /\ putting' = [putting EXCEPT ![t] = <<sched[a], EventItem(n)>>]
         /\ UNCHANGED <<mailbox, stack>> /\ a \in alive
  BY DEF SendImpl, SendToScheduler, RunNow, AddToMailbox, actorVars
<1>3. \A u \in Threads, k \in Events :
        Holds(u, k)' => (Holds(u, k) /\ k # n /\ u # t /\ putting'[u] = putting[u])
                        \/ (u = t /\ k = n /\ sched[a] # t /\ putting'[t] = <<sched[a], EventItem(n)>>
                              /\ UNCHANGED <<mailbox, stack>>)
  <2> SUFFICES ASSUME NEW u \in Threads, NEW k \in Events, Holds(u, k)'
               PROVE  (Holds(u, k) /\ k # n /\ u # t /\ putting'[u] = putting[u])
                      \/ (u = t /\ k = n /\ sched[a] # t /\ putting'[t] = <<sched[a], EventItem(n)>>
                            /\ UNCHANGED <<mailbox, stack>>)
    OBVIOUS
  <2>1. Holds(u, k) => k # n /\ u # t
    BY <1>1 DEF Holds, NextIn
  <2>2. CASE putting' = putting
    BY <2>1, <2>2 DEF Holds
  <2>3. CASE /\ sched[a] # t /\ putting' = [putting EXCEPT ![t] = <<sched[a], EventItem(n)>>]
             /\ UNCHANGED <<mailbox, stack>>
    <3>1. /\ putting'[t] = <<sched[a], EventItem(n)>>
          /\ \A x \in Threads : x # t => putting'[x] = putting[x]
      BY <2>3, <1>1
    <3>2. putting'[t][2] = EventItem(n)
      BY <3>1
    <3>3. u = t => k = n
      BY <3>2, ItemsDiffer DEF Holds
    <3> QED
      BY <2>1, <2>3, <3>1, <3>3 DEF Holds
  <2> QED
    BY <1>2, <2>2, <2>3
<1>4. HandsInOrder'
  <2> SUFFICES ASSUME NEW u \in Threads, NEW k \in Events, Holds(u, k)', ToStay(k)'
               PROVE  /\ putting'[u][1] = Home[sent'[k].to] /\ putting'[u][1] # u
                      /\ Sends(u, sent[k].from)'
    BY DEF HandsInOrder
  <2>1. CASE Holds(u, k) /\ k # n /\ u # t /\ putting'[u] = putting[u]
    <3>1. k <= Len(sent) /\ sent'[k] = sent[k] /\ ToStay(k)
      BY <2>1 DEF ToStay, NextIn
    <3>2. /\ putting[u][1] = Home[sent[k].to] /\ putting[u][1] # u
          /\ Sends(u, sent[k].from)
      BY <2>1, <3>1 DEF HandsInOrder
    <3>3. u \in Scheds => stack'[u] = stack[u]
      BY <2>1, <1>1 DEF SendImpl, SendToScheduler, RunNow, AddToMailbox, Pushed
    <3> QED
      BY <2>1, <3>1, <3>2, <3>3 DEF Sends, Top
  <2>2. CASE /\ u = t /\ k = n /\ sched[a] # t /\ putting'[t] = <<sched[a], EventItem(n)>>
             /\ UNCHANGED <<mailbox, stack>>
    <3>1. sent'[n].to = a /\ a \notin moved
      BY <2>2 DEF NextIn, ToStay
    <3>2. sched[a] = Home[a]
      BY <3>1 DEF LinesInOrder
    <3>3. Sends(t, sent'[n].from)
      BY <3>1, <2>2 DEF NextIn
    <3> QED
      BY <2>2, <3>1, <3>2, <3>3 DEF Sends, Top
  <2> QED
    BY <1>3, <2>1, <2>2
<1>5. \A b \in Actors : \A k \in AwayTo(b)' :
        \/ k \in AwayTo(b) \ {n}
        \/ k = n /\ b = a /\ sched[a] # t /\ UNCHANGED <<mailbox, stack>>
  <2> SUFFICES ASSUME NEW b \in Actors, NEW k \in AwayTo(b)'
               PROVE  \/ k \in AwayTo(b) \ {n}
                      \/ k = n /\ b = a /\ sched[a] # t /\ UNCHANGED <<mailbox, stack>>
    OBVIOUS
  <2>1. /\ k \in Events /\ k <= Len(sent') /\ sent'[k].to = b
        /\ (\E u \in Threads : Holds(u, k)') \/ (\E s \in Scheds : Queued(s, k)')
    BY DEF AwayTo
  <2>2. \/ k # n /\ ((\E u \in Threads : Holds(u, k)) \/ (\E s \in Scheds : Queued(s, k)))
        \/ k = n /\ sched[a] # t /\ UNCHANGED <<mailbox, stack>>
    <3>1. CASE \E u \in Threads : Holds(u, k)'
      BY <3>1, <2>1, <1>3
    <3>2. CASE \E s \in Scheds : Queued(s, k)'
      BY <3>2, <2>1 DEF NextIn
    <3> QED
      BY <3>1, <3>2, <2>1
  <2>3. k # n => k <= Len(sent) /\ sent[k].to = b
    BY <2>1 DEF NextIn
  <2>4. k = n => b = a
    BY <2>1 DEF NextIn
  <2> QED
    BY <2>1, <2>2, <2>3, <2>4 DEF AwayTo
<1>6. ASSUME NEW b \in Actors \ moved, b # a PROVE OwnLine(b)'
  <2>1. OwnLine(b)
    BY <1>6 DEF LinesInOrder
  <2>2. AwayTo(b)' \subseteq AwayTo(b)
    BY <1>5, <1>6
  <2>3. GuardsOf(b)' \subseteq GuardsOf(b)
    <3>1. CASE stack' = stack
      BY <3>1 DEF GuardsOf
    <3>2. CASE stack' # stack
      <4>1. stack' = Pushed(t, Guard(a, Len(mailbox[a]), n)) /\ t \in Scheds /\ Len(mailbox[a]) \in Nat
        <5>1. RunNow(t, a, n) /\ OnCurrentSched(t, a)
          BY <3>2 DEF SendImpl, SendToScheduler, AddToMailbox
        <5>2. sched[a] \in Scheds /\ Len(mailbox[a]) \in Nat
          BY <1>1, LenProperties DEF TypeOK
        <5> QED
          BY <5>1, <5>2 DEF RunNow, OnCurrentSched
      <4>2. \A r \in Scheds : \A i \in DOMAIN stack'[r] :
              \/ i \in DOMAIN stack[r] /\ stack'[r][i] = stack[r][i]
              \/ stack'[r][i] = Guard(a, Len(mailbox[a]), n)
        BY <4>1, <1>1, GuardPushed
      <4>3. Guard(a, Len(mailbox[a]), n).actor # b
        BY <1>6 DEF Guard
      <4> QED
        BY <4>2, <4>3, GuardsKept
    <3> QED
      BY <3>1, <3>2
  <2>4. mailbox'[b] = mailbox[b]
    BY <1>1, <1>6 DEF SendImpl, SendToScheduler, RunNow, AddToMailbox, actorVars
  <2>5. InLine(sent', handled[b], mailbox[b], GuardsOf(b), AwayTo(b)')
    BY <2>1, <2>2, LineOfOthers
  <2>6. InLine(sent', handled[b], mailbox[b], GuardsOf(b)', AwayTo(b)')
    BY <2>3, <2>5, LineLess
  <2> QED
    BY <2>4, <2>6 DEF OwnLine, NextIn
<1>7. ASSUME a \notin moved PROVE OwnLine(a)'
  <2>1. OwnLine(a) /\ ~migrating[a]
    BY <1>7 DEF LinesInOrder
  <2>2. PICK S, H, M, G, W, W2 :
          /\ S = sent' /\ H = handled[a] /\ M = mailbox[a] /\ G = GuardsOf(a)
          /\ W = AwayTo(a) \ {n} /\ W2 = AwayTo(a)'
    OBVIOUS
  <2>3. InLine(S, H, M, G, W)
    BY <2>1, <2>2, LineOfOthers
  <2>4. Due(S, H, M, G, n)
    BY <2>2, <1>7 DEF NextIn
  <2>5. M \in Seq(Events) /\ Len(M) \in Nat
    BY <2>2, <1>1, LenProperties
  <2>6. CASE UNCHANGED <<mailbox, stack>>
    <3>1. W2 \subseteq W \cup {n}
      BY <2>2, <1>5
    <3>2. InLine(S, H, M, G, W \cup {n})
      BY <2>3, <2>4, LineAway
    <3>3. InLine(S, H, M, G, W2)
      BY <3>1, <3>2, LineLess
    <3>4. GuardsOf(a)' = G
      BY <2>2, <2>6 DEF GuardsOf
    <3> QED
      BY <3>3, <3>4, <2>2, <2>6 DEF OwnLine, NextIn
  <2>7. CASE ~(UNCHANGED <<mailbox, stack>>)
    <3>1. W2 \subseteq W
      BY <2>2, <2>7, <1>5
    <3>2. /\ OnCurrentSched(t, a)
          /\ (RunNow(t, a, n) /\ ~IsRunning(a)) \/ AddToMailbox(a, n, later)
      BY <2>7 DEF SendImpl, SendToScheduler, actorVars
    <3>3. sched[a] = t /\ t \in Scheds
      BY <3>2, <1>1 DEF OnCurrentSched, TypeOK
    <3>4. \A w \in W : Follows(S, n, w)
      BY <2>2, <3>3, <1>7 DEF NextIn
    <3>5. CASE RunNow(t, a, n) /\ ~IsRunning(a)
      <4>1. mailbox' = mailbox /\ stack' = Pushed(t, Guard(a, Len(M), n))
        BY <2>2, <3>5 DEF RunNow, actorVars
      <4>2. \A r \in Scheds : \A i \in DOMAIN stack[r] : stack[r][i].actor # a
        BY <3>5 DEF IsRunning
      <4>3. G = {}
        BY <2>2, <4>2 DEF GuardsOf
      <4>4. \A r \in Scheds : \A i \in DOMAIN stack'[r] :
              \/ i \in DOMAIN stack[r] /\ stack'[r][i] = stack[r][i]
              \/ stack'[r][i] = Guard(a, Len(M), n)
        <5>1. PICK l \in Nat : l = Len(M)
          BY <2>5
        <5>2. stack' = Pushed(t, Guard(a, l, n)) /\ n \in Events \cup {0}
          BY <4>1, <5>1
        <5>3. \A r \in Scheds : \A i \in DOMAIN stack'[r] :
                \/ i \in DOMAIN stack[r] /\ stack'[r][i] = stack[r][i]
                \/ stack'[r][i] = Guard(a, l, n)
          BY <5>2, <3>3, <1>1, GuardPushed
        <5> QED
          BY <5>1, <5>3
      <4>5. Guard(a, Len(M), n).left = Len(M) /\ Guard(a, Len(M), n).extra = n
        BY DEF Guard
      <4>6. GuardsOf(a)' \subseteq {<<Len(M), n>>}
        <5> SUFFICES ASSUME NEW g \in GuardsOf(a)' PROVE g = <<Len(M), n>>
          OBVIOUS
        <5>1. g \in Nat \X Events
          BY DEF GuardsOf
        <5>2. g[1] = Len(M) /\ g[2] = n
          BY <4>2, <4>4, <4>5 DEF GuardsOf
        <5> QED
          BY <5>1, <5>2
      <4>7. InLine(S, H, M, {<<Len(M), n>>}, W)
        BY <2>3, <2>4, <2>5, <3>4, <4>3, LineRun
      <4>8. PICK G2 : G2 = GuardsOf(a)'
        OBVIOUS
      <4>9. InLine(S, H, M, G2, W2)
        BY <4>6, <4>7, <4>8, <3>1, LineLess
      <4> QED
        BY <4>1, <4>8, <4>9, <2>2 DEF OwnLine, NextIn
    <3>6. CASE AddToMailbox(a, n, later)
      <4>1. mailbox'[a] = Append(M, n) /\ stack' = stack
        BY <2>2, <3>6, <1>1 DEF AddToMailbox
      <4>2. \A g \in G : g[1] \in Nat /\ g[1] <= Len(M)
        <5> SUFFICES ASSUME NEW g \in G PROVE g[1] \in Nat /\ g[1] <= Len(M)
          OBVIOUS
        <5>1. g \in Nat \X Events
          BY <2>2 DEF GuardsOf
        <5>2. PICK s \in Scheds : \E k \in DOMAIN stack[s] :
                stack[s][k].actor = a /\ stack[s][k].left = g[1]
          BY <2>2 DEF GuardsOf
        <5>3. g[1] <= Len(mailbox[a])
          BY <5>2, <1>1 DEF TypeOK
        <5> QED
          BY <5>1, <5>3, <2>2
      <4>3. InLine(S, H, Append(M, n), G, W)
        BY <4>2, <2>3, <2>4, <2>5, <3>4, LineMail
      <4>4. InLine(S, H, Append(M, n), G, W2)
        BY <4>3, <3>1, LineLess
      <4>5. GuardsOf(a)' = G
        BY <4>1, <2>2 DEF GuardsOf
      <4> QED
        BY <4>1, <4>4, <4>5, <2>2 DEF OwnLine, NextIn
    <3> QED
      BY <3>2, <3>5, <3>6
  <2> QED
    BY <2>6, <2>7
<1>8. LinesInOrder'
  <2>1. moved' = moved
    BY DEF NextIn
  <2> QED
    BY <2>1, <1>1, <1>6, <1>7 DEF LinesInOrder
<1>9. \A u \in Threads, k \in Events : Holds(u, k)' => Holds(u, k) \/ (k = n /\ sched[a] # t)
  BY <1>3
<1> QED
  BY <1>1, <1>4, <1>8, <1>9

(* A new event: its number is greater than all, and if it is for the own   *)
(* thread, nothing of its sender is still on its way there.                *)
LEMMA SendOrder ==
  ASSUME SInv, OrderInv, NEW t \in Threads, Free(t), NEW from \in Actors \cup Clients,
         Sends(t, from), NEW a \in Actors, NEW later \in BOOLEAN, Send(t, from, a, later)
  PROVE  OrderInv'
<1> DEFINE m == [from |-> from, to |-> a]
<1>0. PICK n \in Nat : n = Len(sent) + 1
  BY LenProperties DEF SInv, TypeOK
<1>1. /\ sent \in Seq([from : Actors \cup Clients, to : Actors]) /\ Len(sent) < MaxEvents
      /\ sent' = Append(sent, m) /\ SendImpl(t, a, n, later)
      /\ UNCHANGED <<queueVars, handled, moved>> /\ putting[t] = <<>>
  BY <1>0 DEF SInv, TypeOK, Send, Free
<1>2. m \in [from : Actors \cup Clients, to : Actors] /\ m.to = a /\ m.from = from
  OBVIOUS
<1> HIDE DEF m
<1>3. /\ Len(sent') = Len(sent) + 1 /\ sent'[Len(sent) + 1] = m
      /\ \A i \in 1..Len(sent) : sent'[i] = sent[i] /\ Len(sent) \in Nat
      /\ Len(sent) \in Nat
  BY <1>1, <1>2, AppendProperties, LenProperties
<1>4. MaxEvents \in Nat
  BY SchedulerAssumption
<1>5. n \in Events /\ ~(n <= Len(sent))
  BY <1>0, <1>1, <1>3, <1>4 DEF Events
<1>6. PICK N : N = 1..Len(sent)
  OBVIOUS
<1>7. /\ N \subseteq Events
      /\ \A b \in Actors : /\ handled[b] \in Seq(N) /\ mailbox[b] \in Seq(N)
                           /\ GuardsOf(b) \subseteq Nat \X N /\ AwayTo(b) \subseteq N
      /\ \A s \in Scheds, k \in Events : Queued(s, k) => k \in N
      /\ \A u \in Threads, k \in Events : Holds(u, k) => k \in N
  BY <1>6, KnownEvents
<1>8. /\ n \notin N /\ \A k \in N : k < n /\ sent'[k] = sent[k]
      /\ \A k \in Events : k <= Len(sent) => k \in N
  BY <1>0, <1>3, <1>6 DEF Events
<1>9. UNCHANGED Contents
  BY <1>1, SameVectors DEF queueVars
<1>10. \A k \in N : Follows(sent', k, n)
  BY <1>8 DEF Follows
<1>11. ASSUME a \notin moved, sched[a] = t, NEW w \in AwayTo(a) PROVE Follows(sent', n, w)
  <2>1. /\ w \in Events /\ w <= Len(sent) /\ sent[w].to = a /\ w \in N
        /\ (\E u \in Threads : Holds(u, w)) \/ (\E s \in Scheds : Queued(s, w))
    BY <1>7, <1>11 DEF AwayTo
  <2>2. ToStay(w)
    BY <2>1, <1>11 DEF ToStay
  <2>3. sent[w].from # from
    <3>1. ASSUME NEW u \in Threads, Holds(u, w), sent[w].from = from PROVE FALSE
      <4>1. Sends(u, from)
        BY <2>1, <2>2, <3>1 DEF OrderInv, HandsInOrder
      <4>2. u = t
        BY <4>1, SenderIsHere
      <4> QED
        BY <4>2, <3>1, <1>1 DEF Holds
    <3>2. ASSUME NEW s \in Scheds, Queued(s, w), sent[w].from = from PROVE FALSE
      <4>1. s = Home[a] /\ (from \in Actors /\ sched[from] = s => migrating[from])
        BY <2>1, <2>2, <3>2 DEF OrderInv, QueuesBehind
      <4>2. s = t
        BY <4>1, <1>11 DEF OrderInv, LinesInOrder
      <4>3. stack[t] # <<>> /\ from = Top(t).actor
        BY <4>2 DEF Sends, Clients
      <4>4. from \in Actors
        BY <4>2, <4>3, TopIsAlone DEF SInv, Core
      <4> QED
        BY <4>1, <4>2, <4>4, SenderIsHere
    <3> QED
      BY <2>1, <3>1, <3>2
  <2>4. sent'[n].from = from /\ sent'[w] = sent[w]
    BY <2>1, <1>0, <1>2, <1>3, <1>8
  <2> QED
    BY <2>3, <2>4 DEF Follows
<1>12. Due(sent', handled[a], mailbox[a], GuardsOf(a), n)
  <2>1. /\ \A i \in 1..Len(handled[a]) : handled[a][i] \in N
        /\ \A i \in 1..Len(mailbox[a]) : mailbox[a][i] \in N
    BY <1>7, ElementOfSeq
  <2>2. \A g \in GuardsOf(a) : g[2] \in N
    BY <1>7
  <2> QED
    BY <2>1, <2>2, <1>10 DEF Due
<1>13. NextIn(t, n, a)
  <2>1. \A k \in Events : k <= Len(sent) => k <= Len(sent') /\ sent'[k] = sent[k]
    BY <1>3, <1>8 DEF Events
  <2>2. \A k \in Events : k # n /\ k <= Len(sent') => k <= Len(sent)
    BY <1>0, <1>3 DEF Events
  <2>3. n <= Len(sent') /\ sent'[n].to = a /\ sent'[n].from = from
    BY <1>0, <1>2, <1>3
  <2>4. \A s \in Scheds, k \in Events : Queued(s, k)' => Queued(s, k) /\ k # n
    BY <1>7, <1>8, <1>9 DEF Queued
  <2>5. \A u \in Threads : ~Holds(u, n)
    BY <1>5, <1>7, <1>8
  <2> QED
    BY <2>1, <2>2, <2>3, <2>4, <2>5, <1>1, <1>11, <1>12 DEF NextIn
<1>14. /\ LinesInOrder' /\ HandsInOrder' /\ UNCHANGED <<sched, migrating>>
       /\ \A u \in Threads, k \in Events : Holds(u, k)' => Holds(u, k) \/ k = n
  BY <1>1, <1>5, <1>13, SendImplOrder DEF OrderInv
<1>15. QueuesRanked'
  <2>1. \A s \in Scheds : Contents[s] \in Seq(Values)
    BY TypeOfContents DEF SInv, TypeOK
  <2>2. \A s \in Scheds, k \in Events : EventItem(k) \in Range(Contents[s]) =>
          k <= Len(sent) /\ sent'[k] = sent[k]
    <3>1. \A k \in N : k <= Len(sent)
      BY <1>6
    <3> QED
      BY <3>1, <1>7, <1>8 DEF Queued
  <2>3. \A s \in Scheds : Ranked(Contents[s], sent, moved)
    BY DEF OrderInv, QueuesRanked
  <2>4. \A s \in Scheds : Ranked(Contents[s], sent', moved)
    BY <2>1, <2>2, <2>3, RankedMore
  <2> QED
    BY <2>4, <1>1, <1>9 DEF QueuesRanked
<1>16. QueuesBehind'
  <2> SUFFICES ASSUME NEW s \in Scheds, NEW k \in Events, Queued(s, k)', ToStay(k)'
               PROVE  /\ s = Home[sent'[k].to]
                      /\ \A u \in Threads, l \in Events :
                           Holds(u, l)' /\ sent'[l].to = sent'[k].to => Follows(sent', k, l)
                      /\ sent'[k].from \in Actors /\ sched'[sent'[k].from] = s => migrating'[sent'[k].from]
    BY DEF QueuesBehind
  <2>1. Queued(s, k) /\ k \in N /\ sent'[k] = sent[k] /\ k <= Len(sent)
    BY <1>6, <1>7, <1>8, <1>9 DEF Queued
  <2>2. ToStay(k)
    BY <2>1, <1>1 DEF ToStay
  <2>3. /\ s = Home[sent[k].to]
        /\ \A u \in Threads, l \in Events :
             Holds(u, l) /\ sent[l].to = sent[k].to => Follows(sent, k, l)
        /\ sent[k].from \in Actors /\ sched[sent[k].from] = s => migrating[sent[k].from]
    BY <2>1, <2>2 DEF OrderInv, QueuesBehind
  <2>4. ASSUME NEW u \in Threads, NEW l \in Events, Holds(u, l)', sent'[l].to = sent'[k].to
        PROVE  Follows(sent', k, l)
    <3>1. CASE l = n
      BY <3>1, <2>1, <1>10
    <3>2. CASE Holds(u, l)
      <4>1. sent'[l] = sent[l]
        BY <3>2, <1>7, <1>8
      <4> QED
        BY <4>1, <2>1, <2>3, <2>4, <3>2 DEF Follows
    <3> QED
      BY <3>1, <3>2, <2>4, <1>14
  <2> QED
    BY <2>1, <2>3, <2>4, <1>14
<1> QED
  BY <1>14, <1>15, <1>16 DEF OrderInv

(* What a queue without its first item keeps, whoever becomes settled. *)
LEMMA GetOrder ==
  ASSUME SInv, OrderInv, NEW s \in Scheds, ReaderGet(s), NEW v, v = Head(reader_vector[s])
  PROVE  /\ Contents \in [Scheds -> Seq(Values)] /\ Contents[s] # <<>> /\ v = Head(Contents[s])
         /\ Contents' = [Contents EXCEPT ![s] = Tail(@)]
         /\ \A r \in Scheds : Ranked(Contents'[r], sent, moved)
         /\ \A r \in Scheds, n \in Events : Queued(r, n)' => Queued(r, n) /\ v # EventItem(n)
         /\ \A n \in Events : v = EventItem(n) /\ ToStay(n) =>
              \A k \in Events : Queued(s, k) /\ k # n /\ sent[k].to = sent[n].to => Follows(sent, n, k)
         /\ \A n \in Events : Queued(s, n) /\ ToStay(n) => v # ActorItem(sent[n].from)
<1>1. TypeOK /\ IInv /\ QueueTypeOK /\ NoRepeats
  BY DEF SInv, TypeOK, Core, EventsKept
<1>2. s \in Queues
  BY DEF Scheds
<1>3. Contents[s] # <<>> /\ Contents' = [Contents EXCEPT ![s] = Tail(@)]
  BY <1>1, <1>2, GetTakesFirst
<1>4. Contents \in [Scheds -> Seq(Values)]
  BY <1>1, TypeOfContents
<1>5. v = Head(Contents[s])
  <2>1. /\ reader_vector[s] \in Seq(Values) /\ writer_vector[s] \in Seq(Values)
        /\ reader_vector[s] # <<>>
    BY <1>1, <1>2 DEF QueueTypeOK, ReaderGet
  <2>2. Head(reader_vector[s]) = Head(reader_vector[s] \o writer_vector[s])
    BY <2>1, HeadOfFirst
  <2> QED
    BY <2>2, <1>2 DEF Contents
<1>6. Contents'[s] = Tail(Contents[s]) /\ \A r \in Scheds : r # s => Contents'[r] = Contents[r]
  BY <1>3, <1>4
<1>7. \A r \in Scheds : Ranked(Contents[r], sent, moved)
  BY DEF OrderInv, QueuesRanked
<1>8. PICK q \in Seq(Values) : q = Contents[s]
  BY <1>4
<1>9. /\ Ranked(Tail(q), sent, moved)
      /\ \A n \in Events : Head(q) = EventItem(n) /\ n <= Len(sent) /\ sent[n].to \notin moved =>
           \A k \in Events : EventItem(k) \in Range(Tail(q)) /\ sent[k].to = sent[n].to => Follows(sent, n, k)
      /\ \A n \in Events : EventItem(n) \in Range(q) /\ n <= Len(sent) /\ sent[n].to \notin moved =>
           Head(q) # ActorItem(sent[n].from)
  BY <1>3, <1>7, <1>8, RankedTail
<1>10. Range(Tail(q)) = Range(q) \ {v}
  BY <1>1, <1>3, <1>5, <1>8, TailOnce DEF NoRepeats
<1>11. \A r \in Scheds : Ranked(Contents'[r], sent, moved)
  BY <1>6, <1>7, <1>8, <1>9
<1>12. \A r \in Scheds, n \in Events : Queued(r, n)' => Queued(r, n) /\ v # EventItem(n)
  <2>1. \A r \in Scheds : v \notin Range(Contents'[r])
    BY ItemTaken
  <2>2. \A r \in Scheds : Range(Contents'[r]) \subseteq Range(Contents[r])
    BY ItemTaken
  <2> QED
    BY <2>1, <2>2 DEF Queued
<1>13. \A n \in Events : v = EventItem(n) /\ ToStay(n) =>
         \A k \in Events : Queued(s, k) /\ k # n /\ sent[k].to = sent[n].to => Follows(sent, n, k)
  <2> SUFFICES ASSUME NEW n \in Events, v = EventItem(n), ToStay(n),
                      NEW k \in Events, Queued(s, k), k # n, sent[k].to = sent[n].to
               PROVE  Follows(sent, n, k)
    OBVIOUS
  <2>1. EventItem(k) \in Range(Tail(q))
    BY <1>8, <1>10, ItemsDiffer DEF Queued
  <2> QED
    BY <2>1, <1>5, <1>8, <1>9 DEF ToStay
<1>14. \A n \in Events : Queued(s, n) /\ ToStay(n) => v # ActorItem(sent[n].from)
  BY <1>5, <1>8, <1>9 DEF ToStay, Queued
<1> QED
  BY <1>3, <1>4, <1>5, <1>11, <1>12, <1>13, <1>14

(* The ServiceActor sends an event again: it is the first on its way. *)
LEMMA ServiceEventOrder ==
  ASSUME SInv, OrderInv, NEW s \in Scheds, Idle(s), ReaderGet(s), UNCHANGED notes,
         NEW n \in Events, EventItem(n) = Head(reader_vector[s]),
         NEW a, a = sent[n].to, SendImpl(s, a, n, FALSE)
  PROVE  OrderInv'
<1>1. PICK v : v = EventItem(n)
  OBVIOUS
<1>2. /\ sent' = sent /\ handled' = handled /\ moved' = moved /\ s \in Threads /\ Free(s)
  BY QueueAssumption DEF notes, Idle, Scheds
<1>3. /\ \A r \in Scheds : Ranked(Contents'[r], sent, moved)
      /\ \A r \in Scheds, k \in Events : Queued(r, k)' => Queued(r, k) /\ v # EventItem(k)
      /\ \A k \in Events : ToStay(n) =>
           (Queued(s, k) /\ k # n /\ sent[k].to = sent[n].to => Follows(sent, n, k))
  BY <1>1, GetOrder
<1>4. Queued(s, n) /\ InHands(v) = {}
  BY <1>1, ItemTaken DEF Queued
<1>5. PICK N : N = 1..Len(sent)
  OBVIOUS
<1>6. n \in N /\ n <= Len(sent)
  BY <1>4, <1>5, KnownEvents
<1>7. a \in Actors
  <2>1. sent[n] \in [from : Actors \cup Clients, to : Actors]
    BY <1>5, <1>6, ElementOfSeq DEF SInv, TypeOK
  <2> QED
    BY <2>1
<1>8. \A u \in Threads : ~Holds(u, n)
  BY <1>1, <1>4, WayIs DEF Holds
<1>9. a \notin moved => ToStay(n) /\ s = Home[a] /\ sched[a] = s
  BY <1>4, <1>6, <1>7 DEF ToStay, OrderInv, QueuesBehind, LinesInOrder
<1>10. ASSUME a \notin moved PROVE Due(sent, handled[a], mailbox[a], GuardsOf(a), n)
  <2>1. n \in AwayTo(a) /\ OwnLine(a)
    BY <1>4, <1>6, <1>7, <1>10 DEF AwayTo, OrderInv, LinesInOrder
  <2> QED
    BY <2>1 DEF OwnLine, InLine, Due
<1>11. ASSUME a \notin moved, NEW w \in AwayTo(a) \ {n} PROVE Follows(sent, n, w)
  <2>1. /\ w \in Events /\ w <= Len(sent) /\ sent[w].to = a /\ w # n
        /\ (\E u \in Threads : Holds(u, w)) \/ (\E r \in Scheds : Queued(r, w))
    BY <1>11 DEF AwayTo
  <2>2. CASE \E u \in Threads : Holds(u, w)
    BY <2>1, <2>2, <1>4, <1>9, <1>11 DEF OrderInv, QueuesBehind
  <2>3. ASSUME NEW r \in Scheds, Queued(r, w) PROVE Follows(sent, n, w)
    <3>1. r = s
      BY <2>1, <2>3, <1>9, <1>11 DEF ToStay, OrderInv, QueuesBehind
    <3> QED
      BY <2>1, <2>3, <3>1, <1>3, <1>9, <1>11
  <2> QED
    BY <2>1, <2>2, <2>3
<1>12. NextIn(s, n, a)
  <2>1. \A r \in Scheds, k \in Events : Queued(r, k)' => Queued(r, k) /\ k # n
    BY <1>1, <1>3
  <2> QED
    BY <2>1, <1>2, <1>6, <1>8, <1>9, <1>10, <1>11 DEF NextIn
<1>13. /\ LinesInOrder' /\ HandsInOrder' /\ UNCHANGED <<sched, migrating>>
       /\ \A u \in Threads, k \in Events :
            Holds(u, k)' => Holds(u, k) \/ (k = n /\ sched[a] # s)
  BY <1>2, <1>7, <1>12, SendImplOrder DEF OrderInv
<1>14. QueuesRanked'
  BY <1>2, <1>3 DEF QueuesRanked
<1>15. QueuesBehind'
  <2> SUFFICES ASSUME NEW r \in Scheds, NEW k \in Events, Queued(r, k)', ToStay(k)'
               PROVE  /\ r = Home[sent[k].to]
                      /\ \A u \in Threads, l \in Events :
                           Holds(u, l)' /\ sent[l].to = sent[k].to => Follows(sent, k, l)
                      /\ sent[k].from \in Actors /\ sched[sent[k].from] = r => migrating[sent[k].from]
    BY <1>2, <1>13 DEF QueuesBehind
  <2>1. Queued(r, k) /\ ToStay(k)
    BY <1>2, <1>3 DEF ToStay
  <2>2. \A u \in Threads, l \in Events : Holds(u, l)' /\ sent[l].to = sent[k].to => Holds(u, l)
    BY <2>1, <1>9, <1>13 DEF ToStay
  <2> QED
    BY <2>1, <2>2 DEF OrderInv, QueuesBehind
<1> QED
  BY <1>13, <1>14, <1>15 DEF OrderInv

(* register_migrated_actor: whatever the actor sent to this thread before  *)
(* is out of its queue.                                                    *)
LEMMA RegisterOrder ==
  ASSUME SInv, OrderInv, NEW s \in Scheds, Idle(s), ReaderGet(s), UNCHANGED notes,
         NEW a \in Actors, ActorItem(a) = Head(reader_vector[s]), RegisterMigratedActor(s, a)
  PROVE  OrderInv'
<1>1. /\ sent' = sent /\ handled' = handled /\ moved' = moved /\ TypeOK /\ OnTheMove
      /\ UNCHANGED <<sched, stack, putting>> /\ migrating' = [migrating EXCEPT ![a] = FALSE]
      /\ migrating \in [Actors -> BOOLEAN] /\ mailbox \in [Actors -> Seq(Events)]
  BY DEF SInv, TypeOK, Core, RegisterMigratedActor, notes
<1>2. \A b \in Actors : b # a => mailbox'[b] = mailbox[b] /\ migrating'[b] = migrating[b]
  BY <1>1 DEF RegisterMigratedActor
<1>3. PICK v : v = ActorItem(a)
  OBVIOUS
<1>4. /\ \A r \in Scheds : Ranked(Contents'[r], sent, moved)
      /\ \A r \in Scheds, k \in Events : Queued(r, k)' => Queued(r, k)
      /\ \A k \in Events : Queued(s, k) /\ ToStay(k) => v # ActorItem(sent[k].from)
  BY <1>3, GetOrder
<1>5. sched[a] = s /\ migrating[a]
  <2>1. v \in Range(Contents[s]) /\ Way(v) # {}
    BY <1>3, ItemTaken
  <2> QED
    BY <2>1, <1>1, <1>3 DEF OnTheMove
<1>6. a \in moved
  BY <1>5 DEF OrderInv, LinesInOrder
<1>7. \A t \in Threads, k \in Events : Holds(t, k)' =>
           /\ Holds(t, k) /\ putting'[t] = putting[t]
           /\ t \in Scheds => stack'[t] = stack[t]
  BY <1>1 DEF Holds
<1>8. HandsInOrder'
  BY <1>1, <1>7, HandsKept DEF OrderInv
<1>9. LinesInOrder'
  <2> SUFFICES ASSUME NEW b \in Actors \ moved
               PROVE  sched'[b] = Home[b] /\ ~migrating'[b] /\ OwnLine(b)'
    BY <1>1 DEF LinesInOrder
  <2>1. b # a
    BY <1>6
  <2>2. sched[b] = Home[b] /\ ~migrating[b] /\ OwnLine(b)
    BY DEF OrderInv, LinesInOrder
  <2>3. AwayTo(b)' \subseteq AwayTo(b)
    BY <1>1, <1>4, <1>7, AwayKept
  <2>4. GuardsOf(b)' \subseteq GuardsOf(b)
    BY <1>1 DEF GuardsOf
  <2>5. OwnLine(b)'
    BY <2>1, <2>2, <2>3, <2>4, <1>1, <1>2, OwnLineKept
  <2> QED
    BY <2>1, <2>2, <2>5, <1>1, <1>2
<1>10. QueuesRanked'
  BY <1>1, <1>4 DEF QueuesRanked
<1>11. QueuesBehind'
  <2> SUFFICES ASSUME NEW r \in Scheds, NEW k \in Events, Queued(r, k)', ToStay(k)'
               PROVE  /\ r = Home[sent[k].to]
                      /\ \A u \in Threads, l \in Events :
                           Holds(u, l)' /\ sent[l].to = sent[k].to => Follows(sent, k, l)
                      /\ sent[k].from \in Actors /\ sched[sent[k].from] = r => migrating'[sent[k].from]
    BY <1>1 DEF QueuesBehind
  <2>1. Queued(r, k) /\ ToStay(k)
    BY <1>1, <1>4 DEF ToStay
  <2>2. /\ r = Home[sent[k].to]
        /\ \A u \in Threads, l \in Events :
             Holds(u, l) /\ sent[l].to = sent[k].to => Follows(sent, k, l)
        /\ sent[k].from \in Actors /\ sched[sent[k].from] = r => migrating[sent[k].from]
    BY <2>1 DEF OrderInv, QueuesBehind
  <2>3. PICK f : f = sent[k].from
    OBVIOUS
  <2>4. f = a => r # s
    BY <2>1, <2>3, <1>3, <1>4
  <2>5. f \in Actors /\ sched[f] = r => migrating'[f]
    BY <2>2, <2>3, <2>4, <1>2, <1>5
  <2> QED
    BY <2>2, <2>3, <2>5, <1>7
<1> QED
  BY <1>8, <1>9, <1>10, <1>11 DEF OrderInv
-----------------------------------------------------------------------------
LEMMA NextOrder == SInv /\ SInv' /\ OrderInv /\ [Next]_vars => OrderInv'
<1> SUFFICES ASSUME SInv, SInv', OrderInv, [Next]_vars PROVE OrderInv'
  OBVIOUS
<1>1. TypeOK /\ ActorsAtHome
  BY DEF SInv, Core
<1>2. ASSUME NEW t \in Threads, Put(t) PROVE OrderInv'
  BY <1>2, PutOrder
<1>3. ASSUME NEW t \in Threads, Release(t) PROVE OrderInv'
  <2>1. UNCHANGED Contents
    BY <1>3, SameVectors DEF Release, WriterRelease
  <2>2. UNCHANGED <<sched, migrating, mailbox, sent, handled, moved, stack, putting>>
    BY <1>3 DEF Release, actorVars, notes
  <2> QED
    BY <2>1, <2>2, QuietOrder
<1>4. ASSUME NEW c \in Clients, NEW a \in Actors, ClientSend(c, a) PROVE OrderInv'
  <2>1. c \in Threads /\ c \in Actors \cup Clients /\ FALSE \in BOOLEAN /\ Sends(c, c)
    BY DEF Clients, Sends
  <2>2. Free(c) /\ Send(c, c, a, FALSE)
    BY <1>4 DEF ClientSend
  <2> QED
    BY <2>1, <2>2, SendOrder
<1>5. ASSUME NEW s \in Scheds, SchedulerStep(s) PROVE OrderInv'
  <2>1. ASSUME NEW a \in Actors, NEW later \in BOOLEAN, HandlerSend(s, a, later)
        PROVE  OrderInv'
    <3>1. Free(s) /\ stack[s] # <<>> /\ s \in Threads
      BY <2>1, QueueAssumption DEF HandlerSend, Busy, Scheds
    <3>2. PICK from \in Actors \cup Clients : from = Top(s).actor
      BY <3>1, <1>1, TopIsAlone
    <3>3. Send(s, from, a, later) /\ Sends(s, from)
      BY <2>1, <3>1, <3>2 DEF HandlerSend, Sends
    <3> QED
      BY <3>1, <3>3, SendOrder
  <2>2. CASE (\E d \in Scheds : HandlerMigrate(s, d)) \/ HandlerStop(s) \/ HandlerReturn(s)
    BY <2>2, HandlerOrder
  <2>3. CASE DoEvent(s)
    BY <2>3, DoEventOrder
  <2>4. CASE LeaveGuard(s)
    BY <2>4, LeaveGuardOrder
  <2>5. ASSUME NEW a \in Actors, RunMailbox(s, a) PROVE OrderInv'
    BY <2>5, RunMailboxOrder
  <2>6. CASE RunService(s) \/ GoOnService(s) \/ Poll(s)
    BY <2>6, QueueStepsOrder
  <2>7. CASE ServiceItem(s)
    <3>1. PICK item : item = Head(reader_vector[s])
      OBVIOUS
    <3>2. /\ Idle(s) /\ ReaderGet(s) /\ UNCHANGED notes
          /\ \/ item[1] = "actor" /\ RegisterMigratedActor(s, item[2])
             \/ item[1] = "event" /\ SendImpl(s, sent[item[2]].to, item[2], FALSE)
      BY <2>7, <3>1 DEF ServiceItem
    <3>3. item \in Items
      BY <3>1, <3>2, ItemTaken
    <3>4. ASSUME NEW n \in Events, item = EventItem(n) PROVE OrderInv'
      <4>1. item[1] = "event" /\ item[2] = n
        BY <3>4 DEF EventItem
      <4>2. PICK a : a = sent[n].to
        OBVIOUS
      <4>3. SendImpl(s, a, n, FALSE)
        BY <4>1, <4>2, <3>2
      <4> QED
        BY <4>2, <4>3, <3>1, <3>2, <3>4, ServiceEventOrder
    <3>5. ASSUME NEW a \in Actors, item = ActorItem(a) PROVE OrderInv'
      <4>1. item[1] = "actor" /\ item[2] = a
        BY <3>5 DEF ActorItem
      <4>2. RegisterMigratedActor(s, a)
        BY <4>1, <3>2
      <4> QED
        BY <4>2, <3>1, <3>2, <3>5, RegisterOrder
    <3> QED
      BY <3>3, <3>4, <3>5 DEF Items
  <2> QED
    BY <1>5, <2>1, <2>2, <2>3, <2>4, <2>5, <2>6, <2>7 DEF SchedulerStep
<1>6. CASE UNCHANGED vars
  <2>1. UNCHANGED Contents
    BY <1>6, SameVectors DEF vars, queueVars
  <2>2. UNCHANGED <<sched, migrating, mailbox, sent, handled, moved, stack, putting>>
    BY <1>6 DEF vars, actorVars, notes
  <2> QED
    BY <2>1, <2>2, QuietOrder
<1> QED
  BY <1>2, <1>3, <1>4, <1>5, <1>6 DEF Next

(* At first an actor has its Start event, and nothing is on its way. *)
LEMMA InitOrder == Init => OrderInv
<1> SUFFICES ASSUME Init PROVE OrderInv
  OBVIOUS
<1>1. SInv
  BY InitSInv
<1>2. /\ putting = [t \in Threads |-> <<>>] /\ stack = [s \in Scheds |-> <<>>] /\ sched = Home
      /\ handled = [a \in Actors |-> <<>>] /\ migrating = [a \in Actors |-> FALSE]
  BY DEF Init
<1>3. \A t \in Threads, n \in Events : ~Holds(t, n)
  BY <1>2 DEF Holds
<1>4. \A s \in Scheds : Contents[s] = <<>>
  <2>1. \A s \in Queues : reader_vector[s] = <<>> /\ writer_vector[s] = <<>>
    BY DEF Init, QueueInit
  <2>2. <<>> \o <<>> = <<>>
    OBVIOUS
  <2> QED
    BY <2>1, <2>2 DEF Contents, Scheds
<1>5. \A s \in Scheds, n \in Events : ~Queued(s, n)
  BY <1>4, EmptyQueue DEF Queued
<1>6. QueuesRanked
  <2>1. \A i \in 1..Len(<<>>) : FALSE
    OBVIOUS
  <2> QED
    BY <2>1, <1>4 DEF QueuesRanked, Ranked
<1>7. HandsInOrder /\ QueuesBehind
  BY <1>3, <1>5 DEF HandsInOrder, QueuesBehind
<1>8. ASSUME NEW a \in Actors PROVE OwnLine(a)
  <2>1. GuardsOf(a) = {}
    <3>1. \A s \in Scheds : \A k \in DOMAIN stack[s] : FALSE
      BY <1>2
    <3> QED
      BY <3>1 DEF GuardsOf
  <2>2. AwayTo(a) = {}
    BY <1>3, <1>5 DEF AwayTo
  <2>3. handled[a] = <<>>
    BY <1>2
  <2>4. PICK n : mailbox[a] = <<n>>
    BY DEF Init
  <2>5. \A i \in 1..Len(<<>>) : FALSE
    OBVIOUS
  <2>6. \A i, j \in 1..Len(<<n>>) : ~(i < j)
    OBVIOUS
  <2>7. Increasing(sent, <<>>) /\ Increasing(sent, <<n>>)
    BY <2>5, <2>6 DEF Increasing
  <2>8. InLine(sent, <<>>, <<n>>, {}, {})
    BY <2>5, <2>7 DEF InLine
  <2> QED
    BY <2>1, <2>2, <2>3, <2>4, <2>8 DEF OwnLine
<1>9. LinesInOrder
  BY <1>2, <1>8 DEF LinesInOrder
<1> QED
  BY <1>6, <1>7, <1>9 DEF OrderInv

(***************************************************************************)
(* The events of one sender to an actor that has not migrated are handled  *)
(* in the order in which they were sent: send_impl, run_mailbox,           *)
(* flush_mailbox and the inbound queues keep it, for any number of         *)
(* schedulers, threads, actors and events, over every mixture of immediate *)
(* and later sends, and while the sender migrates.                         *)
(***************************************************************************)
THEOREM OrderIsKept == Spec => []SenderOrder
<1>1. SInv /\ OrderInv => SenderOrder
  <2> SUFFICES ASSUME SInv, OrderInv, NEW a \in Actors \ moved,
                      NEW i \in DOMAIN handled[a], NEW j \in DOMAIN handled[a], i < j,
                      sent[handled[a][i]].from = sent[handled[a][j]].from
               PROVE  handled[a][i] < handled[a][j]
    BY DEF SenderOrder
  <2>1. handled[a] \in Seq(Events)
    BY DEF SInv, TypeOK
  <2>2. DOMAIN handled[a] = 1..Len(handled[a])
    BY <2>1, LenProperties, Zenon
  <2>3. Increasing(sent, handled[a])
    BY DEF OrderInv, LinesInOrder, OwnLine, InLine
  <2> QED
    BY <2>2, <2>3 DEF Increasing, Follows
<1>2. Init => OrderInv
  BY InitOrder
<1>3. SInv /\ SInv' /\ OrderInv /\ [Next]_vars => OrderInv'
  BY NextOrder
<1> QED
  BY <1>1, <1>2, <1>3, AlwaysSInv, PTL DEF Spec
=============================================================================
