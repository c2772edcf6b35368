----------------------- MODULE ConcurrentBinlog_proofs -----------------------
(***************************************************************************)
(* Proofs about ConcurrentBinlog, for any set of clients and any number of *)
(* events and calls: no request is forgotten, and no promise is answered   *)
(* before the events it speaks for are synced.                             *)
(***************************************************************************)
EXTENDS ConcurrentBinlog, WellFoundedInduction, SequenceTheorems, TLAPS

(* A non-empty set of natural numbers has a least element. *)
LEMMA LeastNat ==
  ASSUME NEW T \in SUBSET Nat, T # {}
  PROVE  \E x \in T : \A y \in T : x <= y
<1>1. IsWellFoundedOn({ss \in Nat \X Nat : ss[1] < ss[2]}, Nat)
  BY NatLessThanWellFounded, Zenon DEF OpToRel
<1>2. PICK R : /\ IsWellFoundedOn(R, Nat)
               /\ \A x, y \in Nat : y < x => <<y, x>> \in R
  <2>1. \A x, y \in Nat : y < x => <<y, x>> \in {ss \in Nat \X Nat : ss[1] < ss[2]}
    OBVIOUS
  <2> QED
    BY <1>1, <2>1, Zenon
<1>3. PICK x \in T : \A y \in T : ~(<<y, x>> \in R)
  BY <1>2, WFMin
<1>4. ASSUME NEW y \in T
      PROVE  x <= y
  <2>1. ~(y < x)
    BY <1>2, <1>3, Zenon
  <2> QED
    BY <2>1
<1> QED
  BY <1>4
-----------------------------------------------------------------------------
MaybePromises == Promises \cup {NoPromise}

AddMessage == [type : {"add"}, seq_no : SeqNos, raw : BOOLEAN, promise : MaybePromises]
SyncMessage == [type : {"force_sync"}, promise : MaybePromises]
OtherMessage == [type : {"force_flush", "change_key", "close", "close_and_destroy"}]
Message == AddMessage \cup SyncMessage \cup OtherMessage

(* The messages, the events held back and the histories. *)
MessagesOK ==
  /\ channel \in [Clients -> Seq(Message)]
  /\ \A n \in DOMAIN held : held[n] \in AddMessage
  /\ \A p \in DOMAIN covers : covers[p] \subseteq SeqNos
  /\ forced \in Nat /\ others \in Nat

(* A number that a client took or sent is used by nobody else, and the     *)
(* sequencer has not seen it.                                              *)
TakenFresh ==
  \A c \in Clients : taken[c] # 0 =>
    /\ begin <= taken[c] /\ taken[c] < last_id /\ taken[c] \notin DOMAIN held
    /\ \A d \in Clients : taken[d] = taken[c] => d = c

SentFresh ==
  \A c \in Clients : \A i \in 1..Len(channel[c]) : channel[c][i].type = "add" =>
    /\ begin <= channel[c][i].seq_no /\ channel[c][i].seq_no < last_id
    /\ channel[c][i].seq_no \notin DOMAIN held
    /\ \A d \in Clients : taken[d] # channel[c][i].seq_no

SentOnce ==
  \A c, d \in Clients : \A i \in 1..Len(channel[c]), j \in 1..Len(channel[d]) :
    /\ channel[c][i].type = "add" /\ channel[d][j].type = "add"
    /\ channel[c][i].seq_no = channel[d][j].seq_no
    => c = d /\ i = j

NumbersOnce == end <= last_id /\ TakenFresh /\ SentFresh /\ SentOnce

(* What a promise covers is written down when it is sent, and not again.   *)
PromiseFresh ==
  /\ \A n \in SeqNos : EventPromise(n) \in DOMAIN covers =>
       n < last_id /\ \A c \in Clients : taken[c] # n
  /\ \A n \in 1..MaxForce : SyncPromise(n) \in DOMAIN covers => n <= forced

HeldInCovers ==
  /\ \A c \in Clients : \A i \in 1..Len(channel[c]) :
       channel[c][i].type \in {"add", "force_sync"} =>
         channel[c][i].promise \in DOMAIN covers \cup {NoPromise}
  /\ \A n \in DOMAIN held : held[n].promise \in DOMAIN covers \cup {NoPromise}
  /\ \A x \in immediate : x[2] \in DOMAIN covers \cup {NoPromise}
  /\ waiting \subseteq DOMAIN covers
  /\ DOMAIN answer \subseteq DOMAIN covers

PromisesOnce == PromiseFresh /\ HeldInCovers

(* the event n has reached the actor *)
Arrived(n) == n \in log \/ (n \in DOMAIN held /\ held[n].raw)

(* the event n is among the first i messages of client c *)
OnItsWay(c, i, n) ==
  \E j \in 1..i : /\ channel[c][j].type = "add"
                  /\ channel[c][j].seq_no = n /\ channel[c][j].raw

(* What a client has sent arrives in the order in which it was sent.       *)
CallsOrdered ==
  \A c \in Clients : \A n \in calls[c] : n < last_id /\ (taken[c] # 0 => n < taken[c])

CallsArrived ==
  ~closed => \A c \in Clients : \A n \in calls[c] :
    Arrived(n) \/ OnItsWay(c, Len(channel[c]), n)

CallsArrive == CallsOrdered /\ CallsArrived

(* A promise follows the events it speaks for: behind them in the channel, *)
(* behind them in the sequencer, and when it waits for a sync they are in  *)
(* the log.                                                                *)
SentBefore ==
  \A c \in Clients : \A i \in 1..Len(channel[c]) :
    LET m == channel[c][i]
    IN m.type \in {"add", "force_sync"} /\ m.promise # NoPromise =>
         \A n \in covers[m.promise] :
           /\ Arrived(n) \/ OnItsWay(c, i, n)
           /\ m.type = "add" => n <= m.seq_no

HeldBehind ==
  \A k \in DOMAIN held : held[k].promise # NoPromise =>
    \A n \in covers[held[k].promise] : Arrived(n) /\ n <= k

ForcedBehind ==
  \A x \in immediate : x[2] # NoPromise =>
    \A n \in covers[x[2]] : Arrived(n) /\ n <= x[1]

WaitingIsLogged == \A p \in waiting : covers[p] \subseteq log

CoversArrive == ~closed => SentBefore /\ HeldBehind /\ ForcedBehind /\ WaitingIsLogged

(* A flag that is set has its timeout. *)
FlagsArmed == force_sync_flag \/ lazy_sync_flag \/ flush_flag => armed

IInv ==
  /\ TypeOK /\ MessagesOK /\ NumbersOnce /\ PromisesOnce /\ CallsArrive /\ CoversArrive
  /\ FlagsArmed /\ NothingForgotten /\ AnsweredIsSynced
-----------------------------------------------------------------------------
(* What sending and receiving a message do to the channels. *)
LEMMA Sending ==
  ASSUME NEW ch \in [Clients -> Seq(Message)], NEW c \in Clients, NEW m \in Message,
         NEW ch2, ch2 = [ch EXCEPT ![c] = Append(@, m)]
  PROVE  /\ ch2 \in [Clients -> Seq(Message)]
         /\ Len(ch2[c]) = Len(ch[c]) + 1 /\ ch2[c][Len(ch[c]) + 1] = m
         /\ \A i \in 1..Len(ch[c]) : ch2[c][i] = ch[c][i]
         /\ \A d \in Clients \ {c} : ch2[d] = ch[d]
<1>1. /\ Append(ch[c], m) \in Seq(Message)
      /\ Len(Append(ch[c], m)) = Len(ch[c]) + 1
      /\ Append(ch[c], m)[Len(ch[c]) + 1] = m
      /\ \A i \in 1..Len(ch[c]) : Append(ch[c], m)[i] = ch[c][i]
  BY AppendProperties
<1>2. ch2[c] = Append(ch[c], m) /\ \A d \in Clients \ {c} : ch2[d] = ch[d]
  OBVIOUS
<1> QED
  BY <1>1, <1>2

LEMMA Receiving ==
  ASSUME NEW ch \in [Clients -> Seq(Message)], NEW c \in Clients, ch[c] # <<>>,
         NEW ch2, ch2 = [ch EXCEPT ![c] = Tail(@)]
  PROVE  /\ ch2 \in [Clients -> Seq(Message)]
         /\ Len(ch[c]) \in Nat \ {0} /\ Len(ch2[c]) = Len(ch[c]) - 1
         /\ Head(ch[c]) = ch[c][1] /\ ch[c][1] \in Message
         /\ \A i \in 1..Len(ch2[c]) : ch2[c][i] = ch[c][i + 1]
         /\ \A d \in Clients \ {c} : ch2[d] = ch[d]
<1>1. /\ Tail(ch[c]) \in Seq(Message)
      /\ Len(Tail(ch[c])) = Len(ch[c]) - 1
      /\ Len(ch[c]) \in Nat \ {0}
      /\ Head(ch[c]) = ch[c][1] /\ ch[c][1] \in Message
      /\ \A i \in 1..Len(Tail(ch[c])) : Tail(ch[c])[i] = ch[c][i + 1]
  BY HeadTailProperties
<1>2. ch2[c] = Tail(ch[c]) /\ \A d \in Clients \ {c} : ch2[d] = ch[d]
  OBVIOUS
<1> QED
  BY <1>1, <1>2

(* The fields of a message in a channel. *)
LEMMA MessageFields ==
  ASSUME MessagesOK
  PROVE  \A c \in Clients : \A i \in 1..Len(channel[c]) :
           /\ channel[c][i].type = "add" => channel[c][i] \in AddMessage
           /\ channel[c][i].type = "force_sync" => channel[c][i] \in SyncMessage
<1> SUFFICES ASSUME NEW c \in Clients, NEW i \in 1..Len(channel[c])
             PROVE  /\ channel[c][i].type = "add" => channel[c][i] \in AddMessage
                    /\ channel[c][i].type = "force_sync" => channel[c][i] \in SyncMessage
  OBVIOUS
<1>1. channel[c] \in Seq(Message)
  BY DEF MessagesOK
<1>2. channel[c][i] \in Message
  BY <1>1, ElementOfSeq
<1> QED
  BY <1>2 DEF Message, AddMessage, SyncMessage, OtherMessage

(* A number is a natural number. *)
LEMMA NumberFields ==
  ASSUME MessagesOK
  PROVE  \A c \in Clients : \A i \in 1..Len(channel[c]) :
           channel[c][i].type = "add" => channel[c][i].seq_no \in SeqNos
  BY MessageFields DEF AddMessage
-----------------------------------------------------------------------------
LEMMA InitInv == Init => IInv
<1> SUFFICES ASSUME Init PROVE IInv
  OBVIOUS
<1> USE ConcurrentBinlogAssumption DEF Init
<1>1. TypeOK
  <2>1. /\ taken \in [Clients -> SeqNos \cup {0}] /\ calls \in [Clients -> SUBSET SeqNos]
        /\ DOMAIN held = {} /\ DOMAIN answer = {} /\ since \in {"none", "new", "old"}
        /\ FirstSeqNo \in FirstSeqNo .. LastSeqNo + 1
    OBVIOUS
  <2>2. /\ last_id \in FirstSeqNo .. LastSeqNo + 1
        /\ begin \in FirstSeqNo .. LastSeqNo + 1 /\ end \in begin .. LastSeqNo + 1
        /\ written \in FirstSeqNo .. begin /\ synced \in FirstSeqNo .. written
    BY <2>1
  <2> QED
    BY <2>1, <2>2 DEF TypeOK
<1>2. MessagesOK
  BY DEF MessagesOK
<1>3. NumbersOnce
  BY DEF NumbersOnce, TakenFresh, SentFresh, SentOnce
<1>4. PromisesOnce
  BY DEF PromisesOnce, PromiseFresh, HeldInCovers
<1>5. CallsArrive /\ CoversArrive
  BY DEF CallsArrive, CallsOrdered, CallsArrived, CoversArrive, SentBefore, HeldBehind,
         ForcedBehind, WaitingIsLogged
<1>6. FlagsArmed /\ NothingForgotten /\ AnsweredIsSynced
  BY DEF FlagsArmed, NothingForgotten, AnsweredIsSynced, Unwritten
<1> QED
  BY <1>1, <1>2, <1>3, <1>4, <1>5, <1>6 DEF IInv

(* next_id() takes a number that nobody has. *)
LEMMA NextIdKeeps ==
  ASSUME IInv, NEW c \in Clients, NextId(c)
  PROVE  IInv'
<1> USE ConcurrentBinlogAssumption DEF IInv, NextId, actorVars, binlogVars, flags
<1>0. /\ last_id \in Nat /\ last_id > 0 /\ last_id' = last_id + 1 /\ taken \in [Clients -> Nat]
      /\ \A d \in Clients : taken'[d] = IF d = c THEN last_id ELSE taken[d]
      /\ channel' = channel /\ held' = held /\ begin' = begin /\ end' = end /\ begin \in Nat
      /\ end \in Nat /\ begin <= end /\ end <= last_id
      /\ \A n \in DOMAIN held : n < last_id
  BY DEF TypeOK, SeqNos, NumbersOnce
<1>1. TypeOK'
  <2>1. last_id' \in FirstSeqNo .. LastSeqNo + 1 /\ taken' \in [Clients -> SeqNos \cup {0}]
    BY DEF TypeOK, SeqNos
  <2> QED
    BY <2>1 DEF TypeOK
<1>2. MessagesOK'
  BY DEF MessagesOK
<1>3. NumbersOnce'
  <2>1. TakenFresh'
    <3>1. \A d \in Clients : taken[d] # last_id
      BY <1>0 DEF NumbersOnce, TakenFresh
    <3> QED
      BY <1>0, <3>1 DEF NumbersOnce, TakenFresh
  <2>2. SentFresh'
    <3>1. \A d \in Clients : \A i \in 1..Len(channel[d]) :
            channel[d][i].type = "add" => channel[d][i].seq_no \in Nat
      BY NumberFields DEF SeqNos
    <3> QED
      BY <1>0, <3>1 DEF NumbersOnce, SentFresh
  <2>3. SentOnce'
    <3>1. SentOnce /\ channel' = channel
      BY <1>0 DEF NumbersOnce
    <3> QED
      BY <3>1 DEF SentOnce
  <2> QED
    BY <1>0, <2>1, <2>2, <2>3 DEF NumbersOnce
<1>4. PromisesOnce'
  BY DEF PromisesOnce, PromiseFresh, HeldInCovers, TypeOK, SeqNos
<1>5. CallsArrive'
  <2>1. \A d \in Clients : calls'[d] = calls[d] /\ calls[d] \subseteq Nat
    BY DEF TypeOK, SeqNos
  <2>2. CallsOrdered'
    BY <1>0, <2>1 DEF CallsArrive, CallsOrdered
  <2>3. CallsArrived'
    BY DEF CallsArrive, CallsArrived, Arrived, OnItsWay
  <2> QED
    BY <2>2, <2>3 DEF CallsArrive
<1>6. CoversArrive'
  BY DEF CoversArrive, SentBefore, HeldBehind, ForcedBehind, WaitingIsLogged, Arrived, OnItsWay
<1>7. FlagsArmed' /\ NothingForgotten' /\ AnsweredIsSynced'
  BY DEF FlagsArmed, NothingForgotten, AnsweredIsSynced, Unwritten
<1> QED
  BY <1>1, <1>2, <1>3, <1>4, <1>5, <1>6, <1>7
-----------------------------------------------------------------------------
(* A client sends m; what a promise covers is not changed, and the promise *)
(* of m covers what its client has sent.                                   *)
LEMMA SentKeeps ==
  ASSUME IInv, NEW c \in Clients, NEW m \in Message,
         channel' = [channel EXCEPT ![c] = Append(@, m)], UNCHANGED actorVars,
         \A q \in DOMAIN covers : q \in DOMAIN covers' /\ covers'[q] = covers[q],
         \A d \in Clients \ {c} : calls'[d] = calls[d],
         \A k \in calls'[c] : k \in calls[c] \/ (m.type = "add" /\ m.raw /\ m.seq_no = k),
         m.type \in {"add", "force_sync"} =>
           /\ m.promise \in DOMAIN covers' \cup {NoPromise}
           /\ m.promise # NoPromise =>
                /\ covers'[m.promise] \subseteq calls'[c]
                /\ m.type = "add" => \A n \in covers'[m.promise] : n <= m.seq_no
  PROVE  /\ HeldInCovers' /\ CallsArrived' /\ CoversArrive'
         /\ FlagsArmed' /\ NothingForgotten' /\ AnsweredIsSynced'
<1> DEFINE l == Len(channel[c])
<1>1. /\ l \in Nat /\ Len(channel'[c]) = l + 1 /\ channel'[c][l + 1] = m
      /\ \A i \in 1..l : channel'[c][i] = channel[c][i]
      /\ \A d \in Clients \ {c} : channel'[d] = channel[d]
      /\ \A d \in Clients : Len(channel[d]) \in Nat
  BY Sending, LenProperties DEF IInv, MessagesOK
<1> HIDE DEF l
<1>2. \A k : Arrived(k)' <=> Arrived(k)
  BY DEF Arrived, actorVars, binlogVars
<1>3. \A d \in Clients : \A i \in 1..Len(channel[d]) :
        channel'[d][i] = channel[d][i] /\ i \in 1..Len(channel'[d])
  BY <1>1 DEF l
<1>4. \A d \in Clients : \A i \in 1..Len(channel[d]) : \A k :
        OnItsWay(d, i, k) => OnItsWay(d, i, k)'
  <2> SUFFICES ASSUME NEW d \in Clients, NEW i \in 1..Len(channel[d]), NEW k, OnItsWay(d, i, k)
               PROVE  OnItsWay(d, i, k)'
    OBVIOUS
  <2>1. PICK j \in 1..i : channel[d][j].type = "add" /\ channel[d][j].seq_no = k /\ channel[d][j].raw
    BY DEF OnItsWay
  <2>2. j \in 1..Len(channel[d])
    BY <1>1
  <2> QED
    BY <2>1, <2>2, <1>3 DEF OnItsWay
<1>5. CallsArrived'
  <2> SUFFICES ASSUME ~closed, NEW d \in Clients, NEW k \in calls'[d]
               PROVE  Arrived(k)' \/ OnItsWay(d, Len(channel[d]), k)'
    BY DEF CallsArrived, actorVars
  <2>1. CASE k \in calls[d]
    <3>1. Arrived(k) \/ OnItsWay(d, Len(channel[d]), k)
      BY <2>1 DEF IInv, CallsArrive, CallsArrived
    <3>2. CASE Arrived(k)
      BY <3>2, <1>2
    <3>3. CASE OnItsWay(d, Len(channel[d]), k)
      <4>1. PICK j \in 1..Len(channel[d]) : channel[d][j].type = "add" /\ channel[d][j].seq_no = k /\ channel[d][j].raw
        BY <3>3 DEF OnItsWay
      <4> QED
        BY <4>1, <1>3 DEF OnItsWay
    <3> QED
      BY <3>1, <3>2, <3>3
  <2>2. CASE k \notin calls[d]
    <3>1. d = c /\ m.type = "add" /\ m.raw /\ m.seq_no = k
      BY <2>2
    <3>2. l + 1 \in 1..Len(channel'[c])
      BY <1>1
    <3> QED
      BY <3>1, <3>2, <1>1 DEF OnItsWay
  <2> QED
    BY <2>1, <2>2
<1>6. HeldInCovers'
  <2>1. \A d \in Clients : \A i \in 1..Len(channel'[d]) :
       channel'[d][i].type \in {"add", "force_sync"} =>
         channel'[d][i].promise \in DOMAIN covers' \cup {NoPromise}
    BY <1>1 DEF IInv, PromisesOnce, HeldInCovers, l
  <2> QED
    BY <2>1 DEF IInv, PromisesOnce, HeldInCovers, actorVars
<1>7. CoversArrive'
  <2> SUFFICES ASSUME ~closed
               PROVE  SentBefore' /\ HeldBehind' /\ ForcedBehind' /\ WaitingIsLogged'
    BY DEF CoversArrive, actorVars
  <2>0. HeldInCovers
    BY DEF IInv, PromisesOnce
  <2>1. SentBefore'
    <3> SUFFICES ASSUME NEW d \in Clients, NEW i \in 1..Len(channel'[d]),
                        channel'[d][i].type \in {"add", "force_sync"},
                        channel'[d][i].promise # NoPromise,
                        NEW n \in covers'[channel'[d][i].promise]
                 PROVE  /\ Arrived(n)' \/ OnItsWay(d, i, n)'
                        /\ channel'[d][i].type = "add" => n <= channel'[d][i].seq_no
      BY DEF SentBefore
    <3>1. CASE i \in 1..Len(channel[d])
      <4>1. channel'[d][i] = channel[d][i]
        BY <3>1, <1>3
      <4>2. n \in covers[channel[d][i].promise]
        BY <3>1, <4>1, <2>0 DEF HeldInCovers
      <4>3. /\ Arrived(n) \/ OnItsWay(d, i, n)
            /\ channel[d][i].type = "add" => n <= channel[d][i].seq_no
        BY <3>1, <4>1, <4>2 DEF IInv, CoversArrive, SentBefore
      <4> QED
        BY <3>1, <4>1, <4>3, <1>2, <1>4
    <3>2. CASE i \notin 1..Len(channel[d])
      <4>1. d = c /\ i = l + 1 /\ channel'[d][i] = m
        BY <3>2, <1>1 DEF l
      <4>2. n \in calls'[c]
        BY <4>1
      <4>3. Arrived(n)' \/ OnItsWay(c, Len(channel[c]), n)'
        BY <4>2, <1>5 DEF CallsArrived, actorVars
      <4> QED
        BY <4>1, <4>3, <1>1
    <3> QED
      BY <3>1, <3>2
  <2>2. HeldBehind'
    BY <2>0, <1>2 DEF IInv, CoversArrive, HeldBehind, actorVars, HeldInCovers
  <2>3. ForcedBehind'
    BY <2>0, <1>2 DEF IInv, CoversArrive, ForcedBehind, actorVars, HeldInCovers
  <2>4. WaitingIsLogged'
    BY <2>0 DEF IInv, CoversArrive, WaitingIsLogged, actorVars, binlogVars, HeldInCovers
  <2> QED
    BY <2>1, <2>2, <2>3, <2>4
<1>8. FlagsArmed' /\ NothingForgotten'
  BY DEF IInv, FlagsArmed, NothingForgotten, actorVars, flags, binlogVars, Unwritten
<1>9. AnsweredIsSynced'
  BY DEF IInv, AnsweredIsSynced, PromisesOnce, HeldInCovers, actorVars, binlogVars
<1> QED
  BY <1>5, <1>6, <1>7, <1>8, <1>9

(* add_raw_event and lazy_sync, the client's side. *)
LEMMA SendAddKeeps ==
  ASSUME IInv, NEW c \in Clients, NEW raw \in BOOLEAN, NEW wants \in BOOLEAN,
         SendAdd(c, raw, wants)
  PROVE  IInv'
<1> DEFINE n == taken[c]
           p == IF wants THEN EventPromise(n) ELSE NoPromise
           m == [type |-> "add", seq_no |-> n, raw |-> raw, promise |-> p]
<1>0. /\ n # 0 /\ channel' = [channel EXCEPT ![c] = Append(@, m)]
      /\ taken' = [taken EXCEPT ![c] = 0]
      /\ calls' = [calls EXCEPT ![c] = IF raw THEN @ \cup {n} ELSE @]
      /\ IF wants THEN Covering(p, calls'[c]) ELSE UNCHANGED covers
      /\ UNCHANGED <<last_id, forced, others, closing, actorVars>>
  BY DEF SendAdd
<1>1. /\ n \in SeqNos /\ n \in Nat /\ last_id' = last_id /\ last_id \in Nat
      /\ \A d \in Clients : taken'[d] = IF d = c THEN 0 ELSE taken[d]
      /\ \A d \in Clients \ {c} : calls'[d] = calls[d]
      /\ calls'[c] = IF raw THEN calls[c] \cup {n} ELSE calls[c]
      /\ \A d \in Clients : calls[d] \subseteq SeqNos
      /\ taken \in [Clients -> SeqNos \cup {0}] /\ taken' \in [Clients -> SeqNos \cup {0}]
      /\ 0 \notin SeqNos
      /\ begin <= n /\ n < last_id /\ n \notin DOMAIN held
      /\ \A d \in Clients : taken[d] = n => d = c
      /\ begin' = begin /\ end' = end /\ held' = held
  BY <1>0, ConcurrentBinlogAssumption
     DEF IInv, TypeOK, NumbersOnce, TakenFresh, SeqNos, actorVars
<1>2. calls' \in [Clients -> SUBSET SeqNos]
  BY <1>0, <1>1 DEF IInv, TypeOK
<1>3. p \in MaybePromises /\ (p # NoPromise => wants /\ p = EventPromise(n) /\ p \in Promises)
  BY <1>1 DEF MaybePromises, Promises
<1>4. m \in AddMessage /\ m \in Message
  BY <1>1, <1>3 DEF AddMessage, Message
<1>5. /\ m.type = "add" /\ m.seq_no = n /\ m.raw = raw /\ m.promise = p
  OBVIOUS
<1>6. EventPromise(n) \notin DOMAIN covers
  BY <1>1 DEF IInv, PromisesOnce, PromiseFresh
<1>7. /\ \A q \in DOMAIN covers : q \in DOMAIN covers' /\ covers'[q] = covers[q]
      /\ DOMAIN covers' \subseteq DOMAIN covers \cup {EventPromise(n)}
      /\ p # NoPromise => p \in DOMAIN covers' /\ covers'[p] = calls'[c]
      /\ \A q \in DOMAIN covers' : covers'[q] \subseteq SeqNos
  <2>1. CASE wants
    <3>1. covers' = [q \in DOMAIN covers \cup {p} |-> IF q = p THEN calls'[c] ELSE covers[q]]
      BY <1>0, <2>1 DEF Covering
    <3>2. p = EventPromise(n)
      BY <2>1
    <3> QED
      BY <3>1, <3>2, <1>1, <1>2, <1>6 DEF IInv, MessagesOK
  <2>2. CASE ~wants
    BY <1>0, <1>3, <2>2 DEF IInv, MessagesOK
  <2> QED
    BY <2>1, <2>2
<1>8. \A k \in calls'[c] : k <= n
  <2>1. \A k \in calls[c] : k < n /\ k \in Nat
    BY <1>1, ConcurrentBinlogAssumption DEF IInv, CallsArrive, CallsOrdered, SeqNos
  <2> QED
    BY <2>1, <1>1
<1> HIDE DEF n, p, m
<1>9. /\ HeldInCovers' /\ CallsArrived' /\ CoversArrive'
      /\ FlagsArmed' /\ NothingForgotten' /\ AnsweredIsSynced'
  <2>1. UNCHANGED actorVars
    BY <1>0
  <2>2. \A k \in calls'[c] : k \in calls[c] \/ (m.type = "add" /\ m.raw /\ m.seq_no = k)
    BY <1>1, <1>5
  <2>3. m.type \in {"add", "force_sync"} =>
           /\ m.promise \in DOMAIN covers' \cup {NoPromise}
           /\ m.promise # NoPromise =>
                /\ covers'[m.promise] \subseteq calls'[c]
                /\ m.type = "add" => \A k \in covers'[m.promise] : k <= m.seq_no
    BY <1>5, <1>7, <1>8
  <2> QED
    BY <2>1, <2>2, <2>3, <1>0, <1>1, <1>4, <1>7, SentKeeps, Zenon
<1>10. TypeOK'
  BY <1>0, <1>1, <1>2 DEF IInv, TypeOK, actorVars, binlogVars, flags
<1>11. MessagesOK'
  BY <1>0, <1>4, <1>7, Sending DEF IInv, MessagesOK, actorVars
<1>12. NumbersOnce'
  <2>1. /\ Len(channel[c]) \in Nat /\ Len(channel'[c]) = Len(channel[c]) + 1
        /\ channel'[c][Len(channel[c]) + 1] = m
        /\ \A i \in 1..Len(channel[c]) : channel'[c][i] = channel[c][i]
        /\ \A d \in Clients \ {c} : channel'[d] = channel[d]
    BY <1>0, <1>4, Sending, LenProperties DEF IInv, MessagesOK
  <2>2. \A d \in Clients : \A i \in 1..Len(channel'[d]) :
          \/ i \in 1..Len(channel[d]) /\ channel'[d][i] = channel[d][i]
          \/ d = c /\ i = Len(channel[c]) + 1 /\ channel'[d][i] = m
    BY <2>1
  <2>3. \A d \in Clients : \A i \in 1..Len(channel[d]) :
          channel[d][i].type = "add" => channel[d][i].seq_no \in SeqNos
    BY NumberFields DEF IInv
  <2>4. TakenFresh'
    BY <1>1 DEF IInv, NumbersOnce, TakenFresh
  <2>5. SentFresh'
    <3> SUFFICES ASSUME NEW d \in Clients, NEW i \in 1..Len(channel'[d]),
                        channel'[d][i].type = "add"
                 PROVE  /\ begin' <= channel'[d][i].seq_no /\ channel'[d][i].seq_no < last_id'
                        /\ channel'[d][i].seq_no \notin DOMAIN held'
                        /\ \A e \in Clients : taken'[e] # channel'[d][i].seq_no
      BY DEF SentFresh
    <3>1. CASE i \in 1..Len(channel[d]) /\ channel'[d][i] = channel[d][i]
      BY <3>1, <2>3, <1>1 DEF IInv, NumbersOnce, SentFresh
    <3>2. CASE d = c /\ i = Len(channel[c]) + 1 /\ channel'[d][i] = m
      BY <3>2, <1>1, <1>5
    <3> QED
      BY <3>1, <3>2, <2>2
  <2>6. SentOnce'
    <3>1. \A d \in Clients : \A i \in 1..Len(channel[d]) :
            channel[d][i].type = "add" => channel[d][i].seq_no # n
      BY <1>1 DEF IInv, NumbersOnce, SentFresh, n
    <3> SUFFICES ASSUME NEW d \in Clients, NEW e \in Clients, NEW i \in 1..Len(channel'[d]),
                        NEW j \in 1..Len(channel'[e]), channel'[d][i].type = "add",
                        channel'[e][j].type = "add",
                        channel'[d][i].seq_no = channel'[e][j].seq_no
                 PROVE  d = e /\ i = j
      BY DEF SentOnce
    <3>2. CASE /\ i \in 1..Len(channel[d]) /\ channel'[d][i] = channel[d][i]
               /\ j \in 1..Len(channel[e]) /\ channel'[e][j] = channel[e][j]
      BY <3>2 DEF IInv, NumbersOnce, SentOnce
    <3> QED
      BY <3>1, <3>2, <2>2, <1>5, SMTT(30)
  <2> QED
    BY <2>4, <2>5, <2>6, <1>1 DEF IInv, NumbersOnce
<1>13. PromiseFresh'
  <2>1. forced' = forced
    BY <1>0
  <2>2. \A k \in SeqNos : EventPromise(k) = EventPromise(n) => k = n
    BY DEF EventPromise
  <2>3. \A k \in 1..MaxForce : SyncPromise(k) # EventPromise(n)
    BY DEF EventPromise, SyncPromise
  <2> QED
    BY <2>1, <2>2, <2>3, <1>1, <1>7 DEF IInv, PromisesOnce, PromiseFresh
<1>14. CallsOrdered'
  BY <1>1 DEF IInv, CallsArrive, CallsOrdered
<1> QED
  BY <1>9, <1>10, <1>11, <1>12, <1>13, <1>14 DEF IInv, PromisesOnce, CallsArrive

(* A client sends a message without a number: the parts that are about     *)
(* numbers are as before.                                                  *)
LEMMA SentWithoutNumber ==
  ASSUME IInv, NEW c \in Clients, NEW m \in Message, m.type # "add",
         channel' = [channel EXCEPT ![c] = Append(@, m)], UNCHANGED actorVars,
         UNCHANGED <<last_id, taken, calls>>
  PROVE  TypeOK' /\ NumbersOnce' /\ CallsOrdered' /\ channel' \in [Clients -> Seq(Message)]
<1>1. /\ Len(channel[c]) \in Nat /\ Len(channel'[c]) = Len(channel[c]) + 1
      /\ channel'[c][Len(channel[c]) + 1] = m
      /\ \A i \in 1..Len(channel[c]) : channel'[c][i] = channel[c][i]
      /\ \A d \in Clients \ {c} : channel'[d] = channel[d]
      /\ channel' \in [Clients -> Seq(Message)]
  BY Sending, LenProperties DEF IInv, MessagesOK
<1>2. \A d \in Clients : \A i \in 1..Len(channel'[d]) :
        channel'[d][i].type = "add" => i \in 1..Len(channel[d]) /\ channel'[d][i] = channel[d][i]
  BY <1>1
<1>3. TypeOK'
  BY DEF IInv, TypeOK, actorVars, binlogVars, flags
<1>4. TakenFresh' /\ CallsOrdered'
  BY DEF IInv, NumbersOnce, TakenFresh, CallsArrive, CallsOrdered, actorVars
<1>5. SentFresh'
  BY <1>2 DEF IInv, NumbersOnce, SentFresh, actorVars
<1>6. SentOnce'
  BY <1>2 DEF IInv, NumbersOnce, SentOnce
<1> QED
  BY <1>1, <1>3, <1>4, <1>5, <1>6 DEF IInv, NumbersOnce, actorVars

LEMMA SendForceSyncKeeps ==
  ASSUME IInv, NEW c \in Clients, NEW wants \in BOOLEAN, SendForceSync(c, wants)
  PROVE  IInv'
<1> DEFINE p == IF wants THEN SyncPromise(forced + 1) ELSE NoPromise
           m == [type |-> "force_sync", promise |-> p]
<1>0. /\ channel' = [channel EXCEPT ![c] = Append(@, m)]
      /\ IF wants THEN Covering(p, calls[c]) ELSE UNCHANGED covers
      /\ forced' = forced + 1 /\ forced < MaxForce /\ forced \in Nat /\ MaxForce \in Nat
      /\ UNCHANGED <<last_id, taken, calls, others, closing, actorVars>>
  BY ConcurrentBinlogAssumption DEF SendForceSync, IInv, MessagesOK
<1>1. p \in MaybePromises /\ (p # NoPromise => wants /\ p = SyncPromise(forced + 1))
  BY <1>0 DEF MaybePromises, Promises
<1>2. m \in Message /\ m.type = "force_sync" /\ m.promise = p
  BY <1>1 DEF SyncMessage, Message
<1>3. SyncPromise(forced + 1) \notin DOMAIN covers
  BY <1>0 DEF IInv, PromisesOnce, PromiseFresh
<1>4. \A d \in Clients : calls'[d] = calls[d] /\ calls[d] \subseteq SeqNos
  BY <1>0 DEF IInv, TypeOK
<1>5. /\ \A q \in DOMAIN covers : q \in DOMAIN covers' /\ covers'[q] = covers[q]
      /\ DOMAIN covers' \subseteq DOMAIN covers \cup {SyncPromise(forced + 1)}
      /\ p # NoPromise => p \in DOMAIN covers' /\ covers'[p] = calls[c]
      /\ \A q \in DOMAIN covers' : covers'[q] \subseteq SeqNos
  <2>1. CASE wants
    <3>1. covers' = [q \in DOMAIN covers \cup {p} |-> IF q = p THEN calls[c] ELSE covers[q]]
      BY <1>0, <2>1 DEF Covering
    <3>2. p = SyncPromise(forced + 1)
      BY <2>1
    <3> QED
      BY <3>1, <3>2, <1>3, <1>4 DEF IInv, MessagesOK
  <2>2. CASE ~wants
    BY <1>0, <1>1, <2>2 DEF IInv, MessagesOK
  <2> QED
    BY <2>1, <2>2
<1> HIDE DEF p, m
<1>6. /\ HeldInCovers' /\ CallsArrived' /\ CoversArrive'
      /\ FlagsArmed' /\ NothingForgotten' /\ AnsweredIsSynced'
  <2>1. UNCHANGED actorVars
    BY <1>0
  <2>2. \A k \in calls'[c] : k \in calls[c] \/ (m.type = "add" /\ m.raw /\ m.seq_no = k)
    BY <1>4
  <2>3. m.type \in {"add", "force_sync"} =>
           /\ m.promise \in DOMAIN covers' \cup {NoPromise}
           /\ m.promise # NoPromise =>
                /\ covers'[m.promise] \subseteq calls'[c]
                /\ m.type = "add" => \A k \in covers'[m.promise] : k <= m.seq_no
    BY <1>2, <1>4, <1>5
  <2>4. \A d \in Clients \ {c} : calls'[d] = calls[d]
    BY <1>4
  <2> QED
    BY <2>1, <2>2, <2>3, <2>4, <1>0, <1>2, <1>5, SentKeeps, Zenon
<1>7. TypeOK' /\ NumbersOnce' /\ CallsOrdered' /\ channel' \in [Clients -> Seq(Message)]
  BY <1>0, <1>2, SentWithoutNumber
<1>8. MessagesOK'
  BY <1>0, <1>5, <1>7 DEF IInv, MessagesOK, actorVars
<1>9. PromiseFresh'
  <2>1. \A k \in SeqNos : EventPromise(k) # SyncPromise(forced + 1)
    BY DEF EventPromise, SyncPromise
  <2>2. \A k \in 1..MaxForce : SyncPromise(k) = SyncPromise(forced + 1) => k = forced + 1
    BY DEF SyncPromise
  <2> QED
    BY <2>1, <2>2, <1>0, <1>5 DEF IInv, PromisesOnce, PromiseFresh
<1> QED
  BY <1>6, <1>7, <1>8, <1>9 DEF IInv, PromisesOnce, CallsArrive

(* force_flush, change_key, close and close_and_destroy, the client's side. *)
LEMMA SendPlainKeeps ==
  ASSUME IInv, NEW c \in Clients,
         NEW type \in {"force_flush", "change_key", "close", "close_and_destroy"},
         channel' = [channel EXCEPT ![c] = Append(@, [type |-> type])],
         others' \in Nat, UNCHANGED <<last_id, taken, calls, forced, covers, actorVars>>
  PROVE  IInv'
<1> DEFINE m == [type |-> type]
<1>1. m \in Message /\ m.type \notin {"add", "force_sync"}
  BY DEF OtherMessage, Message
<1>2. /\ \A d \in Clients : calls'[d] = calls[d]
      /\ \A q \in DOMAIN covers : q \in DOMAIN covers' /\ covers'[q] = covers[q]
      /\ channel' = [channel EXCEPT ![c] = Append(@, m)] /\ UNCHANGED actorVars
  OBVIOUS
<1> HIDE DEF m
<1>3. /\ HeldInCovers' /\ CallsArrived' /\ CoversArrive'
      /\ FlagsArmed' /\ NothingForgotten' /\ AnsweredIsSynced'
  BY <1>1, <1>2, SentKeeps
<1>4. TypeOK' /\ NumbersOnce' /\ CallsOrdered' /\ channel' \in [Clients -> Seq(Message)]
  BY <1>1, <1>2, SentWithoutNumber
<1>5. MessagesOK' /\ PromiseFresh'
  BY <1>4 DEF IInv, MessagesOK, PromisesOnce, PromiseFresh, actorVars
<1> QED
  BY <1>3, <1>4, <1>5 DEF IInv, PromisesOnce, CallsArrive

LEMMA SendOtherKeeps ==
  ASSUME IInv, NEW c \in Clients, NEW type \in {"force_flush", "change_key"},
         SendOther(c, type)
  PROVE  IInv'
<1>1. others' \in Nat
  BY DEF SendOther, IInv, MessagesOK
<1> QED
  BY <1>1, SendPlainKeeps DEF SendOther

LEMMA SendCloseKeeps ==
  ASSUME IInv, NEW c \in Clients, NEW type \in {"close", "close_and_destroy"},
         SendClose(c, type)
  PROVE  IInv'
<1>1. others' \in Nat
  BY DEF SendClose, IInv, MessagesOK
<1> QED
  BY <1>1, SendPlainKeeps DEF SendClose
-----------------------------------------------------------------------------
(* the next message of client c is an event with the number k *)
Brings(c, k) == Head(channel[c]).type = "add" /\ Head(channel[c]).seq_no = k

(* the next message of client c is taken out of its channel *)
Received(c) == channel[c] # <<>> /\ channel' = [channel EXCEPT ![c] = Tail(@)]

(* The messages left in the channels are the ones that were there. *)
LEMMA LeftInChannel ==
  ASSUME IInv, NEW c \in Clients, Received(c)
  PROVE  /\ channel' \in [Clients -> Seq(Message)]
         /\ Head(channel[c]) = channel[c][1] /\ Head(channel[c]) \in Message
         /\ 1 \in 1..Len(channel[c]) /\ Len(channel[c]) \in Nat
         /\ Len(channel'[c]) = Len(channel[c]) - 1
         /\ \A i \in 1..Len(channel'[c]) :
              i + 1 \in 1..Len(channel[c]) /\ channel'[c][i] = channel[c][i + 1]
         /\ \A d \in Clients \ {c} : channel'[d] = channel[d]
  BY Receiving DEF IInv, MessagesOK, Received

LEMMA Behind ==
  ASSUME NEW a \in Nat, NEW b \in Nat, NEW k \in Nat, a <= k, k \notin a .. b - 1
  PROVE  b <= k
  OBVIOUS

LEMMA SentOnceKeeps ==
  ASSUME SentOnce, NEW c \in Clients,
         \A d \in Clients : \A i \in 1..Len(channel'[d]) :
           \E j \in 1..Len(channel[d]) : channel'[d][i] = channel[d][j] /\ (d = c => j = i + 1)
                                         /\ (d # c => j = i)
  PROVE  SentOnce'
<1> SUFFICES ASSUME NEW d \in Clients, NEW e \in Clients, NEW i \in 1..Len(channel'[d]),
                    NEW j \in 1..Len(channel'[e]), channel'[d][i].type = "add",
                    channel'[e][j].type = "add",
                    channel'[d][i].seq_no = channel'[e][j].seq_no
             PROVE  d = e /\ i = j
  BY DEF SentOnce
<1>1. PICK i0 \in 1..Len(channel[d]) :
        channel'[d][i] = channel[d][i0] /\ (d = c => i0 = i + 1) /\ (d # c => i0 = i)
  OBVIOUS
<1>2. PICK j0 \in 1..Len(channel[e]) :
        channel'[e][j] = channel[e][j0] /\ (e = c => j0 = j + 1) /\ (e # c => j0 = j)
  OBVIOUS
<1>3. d = e /\ i0 = j0
  BY <1>1, <1>2 DEF SentOnce
<1> QED
  BY <1>1, <1>2, <1>3

(* Receiving a message, whether the sequencer holds its event back or not. *)
LEMMA ReceivedKeeps ==
  ASSUME IInv, NEW c \in Clients, Received(c), UNCHANGED <<clientVars, covers>>,
         begin' \in Nat, begin <= begin',
         \A k \in begin .. begin' - 1 : k \in DOMAIN held \/ Brings(c, k),
         \A k \in DOMAIN held' : k \in DOMAIN held \/ Brings(c, k)
  PROVE  /\ TakenFresh' /\ SentFresh' /\ SentOnce' /\ CallsOrdered' /\ PromiseFresh'
         /\ \A d \in Clients : \A i \in 1..Len(channel'[d]) :
              channel'[d][i].type \in {"add", "force_sync"} =>
                channel'[d][i].promise \in DOMAIN covers' \cup {NoPromise}
<1>1. /\ Head(channel[c]) = channel[c][1] /\ 1 \in 1..Len(channel[c])
      /\ \A i \in 1..Len(channel'[c]) :
              i + 1 \in 1..Len(channel[c]) /\ channel'[c][i] = channel[c][i + 1]
      /\ \A d \in Clients \ {c} : channel'[d] = channel[d]
  BY LeftInChannel
<1>2. /\ UNCHANGED <<last_id, taken, calls, forced, covers>> /\ begin \in Nat
      /\ taken \in [Clients -> SeqNos \cup {0}] /\ SeqNos \subseteq Nat
  BY ConcurrentBinlogAssumption DEF clientVars, IInv, TypeOK, SeqNos
<1>3. \A d \in Clients : \A i \in 1..Len(channel'[d]) :
        \E j \in 1..Len(channel[d]) : channel'[d][i] = channel[d][j] /\ (d = c => j = i + 1)
                                      /\ (d # c => j = i)
  BY <1>1
<1>4. \A k \in Nat : begin <= k /\ k \notin DOMAIN held /\ ~Brings(c, k) =>
                       begin' <= k /\ k \notin DOMAIN held'
  <2> SUFFICES ASSUME NEW k \in Nat, begin <= k, k \notin DOMAIN held, ~Brings(c, k)
               PROVE  begin' <= k /\ k \notin DOMAIN held'
    OBVIOUS
  <2>1. k \notin begin .. begin' - 1
    OBVIOUS
  <2>2. begin' <= k
    BY <2>1, <1>2, Behind
  <2> QED
    BY <2>2
<1>5. TakenFresh'
  <2> SUFFICES ASSUME NEW d \in Clients, taken[d] # 0
               PROVE  /\ begin' <= taken[d] /\ taken[d] < last_id /\ taken[d] \notin DOMAIN held'
                      /\ \A e \in Clients : taken[e] = taken[d] => e = d
    BY <1>2 DEF TakenFresh
  <2>1. /\ begin <= taken[d] /\ taken[d] < last_id /\ taken[d] \notin DOMAIN held
        /\ \A e \in Clients : taken[e] = taken[d] => e = d
    BY DEF IInv, NumbersOnce, TakenFresh
  <2>2. ~Brings(c, taken[d])
    BY <1>1 DEF IInv, NumbersOnce, SentFresh, Brings
  <2>3. taken[d] \in Nat
    BY <1>2
  <2> QED
    BY <2>1, <2>2, <2>3, <1>4
<1>6. SentFresh'
  <2> SUFFICES ASSUME NEW d \in Clients, NEW i \in 1..Len(channel'[d]), channel'[d][i].type = "add"
               PROVE  /\ begin' <= channel'[d][i].seq_no /\ channel'[d][i].seq_no < last_id
                      /\ channel'[d][i].seq_no \notin DOMAIN held'
                      /\ \A e \in Clients : taken[e] # channel'[d][i].seq_no
    BY <1>2 DEF SentFresh
  <2>1. PICK j \in 1..Len(channel[d]) : channel'[d][i] = channel[d][j] /\ (d = c => j = i + 1)
    BY <1>3
  <2>2. /\ begin <= channel[d][j].seq_no /\ channel[d][j].seq_no < last_id
        /\ channel[d][j].seq_no \notin DOMAIN held
        /\ \A e \in Clients : taken[e] # channel[d][j].seq_no
    BY <2>1 DEF IInv, NumbersOnce, SentFresh
  <2>3. ~Brings(c, channel[d][j].seq_no)
    <3> SUFFICES ASSUME Brings(c, channel[d][j].seq_no) PROVE FALSE
      OBVIOUS
    <3>1. /\ channel[c][1].type = "add" /\ channel[d][j].type = "add"
          /\ channel[c][1].seq_no = channel[d][j].seq_no
      BY <1>1, <2>1 DEF Brings
    <3>2. SentOnce
      BY DEF IInv, NumbersOnce
    <3>3. c = d /\ 1 = j
      BY <3>1, <3>2, <1>1 DEF SentOnce
    <3> QED
      BY <3>3, <2>1
  <2>4. channel[d][j].seq_no \in Nat
    BY <2>1, <1>2, NumberFields DEF IInv
  <2> QED
    BY <2>1, <2>2, <2>3, <2>4, <1>4
<1>7. SentOnce'
  <2>1. SentOnce
    BY DEF IInv, NumbersOnce
  <2> QED
    BY <2>1, <1>3, SentOnceKeeps, Zenon
<1>8. CallsOrdered' /\ PromiseFresh'
  BY <1>2 DEF IInv, CallsArrive, CallsOrdered, PromisesOnce, PromiseFresh
<1>9. ASSUME NEW d \in Clients, NEW i \in 1..Len(channel'[d]),
             channel'[d][i].type \in {"add", "force_sync"}
      PROVE  channel'[d][i].promise \in DOMAIN covers' \cup {NoPromise}
  BY <1>2, <1>3, <1>9 DEF IInv, PromisesOnce, HeldInCovers
<1> QED
  BY <1>5, <1>6, <1>7, <1>8, <1>9

(* The events that are now with the actor are no longer awaited in the     *)
(* channel.                                                                *)
LEMMA ReceivedArrives ==
  ASSUME IInv, NEW c \in Clients, Received(c), UNCHANGED <<clientVars, covers>>,
         ~closed,
         \A k : Arrived(k) => Arrived(k)',
         \A k : Brings(c, k) /\ Head(channel[c]).raw => Arrived(k)'
  PROVE  CallsArrived' /\ SentBefore'
<1>1. /\ Head(channel[c]) = channel[c][1] /\ Len(channel[c]) \in Nat
      /\ Len(channel'[c]) = Len(channel[c]) - 1
      /\ \A i \in 1..Len(channel'[c]) :
              i + 1 \in 1..Len(channel[c]) /\ channel'[c][i] = channel[c][i + 1]
      /\ \A d \in Clients \ {c} : channel'[d] = channel[d]
  BY LeftInChannel
<1>2. UNCHANGED <<calls, covers>>
  BY DEF clientVars
<1>3. \A i \in Nat : \A k : i <= Len(channel'[c]) /\ OnItsWay(c, i + 1, k) =>
        Arrived(k)' \/ OnItsWay(c, i, k)'
  <2> SUFFICES ASSUME NEW i \in Nat, NEW k, i <= Len(channel'[c]), OnItsWay(c, i + 1, k)
               PROVE  Arrived(k)' \/ OnItsWay(c, i, k)'
    OBVIOUS
  <2>1. PICK j \in 1..(i + 1) : channel[c][j].type = "add" /\ channel[c][j].seq_no = k
                                /\ channel[c][j].raw
    BY DEF OnItsWay
  <2>2. CASE j = 1
    BY <2>1, <2>2, <1>1 DEF Brings
  <2>3. CASE j # 1
    <3>1. j - 1 \in 1..i /\ j - 1 \in 1..Len(channel'[c]) /\ (j - 1) + 1 = j
      BY <2>3, <1>1
    <3>2. channel'[c][j - 1] = channel[c][j]
      BY <3>1, <1>1
    <3> QED
      BY <3>1, <3>2, <2>1 DEF OnItsWay
  <2> QED
    BY <2>2, <2>3
<1>4. \A d \in Clients \ {c} : \A i, k : OnItsWay(d, i, k) => OnItsWay(d, i, k)'
  BY <1>1 DEF OnItsWay
<1>5. CallsArrived'
  <2> SUFFICES ASSUME NEW d \in Clients, NEW k \in calls[d]
               PROVE  Arrived(k)' \/ OnItsWay(d, Len(channel[d]), k)'
    BY <1>2 DEF CallsArrived
  <2>1. Arrived(k) \/ OnItsWay(d, Len(channel[d]), k)
    BY DEF IInv, CallsArrive, CallsArrived
  <2>2. CASE d = c
    <3>1. Len(channel'[c]) \in Nat /\ Len(channel[c]) = Len(channel'[c]) + 1
      BY <1>1, LeftInChannel
    <3> QED
      BY <2>1, <2>2, <3>1, <1>3
  <2>3. CASE d # c
    BY <2>1, <2>3, <1>1, <1>4
  <2> QED
    BY <2>2, <2>3
<1>6. SentBefore'
  <2> SUFFICES ASSUME NEW d \in Clients, NEW i \in 1..Len(channel'[d]),
                      channel'[d][i].type \in {"add", "force_sync"},
                      channel'[d][i].promise # NoPromise,
                      NEW n \in covers[channel'[d][i].promise]
               PROVE  /\ Arrived(n)' \/ OnItsWay(d, i, n)'
                      /\ channel'[d][i].type = "add" => n <= channel'[d][i].seq_no
    BY <1>2 DEF SentBefore
  <2>1. CASE d = c
    <3>1. i + 1 \in 1..Len(channel[c]) /\ channel'[d][i] = channel[c][i + 1]
      BY <2>1, <1>1
    <3>2. /\ Arrived(n) \/ OnItsWay(c, i + 1, n)
          /\ channel[c][i + 1].type = "add" => n <= channel[c][i + 1].seq_no
      BY <3>1 DEF IInv, CoversArrive, SentBefore
    <3>3. i \in Nat /\ i <= Len(channel'[c])
      BY <2>1
    <3> QED
      BY <2>1, <3>1, <3>2, <3>3, <1>3
  <2>2. CASE d # c
    <3>1. channel'[d] = channel[d]
      BY <2>2, <1>1
    <3>2. /\ Arrived(n) \/ OnItsWay(d, i, n)
          /\ channel[d][i].type = "add" => n <= channel[d][i].seq_no
      BY <3>1 DEF IInv, CoversArrive, SentBefore
    <3> QED
      BY <2>2, <3>1, <3>2, <1>4
  <2> QED
    BY <2>1, <2>2
<1> QED
  BY <1>5, <1>6

(* Receiving a message that is not an event: the sequencer and the log are *)
(* as before.                                                              *)
LEMMA ReceivedPlain ==
  ASSUME IInv, NEW c \in Clients, Received(c), ~closed, Head(channel[c]).type # "add",
         UNCHANGED <<clientVars, covers, begin, end, held, log, answer, closed>>,
         synced' \in Nat, synced <= synced'
  PROVE  /\ MessagesOK' /\ NumbersOnce' /\ CallsArrive' /\ PromiseFresh'
         /\ SentBefore' /\ HeldBehind' /\ AnsweredIsSynced'
         /\ \A d \in Clients : \A i \in 1..Len(channel'[d]) :
              channel'[d][i].type \in {"add", "force_sync"} =>
                channel'[d][i].promise \in DOMAIN covers' \cup {NoPromise}
<1>1. begin \in Nat /\ synced \in Nat /\ log \subseteq Nat
  BY ConcurrentBinlogAssumption DEF IInv, TypeOK
<1>2. /\ \A k : Arrived(k) => Arrived(k)'
      /\ \A k : Brings(c, k) /\ Head(channel[c]).raw => Arrived(k)'
  BY DEF Arrived, Brings
<1>3. CallsArrived' /\ SentBefore'
  BY <1>2, ReceivedArrives
<1>4. /\ begin' \in Nat /\ begin <= begin'
      /\ \A k \in begin .. begin' - 1 : k \in DOMAIN held \/ Brings(c, k)
      /\ \A k \in DOMAIN held' : k \in DOMAIN held \/ Brings(c, k)
  BY <1>1
<1>5. /\ TakenFresh' /\ SentFresh' /\ SentOnce' /\ CallsOrdered' /\ PromiseFresh'
      /\ \A d \in Clients : \A i \in 1..Len(channel'[d]) :
           channel'[d][i].type \in {"add", "force_sync"} =>
             channel'[d][i].promise \in DOMAIN covers' \cup {NoPromise}
  BY <1>4, ReceivedKeeps
<1>6. channel' \in [Clients -> Seq(Message)] /\ UNCHANGED <<last_id, forced, others>>
  BY LeftInChannel DEF clientVars
<1>7. MessagesOK'
  BY <1>6 DEF IInv, MessagesOK
<1>8. NumbersOnce'
  BY <1>5, <1>6 DEF IInv, NumbersOnce
<1>9. HeldBehind'
  <2>1. \A k : Arrived(k)' <=> Arrived(k)
    BY DEF Arrived
  <2> QED
    BY <2>1 DEF IInv, CoversArrive, HeldBehind
<1>10. AnsweredIsSynced'
  <2>1. \A n \in log : n < synced => n < synced'
    BY <1>1
  <2> QED
    BY <2>1 DEF IInv, AnsweredIsSynced
<1> QED
  BY <1>3, <1>5, <1>7, <1>8, <1>9, <1>10 DEF CallsArrive

(* force_flush *)
LEMMA ForceFlushKeeps ==
  ASSUME IInv, NEW c \in Clients, ForceFlush(c)
  PROVE  IInv'
<1>1. /\ Received(c) /\ ~closed /\ Head(channel[c]).type # "add" /\ written' = begin
      /\ since' = "none" /\ flush_flag' = FALSE
      /\ UNCHANGED <<clientVars, begin, end, held, log, synced, immediate, waiting,
                     force_sync_flag, lazy_sync_flag, armed, answer, covers, closed>>
  BY DEF ForceFlush, Receive, Received
<1>2. /\ begin \in Nat /\ written \in Nat /\ synced \in Nat /\ FirstSeqNo \in Nat
      /\ synced <= written /\ written <= begin /\ \A n \in log : n < begin /\ n \in Nat
  BY ConcurrentBinlogAssumption DEF IInv, TypeOK
<1>3. /\ MessagesOK' /\ NumbersOnce' /\ CallsArrive' /\ PromiseFresh'
      /\ SentBefore' /\ HeldBehind' /\ AnsweredIsSynced'
      /\ \A d \in Clients : \A i \in 1..Len(channel'[d]) :
           channel'[d][i].type \in {"add", "force_sync"} =>
             channel'[d][i].promise \in DOMAIN covers' \cup {NoPromise}
  BY <1>1, <1>2, ReceivedPlain
<1>4. TypeOK'
  <2>1. /\ written' \in FirstSeqNo .. begin' /\ synced' \in FirstSeqNo .. written'
    <3>1. FirstSeqNo <= synced /\ written' = begin /\ synced' = synced /\ begin' = begin
      BY <1>1, <1>2 DEF IInv, TypeOK
    <3> QED
      BY <3>1, <1>2
  <2>2. since' \in {"none", "new", "old"} /\ flush_flag' \in BOOLEAN
    BY <1>1
  <2> QED
    BY <1>1, <2>1, <2>2 DEF IInv, TypeOK, clientVars
<1>5. HeldInCovers'
  BY <1>1, <1>3 DEF IInv, PromisesOnce, HeldInCovers
<1>6. CoversArrive'
  BY <1>1, <1>3 DEF IInv, CoversArrive, ForcedBehind, WaitingIsLogged, Arrived
<1>7. FlagsArmed' /\ NothingForgotten'
  <2>1. Unwritten(log, written)' = {}
    BY <1>1, <1>2 DEF Unwritten
  <2> QED
    BY <2>1, <1>1 DEF IInv, FlagsArmed, NothingForgotten
<1> QED
  BY <1>3, <1>4, <1>5, <1>6, <1>7 DEF IInv, PromisesOnce

(* change_key *)
LEMMA ChangeKeyKeeps ==
  ASSUME IInv, NEW c \in Clients, ChangeKey(c)
  PROVE  IInv'
<1>1. /\ Received(c) /\ ~closed /\ Head(channel[c]).type # "add"
      /\ written' = begin /\ synced' = begin /\ since' = "none"
      /\ UNCHANGED <<clientVars, begin, end, held, log, immediate, waiting, flags,
                     answer, covers, closed>>
  BY DEF ChangeKey, Receive, Received
<1>2. /\ begin \in Nat /\ written \in Nat /\ synced \in Nat /\ FirstSeqNo \in Nat
      /\ synced <= written /\ written <= begin /\ \A n \in log : n < begin /\ n \in Nat
  BY ConcurrentBinlogAssumption DEF IInv, TypeOK
<1>3. /\ MessagesOK' /\ NumbersOnce' /\ CallsArrive' /\ PromiseFresh'
      /\ SentBefore' /\ HeldBehind' /\ AnsweredIsSynced'
      /\ \A d \in Clients : \A i \in 1..Len(channel'[d]) :
           channel'[d][i].type \in {"add", "force_sync"} =>
             channel'[d][i].promise \in DOMAIN covers' \cup {NoPromise}
  <2>1. synced' \in Nat /\ synced <= synced'
    BY <1>1, <1>2
  <2> QED
    BY <1>1, <2>1, ReceivedPlain
<1>4. TypeOK'
  BY <1>1, <1>2 DEF IInv, TypeOK, clientVars, flags
<1>5. HeldInCovers'
  BY <1>1, <1>3 DEF IInv, PromisesOnce, HeldInCovers
<1>6. CoversArrive'
  BY <1>1, <1>3 DEF IInv, CoversArrive, ForcedBehind, WaitingIsLogged, Arrived
<1>7. FlagsArmed' /\ NothingForgotten'
  <2>1. Unwritten(log, written)' = {}
    BY <1>1, <1>2 DEF Unwritten
  <2> QED
    BY <2>1, <1>1 DEF IInv, FlagsArmed, NothingForgotten, flags
<1> QED
  BY <1>3, <1>4, <1>5, <1>6, <1>7 DEF IInv, PromisesOnce

(* force_sync: the events its promise speaks for have arrived, so that     *)
(* they are in the log unless the sequencer holds something back.          *)
LEMMA ForceSyncKeeps ==
  ASSUME IInv, NEW c \in Clients, ForceSync(c)
  PROVE  IInv'
<1> DEFINE p == Head(channel[c]).promise
<1>1. /\ Received(c) /\ ~closed /\ Head(channel[c]).type = "force_sync"
      /\ UNCHANGED <<clientVars, begin, end, held, log, written, synced, since, answer,
                     covers, closed>>
  BY DEF ForceSync, Receive, Received, binlogVars
<1>2. /\ begin \in Nat /\ end \in Nat /\ begin <= end /\ synced \in Nat /\ end <= LastSeqNo + 1
      /\ DOMAIN held \subseteq begin + 1 .. end - 1 /\ FirstSeqNo \in Nat /\ LastSeqNo \in Nat
      /\ FirstSeqNo <= begin /\ \A n \in log : n < begin /\ n \in Nat
  BY ConcurrentBinlogAssumption DEF IInv, TypeOK
<1>3. /\ MessagesOK' /\ NumbersOnce' /\ CallsArrive' /\ PromiseFresh'
      /\ SentBefore' /\ HeldBehind' /\ AnsweredIsSynced'
      /\ \A d \in Clients : \A i \in 1..Len(channel'[d]) :
           channel'[d][i].type \in {"add", "force_sync"} =>
             channel'[d][i].promise \in DOMAIN covers' \cup {NoPromise}
  <2>1. /\ Head(channel[c]).type # "add" /\ synced' \in Nat /\ synced <= synced'
        /\ UNCHANGED <<clientVars, covers, begin, end, held, log, answer, closed>>
    BY <1>1, <1>2
  <2> QED
    BY <1>1, <2>1, ReceivedPlain
<1>4. /\ 1 \in 1..Len(channel[c]) /\ channel[c][1] = Head(channel[c])
      /\ channel[c][1].type = "force_sync" /\ channel[c][1].promise = p
  BY <1>1, LeftInChannel
<1>5. p \in MaybePromises
  BY <1>4, MessageFields DEF IInv, SyncMessage
<1>6. p \in DOMAIN covers \cup {NoPromise}
  BY <1>4 DEF IInv, PromisesOnce, HeldInCovers
<1>7. p # NoPromise => \A n \in covers[p] : Arrived(n)
  <2>1. \A n : ~OnItsWay(c, 1, n)
    BY <1>4 DEF OnItsWay
  <2>2. SentBefore
    BY <1>1 DEF IInv, CoversArrive
  <2> QED
    BY <2>1, <2>2, <1>4 DEF SentBefore
<1>8. \A n : Arrived(n)' <=> Arrived(n)
  BY <1>1 DEF Arrived
<1> HIDE DEF p
<1>9. CASE begin = end
  <2>1. /\ waiting' = waiting \cup ({p} \ {NoPromise}) /\ force_sync_flag' = TRUE
        /\ armed' = (armed \/ ~force_sync_flag) /\ UNCHANGED immediate
        /\ UNCHANGED <<lazy_sync_flag, flush_flag>>
    <3>1. SetFlags(ImmediateSync(Flags, {p})) /\ UNCHANGED immediate
      BY <1>9 DEF ForceSync, p
    <3>2. {p} # {}
      OBVIOUS
    <3> QED
      BY <3>1, <3>2 DEF SetFlags, ImmediateSync, Flags
  <2>2. armed'
    BY <2>1 DEF IInv, FlagsArmed
  <2>3. armed' \in BOOLEAN
    BY <2>1
  <2>4. TypeOK'
    <3>1. waiting' \subseteq Promises
      BY <2>1, <1>5 DEF IInv, TypeOK, MaybePromises
    <3> QED
      BY <3>1, <2>1, <2>3, <1>1 DEF IInv, TypeOK, clientVars
  <2>5. HeldInCovers'
    BY <1>1, <1>3, <1>6, <2>1 DEF IInv, PromisesOnce, HeldInCovers
  <2>6. WaitingIsLogged'
    <3>1. begin + 1 .. end - 1 = {}
      BY <1>2, <1>9
    <3>2. p # NoPromise => covers[p] \subseteq log
      BY <3>1, <1>2, <1>7 DEF Arrived
    <3> QED
      BY <3>2, <2>1, <1>1 DEF IInv, CoversArrive, WaitingIsLogged
  <2>7. ForcedBehind'
    BY <2>1, <1>1, <1>8 DEF IInv, CoversArrive, ForcedBehind
  <2>8. FlagsArmed' /\ NothingForgotten'
    BY <2>1, <2>2, <1>1 DEF IInv, FlagsArmed, NothingForgotten
  <2> QED
    BY <1>3, <2>4, <2>5, <2>6, <2>7, <2>8 DEF IInv, PromisesOnce, CoversArrive
<1>10. CASE begin # end
  <2>1. immediate' = immediate \cup {<<end - 1, p>>} /\ UNCHANGED <<flags, waiting>>
    BY <1>10 DEF ForceSync, p
  <2>2. end - 1 \in SeqNos /\ end - 1 >= begin
    BY <1>2, <1>10 DEF SeqNos
  <2>3. \A x \in immediate' : x \in immediate \/ (x[1] = end - 1 /\ x[2] = p)
    BY <2>1
  <2>4. TypeOK'
    <3>1. immediate' \subseteq SeqNos \X (Promises \cup {NoPromise})
      BY <2>1, <2>2, <1>5 DEF IInv, TypeOK, MaybePromises
    <3> QED
      BY <3>1, <2>1, <1>1 DEF IInv, TypeOK, clientVars, flags
  <2>5. HeldInCovers'
    BY <1>1, <1>3, <1>6, <2>1, <2>3 DEF IInv, PromisesOnce, HeldInCovers
  <2>6. WaitingIsLogged'
    BY <2>1, <1>1 DEF IInv, CoversArrive, WaitingIsLogged
  <2>7. ForcedBehind'
    <3>1. \A n : Arrived(n) => n <= end - 1
      BY <1>2, <2>2 DEF Arrived
    <3> QED
      BY <3>1, <2>3, <1>1, <1>7, <1>8 DEF IInv, CoversArrive, ForcedBehind
  <2>8. FlagsArmed' /\ NothingForgotten'
    BY <2>1, <2>2, <2>3, <1>1 DEF IInv, FlagsArmed, NothingForgotten, flags, Unwritten
  <2> QED
    BY <1>3, <2>4, <2>5, <2>6, <2>7, <2>8 DEF IInv, PromisesOnce, CoversArrive
<1> QED
  BY <1>9, <1>10

(* The actor stops: the promises it held are answered, with an error, and  *)
(* none of them waits any more.                                            *)
LEMMA StopKeeps ==
  ASSUME IInv, NEW c \in Clients, Received(c), Stop, UNCHANGED log, written' = begin,
         synced' \in {synced, begin}, since' = "none"
  PROVE  IInv'
<1> DEFINE holds == ({ held[n].promise : n \in DOMAIN held } \cup waiting
                      \cup { x[2] : x \in immediate }) \ {NoPromise}
<1>1. /\ answer' = Answered(holds, "lost") /\ held' = [n \in {} |-> 0] /\ waiting' = {}
      /\ immediate' = {} /\ closed' = TRUE
      /\ UNCHANGED <<clientVars, begin, end, flags, covers>>
  BY DEF Stop
<1>2. DOMAIN held' = {}
  BY <1>1
<1>3. /\ begin \in Nat /\ synced \in Nat /\ FirstSeqNo \in Nat /\ written \in Nat
      /\ FirstSeqNo <= synced /\ synced <= written /\ written <= begin
      /\ \A n \in log : n < begin /\ n \in Nat
  BY ConcurrentBinlogAssumption DEF IInv, TypeOK
<1>4. /\ DOMAIN answer' = DOMAIN answer \cup holds
      /\ \A q \in DOMAIN answer' : answer'[q] = IF q \in holds THEN "lost" ELSE answer[q]
  BY <1>1 DEF Answered
<1>5. holds \subseteq DOMAIN covers
  BY DEF IInv, PromisesOnce, HeldInCovers
<1> HIDE DEF holds
<1>6. TypeOK'
  <2>1. written' \in FirstSeqNo .. begin' /\ synced' \in FirstSeqNo .. written'
    BY <1>1, <1>3
  <2>2. \A q \in DOMAIN answer' : answer'[q] \in {"ok", "lost"}
    BY <1>4 DEF IInv, TypeOK
  <2> QED
    BY <1>1, <1>2, <2>1, <2>2 DEF IInv, TypeOK, clientVars, flags
<1>7. /\ TakenFresh' /\ SentFresh' /\ SentOnce' /\ CallsOrdered' /\ PromiseFresh'
      /\ \A d \in Clients : \A i \in 1..Len(channel'[d]) :
           channel'[d][i].type \in {"add", "force_sync"} =>
             channel'[d][i].promise \in DOMAIN covers' \cup {NoPromise}
  <2>1. /\ begin' \in Nat /\ begin <= begin'
        /\ \A k \in begin .. begin' - 1 : k \in DOMAIN held \/ Brings(c, k)
        /\ \A k \in DOMAIN held' : k \in DOMAIN held \/ Brings(c, k)
        /\ UNCHANGED <<clientVars, covers>>
    BY <1>1, <1>2, <1>3
  <2> QED
    BY <2>1, ReceivedKeeps
<1>8. MessagesOK' /\ NumbersOnce'
  BY <1>1, <1>2, <1>7, LeftInChannel DEF IInv, MessagesOK, NumbersOnce, clientVars
<1>9. HeldInCovers'
  BY <1>1, <1>2, <1>4, <1>5, <1>7 DEF IInv, PromisesOnce, HeldInCovers
<1>10. CallsArrived' /\ CoversArrive' /\ NothingForgotten' /\ FlagsArmed'
  BY <1>1 DEF IInv, CallsArrived, CoversArrive, NothingForgotten, FlagsArmed, flags
<1>11. AnsweredIsSynced'
  <2>1. \A n \in log : n < synced => n < synced'
    BY <1>3
  <2> QED
    BY <2>1, <1>1, <1>4 DEF IInv, AnsweredIsSynced
<1> QED
  BY <1>6, <1>7, <1>8, <1>9, <1>10, <1>11 DEF IInv, PromisesOnce, CallsArrive

(* close *)
LEMMA CloseBinlogKeeps ==
  ASSUME IInv, NEW c \in Clients, CloseBinlog(c)
  PROVE  IInv'
  BY StopKeeps DEF CloseBinlog, Receive, Received

(* close_and_destroy *)
LEMMA CloseAndDestroyKeeps ==
  ASSUME IInv, NEW c \in Clients, CloseAndDestroy(c)
  PROVE  IInv'
  BY StopKeeps DEF CloseAndDestroy, Receive, Received

(* A message that the stopped actor does not get. *)
LEMMA UndeliveredKeeps ==
  ASSUME IInv, NEW c \in Clients, Undelivered(c)
  PROVE  IInv'
<1> DEFINE m == Head(channel[c])
           lost == IF m.type \in {"add", "force_sync"} THEN {m.promise} \ {NoPromise} ELSE {}
<1>1. /\ Received(c) /\ closed /\ closed' = closed
      /\ answer' = IF m.type \in {"add", "force_sync"}
                     THEN Answered({m.promise} \ {NoPromise}, "lost") ELSE answer
      /\ UNCHANGED <<clientVars, begin, end, held, binlogVars, immediate, waiting,
                     flags, covers>>
  BY DEF Undelivered, Received
<1>2. /\ DOMAIN answer' = DOMAIN answer \cup lost
      /\ \A q \in DOMAIN answer' : answer'[q] = IF q \in lost THEN "lost" ELSE answer[q]
  BY <1>1 DEF Answered
<1>3. m = channel[c][1] /\ 1 \in 1..Len(channel[c])
  BY <1>1, LeftInChannel
<1>4. lost \subseteq DOMAIN covers
  BY <1>3 DEF IInv, PromisesOnce, HeldInCovers
<1> HIDE DEF lost, m
<1>5. TypeOK'
  <2>1. \A q \in DOMAIN answer' : answer'[q] \in {"ok", "lost"}
    BY <1>2 DEF IInv, TypeOK
  <2> QED
    BY <1>1, <2>1 DEF IInv, TypeOK, clientVars, flags, binlogVars
<1>6. /\ TakenFresh' /\ SentFresh' /\ SentOnce' /\ CallsOrdered' /\ PromiseFresh'
      /\ \A d \in Clients : \A i \in 1..Len(channel'[d]) :
           channel'[d][i].type \in {"add", "force_sync"} =>
             channel'[d][i].promise \in DOMAIN covers' \cup {NoPromise}
  <2>1. begin \in Nat
    BY ConcurrentBinlogAssumption DEF IInv, TypeOK
  <2>2. /\ begin' \in Nat /\ begin <= begin'
        /\ \A k \in begin .. begin' - 1 : k \in DOMAIN held \/ Brings(c, k)
        /\ \A k \in DOMAIN held' : k \in DOMAIN held \/ Brings(c, k)
        /\ UNCHANGED <<clientVars, covers>>
    BY <1>1, <2>1
  <2> QED
    BY <1>1, <2>2, ReceivedKeeps
<1>7. MessagesOK' /\ NumbersOnce'
  BY <1>1, <1>6, LeftInChannel DEF IInv, MessagesOK, NumbersOnce, clientVars
<1>8. HeldInCovers'
  BY <1>1, <1>2, <1>4, <1>6 DEF IInv, PromisesOnce, HeldInCovers
<1>9. CallsArrived' /\ CoversArrive' /\ NothingForgotten' /\ FlagsArmed'
  BY <1>1 DEF IInv, CallsArrived, CoversArrive, NothingForgotten, FlagsArmed, flags
<1>10. AnsweredIsSynced'
  BY <1>1, <1>2 DEF IInv, AnsweredIsSynced, binlogVars
<1> QED
  BY <1>5, <1>6, <1>7, <1>8, <1>9, <1>10 DEF IInv, PromisesOnce, CallsArrive

(* timeout_expired: what the waiting promises speak for is in the log, and *)
(* the sync covers the whole log.                                          *)
LEMMA TimeoutExpiredKeeps ==
  ASSUME IInv, TimeoutExpired
  PROVE  IInv'
<1> DEFINE sync  == lazy_sync_flag \/ force_sync_flag
           flush == ~sync /\ flush_flag /\ since # "new"
           again == ~sync /\ flush_flag /\ since = "new"
<1>1. /\ ~closed /\ armed
      /\ written' = IF sync \/ flush THEN begin ELSE written
      /\ since' = IF sync \/ flush THEN "none" ELSE since
      /\ synced' = IF sync THEN begin ELSE synced
      /\ answer' = IF sync THEN Answered(waiting, "ok") ELSE answer
      /\ UNCHANGED <<clientVars, channel, begin, end, held, log, immediate, covers, closed>>
  BY DEF TimeoutExpired
<1>2. /\ force_sync_flag' = FALSE /\ lazy_sync_flag' = FALSE /\ flush_flag' = again
      /\ armed' = again /\ waiting' = IF sync THEN {} ELSE waiting
  BY DEF TimeoutExpired, SetFlags, TryFlush
<1>3. /\ begin \in Nat /\ synced \in Nat /\ FirstSeqNo \in Nat /\ written \in Nat
      /\ FirstSeqNo <= synced /\ synced <= written /\ written <= begin
      /\ \A n \in log : n < begin /\ n \in Nat
  BY ConcurrentBinlogAssumption DEF IInv, TypeOK
<1>4. sync \in BOOLEAN /\ flush \in BOOLEAN /\ again \in BOOLEAN
  OBVIOUS
<1>5. TypeOK'
  <2>1. /\ written' \in FirstSeqNo .. begin' /\ synced' \in FirstSeqNo .. written'
    <3>1. CASE sync
      BY <3>1, <1>1, <1>3
    <3>2. CASE ~sync
      BY <3>2, <1>1, <1>3
    <3> QED
      BY <3>1, <3>2
  <2>2. \A q \in DOMAIN answer' : answer'[q] \in {"ok", "lost"}
    BY <1>1 DEF IInv, TypeOK, Answered
  <2>3. since' \in {"none", "new", "old"} /\ waiting' \subseteq Promises
    BY <1>1, <1>2 DEF IInv, TypeOK
  <2> QED
    BY <1>1, <1>2, <1>4, <2>1, <2>2, <2>3 DEF IInv, TypeOK, clientVars
<1>6. MessagesOK' /\ NumbersOnce' /\ PromiseFresh'
  BY <1>1 DEF IInv, MessagesOK, NumbersOnce, TakenFresh, SentFresh, SentOnce, PromisesOnce,
              PromiseFresh, clientVars
<1>7. HeldInCovers'
  <2>1. DOMAIN answer' \subseteq DOMAIN covers
    BY <1>1 DEF IInv, PromisesOnce, HeldInCovers, Answered
  <2> QED
    BY <1>1, <1>2, <2>1 DEF IInv, PromisesOnce, HeldInCovers
<1>8. CallsArrive'
  BY <1>1 DEF IInv, CallsArrive, CallsOrdered, CallsArrived, Arrived, OnItsWay, clientVars
<1>9. CoversArrive'
  <2>1. WaitingIsLogged'
    BY <1>1, <1>2 DEF IInv, CoversArrive, WaitingIsLogged
  <2>2. SentBefore' /\ HeldBehind' /\ ForcedBehind'
    BY <1>1 DEF IInv, CoversArrive, SentBefore, HeldBehind, ForcedBehind, Arrived, OnItsWay
  <2> QED
    BY <2>1, <2>2 DEF CoversArrive
<1>10. FlagsArmed' /\ NothingForgotten'
  <2>1. sync \/ flush => Unwritten(log, written)' = {}
    BY <1>1, <1>3 DEF Unwritten
  <2>2. ~sync /\ ~flush => Unwritten(log, written)' = Unwritten(log, written)
    BY <1>1
  <2>3. waiting # {} => sync
    BY <1>1 DEF IInv, NothingForgotten
  <2>4. Unwritten(log, written) # {} => sync \/ flush_flag
    BY <1>1 DEF IInv, NothingForgotten
  <2> QED
    BY <1>1, <1>2, <2>1, <2>2, <2>3, <2>4 DEF IInv, FlagsArmed, NothingForgotten
<1>11. AnsweredIsSynced'
  <2>1. CASE sync
    <3>1. \A n \in log : n < synced'
      BY <2>1, <1>1, <1>3
    <3>2. \A q \in DOMAIN answer' :
            q \in waiting \/ (q \in DOMAIN answer /\ answer'[q] = answer[q])
      BY <2>1, <1>1 DEF Answered
    <3>3. \A q \in waiting : covers[q] \subseteq log
      BY <1>1 DEF IInv, CoversArrive, WaitingIsLogged
    <3> QED
      BY <3>1, <3>2, <3>3, <1>1 DEF IInv, AnsweredIsSynced
  <2>2. CASE ~sync
    BY <2>2, <1>1 DEF IInv, AnsweredIsSynced
  <2> QED
    BY <2>1, <2>2
<1> QED
  BY <1>5, <1>6, <1>7, <1>8, <1>9, <1>10, <1>11 DEF IInv, PromisesOnce

LEMMA TickKeeps ==
  ASSUME IInv, Tick
  PROVE  IInv'
<1>1. /\ since' = "old"
      /\ UNCHANGED <<clientVars, channel, begin, end, held, log, written, synced, immediate,
                     waiting, flags, answer, covers, closed>>
  BY DEF Tick
<1>2. TypeOK'
  BY <1>1 DEF IInv, TypeOK, clientVars, flags
<1>3. MessagesOK' /\ NumbersOnce' /\ PromisesOnce'
  BY <1>1 DEF IInv, MessagesOK, NumbersOnce, TakenFresh, SentFresh, SentOnce, PromisesOnce,
              PromiseFresh, HeldInCovers, clientVars
<1>4. CallsArrive' /\ CoversArrive'
  BY <1>1 DEF IInv, CallsArrive, CallsOrdered, CallsArrived, Arrived, OnItsWay, clientVars,
              CoversArrive, SentBefore, HeldBehind, ForcedBehind, WaitingIsLogged
<1>5. FlagsArmed' /\ NothingForgotten' /\ AnsweredIsSynced'
  BY <1>1 DEF IInv, FlagsArmed, NothingForgotten, AnsweredIsSynced, flags, Unwritten
<1> QED
  BY <1>2, <1>3, <1>4, <1>5 DEF IInv

(* A step that changes nothing. *)
LEMMA StutterKeeps ==
  ASSUME IInv, UNCHANGED vars
  PROVE  IInv'
<1>1. UNCHANGED <<clientVars, channel, begin, end, held, binlogVars, immediate,
                  waiting, flags, answer, covers, closed>>
  BY DEF vars
<1>2. TypeOK'
  BY <1>1 DEF IInv, TypeOK, clientVars, flags, binlogVars
<1>3. MessagesOK' /\ NumbersOnce' /\ PromisesOnce'
  BY <1>1 DEF IInv, MessagesOK, NumbersOnce, TakenFresh, SentFresh, SentOnce, PromisesOnce,
              PromiseFresh, HeldInCovers, clientVars, binlogVars
<1>4. CallsArrive' /\ CoversArrive'
  BY <1>1 DEF IInv, CallsArrive, CallsOrdered, CallsArrived, Arrived, OnItsWay, clientVars,
              CoversArrive, SentBefore, HeldBehind, ForcedBehind, WaitingIsLogged, binlogVars
<1>5. FlagsArmed' /\ NothingForgotten' /\ AnsweredIsSynced'
  BY <1>1 DEF IInv, FlagsArmed, NothingForgotten, AnsweredIsSynced, flags, Unwritten, binlogVars
<1> QED
  BY <1>2, <1>3, <1>4, <1>5 DEF IInv
-----------------------------------------------------------------------------
(* The sequencer runs the events from begin_ up to the first one missing.  *)
LEMMA RunEndExists ==
  ASSUME NEW events, begin \in Nat, LastSeqNo \in Nat, begin <= LastSeqNo + 1,
         LastSeqNo + 1 \notin DOMAIN events
  PROVE  /\ RunEnd(events) \in begin .. LastSeqNo + 1 /\ RunEnd(events) \notin DOMAIN events
         /\ \A k \in begin .. RunEnd(events) - 1 : k \in DOMAIN events
<1> DEFINE T == { n \in begin .. LastSeqNo + 1 : n \notin DOMAIN events }
<1>1. T \in SUBSET Nat /\ LastSeqNo + 1 \in T
  OBVIOUS
<1>2. PICK n \in T : \A y \in T : n <= y
  BY <1>1, LeastNat
<1>3. n \in begin .. LastSeqNo + 1 /\ n \notin DOMAIN events
  OBVIOUS
<1>4. \A k \in begin .. n - 1 : k \in DOMAIN events
  <2> SUFFICES ASSUME NEW k \in begin .. n - 1, k \notin DOMAIN events PROVE FALSE
    OBVIOUS
  <2>1. k \in T /\ k < n /\ k \in Nat /\ n \in Nat
    BY <1>3
  <2> QED
    BY <2>1, <1>2
<1> QED
  BY <1>3, <1>4 DEF RunEnd

(* The flags a handler passes on: a flag that is set has its timeout, and  *)
(* promises that wait have a flag.                                         *)
FlagRecord == [force : BOOLEAN, lazy : BOOLEAN, flush : BOOLEAN, armed : BOOLEAN,
               waiting : SUBSET Promises]
FlagsOK(f) ==
  /\ f.force \/ f.lazy \/ f.flush => f.armed
  /\ f.waiting # {} => f.lazy \/ f.force

LEMMA LazySyncOK ==
  ASSUME NEW f \in FlagRecord, FlagsOK(f), NEW ps \in SUBSET Promises
  PROVE  /\ LazySync(f, ps) \in FlagRecord /\ FlagsOK(LazySync(f, ps))
         /\ LazySync(f, ps).waiting = f.waiting \cup ps
<1>1. CASE ps = {}
  BY <1>1 DEF LazySync
<1>2. CASE ps # {}
  <2> DEFINE g == LazySync(f, ps)
  <2>1. g = [f EXCEPT !.waiting = @ \cup ps, !.lazy = @ \/ ~f.force,
                      !.armed = @ \/ (~f.lazy /\ ~f.force)]
    BY <1>2 DEF LazySync
  <2>2. /\ g.force = f.force /\ g.flush = f.flush /\ g.waiting = f.waiting \cup ps
        /\ g.lazy = (f.lazy \/ ~f.force) /\ g.armed = (f.armed \/ (~f.lazy /\ ~f.force))
        /\ g \in FlagRecord
    BY <2>1 DEF FlagRecord
  <2> QED
    BY <2>2 DEF FlagsOK, FlagRecord
<1> QED
  BY <1>1, <1>2

LEMMA ImmediateSyncOK ==
  ASSUME NEW f \in FlagRecord, FlagsOK(f), NEW ps \in SUBSET MaybePromises
  PROVE  /\ ImmediateSync(f, ps) \in FlagRecord /\ FlagsOK(ImmediateSync(f, ps))
         /\ ImmediateSync(f, ps).waiting = f.waiting \cup (ps \ {NoPromise})
<1>1. CASE ps = {}
  BY <1>1 DEF ImmediateSync
<1>2. CASE ps # {}
  <2> DEFINE g == ImmediateSync(f, ps)
  <2>1. g = [f EXCEPT !.waiting = @ \cup (ps \ {NoPromise}), !.force = TRUE,
                      !.armed = @ \/ ~f.force]
    BY <1>2 DEF ImmediateSync
  <2>2. /\ g.force = TRUE /\ g.flush = f.flush /\ g.waiting = f.waiting \cup (ps \ {NoPromise})
        /\ g.lazy = f.lazy /\ g.armed = (f.armed \/ ~f.force)
        /\ g \in FlagRecord
    BY <2>1 DEF FlagRecord, MaybePromises
  <2> QED
    BY <2>2 DEF FlagsOK, FlagRecord
<1> QED
  BY <1>1, <1>2

LEMMA TryFlushOK ==
  ASSUME NEW f \in FlagRecord, FlagsOK(f), NEW age
  PROVE  /\ TryFlush(f, age) \in FlagRecord /\ FlagsOK(TryFlush(f, age))
         /\ TryFlush(f, age).waiting = f.waiting
         /\ age = "new" => TryFlush(f, age).flush \/ TryFlush(f, age).force
  BY DEF TryFlush, FlagRecord, FlagsOK

(* add_raw_event: the event joins those held back, the run of events that  *)
(* are complete goes to the log, their promises and the forced syncs that  *)
(* are due wait for a sync, and what was not written has its timeout.      *)
LEMMA AddRawEventKeeps ==
  ASSUME IInv, NEW c \in Clients, AddRawEvent(c)
  PROVE  IInv'
<1> DEFINE m    == Head(channel[c])
           all  == With(m)
           stop == RunEnd(all)
           run  == begin .. stop - 1
           raws == { n \in run : all[n].raw }
           ps   == { all[n].promise : n \in run } \ {NoPromise}
           due  == { x[2] : x \in Due(stop) }
           f1   == LazySync(Flags, ps)
           f2   == ImmediateSync(f1, due)
<1>1. /\ Received(c) /\ ~closed /\ m.type = "add" /\ begin' = stop
      /\ held' = [n \in { k \in DOMAIN all : k >= stop } |-> all[n]]
      /\ end' = IF m.seq_no + 1 > end THEN m.seq_no + 1 ELSE end
      /\ log' = log \cup raws /\ immediate' = immediate \ Due(stop)
      /\ UNCHANGED <<clientVars, answer, covers, closed>>
  BY DEF AddRawEvent, Receive, Received
<1>2. PICK w \in {written} \cup { n + 1 : n \in raws }, reindex \in BOOLEAN :
        LET age == IF Unwritten(log', w) = {} THEN "none"
                   ELSE IF w = written /\ since # "none" THEN since ELSE "new"
        IN /\ reindex => w > written
           /\ synced' = IF reindex THEN w ELSE synced
           /\ written' = IF age = "new" THEN w ELSE stop
           /\ since' = IF age = "new" THEN "new" ELSE "none"
           /\ SetFlags(TryFlush(f2, age))
  BY DEF AddRawEvent
<1> DEFINE age == IF Unwritten(log', w) = {} THEN "none"
                  ELSE IF w = written /\ since # "none" THEN since ELSE "new"
<1>3. /\ synced' = IF reindex THEN w ELSE synced
      /\ written' = IF age = "new" THEN w ELSE stop
      /\ since' = IF age = "new" THEN "new" ELSE "none"
      /\ SetFlags(TryFlush(f2, age))
  BY <1>2
<1>4. /\ begin \in Nat /\ end \in Nat /\ begin <= end /\ end <= LastSeqNo + 1
      /\ FirstSeqNo \in Nat /\ LastSeqNo \in Nat /\ FirstSeqNo <= begin /\ begin <= LastSeqNo + 1
      /\ DOMAIN held \subseteq begin + 1 .. end - 1 /\ log \subseteq FirstSeqNo .. begin - 1
      /\ written \in Nat /\ synced \in Nat /\ last_id \in Nat /\ last_id <= LastSeqNo + 1
      /\ FirstSeqNo <= synced /\ synced <= written /\ written <= begin /\ end <= last_id
  BY ConcurrentBinlogAssumption DEF IInv, TypeOK, NumbersOnce
<1>5. m = channel[c][1] /\ 1 \in 1..Len(channel[c]) /\ channel[c][1].type = "add"
  BY <1>1, LeftInChannel
<1>6. m \in AddMessage
  BY <1>5, MessageFields DEF IInv
<1>7. /\ m.seq_no \in SeqNos /\ m.seq_no \in Nat /\ m.raw \in BOOLEAN /\ m.promise \in MaybePromises
      /\ begin <= m.seq_no /\ m.seq_no < last_id /\ m.seq_no \notin DOMAIN held
  BY <1>4, <1>5, <1>6 DEF AddMessage, SeqNos, IInv, NumbersOnce, SentFresh
<1>8. /\ DOMAIN all = DOMAIN held \cup {m.seq_no} /\ all[m.seq_no] = m
      /\ \A n \in DOMAIN held : all[n] = held[n]
      /\ \A n \in DOMAIN all : all[n] \in AddMessage
  BY <1>6, <1>7 DEF With, IInv, MessagesOK
<1>9. \A n \in DOMAIN all : n \in Nat /\ begin <= n /\ n < end' /\ n \in SeqNos
  BY <1>1, <1>4, <1>7, <1>8 DEF SeqNos
<1>10. /\ stop \in begin .. LastSeqNo + 1 /\ stop \notin DOMAIN all
       /\ \A k \in begin .. stop - 1 : k \in DOMAIN all
  <2>1. LastSeqNo + 1 \notin DOMAIN all
    BY <1>4, <1>9 DEF SeqNos
  <2> HIDE DEF all
  <2> QED
    BY <2>1, <1>4, RunEndExists
<1>11. stop \in Nat /\ begin <= stop /\ stop <= LastSeqNo + 1
  BY <1>4, <1>10
<1>12. end' \in Nat /\ end' <= last_id /\ end' <= LastSeqNo + 1 /\ stop <= end'
  <2>1. end' \in Nat /\ end' <= last_id /\ end' <= LastSeqNo + 1 /\ end <= end'
    BY <1>1, <1>4, <1>7
  <2>2. CASE stop = begin
    BY <2>1, <2>2, <1>4
  <2>3. CASE stop # begin
    <3>1. stop - 1 \in begin .. stop - 1
      BY <2>3, <1>4, <1>11
    <3>2. stop - 1 < end'
      BY <3>1, <1>9, <1>10
    <3> QED
      BY <3>2, <2>1, <1>11
  <2> QED
    BY <2>1, <2>2, <2>3
<1> HIDE DEF m, all, stop
<1>13. /\ DOMAIN held' = { k \in DOMAIN all : k >= stop }
       /\ \A n \in DOMAIN held' : held'[n] = all[n] /\ n \in DOMAIN all /\ n > stop /\ n < end'
  BY <1>1, <1>9, <1>10, <1>11
<1>14. raws \subseteq begin .. stop - 1 /\ \A n \in raws : n \in DOMAIN all /\ all[n].raw
  BY <1>10
<1>15. \A n \in DOMAIN all : n < stop => n \in begin .. stop - 1
  BY <1>9, <1>11, <1>4
<1>16. \A n : Arrived(n)' <=> Arrived(n) \/ (n = m.seq_no /\ m.raw)
  <2>1. \A n : Arrived(n)' <=> n \in log \/ (n \in DOMAIN all /\ all[n].raw)
    <3>1. \A n \in DOMAIN all : (n \in DOMAIN held' /\ n \notin raws) \/
                                (n \notin DOMAIN held' /\ n \in run)
      BY <1>9, <1>11, <1>13, <1>15
    <3> QED
      BY <3>1, <1>1, <1>13, <1>14 DEF Arrived
  <2> QED
    BY <2>1, <1>7, <1>8 DEF Arrived
<1>17. \A n \in Nat : Arrived(n)' /\ n < stop => n \in log'
  BY <1>11, <1>13 DEF Arrived
<1> HIDE DEF run, raws, ps, due, f1, f2, age
<1>18. ps \subseteq Promises /\ ps \subseteq DOMAIN covers
  <2>1. \A n \in run : all[n].promise \in MaybePromises
    BY <1>8, <1>10 DEF AddMessage, run
  <2>2. \A n \in run : all[n].promise \in DOMAIN covers \cup {NoPromise}
    <3>1. m.promise \in DOMAIN covers \cup {NoPromise}
      BY <1>5 DEF IInv, PromisesOnce, HeldInCovers
    <3> QED
      BY <3>1, <1>8, <1>10 DEF IInv, PromisesOnce, HeldInCovers, run
  <2> QED
    BY <2>1, <2>2 DEF ps, MaybePromises
<1>19. due \subseteq MaybePromises /\ due \ {NoPromise} \subseteq DOMAIN covers
  BY DEF due, Due, IInv, TypeOK, MaybePromises, PromisesOnce, HeldInCovers
<1>20. Flags \in FlagRecord /\ FlagsOK(Flags) /\ Flags.waiting = waiting
  BY <1>1 DEF Flags, FlagRecord, FlagsOK, IInv, TypeOK, FlagsArmed, NothingForgotten
<1>21. f1 \in FlagRecord /\ FlagsOK(f1) /\ f1.waiting = waiting \cup ps
  BY <1>18, <1>20, LazySyncOK DEF f1
<1>22. f2 \in FlagRecord /\ FlagsOK(f2) /\ f2.waiting = waiting \cup ps \cup (due \ {NoPromise})
  BY <1>19, <1>21, ImmediateSyncOK DEF f2
<1> DEFINE f3 == TryFlush(f2, age)
<1>23. /\ f3 \in FlagRecord /\ FlagsOK(f3)
       /\ f3.waiting = waiting \cup ps \cup (due \ {NoPromise})
       /\ age = "new" => f3.flush \/ f3.force
  BY <1>22, TryFlushOK
<1> HIDE DEF f3
<1>24. /\ force_sync_flag' = f3.force /\ lazy_sync_flag' = f3.lazy /\ flush_flag' = f3.flush
       /\ armed' = f3.armed /\ waiting' = f3.waiting
  BY <1>3 DEF SetFlags, f3
<1>25. w \in Nat /\ written <= w /\ w <= stop
  BY <1>4, <1>11, <1>14
<1>26. \A n \in log' : n \in Nat /\ FirstSeqNo <= n /\ n < stop
  BY <1>1, <1>4, <1>11, <1>14
<1>27. TypeOK'
  <2>1. begin' \in FirstSeqNo .. LastSeqNo + 1 /\ end' \in begin' .. LastSeqNo + 1
    BY <1>1, <1>4, <1>11, <1>12
  <2>2. DOMAIN held' \subseteq begin' + 1 .. end' - 1
    BY <1>1, <1>9, <1>11, <1>12, <1>13
  <2>3. log' \subseteq FirstSeqNo .. begin' - 1
    <3>1. \A n \in log' : n \in FirstSeqNo .. stop - 1
      BY <1>4, <1>11, <1>26
    <3> QED
      BY <3>1, <1>1
  <2>4. written' \in FirstSeqNo .. begin' /\ synced' \in FirstSeqNo .. written'
    <3>1. written' \in {w, stop} /\ synced' \in {w, synced} /\ begin' = stop
      BY <1>1, <1>3
    <3> QED
      BY <3>1, <1>4, <1>11, <1>25
  <2>5. since' \in {"none", "new", "old"}
    BY <1>3
  <2>6. /\ force_sync_flag' \in BOOLEAN /\ lazy_sync_flag' \in BOOLEAN
        /\ flush_flag' \in BOOLEAN /\ armed' \in BOOLEAN /\ waiting' \subseteq Promises
    BY <1>23, <1>24 DEF FlagRecord
  <2>7. immediate' \subseteq immediate
    BY <1>1
  <2> QED
    BY <1>1, <2>1, <2>2, <2>3, <2>4, <2>5, <2>6, <2>7 DEF IInv, TypeOK, clientVars
<1>28. /\ TakenFresh' /\ SentFresh' /\ SentOnce' /\ CallsOrdered' /\ PromiseFresh'
       /\ \A d \in Clients : \A i \in 1..Len(channel'[d]) :
            channel'[d][i].type \in {"add", "force_sync"} =>
              channel'[d][i].promise \in DOMAIN covers' \cup {NoPromise}
  <2>1. \A k \in DOMAIN all : k \in DOMAIN held \/ Brings(c, k)
    BY <1>1, <1>8 DEF Brings, m
  <2>2. /\ begin' \in Nat /\ begin <= begin'
        /\ \A k \in begin .. begin' - 1 : k \in DOMAIN held \/ Brings(c, k)
        /\ \A k \in DOMAIN held' : k \in DOMAIN held \/ Brings(c, k)
        /\ UNCHANGED <<clientVars, covers>>
    BY <2>1, <1>1, <1>10, <1>11, <1>13
  <2> QED
    BY <1>1, <2>2, ReceivedKeeps
<1>29. MessagesOK'
  <2>1. \A n \in DOMAIN held' : held'[n] \in AddMessage
    BY <1>8, <1>13
  <2> QED
    BY <2>1, <1>1, LeftInChannel DEF IInv, MessagesOK, clientVars
<1>30. NumbersOnce'
  BY <1>1, <1>12, <1>28 DEF NumbersOnce, clientVars
<1>31. HeldInCovers'
  <2>1. \A n \in DOMAIN held' : held'[n].promise \in DOMAIN covers' \cup {NoPromise}
    <3>1. m.promise \in DOMAIN covers \cup {NoPromise}
      BY <1>5 DEF IInv, PromisesOnce, HeldInCovers
    <3> QED
      BY <3>1, <1>1, <1>8, <1>13 DEF IInv, PromisesOnce, HeldInCovers
  <2>2. waiting' \subseteq DOMAIN covers
    BY <1>18, <1>19, <1>23, <1>24 DEF IInv, PromisesOnce, HeldInCovers
  <2> QED
    BY <2>1, <2>2, <1>1, <1>28 DEF IInv, PromisesOnce, HeldInCovers
<1>32. CallsArrived' /\ SentBefore'
  <2>1. /\ \A k : Arrived(k) => Arrived(k)'
        /\ \A k : Brings(c, k) /\ Head(channel[c]).raw => Arrived(k)'
    BY <1>16 DEF Brings, m
  <2> QED
    BY <2>1, <1>1, ReceivedArrives
<1>33. \A k \in DOMAIN all : all[k].promise # NoPromise =>
         \A n \in covers[all[k].promise] : Arrived(n)' /\ n <= k
  <2> SUFFICES ASSUME NEW k \in DOMAIN all, all[k].promise # NoPromise,
                      NEW n \in covers[all[k].promise]
               PROVE  Arrived(n)' /\ n <= k
    OBVIOUS
  <2>1. CASE k = m.seq_no
    <3>1. all[k] = m
      BY <2>1, <1>8
    <3>2. SentBefore
      BY <1>1 DEF IInv, CoversArrive
    <3>3. (Arrived(n) \/ OnItsWay(c, 1, n)) /\ n <= m.seq_no
      BY <3>1, <3>2, <1>5 DEF SentBefore
    <3>4. OnItsWay(c, 1, n) => n = m.seq_no /\ m.raw
      BY <1>5 DEF OnItsWay
    <3> QED
      BY <2>1, <3>3, <3>4, <1>16
  <2>2. CASE k # m.seq_no
    <3>1. k \in DOMAIN held /\ all[k] = held[k]
      BY <2>2, <1>8
    <3>2. HeldBehind
      BY <1>1 DEF IInv, CoversArrive
    <3>3. Arrived(n) /\ n <= k
      BY <3>1, <3>2 DEF HeldBehind
    <3> QED
      BY <3>3, <1>16
  <2> QED
    BY <2>1, <2>2
<1>34. HeldBehind'
  BY <1>1, <1>13, <1>33 DEF HeldBehind
<1>35. ForcedBehind'
  BY <1>1, <1>16 DEF IInv, CoversArrive, ForcedBehind
<1>36. WaitingIsLogged'
  <2>1. \A q \in DOMAIN covers : covers[q] \subseteq Nat
    BY <1>4 DEF IInv, MessagesOK, SeqNos
  <2> SUFFICES ASSUME NEW q \in waiting \cup ps \cup (due \ {NoPromise}), NEW n \in covers[q]
               PROVE  n \in log'
    BY <1>1, <1>23, <1>24 DEF WaitingIsLogged
  <2>2. CASE q \in waiting
    BY <2>2, <1>1 DEF IInv, CoversArrive, WaitingIsLogged
  <2>3. CASE q \in ps
    <3>1. PICK k \in run : q = all[k].promise /\ q # NoPromise
      BY <2>3 DEF ps
    <3>2. k \in DOMAIN all /\ k < stop /\ k \in Nat
      BY <1>4, <1>10, <1>11 DEF run
    <3>3. Arrived(n)' /\ n <= k
      BY <3>1, <3>2, <1>33
    <3>4. n \in Nat
      BY <2>1, <2>3, <1>18
    <3> QED
      BY <3>2, <3>3, <3>4, <1>11, <1>17
  <2>4. CASE q \in due \ {NoPromise}
    <3>1. PICK x \in immediate : x[1] <= stop - 1 /\ x[2] = q
      BY <2>4 DEF due, Due
    <3>2. Arrived(n) /\ n <= x[1]
      BY <3>1, <2>4, <1>1 DEF IInv, CoversArrive, ForcedBehind
    <3>3. n \in Nat /\ x[1] \in Nat
      BY <2>1, <2>4, <1>4, <1>19 DEF IInv, TypeOK, SeqNos
    <3>4. n < stop
      BY <3>1, <3>2, <3>3, <1>11
    <3> QED
      BY <3>2, <3>3, <3>4, <1>16, <1>17
  <2> QED
    BY <2>2, <2>3, <2>4
<1>37. FlagsArmed' /\ NothingForgotten'
  <2>1. FlagsArmed' /\ (waiting' # {} => armed' /\ (lazy_sync_flag' \/ force_sync_flag'))
    BY <1>23, <1>24 DEF FlagsArmed, FlagsOK, FlagRecord
  <2>2. Unwritten(log, written)' # {} => age = "new"
    <3>1. Unwritten(log', stop) = {}
      BY <1>11, <1>26 DEF Unwritten
    <3> QED
      BY <3>1, <1>3
  <2>3. age = "new" => armed' /\ (flush_flag' \/ lazy_sync_flag' \/ force_sync_flag')
    BY <1>23, <1>24 DEF FlagsOK, FlagRecord
  <2>4. \A x \in immediate' : x[1] >= begin'
    <3>1. \A x \in immediate : x[1] \in Nat
      BY <1>4 DEF IInv, TypeOK, SeqNos
    <3> QED
      BY <3>1, <1>1, <1>11 DEF Due
  <2> QED
    BY <2>1, <2>2, <2>3, <2>4 DEF NothingForgotten
<1>38. AnsweredIsSynced'
  <2>1. \A n \in log : n < synced => n < synced'
    BY <1>3, <1>4, <1>25
  <2> QED
    BY <2>1, <1>1 DEF IInv, AnsweredIsSynced
<1> QED
  BY <1>27, <1>28, <1>29, <1>30, <1>31, <1>32, <1>34, <1>35, <1>36, <1>37, <1>38
     DEF IInv, PromisesOnce, CallsArrive, CoversArrive
-----------------------------------------------------------------------------
LEMMA NextInv == IInv /\ [Next]_vars => IInv'
<1> SUFFICES ASSUME IInv, [Next]_vars PROVE IInv'
  OBVIOUS
<1>1. ASSUME NEW c \in Clients, NextId(c) PROVE IInv'
  BY <1>1, NextIdKeeps
<1>2. ASSUME NEW c \in Clients, NEW raw \in BOOLEAN, NEW wants \in BOOLEAN,
             SendAdd(c, raw, wants)
      PROVE  IInv'
  BY <1>2, SendAddKeeps
<1>3. ASSUME NEW c \in Clients, NEW wants \in BOOLEAN, SendForceSync(c, wants) PROVE IInv'
  BY <1>3, SendForceSyncKeeps
<1>4. ASSUME NEW c \in Clients, NEW type \in {"force_flush", "change_key"}, SendOther(c, type)
      PROVE  IInv'
  BY <1>4, SendOtherKeeps
<1>5. ASSUME NEW c \in Clients, NEW type \in {"close", "close_and_destroy"}, SendClose(c, type)
      PROVE  IInv'
  BY <1>5, SendCloseKeeps
<1>6. ASSUME NEW c \in Clients, Actor(c) PROVE IInv'
  BY <1>6, AddRawEventKeeps, ForceSyncKeeps, ForceFlushKeeps, ChangeKeyKeeps, CloseBinlogKeeps,
     CloseAndDestroyKeeps, UndeliveredKeeps DEF Actor
<1>7. CASE TimeoutExpired
  BY <1>7, TimeoutExpiredKeeps
<1>8. CASE Tick
  BY <1>8, TickKeeps
<1>9. CASE UNCHANGED vars
  BY <1>9, StutterKeeps
<1> QED
  BY <1>1, <1>2, <1>3, <1>4, <1>5, <1>6, <1>7, <1>8, <1>9 DEF Next

(***************************************************************************)
(* The types and the order of the positions: what is synced was written,   *)
(* what was written was added, in order.                                   *)
(***************************************************************************)
THEOREM TypeCorrect == Spec => []TypeOK
<1>1. IInv => TypeOK
  BY DEF IInv
<1> QED
  BY <1>1, InitInv, NextInv, PTL DEF Spec

(***************************************************************************)
(* BinlogActor forgets no work: what waits for a sync, and what was not    *)
(* written, has its timeout and its flag; and a forced sync that still     *)
(* waits for events waits for one that was not added.                      *)
(***************************************************************************)
THEOREM NothingIsForgotten == Spec => []NothingForgotten
<1>1. IInv => NothingForgotten
  BY DEF IInv
<1> QED
  BY <1>1, InitInv, NextInv, PTL DEF Spec

(***************************************************************************)
(* A promise of an event or of force_sync that is answered without an      *)
(* error speaks only for events that are synced.                           *)
(***************************************************************************)
THEOREM AnswersAreSynced == Spec => []AnsweredIsSynced
<1>1. IInv => AnsweredIsSynced
  BY DEF IInv
<1> QED
  BY <1>1, InitInv, NextInv, PTL DEF Spec
=============================================================================
