--------------------------- MODULE ConcurrentBinlog ---------------------------
(***************************************************************************)
(* tddb/td/db/binlog/ConcurrentBinlog.cpp: many threads write to one log.  *)
(* A client takes a number from an atomic counter, later sends its event   *)
(* with that number to BinlogActor, which puts the events back into number *)
(* order, writes them to the Binlog, and decides when to flush and when to *)
(* sync it: promises that came with events are answered by a lazy sync,    *)
(* those of force_sync by an immediate one.                                *)
(*                                                                         *)
(* The sequencer processor_ is used by its specification InOrderDelivery,  *)
(* the Binlog by how much of it is added, written and synced (see          *)
(* Binlog.tla): events are added in the order of their numbers, so that a  *)
(* position in the log is given by a number, the first one behind it.      *)
(* Messages of one client arrive in order; those of different clients in   *)
(* any order.                                                              *)
(***************************************************************************)
EXTENDS Integers, Sequences

CONSTANTS
  Clients,
  FirstSeqNo,   \* peek_next_id() of the opened Binlog
  LastSeqNo,    \* bound: the largest number taken
  MaxForce,     \* bound: number of force_sync calls
  MaxOther,     \* bound: number of force_flush and change_key calls
  MaxCalls      \* bound: number of all of these together

ASSUME ConcurrentBinlogAssumption ==
  /\ FirstSeqNo \in Nat \ {0}
  /\ LastSeqNo \in Nat /\ FirstSeqNo <= LastSeqNo + 1
  /\ {MaxForce, MaxOther, MaxCalls} \subseteq Nat
  /\ Clients # {}

VARIABLES
  last_id,          \* ConcurrentBinlog::last_id_
  taken,            \* the number a client took and has not used, or 0
  calls,            \* history: the numbers each client has sent
  channel,          \* messages a client sent to the actor
  begin, end, held, \* processor_: begin_, end_, and the events it holds back
  log,              \* the numbers of the events added to binlog_
  written, synced,  \* up to where it was given to write(), to fsync()
  since,            \* need_flush_since_: "none", "new", or "old" (over 1 ms)
  immediate,        \* immediate_sync_promises_, pairs <<number, promise>>
  waiting,          \* sync_promises_
  force_sync_flag, lazy_sync_flag, flush_flag,
  armed,            \* wakeup_at_ # 0: the actor's timeout is set
  answer,           \* history: promises answered, and how
  covers,           \* history: the numbers a promise speaks for
  forced, others,   \* counters of calls, for their bounds
  closing, closed

clientVars == <<last_id, taken, calls, forced, others, closing>>
binlogVars == <<log, written, synced, since>>
flags      == <<force_sync_flag, lazy_sync_flag, flush_flag, armed>>
vars == <<clientVars, channel, begin, end, held, binlogVars, immediate, waiting,
          flags, answer, covers, closed>>

SeqNos == FirstSeqNo .. LastSeqNo

(* promises: the one of an added event, the one of a forced sync, none *)
NoPromise == <<"none", 0>>
EventPromise(n) == <<"event", n>>
SyncPromise(n) == <<"force", n>>
Promises == { EventPromise(n) : n \in SeqNos } \cup { SyncPromise(n) : n \in 1..MaxForce }

Init ==
  /\ last_id = FirstSeqNo
  /\ taken = [c \in Clients |-> 0]
  /\ calls = [c \in Clients |-> {}]
  /\ channel = [c \in Clients |-> <<>>]
  /\ begin = FirstSeqNo /\ end = FirstSeqNo
  /\ held = [n \in {} |-> 0]
  /\ log = {} /\ written = FirstSeqNo /\ synced = FirstSeqNo /\ since = "none"
  /\ immediate = {} /\ waiting = {}
  /\ force_sync_flag = FALSE /\ lazy_sync_flag = FALSE /\ flush_flag = FALSE
  /\ armed = FALSE
  /\ answer = [p \in {} |-> ""]
  /\ covers = [p \in {} |-> {}]
  /\ forced = 0 /\ others = 0 /\ closing = FALSE /\ closed = FALSE

actorVars == <<begin, end, held, binlogVars, immediate, waiting, flags, answer, closed>>
-----------------------------------------------------------------------------
(* Clients *)

MayCall == ~closing /\ last_id - FirstSeqNo + forced + others < MaxCalls

(* next_id(): fetch_add *)
NextId(c) ==
  /\ MayCall
  /\ taken[c] = 0
  /\ last_id \in SeqNos
  /\ taken' = [taken EXCEPT ![c] = last_id]
  /\ last_id' = last_id + 1
  /\ UNCHANGED <<calls, forced, others, closing, channel, covers, actorVars>>

Covering(p, numbers) ==
  covers' = [q \in DOMAIN covers \cup {p} |-> IF q = p THEN numbers ELSE covers[q]]

(* add_raw_event_impl, or lazy_sync when there is no event *)
SendAdd(c, raw, wants) ==
  LET n == taken[c]
      p == IF wants THEN EventPromise(n) ELSE NoPromise
  IN /\ n # 0
     /\ raw \/ wants
     /\ channel' = [channel EXCEPT ![c] =
                      Append(@, [type |-> "add", seq_no |-> n, raw |-> raw, promise |-> p])]
     /\ taken' = [taken EXCEPT ![c] = 0]
     /\ calls' = [calls EXCEPT ![c] = IF raw THEN @ \cup {n} ELSE @]
     /\ IF wants THEN Covering(p, calls'[c]) ELSE UNCHANGED covers
     /\ UNCHANGED <<last_id, forced, others, closing, actorVars>>

(* force_sync: the promise, if there is one, is to speak for all that this *)
(* client has sent                                                         *)
SendForceSync(c, wants) ==
  /\ MayCall
  /\ taken[c] = 0
  /\ forced < MaxForce
  /\ forced' = forced + 1
  /\ channel' = [channel EXCEPT ![c] =
                   Append(@, [type |-> "force_sync",
                              promise |-> IF wants THEN SyncPromise(forced + 1) ELSE NoPromise])]
  /\ IF wants THEN Covering(SyncPromise(forced + 1), calls[c]) ELSE UNCHANGED covers
  /\ UNCHANGED <<last_id, taken, calls, others, closing, actorVars>>

(* force_flush and change_key *)
SendOther(c, type) ==
  /\ MayCall
  /\ taken[c] = 0
  /\ others < MaxOther
  /\ others' = others + 1
  /\ channel' = [channel EXCEPT ![c] = Append(@, [type |-> type])]
  /\ UNCHANGED <<last_id, taken, calls, forced, closing, covers, actorVars>>

(* close_impl and close_and_destroy_impl: the owner gives the actor away;  *)
(* nobody calls it afterwards.                                             *)
SendClose(c, type) ==
  /\ ~closing
  /\ \A d \in Clients : taken[d] = 0
  /\ closing' = TRUE
  /\ channel' = [channel EXCEPT ![c] = Append(@, [type |-> type])]
  /\ UNCHANGED <<last_id, taken, calls, forced, others, covers, actorVars>>
-----------------------------------------------------------------------------
(* The actor.  A message is received from some client's channel. *)

Receive(c, type) ==
  /\ ~closed
  /\ channel[c] # <<>>
  /\ Head(channel[c]).type = type
  /\ channel' = [channel EXCEPT ![c] = Tail(@)]

Answered(ps, how) == [p \in DOMAIN answer \cup ps |-> IF p \in ps THEN how ELSE answer[p]]

(* the flags, the timeout and sync_promises_, as a record that the parts   *)
(* of a handler transform in turn                                          *)
Flags == [force |-> force_sync_flag, lazy |-> lazy_sync_flag, flush |-> flush_flag,
          armed |-> armed, waiting |-> waiting]

(* processor_.add: the events held back, and m *)
With(m) == [n \in DOMAIN held \cup {m.seq_no} |-> IF n = m.seq_no THEN m ELSE held[n]]

(* the events from begin_ up to the first one missing are run *)
RunEnd(events) ==
  CHOOSE n \in begin .. LastSeqNo + 1 :
    n \notin DOMAIN events /\ \A k \in begin .. n - 1 : k \in DOMAIN events

(* the promises ps go to do_lazy_sync *)
LazySync(f, ps) ==
  IF ps = {} THEN f
  ELSE [f EXCEPT !.waiting = @ \cup ps,
                 !.lazy  = @ \/ ~f.force,
                 !.armed = @ \/ (~f.lazy /\ ~f.force)]

(* do_immediate_sync trusts a lazy sync to have set the timeout, and a     *)
(* flush to be one                                                         *)
ImmediateSync_NotArmed(f, ps) ==
  IF ps = {} THEN f
  ELSE [f EXCEPT !.waiting = @ \cup (ps \ {NoPromise}), !.force = TRUE]

(* the promises ps go to do_immediate_sync *)
ImmediateSync(f, ps) ==
  IF ps = {} THEN f
  ELSE [f EXCEPT !.waiting = @ \cup (ps \ {NoPromise}),
                 !.force = TRUE,
                 !.armed = @ \/ ~f.force]

(* try_flush: a buffer not yet old enough waits for the timeout *)
TryFlush(f, age) ==
  IF age = "new" /\ ~f.force THEN [f EXCEPT !.flush = TRUE, !.armed = TRUE] ELSE f

SetFlags(f) ==
  /\ force_sync_flag' = f.force
  /\ lazy_sync_flag' = f.lazy
  /\ flush_flag' = f.flush
  /\ armed' = f.armed
  /\ waiting' = f.waiting

(* the sync that waits for the last added event is forgotten *)
Due_OffByOne(b) == { x \in immediate : x[1] < b - 1 }

(* flush_immediate_sync: the forced syncs whose events have all been added *)
Due(b) == { x \in immediate : x[1] <= b - 1 }

(* the events of log that were not given to write() *)
Unwritten(events, position) == { n \in events : n >= position }

(* add_raw_event.  Adding to the binlog may also write its buffer, up to   *)
(* some event (lazy_flush), or reindex it, that is, sync it (add_event).   *)
AddRawEvent(c) ==
  LET m    == Head(channel[c])
      all  == With(m)
      stop == RunEnd(all)
      run  == begin .. stop - 1
      raws == { n \in run : all[n].raw }
      f1   == LazySync(Flags, { all[n].promise : n \in run } \ {NoPromise})
      f2   == ImmediateSync(f1, { x[2] : x \in Due(stop) })
  IN /\ Receive(c, "add")
     /\ begin' = stop
     /\ held' = [n \in { k \in DOMAIN all : k >= stop } |-> all[n]]
     /\ end' = IF m.seq_no + 1 > end THEN m.seq_no + 1 ELSE end
     /\ log' = log \cup raws
     /\ immediate' = immediate \ Due(stop)
     /\ \E w \in {written} \cup { n + 1 : n \in raws }, reindex \in BOOLEAN :
          LET age == IF Unwritten(log', w) = {} THEN "none"
                     ELSE IF w = written /\ since # "none" THEN since ELSE "new"
          IN /\ reindex => w > written
             /\ synced' = IF reindex THEN w ELSE synced
             /\ written' = IF age = "new" THEN w ELSE stop
             /\ since' = IF age = "new" THEN "new" ELSE "none"
             /\ SetFlags(TryFlush(f2, age))
     /\ UNCHANGED <<clientVars, answer, covers, closed>>

(* force_sync waits for nothing: the events still on their way are ignored *)
ForceSync_Now(c) ==
  /\ Receive(c, "force_sync")
  /\ SetFlags(ImmediateSync(Flags, {Head(channel[c]).promise}))
  /\ UNCHANGED <<clientVars, begin, end, held, binlogVars, immediate, answer, covers, closed>>

(* force_sync: if events are held back, the sync has to wait for them *)
ForceSync(c) ==
  LET p == Head(channel[c]).promise
  IN /\ Receive(c, "force_sync")
     /\ \/ /\ begin = end
           /\ SetFlags(ImmediateSync(Flags, {p}))
           /\ UNCHANGED immediate
        \/ /\ begin # end
           /\ immediate' = immediate \cup {<<end - 1, p>>}
           /\ UNCHANGED <<flags, waiting>>
     /\ UNCHANGED <<clientVars, begin, end, held, binlogVars, answer, covers, closed>>

ForceFlush(c) ==
  /\ Receive(c, "force_flush")
  /\ written' = begin /\ since' = "none"
  /\ flush_flag' = FALSE
  /\ UNCHANGED <<clientVars, begin, end, held, log, synced, immediate, waiting,
                 force_sync_flag, lazy_sync_flag, armed, answer, covers, closed>>

(* change_key: the reindex syncs what is in the binlog *)
ChangeKey(c) ==
  /\ Receive(c, "change_key")
  /\ written' = begin /\ synced' = begin /\ since' = "none"
  /\ UNCHANGED <<clientVars, begin, end, held, log, immediate, waiting, flags,
                 answer, covers, closed>>

(* the promises the stopped actor holds are destroyed, which answers them  *)
(* with an error                                                           *)
Stop ==
  LET holds == { held[n].promise : n \in DOMAIN held } \cup waiting
                 \cup { x[2] : x \in immediate }
  IN /\ answer' = Answered(holds \ {NoPromise}, "lost")
     /\ held' = [n \in {} |-> 0] /\ waiting' = {} /\ immediate' = {}
     /\ closed' = TRUE
     /\ UNCHANGED <<clientVars, begin, end, flags, covers>>

(* close: the binlog is synced and the actor stops *)
CloseBinlog(c) ==
  /\ Receive(c, "close")
  /\ written' = begin /\ synced' = begin /\ since' = "none"
  /\ Stop
  /\ UNCHANGED log

(* close_and_destroy: the binlog is flushed, not synced; then its files    *)
(* are removed (the variables keep what was in them)                       *)
CloseAndDestroy(c) ==
  /\ Receive(c, "close_and_destroy")
  /\ written' = begin /\ since' = "none"
  /\ Stop
  /\ UNCHANGED <<log, synced>>

(* a message to the stopped actor is destroyed with its promise *)
Undelivered(c) ==
  LET m == Head(channel[c])
  IN /\ closed
     /\ channel[c] # <<>>
     /\ channel' = [channel EXCEPT ![c] = Tail(@)]
     /\ answer' = IF m.type \in {"add", "force_sync"}
                    THEN Answered({m.promise} \ {NoPromise}, "lost") ELSE answer
     /\ UNCHANGED <<clientVars, begin, end, held, binlogVars, immediate, waiting,
                    flags, covers, closed>>

(* timeout_expired *)
TimeoutExpired ==
  LET sync  == lazy_sync_flag \/ force_sync_flag
      flush == ~sync /\ flush_flag /\ since # "new"
      off   == [force |-> FALSE, lazy |-> FALSE, flush |-> FALSE, armed |-> FALSE,
                waiting |-> IF sync THEN {} ELSE waiting]
  IN /\ ~closed
     /\ armed
     /\ SetFlags(IF ~sync /\ flush_flag THEN TryFlush(off, since) ELSE off)
     /\ written' = IF sync \/ flush THEN begin ELSE written
     /\ since' = IF sync \/ flush THEN "none" ELSE since
     /\ synced' = IF sync THEN begin ELSE synced
     /\ answer' = IF sync THEN Answered(waiting, "ok") ELSE answer
     /\ UNCHANGED <<clientVars, channel, begin, end, held, log, immediate, covers, closed>>

(* a millisecond passes *)
Tick ==
  /\ since = "new"
  /\ since' = "old"
  /\ UNCHANGED <<clientVars, channel, begin, end, held, log, written, synced, immediate,
                 waiting, flags, answer, covers, closed>>

Actor(c) ==
  AddRawEvent(c) \/ ForceSync(c) \/ ForceFlush(c) \/ ChangeKey(c) \/ CloseBinlog(c)
    \/ CloseAndDestroy(c) \/ Undelivered(c)

Next ==
  \/ \E c \in Clients :
       \/ NextId(c)
       \/ \E raw, wants \in BOOLEAN : SendAdd(c, raw, wants)
       \/ \E wants \in BOOLEAN : SendForceSync(c, wants)
       \/ \E type \in {"force_flush", "change_key"} : SendOther(c, type)
       \/ \E type \in {"close", "close_and_destroy"} : SendClose(c, type)
       \/ Actor(c)
  \/ TimeoutExpired
  \/ Tick

(* A client that took a number goes on to send it (there is no return      *)
(* between the two in binlog_add, binlog_rewrite, binlog_erase, set and    *)
(* erase); the scheduler delivers messages and timeouts; time passes.      *)
(* Actor(c) is enabled whenever the channel is not empty.                  *)
Fairness ==
  /\ \A c \in Clients :
       /\ WF_vars(\E raw, wants \in BOOLEAN : SendAdd(c, raw, wants))
       /\ []<>(channel[c] = <<>>) \/ []<><<Actor(c)>>_vars
  /\ WF_vars(TimeoutExpired)
  /\ WF_vars(Tick)

Spec == Init /\ [][Next]_vars /\ Fairness
-----------------------------------------------------------------------------
(***************************************************************************)
(* Types, and the order of the positions: what is synced was written, what *)
(* was written was added, and the sequencer holds back only events behind  *)
(* the one it waits for.                                                   *)
(***************************************************************************)
TypeOK ==
  /\ last_id \in FirstSeqNo .. LastSeqNo + 1
  /\ taken \in [Clients -> SeqNos \cup {0}]
  /\ calls \in [Clients -> SUBSET SeqNos]
  /\ begin \in FirstSeqNo .. LastSeqNo + 1 /\ end \in begin .. LastSeqNo + 1
  /\ DOMAIN held \subseteq begin + 1 .. end - 1
  /\ log \subseteq FirstSeqNo .. begin - 1
  /\ written \in FirstSeqNo .. begin /\ synced \in FirstSeqNo .. written
  /\ since \in {"none", "new", "old"}
  /\ waiting \subseteq Promises
  /\ immediate \subseteq SeqNos \X (Promises \cup {NoPromise})
  /\ \A p \in DOMAIN answer : answer[p] \in {"ok", "lost"}
  /\ force_sync_flag \in BOOLEAN /\ lazy_sync_flag \in BOOLEAN /\ flush_flag \in BOOLEAN
  /\ armed \in BOOLEAN /\ closed \in BOOLEAN

(***************************************************************************)
(* A promise is answered without an error only when every event it speaks  *)
(* for is synced: the event it came with and whatever its client had sent  *)
(* before, also when other clients' messages were slower and had to be     *)
(* waited for.                                                             *)
(***************************************************************************)
AnsweredIsSynced ==
  \A p \in DOMAIN answer :
    answer[p] = "ok" => covers[p] \subseteq { n \in log : n < synced }

(***************************************************************************)
(* No work is forgotten: whenever a promise waits for a sync or an event   *)
(* for being written, the actor's timeout is set and a flag says what it   *)
(* has to do; and a forced sync still waiting for events waits for one     *)
(* that has not been added.                                                *)
(***************************************************************************)
NothingForgotten ==
  ~closed =>
    /\ waiting # {} => armed /\ (lazy_sync_flag \/ force_sync_flag)
    /\ Unwritten(log, written) # {} => armed /\ (flush_flag \/ lazy_sync_flag \/ force_sync_flag)
    /\ \A x \in immediate : x[1] >= begin

(***************************************************************************)
(* Every promise given to the log is eventually answered, and every event  *)
(* handed over before the closing is eventually given to write(), however  *)
(* the messages of the clients, the timeouts and the closing interleave:   *)
(* numbers taken by others are used in the end, and nothing stays in the   *)
(* buffer because nobody set the timeout.  As the number of calls is       *)
(* bounded, this is to say that again and again all of them are served.    *)
(***************************************************************************)
EveryRequestServed ==
  []<>(/\ DOMAIN covers \subseteq DOMAIN answer
       /\ closed \/ UNION { calls[c] : c \in Clients } \subseteq { n \in log : n < written })
=============================================================================
