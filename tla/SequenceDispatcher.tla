-------------------------- MODULE SequenceDispatcher --------------------------
(***************************************************************************)
(* td/telegram/SequenceDispatcher.cpp: queries of one sequence (the        *)
(* messages sent to one chat) must be executed by the server in the order  *)
(* they were given.  The dispatcher keeps several of them in flight, each  *)
(* sent with invokeAfter its predecessor; when the chain breaks, a new     *)
(* generation is started from the first unfinished query.  Answers find    *)
(* their query through a token, a position corrected by id_offset_.        *)
(* MultiSequenceDispatcher creates the dispatcher of a sequence on demand  *)
(* and closes it when it has been idle.                                    *)
(*                                                                         *)
(* The session, the delayer and the server are external; they are modelled *)
(* from net/Session.cpp and net/NetQueryDelayer.cpp as far as they decide  *)
(* what happens to a query and which message it is invoked after.          *)
(* Positions are those of the code, from 0; timeouts are counted in units  *)
(* of one delay.                                                           *)
(***************************************************************************)
EXTENDS Integers, Sequences, FiniteSets, FiniteSetsExt, SequencesExt

CONSTANTS
  MaxQueries,     \* bound: number of queries
  MaxWait,        \* MAX_SIMULTANEOUS_WAIT
  ShrinkMin,      \* the constant 5 of try_shrink
  TotalLimit,     \* total_timeout_limit, in delays
  MaxFails,       \* bound: failures of messages at the server
  MaxResends,     \* bound: resends asked for by callbacks
  MaxCancels      \* bound: queries cancelled by their owner

ASSUME SequenceDispatcherAssumption ==
  /\ {MaxQueries, ShrinkMin, TotalLimit, MaxFails, MaxResends, MaxCancels} \subseteq Nat
  /\ MaxWait \in Nat \ {0}

VARIABLES
  data,           \* data_: records of state, generation, delays, query
  id_offset, finish_i, next_i, last_sent_i, generation, wait_cnt,
  timer,          \* the actor's timeout is set
  net,            \* where each query is outside of data_
  msgs,           \* the messages the server has seen
  total,          \* total_timeout of each query
  open, cnt,      \* the parent's entry: whether there is one, and its cnt_
  inbox, outbox,  \* messages from and to the parent
  given, finished, cancelled, lost,  \* history
  fails, resends  \* for their bounds

indices == <<id_offset, finish_i, next_i, last_sent_i, generation, wait_cnt>>
parent  == <<open, cnt, given>>
limits  == <<cancelled, fails, resends>>
vars == <<data, indices, timer, net, msgs, total, parent, inbox, outbox,
          finished, lost, limits>>

Queries == 1 .. MaxQueries
NoIndex == -1     \* numeric_limits<size_t>::max()
NoQuery == 0

Nowhere == [at |-> "none", token |-> 0, after |-> NoQuery, msg |-> 0, kind |-> "none",
            slow |-> FALSE]

Init ==
  /\ data = <<>>
  /\ id_offset = 1 /\ finish_i = 0 /\ next_i = 0 /\ last_sent_i = NoIndex
  /\ generation = 1 /\ wait_cnt = 0
  /\ timer = FALSE
  /\ net = [q \in Queries |-> Nowhere]
  /\ msgs = <<>>
  /\ total = [q \in Queries |-> 0]
  /\ open = FALSE /\ cnt = 0 /\ inbox = <<>> /\ outbox = <<>>
  /\ given = 0 /\ finished = {} /\ cancelled = {} /\ lost = {}
  /\ fails = 0 /\ resends = 0
-----------------------------------------------------------------------------
(* A handler changes the dispatcher in several steps: each is an operator  *)
(* from a state of the dispatcher, a record, to the next.                  *)

State == [data |-> data, id_offset |-> id_offset, finish_i |-> finish_i, next_i |-> next_i,
          last_sent_i |-> last_sent_i, generation |-> generation, wait_cnt |-> wait_cnt,
          timer |-> timer, net |-> net, total |-> total, outbox |-> outbox,
          finished |-> finished]

Becomes(s) ==
  /\ data' = s.data /\ id_offset' = s.id_offset /\ finish_i' = s.finish_i
  /\ next_i' = s.next_i /\ last_sent_i' = s.last_sent_i /\ generation' = s.generation
  /\ wait_cnt' = s.wait_cnt /\ timer' = s.timer /\ net' = s.net /\ total' = s.total
  /\ outbox' = s.outbox /\ finished' = s.finished

Size(s) == Len(s.data)
At(s, i) == s.data[i + 1]
Positions(s) == 0 .. Size(s) - 1
InState(s, state) == { i \in Positions(s) : At(s, i).state = state }

(* check_timeout() of the positions in ps, whose total_timeout_ counts:    *)
(* queries that have waited too long for their turn get an error, which    *)
(* try_resend_query() hands to the callback                                *)
CheckTimeouts(s, ps) ==
  LET start  == ps \cap InState(s, "Start")
      sum(i) == s.total[At(s, i).query] + At(s, i).total
      late   == { i \in start : sum(i) > TotalLimit }
      Of(q)  == CHOOSE i \in start : At(s, i).query = q
  IN [s EXCEPT
        !.total = [q \in Queries |->
                     IF \E i \in start : At(s, i).query = q THEN sum(Of(q)) ELSE @[q]],
        !.data  = [j \in 1..Size(s) |->
                     IF j - 1 \notin start THEN @[j]
                     ELSE [@[j] EXCEPT !.total = 0,
                                       !.state = IF j - 1 \in late THEN "Wait" ELSE "Start"]],
        !.net   = [q \in Queries |->
                     IF \E i \in late : At(s, i).query = q
                       THEN [@[q] EXCEPT !.at = "callback", !.kind = "error",
                                         !.token = Of(q) + s.id_offset]
                       ELSE @[q]],
        !.wait_cnt = @ + Cardinality(late)]

(* try_resend_query(): the callback decides what becomes of the answer *)
TryResendQuery(s, i) ==
  [s EXCEPT !.data[i + 1].state = "Wait",
            !.wait_cnt = @ + 1,
            !.net[At(s, i).query] = [@ EXCEPT !.at = "callback", !.token = i + s.id_offset]]

(* data_from_token() *)
DataFromToken(s, token) ==
  [s EXCEPT !.data[token - s.id_offset + 1].state = "Dummy", !.wait_cnt = @ - 1]

(* the chain is not restarted from the first unfinished query *)
DoResend_NextKept(s, i) ==
  LET restart == At(s, i).generation = s.generation
      q       == At(s, i).query
  IN CheckTimeouts(
       [s EXCEPT !.data[i + 1].state = "Start",
                 !.net[q].at = "none",
                 !.generation = IF restart THEN @ + 1 ELSE @,
                 !.last_sent_i = IF restart THEN NoIndex ELSE @],
       {i})

(* the new chain starts at the failed query, not at the first unfinished *)
DoResend_KeepsChain(s, i) ==
  LET restart == At(s, i).generation = s.generation
      q       == At(s, i).query
  IN CheckTimeouts(
       [s EXCEPT !.data[i + 1].state = "Start",
                 !.net[q].at = "none",
                 !.next_i = IF restart THEN i ELSE @,
                 !.generation = IF restart THEN @ + 1 ELSE @,
                 !.last_sent_i = IF restart THEN NoIndex ELSE @],
       {i})

(* do_resend(): a failed query of the current chain ends the chain *)
DoResend(s, i) ==
  LET restart == At(s, i).generation = s.generation
      q       == At(s, i).query
  IN CheckTimeouts(
       [s EXCEPT !.data[i + 1].state = "Start",
                 !.net[q].at = "none",
                 !.next_i = IF restart THEN s.finish_i ELSE @,
                 !.generation = IF restart THEN @ + 1 ELSE @,
                 !.last_sent_i = IF restart THEN NoIndex ELSE @],
       {i})

(* do_finish() *)
DoFinish(s, i) ==
  [s EXCEPT !.data[i + 1].state = "Finish",
            !.net[At(s, i).query].at = "none",
            !.finished = @ \cup {At(s, i).query},
            !.outbox = Append(@, "result")]

(* the offset of the tokens is not moved *)
TryShrink_OffsetKept(s) ==
  IF s.finish_i * 2 > Size(s) /\ Size(s) > ShrinkMin
    THEN [s EXCEPT !.data = SubSeq(@, s.finish_i + 1, Size(s)),
                   !.next_i = @ - s.finish_i,
                   !.last_sent_i = IF @ # NoIndex /\ @ >= s.finish_i
                                     THEN @ - s.finish_i ELSE NoIndex,
                   !.finish_i = 0]
    ELSE s

(* try_shrink(): the finished queries at the front are dropped *)
TryShrink(s) ==
  IF s.finish_i * 2 > Size(s) /\ Size(s) > ShrinkMin
    THEN [s EXCEPT !.data = SubSeq(@, s.finish_i + 1, Size(s)),
                   !.next_i = @ - s.finish_i,
                   !.last_sent_i = IF @ # NoIndex /\ @ >= s.finish_i
                                     THEN @ - s.finish_i ELSE NoIndex,
                   !.id_offset = @ + s.finish_i,
                   !.finish_i = 0]
    ELSE s

(* the first loop of loop() and the correction of next_i_ *)
Advance(s) ==
  LET first == Min({ i \in s.finish_i .. Size(s) :
                       i = Size(s) \/ At(s, i).state # "Finish" })
  IN [s EXCEPT !.finish_i = first, !.next_i = IF @ < first THEN first ELSE @]

(* the queries sent by the second loop: from next_i_ up to a query that is *)
(* still awaited, as many as may be in flight                              *)
SendEnd(s) ==
  Min({ k \in s.next_i .. Size(s) :
          \/ k = Size(s)
          \/ At(s, k).state = "Wait"
          \/ s.wait_cnt + Cardinality({ j \in InState(s, "Start") : s.next_i <= j /\ j < k })
               >= MaxWait })

(* every query of a chain is sent without invokeAfter *)
InvokeAfter_None(s, sent, j) == NoQuery

(* the query that the one at j is invoked after: the one sent before it,   *)
(* if that is still awaited                                                *)
InvokeAfter(s, sent, j) ==
  LET before == { i \in sent : i < j }
  IN IF before # {} THEN At(s, Max(before)).query
     ELSE IF s.last_sent_i # NoIndex /\ At(s, s.last_sent_i).state = "Wait"
       THEN At(s, s.last_sent_i).query
     ELSE NoQuery

SendQueries(s) ==
  LET end   == SendEnd(s)
      sent  == { j \in InState(s, "Start") : s.next_i <= j /\ j < end }
      Of(q) == CHOOSE j \in sent : At(s, j).query = q
  IN [s EXCEPT
        !.data = [j \in 1..Size(s) |->
                    IF j - 1 \in sent
                      THEN [@[j] EXCEPT !.state = "Wait", !.generation = s.generation]
                      ELSE @[j]],
        !.net  = [q \in Queries |->
                    IF \E j \in sent : At(s, j).query = q
                      THEN [Nowhere EXCEPT !.at = "session",
                                           !.token = Of(q) + s.id_offset,
                                           !.after = InvokeAfter(s, sent, Of(q))]
                      ELSE @[q]],
        !.wait_cnt = @ + Cardinality(sent),
        !.next_i = end,
        !.last_sent_i = IF sent = {} THEN @ ELSE Max(sent)]

(* loop() *)
Loop(s) ==
  LET t == TryShrink(SendQueries(Advance(s)))
  IN [t EXCEPT !.timer = @ \/ t.finish_i = Size(t)]
-----------------------------------------------------------------------------
(* The parent, MultiSequenceDispatcher *)

(* send_with_callback() of the parent; the first query creates a dispatcher *)
ParentSend ==
  /\ given < MaxQueries
  /\ given' = given + 1
  /\ cnt' = IF open THEN cnt + 1 ELSE 1
  /\ open' = TRUE
  /\ inbox' = Append(inbox, given + 1)
  /\ UNCHANGED <<data, indices, timer, net, msgs, total, outbox, finished, lost, limits>>

(* on_result() of the parent *)
ParentResult ==
  /\ outbox # <<>> /\ Head(outbox) = "result"
  /\ outbox' = Tail(outbox)
  /\ cnt' = cnt - 1
  /\ UNCHANGED <<data, indices, timer, net, msgs, total, open, given, inbox,
                 finished, lost, limits>>

(* the dispatcher is closed whenever it asks for it *)
MayClose_Always == TRUE

MayClose == cnt = 0

(* ready_to_close() of the parent; erasing the entry hangs the dispatcher  *)
(* up, which stops and gives up what it still has                          *)
ParentReadyToClose ==
  /\ outbox # <<>> /\ Head(outbox) = "ready"
  /\ outbox' = Tail(outbox)
  /\ IF MayClose
       THEN /\ open' = FALSE
            /\ lost' = lost \cup (1 .. given \ finished)
            /\ data' = <<>>
            /\ id_offset' = 1 /\ finish_i' = 0 /\ next_i' = 0 /\ last_sent_i' = NoIndex
            /\ generation' = 1 /\ wait_cnt' = 0
            /\ timer' = FALSE
            /\ inbox' = <<>>
            /\ net' = [q \in Queries |-> Nowhere]
       ELSE UNCHANGED <<open, lost, data, indices, timer, inbox, net>>
  /\ UNCHANGED <<msgs, total, cnt, given, finished, limits>>
-----------------------------------------------------------------------------
(* The dispatcher *)

(* send_with_callback(): cancel_timeout, push_back, loop *)
SendWithCallback ==
  /\ inbox # <<>>
  /\ inbox' = Tail(inbox)
  /\ Becomes(Loop([State EXCEPT
                     !.timer = FALSE,
                     !.data = Append(@, [state |-> "Start", generation |-> 0, total |-> 0,
                                         query |-> Head(inbox)])]))
  /\ UNCHANGED <<msgs, parent, lost, limits>>

(* on_result(): a query that was delayed makes those behind it late too *)
OnResult(q) ==
  LET n == net[q]
      s == DataFromToken(State, n.token)
      i == n.token - id_offset
      behind == { j \in Positions(s) : j > i }
      t == IF ~n.slow THEN s
           ELSE CheckTimeouts(
                  [s EXCEPT !.data = [j \in 1..Size(s) |->
                                        IF j - 1 \in behind
                                          THEN [@[j] EXCEPT !.total = s.data[j].total + 1]
                                          ELSE @[j]]],
                  behind)
  IN /\ n.at = "answer"
     /\ Becomes(Loop(IF n.kind = "resend" THEN DoResend(t, i) ELSE TryResendQuery(t, i)))
     /\ UNCHANGED <<msgs, parent, inbox, lost, limits>>

(* on_resend_ok(): the callback of a failed query wants it sent again *)
OnResendOk(q) ==
  /\ net[q].at = "callback" /\ net[q].kind = "error"
  /\ resends < MaxResends
  /\ resends' = resends + 1
  /\ Becomes(Loop(DoResend(DataFromToken(State, net[q].token), net[q].token - id_offset)))
  /\ UNCHANGED <<msgs, parent, inbox, lost, cancelled, fails>>

(* on_resend_error(): the callback is done with the query *)
OnResendError(q) ==
  /\ net[q].at = "callback"
  /\ Becomes(Loop(DoFinish(DataFromToken(State, net[q].token), net[q].token - id_offset)))
  /\ UNCHANGED <<msgs, parent, inbox, lost, limits>>

(* timeout_expired(): asks the parent, and again a second later; the       *)
(* parent has handled the first request by then                            *)
TimeoutExpired ==
  /\ timer
  /\ "ready" \notin Range(outbox)
  /\ IF finish_i = Len(data)
       THEN outbox' = Append(outbox, "ready") /\ UNCHANGED timer
       ELSE timer' = FALSE /\ UNCHANGED outbox
  /\ UNCHANGED <<data, indices, net, msgs, total, parent, inbox, finished, lost, limits>>
-----------------------------------------------------------------------------
(* The session, the delayer and the server.  A message is pending, done,   *)
(* failed, or failed because the one it is invoked after did.              *)

netOnly == <<data, indices, timer, parent, inbox, outbox, finished, lost>>

(* a query leaves the network; its message is forgotten *)
Answered(q, kind) == [net EXCEPT ![q].at = "answer", ![q].kind = kind, ![q].msg = 0]

(* the query is sent, or returned when the query it is to be invoked after *)
(* is no longer awaited in this session                                    *)
SessionSend(q) ==
  LET a == net[q].after
  IN /\ net[q].at = "session"
     /\ IF a # NoQuery /\ net[a].at # "sent"
          THEN net' = Answered(q, "resend") /\ UNCHANGED msgs
          ELSE /\ net' = [net EXCEPT ![q].at = "sent", ![q].msg = Len(msgs) + 1]
               /\ msgs' = Append(msgs, [query |-> q, status |-> "pending",
                                        after |-> IF a = NoQuery THEN 0 ELSE net[a].msg])
     /\ UNCHANGED <<netOnly, total, limits>>

(* a query cancelled by its owner is not sent *)
SessionCancel(q) ==
  /\ net[q].at = "session"
  /\ Cardinality(cancelled) < MaxCancels
  /\ cancelled' = cancelled \cup {q}
  /\ net' = Answered(q, "error")
  /\ UNCHANGED <<netOnly, msgs, total, fails, resends>>

Ready(m) ==
  /\ msgs[m].status = "pending"
  /\ msgs[m].after # 0 => msgs[msgs[m].after].status = "done"

ServerDone(m) ==
  /\ Ready(m)
  /\ msgs' = [msgs EXCEPT ![m].status = "done"]
  /\ UNCHANGED <<netOnly, net, total, limits>>

ServerFailed(m) ==
  /\ Ready(m)
  /\ fails < MaxFails
  /\ fails' = fails + 1
  /\ msgs' = [msgs EXCEPT ![m].status = "failed"]
  /\ UNCHANGED <<netOnly, net, total, cancelled, resends>>

ServerWaitFailed(m) ==
  /\ msgs[m].status = "pending" /\ msgs[m].after # 0
  /\ msgs[msgs[m].after].status \in {"failed", "wait_failed"}
  /\ msgs' = [msgs EXCEPT ![m].status = "wait_failed"]
  /\ UNCHANGED <<netOnly, net, total, limits>>

Status(q) == IF net[q].at = "sent" THEN msgs[net[q].msg].status ELSE "none"

(* the answer of the server is returned to the dispatcher *)
SessionAnswer(q) ==
  /\ \/ Status(q) = "done" /\ net' = Answered(q, "ok")
     \/ Status(q) = "failed" /\ net' = Answered(q, "error")
     \/ Status(q) = "wait_failed" /\ net' = Answered(q, "resend")
  /\ UNCHANGED <<netOnly, msgs, total, limits>>

(* a message the server did not take is sent again by the session *)
SessionResend(q) ==
  /\ Status(q) = "failed"
  /\ net' = [net EXCEPT ![q].at = "session", ![q].msg = 0]
  /\ UNCHANGED <<netOnly, msgs, total, limits>>

(* NetQueryDelayer::delay(), for errors that pass with time *)
Delay(q) ==
  /\ Status(q) = "failed"
  /\ total' = [total EXCEPT ![q] = @ + 1]
  /\ net' = [IF total[q] + 1 > TotalLimit
               THEN Answered(q, "error")
               ELSE [net EXCEPT ![q].at = "delay", ![q].msg = 0]
             EXCEPT ![q].slow = TRUE]
  /\ UNCHANGED <<netOnly, msgs, limits>>

(* NetQueryDelayer::on_slot_event() *)
DelayOver(q) ==
  /\ net[q].at = "delay"
  /\ net' = IF net[q].after # NoQuery THEN Answered(q, "resend")
            ELSE [net EXCEPT ![q].at = "session"]
  /\ UNCHANGED <<netOnly, msgs, total, limits>>
-----------------------------------------------------------------------------
Handled(q) == OnResult(q) \/ OnResendError(q)

Carried(q) == SessionSend(q) \/ SessionAnswer(q) \/ DelayOver(q)

Next ==
  \/ ParentSend \/ ParentResult \/ ParentReadyToClose
  \/ SendWithCallback \/ TimeoutExpired
  \/ \E q \in Queries : Handled(q) \/ OnResendOk(q)
  \/ \E q \in Queries : Carried(q) \/ SessionCancel(q) \/ SessionResend(q) \/ Delay(q)
  \/ \E m \in 1..Len(msgs) : ServerDone(m) \/ ServerFailed(m) \/ ServerWaitFailed(m)

Spec == Init /\ [][Next]_vars

(* Actors handle their messages, the session and the delayer answer, and   *)
(* the server sooner or later executes or refuses every message: as long   *)
(* as one of these can happen, one does.  Neither the idle timer nor new   *)
(* queries, cancellations and failures are fair.                           *)
Progress ==
  \/ SendWithCallback \/ ParentResult
  \/ \E q \in Queries : Handled(q) \/ Carried(q)
  \/ \E m \in 1..Len(msgs) : ServerDone(m) \/ ServerWaitFailed(m)

(* ENABLED Progress *)
CanProgress ==
  \/ inbox # <<>>
  \/ outbox # <<>> /\ Head(outbox) = "result"
  \/ \E q \in Queries : net[q].at \notin {"none", "sent"}
  \/ \E q \in Queries : net[q].at = "sent" /\ msgs[net[q].msg].status # "pending"
  \/ \E m \in 1..Len(msgs) :
       msgs[m].status = "pending"
       /\ (msgs[m].after # 0 => msgs[msgs[m].after].status # "pending")

(* WF_vars(Progress) *)
Fairness == []<>(~CanProgress) \/ []<><<Progress>>_vars

FairSpec == Spec /\ Fairness
-----------------------------------------------------------------------------
(* the queries that are waiting for an answer of the network or a callback *)
Awaited == { q \in Queries : net[q].at # "none" }

(***************************************************************************)
(* Types, and the order of the indices that the CHECK of try_shrink() and  *)
(* the accesses data_[last_sent_i_] rely on; no entry is left in the       *)
(* transient state Dummy by a handler.                                     *)
(***************************************************************************)
TypeOK ==
  /\ data \in Seq([state : {"Start", "Wait", "Finish"}, generation : Nat, total : Nat,
                   query : Queries])
  /\ {id_offset, finish_i, next_i, generation, wait_cnt, cnt} \subseteq Nat
  /\ last_sent_i \in Nat \cup {NoIndex}
  /\ finish_i <= next_i /\ next_i <= Len(data) /\ last_sent_i < next_i

(***************************************************************************)
(* The CHECKs of data_from_token() hold, and more: the token of every      *)
(* answer still under way, however often data_ was shrunk since it was     *)
(* given out, names the entry of the query it answers, which is in state   *)
(* Wait; and wait_cnt_ is the number of such entries.                      *)
(***************************************************************************)
AnswersFindTheirQuery ==
  /\ \A q \in Awaited :
       LET pos == net[q].token - id_offset
       IN /\ pos \in 0 .. Len(data) - 1
          /\ data[pos + 1].query = q
          /\ data[pos + 1].state = "Wait"
  /\ wait_cnt = Cardinality(Awaited)
  /\ wait_cnt = Cardinality({ j \in 1..Len(data) : data[j].state = "Wait" })

(***************************************************************************)
(* What loop() relies on to send everything: no query in front of next_i_  *)
(* waits to be sent, and those in front of it that are awaited belong to   *)
(* the current generation, so that a failure of theirs moves next_i_ back. *)
(***************************************************************************)
NothingSkipped ==
  \A j \in 1 .. next_i :
    /\ data[j].state # "Start"
    /\ data[j].state = "Wait" => data[j].generation = generation

Executed == { msgs[m].query : m \in { k \in 1..Len(msgs) : msgs[k].status = "done" } }

(***************************************************************************)
(* The purpose of the invokeAfter chain: when the server executes a query, *)
(* every earlier query of the sequence has been executed or given up, or   *)
(* the chain was cut between the two by a query that its owner cancelled.  *)
(* (A cancelled last query leaves last_sent_i_ at a finished entry, and    *)
(* the next one is sent without invokeAfter.)                              *)
(***************************************************************************)
ExecutedInOrder ==
  [][\A q \in Executed' \ Executed : \A p \in 1 .. q - 1 :
        \/ p \in Executed \cup finished
        \/ \E c \in cancelled : p < c /\ c < q]_vars

(***************************************************************************)
(* The counter of MultiSequenceDispatcher closes no dispatcher that has    *)
(* an unfinished query, on its way to it included.                         *)
(***************************************************************************)
NothingLost == lost = {}

(***************************************************************************)
(* Every query given to the dispatcher is finished, with a result or an    *)
(* error, when failures are finite.                                        *)
(***************************************************************************)
EveryQueryFinished == \A q \in Queries : (given >= q) ~> (q \in finished)
=============================================================================
