------------------------------- MODULE Session -------------------------------
(***************************************************************************)
(* td/telegram/net/Session.cpp with the sending side of                    *)
(* td/mtproto/SessionConnection.cpp: one MTProto session, which brings     *)
(* queries to a server over connections that come and go.                  *)
(*                                                                         *)
(* A query is pending, then sent under a message id, perhaps in a          *)
(* container with an id of its own.  Queries that were not acknowledged    *)
(* when their connection closed are unknown: on the next connection the    *)
(* session asks for their state, and sends again what was not received.    *)
(* A query may name an earlier one after which it is to be invoked; such   *)
(* queries are parked while anything is unknown.                           *)
(*                                                                         *)
(* Modelled: the TCP mode, with a main connection only, and authorization  *)
(* keys that are there and bound.  The network and the server are          *)
(* external: a connection keeps the order of packets, what is on it when   *)
(* it is closed is lost; the server may reject packets, lose the session,  *)
(* acknowledge or not, and runs a query once per message id, after the one *)
(* it is to be invoked after.  The handlers are operators on a record c of *)
(* the session's state, as each runs to completion in its actor.           *)
(***************************************************************************)
EXTENDS Integers, Sequences, FiniteSets, SequencesExt

CONSTANTS
  Queries,
  After,        \* NetQuery::invoke_after_, where there is one
  MaxUp,        \* bound: packets on their way to the server
  MaxDown,      \* bound: with that many messages on their way the server sends no more
  MaxTroubles   \* bound: closed connections, rejected packets, lost sessions, cancellations
                \* and large answers, together

ASSUME SessionAssumption ==
  /\ DOMAIN After \subseteq Queries
  /\ \A q \in DOMAIN After : After[q] \in Queries \ {q}
  /\ MaxUp \in Nat \ {0} /\ MaxDown \in Nat \ {0} /\ MaxTroubles \in Nat

VARIABLES
  c,         \* the session
  cancelled, \* the queries for which update_is_ready() finds a cancellation
  events,    \* message ids for which a raw event of a cancel_slot_ is under way
  up, down,  \* the connection: packets to the server, messages from it
  server,    \* the server's session
  troubles

vars == <<c, cancelled, events, up, down, server, troubles>>

EmptyFn == [m \in {} |-> 0]

InitServer ==
  [ session |-> FALSE,
    received |-> {}, done |-> EmptyFn,  \* messages, and what became of them
    told |-> {},                        \* the results sent on this connection
    troubled |-> FALSE ]                \* history: it rejected or forgot something

Init ==
  /\ c = [ pending |-> <<>>, parked |-> <<>>,        \* pending_(invoke_after_)queries_
           sent |-> EmptyFn, containers |-> EmptyFn, \* sent_queries_, sent_containers_
           unknown |-> {},                           \* unknown_queries_
           state |-> "connecting",                   \* of main_connection_
           to_send |-> <<>>, to_get_state_info |-> {}, to_resend_answer |-> {},
           next |-> 1,                               \* AuthData::next_message_id
           closed |-> FALSE,
           given |-> {},                             \* history: queries given to send()
           returned |-> [q \in Queries |-> 0],       \* history: how often they were returned
           renewed |-> {} ]                          \* history: sent again for a new session
  /\ cancelled = {} /\ events = {}
  /\ up = <<>> /\ down = <<>>
  /\ server = InitServer
  /\ troubles = 0
-----------------------------------------------------------------------------
(* Parts of handlers *)

Without(f, S) == [y \in DOMAIN f \ S |-> f[y]]
With(f, x, v) == [y \in DOMAIN f \cup {x} |-> IF y = x THEN v ELSE f[y]]

(* the messages under which a query is sent, the places where it waits *)
SentAs(d, q) == { m \in DOMAIN d.sent : d.sent[m].query = q }
WaitsIn(queue, q) == { i \in DOMAIN queue : queue[i] = q }

(* NetQuery::message_id_: not 0 exactly while the query is in sent_queries_ *)
MessageId(d, q) == IF SentAs(d, q) = {} THEN 0 ELSE CHOOSE m \in SentAs(d, q) : TRUE

(* return_query; the query's error or result is for its owner *)
ReturnQuery(d, q) == [d EXCEPT !.returned[q] = @ + 1]

(* the queries leave sent_queries_ and are returned *)
ReturnSent(d, ms) ==
  [d EXCEPT !.sent = Without(@, ms),
            !.returned = [q \in Queries |-> @[q] + Cardinality(SentAs(d, q) \cap ms)]]

(* the query leaves sent_queries_ and is pending again *)
ResendQuery(d, m) ==
  [d EXCEPT !.sent = Without(@, {m}), !.pending = Append(@, d.sent[m].query)]

(* the last unknown query releases the parked ones *)
MarkAsKnown(d, ms) ==
  IF d.unknown # {} /\ d.unknown \subseteq ms
    THEN [d EXCEPT !.unknown = {}, !.pending = @ \o d.parked, !.parked = <<>>]
    ELSE [d EXCEPT !.unknown = @ \ ms]

MarkAsUnknown(d, ms) == [d EXCEPT !.unknown = @ \cup ms]

DecContainer(d, m) ==
  LET id == d.sent[m].container_id
  IN IF id = m \/ id \notin DOMAIN d.containers THEN d
     ELSE IF d.containers[id].ref_cnt = 1 THEN [d EXCEPT !.containers = Without(@, {id})]
     ELSE [d EXCEPT !.containers[id].ref_cnt = @ - 1]

(* the messages that were sent without a container have none to forget *)
CleanupContainer(d, ms) ==
  [d EXCEPT !.containers = Without(@, { d.sent[m].container_id : m \in ms } \ ms)]
-----------------------------------------------------------------------------
(* Sending *)

(* whether anything is unknown is not looked at *)
ConnectionSendQuery_NotParked(d, q) ==
  LET after == IF q \in DOMAIN After THEN MessageId(d, After[q]) ELSE 0
      m == d.next
  IN IF q \in cancelled THEN ReturnQuery(d, q)
     ELSE IF q \in DOMAIN After /\ after = 0 THEN ReturnQuery(d, q)
     ELSE [d EXCEPT !.next = m + 1,
                    !.to_send = Append(@, [id |-> m, query |-> q, after |-> after]),
                    !.sent = With(@, m, [query |-> q, container_id |-> m, ack |-> FALSE])]

ConnectionSendQuery(d, q) ==
  LET after == IF q \in DOMAIN After THEN MessageId(d, After[q]) ELSE 0
      m == d.next
  IN IF q \in cancelled THEN ReturnQuery(d, q)
     ELSE IF q \in DOMAIN After /\ after = 0 THEN ReturnQuery(d, q)
     ELSE IF q \in DOMAIN After /\ d.unknown # {} THEN [d EXCEPT !.parked = Append(@, q)]
     ELSE [d EXCEPT !.next = m + 1,
                    !.to_send = Append(@, [id |-> m, query |-> q, after |-> after]),
                    !.sent = With(@, m, [query |-> q, container_id |-> m, ack |-> FALSE])]

(* the queries of a queue, one after the other *)
SendPending(d, queue) ==
  LET after[i \in 0..Len(queue)] ==
        IF i = 0 THEN d ELSE ConnectionSendQuery(after[i - 1], queue[i])
  IN after[Len(queue)]

(* loop() sends what is pending and opens the connection if there is none *)
Loop(d) ==
  LET e == IF d.state = "ready"
             THEN SendPending([d EXCEPT !.pending = <<>>], d.pending)
             ELSE d
  IN IF e.state = "empty" THEN [e EXCEPT !.state = "connecting"] ELSE e

(* on_container_sent *)
OnContainerSent(d, id, ms) ==
  LET there == ms \cap DOMAIN d.sent
      e == [d EXCEPT !.sent = [m \in DOMAIN d.sent |->
                     [d.sent[m] EXCEPT !.container_id = IF m \in there THEN id ELSE @]]]
  IN IF there = {} THEN e
     ELSE [e EXCEPT !.containers =
             With(@, id, [ref_cnt |-> Cardinality(there), message_ids |-> there])]
-----------------------------------------------------------------------------
(* Messages of the server *)

OnMessageAckInner(d, ms, in_container) ==
  LET there == ms \cap DOMAIN d.sent
      e == [d EXCEPT !.sent = [m \in DOMAIN d.sent |->
                     [d.sent[m] EXCEPT !.ack = @ \/ m \in there]]]
  IN MarkAsKnown(IF in_container THEN e ELSE CleanupContainer(e, there), there)

OnMessageAck(d, id) ==
  IF id \in DOMAIN d.containers
    THEN [OnMessageAckInner(d, d.containers[id].message_ids, TRUE)
            EXCEPT !.containers = Without(@, {id})]
    ELSE OnMessageAckInner(d, {id}, FALSE)

(* on_message_result_ok, on_message_result_error *)
OnMessageResult(d, m) ==
  IF m \notin DOMAIN d.sent THEN d
  ELSE ReturnSent(MarkAsKnown(CleanupContainer(d, {m}), {m}), {m})

OnMessageFailedInner(d, m, in_container) ==
  IF m \notin DOMAIN d.sent THEN d
  ELSE ResendQuery(MarkAsKnown(IF in_container THEN d ELSE CleanupContainer(d, {m}), {m}), m)

(* for all messages of ms, in the order of their ids *)
FailAll(d, ms, in_container) ==
  LET after[m \in 0 .. d.next - 1] ==
        IF m = 0 THEN d
        ELSE IF m \in ms THEN OnMessageFailedInner(after[m - 1], m, in_container)
        ELSE after[m - 1]
  IN after[d.next - 1]

OnMessageFailed(d, id) ==
  IF id \in DOMAIN d.containers
    THEN [FailAll(d, d.containers[id].message_ids, TRUE) EXCEPT !.containers = Without(@, {id})]
    ELSE OnMessageFailedInner(d, id, FALSE)

(* on_message_info; large: the answer is to be asked for *)
OnMessageInfo(d, m, is_received, large) ==
  IF m \notin DOMAIN d.sent THEN d
  ELSE IF d.sent[m].query \in cancelled
    THEN ReturnSent(MarkAsKnown(DecContainer(d, m), {m}), {m})
  ELSE IF ~is_received THEN OnMessageFailed(d, m)
  ELSE LET e == OnMessageAck(d, m)
       IN IF large THEN [e EXCEPT !.to_resend_answer = @ \cup {m}] ELSE e

(* on_msgs_state_info: the states of all messages that were asked for, in  *)
(* increasing order; the code goes through an unordered_set (Session.cpp:  *)
(* 1067), and no property tells the orders apart                           *)
OnMessagesInfo(d, ms, received) ==
  LET after[m \in 0 .. d.next - 1] ==
        IF m = 0 THEN d
        ELSE IF m \in ms THEN OnMessageInfo(after[m - 1], m, m \in received, FALSE)
        ELSE after[m - 1]
  IN after[d.next - 1]

(* on_session_created: what was sent before it is sent again *)
OnSessionCreated(d, first_id) ==
  LET old == { m \in DOMAIN d.sent : d.sent[m].container_id < first_id }
  IN [FailAll(d, old, FALSE) EXCEPT !.renewed = @ \cup { d.sent[m].query : m \in old }]

(* a rejected packet: the session's queries, and what SessionConnection    *)
(* itself asked in it, are to be sent again                                *)
OnPacketFailed(d, packet) ==
  [OnMessageFailed(d, packet.id)
     EXCEPT !.to_get_state_info = @ \cup packet.info, !.to_resend_answer = @ \cup packet.resend]

Handle(d, msg) ==
  CASE msg.type = "ack"     -> OnMessageAck(d, msg.id)
    [] msg.type = "result"  -> OnMessageResult(d, msg.id)
    [] msg.type = "failed"  -> OnPacketFailed(d, msg.packet)
    [] msg.type = "info"    -> OnMessageInfo(d, msg.id, msg.is_received, msg.large)
    [] msg.type = "infos"   -> OnMessagesInfo(d, msg.ids, msg.received)
    [] msg.type = "created" -> OnSessionCreated(d, msg.id)

(* some messages, one after the other *)
HandleAll(d, msgs) ==
  LET after[i \in 0..Len(msgs)] == IF i = 0 THEN d ELSE Handle(after[i - 1], msgs[i])
  IN after[Len(msgs)]

(* the connection and what waited in SessionConnection are gone *)
ForgetConnection(d) ==
  [d EXCEPT !.state = "empty", !.to_send = <<>>, !.to_get_state_info = {}, !.to_resend_answer = {}]

(* what is not acknowledged is sent again at once *)
OnClosed_Resend(d, code) ==
  ForgetConnection(FailAll(d, { m \in DOMAIN d.sent : ~d.sent[m].ack }, FALSE))

(* on_closed: what is not acknowledged is unknown now, or, after an error  *)
(* of the transport, returned.                                             *)
OnClosed(d, code) ==
  LET lost == { m \in DOMAIN d.sent : ~d.sent[m].ack }
      e == CleanupContainer(d, lost)
  IN ForgetConnection(IF code = 500 THEN ReturnSent(MarkAsKnown(e, lost), lost)
                      ELSE MarkAsUnknown(e, lost))
-----------------------------------------------------------------------------
(* Steps of the session *)

Trouble ==
  /\ troubles < MaxTroubles
  /\ \E q \in Queries : c.returned[q] = 0
  /\ troubles' = troubles + 1

(* send *)
Send(q) ==
  /\ ~c.closed
  /\ q \notin c.given
  /\ q \in DOMAIN After => After[q] \in c.given
  /\ LET d == [c EXCEPT !.given = @ \cup {q}]
     IN c' = IF q \in cancelled THEN ReturnQuery(d, q)
             ELSE Loop([d EXCEPT !.pending = Append(@, q)])
  /\ UNCHANGED <<cancelled, events, up, down, server, troubles>>

(* the owner of the query cancels it, perhaps through its cancel_slot_ *)
Cancel(q) ==
  /\ Trouble
  /\ c.returned[q] = 0 /\ q \notin cancelled
  /\ cancelled' = cancelled \cup {q}
  /\ events' = events \/ events' = events \cup ({MessageId(c, q)} \ {0})
  /\ UNCHANGED <<c, up, down, server>>

(* raw_event; cancel_answer only asks the server not to answer *)
RawEvent(m) ==
  /\ events' = events \ {m}
  /\ c' = IF m \notin DOMAIN c.sent THEN c
          ELSE Loop(ReturnSent(MarkAsKnown(DecContainer(c, m), {m}), {m}))
  /\ UNCHANGED <<cancelled, up, down, server, troubles>>

(* the new connection asks for nothing *)
ConnectionOpenFinish_NotAsked ==
  /\ c.state = "connecting"
  /\ c' = Loop([c EXCEPT !.state = "ready"])
  /\ UNCHANGED <<cancelled, events, up, down, server, troubles>>

(* connection_open_finish *)
ConnectionOpenFinish ==
  /\ c.state = "connecting"
  /\ c' = Loop([c EXCEPT !.state = "ready", !.to_get_state_info = c.unknown])
  /\ UNCHANGED <<cancelled, events, up, down, server, troubles>>

(* has_work *)
ToSend == c.to_send # <<>> \/ c.to_get_state_info # {} \/ c.to_resend_answer # {}

(* flush_packet: the first queries and all questions; a container unless   *)
(* it is one message alone, and also then if an acknowledgement or a ping  *)
(* goes with it.  It may be a ping and nothing else.                       *)
FlushPacket(n, more) ==
  LET msgs == SubSeq(c.to_send, 1, n)
      rest == (IF c.to_get_state_info = {} THEN 0 ELSE 1) + (IF c.to_resend_answer = {} THEN 0 ELSE 1)
      alone == n = 1 /\ rest = 0 /\ ~more
      id == IF alone THEN msgs[1].id ELSE c.next
      d == [c EXCEPT !.to_send = SubSeq(@, n + 1, Len(@)),
                     !.to_get_state_info = {}, !.to_resend_answer = {},
                     !.next = IF alone THEN @ ELSE @ + 1]
  IN /\ c.state = "ready" /\ Len(up) < MaxUp
     /\ n = 0 => c.to_send = <<>>
     /\ n + rest > 0 \/ more
     /\ up' = Append(up, [id |-> id, msgs |-> msgs, info |-> c.to_get_state_info,
                          resend |-> c.to_resend_answer])
     /\ c' = IF n + rest > 1 \/ (more /\ n + rest > 0)
               THEN OnContainerSent(d, id, { msgs[i].id : i \in 1..n }) ELSE d
     /\ UNCHANGED <<cancelled, events, down, server, troubles>>

(* what a flush sends of its own accord *)
Flush ==
  /\ ToSend
  /\ \E n \in 0..Len(c.to_send), more \in BOOLEAN : FlushPacket(n, more)

(* A ping: only one that creates a session at the server while it owes an  *)
(* answer changes more than the time of on_pong.                           *)
Ping ==
  /\ ~server.session /\ up = <<>> /\ ~ToSend
  /\ DOMAIN c.sent # {}
  /\ FlushPacket(0, TRUE)

(* a flush of the connection reads some messages, then loop() goes on *)
Receive(n) ==
  /\ c.state = "ready"
  /\ c' = Loop(HandleAll(c, SubSeq(down, 1, n)))
  /\ down' = SubSeq(down, n + 1, Len(down))
  /\ UNCHANGED <<cancelled, events, up, server, troubles>>

Disconnected ==
  /\ up' = <<>> /\ down' = <<>>
  /\ server' = [server EXCEPT !.told = {}]
  /\ UNCHANGED <<cancelled, events>>

(* the connection is closed, with an error of the transport, with another  *)
(* one, or because the network has changed (on_network)                    *)
Disconnect(code) ==
  /\ c.state = "ready"
  /\ Trouble
  /\ c' = Loop(OnClosed(c, code))
  /\ Disconnected

(* nothing happens that could still lead to an answer *)
Quiet ==
  /\ up = <<>> /\ down = <<>> /\ events = {}
  /\ ~ToSend
  /\ server.session /\ \A x \in server.received : x.id \in server.told

(* the acknowledgement is not forgotten *)
OnPong_AckKept(old) ==
  /\ c.state = "ready"
  /\ old # {} \/ c.unknown # {}
  /\ IF Quiet THEN UNCHANGED troubles ELSE Trouble
  /\ c' = Loop(OnClosed(c, 0))
  /\ Disconnected

(* on_pong, a minute after the connection was made and the queries old     *)
(* were sent: their acknowledgement is forgotten, the connection closed    *)
OnPong(old) ==
  LET forgotten == [m \in DOMAIN c.sent |-> [c.sent[m] EXCEPT !.ack = @ /\ m \notin old]]
  IN /\ c.state = "ready"
     /\ old # {} \/ c.unknown # {}
     /\ IF Quiet THEN UNCHANGED troubles ELSE Trouble
     /\ c' = Loop(OnClosed([c EXCEPT !.sent = forgotten], 0))
     /\ Disconnected

(* the parked queries are not flushed *)
ReturnAll_NotParked(d) ==
  [d EXCEPT !.sent = EmptyFn, !.containers = EmptyFn, !.pending = <<>>, !.parked = <<>>,
            !.unknown = {},
            !.returned = [q \in Queries |-> @[q] + Cardinality(WaitsIn(d.pending, q))
                                                 + Cardinality(SentAs(d, q))]]

(* everything is returned *)
ReturnAll(d) ==
  [d EXCEPT !.sent = EmptyFn, !.containers = EmptyFn, !.pending = <<>>, !.parked = <<>>,
            !.unknown = {},
            !.returned = [q \in Queries |-> @[q] + Cardinality(WaitsIn(d.pending, q))
                                                 + Cardinality(SentAs(d, q))
                                                 + Cardinality(WaitsIn(d.parked, q))]]

(* close; what the server still does then concerns nobody *)
Close ==
  /\ ~c.closed
  /\ c' = [ReturnAll(IF c.state = "ready" THEN OnClosed(c, 0) ELSE c)
             EXCEPT !.state = "empty", !.closed = TRUE]
  /\ events' = {}
  /\ up' = <<>> /\ down' = <<>>
  /\ server' = InitServer
  /\ UNCHANGED <<cancelled, troubles>>
-----------------------------------------------------------------------------
(* The server *)

Info(m, is_received, large) ==
  [type |-> "info", id |-> m, is_received |-> is_received, large |-> large]

Result(m) == [type |-> "result", id |-> m]

Infos(ms, received) == [type |-> "infos", ids |-> ms, received |-> received]

(* what may be acknowledged of the next packet *)
Acks ==
  IF up = <<>> THEN {}
  ELSE {<<>>} \cup { <<[type |-> "ack", id |-> m]>> :
                     m \in {Head(up).id} \cup { x.id : x \in Range(Head(up).msgs) } }

(* a query that is to be invoked after one that failed, or is not there,   *)
(* fails, too                                                              *)
Run(done, x) ==
  With(done, x.id, IF x.after = 0 \/ (x.after \in DOMAIN done /\ done[x.after] = "ok")
                     THEN "ok" ELSE "error")

(* A packet arrives.  A session is created if there is none; the queries   *)
(* are run; perhaps the packet or one of them is acknowledged; questions   *)
(* are answered.                                                           *)
Accept(ack) ==
  LET p == Head(up)
      created == IF server.session THEN <<>> ELSE <<[type |-> "created", id |-> p.id]>>
      infos == IF p.info = {} THEN <<>> ELSE <<Infos(p.info, p.info \cap DOMAIN server.done)>>
  IN /\ up # <<>> /\ Len(down) < MaxDown
     /\ up' = Tail(up)
     /\ down' = down \o created \o ack \o infos
     /\ server' = [server EXCEPT !.session = TRUE, !.received = @ \cup Range(p.msgs),
                                 !.done = FoldLeft(Run, @, p.msgs), !.told = @ \ p.resend]
     /\ UNCHANGED <<c, cancelled, events, troubles>>

(* bad_server_salt, bad_msg_notification *)
Reject ==
  /\ up # <<>> /\ Len(down) < MaxDown
  /\ Trouble
  /\ up' = Tail(up)
  /\ down' = Append(down, [type |-> "failed", packet |-> Head(up)])
  /\ server' = [server EXCEPT !.troubled = TRUE]
  /\ UNCHANGED <<c, cancelled, events>>

(* once on each connection; or only its existence is told *)
Answer(x) ==
  /\ c.state = "ready" /\ Len(down) < MaxDown
  /\ x.id \notin server.told
  /\ server' = [server EXCEPT !.told = @ \cup {x.id}]
  /\ \/ down' = Append(down, Result(x.id)) /\ UNCHANGED troubles
     \/ down' = Append(down, Info(x.id, TRUE, TRUE)) /\ Trouble
  /\ UNCHANGED <<c, cancelled, events, up>>

LoseSession ==
  /\ server.session
  /\ Trouble
  /\ server' = [InitServer EXCEPT !.troubled = TRUE]
  /\ UNCHANGED <<c, cancelled, events, up, down>>
-----------------------------------------------------------------------------
(* the oldest of the sent queries *)
OldestSent == { { m \in DOMAIN c.sent : m <= k } : k \in 0..c.next }

Timeouts == \E old \in OldestSent : OnPong(old)

Next ==
  \/ \E q \in Queries : Send(q) \/ Cancel(q)
  \/ \E m \in events : RawEvent(m)
  \/ ConnectionOpenFinish \/ Flush \/ Ping
  \/ \E n \in 1..Len(down) : Receive(n)
  \/ \E code \in {0, 500} : Disconnect(code)
  \/ Timeouts
  \/ Close
  \/ \E ack \in Acks : Accept(ack)
  \/ Reject
  \/ \E x \in server.received : Answer(x)
  \/ LoseSession

Spec == Init /\ [][Next]_vars

(* What goes on without anybody's doing: connections are made, packets     *)
(* delivered and answered, events of the actor run; on_pong only where     *)
(* nothing else would lead to an answer.                                   *)
Progress ==
  \/ \E m \in events : RawEvent(m)
  \/ ConnectionOpenFinish \/ Flush \/ Ping
  \/ \E n \in 1..Len(down) : Receive(n)
  \/ \E ack \in Acks : Accept(ack)
  \/ \E x \in server.received : Answer(x)
  \/ Quiet /\ Timeouts

(* ENABLED Progress *)
CanProgress ==
  \/ events # {} \/ c.state = "connecting"
  \/ /\ c.state = "ready"
     /\ \/ ToSend \/ up # <<>> \/ down # <<>>
        \/ \E x \in server.received : x.id \notin server.told
        \/ DOMAIN c.sent # {}

Fairness == []<>~CanProgress \/ []<><<Progress>>_vars

FairSpec == Spec /\ Fairness
-----------------------------------------------------------------------------
(* Properties *)

Ids == 1..(c.next - 1)

(* The type of the variables; in particular a query has at most one        *)
(* message id at a time and unknown_queries_ only holds ids of             *)
(* sent_queries_.                                                          *)
TypeOK ==
  /\ c.pending \in Seq(Queries) /\ c.parked \in Seq(Queries)
  /\ DOMAIN c.sent \subseteq Ids
  /\ \A m \in DOMAIN c.sent : c.sent[m] \in [query : Queries, container_id : Ids, ack : BOOLEAN]
  /\ \A id \in DOMAIN c.containers :
       /\ c.containers[id].ref_cnt \in Nat \ {0}
       /\ c.containers[id].message_ids \subseteq Ids
  /\ c.unknown \subseteq { m \in DOMAIN c.sent : ~c.sent[m].ack }
  /\ c.state \in {"empty", "connecting", "ready"} /\ c.closed = (c.state = "empty")
  /\ c.to_get_state_info \subseteq Ids /\ c.to_resend_answer \subseteq Ids
  /\ c.next \in Nat \ {0} /\ c.given \subseteq Queries /\ c.renewed \subseteq c.given
  /\ cancelled \subseteq Queries /\ events \subseteq Ids
  /\ troubles \in 0..MaxTroubles

(* A query given to the session is in exactly one place: pending, parked,  *)
(* sent under one id, or returned, and returned once.  Every path that     *)
(* takes a query out of sent_queries_ (answers, rejections, new sessions,  *)
(* cancellation, closing) has to move it somewhere, whatever arrives late. *)
(* The number of references of a container is the number of its messages   *)
(* that are still sent: the CHECK in dec_container holds, and the last     *)
(* message takes the container with it.                                    *)
OnePlace ==
  /\ \A q \in c.given :
       Cardinality(WaitsIn(c.pending, q)) + Cardinality(WaitsIn(c.parked, q))
         + Cardinality(SentAs(c, q)) + c.returned[q] = 1
  /\ \A id \in DOMAIN c.containers :
       c.containers[id].ref_cnt =
         Cardinality({ m \in DOMAIN c.sent : c.sent[m].container_id = id })

(* While there is a connection, the state of every unknown query has been  *)
(* asked for on it: the question is to be sent, is on its way, was         *)
(* rejected, or its answer is on its way.  And queries are parked only     *)
(* while something is unknown, as only mark_as_known releases them.        *)
UnknownIsAsked ==
  /\ c.parked # <<>> => c.unknown # {}
  /\ c.state = "ready" =>
    \A m \in c.unknown :
      \/ m \in c.to_get_state_info
      \/ \E p \in Range(up) : m \in p.info
      \/ \E x \in Range(down) :
           \/ x.type = "failed" /\ m \in x.packet.info
           \/ x.type = "infos" /\ m \in x.ids

(* In one session of the server no query is executed twice, however often  *)
(* connections close and queries are sent again, except those that were    *)
(* sent again because the session was new.                                 *)
ExecutedOnce ==
  \A x, y \in server.received :
    x # y /\ x.query = y.query => x.query \in c.renewed \/ server.done[x.id] # "ok"

(* A query that is to be invoked after another never fails for the reason  *)
(* that the server has not received the other, unless the server rejected  *)
(* or forgot something itself: lost connections alone do not do it.        *)
NoWaitFailed ==
  ~server.troubled => \A m \in DOMAIN server.done : server.done[m] = "ok"

(* Every query is returned, sooner or later.  Formally: it is always       *)
(* eventually so that all queries given have been; as they are finitely    *)
(* many, it is the same.                                                   *)
EveryQueryReturned == []<>(\A q \in c.given : c.returned[q] > 0)
=============================================================================
