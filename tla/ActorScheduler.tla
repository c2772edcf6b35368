---------------------------- MODULE ActorScheduler ----------------------------
(***************************************************************************)
(* tdactor/td/actor/impl/Scheduler.{h,cpp}: actors, each owned by one      *)
(* scheduler, that is, by one thread.  An event sent to an actor of the    *)
(* same thread runs at once or goes to the actor's mailbox; one sent to    *)
(* another thread goes through the inbound queue of that thread            *)
(* (MpscPollableQueue.tla), whose ServiceActor sends it again.  An actor   *)
(* may migrate: its sched_id_ changes at once, the actor itself travels    *)
(* through a queue, and events that overtake it are kept in                *)
(* pending_events_.                                                        *)
(*                                                                         *)
(* Threads interleave wherever they touch shared memory: between reading   *)
(* sched_id_ of an actor and putting the event into a queue, and between   *)
(* the two parts of writer_put.  What a handler does is left open: it      *)
(* sends, migrates its actor, stops it, or returns.  Events are numbered   *)
(* in the order in which they are sent, the Start events of the actors,    *)
(* which register_actor leaves in their mailboxes, first: the actors are   *)
(* created from a thread without actors before the schedulers start.       *)
(***************************************************************************)
EXTENDS MpscPollableQueue, FiniteSets, SequencesExt

CONSTANTS
  Actors,
  Home,        \* the scheduler on which each actor is created
  AlwaysWait,  \* the actors that called always_wait_for_mailbox
  MaxEvents,   \* bound: number of events sent, the Start events included
  MaxMoves,    \* bound: number of migrations
  MaxStops     \* bound: number of actors stopped

Scheds  == Queues
Clients == Threads \ Scheds   \* threads without actors: send guards of the extra scheduler

ASSUME SchedulerAssumption ==
  /\ Home \in [Actors -> Scheds]
  /\ AlwaysWait \subseteq Actors
  /\ Clients # {} /\ IsFiniteSet(Actors)
  /\ {MaxEvents, MaxMoves, MaxStops} \subseteq Nat
  /\ Cardinality(Actors) <= MaxEvents

(* an actor is not a thread: a sender is one or the other *)
ASSUME SendersAssumption == Actors \cap Threads = {}

VARIABLES
  sent,            \* history: sender and receiver of each event
  handled,         \* history: the events an actor has handled, in order
  moved,           \* history: the actors that have migrated, once or more
  alive,           \* the actors that were not stopped
  sched, migrating,\* ActorInfo::sched_id_: the number, and its flag 1 << 30
  mailbox,         \* ActorInfo::mailbox_
  waits,           \* wait_generation_ of the actor is the scheduler's
  ready,           \* ready_actors_list_; all others are in pending_actors_list_
  pending_events,  \* Scheduler::pending_events_
  stack,           \* the EventGuards on a thread's stack, innermost last
  putting,         \* what a thread is about to put into a queue
  moves, stops     \* counters of migrations and stops, for their bounds

(* what only this module's histories and bounds look at *)
notes == <<sent, handled, moved, moves, stops>>
actorVars == <<alive, sched, migrating, mailbox, waits, ready, pending_events>>
vars == <<queueVars, actorVars, notes, stack, putting>>

Events == 1..MaxEvents

(* what travels through a queue: an event, or an actor that migrates *)
EventItem(n) == <<"event", n>>
ActorItem(a) == <<"actor", a>>
Items == { EventItem(n) : n \in Events } \cup { ActorItem(a) : a \in Actors }

(* the inbound queues carry nothing else *)
ASSUME ItemsAssumption == Values = Items

(* An EventGuard: of the mailbox, "left" events are still to be run, and   *)
(* after them the event that was sent, if any; "busy" while a handler      *)
(* runs; "stop" and "dest" are the flags of the EventContext.              *)
Guard(a, left, extra) ==
  [actor |-> a, left |-> left, extra |-> extra, busy |-> FALSE, stop |-> FALSE, dest |-> {}]
Guards == [actor : Actors, left : Nat, extra : Events \cup {0}, busy : BOOLEAN,
           stop : BOOLEAN, dest : SUBSET Scheds]

Created == SetToSeq(Actors)
Creator == CHOOSE c \in Clients : TRUE

Init ==
  /\ QueueInit
  /\ sent = [n \in DOMAIN Created |-> [from |-> Creator, to |-> Created[n]]]
  /\ handled = [a \in Actors |-> <<>>]
  /\ moved = {}
  /\ alive = Actors
  /\ sched = Home /\ migrating = [a \in Actors |-> FALSE]
  /\ mailbox = [a \in Actors |-> << CHOOSE n \in DOMAIN Created : Created[n] = a >>]
  /\ waits = [a \in Actors |-> TRUE]
  /\ ready = [s \in Scheds |-> { a \in Actors : Home[a] = s }]
  /\ pending_events = [s \in Scheds |-> [a \in Actors |-> <<>>]]
  /\ stack = [s \in Scheds |-> <<>>]
  /\ putting = [t \in Threads |-> <<>>]
  /\ moves = 0 /\ stops = 0

(* a thread in the middle of writer_put, or before it, does nothing else *)
Free(t) == releasing[t] = {} /\ putting[t] = <<>>

Top(s) == Last(stack[s])
WithTop(s, guard) == [stack EXCEPT ![s] = Append(Front(@), guard)]
Pushed(s, guard) == [stack EXCEPT ![s] = Append(@, guard)]

(* ActorInfo::is_running *)
IsRunning(a) == \E s \in Scheds : \E i \in DOMAIN stack[s] : stack[s][i].actor = a

(* ActorInfo::must_wait *)
MustWait(a) == waits[a] \/ (a \in AlwaysWait /\ mailbox[a] # <<>>)

(* inc_wait_generation: nobody has to wait for this scheduler any more *)
NextGeneration(s) == [a \in Actors |-> waits[a] /\ sched[a] # s]
-----------------------------------------------------------------------------
(* the immediate run looks at the mailbox of the actor no more *)
RunNow_Overtaking(t, a, n) ==
  /\ stack' = Pushed(t, Guard(a, 0, n))
  /\ UNCHANGED <<actorVars, putting>>

(* run immediately, after what is already in the mailbox *)
RunNow(t, a, n) ==
  /\ stack' = Pushed(t, Guard(a, Len(mailbox[a]), n))
  /\ UNCHANGED <<actorVars, putting>>

(* add_to_mailbox, and set_wait_generation for ActorSendType::Later *)
AddToMailbox(a, n, later) ==
  /\ mailbox' = [mailbox EXCEPT ![a] = Append(@, n)]
  /\ ready' = IF IsRunning(a) THEN ready ELSE [ready EXCEPT ![sched[a]] = @ \cup {a}]
  /\ waits' = [waits EXCEPT ![a] = @ \/ later]
  /\ UNCHANGED <<alive, sched, migrating, pending_events, stack, putting>>

(* send_to_scheduler *)
SendToScheduler(t, a, n) ==
  \/ /\ sched[a] = t
     /\ pending_events' = [pending_events EXCEPT ![t][a] = Append(@, n)]
     /\ UNCHANGED <<alive, sched, migrating, mailbox, waits, ready, stack, putting>>
  \/ /\ sched[a] # t
     /\ putting' = [putting EXCEPT ![t] = <<sched[a], EventItem(n)>>]
     /\ UNCHANGED <<actorVars, stack>>

(* the flag of sched_id_ is not looked at *)
OnCurrentSched_AnyFlag(t, a) == sched[a] = t

OnCurrentSched(t, a) == sched[a] = t /\ ~migrating[a]

(* send_impl *)
SendImpl(t, a, n, later) ==
  \/ /\ a \notin alive
     /\ UNCHANGED <<actorVars, stack, putting>>
  \/ /\ a \in alive
     /\ OnCurrentSched(t, a)
     /\ IF ~later /\ ~IsRunning(a) /\ ~MustWait(a)
          THEN RunNow(t, a, n) ELSE AddToMailbox(a, n, later)
  \/ /\ a \in alive
     /\ ~OnCurrentSched(t, a)
     /\ SendToScheduler(t, a, n)

(* a new event of somebody *)
Send(t, from, a, later) ==
  /\ Len(sent) < MaxEvents
  /\ sent' = Append(sent, [from |-> from, to |-> a])
  /\ SendImpl(t, a, Len(sent) + 1, later)
  /\ UNCHANGED <<queueVars, handled, moved, moves, stops>>
-----------------------------------------------------------------------------
(* send_to_other_scheduler goes on: the two parts of writer_put *)
Put(t) ==
  /\ putting[t] # <<>>
  /\ WriterPut(t, putting[t][1], putting[t][2])
  /\ putting' = [putting EXCEPT ![t] = <<>>]
  /\ UNCHANGED <<actorVars, notes, stack>>

Release(t) ==
  /\ WriterRelease(t)
  /\ UNCHANGED <<actorVars, notes, stack, putting>>

(* a thread with a send guard; it cannot run anything itself *)
ClientSend(c, a) == Free(c) /\ Send(c, c, a, FALSE)
-----------------------------------------------------------------------------
(* A handler, running on the top of the stack *)

Busy(s) == Free(s) /\ stack[s] # <<>> /\ Top(s).busy

HandlerSend(s, a, later) == Busy(s) /\ Send(s, Top(s).actor, a, later)

(* migrate_actor; it happens when the EventGuard is left *)
HandlerMigrate(s, d) ==
  /\ Busy(s)
  /\ d # s
  /\ moves < MaxMoves
  /\ moves' = moves + 1
  /\ stack' = WithTop(s, [Top(s) EXCEPT !.dest = {d}])
  /\ UNCHANGED <<queueVars, actorVars, sent, handled, moved, stops, putting>>

(* stop_actor; it happens when the EventGuard is left *)
HandlerStop(s) ==
  /\ Busy(s)
  /\ ~Top(s).stop
  /\ stops < MaxStops
  /\ stops' = stops + 1
  /\ stack' = WithTop(s, [Top(s) EXCEPT !.stop = TRUE])
  /\ UNCHANGED <<queueVars, actorVars, sent, handled, moved, moves, putting>>

HandlerReturn(s) ==
  /\ Busy(s)
  /\ stack' = WithTop(s, [Top(s) EXCEPT !.busy = FALSE])
  /\ UNCHANGED <<queueVars, actorVars, notes, putting>>
-----------------------------------------------------------------------------
(* The EventGuard on the top of the stack *)

Between(s) == Free(s) /\ stack[s] # <<>> /\ ~Top(s).busy
CanRun(g) == ~g.stop /\ g.dest = {}

(* do_event for the next event of the mailbox, or after them for the event *)
(* that was sent                                                           *)
DoEvent(s) ==
  LET g == Top(s)
      n == IF g.left > 0 THEN Head(mailbox[g.actor]) ELSE g.extra
  IN /\ Between(s)
     /\ CanRun(g)
     /\ g.left > 0 \/ g.extra # 0
     /\ handled' = [handled EXCEPT ![g.actor] = Append(@, n)]
     /\ mailbox' = IF g.left > 0 THEN [mailbox EXCEPT ![g.actor] = Tail(@)] ELSE mailbox
     /\ stack' = WithTop(s, IF g.left > 0 THEN [g EXCEPT !.left = @ - 1, !.busy = TRUE]
                                          ELSE [g EXCEPT !.extra = 0, !.busy = TRUE])
     /\ UNCHANGED <<queueVars, alive, sched, migrating, waits, ready, pending_events,
                    sent, moved, moves, stops, putting>>

(* do_stop_actor: the mailbox is cleared, no ActorId finds the actor *)
StopActor(s, a) ==
  /\ alive' = alive \ {a}
  /\ mailbox' = [mailbox EXCEPT ![a] = <<>>]
  /\ ready' = [ready EXCEPT ![s] = @ \ {a}]
  /\ UNCHANGED <<sched, migrating, putting, moved>>

(* start_migrate_actor, then send_to_other_scheduler with the actor itself *)
MigrateActor(s, a, d, mail) ==
  /\ sched' = [sched EXCEPT ![a] = d]
  /\ migrating' = [migrating EXCEPT ![a] = TRUE]
  /\ mailbox' = [mailbox EXCEPT ![a] = mail]
  /\ ready' = [ready EXCEPT ![s] = @ \ {a}]
  /\ putting' = [putting EXCEPT ![s] = <<d, ActorItem(a)>>]
  /\ moved' = moved \cup {a}
  /\ UNCHANGED alive

Settle(s, a, mail) ==
  /\ mailbox' = [mailbox EXCEPT ![a] = mail]
  /\ ready' = [ready EXCEPT ![s] = IF mail = <<>> THEN @ \ {a} ELSE @ \cup {a}]
  /\ UNCHANGED <<alive, sched, migrating, putting, moved>>

(* the end of flush_mailbox, where an event that could not be run is kept, *)
(* and ~EventGuard                                                         *)
LeaveGuard(s) ==
  LET g == Top(s)
      a == g.actor
      mail == IF g.extra # 0 THEN <<g.extra>> \o mailbox[a] ELSE mailbox[a]
  IN /\ Between(s)
     /\ ~CanRun(g) \/ (g.left = 0 /\ g.extra = 0)
     /\ \/ g.stop /\ StopActor(s, a)
        \/ ~g.stop /\ \E d \in g.dest : MigrateActor(s, a, d, mail)
        \/ CanRun(g) /\ Settle(s, a, mail)
     /\ stack' = [stack EXCEPT ![s] = Front(@)]
     /\ UNCHANGED <<queueVars, waits, pending_events, sent, handled, moves, stops>>
-----------------------------------------------------------------------------
(* The main loop of a scheduler's thread, nothing on its stack *)

Idle(s) == Free(s) /\ stack[s] = <<>>

(* run_mailbox takes an actor; the order of the list is left open *)
RunMailbox(s, a) ==
  /\ Idle(s)
  /\ service[s] \in {"notified", "waiting"}
  /\ a \in ready[s]
  /\ ready' = [ready EXCEPT ![s] = @ \ {a}]
  /\ waits' = NextGeneration(s)
  /\ stack' = Pushed(s, Guard(a, Len(mailbox[a]), 0))
  /\ UNCHANGED <<queueVars, alive, sched, migrating, mailbox, pending_events, notes, putting>>

(* run_mailbox takes the ServiceActor *)
RunService(s) ==
  /\ Idle(s)
  /\ ReaderFirst(s)
  /\ waits' = NextGeneration(s)
  /\ UNCHANGED <<alive, sched, migrating, mailbox, ready, pending_events, notes, stack, putting>>

GoOnService(s) ==
  /\ Idle(s)
  /\ ReaderSecond(s) \/ ReaderYield(s)
  /\ UNCHANGED <<actorVars, notes, stack, putting>>

(* what had overtaken the actor stays where it was *)
RegisterMigratedActor_Alone(s, a) ==
  /\ migrating' = [migrating EXCEPT ![a] = FALSE]
  /\ ready' = IF mailbox[a] = <<>> THEN ready ELSE [ready EXCEPT ![s] = @ \cup {a}]
  /\ \E w \in BOOLEAN : waits' = [waits EXCEPT ![a] = w]
  /\ UNCHANGED <<alive, sched, mailbox, pending_events, stack, putting>>

(* register_migrated_actor.  The actor's wait_generation_ is one of the    *)
(* scheduler that it left; here it may be the current one by chance.       *)
RegisterMigratedActor(s, a) ==
  LET mail == mailbox[a] \o pending_events[s][a]
  IN /\ migrating' = [migrating EXCEPT ![a] = FALSE]
     /\ mailbox' = [mailbox EXCEPT ![a] = mail]
     /\ pending_events' = [pending_events EXCEPT ![s][a] = <<>>]
     /\ ready' = IF mail = <<>> THEN ready ELSE [ready EXCEPT ![s] = @ \cup {a}]
     /\ \E w \in BOOLEAN : waits' = [waits EXCEPT ![a] = w]
     /\ UNCHANGED <<alive, sched, stack, putting>>

(* the body of ServiceActor::loop *)
ServiceItem(s) ==
  LET item == Head(reader_vector[s])
  IN /\ Idle(s)
     /\ ReaderGet(s)
     /\ \/ item[1] = "actor" /\ RegisterMigratedActor(s, item[2])
        \/ item[1] = "event" /\ SendImpl(s, sent[item[2]].to, item[2], FALSE)
     /\ UNCHANGED notes

(* run_poll, when no actor is ready *)
Poll(s) ==
  /\ Idle(s)
  /\ ready[s] = {}
  /\ EpollRun(s)
  /\ UNCHANGED <<actorVars, notes, stack, putting>>

SchedulerStep(s) ==
  \/ \E a \in Actors, later \in BOOLEAN : HandlerSend(s, a, later)
  \/ \E d \in Scheds : HandlerMigrate(s, d)
  \/ HandlerStop(s)
  \/ HandlerReturn(s)
  \/ DoEvent(s)
  \/ LeaveGuard(s)
  \/ \E a \in Actors : RunMailbox(s, a)
  \/ RunService(s)
  \/ GoOnService(s)
  \/ ServiceItem(s)
  \/ Poll(s)

Next ==
  \/ \E t \in Threads : Put(t) \/ Release(t)
  \/ \E c \in Clients, a \in Actors : ClientSend(c, a)
  \/ \E s \in Scheds : SchedulerStep(s)

(* Threads run: a scheduler's main loop does not end, and a thread that    *)
(* began writer_put finishes it.  This is weak fairness of each thread,    *)
(* written out with the conditions under which it can go on.               *)
CanStep(s) ==
  Free(s) /\ (stack[s] # <<>> \/ ready[s] # {} \/ service[s] # "waiting" \/ epoll_edge[s])

Fairness ==
  /\ \A t \in Threads : []<>Free(t) \/ []<><<Put(t) \/ Release(t)>>_vars
  /\ \A s \in Scheds : []<>(~CanStep(s)) \/ []<><<SchedulerStep(s)>>_vars

Spec == Init /\ [][Next]_vars
FairSpec == Spec /\ Fairness
-----------------------------------------------------------------------------
(* Types. *)
TypeOK ==
  /\ QueueTypeOK
  /\ sent \in Seq([from : Actors \cup Clients, to : Actors]) /\ Len(sent) <= MaxEvents
  /\ handled \in [Actors -> Seq(Events)]
  /\ alive \subseteq Actors /\ moved \subseteq Actors
  /\ sched \in [Actors -> Scheds] /\ migrating \in [Actors -> BOOLEAN]
  /\ mailbox \in [Actors -> Seq(Events)]
  /\ waits \in [Actors -> BOOLEAN]
  /\ ready \in [Scheds -> SUBSET Actors]
  /\ pending_events \in [Scheds -> [Actors -> Seq(Events)]]
  /\ stack \in [Scheds -> Seq(Guards)]
  /\ putting \in [Threads -> {<<>>} \cup (Scheds \X Items)]
  /\ \A s \in Scheds : \A i \in DOMAIN stack[s] :
       /\ stack[s][i].left <= Len(mailbox[stack[s][i].actor])
       /\ s \notin stack[s][i].dest

Positions(queue, x) == { i \in DOMAIN queue : queue[i] = x }

(* where the item is on its way: in the hands of a thread, in a queue *)
Travelling(item) ==
  { <<"thread", t, 0>> : t \in { u \in Threads : putting[u] # <<>> /\ putting[u][2] = item } }
    \cup UNION { { <<"queue", s, i>> : i \in Positions(Contents[s], item) } : s \in Scheds }

(* where the event n is with its actor a: handled, in the mailbox, waiting *)
(* for the actor to arrive, or next to be run                              *)
Arrived(a, n) ==
  { <<"handled", a, i>> : i \in Positions(handled[a], n) }
    \cup { <<"mailbox", a, i>> : i \in Positions(mailbox[a], n) }
    \cup (UNION { { <<"pending", s, i>> : i \in Positions(pending_events[s][a], n) } : s \in Scheds })
    \cup (UNION { { <<"guard", s, i>> :
                    i \in { j \in DOMAIN stack[s] : stack[s][j].actor = a /\ stack[s][j].extra = n } }
                  : s \in Scheds })

AtMostOne(places) == \A p, q \in places : p = q

(***************************************************************************)
(* Every event sent to a living actor is in exactly one place: on its way, *)
(* waiting at the actor, or handled once; also when the actor migrates     *)
(* while it is sent, and the event is sent after it from scheduler to      *)
(* scheduler.  A dead actor's events are handled at most once.             *)
(***************************************************************************)
NothingLostOrDoubled ==
  \A n \in DOMAIN sent :
    LET places == Travelling(EventItem(n)) \cup Arrived(sent[n].to, n)
    IN /\ AtMostOne(places)
       /\ sent[n].to \in alive => places # {}

(***************************************************************************)
(* An actor runs only on the thread that owns it, never while it migrates, *)
(* and never within itself (the LOG_CHECK of ActorInfo::start_run).  When  *)
(* it does not run, it is in the list of ready actors of its own scheduler *)
(* exactly if it has events to run: nobody is forgotten with a full        *)
(* mailbox, and run_mailbox finds no empty one (the CHECK of               *)
(* flush_mailbox).                                                         *)
(***************************************************************************)
RunsAtHome ==
  /\ \A s \in Scheds : \A i \in DOMAIN stack[s] :
       /\ stack[s][i].actor \in alive
       /\ sched[stack[s][i].actor] = s /\ ~migrating[stack[s][i].actor]
  /\ \A s \in Scheds : \A i, j \in DOMAIN stack[s] :
       stack[s][i].actor = stack[s][j].actor => i = j
  /\ \A a \in Actors, s \in Scheds :
       ~IsRunning(a) =>
         (a \in ready[s] <=> /\ a \in alive
                             /\ sched[a] = s /\ ~migrating[a]
                             /\ mailbox[a] # <<>>)

(***************************************************************************)
(* A migrating actor is on its way exactly once, to the scheduler that its *)
(* sched_id_ names (the CHECKs of register_migrated_actor), and only there *)
(* events are kept for it; an actor that is not migrating is not on its    *)
(* way, and no scheduler keeps events that it will never give it.          *)
(***************************************************************************)
MigrationIsOnItsWay ==
  \A a \in Actors :
    /\ AtMostOne(Travelling(ActorItem(a)))
    /\ migrating[a] <=> Travelling(ActorItem(a)) # {}
    /\ \A t \in Threads : putting[t] # <<>> /\ putting[t][2] = ActorItem(a) =>
                            putting[t][1] = sched[a]
    /\ \A s \in Scheds : pending_events[s][a] # <<>> => migrating[a] /\ sched[a] = s

(***************************************************************************)
(* What one sender sends to one actor is handled in the order in which it  *)
(* was sent, over any mixture of immediate and later sends, of sends       *)
(* through queues and on the same thread, and also when the sender         *)
(* migrates in between, as long as the receiver stays where it is.         *)
(***************************************************************************)
SenderOrder ==
  \A a \in Actors \ moved : \A i, j \in DOMAIN handled[a] :
    i < j /\ sent[handled[a][i]].from = sent[handled[a][j]].from =>
      handled[a][i] < handled[a][j]

(***************************************************************************)
(* Every event is eventually handled, or its actor stopped: no wake-up is  *)
(* lost and no event chases a migrating actor for ever.  As the number of  *)
(* events is bounded, this is to say that all of them are, again and again.*)
(***************************************************************************)
EveryEventHandled ==
  []<>(\A n \in DOMAIN sent :
         \/ n \in Range(handled[sent[n].to])
         \/ sent[n].to \notin alive)
=============================================================================
