---------------------------- MODULE BinlogKeyValue ----------------------------
(***************************************************************************)
(* tddb/td/db/BinlogKeyValue.h: a string map kept in memory under a lock,  *)
(* every change of which is an event of a ConcurrentBinlog.  A thread      *)
(* changes the map and takes the event's number under the lock, but hands  *)
(* the event over after it has released it; events therefore reach the log *)
(* out of order, and only the numbers put them right.  On a restart the    *)
(* map is rebuilt from the events that survived.                           *)
(***************************************************************************)
EXTENDS Integers, Sequences, SequencesExt, FiniteSets

CONSTANTS
  Threads,
  Keys,
  KeyGroups,   \* what erase_by_prefix is called with: sets of keys
  Vals,
  Erased,      \* the content of an erasing event
  MaxSeqNo,    \* bound: the largest number taken
  MaxCrashes   \* bound: number of restarts

ASSUME BinlogKeyValueAssumption ==
  /\ KeyGroups \subseteq SUBSET Keys
  /\ Erased \notin Vals
  /\ MaxSeqNo \in Nat /\ MaxCrashes \in Nat

VARIABLES
  map,        \* map_: from keys to (value, id of the event that holds it)
  last_id,    \* the number next_id() returns next
  pending,    \* events a thread has numbered and not yet handed over
  arrived,    \* events the sequencer of the log holds back
  next,       \* the number the sequencer waits for
  log,        \* the events in the log
  crashes

vars == <<map, last_id, pending, arrived, next, log, crashes>>

EmptyMap == [k \in {} |-> 0]

With(m, k, x) == [j \in DOMAIN m \cup {k} |-> IF j = k THEN x ELSE m[j]]

Without(m, k) == [j \in DOMAIN m \ {k} |-> m[j]]

(* the values of a map, without the ids *)
Values(m) == [k \in DOMAIN m |-> m[k].val]

Init ==
  /\ map = EmptyMap
  /\ last_id = 1
  /\ pending = [t \in Threads |-> <<>>]
  /\ arrived = {}
  /\ next = 1
  /\ log = <<>>
  /\ crashes = 0

Idle(t) == pending[t] = <<>>

(* every event of set is an addition *)
EventId_AlwaysNew(k) == last_id

(* the event of a key that is present rewrites the one that holds it *)
EventId(k) == IF k \in DOMAIN map THEN map[k].id ELSE last_id

(* set(key, value); a value that is already there is not written again.    *)
(* `view' is history: the map after this change.                           *)
Set(t, k, v) ==
  LET after == With(map, k, [val |-> v, id |-> EventId(k)])
  IN /\ Idle(t)
     /\ last_id <= MaxSeqNo
     /\ k \in DOMAIN map => map[k].val # v
     /\ map' = after
     /\ last_id' = last_id + 1
     /\ pending' = [pending EXCEPT ![t] =
          <<[seq_no |-> last_id, id |-> EventId(k), rewrite |-> EventId(k) # last_id,
             key |-> k, val |-> v, view |-> Values(after)]>>]
     /\ UNCHANGED <<arrived, next, log, crashes>>

EraseEvent(n, k, view) ==
  [seq_no |-> n, id |-> map[k].id, rewrite |-> TRUE, key |-> k, val |-> Erased, view |-> view]

(* erase(key) *)
Erase(t, k) ==
  /\ Idle(t)
  /\ last_id <= MaxSeqNo
  /\ k \in DOMAIN map
  /\ map' = Without(map, k)
  /\ last_id' = last_id + 1
  /\ pending' = [pending EXCEPT ![t] = <<EraseEvent(last_id, k, Values(Without(map, k)))>>]
  /\ UNCHANGED <<arrived, next, log, crashes>>

(* erase_by_prefix(prefix): one event per key, with consecutive numbers    *)
(* taken at once, in the order in which the hash map is walked             *)
EraseByPrefix(t, prefix) ==
  LET gone == prefix \cap DOMAIN map
      n    == Cardinality(gone)
  IN /\ Idle(t)
     /\ gone # {}
     /\ last_id + n - 1 <= MaxSeqNo
     /\ map' = [k \in DOMAIN map \ gone |-> map[k]]
     /\ last_id' = last_id + n
     /\ \E order \in SetToSeqs(gone) :
          pending' = [pending EXCEPT ![t] =
            [i \in 1..n |->
               EraseEvent(last_id + i - 1, order[i],
                 Values([k \in DOMAIN map \ { order[j] : j \in 1..i } |-> map[k]]))]]
     /\ UNCHANGED <<arrived, next, log, crashes>>

(* add_event after the lock: ConcurrentBinlog adds what is next in order   *)
AddEvent(t) ==
  LET all  == arrived \cup {Head(pending[t])}
      stop == CHOOSE n \in next .. MaxSeqNo + 1 :
                /\ \A k \in next .. n - 1 : \E e \in all : e.seq_no = k
                /\ ~\E e \in all : e.seq_no = n
  IN /\ ~Idle(t)
     /\ pending' = [pending EXCEPT ![t] = Tail(@)]
     /\ next' = stop
     /\ arrived' = { e \in all : e.seq_no >= stop }
     /\ log' = log \o [i \in 1 .. stop - next |->
                         CHOOSE e \in all : e.seq_no = next + i - 1]
     /\ UNCHANGED <<map, last_id, crashes>>
-----------------------------------------------------------------------------
(* The live events of a log prefix: for every id the last event with it,   *)
(* unless that one erased it.                                              *)
Live(events) ==
  { e \in Range(events) :
      /\ e.val # Erased
      /\ \E i \in 1..Len(events) :
           events[i] = e /\ \A j \in i + 1 .. Len(events) : events[j].id # e.id }

(* init: events are replayed by increasing id, and emplace keeps the first *)
(* event of a key                                                          *)
Replayed(events) ==
  [k \in { e.key : e \in Live(events) } |->
     LET e == CHOOSE x \in Live(events) :
                x.key = k /\ \A y \in Live(events) : y.key = k => x.id <= y.id
     IN [val |-> e.val, id |-> e.id]]

(* numbers are taken again from the last live event on *)
NextIdAfter_Live(events) ==
  LET live == { e.id : e \in Live(events) }
  IN IF live = {} THEN 1 ELSE (CHOOSE n \in live : \A m \in live : m <= n) + 1

(* peek_next_id(): one after the last event that was added *)
NextIdAfter(events) ==
  LET added == { events[i].id : i \in { j \in 1..Len(events) : ~events[j].rewrite } }
  IN IF added = {} THEN 1 ELSE (CHOOSE n \in added : \A m \in added : m <= n) + 1

(* The process is restarted with a prefix of the log. *)
Restart ==
  /\ crashes < MaxCrashes
  /\ crashes' = crashes + 1
  /\ \E n \in 0..Len(log) : log' = SubSeq(log, 1, n)
  /\ map' = Replayed(log')
  /\ last_id' = NextIdAfter(log')
  /\ next' = last_id'
  /\ pending' = [t \in Threads |-> <<>>]
  /\ arrived' = {}

Next ==
  \/ \E t \in Threads :
       \/ \E k \in Keys, v \in Vals : Set(t, k, v)
       \/ \E k \in Keys : Erase(t, k)
       \/ \E prefix \in KeyGroups : EraseByPrefix(t, prefix)
       \/ AddEvent(t)
  \/ Restart

Spec == Init /\ [][Next]_vars
-----------------------------------------------------------------------------
Event == [seq_no : Nat, id : Nat, rewrite : BOOLEAN, key : Keys,
          val : Vals \cup {Erased}, view : UNION { [S -> Vals] : S \in SUBSET Keys }]

(***************************************************************************)
(* Types, and that every key of map_ names an event id given out before.   *)
(***************************************************************************)
TypeOK ==
  /\ DOMAIN map \subseteq Keys
  /\ \A k \in DOMAIN map : map[k].val \in Vals /\ map[k].id \in 1 .. last_id - 1
  /\ pending \in [Threads -> Seq(Event)]
  /\ arrived \subseteq Event
  /\ next \in 1..last_id
  /\ log \in Seq(Event)

(***************************************************************************)
(* Restarting from any prefix of the log gives the map as it was when the  *)
(* last event of that prefix was numbered, whatever the order in which the *)
(* threads handed their events over; a prefix that ends inside an          *)
(* erase_by_prefix gives the map with a part of those keys erased.  Once   *)
(* every thread has handed over its events, the whole log gives the map as *)
(* it is: nothing stays behind in the sequencer.                           *)
(***************************************************************************)
RestartIsSnapshot ==
  /\ \A n \in 1..Len(log) : Values(Replayed(SubSeq(log, 1, n))) = log[n].view
  /\ (\A t \in Threads : Idle(t)) => arrived = {} /\ Replayed(log) = map

(***************************************************************************)
(* Nothing in the log is rejected by the events processor, which aborts    *)
(* the process: a rewrite or an erase names an event that is live where it *)
(* stands in the log, and additions have increasing ids.                   *)
(***************************************************************************)
NoEventRejected ==
  \A n \in 1..Len(log) :
    LET before == SubSeq(log, 1, n - 1)
    IN IF log[n].rewrite
         THEN \E e \in Live(before) : e.id = log[n].id
         ELSE \A i \in 1..n - 1 : log[i].id < log[n].id
=============================================================================
