----------------------- MODULE OrderedEventsProcessor -----------------------
(***************************************************************************)
(* tdutils/td/utils/OrderedEventsProcessor.h: the sequencer that puts      *)
(* events numbered by their senders back into number order.  BinlogActor   *)
(* orders log events with it, FileLoader the parts of a file.              *)
(*                                                                         *)
(* The C++ object is a window data_array_ over the numbers offset_,        *)
(* offset_+1, ...; the numbers below begin_ have run, end_ is one past the *)
(* largest number ever added.  The array is never shrunk when the window   *)
(* catches up, only re-based (offset_ = begin_), so old slots are reused:  *)
(* what must be right is that no stale slot is taken for a new event and   *)
(* that the compaction keeps slots and numbers aligned.                    *)
(***************************************************************************)
EXTENDS Integers, Sequences

CONSTANTS
  FirstSeqNo,   \* the number the processor is constructed with
  LastSeqNo,    \* bound: the largest number a caller hands over
  Data,         \* the payloads
  NoData,       \* a default-constructed or moved-from payload
  CompactMin    \* the constant 5 of try_compactify

ASSUME OEPAssumption ==
  /\ FirstSeqNo \in Nat
  /\ LastSeqNo \in Nat
  /\ CompactMin \in Nat
  /\ NoData \notin Data

VARIABLES
  offset, begin, end,  \* offset_, begin_, end_
  slots,               \* data_array_: a sequence of (payload, present flag)
  given,               \* history: what callers handed over, by number
  ran,                 \* history: the calls of `function', in order
  dropped,             \* history: what clear(function) handed to `function'
  live                 \* FALSE after clear(): its callers are tearing down

vars == <<offset, begin, end, slots, given, ran, dropped, live>>

SeqNos == FirstSeqNo .. LastSeqNo

Slot == [first : Data \cup {NoData}, second : BOOLEAN]

EmptySlot == [first |-> NoData, second |-> FALSE]

(* the slot of number s: data_array_[s - offset_] *)
SlotOf(s) == slots[s - offset + 1]

Init ==
  /\ offset = FirstSeqNo
  /\ begin = FirstSeqNo
  /\ end = FirstSeqNo
  /\ slots = <<>>
  /\ given = [n \in {} |-> FirstSeqNo]
  /\ ran = <<>>
  /\ dropped = {}
  /\ live = TRUE

Submitted(g, s, d) ==
  [n \in DOMAIN g \cup {s} |-> IF n = s THEN d ELSE g[n]]

(* begin_ after the run-now branch: begin_ itself runs, then every slot up *)
(* to the first one that is not present, or up to end_.                    *)
DrainedTo ==
  CHOOSE b \in begin + 1 .. (IF end > begin THEN end ELSE begin + 1) :
    /\ \A s \in begin + 1 .. b - 1 : SlotOf(s).second
    /\ b < end => ~SlotOf(b).second

(* data_array_ after the drain: the slots that ran are moved-from. *)
Drained(b) ==
  [i \in 1..Len(slots) |->
     IF begin < offset + i - 1 /\ offset + i - 1 < b THEN EmptySlot ELSE slots[i]]

(* the compaction erases the slots but leaves offset_ behind *)
Rebased_OffsetKept(b, newEnd, array) ==
  LET base == IF b = newEnd THEN b ELSE offset
      pos  == b - base
  IN IF pos > CompactMin /\ pos * 2 > Len(array)
       THEN [offset |-> base, slots |-> SubSeq(array, pos + 1, Len(array))]
       ELSE [offset |-> base, slots |-> array]

(* The tail of the run-now branch: an empty window is re-based for free,   *)
(* and try_compactify erases the slots below begin_ when they are many.    *)
Rebased(b, newEnd, array) ==
  LET base == IF b = newEnd THEN b ELSE offset
      pos  == b - base
  IN IF pos > CompactMin /\ pos * 2 > Len(array)
       THEN [offset |-> b, slots |-> SubSeq(array, pos + 1, Len(array))]
       ELSE [offset |-> base, slots |-> array]

(* add(seq_no, data, function) when seq_no == begin_ *)
AddNow(d) ==
  LET b      == DrainedTo
      newEnd == IF b > end THEN b ELSE end
      after  == Rebased(b, newEnd, Drained(b))
  IN /\ begin \in SeqNos \ DOMAIN given
     /\ live
     /\ ran' = ran \o [i \in 1 .. b - begin |->
                 IF i = 1 THEN <<begin, d>>
                          ELSE <<begin + i - 1, SlotOf(begin + i - 1).first>>]
     /\ begin' = b
     /\ end' = newEnd
     /\ offset' = after.offset
     /\ slots' = after.slots
     /\ given' = Submitted(given, begin, d)
     /\ UNCHANGED <<dropped, live>>

(* add(seq_no, data, function) when seq_no > begin_: the array is grown    *)
(* with empty slots when needed.  Senders never repeat a number and never  *)
(* go below begin_ (LOG_CHECK).                                            *)
AddLater(s, d) ==
  LET pos  == s - offset + 1
      size == IF Len(slots) < pos THEN pos ELSE Len(slots)
  IN /\ live
     /\ s > begin
     /\ s \notin DOMAIN given
     /\ slots' = [i \in 1..size |->
                    IF i = pos THEN [first |-> d, second |-> TRUE]
                    ELSE IF i <= Len(slots) THEN slots[i] ELSE EmptySlot]
     /\ end' = IF end < s + 1 THEN s + 1 ELSE end
     /\ given' = Submitted(given, s, d)
     /\ UNCHANGED <<offset, begin, ran, dropped, live>>

(* clear() without a function: the pending events vanish. *)
Clear_Silent ==
  /\ live
  /\ live' = FALSE
  /\ UNCHANGED <<dropped, given, ran>>
  /\ offset' = 1 /\ begin' = 1 /\ end' = 1 /\ slots' = <<>>

(* clear(function), FileLoader::tear_down: the object goes back to its     *)
(* default-constructed state.                                              *)
Clear ==
  /\ live
  /\ live' = FALSE
  /\ dropped' = { <<offset + i - 1, slots[i].first>> :
                    i \in { j \in 1..Len(slots) : slots[j].second } }
  /\ offset' = 1 /\ begin' = 1 /\ end' = 1 /\ slots' = <<>>
  /\ UNCHANGED <<given, ran>>

Next ==
  \/ \E d \in Data : AddNow(d)
  \/ \E s \in SeqNos, d \in Data : AddLater(s, d)
  \/ Clear

Spec == Init /\ [][Next]_vars
-----------------------------------------------------------------------------
(* The history variables are the abstract state of the sequencer. *)
Abstract == INSTANCE InOrderDelivery

(***************************************************************************)
(* Implementation: whatever the order in which numbers arrive, add() runs  *)
(* exactly the events of InOrderDelivery, in that order and with the       *)
(* payload each number was given, and clear(function) gives back exactly   *)
(* the rest.                                                               *)
(***************************************************************************)
RunsInOrder == Abstract!Spec

(***************************************************************************)
(* Types of the sequencer's state: offsets and numbers are natural, slots  *)
(* hold payloads, and what ran was handed over by a caller.                *)
(***************************************************************************)
TypeOK ==
  /\ offset \in Nat /\ begin \in Nat /\ end \in Nat
  /\ slots \in Seq(Slot)
  /\ DOMAIN given \subseteq SeqNos
  /\ \A s \in DOMAIN given : given[s] \in Data
  /\ ran \in Seq(SeqNos \X Data)
  /\ live \in BOOLEAN

(***************************************************************************)
(* The window: data_array_ covers every number up to end_, and a slot is   *)
(* marked present exactly when its number was handed over and has not run, *)
(* with the payload handed over.  The read data_array_[begin_ - offset_]   *)
(* in the drain and the iterators of the compaction stay inside the array  *)
(* because of this, and no slot left from before a re-basing is mistaken   *)
(* for an event.                                                           *)
(***************************************************************************)
WindowInv ==
  live =>
    /\ FirstSeqNo <= offset /\ offset <= begin /\ begin <= end
    /\ end - offset <= Len(slots)
    /\ \A s \in DOMAIN given : s < end
    /\ \A i \in 1..Len(slots) :
         /\ slots[i].second <=> (offset + i - 1 \in DOMAIN given /\ offset + i - 1 >= begin)
         /\ slots[i].second => slots[i].first = given[offset + i - 1]

=============================================================================
