-------------------------- MODULE InOrderDelivery --------------------------
(***************************************************************************)
(* What a sequencer of numbered events promises, whatever data structure   *)
(* it uses: events are submitted in any order, one per number, and run in  *)
(* number order, without a gap, without waiting longer than the gap lasts. *)
(* When the sequencer is torn down, every submitted event that has not run *)
(* is given back.  OrderedEventsProcessor.tla implements this.             *)
(***************************************************************************)
EXTENDS Integers, Sequences

CONSTANTS FirstSeqNo, LastSeqNo, Data

VARIABLES
  given,    \* the submitted events: a function from numbers to data
  ran,      \* the events that ran, <<number, data>>, in the order they ran
  dropped,  \* the events given back by the tear down
  live      \* FALSE once the sequencer is torn down

vars == <<given, ran, dropped, live>>

SeqNos == FirstSeqNo .. LastSeqNo

(* g with the event d submitted under number s *)
Submitted(g, s, d) ==
  [n \in DOMAIN g \cup {s} |-> IF n = s THEN d ELSE g[n]]

(* r is the run of the longest gap-free prefix of g *)
IsRunOf(r, g) ==
  /\ \A i \in 1..Len(r) :
        /\ FirstSeqNo + i - 1 \in DOMAIN g
        /\ r[i] = <<FirstSeqNo + i - 1, g[FirstSeqNo + i - 1]>>
  /\ FirstSeqNo + Len(r) \notin DOMAIN g

Init ==
  /\ given = [n \in {} |-> FirstSeqNo]
  /\ ran = <<>>
  /\ dropped = {}
  /\ live = TRUE

Submit(s, d) ==
  /\ live
  /\ s \notin DOMAIN given
  /\ given' = Submitted(given, s, d)
  /\ ran' \in Seq(SeqNos \X Data)
  /\ IsRunOf(ran', given')
  /\ UNCHANGED <<dropped, live>>

TearDown ==
  /\ live
  /\ live' = FALSE
  /\ dropped' = { <<s, given[s]>> : s \in { n \in DOMAIN given : n >= FirstSeqNo + Len(ran) } }
  /\ UNCHANGED <<given, ran>>

Next ==
  \/ \E s \in SeqNos, d \in Data : Submit(s, d)
  \/ TearDown

Spec == Init /\ [][Next]_vars
=============================================================================
