-------------------- MODULE OrderedEventsProcessor_proofs --------------------
(***************************************************************************)
(* Proofs about OrderedEventsProcessor, for every first number, every set  *)
(* of payloads and every compaction threshold: the window is well formed,  *)
(* and the class implements InOrderDelivery.                               *)
(***************************************************************************)
EXTENDS OrderedEventsProcessor, WellFoundedInduction, SequenceTheorems, TLAPS

(* A non-empty set of natural numbers has a least element. *)
LEMMA LeastNat ==
  ASSUME NEW T \in SUBSET Nat, T # {}
  PROVE  \E x \in T : \A y \in T : x <= y
<1>1. IsWellFoundedOn({ss \in Nat \X Nat : ss[1] < ss[2]}, Nat)
  BY NatLessThanWellFounded, Zenon DEF OpToRel
<1>2. PICK R : /\ IsWellFoundedOn(R, Nat)
               /\ \A x, y \in Nat : y < x => <<y, x>> \in R
  <2>1. \A x, y \in Nat : y < x => <<y, x>> \in {ss \in Nat \X Nat : ss[1] < ss[2]}
    OBVIOUS
  <2> QED
    BY <1>1, <2>1, Zenon
<1>3. PICK x \in T : \A y \in T : ~(<<y, x>> \in R)
  BY <1>2, WFMin
<1>4. ASSUME NEW y \in T
      PROVE  x <= y
  <2>1. ~(y < x)
    BY <1>2, <1>3, Zenon
  <2> QED
    BY <2>1
<1> QED
  BY <1>4
-----------------------------------------------------------------------------
(* What has run is the gap-free prefix of what was handed over, up to      *)
(* begin_.  Together with TypeOK and WindowInv this is inductive.          *)
RanInv ==
  live => /\ Len(ran) = begin - FirstSeqNo
          /\ Abstract!IsRunOf(ran, given)

IInv == TypeOK /\ WindowInv /\ RanInv
-----------------------------------------------------------------------------
(* A function on 1..n is a sequence of length n. *)
LEMMA FunctionIsSeq ==
  ASSUME NEW S, NEW n \in Nat, NEW f \in [1..n -> S]
  PROVE  f \in Seq(S) /\ Len(f) = n
<1>1. f \in Seq(S)
  BY SeqDef
<1>2. DOMAIN f = 1..n /\ DOMAIN f = 1..Len(f) /\ Len(f) \in Nat
  BY <1>1, LenProperties
<1> QED
  BY <1>1, <1>2

(* The drain of add() stops: DrainedTo is the first number after begin_    *)
(* whose slot is not present, or the end of the window.                    *)
LEMMA DrainStops ==
  ASSUME TypeOK
  PROVE  /\ DrainedTo \in Nat
         /\ DrainedTo >= begin + 1
         /\ DrainedTo <= (IF end > begin THEN end ELSE begin + 1)
         /\ \A s \in begin + 1 .. DrainedTo - 1 : SlotOf(s).second
         /\ DrainedTo < end => ~SlotOf(DrainedTo).second
<1> DEFINE limit == IF end > begin THEN end ELSE begin + 1
           Stop  == { b \in begin + 1 .. limit : b = limit \/ ~SlotOf(b).second }
<1>1. limit \in Nat /\ limit >= begin + 1 /\ limit >= end /\ begin \in Nat /\ end \in Nat
  BY DEF TypeOK
<1>2. Stop \in SUBSET Nat /\ limit \in Stop
  BY <1>1
<1> HIDE DEF limit
<1>3. PICK b \in Stop : \A y \in Stop : b <= y
  BY <1>2, LeastNat
<1>4. /\ b \in begin + 1 .. limit
      /\ b < end => ~SlotOf(b).second
  BY <1>1, <1>3
<1>5. ASSUME NEW s \in begin + 1 .. b - 1
      PROVE  SlotOf(s).second
  <2>1. s \in begin + 1 .. limit /\ s \in Nat /\ ~(b <= s)
    BY <1>1, <1>4, <1>5
  <2>2. s \notin Stop
    BY <2>1, <1>3
  <2> QED
    BY <2>1, <2>2
<1>6. DrainedTo \in begin + 1 .. limit
      /\ (\A s \in begin + 1 .. DrainedTo - 1 : SlotOf(s).second)
      /\ (DrainedTo < end => ~SlotOf(DrainedTo).second)
  BY <1>4, <1>5 DEF DrainedTo, limit
<1> QED
  BY <1>1, <1>6 DEF limit
-----------------------------------------------------------------------------
(* The invariant holds initially. *)
LEMMA InitInv == Init => IInv
<1> SUFFICES ASSUME Init PROVE IInv
  OBVIOUS
<1>1. DOMAIN given = {}
  BY DEF Init
<1>2. TypeOK
  BY <1>1, OEPAssumption DEF Init, TypeOK
<1>3. WindowInv
  BY <1>1, OEPAssumption DEF Init, WindowInv
<1>4. RanInv
  BY <1>1, OEPAssumption DEF Init, RanInv, Abstract!IsRunOf
<1> QED
  BY <1>2, <1>3, <1>4 DEF IInv

(* add() of the awaited number keeps the window well formed, through the   *)
(* drain, the re-basing of an empty window and the compaction.             *)
LEMMA AddNowInv ==
  ASSUME IInv, NEW d \in Data, AddNow(d)
  PROVE  IInv'
<1> DEFINE b      == DrainedTo
           newEnd == IF b > end THEN b ELSE end
           array  == Drained(b)
           after  == Rebased(b, newEnd, array)
           given1 == Submitted(given, begin, d)
           Num(i) == offset + i - 1
<1>0. /\ TypeOK /\ WindowInv /\ RanInv /\ live
      /\ begin \in SeqNos /\ begin \notin DOMAIN given
      /\ begin' = b /\ end' = newEnd
      /\ offset' = after.offset /\ slots' = after.slots
      /\ given' = given1 /\ live' = live
  BY DEF IInv, AddNow
<1>1. /\ offset \in Nat /\ begin \in Nat /\ end \in Nat /\ Len(slots) \in Nat
      /\ FirstSeqNo \in Nat /\ LastSeqNo \in Nat /\ CompactMin \in Nat
      /\ FirstSeqNo <= offset /\ offset <= begin /\ begin <= end
      /\ end - offset <= Len(slots)
      /\ slots \in Seq(Slot)
  BY <1>0, LenProperties, OEPAssumption DEF TypeOK, WindowInv
<1>2. /\ b \in Nat /\ b >= begin + 1
      /\ b <= (IF end > begin THEN end ELSE begin + 1)
      /\ \A s \in begin + 1 .. b - 1 : SlotOf(s).second
      /\ b < end => ~SlotOf(b).second
  BY <1>0, DrainStops
<1> HIDE DEF b
<1>3. newEnd \in Nat /\ b <= newEnd /\ end <= newEnd /\ (end < b => newEnd = b)
  BY <1>1, <1>2
<1>4. /\ DOMAIN given1 = DOMAIN given \cup {begin}
      /\ given1[begin] = d
      /\ \A n \in DOMAIN given : n # begin => given1[n] = given[n]
  BY DEF Submitted
<1> HIDE DEF given1
<1>5. \A i \in 1..Len(slots) :
         /\ slots[i] \in Slot
         /\ slots[i].second <=> (Num(i) \in DOMAIN given /\ Num(i) >= begin)
         /\ slots[i].second => slots[i].first = given[Num(i)]
  BY <1>0, <1>1, ElementOfSeq DEF WindowInv
<1>6. \A s \in begin + 1 .. b - 1 :
         s \in DOMAIN given /\ SlotOf(s).first = given[s] /\ s \in SeqNos /\ given[s] \in Data
  <2> TAKE s \in begin + 1 .. b - 1
  <2>1. s < end /\ s \in Nat /\ s > begin
    BY <1>1, <1>2
  <2>2. s - offset + 1 \in 1..Len(slots) /\ Num(s - offset + 1) = s
    BY <1>1, <2>1
  <2>3. s \in DOMAIN given /\ SlotOf(s).first = given[s]
    BY <1>2, <1>5, <2>1, <2>2 DEF SlotOf
  <2> QED
    BY <1>0, <2>3 DEF TypeOK
<1>7. b \notin DOMAIN given1
  <2>1. CASE b < end
    <3>1. b - offset + 1 \in 1..Len(slots) /\ Num(b - offset + 1) = b
      BY <1>1, <1>2, <2>1
    <3> QED
      BY <1>1, <1>2, <1>4, <1>5, <2>1, <3>1 DEF SlotOf
  <2>2. CASE b >= end
    BY <1>0, <1>1, <1>2, <1>4, <2>2 DEF WindowInv
  <2> QED
    BY <1>1, <1>2, <2>1, <2>2
<1>8. \A s \in DOMAIN given1 : s \in SeqNos /\ given1[s] \in Data /\ s < newEnd
  <2> TAKE s \in DOMAIN given1
  <2>1. CASE s = begin
    BY <1>0, <1>1, <1>2, <1>3, <1>4, <2>1
  <2>2. CASE s # begin
    <3>1. s \in DOMAIN given /\ given1[s] = given[s]
      BY <1>4, <2>2
    <3>2. s \in SeqNos /\ given[s] \in Data /\ s < end
      BY <1>0, <3>1 DEF TypeOK, WindowInv
    <3> QED
      BY <1>1, <1>3, <3>1, <3>2 DEF SeqNos
  <2> QED
    BY <2>1, <2>2
<1>9. /\ array \in Seq(Slot) /\ Len(array) = Len(slots)
      /\ \A i \in 1..Len(slots) :
           /\ array[i] \in Slot
           /\ array[i].second <=> (Num(i) \in DOMAIN given1 /\ Num(i) >= b)
           /\ array[i].second => array[i].first = given1[Num(i)]
  <2>1. \A i \in 1..Len(slots) :
          array[i] = IF begin < Num(i) /\ Num(i) < b THEN EmptySlot ELSE slots[i]
    BY DEF Drained
  <2>2. EmptySlot \in Slot /\ ~EmptySlot.second
    BY DEF EmptySlot, Slot
  <2>3. array \in [1..Len(slots) -> Slot]
    BY <1>5, <2>2 DEF Drained
  <2>4. array \in Seq(Slot) /\ Len(array) = Len(slots)
    BY <1>1, <2>3, FunctionIsSeq
  <2>5. ASSUME NEW i \in 1..Len(slots)
        PROVE  /\ array[i].second <=> (Num(i) \in DOMAIN given1 /\ Num(i) >= b)
               /\ array[i].second => array[i].first = given1[Num(i)]
    <3>1. CASE begin < Num(i) /\ Num(i) < b
      BY <1>1, <1>2, <2>1, <2>2, <3>1
    <3>2. CASE Num(i) <= begin
      <4>0. ~(Num(i) >= b) /\ (Num(i) >= begin => Num(i) = begin) /\ ~(begin < Num(i))
        BY <1>1, <1>2, <3>2
      <4>1. array[i] = slots[i]
        BY <2>1, <4>0, Zenon
      <4>2. ~slots[i].second
        BY <1>0, <1>5, <4>0
      <4> QED
        BY <4>0, <4>1, <4>2
    <3>3. CASE Num(i) >= b
      <4>1. array[i] = slots[i] /\ Num(i) # begin /\ Num(i) >= begin
        BY <1>1, <1>2, <2>1, <3>3
      <4> QED
        BY <1>4, <1>5, <3>3, <4>1
    <3> QED
      BY <1>1, <1>2, <3>1, <3>2, <3>3
  <2> QED
    BY <2>3, <2>4, <2>5
<1> HIDE DEF array
<1>10. \/ b = newEnd /\ after.offset = b /\ after.slots = array
       \/ /\ b < newEnd /\ after.offset = offset /\ after.slots = array
       \/ /\ b < newEnd /\ after.offset = b
          /\ after.slots = SubSeq(array, b - offset + 1, Len(array))
  BY <1>1, <1>2, <1>3, <1>9 DEF Rebased
<1> HIDE DEF after
<1>11. /\ slots' \in Seq(Slot) /\ offset' \in Nat
       /\ FirstSeqNo <= offset' /\ offset' <= b /\ newEnd - offset' <= Len(slots')
       /\ \A i \in 1..Len(slots') :
            /\ slots'[i].second <=> (offset' + i - 1 \in DOMAIN given1 /\ offset' + i - 1 >= b)
            /\ slots'[i].second => slots'[i].first = given1[offset' + i - 1]
  <2>1. CASE b = newEnd /\ after.offset = b /\ after.slots = array
    <3>1. \A i \in 1..Len(slots) :
             Num(i) \in Int /\ b + i - 1 \in Int /\ b + i - 1 >= newEnd /\ Num(i) \in Int
      BY <1>1, <1>2, <2>1
    <3>2. \A n \in Int : n >= newEnd => n \notin DOMAIN given1
      BY <1>3, <1>8 DEF SeqNos
    <3>3. \A i \in 1..Len(slots) : ~array[i].second
      BY <1>9, <2>1, <3>1, <3>2
    <3> QED
      BY <1>0, <1>1, <1>2, <1>9, <2>1, <3>1, <3>2, <3>3
  <2>2. CASE b < newEnd /\ after.offset = offset /\ after.slots = array
    <3>1. newEnd = end
      BY <1>1, <1>2, <2>2
    <3> QED
      BY <1>0, <1>1, <1>2, <1>9, <2>2, <3>1
  <2>3. CASE /\ b < newEnd /\ after.offset = b
             /\ after.slots = SubSeq(array, b - offset + 1, Len(array))
    <3> DEFINE m == b - offset + 1
               n == Len(array)
    <3>1. newEnd = end /\ m \in Int /\ n \in Int /\ m >= 1 /\ m <= n
      BY <1>1, <1>2, <1>9, <2>3
    <3>2. \A i \in m..n : array[i] \in Slot
      BY <1>9, <3>1
    <3>3. /\ slots' \in Seq(Slot)
          /\ Len(slots') = n - m + 1
          /\ \A i \in 1 .. n - m + 1 : slots'[i] = array[m + i - 1]
      BY <1>0, <2>3, <3>1, <3>2, SubSeqProperties
    <3>4. \A i \in 1 .. n - m + 1 : m + i - 1 \in 1..Len(slots) /\ Num(m + i - 1) = b + i - 1
      <4>1. n = Len(slots)
        BY <1>9
      <4> QED
        BY <1>1, <1>2, <3>1, <4>1
    <3>5. newEnd - b <= n - m + 1
      BY <1>1, <1>2, <1>9, <3>1
    <3> QED
      BY <1>0, <1>1, <1>2, <1>9, <2>3, <3>3, <3>4, <3>5
  <2> QED
    BY <1>10, <2>1, <2>2, <2>3
<1>12. WindowInv'
  BY <1>0, <1>2, <1>3, <1>8, <1>11 DEF WindowInv
<1> DEFINE new == [i \in 1 .. b - begin |->
                     IF i = 1 THEN <<begin, d>>
                              ELSE <<begin + i - 1, SlotOf(begin + i - 1).first>>]
<1>13. /\ ran \in Seq(SeqNos \X Data)
       /\ Len(ran) = begin - FirstSeqNo
       /\ \A i \in 1..Len(ran) :
             /\ FirstSeqNo + i - 1 \in DOMAIN given
             /\ ran[i] = <<FirstSeqNo + i - 1, given[FirstSeqNo + i - 1]>>
  BY <1>0 DEF TypeOK, RanInv, Abstract!IsRunOf
<1>14. \A i \in 1 .. b - begin :
          /\ begin + i - 1 \in DOMAIN given1
          /\ new[i] = <<begin + i - 1, given1[begin + i - 1]>>
          /\ new[i] \in SeqNos \X Data
  <2> TAKE i \in 1 .. b - begin
  <2>1. CASE i = 1
    <3>1. begin + i - 1 = begin /\ new[i] = <<begin, d>>
      BY <1>1, <1>2, <2>1
    <3> QED
      BY <1>0, <1>4, <3>1
  <2>2. CASE i # 1
    <3>1. /\ begin + i - 1 \in begin + 1 .. b - 1
          /\ begin + i - 1 # begin
          /\ new[i] = <<begin + i - 1, SlotOf(begin + i - 1).first>>
      BY <1>1, <1>2, <2>2
    <3> QED
      BY <1>4, <1>6, <3>1
  <2> QED
    BY <2>1, <2>2
<1>15. /\ new \in Seq(SeqNos \X Data)
       /\ Len(new) = b - begin
  <2>0. new = [i \in 1 .. b - begin |-> new[i]]
    OBVIOUS
  <2> HIDE DEF new
  <2>1. b - begin \in Nat /\ new \in [1 .. b - begin -> SeqNos \X Data]
    BY <1>1, <1>2, <1>14, <2>0
  <2> QED
    BY <2>1, FunctionIsSeq
<1>16. ran' = ran \o new
  BY DEF AddNow, b
<1> HIDE DEF new
<1>17. /\ ran' \in Seq(SeqNos \X Data)
       /\ Len(ran') = Len(ran) + (b - begin)
       /\ \A i \in 1 .. Len(ran) + (b - begin) :
             ran'[i] = IF i <= Len(ran) THEN ran[i] ELSE new[i - Len(ran)]
  <2>1. /\ ran \o new \in Seq(SeqNos \X Data)
        /\ Len(ran \o new) = Len(ran) + Len(new)
        /\ \A i \in 1 .. Len(ran) + Len(new) : (ran \o new)[i] =
              IF i <= Len(ran) THEN ran[i] ELSE new[i - Len(ran)]
    BY <1>13, <1>15, ConcatProperties, Zenon
  <2> QED
    BY <1>15, <1>16, <2>1, Zenon
<1>18. Len(ran') = b - FirstSeqNo
  BY <1>1, <1>2, <1>13, <1>17
<1>19. ASSUME NEW i \in 1 .. b - FirstSeqNo
       PROVE  /\ FirstSeqNo + i - 1 \in DOMAIN given1
              /\ ran'[i] = <<FirstSeqNo + i - 1, given1[FirstSeqNo + i - 1]>>
  <2>1. CASE i <= begin - FirstSeqNo
    <3>1. i \in 1..Len(ran) /\ ran'[i] = ran[i] /\ FirstSeqNo + i - 1 # begin
      BY <1>1, <1>2, <1>13, <1>17, <2>1
    <3> QED
      BY <1>4, <1>13, <3>1
  <2>2. CASE ~(i <= begin - FirstSeqNo)
    <3>1. /\ i - (begin - FirstSeqNo) \in 1 .. b - begin
          /\ begin + (i - (begin - FirstSeqNo)) - 1 = FirstSeqNo + i - 1
      BY <1>1, <1>2, <2>2
    <3>2. ran'[i] = new[i - (begin - FirstSeqNo)]
      BY <1>1, <1>2, <1>13, <1>17, <2>2
    <3> QED
      BY <1>14, <3>1, <3>2
  <2> QED
    BY <2>1, <2>2
<1>20. RanInv'
  <2>1. FirstSeqNo + (b - FirstSeqNo) = b
    BY <1>1, <1>2
  <2> QED
    BY <1>0, <1>7, <1>18, <1>19, <2>1 DEF RanInv, Abstract!IsRunOf
<1>21. TypeOK'
  BY <1>0, <1>2, <1>3, <1>8, <1>11, <1>17 DEF TypeOK
<1> QED
  BY <1>12, <1>20, <1>21 DEF IInv

(* add() of a later number only fills its slot, growing the array.         *)
LEMMA AddLaterInv ==
  ASSUME IInv, NEW s \in SeqNos, NEW d \in Data, AddLater(s, d)
  PROVE  IInv'
<1> DEFINE pos    == s - offset + 1
           size   == IF Len(slots) < pos THEN pos ELSE Len(slots)
           given1 == Submitted(given, s, d)
           Num(i) == offset + i - 1
<1>0. /\ TypeOK /\ WindowInv /\ RanInv /\ live
      /\ s > begin /\ s \notin DOMAIN given
      /\ end' = IF end < s + 1 THEN s + 1 ELSE end
      /\ given' = given1
      /\ UNCHANGED <<offset, begin, ran, dropped, live>>
  BY DEF IInv, AddLater
<1>1. /\ offset \in Nat /\ begin \in Nat /\ end \in Nat /\ Len(slots) \in Nat
      /\ s \in Nat /\ FirstSeqNo \in Nat
      /\ FirstSeqNo <= offset /\ offset <= begin /\ begin <= end
      /\ end - offset <= Len(slots)
      /\ slots \in Seq(Slot)
  BY <1>0, LenProperties, OEPAssumption DEF TypeOK, WindowInv, SeqNos
<1>2. /\ pos \in Nat /\ size \in Nat /\ pos \in 1..size /\ Len(slots) <= size
      /\ end' \in Nat /\ end <= end' /\ s < end' /\ end' - offset <= size
  BY <1>0, <1>1
<1>3. /\ DOMAIN given1 = DOMAIN given \cup {s}
      /\ given1[s] = d
      /\ \A n \in DOMAIN given : n # s => given1[n] = given[n]
  BY DEF Submitted
<1> HIDE DEF given1
<1>4. slots' = [i \in 1..size |->
                  IF i = pos THEN [first |-> d, second |-> TRUE]
                  ELSE IF i <= Len(slots) THEN slots[i] ELSE EmptySlot]
  BY DEF AddLater
<1>5. \A i \in 1..Len(slots) :
         /\ slots[i] \in Slot
         /\ slots[i].second <=> (Num(i) \in DOMAIN given /\ Num(i) >= begin)
         /\ slots[i].second => slots[i].first = given[Num(i)]
  BY <1>0, <1>1, ElementOfSeq DEF WindowInv
<1>6. EmptySlot \in Slot /\ ~EmptySlot.second /\ [first |-> d, second |-> TRUE] \in Slot
  BY DEF EmptySlot, Slot
<1>7. slots' \in [1..size -> Slot]
  BY <1>4, <1>5, <1>6
<1>8. slots' \in Seq(Slot) /\ Len(slots') = size
  BY <1>2, <1>7, FunctionIsSeq
<1>9. \A n \in DOMAIN given1 : n \in SeqNos /\ given1[n] \in Data /\ n < end'
  BY <1>0, <1>1, <1>2, <1>3 DEF TypeOK, WindowInv, SeqNos
<1>10. ASSUME NEW i \in 1..size
       PROVE  /\ slots'[i].second <=> (Num(i) \in DOMAIN given1 /\ Num(i) >= begin)
              /\ slots'[i].second => slots'[i].first = given1[Num(i)]
  <2>1. CASE i = pos
    <3>1. Num(i) = s /\ Num(i) >= begin
      BY <1>0, <1>1, <2>1
    <3>2. slots'[i] = [first |-> d, second |-> TRUE]
      BY <1>4, <2>1
    <3> QED
      BY <1>3, <3>1, <3>2
  <2>2. CASE i # pos /\ i <= Len(slots)
    <3>1. Num(i) # s /\ i \in 1..Len(slots)
      BY <1>1, <1>2, <2>2
    <3>2. slots'[i] = slots[i]
      BY <1>4, <2>2
    <3> QED
      BY <1>3, <1>5, <3>1, <3>2
  <2>3. CASE i # pos /\ ~(i <= Len(slots))
    <3>1. Num(i) # s /\ Num(i) >= end
      BY <1>1, <1>2, <2>3
    <3>2. Num(i) \notin DOMAIN given1
      BY <1>0, <1>1, <1>3, <3>1 DEF WindowInv, TypeOK, SeqNos
    <3>3. slots'[i] = EmptySlot
      BY <1>4, <2>3
    <3> QED
      BY <1>6, <3>2, <3>3
  <2> QED
    BY <2>1, <2>2, <2>3
<1>11. WindowInv'
  BY <1>0, <1>1, <1>2, <1>8, <1>9, <1>10 DEF WindowInv
<1>12. TypeOK'
  BY <1>0, <1>2, <1>8, <1>9 DEF TypeOK
<1>13. RanInv'
  <2>1. /\ Len(ran) = begin - FirstSeqNo
        /\ FirstSeqNo + Len(ran) = begin
        /\ begin \notin DOMAIN given /\ begin # s
        /\ \A i \in 1..Len(ran) : /\ FirstSeqNo + i - 1 \in DOMAIN given
                                  /\ ran[i] = <<FirstSeqNo + i - 1, given[FirstSeqNo + i - 1]>>
    BY <1>0, <1>1 DEF RanInv, Abstract!IsRunOf
  <2> QED
    BY <1>0, <1>3, <2>1 DEF RanInv, Abstract!IsRunOf
<1> QED
  BY <1>11, <1>12, <1>13 DEF IInv

(* clear() tears the window down. *)
LEMMA ClearInv ==
  ASSUME IInv, Clear
  PROVE  IInv'
<1>1. ~live' /\ UNCHANGED <<given, ran>> /\ slots' = <<>>
  BY DEF Clear
<1>2. TypeOK'
  <2>1. slots' \in Seq(Slot)
    BY <1>1, EmptySeq
  <2>2. offset' \in Nat /\ begin' \in Nat /\ end' \in Nat /\ live' \in BOOLEAN
    BY DEF Clear
  <2> QED
    BY <1>1, <2>1, <2>2 DEF IInv, TypeOK
<1>3. WindowInv' /\ RanInv'
  BY <1>1 DEF WindowInv, RanInv
<1> QED
  BY <1>2, <1>3 DEF IInv

LEMMA NextInv == IInv /\ [Next]_vars => IInv'
<1> SUFFICES ASSUME IInv, [Next]_vars PROVE IInv'
  OBVIOUS
<1>1. ASSUME NEW d \in Data, AddNow(d) PROVE IInv'
  BY <1>1, AddNowInv
<1>2. ASSUME NEW s \in SeqNos, NEW d \in Data, AddLater(s, d) PROVE IInv'
  BY <1>2, AddLaterInv
<1>3. ASSUME Clear PROVE IInv'
  BY <1>3, ClearInv
<1>4. CASE UNCHANGED vars
  BY <1>4 DEF vars, IInv, TypeOK, WindowInv, RanInv, Abstract!IsRunOf
<1> QED
  BY <1>1, <1>2, <1>3, <1>4 DEF Next

(***************************************************************************)
(* Type correctness of the processor's state.                              *)
(***************************************************************************)
THEOREM TypeCorrect == Spec => []TypeOK
<1>1. IInv => TypeOK
  BY DEF IInv
<1> QED
  BY <1>1, InitInv, NextInv, PTL DEF Spec

(***************************************************************************)
(* The window of slots is well formed in every reachable state: every      *)
(* index add() computes is inside data_array_, and the present slots are   *)
(* exactly the events handed over that have not run.                       *)
(***************************************************************************)
THEOREM WindowCorrect == Spec => []WindowInv
<1>1. IInv => WindowInv
  BY DEF IInv
<1> QED
  BY <1>1, InitInv, NextInv, PTL DEF Spec
(* Every step of the processor is a step of the abstract sequencer. *)
LEMMA StepRefines ==
  ASSUME IInv, IInv', [Next]_vars
  PROVE  [Abstract!Next]_(Abstract!vars)
<1>1. ASSUME NEW d \in Data, AddNow(d) PROVE Abstract!Next
  <2>1. Abstract!Submit(begin, d) /\ begin \in SeqNos
    BY <1>1 DEF AddNow, IInv, TypeOK, RanInv, Abstract!Submit, Abstract!Submitted,
                Submitted, Abstract!SeqNos, SeqNos
  <2> QED
    BY <2>1 DEF Abstract!Next, Abstract!SeqNos, SeqNos
<1>2. ASSUME NEW s \in SeqNos, NEW d \in Data, AddLater(s, d) PROVE Abstract!Next
  <2>1. Abstract!Submit(s, d)
    BY <1>2 DEF AddLater, IInv, TypeOK, RanInv, Abstract!Submit, Abstract!Submitted,
                Submitted, Abstract!SeqNos, SeqNos
  <2> QED
    BY <2>1 DEF Abstract!Next, Abstract!SeqNos, SeqNos
<1>3. ASSUME Clear PROVE Abstract!Next
  <2> DEFINE Kept    == { n \in DOMAIN given : n >= FirstSeqNo + Len(ran) }
             Present == { j \in 1..Len(slots) : slots[j].second }
  <2>1. /\ offset \in Nat /\ begin \in Nat /\ end \in Nat /\ Len(slots) \in Nat
        /\ offset <= begin /\ end - offset <= Len(slots)
        /\ FirstSeqNo + Len(ran) = begin
        /\ \A s \in DOMAIN given : s \in Nat /\ s < end
        /\ \A i \in 1..Len(slots) :
             /\ slots[i].second <=> (offset + i - 1 \in DOMAIN given /\ offset + i - 1 >= begin)
             /\ slots[i].second => slots[i].first = given[offset + i - 1]
    BY <1>3, LenProperties, OEPAssumption DEF Clear, IInv, TypeOK, WindowInv, RanInv, SeqNos
  <2>2. ASSUME NEW j \in Present
        PROVE  /\ offset + j - 1 \in Kept
               /\ <<offset + j - 1, slots[j].first>> = <<offset + j - 1, given[offset + j - 1]>>
    BY <2>1
  <2>3. ASSUME NEW s \in Kept
        PROVE  \E j \in Present : <<s, given[s]>> = <<offset + j - 1, slots[j].first>>
    <3>1. s - offset + 1 \in 1..Len(slots) /\ offset + (s - offset + 1) - 1 = s /\ s >= begin
      BY <2>1
    <3>2. slots[s - offset + 1].second /\ slots[s - offset + 1].first = given[s]
      BY <2>1, <3>1
    <3> QED
      BY <3>1, <3>2
  <2>4. {<<offset + i - 1, slots[i].first>> : i \in Present} = {<<s, given[s]>> : s \in Kept}
    <3> HIDE DEF Kept, Present
    <3> QED
      BY <2>2, <2>3
  <2>5. Abstract!TearDown
    BY <1>3, <2>4 DEF Clear, Abstract!TearDown
  <2> QED
    BY <2>5 DEF Abstract!Next
<1>4. CASE UNCHANGED vars
  BY <1>4 DEF vars, Abstract!vars
<1> QED
  BY <1>1, <1>2, <1>3, <1>4 DEF Next

(***************************************************************************)
(* The processor implements InOrderDelivery: whatever the order of the     *)
(* arrivals, events run in number order, each once, with its own payload,  *)
(* as soon as the gap before them closes, and clear(function) gives back   *)
(* exactly those that did not run.                                         *)
(***************************************************************************)
THEOREM ImplementsInOrderDelivery == Spec => RunsInOrder
<1>1. Init => Abstract!Init
  BY DEF Init, Abstract!Init
<1> QED
  BY <1>1, InitInv, NextInv, StepRefines, PTL DEF Spec, RunsInOrder, Abstract!Spec
=============================================================================
