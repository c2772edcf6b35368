-------------------------- MODULE PtsManager_proofs --------------------------
(***************************************************************************)
(* Proofs about PtsManager, for every set of positions, every number of    *)
(* tokens and resets and every compaction threshold: the array is well     *)
(* formed, and db_pts_ is the position Checkpoints allows to save.         *)
(***************************************************************************)
EXTENDS PtsManager, WellFoundedInduction, SequenceTheorems, TLAPS

(* A non-empty set of natural numbers has a least element. *)
LEMMA LeastNat ==
  ASSUME NEW T \in SUBSET Nat, T # {}
  PROVE  \E x \in T : \A y \in T : x <= y
<1>1. IsWellFoundedOn({ss \in Nat \X Nat : ss[1] < ss[2]}, Nat)
  BY NatLessThanWellFounded, Zenon DEF OpToRel
<1>2. PICK R : /\ IsWellFoundedOn(R, Nat)
               /\ \A x, y \in Nat : y < x => <<y, x>> \in R
  <2>1. \A x, y \in Nat : y < x => <<y, x>> \in {ss \in Nat \X Nat : ss[1] < ss[2]}
    OBVIOUS
  <2> QED
    BY <1>1, <2>1, Zenon
<1>3. PICK x \in T : \A y \in T : ~(<<y, x>> \in R)
  BY <1>2, WFMin
<1>4. ASSUME NEW y \in T
      PROVE  x <= y
  <2>1. ~(y < x)
    BY <1>2, <1>3, Zenon
  <2> QED
    BY <2>1
<1> QED
  BY <1>4

(* A non-empty set of natural numbers with an upper bound has a greatest   *)
(* element.                                                                *)
LEMMA GreatestNat ==
  ASSUME NEW T \in SUBSET Nat, T # {}, NEW n \in Nat, \A x \in T : x <= n
  PROVE  \E x \in T : \A y \in T : y <= x
<1> DEFINE U == { m \in Nat : \E x \in T : m = n - x }
<1>1. \A x \in T : n - x \in U
  OBVIOUS
<1>2. U \in SUBSET Nat /\ U # {}
  BY <1>1
<1>3. PICK m \in U : \A k \in U : m <= k
  BY <1>2, LeastNat
<1>4. PICK x \in T : m = n - x
  OBVIOUS
<1>5. \A y \in T : y <= x
  BY <1>1, <1>3, <1>4
<1> QED
  BY <1>5
-----------------------------------------------------------------------------
(* db_pts_ is the newest checkpoint with nothing unfinished in front of    *)
(* it.  Together with PtsTypeOK and ArrayInv this is inductive.            *)
SavedInv == Abstract!IsNewest(db_pts, changes, finished, base)

IInv == PtsTypeOK /\ ArrayInv /\ SavedInv
-----------------------------------------------------------------------------
(* The loop of finish() stops at the first change that is not ready. *)
LEMMA LoopStops ==
  ASSUME NEW d \in Seq(Change), NEW i \in 0..Len(d)
  PROVE  /\ ReadyEnd(d, i) \in i..Len(d)
         /\ \A k \in i + 1 .. ReadyEnd(d, i) : d[k].ready
         /\ ReadyEnd(d, i) < Len(d) => ~d[ReadyEnd(d, i) + 1].ready
<1> DEFINE n    == Len(d)
           Stop == { e \in i..n : e = n \/ ~d[e + 1].ready }
<1>1. n \in Nat /\ i \in Nat /\ i <= n
  BY LenProperties
<1> HIDE DEF n
<1>2. Stop \in SUBSET Nat /\ n \in Stop
  BY <1>1
<1>3. PICK e \in Stop : \A y \in Stop : e <= y
  BY <1>2, LeastNat
<1>4. e \in i..n /\ (e < n => ~d[e + 1].ready)
  BY <1>1, <1>3
<1>5. ASSUME NEW k \in i + 1 .. e
      PROVE  d[k].ready
  <2>1. k - 1 \in i..n /\ ~(e <= k - 1) /\ k - 1 # n /\ (k - 1) + 1 = k
    BY <1>1, <1>4, <1>5
  <2>2. k - 1 \notin Stop
    BY <2>1, <1>3
  <2> QED
    BY <2>1, <2>2
<1> QED
  BY <1>4, <1>5 DEF ReadyEnd, n

(* What is reached ends where the finished prefix ends. *)
LEMMA PrefixReached ==
  ASSUME NEW ch \in Seq(Position), NEW fin, NEW r \in 0..Len(ch),
         1..r \subseteq fin, r < Len(ch) => r + 1 \notin fin
  PROVE  Abstract!Reached(ch, fin) = { k \in 1..r : ch[k] # 0 }
<1>1. DOMAIN ch = 1..Len(ch) /\ Len(ch) \in Nat
  BY LenProperties
<1>2. ASSUME NEW k \in 1..Len(ch)
      PROVE  1..k \subseteq fin <=> k <= r
  <2>1. CASE k <= r
    BY <1>1, <2>1
  <2>2. CASE ~(k <= r)
    <3>1. r < Len(ch) /\ r + 1 \in 1..k
      BY <1>1, <2>2
    <3> QED
      BY <2>2, <3>1
  <2> QED
    BY <2>1, <2>2
<1> DEFINE A == Abstract!Reached(ch, fin)
           B == { k \in 1..r : ch[k] # 0 }
<1>3. 1..r \subseteq 1..Len(ch)
  BY <1>1
<1>4. A \subseteq B
  BY <1>1, <1>2 DEF Abstract!Reached
<1>5. B \subseteq A
  BY <1>1, <1>2, <1>3 DEF Abstract!Reached
<1> QED
  BY <1>4, <1>5, Zenon
-----------------------------------------------------------------------------
(* The invariant holds initially. *)
LEMMA InitInv == PtsInit => IInv
<1> SUFFICES ASSUME PtsInit PROVE IInv
  OBVIOUS
<1>1. PtsTypeOK
  BY PtsAssumption DEF PtsInit, PtsTypeOK
<1>2. ArrayInv
  BY PtsAssumption DEF PtsInit, ArrayInv
<1>3. SavedInv
  BY DEF PtsInit, SavedInv, Abstract!IsNewest, Abstract!Reached
<1> QED
  BY <1>1, <1>2, <1>3 DEF IInv

(* init() leaves an empty array behind every token handed out before. *)
LEMMA InitPtsInv ==
  ASSUME IInv, NEW p \in Pts \cup {-1, 0}, InitPts(p)
  PROVE  IInv'
<1>1. PtsTypeOK'
  BY PtsAssumption, LenProperties DEF IInv, PtsTypeOK, InitPts, Clear
<1>2. ArrayInv'
  BY PtsAssumption, LenProperties DEF IInv, PtsTypeOK, ArrayInv, InitPts, Clear
<1>3. SavedInv'
  BY DEF InitPts, SavedInv, Abstract!IsNewest, Abstract!Reached
<1> QED
  BY <1>1, <1>2, <1>3 DEF IInv

(* add_pts() appends an unfinished change, which moves no prefix. *)
LEMMA AddPtsInv ==
  ASSUME IInv, NEW p \in Position, AddPts(p)
  PROVE  IInv'
<1> DEFINE n == Len(data_array)
           m == Len(changes)
           c == [pts |-> p, ready |-> FALSE]
<1>0. /\ data_array' = Append(data_array, c) /\ changes' = Append(changes, p)
      /\ offset' = offset /\ ready_i' = ready_i /\ first' = first
      /\ finished' = finished /\ base' = base /\ db_pts' = db_pts /\ inits' = inits
      /\ acks' = acks \cup {offset + n} /\ offset + n <= MaxId
      /\ mem_pts' = IF p # 0 THEN p ELSE mem_pts
  BY DEF AddPts
<1>1. /\ PtsTypeOK /\ ArrayInv /\ SavedInv
      /\ data_array \in Seq(Change) /\ changes \in Seq(Position) /\ c \in Change
      /\ n \in Nat /\ m \in Nat /\ offset \in Nat /\ first \in Nat /\ ready_i \in Nat
      /\ MaxId \in Nat /\ first >= 1 /\ first <= offset /\ m = offset - first + n
  BY PtsAssumption, LenProperties DEF IInv, PtsTypeOK, ArrayInv, Change
<1>a. Len(data_array) = n /\ Len(changes) = m
  OBVIOUS
<1>b. /\ n \in Nat /\ m \in Nat /\ offset \in Nat /\ first \in Nat /\ MaxId \in Nat
      /\ m = offset - first + n /\ offset + n <= MaxId
  BY <1>0, <1>1
<1> HIDE DEF n, m, c
<1>2. /\ data_array' \in Seq(Change) /\ Len(data_array') = n + 1
      /\ data_array'[n + 1] = c
      /\ \A i \in 1..n : data_array'[i] = data_array[i]
  BY <1>0, <1>1, <1>a, AppendProperties
<1>3. /\ changes' \in Seq(Position) /\ Len(changes') = m + 1
      /\ changes'[m + 1] = p
      /\ \A i \in 1..m : changes'[i] = changes[i]
  <2>1. p \in Position /\ changes \in Seq(Position)
    BY <1>1
  <2>2. /\ Append(changes, p) \in Seq(Position)
        /\ Len(Append(changes, p)) = Len(changes) + 1
        /\ \A i \in 1..Len(changes) : Append(changes, p)[i] = changes[i]
        /\ Append(changes, p)[Len(changes) + 1] = p
    BY <2>1, AppendProperties
  <2> QED
    BY <1>0, <1>a, <2>2, Zenon
<1>4. finished \subseteq 1..m
  BY <1>1, <1>a DEF PtsTypeOK
<1>5. PtsTypeOK'
  <2>1. acks' \subseteq 1..MaxId /\ finished' \subseteq 1..Len(changes')
    BY <1>0, <1>1, <1>3, <1>4 DEF PtsTypeOK
  <2>2. mem_pts' \in Pts \cup {-1, 0}
    BY <1>0, <1>1 DEF PtsTypeOK, Position
  <2> QED
    BY <1>0, <1>1, <1>2, <1>3, <2>1, <2>2 DEF PtsTypeOK
<1>6. ArrayInv'
  <2> DEFINE erased == offset - first
  <2>1. ASSUME NEW i \in 1..n+1
        PROVE  /\ data_array'[i].pts = changes'[erased + i]
               /\ data_array'[i].ready <=> erased + i \in finished
    <3>1. CASE i = n + 1
      <4>1. erased + i = m + 1 /\ m + 1 \notin finished
        BY <1>1, <1>4, <3>1
      <4>2. c.pts = p /\ c.ready = FALSE
        BY DEF c
      <4> QED
        BY <1>2, <1>3, <3>1, <4>1, <4>2
    <3>2. CASE i # n + 1
      <4>1. i \in 1..n /\ erased + i \in 1..m
        BY <1>1, <3>2
      <4> QED
        BY <1>1, <1>2, <1>3, <1>a, <4>1 DEF ArrayInv
    <3> QED
      BY <3>1, <3>2
  <2>2. /\ ready_i <= n + 1
        /\ \A i \in 1..ready_i : data_array'[i].ready
        /\ ready_i < n + 1 => ~data_array'[ready_i + 1].ready
    <3>1. ready_i <= n /\ (ready_i < n => ~data_array[ready_i + 1].ready)
          /\ (\A i \in 1..ready_i : data_array[i].ready)
      BY <1>1, <1>a DEF ArrayInv
    <3>2. CASE ready_i = n
      <4>1. ~c.ready
        BY DEF c
      <4> QED
        BY <1>1, <1>2, <3>1, <3>2, <4>1
    <3>3. CASE ready_i < n
      <4>1. ready_i + 1 \in 1..n /\ 1..ready_i \subseteq 1..n /\ ready_i <= n + 1
        BY <1>1, <3>3
      <4> QED
        BY <1>2, <3>1, <3>3, <4>1, Zenon
    <3> QED
      BY <1>1, <3>1, <3>2, <3>3
  <2>3. \A token \in acks' : token < offset + (n + 1)
    <3>1. \A token \in acks : token < offset + n /\ token \in Int
      BY <1>1, <1>a DEF ArrayInv, PtsTypeOK
    <3> QED
      BY <1>0, <1>1, <3>1
  <2>4. 1..erased \subseteq finished
    BY <1>1 DEF ArrayInv
  <2> QED
    <3>1. /\ offset + Len(data_array') <= MaxId + 1
          /\ Len(changes') = erased + Len(data_array')
      <4>1. Len(data_array') = n + 1 /\ Len(changes') = m + 1
        BY <1>2, <1>3
      <4> QED
        BY <1>b, <4>1
    <3> HIDE DEF erased
    <3>2. erased = offset' - first'
      BY <1>0 DEF erased
    <3> QED
      BY <1>0, <1>1, <1>2, <2>1, <2>2, <2>3, <2>4, <3>1, <3>2, Zenon DEF ArrayInv
<1>7. Abstract!Reached(changes', finished) = Abstract!Reached(changes, finished)
  <2>1. DOMAIN changes = 1..m /\ DOMAIN changes' = 1..(m + 1)
    BY <1>1, <1>3, <1>a, LenProperties
  <2>2. m + 1 \notin finished
    BY <1>4, <1>b
  <2>3. ASSUME NEW k \in 1..(m + 1), 1..k \subseteq finished
        PROVE  k \in 1..m /\ changes'[k] = changes[k]
    <3>1. k # m + 1
      <4>1. k \in 1..k
        BY <1>b
      <4> QED
        BY <2>2, <2>3, <4>1
    <3>2. k \in 1..m
      BY <1>b, <3>1
    <3> QED
      BY <1>3, <3>2
  <2>4. 1..m \subseteq 1..(m + 1)
    BY <1>1
  <2> QED
    BY <1>3, <2>1, <2>3, <2>4, Zenon DEF Abstract!Reached
<1>8. SavedInv'
  <2>1. \A k \in Abstract!Reached(changes, finished) : changes'[k] = changes[k]
    BY <1>1, <1>3, <1>a, LenProperties DEF Abstract!Reached
  <2> QED
    BY <1>0, <1>1, <1>7, <2>1 DEF SavedInv, Abstract!IsNewest
<1> QED
  BY <1>5, <1>6, <1>8 DEF IInv

(* The array d describes the changes ch after the first `erased' ones, and *)
(* r is the end of its finished prefix.                                    *)
Describes(d, r, erased, ch, fin) ==
  /\ ch \in Seq(Position) /\ d \in Seq(Change) /\ erased \in Nat /\ r \in 0..Len(d)
  /\ Len(ch) = erased + Len(d)
  /\ 1..erased \subseteq fin
  /\ \A i \in 1..Len(d) : d[i].ready <=> erased + i \in fin
  /\ \A i \in 1..r : d[i].ready
  /\ r < Len(d) => ~d[r + 1].ready

(* the first r changes that carry a position *)
Carrying(ch, r) == { k \in 1..r : ch[k] # 0 }

(* The finished prefix of the changes ends at ready_i_ of the array. *)
LEMMA PrefixEnd ==
  ASSUME NEW d, NEW r, NEW erased, NEW ch, NEW fin, Describes(d, r, erased, ch, fin)
  PROVE  Abstract!Reached(ch, fin) = Carrying(ch, erased + r)
<1> USE DEF Describes
<1>1. Len(d) \in Nat /\ erased + r \in 0..Len(ch)
  BY LenProperties
<1>2. ASSUME NEW k \in 1..(erased + r)
      PROVE  k \in fin
  <2>1. CASE k <= erased
    BY <2>1
  <2>2. CASE ~(k <= erased)
    <3>1. k - erased \in 1..r /\ k - erased \in 1..Len(d) /\ erased + (k - erased) = k
      BY <1>1, <2>2
    <3>2. d[k - erased].ready
      BY <3>1
    <3> QED
      BY <3>1, <3>2
  <2> QED
    BY <2>1, <2>2
<1>3. ASSUME erased + r < Len(ch)
      PROVE  (erased + r) + 1 \notin fin
  <2>1. r < Len(d) /\ r + 1 \in 1..Len(d) /\ erased + (r + 1) = (erased + r) + 1
    BY <1>1, <1>3
  <2>2. ~d[r + 1].ready
    BY <2>1
  <2> QED
    BY <2>1, <2>2
<1>4. 1..(erased + r) \subseteq fin
  BY <1>2
<1> QED
  BY <1>1, <1>3, <1>4, PrefixReached DEF Carrying

(* finish() of a change in the array: the prefix and db_pts_ move on. *)
LEMMA FinishAtInv ==
  ASSUME IInv, NEW token \in acks, Finish(token), token >= offset
  PROVE  IInv'
<1> DEFINE n      == Len(data_array)
           erased == offset - first
           q      == token - offset + 1
           d      == [data_array EXCEPT ![q].ready = TRUE]
           e      == ReadyEnd(d, ready_i)
           fin    == finished \cup {erased + q}
<1>0. PtsTypeOK /\ ArrayInv /\ SavedInv
  BY DEF IInv
<1>1. /\ n \in Nat /\ offset \in Nat /\ first \in Nat /\ ready_i \in Nat /\ MaxId \in Nat
      /\ CompactMin \in Nat
      /\ data_array \in Seq(Change) /\ changes \in Seq(Position)
      /\ token \in Nat /\ token < offset + n /\ acks \subseteq 1..MaxId
      /\ 1 <= first /\ first <= offset /\ offset + n <= MaxId + 1
      /\ Len(changes) = erased + n /\ ready_i <= n
  BY <1>0, PtsAssumption, LenProperties DEF PtsTypeOK, ArrayInv
<1>2. /\ erased \in Nat /\ q \in 1..n /\ token - offset = q - 1 /\ (q - 1) + 1 = q
      /\ token - first + 1 = erased + q /\ token >= first /\ ~(q - 1 >= n)
  BY <1>1
<1>3. Pos(token) = q - 1
  BY <1>2 DEF Pos
<1>4. /\ db_pts' = Checkpoint(d, ready_i, e) /\ TryCompactify(d, e)
      /\ finished' = fin /\ acks' = acks \ {token}
      /\ UNCHANGED <<mem_pts, inits, first, changes, base>>
  BY <1>2, <1>3 DEF Finish, FinishAt
<1>5. /\ 1..erased \subseteq finished /\ finished \subseteq 1..Len(changes)
      /\ \A i \in 1..n : data_array[i] \in Change
      /\ \A i \in 1..n : data_array[i].pts = changes[erased + i]
      /\ \A i \in 1..n : data_array[i].ready <=> erased + i \in finished
      /\ \A i \in 1..ready_i : data_array[i].ready
      /\ ready_i < n => ~data_array[ready_i + 1].ready
      /\ \A t \in acks : t < offset + n
  BY <1>0, <1>1, ElementOfSeq DEF PtsTypeOK, ArrayInv
<1>6. /\ d \in Seq(Change) /\ Len(d) = n
      /\ \A i \in 1..n : d[i] \in Change /\ d[i].pts = changes[erased + i]
      /\ \A i \in 1..n : d[i].ready <=> erased + i \in fin
  <2>1. DOMAIN data_array = 1..n
    BY <1>1, LenProperties
  <2>2. \A i \in 1..n : d[i] = IF i = q THEN [data_array[q] EXCEPT !.ready = TRUE] ELSE data_array[i]
    BY <2>1
  <2>3. [data_array[q] EXCEPT !.ready = TRUE] \in Change
        /\ [data_array[q] EXCEPT !.ready = TRUE].pts = data_array[q].pts
        /\ [data_array[q] EXCEPT !.ready = TRUE].ready = TRUE
    BY <1>2, <1>5, ZenonT(60) DEF Change
  <2>4. \A i \in 1..n : d[i] \in Change /\ d[i].pts = changes[erased + i]
    BY <1>5, <2>2, <2>3
  <2>5. \A i \in 1..n : (erased + i = erased + q) <=> (i = q)
    BY <1>1, <1>2
  <2>6. \A i \in 1..n : d[i].ready <=> erased + i \in fin
    BY <1>5, <2>2, <2>3, <2>5
  <2>7. d \in [1..n -> Change]
    BY <2>1, <2>4
  <2>8. d \in Seq(Change) /\ Len(d) = n
    BY <1>1, <2>7, LenProperties, SeqDef
  <2> QED
    BY <2>4, <2>6, <2>8
<1> HIDE DEF d
<1>7. /\ e \in ready_i..n
      /\ \A k \in ready_i + 1 .. e : d[k].ready
      /\ e < n => ~d[e + 1].ready
  <2>1. d \in Seq(Change) /\ ready_i \in 0..Len(d) /\ Len(d) = n
    BY <1>1, <1>6
  <2>2. /\ ReadyEnd(d, ready_i) \in ready_i..Len(d)
        /\ \A k \in ready_i + 1 .. ReadyEnd(d, ready_i) : d[k].ready
        /\ ReadyEnd(d, ready_i) < Len(d) => ~d[ReadyEnd(d, ready_i) + 1].ready
    BY <2>1, LoopStops, Zenon
  <2> QED
    BY <2>1, <2>2
<1> HIDE DEF e
<1>8. \A k \in 1..e : d[k].ready
  <2> TAKE k \in 1..e
  <2>1. CASE k <= ready_i
    <3>1. k \in 1..ready_i /\ k \in 1..n
      BY <1>1, <2>1
    <3> QED
      BY <1>5, <1>6, <3>1
  <2>2. CASE ~(k <= ready_i)
    BY <1>1, <1>7, <2>2
  <2> QED
    BY <2>1, <2>2
<1> HIDE DEF fin
<1>9. 1..erased \subseteq fin /\ finished \subseteq fin /\ fin \subseteq 1..Len(changes)
  <2>1. erased + q \in 1..Len(changes)
    BY <1>1, <1>2
  <2> QED
    BY <1>5, <2>1 DEF fin
<1> HIDE DEF erased, n, q
<1> DEFINE carry == { k \in ready_i + 1 .. e : d[k].pts # 0 }
           Old   == { k \in 1..(erased + ready_i) : changes[k] # 0 }
           New   == { k \in 1..(erased + e) : changes[k] # 0 }
<1>a. e \in Nat /\ ready_i <= e /\ e <= n /\ Len(data_array) = n
  BY <1>1, <1>7 DEF n
<1>10. Abstract!Reached(changes, finished) = Old /\ Abstract!Reached(changes, fin) = New
  <2>1. ready_i \in 0..Len(data_array) /\ e \in 0..Len(d) /\ Len(changes) = erased + Len(data_array)
        /\ Len(changes) = erased + Len(d) /\ erased \in Nat
    BY <1>1, <1>2, <1>6, <1>a
  <2>a. changes \in Seq(Position) /\ data_array \in Seq(Change) /\ d \in Seq(Change)
    BY <1>1, <1>6
  <2>b. /\ \A i \in 1..Len(data_array) : data_array[i].ready <=> erased + i \in finished
        /\ ready_i < Len(data_array) => ~data_array[ready_i + 1].ready
        /\ \A i \in 1..Len(d) : d[i].ready <=> erased + i \in fin
        /\ e < Len(d) => ~d[e + 1].ready
    BY <1>5, <1>6, <1>7, <1>a
  <2>c. /\ Describes(data_array, ready_i, erased, changes, finished)
        /\ Describes(d, e, erased, changes, fin)
    BY <1>5, <1>8, <1>9, <2>1, <2>a, <2>b, Zenon DEF Describes
  <2>2. Abstract!Reached(changes, finished) = Carrying(changes, erased + ready_i)
    BY <2>c, PrefixEnd, Zenon
  <2>3. Abstract!Reached(changes, fin) = Carrying(changes, erased + e)
    BY <2>c, PrefixEnd, Zenon
  <2> QED
    BY <2>2, <2>3 DEF Carrying
<1>11. ASSUME carry = {}
       PROVE  db_pts' = db_pts /\ New = Old
  <2>1. db_pts' = db_pts
    BY <1>4, <1>11 DEF Checkpoint
  <2>2. Old \subseteq New
    BY <1>1, <1>2, <1>a
  <2>3. ASSUME NEW k \in New
        PROVE  k \in Old
    <3>1. CASE k <= erased + ready_i
      BY <1>1, <1>2, <3>1
    <3>2. CASE ~(k <= erased + ready_i)
      <4>1. /\ k - erased \in ready_i + 1 .. e /\ k - erased \in 1..n
            /\ erased + (k - erased) = k
        BY <1>1, <1>2, <1>a, <3>2
      <4>2. d[k - erased].pts = changes[k]
        BY <1>6, <4>1
      <4> QED
        BY <1>11, <4>1, <4>2
    <3> QED
      BY <3>1, <3>2
  <2> QED
    BY <2>1, <2>2, <2>3
<1>12. ASSUME carry # {}
       PROVE  /\ db_pts' \in Pts
              /\ \E k \in New : db_pts' = changes[k] /\ \A j \in New : j <= k
  <2> DEFINE g == CHOOSE k \in carry : \A j \in carry : j <= k
  <2>1. carry \in SUBSET Nat /\ \A k \in carry : k <= e
    BY <1>1, <1>a
  <2>2. \E k \in carry : \A j \in carry : j <= k
    BY <1>12, <1>a, <2>1, GreatestNat
  <2>3. g \in carry /\ \A j \in carry : j <= g
    BY <2>2
  <2>4. db_pts' = d[g].pts
    BY <1>4, <1>12 DEF Checkpoint
  <2> HIDE DEF g
  <2>5. g \in Nat /\ g >= ready_i + 1 /\ g <= e /\ g \in 1..n /\ d[g].pts # 0
    BY <1>1, <1>a, <2>3
  <2>6. erased + g \in New /\ db_pts' = changes[erased + g]
    BY <1>1, <1>2, <1>6, <1>a, <2>4, <2>5
  <2>7. db_pts' \in Pts
    BY <1>6, <2>4, <2>5 DEF Change, Position
  <2>8. ASSUME NEW j \in New
        PROVE  j <= erased + g
    <3>1. CASE j <= erased + ready_i
      BY <1>1, <1>2, <2>5, <3>1
    <3>2. CASE ~(j <= erased + ready_i)
      <4>1. /\ j - erased \in ready_i + 1 .. e /\ j - erased \in 1..n
            /\ erased + (j - erased) = j
        BY <1>1, <1>2, <1>a, <3>2
      <4>2. d[j - erased].pts = changes[j]
        BY <1>6, <4>1
      <4>3. j - erased <= g
        BY <2>3, <4>1, <4>2
      <4> QED
        BY <1>2, <2>5, <4>1, <4>3
    <3> QED
      BY <3>1, <3>2
  <2> QED
    BY <2>6, <2>7, <2>8
<1> HIDE DEF carry, Old, New
<1>13. SavedInv' /\ db_pts' \in Pts \cup {-1, 0}
  <2>1. CASE carry = {}
    BY <1>0, <1>4, <1>10, <1>11, <2>1 DEF SavedInv, Abstract!IsNewest, PtsTypeOK
  <2>2. CASE carry # {}
    BY <1>4, <1>10, <1>12, <2>2 DEF SavedInv, Abstract!IsNewest
  <2> QED
    BY <2>1, <2>2
<1>14. /\ data_array' \in Seq(Change) /\ offset' \in Nat /\ ready_i' \in Nat
       /\ first <= offset' /\ offset' + Len(data_array') = offset + n
       /\ 1..(offset' - first) \subseteq fin
       /\ \A i \in 1..Len(data_array') :
            /\ data_array'[i].pts = changes[(offset' - first) + i]
            /\ data_array'[i].ready <=> (offset' - first) + i \in fin
       /\ ready_i' <= Len(data_array')
       /\ \A i \in 1..ready_i' : data_array'[i].ready
       /\ ready_i' < Len(data_array') => ~data_array'[ready_i' + 1].ready
  <2>0. erased = offset - first
    BY DEF erased
  <2>1. CASE e > CompactMin /\ e * 2 > Len(d)
    <3>1. data_array' = SubSeq(d, e + 1, Len(d)) /\ offset' = offset + e /\ ready_i' = 0
      BY <1>4, <2>1 DEF TryCompactify
    <3>2. \A i \in e + 1 .. n : d[i] \in Change
      BY <1>6, <1>a
    <3>3. /\ data_array' \in Seq(Change) /\ Len(data_array') = n - e
          /\ \A i \in 1 .. n - e : data_array'[i] = d[e + i]
      <4>1. e + 1 \in Int /\ n \in Int /\ e + 1 <= n + 1
        BY <1>1, <1>a
      <4>2. /\ SubSeq(d, e + 1, n) \in Seq(Change)
            /\ Len(SubSeq(d, e + 1, n)) = IF e + 1 <= n THEN n - (e + 1) + 1 ELSE 0
            /\ \A i \in 1 .. n - (e + 1) + 1 : SubSeq(d, e + 1, n)[i] = d[(e + 1) + i - 1]
        BY <3>2, <4>1, SubSeqProperties
      <4> QED
        BY <1>1, <1>6, <1>a, <3>1, <4>2
    <3>4. /\ offset' - first = erased + e /\ offset' \in Nat /\ first <= offset'
          /\ offset' + (n - e) = offset + n
      BY <1>1, <1>2, <1>a, <2>0, <3>1
    <3>5. 1..(erased + e) \subseteq fin
      <4> SUFFICES ASSUME NEW k \in 1..(erased + e) PROVE k \in fin
        OBVIOUS
      <4>1. CASE k <= erased
        BY <1>2, <1>9, <4>1
      <4>2. CASE ~(k <= erased)
        <5>1. k - erased \in 1..e /\ k - erased \in 1..n /\ erased + (k - erased) = k
          BY <1>1, <1>2, <1>a, <4>2
        <5> QED
          BY <1>6, <1>8, <5>1
      <4> QED
        BY <4>1, <4>2
    <3>6. ASSUME NEW i \in 1 .. n - e
          PROVE  /\ data_array'[i].pts = changes[(erased + e) + i]
                 /\ data_array'[i].ready <=> (erased + e) + i \in fin
      <4>1. e + i \in 1..n /\ erased + (e + i) = (erased + e) + i
        BY <1>1, <1>2, <1>a
      <4> QED
        BY <1>6, <3>3, <4>1
    <3>7. ASSUME 0 < n - e
          PROVE  ~data_array'[1].ready
      <4>1. 1 \in 1 .. n - e /\ e < n
        BY <1>1, <1>a, <3>7
      <4> QED
        BY <1>7, <3>3, <4>1
    <3>8. 0 <= n - e /\ 1..0 = {} /\ 0 + 1 = 1
      BY <1>1, <1>a
    <3> QED
      BY <3>1, <3>3, <3>4, <3>5, <3>6, <3>7, <3>8
  <2>2. CASE ~(e > CompactMin /\ e * 2 > Len(d))
    <3>1. data_array' = d /\ offset' = offset /\ ready_i' = e
      BY <1>4, <2>2 DEF TryCompactify
    <3> QED
      BY <1>1, <1>6, <1>7, <1>8, <1>9, <1>a, <2>0, <3>1
  <2> QED
    BY <2>1, <2>2
<1>15. PtsTypeOK'
  <2>1. mem_pts \in Pts \cup {-1, 0} /\ base \in Pts \cup {-1, 0} /\ inits \in Nat /\ acks' \subseteq 1..MaxId
    BY <1>0, <1>4 DEF PtsTypeOK
  <2> QED
    BY <1>1, <1>4, <1>9, <1>13, <1>14, <2>1 DEF PtsTypeOK
<1>16. ArrayInv'
  <2> DEFINE l == Len(data_array')
  <2>1. l \in Nat
    BY <1>14, LenProperties
  <2>2. /\ offset' + l <= MaxId + 1
        /\ Len(changes) = (offset' - first) + l
    <3>1. Len(changes) = (offset - first) + n
      BY <1>1 DEF erased
    <3>2. offset' \in Nat /\ offset' + l = offset + n
      BY <1>14
    <3>3. n \in Nat /\ offset \in Nat /\ first \in Nat /\ MaxId \in Nat /\ offset + n <= MaxId + 1
      BY <1>1
    <3>4. offset' + l <= MaxId + 1
      BY <3>2, <3>3
    <3>5. \A a, b, c, f, g \in Nat : a + b = f + g => (f - c) + g = (a - c) + b
      OBVIOUS
    <3>6. (offset - first) + n = (offset' - first) + l
      BY <2>1, <3>2, <3>3, <3>5
    <3> QED
      BY <3>1, <3>4, <3>6
  <2>3. \A t \in acks' : t < offset' + l
    BY <1>4, <1>5, <1>14
  <2> QED
    BY <1>1, <1>4, <1>14, <2>2, <2>3 DEF ArrayInv
<1> QED
  BY <1>13, <1>15, <1>16 DEF IInv

(* finish() of a token that is not in the array: either init() forgot it,  *)
(* or it was finished and erased.  The unsigned difference is too large.   *)
LEMMA FinishStale ==
  ASSUME IInv, NEW token \in acks, Finish(token), token < offset
  PROVE  UNCHANGED <<db_pts, data_array, offset, ready_i, finished>>
<1>1. /\ PtsTypeOK /\ ArrayInv
      /\ Len(data_array) \in Nat /\ offset \in Nat /\ first \in Nat /\ MaxId \in Nat
      /\ Wrap \in Nat /\ Wrap > 2 * MaxId + 2 /\ token \in Nat /\ token >= 1
      /\ offset + Len(data_array) <= MaxId + 1
      /\ 1..(offset - first) \subseteq finished
  BY PtsAssumption, LenProperties, SMTT(30) DEF IInv, PtsTypeOK, ArrayInv
<1>2. Pos(token) = token - offset + Wrap
  BY <1>1 DEF Pos
<1>3. Pos(token) >= Len(data_array)
  BY <1>1, <1>2
<1>4. UNCHANGED <<db_pts, data_array, offset, ready_i>>
  BY <1>3 DEF Finish
<1>5. token >= first => token - first + 1 \in finished
  BY <1>1
<1>6. finished' = finished
  BY <1>5 DEF Finish
<1> QED
  BY <1>4, <1>6

(* finish() preserves the invariant. *)
LEMMA FinishInv ==
  ASSUME IInv, NEW token \in acks, Finish(token)
  PROVE  IInv'
<1>1. token \in Int /\ offset \in Int
  BY DEF IInv, PtsTypeOK
<1>2. CASE token >= offset
  BY <1>2, FinishAtInv
<1>3. CASE token < offset
  <2>1. UNCHANGED <<db_pts, data_array, offset, ready_i, finished>>
    BY <1>3, FinishStale
  <2>2. UNCHANGED <<mem_pts, inits, first, changes, base>> /\ acks' \subseteq acks
    BY DEF Finish
  <2>3. PtsTypeOK'
    BY <2>1, <2>2 DEF IInv, PtsTypeOK
  <2>4. ArrayInv'
    BY <2>1, <2>2 DEF IInv, ArrayInv
  <2>5. SavedInv'
    BY <2>1, <2>2 DEF IInv, SavedInv, Abstract!IsNewest, Abstract!Reached
  <2> QED
    BY <2>3, <2>4, <2>5 DEF IInv
<1> QED
  BY <1>1, <1>2, <1>3

(* Every step preserves the invariant. *)
LEMMA StepInv == IInv /\ [PtsNext]_ptsVars => IInv'
<1> SUFFICES ASSUME IInv, [PtsNext]_ptsVars PROVE IInv'
  OBVIOUS
<1>1. ASSUME NEW p \in Pts \cup {-1, 0}, InitPts(p) PROVE IInv'
  BY <1>1, InitPtsInv
<1>2. ASSUME NEW p \in Position, AddPts(p) PROVE IInv'
  BY <1>2, AddPtsInv
<1>3. ASSUME NEW token \in acks, Finish(token) PROVE IInv'
  BY <1>3, FinishInv
<1>4. CASE UNCHANGED ptsVars
  BY <1>4 DEF ptsVars, pvars, hvars, IInv, PtsTypeOK, ArrayInv, SavedInv,
              Abstract!IsNewest, Abstract!Reached
<1> QED
  BY <1>1, <1>2, <1>3, <1>4 DEF PtsNext

(* Every step is a step of Checkpoints or leaves its variables alone. *)
LEMMA StepRefines ==
  ASSUME IInv, IInv', [PtsNext]_ptsVars
  PROVE  [Abstract!Next]_(Abstract!vars)
<1>1. ASSUME NEW p \in Pts \cup {-1, 0}, InitPts(p)
      PROVE  Abstract!Next
  <2>1. Abstract!Reset(p)
    BY <1>1 DEF InitPts, Abstract!Reset
  <2> QED
    BY <2>1 DEF Abstract!Next
<1>2. ASSUME NEW p \in Position, AddPts(p)
      PROVE  Abstract!Next
  <2>1. Abstract!Begin(p)
    BY <1>2 DEF AddPts, Abstract!Begin
  <2> QED
    BY <2>1 DEF Abstract!Next, Position
<1>3. ASSUME NEW token \in acks, Finish(token)
      PROVE  Abstract!Next \/ UNCHANGED Abstract!vars
  <2>0. token \in Int /\ offset \in Int
    BY DEF IInv, PtsTypeOK
  <2>1. CASE token < offset
    BY <1>3, <2>1, FinishStale DEF Finish, Abstract!vars
  <2>2. CASE token >= offset
    <3> DEFINE k == token - first + 1
    <3>0. /\ Len(data_array) \in Nat /\ offset \in Nat /\ first \in Nat /\ token \in Nat
          /\ first <= offset /\ Len(changes) = (offset - first) + Len(data_array)
          /\ token < offset + Len(data_array)
      <4>1. data_array \in Seq(Change) /\ offset \in Nat /\ first \in Nat /\ acks \subseteq 1..MaxId
        BY DEF IInv, PtsTypeOK
      <4>2. Len(data_array) \in Nat
        BY <4>1, LenProperties
      <4>3. token \in Nat
        BY <4>1, PtsAssumption
      <4>4. /\ first <= offset /\ Len(changes) = (offset - first) + Len(data_array)
            /\ token < offset + Len(data_array)
        BY DEF IInv, ArrayInv
      <4> QED
        BY <4>1, <4>2, <4>3, <4>4
    <3>1. /\ k \in 1..Len(changes) /\ token >= first
      BY <2>2, <3>0
    <3>2. finished' = finished \cup {k} /\ changes' = changes /\ base' = base
      BY <1>3, <3>1 DEF Finish
    <3>3. db_pts' \in Pts \cup {-1, 0}
      BY DEF IInv, PtsTypeOK
    <3>4. Abstract!IsNewest(db_pts', changes, finished', base)
      BY <3>2 DEF IInv, SavedInv, Abstract!IsNewest, Abstract!Reached
    <3>5. Abstract!Complete(k)
      BY <3>2, <3>3, <3>4 DEF Abstract!Complete
    <3> QED
      BY <3>1, <3>5 DEF Abstract!Next
  <2> QED
    BY <2>0, <2>1, <2>2
<1>4. CASE UNCHANGED ptsVars
  BY <1>4 DEF ptsVars, pvars, hvars, Abstract!vars
<1> QED
  BY <1>1, <1>2, <1>3, <1>4 DEF PtsNext
-----------------------------------------------------------------------------
(* The invariant is an invariant of the specification. *)
LEMMA Invariance == PtsSpec => []IInv
  BY InitInv, StepInv, PTL DEF PtsSpec

(***************************************************************************)
(* Type correctness of PtsManager and its ChangesProcessor.                *)
(***************************************************************************)
THEOREM PtsTypeCorrect == PtsSpec => []PtsTypeOK
<1>1. IInv => PtsTypeOK
  BY DEF IInv
<1> QED
  BY <1>1, Invariance, PTL

(***************************************************************************)
(* Whatever the order of add_pts(), finish() and init(), the array of      *)
(* changes, its compactions and the tokens in flight stay aligned.         *)
(***************************************************************************)
THEOREM ArrayCorrect == PtsSpec => []ArrayInv
<1>1. IInv => ArrayInv
  BY DEF IInv
<1> QED
  BY <1>1, Invariance, PTL

(***************************************************************************)
(* The refinement: db_pts_ is at every moment the newest position with all *)
(* changes up to it finished, for any number of changes.                   *)
(***************************************************************************)
THEOREM ImplementsCheckpoints == PtsSpec => SavesWhatIsFinished
<1>1. PtsInit => Abstract!Init
  BY DEF PtsInit, Abstract!Init
<1>2. IInv /\ IInv' /\ [PtsNext]_ptsVars => [Abstract!Next]_(Abstract!vars)
  BY StepRefines
<1> QED
  BY <1>1, <1>2, Invariance, PTL DEF PtsSpec, SavesWhatIsFinished, Abstract!Spec
=============================================================================
