---------------------- MODULE SequenceDispatcher_proofs ----------------------
(***************************************************************************)
(* Proofs about SequenceDispatcher, for any number of queries in the       *)
(* sequence and in flight and any numbers of failures, resends and         *)
(* cancellations: answers find their queries, no query is skipped or lost, *)
(* and the server executes the queries in the order they were given.       *)
(***************************************************************************)
EXTENDS SequenceDispatcher, WellFoundedInduction, FiniteSetTheorems, SequenceTheorems, TLAPS

(* A non-empty set of natural numbers has a least element. *)
LEMMA LeastNat ==
  ASSUME NEW T \in SUBSET Nat, T # {}
  PROVE  \E x \in T : \A y \in T : x <= y
<1>1. IsWellFoundedOn({ss \in Nat \X Nat : ss[1] < ss[2]}, Nat)
  BY NatLessThanWellFounded, Zenon DEF OpToRel
<1>2. PICK R : /\ IsWellFoundedOn(R, Nat)
               /\ \A x, y \in Nat : y < x => <<y, x>> \in R
  <2>1. \A x, y \in Nat : y < x => <<y, x>> \in {ss \in Nat \X Nat : ss[1] < ss[2]}
    OBVIOUS
  <2> QED
    BY <1>1, <2>1, Zenon
<1>3. PICK x \in T : \A y \in T : ~(<<y, x>> \in R)
  BY <1>2, WFMin
<1>4. ASSUME NEW y \in T
      PROVE  x <= y
  <2>1. ~(y < x)
    BY <1>2, <1>3, Zenon
  <2> QED
    BY <2>1
<1> QED
  BY <1>4

(* A non-empty set of natural numbers with an upper bound has a greatest   *)
(* element.                                                                *)
LEMMA GreatestNat ==
  ASSUME NEW T \in SUBSET Nat, T # {}, NEW n \in Nat, \A x \in T : x <= n
  PROVE  \E x \in T : \A y \in T : y <= x
<1> DEFINE U == { m \in Nat : \E x \in T : m = n - x }
<1>1. \A x \in T : n - x \in U
  OBVIOUS
<1>2. U \in SUBSET Nat /\ U # {}
  BY <1>1
<1>3. PICK m \in U : \A k \in U : m <= k
  BY <1>2, LeastNat
<1>4. PICK x \in T : m = n - x
  OBVIOUS
<1>5. \A y \in T : y <= x
  BY <1>1, <1>3, <1>4
<1> QED
  BY <1>5
-----------------------------------------------------------------------------
(* The states of the dispatcher in the middle of a handler. *)
Entry == [state : {"Start", "Wait", "Finish", "Dummy"}, generation : Nat, total : Nat,
          query : Queries]
NetEntry == [at : {"none", "session", "sent", "delay", "answer", "callback"}, token : Int,
             after : Queries \cup {NoQuery}, msg : Nat,
             kind : {"none", "ok", "error", "resend"}, slow : BOOLEAN]
States == [data : Seq(Entry), id_offset : Nat, finish_i : Nat, next_i : Nat,
           last_sent_i : Nat \cup {NoIndex}, generation : Nat, wait_cnt : Int,
           timer : BOOLEAN, net : [Queries -> NetEntry], total : [Queries -> Nat],
           outbox : Seq({"result", "ready"}), finished : SUBSET Queries]

(* An entry for which an answer is expected or just handled. *)
Pending(s, j) == s.data[j].state \in {"Wait", "Dummy"}
WaitSet(s) == { i \in 0..Len(s.data) - 1 : s.data[i + 1].state = "Wait" }
Dummies(s) == { j \in 1..Len(s.data) : s.data[j].state = "Dummy" }

(* data_ holds the last queries handed over, up to the query last. *)
Numbered(s, last) ==
  /\ Len(s.data) <= last
  /\ \A j \in 1..Len(s.data) : s.data[j].query = last - Len(s.data) + j

Indexed(s) ==
  /\ s.finish_i <= s.next_i /\ s.next_i <= Len(s.data) /\ s.last_sent_i < s.next_i
  /\ \A j \in 1..s.finish_i : s.data[j].state = "Finish"

(* NothingSkipped, in the middle of a handler. *)
CurrentChain(s) ==
  \A j \in 1..s.next_i :
    /\ s.data[j].state # "Start"
    /\ Pending(s, j) => s.data[j].generation = s.generation

(* A query is under way exactly if its entry is awaited, with its token. *)
Tokens(s) ==
  /\ \A q \in Queries : s.net[q].at # "none" =>
       \E j \in 1..Len(s.data) : /\ s.data[j].query = q /\ Pending(s, j)
                                 /\ s.net[q].token = j - 1 + s.id_offset
  /\ \A j \in 1..Len(s.data) : Pending(s, j) => s.net[s.data[j].query].at # "none"

Counted(s) == s.wait_cnt = Cardinality(WaitSet(s))

(* What is finished: marked entries, and everything before data_. *)
Finishing(s, last) ==
  /\ s.finished \subseteq 1..last
  /\ \A j \in 1..Len(s.data) : s.data[j].query \in s.finished <=> s.data[j].state = "Finish"
  /\ \A p \in 1..last - Len(s.data) : p \in s.finished

Sound(s, last) ==
  /\ s \in States /\ last \in Nat
  /\ Numbered(s, last) /\ Indexed(s) /\ CurrentChain(s) /\ Tokens(s) /\ Counted(s)
  /\ Finishing(s, last)
-----------------------------------------------------------------------------
(* The order of execution.  M are the messages, C the cancelled queries.   *)

DoneIn(M) == { M[m].query : m \in { k \in 1..Len(M) : M[k].status = "done" } }

(* p need not be executed before q any more *)
Behind(p, q, F, M, C) == p \in DoneIn(M) \cup F \/ \E c \in C : p < c /\ c < q

(* q may be executed: everything before it is settled *)
InOrder(q, F, M, C) == \A p \in 1..q - 1 : Behind(p, q, F, M, C)

(* the server came to q, or its owner cancelled it *)
Passed(q, F, M, C) == InOrder(q, F, M, C) \/ q \in C

(* q may be executed after the query a *)
MayFollow(q, a, F, M, C) ==
  IF a = NoQuery THEN InOrder(q, F, M, C)
  ELSE a < q /\ \A p \in a + 1 .. q - 1 : Behind(p, q, F, M, C)

Returned(n) == n.at = "callback" \/ (n.at = "answer" /\ n.kind # "resend")
InNetwork(n) == n.at \in {"session", "sent", "delay"}

(* What InvokeAfter relies on: behind the query sent last there are only   *)
(* finished ones, and if it is finished itself its turn had come.          *)
LastSent(s, M, C) ==
  /\ \A j \in s.last_sent_i + 2 .. s.next_i : s.data[j].state = "Finish"
  /\ s.last_sent_i # NoIndex /\ s.data[s.last_sent_i + 1].state = "Finish" =>
       Passed(s.data[s.last_sent_i + 1].query, s.finished, M, C)
  /\ \A j \in 1..s.next_i : Pending(s, j) /\ Returned(s.net[s.data[j].query]) =>
       Passed(s.data[j].query, s.finished, M, C)

(* Each query under way follows the query it is to be invoked after. *)
Following(s, M, C) ==
  \A q \in Queries :
    /\ InNetwork(s.net[q]) => MayFollow(q, s.net[q].after, s.finished, M, C)
    /\ s.net[q].at = "sent" => s.net[q].msg \in 1..Len(M) /\ M[s.net[q].msg].query = q

Chained(s, M, C) == LastSent(s, M, C) /\ Following(s, M, C)

Message == [query : Queries, status : {"pending", "done", "failed", "wait_failed"}, after : Nat]

(* The messages: those that were executed or refused had come to their     *)
(* turn, the others follow the message they are invoked after.             *)
MessagesOrdered(F, M, C) ==
  /\ M \in Seq(Message) /\ C \subseteq Queries
  /\ \A m \in 1..Len(M) :
       /\ M[m].status \in {"done", "failed"} => InOrder(M[m].query, F, M, C)
       /\ M[m].after = 0 => MayFollow(M[m].query, NoQuery, F, M, C)
       /\ M[m].after # 0 => /\ M[m].after \in 1..Len(M)
                            /\ MayFollow(M[m].query, M[M[m].after].query, F, M, C)
-----------------------------------------------------------------------------
(* The parent's count: queries that are not finished, and results on their *)
(* way to the parent.                                                      *)
Results(o) == { i \in 1..Len(o) : o[i] = "result" }
Balance(F, o, n) == Cardinality((1..n) \ F) + Cardinality(Results(o))

ParentOK ==
  /\ given \in 0..MaxQueries /\ open \in BOOLEAN /\ cnt \in Nat
  /\ inbox \in Seq(Queries) /\ Len(inbox) <= given
  /\ \A k \in 1..Len(inbox) : inbox[k] = given - Len(inbox) + k
  /\ cnt = Balance(finished, outbox, given)
  /\ ~open => cnt = 0
  /\ NothingLost

Accepted == given - Len(inbox)

IInv ==
  /\ Sound(State, Accepted) /\ Dummies(State) = {}
  /\ Chained(State, msgs, cancelled) /\ MessagesOrdered(finished, msgs, cancelled)
  /\ ParentOK
-----------------------------------------------------------------------------
(* Facts about the state of the dispatcher and its sequences. *)

LEMMA StateAfter ==
  ASSUME NEW s \in States, Becomes(s)
  PROVE  State' = s
  BY DEF States, Becomes, State

LEMMA LastNumber ==
  ASSUME NEW s, NEW last, Sound(s, last)
  PROVE  /\ Len(s.data) \in Nat /\ last \in Nat /\ s.data \in Seq(Entry)
         /\ \A j \in 1..Len(s.data) : s.data[j] \in Entry
         /\ DOMAIN s.data = 1..Len(s.data)
         /\ \A i, j \in 1..Len(s.data) : s.data[i].query = s.data[j].query => i = j
<1>1. s.data \in Seq(Entry) /\ last \in Nat
  BY DEF Sound, States
<1>2. /\ Len(s.data) \in Nat /\ DOMAIN s.data = 1..Len(s.data)
      /\ \A j \in 1..Len(s.data) : s.data[j] \in Entry
  BY <1>1, LenProperties, ElementOfSeq
<1>3. \A i, j \in 1..Len(s.data) : s.data[i].query = s.data[j].query => i = j
  <2>1. \A j \in 1..Len(s.data) : s.data[j].query = last - Len(s.data) + j
    BY DEF Sound, Numbered
  <2>2. Len(s.data) \in Nat /\ last \in Nat
    BY <1>1, <1>2
  <2>3. ASSUME NEW i \in 1..Len(s.data), NEW j \in 1..Len(s.data),
               s.data[i].query = s.data[j].query
        PROVE  i = j
    <3>1. last - Len(s.data) + i = last - Len(s.data) + j
      BY <2>1, <2>3
    <3> QED
      BY <3>1, <2>2
  <2> QED
    BY <2>3
<1> QED
  BY <1>1, <1>2, <1>3

LEMMA WaitSetFinite ==
  ASSUME NEW s, Len(s.data) \in Nat
  PROVE  IsFiniteSet(WaitSet(s)) /\ Cardinality(WaitSet(s)) \in Nat
<1>1. WaitSet(s) \in SUBSET (0..Len(s.data) - 1)
  BY DEF WaitSet
<1>2. IsFiniteSet(0..Len(s.data) - 1)
  BY FS_Interval
<1> QED
  BY <1>1, <1>2, FS_Subset, FS_CardinalityType

SetState(d, j, st) == [d EXCEPT ![j].state = st]

LEMMA StateSet ==
  ASSUME NEW d \in Seq(Entry), NEW j \in 1..Len(d),
         NEW st \in {"Start", "Wait", "Finish", "Dummy"},
         NEW e, e = SetState(d, j, st)
  PROVE  /\ e \in Seq(Entry) /\ Len(e) = Len(d)
         /\ \A k \in 1..Len(d) :
              /\ e[k].state = IF k = j THEN st ELSE d[k].state
              /\ e[k].query = d[k].query /\ e[k].generation = d[k].generation
<1> DEFINE f == [d[j] EXCEPT !.state = st]
<1>1. d[j] \in Entry /\ \A k \in 1..Len(d) : d[k] \in Entry
  BY ElementOfSeq
<1>2. f \in Entry /\ f.state = st /\ f.query = d[j].query /\ f.generation = d[j].generation
  BY <1>1 DEF Entry
<1>3. e = [d EXCEPT ![j] = f]
  BY DEF SetState
<1> HIDE DEF f
<1>4. /\ e \in Seq(Entry) /\ Len(e) = Len(d)
      /\ \A k \in 1..Len(d) : e[k] = IF k = j THEN f ELSE d[k]
  BY <1>2, <1>3, ExceptSeq
<1> QED
  BY <1>2, <1>4
-----------------------------------------------------------------------------
(* data_from_token(): the entry of the answered query becomes a dummy. *)

Taken(s, t, j) ==
  /\ t \in States /\ Len(t.data) = Len(s.data) /\ j \in 1..Len(s.data)
  /\ \A k \in 1..Len(s.data) :
       /\ t.data[k].state = IF k = j THEN "Dummy" ELSE s.data[k].state
       /\ t.data[k].query = s.data[k].query /\ t.data[k].generation = s.data[k].generation
  /\ t.wait_cnt = s.wait_cnt - 1
  /\ t.id_offset = s.id_offset /\ t.finish_i = s.finish_i /\ t.next_i = s.next_i
  /\ t.last_sent_i = s.last_sent_i /\ t.generation = s.generation
  /\ t.net = s.net /\ t.outbox = s.outbox /\ t.finished = s.finished

LEMMA TokenTaken ==
  ASSUME NEW s, NEW last, Sound(s, last), Dummies(s) = {},
         NEW q \in Queries, s.net[q].at # "none"
  PROVE  \E j \in 1..Len(s.data) :
           /\ j = s.net[q].token - s.id_offset + 1 /\ s.data[j].query = q
           /\ s.data[j].state = "Wait" /\ Taken(s, DataFromToken(s, s.net[q].token), j)
<1> DEFINE t == DataFromToken(s, s.net[q].token)
<1>1. PICK j \in 1..Len(s.data) : /\ s.data[j].query = q /\ Pending(s, j)
                                  /\ s.net[q].token = j - 1 + s.id_offset
  BY DEF Sound, Tokens
<1>2. s \in States /\ Len(s.data) \in Nat /\ s.data \in Seq(Entry)
  BY LastNumber DEF Sound
<1>3. j = s.net[q].token - s.id_offset + 1 /\ s.data[j].state = "Wait"
  <2>1. s.id_offset \in Nat
    BY <1>2 DEF States
  <2>2. j \notin Dummies(s)
    OBVIOUS
  <2> QED
    BY <2>1, <2>2, <1>1, <1>2 DEF Dummies, Pending
<1> DEFINE e == SetState(s.data, j, "Dummy")
<1>4. t = [s EXCEPT !.data = e, !.wait_cnt = s.wait_cnt - 1]
  BY <1>2, <1>3 DEF DataFromToken, States, SetState
<1> HIDE DEF t
<1>5. /\ e \in Seq(Entry) /\ Len(e) = Len(s.data)
      /\ \A k \in 1..Len(s.data) :
           /\ e[k].state = IF k = j THEN "Dummy" ELSE s.data[k].state
           /\ e[k].query = s.data[k].query /\ e[k].generation = s.data[k].generation
  BY <1>1, <1>2, StateSet
<1> HIDE DEF e
<1>6. t \in States
  <2>1. e \in Seq(Entry) /\ s.wait_cnt - 1 \in Int
    BY <1>2, <1>5 DEF States
  <2> QED
    BY <2>1, <1>2, <1>4 DEF States
<1>7. /\ t.data = e /\ t.wait_cnt = s.wait_cnt - 1
      /\ t.id_offset = s.id_offset /\ t.finish_i = s.finish_i /\ t.next_i = s.next_i
      /\ t.last_sent_i = s.last_sent_i /\ t.generation = s.generation
      /\ t.net = s.net /\ t.outbox = s.outbox /\ t.finished = s.finished
  BY <1>2, <1>4 DEF States
<1> QED
  BY <1>1, <1>3, <1>5, <1>6, <1>7 DEF t, Taken
-----------------------------------------------------------------------------
(* Steps that leave the queries of the entries, what is awaited and what   *)
(* is finished as they were.                                               *)
SameShape(s, t) ==
  /\ t \in States /\ Len(t.data) = Len(s.data) /\ t.id_offset = s.id_offset
  /\ \A k \in 1..Len(s.data) : t.data[k].query = s.data[k].query

SameIndices(s, t) ==
  /\ t.finish_i = s.finish_i /\ t.next_i = s.next_i
  /\ t.last_sent_i = s.last_sent_i /\ t.generation = s.generation

SameResults(s, t) == t.outbox = s.outbox /\ t.finished = s.finished

Alike(s, t) ==
  /\ SameShape(s, t) /\ SameIndices(s, t) /\ SameResults(s, t)
  /\ \A k \in 1..Len(s.data) :
       /\ t.data[k].generation = s.data[k].generation
       /\ t.data[k].state = "Start" <=> s.data[k].state = "Start"
       /\ t.data[k].state = "Finish" <=> s.data[k].state = "Finish"
       /\ Pending(t, k) <=> Pending(s, k)
  /\ \A q \in Queries :
       \/ t.net[q] = s.net[q]
       \/ /\ Returned(s.net[q]) /\ t.net[q].at = "callback"
          /\ t.net[q].token = s.net[q].token

LEMMA ShapeKept ==
  ASSUME NEW s, NEW last, Sound(s, last), NEW t, SameShape(s, t)
  PROVE  /\ Numbered(t, last) /\ t \in States /\ last \in Nat /\ Len(s.data) \in Nat
         /\ Len(t.data) = Len(s.data)
<1>1. Len(t.data) = Len(s.data) /\ t \in States
      /\ \A k \in 1..Len(s.data) : t.data[k].query = s.data[k].query
  BY DEF SameShape
<1>2. Numbered(s, last) /\ last \in Nat
  BY DEF Sound
<1>3. Len(s.data) \in Nat
  BY LastNumber
<1> QED
  BY <1>1, <1>2, <1>3 DEF Numbered

LEMMA AlikeKeeps ==
  ASSUME NEW s, NEW last, Sound(s, last), NEW t, Alike(s, t), Counted(t)
  PROVE  Sound(t, last)
<1>1. /\ Numbered(t, last) /\ t \in States /\ last \in Nat /\ Len(s.data) \in Nat
      /\ Len(t.data) = Len(s.data) /\ s \in States
      /\ \A j \in 1..Len(s.data) : s.data[j] \in Entry
  BY ShapeKept, LastNumber DEF Alike, Sound
<1>2. /\ \A k \in 1..Len(s.data) :
           /\ t.data[k].query = s.data[k].query
           /\ t.data[k].generation = s.data[k].generation
           /\ t.data[k].state = "Start" <=> s.data[k].state = "Start"
           /\ t.data[k].state = "Finish" <=> s.data[k].state = "Finish"
           /\ Pending(t, k) <=> Pending(s, k)
      /\ t.finish_i = s.finish_i /\ t.next_i = s.next_i /\ t.finished = s.finished
      /\ t.last_sent_i = s.last_sent_i /\ t.generation = s.generation
      /\ t.id_offset = s.id_offset
  BY DEF Alike, SameShape, SameIndices, SameResults
<1>3. \A k \in 1..s.next_i : k \in 1..Len(s.data)
  BY <1>1 DEF Sound, Indexed, States
<1>4. \A k \in 1..s.finish_i : k \in 1..Len(s.data)
  BY <1>1 DEF Sound, Indexed, States
<1>5. Indexed(t)
  BY <1>1, <1>2, <1>4 DEF Sound, Indexed
<1>6. CurrentChain(t)
  BY <1>1, <1>2, <1>3 DEF Sound, CurrentChain
<1>7. Tokens(t)
  <2>1. \A q \in Queries : /\ t.net[q].at = "none" <=> s.net[q].at = "none"
                           /\ t.net[q].at # "none" => t.net[q].token = s.net[q].token
    BY DEF Alike, Returned
  <2>2. Tokens(s) /\ \A k \in 1..Len(s.data) : s.data[k].query \in Queries
    BY <1>1 DEF Sound, Entry
  <2>3. ASSUME NEW q \in Queries, t.net[q].at # "none"
        PROVE  \E j \in 1..Len(t.data) : /\ t.data[j].query = q /\ Pending(t, j)
                                          /\ t.net[q].token = j - 1 + t.id_offset
    <3>1. PICK j \in 1..Len(s.data) : /\ s.data[j].query = q /\ Pending(s, j)
                                      /\ s.net[q].token = j - 1 + s.id_offset
      BY <2>1, <2>2, <2>3 DEF Tokens
    <3>2. /\ t.data[j].query = q /\ Pending(t, j)
          /\ t.net[q].token = j - 1 + t.id_offset
      BY <3>1, <2>1, <2>3, <1>2
    <3> QED
      BY <3>2, <1>1
  <2>4. ASSUME NEW j \in 1..Len(t.data), Pending(t, j)
        PROVE  t.net[t.data[j].query].at # "none"
    BY <2>1, <2>2, <2>4, <1>1, <1>2 DEF Tokens
  <2> QED
    BY <2>3, <2>4 DEF Tokens
<1>8. Finishing(t, last)
  BY <1>1, <1>2 DEF Sound, Finishing
<1> QED
  BY <1>1, <1>5, <1>6, <1>7, <1>8 DEF Sound

LEMMA AlikeChained ==
  ASSUME NEW s, NEW last, Sound(s, last), NEW t, Alike(s, t),
         NEW M, NEW C, Chained(s, M, C)
  PROVE  Chained(t, M, C)
<1>1. /\ s \in States /\ Len(s.data) \in Nat /\ s.next_i <= Len(s.data)
      /\ s.last_sent_i < s.next_i /\ s.next_i \in Nat /\ s.last_sent_i \in Nat \cup {-1}
      /\ \A j \in 1..Len(s.data) : s.data[j].query \in Queries
  BY LastNumber DEF Sound, Indexed, States, NoIndex, Entry
<1>2. /\ \A k \in 1..Len(s.data) :
           /\ t.data[k].query = s.data[k].query
           /\ t.data[k].state = "Finish" <=> s.data[k].state = "Finish"
           /\ Pending(t, k) <=> Pending(s, k)
      /\ t.next_i = s.next_i /\ t.finished = s.finished
      /\ t.last_sent_i = s.last_sent_i
  BY DEF Alike, SameShape, SameIndices, SameResults
<1>3. \A k \in 1..s.next_i : k \in 1..Len(s.data)
  BY <1>1
<1>4. /\ \A k \in s.last_sent_i + 2 .. s.next_i : k \in 1..Len(s.data)
      /\ s.last_sent_i # NoIndex => s.last_sent_i + 1 \in 1..Len(s.data)
  BY <1>1 DEF NoIndex
<1>5. \A q \in Queries : Returned(t.net[q]) => Returned(s.net[q])
  BY DEF Alike
<1>6. LastSent(t, M, C)
  BY <1>1, <1>2, <1>3, <1>4, <1>5 DEF Chained, LastSent
<1>7. Following(t, M, C)
  <2>1. \A q \in Queries : t.net[q] = s.net[q] \/ t.net[q].at = "callback"
    BY DEF Alike
  <2> QED
    BY <2>1, <1>2 DEF Chained, Following, InNetwork
<1> QED
  BY <1>6, <1>7 DEF Chained

LEMMA TakenKeeps ==
  ASSUME NEW s, NEW last, Sound(s, last), Dummies(s) = {}, NEW t,
         NEW j \in 1..Len(s.data), s.data[j].state = "Wait", Taken(s, t, j)
  PROVE  Sound(t, last) /\ Alike(s, t) /\ Dummies(t) = {j}
<1>1. Alike(s, t)
  BY DEF Taken, Alike, SameShape, SameIndices, SameResults, Pending
<1>2. Len(s.data) \in Nat /\ Counted(s) /\ Len(t.data) = Len(s.data)
  BY LastNumber DEF Sound, Taken
<1>3. WaitSet(t) = WaitSet(s) \ {j - 1} /\ j - 1 \in WaitSet(s)
  BY <1>2, SMTT(30) DEF WaitSet, Taken
<1>4. Counted(t)
  <2>1. Cardinality(WaitSet(t)) = Cardinality(WaitSet(s)) - 1
    BY <1>2, <1>3, WaitSetFinite, FS_RemoveElement
  <2> QED
    BY <2>1, <1>2 DEF Counted, Taken
<1>5. Dummies(t) = {j}
  BY <1>2 DEF Dummies, Taken
<1> QED
  BY <1>1, <1>4, <1>5, AlikeKeeps

LEMMA FunctionIsSeq ==
  ASSUME NEW S, NEW n \in Nat, NEW f \in [1..n -> S]
  PROVE  f \in Seq(S) /\ Len(f) = n
  BY SeqDef

(* The token of a query that is awaited names its entry. *)
LEMMA TokenOf ==
  ASSUME NEW s, NEW last, Sound(s, last), NEW j \in 1..Len(s.data), Pending(s, j)
  PROVE  /\ s.net[s.data[j].query].at # "none" /\ s.data[j].query \in Queries
         /\ s.net[s.data[j].query].token = j - 1 + s.id_offset
<1>1. s.data[j].query \in Queries
  BY LastNumber DEF Entry
<1>2. s.net[s.data[j].query].at # "none" /\ Tokens(s)
  BY DEF Sound, Tokens
<1>3. PICK k \in 1..Len(s.data) : /\ s.data[k].query = s.data[j].query
                                  /\ s.net[s.data[j].query].token = k - 1 + s.id_offset
  BY <1>1, <1>2 DEF Tokens
<1>4. k = j
  BY <1>3, LastNumber
<1> QED
  BY <1>1, <1>2, <1>3, <1>4

(* try_resend_query(): the answer goes to the callback. *)
LEMMA TryResendKeeps ==
  ASSUME NEW s, NEW last, Sound(s, last), NEW j \in 1..Len(s.data), Dummies(s) = {j},
         Returned(s.net[s.data[j].query]), NEW t, t = TryResendQuery(s, j - 1)
  PROVE  Sound(t, last) /\ Alike(s, t) /\ Dummies(t) = {}
<1> DEFINE q == s.data[j].query
           e == SetState(s.data, j, "Wait")
           r == [s.net[q] EXCEPT !.at = "callback", !.token = j - 1 + s.id_offset]
           n == [s.net EXCEPT ![q] = r]
<1>1. /\ s \in States /\ s.data \in Seq(Entry) /\ Len(s.data) \in Nat /\ q \in Queries
      /\ Pending(s, j) /\ s.data[j].state = "Dummy"
      /\ s.net[q].token = j - 1 + s.id_offset
  <2>1. s.data[j].state = "Dummy"
    BY DEF Dummies
  <2> QED
    BY <2>1, LastNumber, TokenOf DEF Sound, Pending
<1>2. t = [s EXCEPT !.data = e, !.wait_cnt = s.wait_cnt + 1, !.net = n]
  <2>1. (j - 1) + 1 = j
    OBVIOUS
  <2> QED
    BY <2>1, <1>1 DEF TryResendQuery, At, States, SetState
<1> HIDE DEF q
<1>3. /\ e \in Seq(Entry) /\ Len(e) = Len(s.data)
      /\ \A k \in 1..Len(s.data) :
           /\ e[k].state = IF k = j THEN "Wait" ELSE s.data[k].state
           /\ e[k].query = s.data[k].query /\ e[k].generation = s.data[k].generation
  <2>1. PICK d \in Seq(Entry) : d = s.data
    BY <1>1
  <2>2. PICK c : c = e
    OBVIOUS
  <2>3. j \in 1..Len(d) /\ c = SetState(d, j, "Wait")
    BY <2>1, <2>2
  <2> HIDE DEF e, r, n
  <2>4. /\ c \in Seq(Entry) /\ Len(c) = Len(d)
        /\ \A k \in 1..Len(d) :
             /\ c[k].state = IF k = j THEN "Wait" ELSE d[k].state
             /\ c[k].query = d[k].query /\ c[k].generation = d[k].generation
    BY <2>3, StateSet
  <2> QED
    BY <2>1, <2>2, <2>4
<1>4. /\ n \in [Queries -> NetEntry] /\ \A p \in Queries : p # q => n[p] = s.net[p]
      /\ n[q].at = "callback" /\ n[q].token = s.net[q].token
  <2>1. s.net \in [Queries -> NetEntry] /\ s.id_offset \in Nat
    BY <1>1 DEF States
  <2>2. s.net[q] \in NetEntry /\ j - 1 + s.id_offset \in Int
    BY <2>1, <1>1
  <2>3. r \in NetEntry /\ r.at = "callback" /\ r.token = j - 1 + s.id_offset
    BY <2>2 DEF NetEntry
  <2> HIDE DEF r
  <2> QED
    BY <2>1, <2>3, <1>1
<1> HIDE DEF e, n
<1>5. t \in States
  <2>1. s.wait_cnt + 1 \in Int
    BY <1>1 DEF States
  <2> QED
    BY <2>1, <1>1, <1>2, <1>3, <1>4 DEF States
<1>6. /\ t.data = e /\ t.wait_cnt = s.wait_cnt + 1 /\ t.net = n
      /\ t.id_offset = s.id_offset /\ t.finish_i = s.finish_i /\ t.next_i = s.next_i
      /\ t.last_sent_i = s.last_sent_i /\ t.generation = s.generation
      /\ t.outbox = s.outbox /\ t.finished = s.finished
  BY <1>1, <1>2 DEF States
<1>7. Alike(s, t)
  <2>1. SameShape(s, t) /\ SameIndices(s, t) /\ SameResults(s, t)
    BY <1>3, <1>5, <1>6 DEF SameShape, SameIndices, SameResults
  <2>2. \A k \in 1..Len(s.data) :
          /\ t.data[k].generation = s.data[k].generation
          /\ t.data[k].state = "Start" <=> s.data[k].state = "Start"
          /\ t.data[k].state = "Finish" <=> s.data[k].state = "Finish"
          /\ Pending(t, k) <=> Pending(s, k)
    BY <1>1, <1>3, <1>6 DEF Pending
  <2>3. \A p \in Queries :
          \/ t.net[p] = s.net[p]
          \/ /\ Returned(s.net[p]) /\ t.net[p].at = "callback"
             /\ t.net[p].token = s.net[p].token
    <3>1. Returned(s.net[q])
      BY DEF q
    <3> QED
      BY <3>1, <1>4, <1>6
  <2> QED
    BY <2>1, <2>2, <2>3 DEF Alike
<1>8. WaitSet(t) = WaitSet(s) \cup {j - 1} /\ j - 1 \notin WaitSet(s)
  BY <1>1, <1>3, <1>6, SMTT(30) DEF WaitSet
<1>9. Counted(t)
  <2>1. Cardinality(WaitSet(t)) = Cardinality(WaitSet(s)) + 1
    BY <1>1, <1>8, WaitSetFinite, FS_AddElement
  <2> QED
    BY <2>1, <1>6 DEF Sound, Counted
<1>10. Dummies(t) = {}
  <2>1. \A k \in 1..Len(s.data) : k # j => s.data[k].state # "Dummy"
    BY DEF Dummies
  <2> QED
    BY <2>1, <1>3, <1>6 DEF Dummies
<1> QED
  BY <1>7, <1>9, <1>10, AlikeKeeps
-----------------------------------------------------------------------------
(* check_timeout(): queries that wait for their turn may get an error. L   *)
(* are their positions.                                                    *)
Timed(s, t, L) ==
  /\ SameShape(s, t) /\ SameIndices(s, t) /\ SameResults(s, t)
  /\ L \subseteq 0..Len(s.data) - 1
  /\ \A i \in L : s.data[i + 1].state = "Start"
  /\ \A k \in 1..Len(s.data) :
       /\ t.data[k].generation = s.data[k].generation
       /\ t.data[k].state = IF k - 1 \in L THEN "Wait" ELSE s.data[k].state
  /\ \A q \in Queries :
       \/ /\ \A i \in L : s.data[i + 1].query # q
          /\ t.net[q] = s.net[q]
       \/ \E i \in L : /\ s.data[i + 1].query = q
                       /\ t.net[q].at = "callback" /\ t.net[q].token = i + s.id_offset
  /\ t.wait_cnt = s.wait_cnt + Cardinality(L)

LEMMA SetEntry ==
  ASSUME NEW e \in Entry, NEW f, NEW st \in {"Start", "Wait", "Finish", "Dummy"},
         f = [e EXCEPT !.total = 0, !.state = st]
  PROVE  f \in Entry /\ f.generation = e.generation /\ f.query = e.query /\ f.state = st
  BY DEF Entry

LEMMA SetFields ==
  ASSUME NEW s \in States, NEW T \in [Queries -> Nat], NEW D \in Seq(Entry),
         NEW N \in [Queries -> NetEntry], NEW w \in Int,
         NEW t, t = [s EXCEPT !.total = T, !.data = D, !.net = N, !.wait_cnt = w]
  PROVE  t \in States
  BY DEF States

LEMMA TimeoutsChecked ==
  ASSUME NEW s, NEW last, Sound(s, last), NEW ps, NEW t, t = CheckTimeouts(s, ps)
  PROVE  \E L : Timed(s, t, L)
<1> DEFINE start  == ps \cap InState(s, "Start")
           sum(i) == s.total[At(s, i).query] + At(s, i).total
           late   == { i \in start : sum(i) > TotalLimit }
           Of(q)  == CHOOSE i \in start : At(s, i).query = q
           T == [q \in Queries |->
                  IF \E i \in start : At(s, i).query = q THEN sum(Of(q)) ELSE s.total[q]]
           D == [j \in 1..Size(s) |->
                  IF j - 1 \notin start THEN s.data[j]
                  ELSE [s.data[j] EXCEPT !.total = 0,
                          !.state = IF j - 1 \in late THEN "Wait" ELSE "Start"]]
           N == [q \in Queries |->
                  IF \E i \in late : At(s, i).query = q
                    THEN [s.net[q] EXCEPT !.at = "callback", !.kind = "error",
                                          !.token = Of(q) + s.id_offset]
                    ELSE s.net[q]]
           w == s.wait_cnt + Cardinality(late)
<1>1. t = [s EXCEPT !.total = T, !.data = D, !.net = N, !.wait_cnt = w]
  BY DEF CheckTimeouts
<1>2. /\ s \in States /\ s.data \in Seq(Entry) /\ Len(s.data) \in Nat
      /\ \A k \in 1..Len(s.data) : s.data[k] \in Entry
      /\ \A i, j \in 1..Len(s.data) : s.data[i].query = s.data[j].query => i = j
  BY LastNumber DEF Sound
<1>3. \A i \in start : /\ i \in 0..Len(s.data) - 1 /\ i + 1 \in 1..Len(s.data)
                       /\ s.data[i + 1].state = "Start" /\ At(s, i) = s.data[i + 1]
  BY <1>2 DEF InState, Positions, Size, At
<1>4. \A i \in start : Of(At(s, i).query) = i
  <2> SUFFICES ASSUME NEW i \in start
               PROVE  Of(At(s, i).query) = i
    OBVIOUS
  <2> DEFINE k == Of(At(s, i).query)
  <2>1. k \in start /\ At(s, k).query = At(s, i).query
    OBVIOUS
  <2> HIDE DEF k, start
  <2>2. k + 1 = i + 1
    BY <2>1, <1>2, <1>3
  <2>3. k \in Int /\ i \in Int
    BY <2>1, <1>3
  <2> QED
    BY <2>2, <2>3 DEF k
<1>5. /\ s.net \in [Queries -> NetEntry] /\ s.total \in [Queries -> Nat] /\ s.id_offset \in Nat
      /\ s.wait_cnt \in Int
  BY <1>2 DEF States
<1>6. \A i \in start : sum(i) \in Nat /\ i + s.id_offset \in Int
  <2> SUFFICES ASSUME NEW i \in start
               PROVE  sum(i) \in Nat /\ i + s.id_offset \in Int
    OBVIOUS
  <2>1. s.data[i + 1] \in Entry /\ At(s, i) = s.data[i + 1] /\ i \in Int
    BY <1>2, <1>3
  <2>2. At(s, i).query \in Queries /\ At(s, i).total \in Nat
    BY <2>1 DEF Entry
  <2> QED
    BY <2>1, <2>2, <1>5
<1>7. late \subseteq start
  OBVIOUS
<1> HIDE DEF start, sum, Of, late
<1>8. T \in [Queries -> Nat]
  <2> SUFFICES ASSUME NEW q \in Queries
               PROVE  T[q] \in Nat
    OBVIOUS
  <2>1. CASE \E i \in start : At(s, i).query = q
    BY <2>1, <1>4, <1>6
  <2>2. CASE ~ \E i \in start : At(s, i).query = q
    BY <2>2, <1>5
  <2> QED
    BY <2>1, <2>2
<1>9. /\ D \in Seq(Entry) /\ Len(D) = Len(s.data)
      /\ \A k \in 1..Len(s.data) :
           /\ D[k].generation = s.data[k].generation /\ D[k].query = s.data[k].query
           /\ D[k].state = IF k - 1 \in late THEN "Wait" ELSE s.data[k].state
  <2>1. Size(s) = Len(s.data)
    BY DEF Size
  <2>2. ASSUME NEW k \in 1..Len(s.data)
        PROVE  /\ D[k] \in Entry
               /\ D[k].generation = s.data[k].generation /\ D[k].query = s.data[k].query
               /\ D[k].state = IF k - 1 \in late THEN "Wait" ELSE s.data[k].state
    <3>1. CASE k - 1 \notin start
      BY <3>1, <2>1, <1>2, <1>7
    <3>2. CASE k - 1 \in start
      <4>1. s.data[k] \in Entry
        BY <1>2
      <4>2. PICK st : st = IF k - 1 \in late THEN "Wait" ELSE "Start"
        OBVIOUS
      <4>3. D[k] = [s.data[k] EXCEPT !.total = 0, !.state = st]
        BY <3>2, <4>2, <2>1
      <4>4. /\ st \in {"Start", "Wait", "Finish", "Dummy"}
            /\ st = IF k - 1 \in late THEN "Wait" ELSE s.data[k].state
        <5>1. (k - 1) + 1 = k
          OBVIOUS
        <5> QED
          BY <5>1, <4>2, <3>2, <1>3
      <4> HIDE DEF D
      <4>5. D[k] \in Entry /\ D[k].generation = s.data[k].generation
            /\ D[k].query = s.data[k].query /\ D[k].state = st
        <5>1. PICK e \in Entry : e = s.data[k]
          BY <4>1
        <5>2. PICK f : f = D[k]
          OBVIOUS
        <5>3. f = [e EXCEPT !.total = 0, !.state = st]
          BY <5>1, <5>2, <4>3
        <5>4. st \in {"Start", "Wait", "Finish", "Dummy"}
          BY <4>4
        <5>5. f \in Entry /\ f.generation = e.generation /\ f.query = e.query /\ f.state = st
          BY <5>3, <5>4, SetEntry
        <5> QED
          BY <5>1, <5>2, <5>5
      <4> QED
        BY <4>4, <4>5
    <3> QED
      BY <3>1, <3>2
  <2>3. D \in [1..Len(s.data) -> Entry]
    BY <2>1, <2>2
  <2> HIDE DEF D
  <2>4. D \in Seq(Entry) /\ Len(D) = Len(s.data)
    BY <2>3, <1>2, FunctionIsSeq
  <2> QED
    BY <2>2, <2>4
<1>10. /\ N \in [Queries -> NetEntry]
       /\ \A q \in Queries :
            \/ /\ \A i \in late : s.data[i + 1].query # q
               /\ N[q] = s.net[q]
            \/ \E i \in late : /\ s.data[i + 1].query = q
                               /\ N[q].at = "callback" /\ N[q].token = i + s.id_offset
  <2>1. ASSUME NEW q \in Queries
        PROVE  /\ N[q] \in NetEntry
               /\ \/ /\ \A i \in late : s.data[i + 1].query # q
                     /\ N[q] = s.net[q]
                  \/ \E i \in late : /\ s.data[i + 1].query = q
                                     /\ N[q].at = "callback" /\ N[q].token = i + s.id_offset
    <3>0. s.net[q] \in NetEntry
      BY <1>5
    <3>1. CASE \E i \in late : At(s, i).query = q
      <4>1. PICK i \in late : At(s, i).query = q
        BY <3>1
      <4>2. i \in start /\ s.data[i + 1].query = q /\ Of(q) = i /\ i + s.id_offset \in Int
        BY <4>1, <1>3, <1>4, <1>6, <1>7
      <4>3. N[q] = [s.net[q] EXCEPT !.at = "callback", !.kind = "error",
                                     !.token = i + s.id_offset]
        BY <3>1, <4>2
      <4> HIDE DEF N
      <4>4. N[q] \in NetEntry /\ N[q].at = "callback" /\ N[q].token = i + s.id_offset
        BY <3>0, <4>2, <4>3 DEF NetEntry
      <4> QED
        BY <4>1, <4>2, <4>4
    <3>2. CASE ~ \E i \in late : At(s, i).query = q
      BY <3>2, <3>0, <1>3, <1>7
    <3> QED
      BY <3>1, <3>2
  <2> QED
    BY <2>1
<1>11. w \in Int
  <2>1. late \in SUBSET (0..Len(s.data) - 1) /\ IsFiniteSet(0..Len(s.data) - 1)
    BY <1>2, <1>3, <1>7, FS_Interval, SMTT(30)
  <2>2. Cardinality(late) \in Nat
    BY <2>1, FS_Subset, FS_CardinalityType
  <2> QED
    BY <2>2, <1>5
<1>12. w = s.wait_cnt + Cardinality(late)
  OBVIOUS
<1> HIDE DEF T, D, N, w
<1>13. t \in States
  <2>1. s \in States /\ D \in Seq(Entry)
    BY <1>2, <1>9
  <2>2. N \in [Queries -> NetEntry]
    BY <1>10
  <2> QED
    BY <2>1, <2>2, <1>1, <1>8, <1>11, SetFields
<1>14. /\ t.data = D /\ t.wait_cnt = w /\ t.net = N
       /\ t.id_offset = s.id_offset /\ t.finish_i = s.finish_i /\ t.next_i = s.next_i
       /\ t.last_sent_i = s.last_sent_i /\ t.generation = s.generation
       /\ t.outbox = s.outbox /\ t.finished = s.finished
  BY <1>1, <1>2 DEF States
<1>15. SameShape(s, t) /\ SameIndices(s, t) /\ SameResults(s, t)
  BY <1>9, <1>13, <1>14 DEF SameShape, SameIndices, SameResults
<1>16. late \subseteq 0..Len(s.data) - 1 /\ \A i \in late : s.data[i + 1].state = "Start"
  BY <1>3, <1>7
<1>17. \A k \in 1..Len(s.data) :
         /\ t.data[k].generation = s.data[k].generation
         /\ t.data[k].state = IF k - 1 \in late THEN "Wait" ELSE s.data[k].state
  BY <1>9, <1>14
<1>18. Timed(s, t, late)
  BY <1>10, <1>12, <1>14, <1>15, <1>16, <1>17, Zenon DEF Timed
<1> QED
  BY <1>18

LEMMA UnionOfWaits ==
  ASSUME NEW s, NEW t, Len(s.data) \in Nat, NEW L, L \subseteq 0..Len(s.data) - 1,
         WaitSet(t) = WaitSet(s) \cup L, WaitSet(s) \cap L = {}, Counted(s), s.wait_cnt \in Int,
         t.wait_cnt = s.wait_cnt + Cardinality(L)
  PROVE  Counted(t)
<1>1. IsFiniteSet(WaitSet(s)) /\ Cardinality(WaitSet(s)) \in Nat
  BY WaitSetFinite
<1>2. IsFiniteSet(L) /\ Cardinality(L) \in Nat
  <2>1. IsFiniteSet(0..Len(s.data) - 1) /\ L \in SUBSET (0..Len(s.data) - 1)
    BY FS_Interval
  <2> QED
    BY <2>1, FS_Subset, FS_CardinalityType
<1>3. Cardinality(WaitSet(s) \cap L) = 0
  BY FS_EmptySet
<1>4. Cardinality(WaitSet(t)) = Cardinality(WaitSet(s)) + Cardinality(L)
  <2>1. Cardinality(WaitSet(s) \cup L) =
          Cardinality(WaitSet(s)) + Cardinality(L) - Cardinality(WaitSet(s) \cap L)
    BY <1>1, <1>2, FS_Union
  <2> QED
    BY <2>1, <1>1, <1>2, <1>3
<1> QED
  BY <1>4 DEF Counted

LEMMA TimedFacts ==
  ASSUME NEW s, NEW last, Sound(s, last), NEW t, NEW L, Timed(s, t, L)
  PROVE  /\ Len(s.data) \in Nat /\ Len(t.data) = Len(s.data) /\ t.id_offset = s.id_offset
         /\ t.next_i = s.next_i /\ t.finish_i = s.finish_i /\ t.finished = s.finished
         /\ t.last_sent_i = s.last_sent_i /\ t.generation = s.generation
         /\ s.next_i \in Nat /\ s.next_i <= Len(s.data) /\ s.finish_i \in Nat
         /\ s.finish_i <= s.next_i
         /\ \A k \in 1..Len(s.data) :
              /\ t.data[k].query = s.data[k].query /\ s.data[k].query \in Queries
              /\ t.data[k].generation = s.data[k].generation
              /\ k - 1 \notin L => t.data[k].state = s.data[k].state
              /\ k - 1 \in L => /\ t.data[k].state = "Wait" /\ s.data[k].state = "Start"
                                /\ t.net[s.data[k].query].at = "callback"
                                /\ t.net[s.data[k].query].token = k - 1 + s.id_offset
              /\ k - 1 \notin L => t.net[s.data[k].query] = s.net[s.data[k].query]
         /\ \A k \in 1..s.next_i : k \in 1..Len(s.data) /\ k - 1 \notin L
<1>1. /\ Len(s.data) \in Nat /\ Len(t.data) = Len(s.data) /\ t.id_offset = s.id_offset
      /\ t.next_i = s.next_i /\ t.finish_i = s.finish_i /\ t.finished = s.finished
      /\ t.last_sent_i = s.last_sent_i /\ t.generation = s.generation
  BY LastNumber DEF Timed, SameShape, SameIndices, SameResults
<1>2. /\ s.next_i \in Nat /\ s.next_i <= Len(s.data) /\ s.finish_i \in Nat
      /\ s.finish_i <= s.next_i
  BY DEF Sound, Indexed, States
<1>3. /\ \A k \in 1..Len(s.data) : s.data[k].query \in Queries
      /\ \A i, j \in 1..Len(s.data) : s.data[i].query = s.data[j].query => i = j
  BY LastNumber DEF Entry
<1>4. ASSUME NEW k \in 1..Len(s.data)
      PROVE  /\ t.data[k].query = s.data[k].query /\ s.data[k].query \in Queries
             /\ t.data[k].generation = s.data[k].generation
             /\ k - 1 \notin L => t.data[k].state = s.data[k].state
             /\ k - 1 \in L => /\ t.data[k].state = "Wait" /\ s.data[k].state = "Start"
                               /\ t.net[s.data[k].query].at = "callback"
                               /\ t.net[s.data[k].query].token = k - 1 + s.id_offset
             /\ k - 1 \notin L => t.net[s.data[k].query] = s.net[s.data[k].query]
  <2>1. t.data[k].query = s.data[k].query /\ s.data[k].query \in Queries
    BY <1>3 DEF Timed, SameShape
  <2>2. /\ t.data[k].generation = s.data[k].generation
        /\ t.data[k].state = IF k - 1 \in L THEN "Wait" ELSE s.data[k].state
        /\ L \subseteq 0..Len(s.data) - 1
        /\ \A i \in L : s.data[i + 1].state = "Start"
    BY DEF Timed
  <2>3. \A i \in L : i + 1 \in 1..Len(s.data) /\ i \in Int
    BY <2>2, <1>1
  <2>4. \A i \in L : s.data[i + 1].query = s.data[k].query => i = k - 1
    BY <2>3, <1>3
  <2>5. PICK q \in Queries : q = s.data[k].query
    BY <2>1
  <2>6. \/ /\ \A i \in L : s.data[i + 1].query # q
           /\ t.net[q] = s.net[q]
        \/ \E i \in L : /\ s.data[i + 1].query = q
                        /\ t.net[q].at = "callback" /\ t.net[q].token = i + s.id_offset
    BY DEF Timed
  <2>7. k = (k - 1) + 1
    OBVIOUS
  <2>8. CASE k - 1 \in L
    <3>1. s.data[k].state = "Start" /\ t.data[k].state = "Wait"
      BY <2>2, <2>7, <2>8
    <3>2. PICK i \in L : /\ s.data[i + 1].query = q
                         /\ t.net[q].at = "callback" /\ t.net[q].token = i + s.id_offset
      BY <2>5, <2>6, <2>7, <2>8
    <3>3. i = k - 1
      BY <3>2, <2>4, <2>5
    <3> QED
      BY <3>1, <3>2, <3>3, <2>1, <2>2, <2>5, <2>8
  <2>9. CASE k - 1 \notin L
    <3>1. t.net[q] = s.net[q]
      BY <2>4, <2>5, <2>6, <2>9
    <3> QED
      BY <3>1, <2>1, <2>2, <2>5, <2>9
  <2> QED
    BY <2>8, <2>9
<1>5. ASSUME NEW k \in 1..s.next_i
      PROVE  k \in 1..Len(s.data) /\ k - 1 \notin L
  <2>1. k \in 1..Len(s.data)
    BY <1>1, <1>2
  <2>2. s.data[k].state # "Start"
    BY DEF Sound, CurrentChain
  <2> QED
    BY <2>1, <2>2, <1>4
<1> QED
  BY <1>1, <1>2, <1>4, <1>5

LEMMA TimedKeeps ==
  ASSUME NEW s, NEW last, Sound(s, last), NEW t, NEW L, Timed(s, t, L)
  PROVE  Sound(t, last) /\ Dummies(t) = Dummies(s) /\ SameResults(s, t) /\ SameShape(s, t)
<1>1. /\ Len(s.data) \in Nat /\ Len(t.data) = Len(s.data) /\ t.id_offset = s.id_offset
      /\ t.next_i = s.next_i /\ t.finish_i = s.finish_i /\ t.finished = s.finished
      /\ t.last_sent_i = s.last_sent_i /\ t.generation = s.generation
      /\ s.next_i \in Nat /\ s.next_i <= Len(s.data) /\ s.finish_i \in Nat
      /\ s.finish_i <= s.next_i
  BY TimedFacts
<1>2. \A k \in 1..Len(s.data) :
        /\ t.data[k].query = s.data[k].query /\ s.data[k].query \in Queries
        /\ t.data[k].generation = s.data[k].generation
        /\ k - 1 \notin L => t.data[k].state = s.data[k].state
        /\ k - 1 \in L => /\ t.data[k].state = "Wait" /\ s.data[k].state = "Start"
                          /\ t.net[s.data[k].query].at = "callback"
                          /\ t.net[s.data[k].query].token = k - 1 + s.id_offset
        /\ k - 1 \notin L => t.net[s.data[k].query] = s.net[s.data[k].query]
  BY TimedFacts
<1>3. \A k \in 1..s.next_i : k \in 1..Len(s.data) /\ k - 1 \notin L
  BY TimedFacts
<1>4. /\ SameShape(s, t) /\ SameResults(s, t) /\ L \subseteq 0..Len(s.data) - 1
      /\ t.wait_cnt = s.wait_cnt + Cardinality(L)
  BY DEF Timed
<1>5. t \in States /\ last \in Nat /\ Numbered(t, last)
  BY <1>4, ShapeKept
<1>6. Indexed(t)
  <2>1. \A k \in 1..s.finish_i : k \in 1..s.next_i
    BY <1>1
  <2> QED
    BY <2>1, <1>1, <1>2, <1>3 DEF Sound, Indexed
<1>7. CurrentChain(t)
  BY <1>1, <1>2, <1>3 DEF Sound, CurrentChain, Pending
<1>8. Tokens(t)
  <2>1. ASSUME NEW q \in Queries, t.net[q].at # "none"
        PROVE  \E j \in 1..Len(t.data) : /\ t.data[j].query = q /\ Pending(t, j)
                                          /\ t.net[q].token = j - 1 + t.id_offset
    <3>1. CASE \E i \in L : s.data[i + 1].query = q
      <4>1. PICK i \in L : s.data[i + 1].query = q
        BY <3>1
      <4>2. i + 1 \in 1..Len(s.data) /\ (i + 1) - 1 = i
        BY <1>1, <1>4
      <4>3. t.data[i + 1].query = q /\ Pending(t, i + 1) /\ t.net[q].token = (i + 1) - 1 + t.id_offset
        BY <4>1, <4>2, <1>1, <1>2 DEF Pending
      <4> QED
        BY <4>2, <4>3, <1>1
    <3>2. CASE \A i \in L : s.data[i + 1].query # q
      <4>1. t.net[q] = s.net[q]
        BY <3>2 DEF Timed
      <4>2. PICK j \in 1..Len(s.data) : /\ s.data[j].query = q /\ Pending(s, j)
                                        /\ s.net[q].token = j - 1 + s.id_offset
        BY <4>1, <2>1 DEF Sound, Tokens
      <4>3. j - 1 \notin L
        BY <4>2, <1>2 DEF Pending
      <4>4. t.data[j].query = q /\ Pending(t, j) /\ t.net[q].token = j - 1 + t.id_offset
        BY <4>1, <4>2, <4>3, <1>1, <1>2 DEF Pending
      <4> QED
        BY <4>4, <1>1
    <3> QED
      BY <3>1, <3>2
  <2>2. ASSUME NEW j \in 1..Len(t.data), Pending(t, j)
        PROVE  t.net[t.data[j].query].at # "none"
    <3>1. CASE j - 1 \in L
      BY <3>1, <1>1, <1>2
    <3>2. CASE j - 1 \notin L
      <4>1. Pending(s, j) /\ j \in 1..Len(s.data)
        BY <3>2, <2>2, <1>1, <1>2 DEF Pending
      <4>2. s.net[s.data[j].query].at # "none"
        BY <4>1, TokenOf
      <4> QED
        BY <4>1, <4>2, <3>2, <1>2
    <3> QED
      BY <3>1, <3>2
  <2> QED
    BY <2>1, <2>2 DEF Tokens
<1>9. WaitSet(t) = WaitSet(s) \cup L /\ WaitSet(s) \cap L = {}
  <2>1. ASSUME NEW i \in 0..Len(s.data) - 1
        PROVE  /\ i \in L => t.data[i + 1].state = "Wait" /\ s.data[i + 1].state = "Start"
               /\ i \notin L => t.data[i + 1].state = s.data[i + 1].state
    <3>1. i + 1 \in 1..Len(s.data) /\ (i + 1) - 1 = i
      BY <1>1
    <3> QED
      BY <3>1, <1>2
  <2> QED
    BY <2>1, <1>1, <1>4 DEF WaitSet
<1>10. Counted(t)
  <2>1. Counted(s) /\ s.wait_cnt \in Int
    BY DEF Sound, States
  <2> QED
    BY <2>1, <1>1, <1>4, <1>9, UnionOfWaits
<1>11. Finishing(t, last)
  <2>1. \A k \in 1..Len(s.data) : t.data[k].state = "Finish" <=> s.data[k].state = "Finish"
    BY <1>2
  <2> QED
    BY <2>1, <1>1, <1>2 DEF Sound, Finishing
<1>12. Dummies(t) = Dummies(s)
  <2>1. \A k \in 1..Len(s.data) : t.data[k].state = "Dummy" <=> s.data[k].state = "Dummy"
    BY <1>2
  <2> QED
    BY <2>1, <1>1 DEF Dummies
<1> QED
  BY <1>4, <1>5, <1>6, <1>7, <1>8, <1>10, <1>11, <1>12 DEF Sound

LEMMA TimedChained ==
  ASSUME NEW s, NEW last, Sound(s, last), NEW t, NEW L, Timed(s, t, L),
         NEW M, NEW C, Chained(s, M, C)
  PROVE  Chained(t, M, C)
<1>1. /\ t.next_i = s.next_i /\ t.finished = s.finished /\ t.last_sent_i = s.last_sent_i
      /\ s.next_i \in Nat /\ s.next_i <= Len(s.data)
  BY TimedFacts
<1>2. \A k \in 1..s.next_i :
        /\ t.data[k].query = s.data[k].query /\ t.data[k].state = s.data[k].state
        /\ t.net[s.data[k].query] = s.net[s.data[k].query]
  BY TimedFacts
<1>3. /\ \A k \in s.last_sent_i + 2 .. s.next_i : k \in 1..s.next_i
      /\ s.last_sent_i # NoIndex => s.last_sent_i + 1 \in 1..s.next_i
  <2>1. s.last_sent_i < s.next_i /\ s.last_sent_i \in Nat \cup {-1}
    BY DEF Sound, Indexed, States, NoIndex
  <2> QED
    BY <2>1, <1>1 DEF NoIndex
<1>4. LastSent(t, M, C)
  BY <1>1, <1>2, <1>3 DEF Chained, LastSent, Pending
<1>5. Following(t, M, C)
  <2>1. \A q \in Queries : t.net[q] = s.net[q] \/ t.net[q].at = "callback"
    BY DEF Timed
  <2> QED
    BY <2>1, <1>1 DEF Chained, Following, InNetwork
<1> QED
  BY <1>4, <1>5 DEF Chained
-----------------------------------------------------------------------------
(* do_resend(): the query waits for its turn again, and the chain is       *)
(* restarted if it belonged to it.                                         *)
Restarted(s, t, j) ==
  /\ SameShape(s, t) /\ SameResults(s, t) /\ t.finish_i = s.finish_i
  /\ t.wait_cnt = s.wait_cnt
  /\ \A k \in 1..Len(s.data) :
       /\ t.data[k].generation = s.data[k].generation
       /\ t.data[k].state = IF k = j THEN "Start" ELSE s.data[k].state
  /\ t.net[s.data[j].query].at = "none"
  /\ \A q \in Queries : q # s.data[j].query => t.net[q] = s.net[q]
  /\ \/ t.next_i = s.finish_i /\ t.last_sent_i = NoIndex
     \/ /\ s.data[j].generation # s.generation
        /\ t.next_i = s.next_i /\ t.last_sent_i = s.last_sent_i
        /\ t.generation = s.generation

LEMMA ResendRestarts ==
  ASSUME NEW s, NEW last, Sound(s, last), NEW j \in 1..Len(s.data), Dummies(s) = {j}
  PROVE  \E t : Restarted(s, t, j) /\ DoResend(s, j - 1) = CheckTimeouts(t, {j - 1})
<1> DEFINE q == s.data[j].query
           restart == s.data[j].generation = s.generation
           e == SetState(s.data, j, "Start")
           n == [s.net EXCEPT ![q].at = "none"]
           x == IF restart THEN s.finish_i ELSE s.next_i
           g == IF restart THEN s.generation + 1 ELSE s.generation
           l == IF restart THEN NoIndex ELSE s.last_sent_i
           t == [s EXCEPT !.data = e, !.net = n, !.next_i = x, !.generation = g,
                          !.last_sent_i = l]
<1>1. /\ s \in States /\ s.data \in Seq(Entry) /\ Len(s.data) \in Nat /\ q \in Queries
  BY LastNumber DEF Sound, Entry
<1>2. DoResend(s, j - 1) = CheckTimeouts(t, {j - 1})
  <2>1. PICK i : i = j - 1
    OBVIOUS
  <2>2. i + 1 = j /\ At(s, i) = s.data[j]
    BY <2>1 DEF At
  <2> DEFINE again == At(s, i).generation = s.generation
             u == [s EXCEPT !.data[i + 1].state = "Start",
                            !.net[At(s, i).query].at = "none",
                            !.next_i = IF again THEN s.finish_i ELSE s.next_i,
                            !.generation = IF again THEN s.generation + 1 ELSE s.generation,
                            !.last_sent_i = IF again THEN NoIndex ELSE s.last_sent_i]
  <2>3. DoResend(s, i) = CheckTimeouts(u, {i})
    BY DEF DoResend
  <2>4. u = t
    <3> DEFINE v == [s EXCEPT !.data[j].state = "Start", !.net[q].at = "none", !.next_i = x,
                              !.generation = g, !.last_sent_i = l]
    <3>1. u = v
      <4>1. /\ (IF again THEN s.finish_i ELSE s.next_i) = x
            /\ (IF again THEN s.generation + 1 ELSE s.generation) = g
            /\ (IF again THEN NoIndex ELSE s.last_sent_i) = l
            /\ At(s, i).query = q
        BY <2>2
      <4> HIDE DEF q, x, g, l, again
      <4> QED
        BY <4>1, <2>2, <1>1 DEF States
    <3> HIDE DEF q, x, g, l
    <3>2. v = t
      BY <1>1 DEF States, SetState
    <3> QED
      BY <3>1, <3>2
  <2> HIDE DEF u, t
  <2> QED
    BY <2>1, <2>3, <2>4
<1>3. /\ e \in Seq(Entry) /\ Len(e) = Len(s.data)
      /\ \A k \in 1..Len(s.data) :
           /\ e[k].state = IF k = j THEN "Start" ELSE s.data[k].state
           /\ e[k].query = s.data[k].query /\ e[k].generation = s.data[k].generation
  BY <1>1, StateSet
<1>4. /\ n \in [Queries -> NetEntry] /\ n[q].at = "none"
      /\ \A p \in Queries : p # q => n[p] = s.net[p]
  <2>1. s.net \in [Queries -> NetEntry]
    BY <1>1 DEF States
  <2>2. s.net[q] \in NetEntry /\ n = [s.net EXCEPT ![q] = [s.net[q] EXCEPT !.at = "none"]]
    BY <2>1, <1>1
  <2> DEFINE r == [s.net[q] EXCEPT !.at = "none"]
  <2>3. r \in NetEntry /\ r.at = "none"
    BY <2>2 DEF NetEntry
  <2>4. n = [s.net EXCEPT ![q] = r]
    BY <2>2
  <2> HIDE DEF r, n, q
  <2> QED
    BY <2>1, <2>3, <2>4, <1>1
<1>5. /\ x \in Nat /\ g \in Nat /\ l \in Nat \cup {NoIndex}
      /\ \/ x = s.finish_i /\ l = NoIndex
         \/ ~restart /\ x = s.next_i /\ l = s.last_sent_i /\ g = s.generation
  BY <1>1 DEF States
<1> HIDE DEF e, n, x, g, l, q, restart
<1>6. t \in States
  BY <1>1, <1>3, <1>4, <1>5 DEF States
<1>7. /\ t.data = e /\ t.net = n /\ t.next_i = x /\ t.generation = g /\ t.last_sent_i = l
      /\ t.id_offset = s.id_offset /\ t.finish_i = s.finish_i /\ t.wait_cnt = s.wait_cnt
      /\ t.outbox = s.outbox /\ t.finished = s.finished
  BY <1>1 DEF States
<1> HIDE DEF t
<1>8. SameShape(s, t) /\ SameResults(s, t)
  BY <1>3, <1>6, <1>7 DEF SameShape, SameResults
<1>9. \A k \in 1..Len(s.data) :
        /\ t.data[k].generation = s.data[k].generation
        /\ t.data[k].state = IF k = j THEN "Start" ELSE s.data[k].state
  BY <1>3, <1>7
<1>10. /\ t.net[s.data[j].query].at = "none"
       /\ \A p \in Queries : p # s.data[j].query => t.net[p] = s.net[p]
  BY <1>4, <1>7 DEF q
<1>11. \/ t.next_i = s.finish_i /\ t.last_sent_i = NoIndex
       \/ /\ s.data[j].generation # s.generation
          /\ t.next_i = s.next_i /\ t.last_sent_i = s.last_sent_i
          /\ t.generation = s.generation
  BY <1>5, <1>7 DEF restart
<1>12. Restarted(s, t, j)
  BY <1>7, <1>8, <1>9, <1>10, <1>11 DEF Restarted
<1> QED
  BY <1>2, <1>12

LEMMA RestartFacts ==
  ASSUME NEW s, NEW last, Sound(s, last), NEW j \in 1..Len(s.data), Dummies(s) = {j},
         NEW t, Restarted(s, t, j)
  PROVE  /\ Len(s.data) \in Nat /\ Len(t.data) = Len(s.data) /\ t.id_offset = s.id_offset
         /\ t.finished = s.finished /\ t.finish_i = s.finish_i /\ s.finish_i \in Nat
         /\ s.next_i \in Nat /\ s.next_i <= Len(s.data) /\ s.finish_i <= s.next_i
         /\ \A k \in 1..Len(s.data) :
              /\ t.data[k].query = s.data[k].query /\ s.data[k].query \in Queries
              /\ t.data[k].generation = s.data[k].generation
              /\ k # j => /\ t.data[k].state = s.data[k].state
                          /\ t.net[s.data[k].query] = s.net[s.data[k].query]
         /\ s.data[j].state = "Dummy" /\ t.data[j].state = "Start"
         /\ \A k \in 1..s.finish_i : k # j /\ k \in 1..Len(s.data) /\ s.data[k].state = "Finish"
         /\ \/ t.next_i = s.finish_i /\ t.last_sent_i = NoIndex
            \/ /\ \A k \in 1..s.next_i : k # j /\ k \in 1..Len(s.data)
               /\ t.next_i = s.next_i /\ t.last_sent_i = s.last_sent_i
               /\ t.generation = s.generation
<1>1. /\ Len(s.data) \in Nat /\ Len(t.data) = Len(s.data) /\ t.id_offset = s.id_offset
      /\ t.finished = s.finished /\ t.finish_i = s.finish_i
      /\ \A k \in 1..Len(s.data) : t.data[k].query = s.data[k].query
  BY LastNumber DEF Restarted, SameShape, SameResults
<1>2. /\ s.next_i \in Nat /\ s.next_i <= Len(s.data) /\ s.finish_i \in Nat
      /\ s.finish_i <= s.next_i
      /\ \A k \in 1..s.finish_i : s.data[k].state = "Finish"
  BY DEF Sound, Indexed, States
<1>3. s.data[j].state = "Dummy" /\ t.data[j].state = "Start"
  BY DEF Dummies, Restarted
<1>4. ASSUME NEW k \in 1..Len(s.data)
      PROVE  /\ s.data[k].query \in Queries
             /\ t.data[k].generation = s.data[k].generation
             /\ k # j => /\ t.data[k].state = s.data[k].state
                         /\ t.net[s.data[k].query] = s.net[s.data[k].query]
  <2>1. s.data[k].query \in Queries
    BY LastNumber DEF Entry
  <2>2. k # j => s.data[k].query # s.data[j].query
    BY LastNumber
  <2> QED
    BY <2>1, <2>2 DEF Restarted
<1>5. \A k \in 1..s.finish_i : k # j /\ k \in 1..Len(s.data) /\ s.data[k].state = "Finish"
  BY <1>1, <1>2, <1>3
<1>6. \/ t.next_i = s.finish_i /\ t.last_sent_i = NoIndex
      \/ /\ \A k \in 1..s.next_i : k # j /\ k \in 1..Len(s.data)
         /\ t.next_i = s.next_i /\ t.last_sent_i = s.last_sent_i
         /\ t.generation = s.generation
  <2>1. CASE s.data[j].generation # s.generation
    <3>1. j \notin 1..s.next_i
      BY <2>1, <1>3 DEF Sound, CurrentChain, Pending
    <3>2. \A k \in 1..s.next_i : k # j /\ k \in 1..Len(s.data)
      BY <3>1, <1>1, <1>2
    <3> QED
      BY <3>2 DEF Restarted
  <2> QED
    BY <2>1 DEF Restarted
<1> QED
  BY <1>1, <1>2, <1>3, <1>4, <1>5, <1>6

LEMMA RestartKeeps ==
  ASSUME NEW s, NEW last, Sound(s, last), NEW j \in 1..Len(s.data), Dummies(s) = {j},
         NEW t, Restarted(s, t, j)
  PROVE  Sound(t, last) /\ Dummies(t) = {}
<1>1. /\ Len(s.data) \in Nat /\ Len(t.data) = Len(s.data) /\ t.id_offset = s.id_offset
      /\ t.finished = s.finished /\ t.finish_i = s.finish_i /\ s.finish_i \in Nat
      /\ s.next_i \in Nat /\ s.next_i <= Len(s.data) /\ s.finish_i <= s.next_i
  BY RestartFacts
<1>2. /\ \A k \in 1..Len(s.data) :
           /\ t.data[k].query = s.data[k].query /\ s.data[k].query \in Queries
           /\ t.data[k].generation = s.data[k].generation
           /\ k # j => /\ t.data[k].state = s.data[k].state
                       /\ t.net[s.data[k].query] = s.net[s.data[k].query]
      /\ s.data[j].state = "Dummy" /\ t.data[j].state = "Start"
  BY RestartFacts
<1>3. \A k \in 1..s.finish_i : k # j /\ k \in 1..Len(s.data) /\ s.data[k].state = "Finish"
  BY RestartFacts
<1>4. \/ t.next_i = s.finish_i /\ t.last_sent_i = NoIndex
      \/ /\ \A k \in 1..s.next_i : k # j /\ k \in 1..Len(s.data)
         /\ t.next_i = s.next_i /\ t.last_sent_i = s.last_sent_i
         /\ t.generation = s.generation
  BY RestartFacts
<1>5. t \in States /\ last \in Nat /\ Numbered(t, last)
  BY ShapeKept DEF Restarted
<1>6. Indexed(t)
  <2>1. \A k \in 1..t.finish_i : t.data[k].state = "Finish"
    BY <1>1, <1>2, <1>3
  <2>2. t.finish_i <= t.next_i /\ t.next_i <= Len(t.data) /\ t.last_sent_i < t.next_i
    BY <1>1, <1>4 DEF Sound, Indexed, NoIndex
  <2> QED
    BY <2>1, <2>2 DEF Indexed
<1>7. CurrentChain(t)
  <2>1. CASE t.next_i = s.finish_i
    BY <2>1, <1>2, <1>3 DEF CurrentChain, Pending
  <2>2. CASE /\ \A k \in 1..s.next_i : k # j /\ k \in 1..Len(s.data)
             /\ t.next_i = s.next_i /\ t.generation = s.generation
    BY <2>2, <1>2 DEF Sound, CurrentChain, Pending
  <2> QED
    BY <2>1, <2>2, <1>4
<1>8. Tokens(t)
  <2>1. ASSUME NEW q \in Queries, t.net[q].at # "none"
        PROVE  \E k \in 1..Len(t.data) : /\ t.data[k].query = q /\ Pending(t, k)
                                          /\ t.net[q].token = k - 1 + t.id_offset
    <3>1. q # s.data[j].query /\ t.net[q] = s.net[q]
      BY <2>1 DEF Restarted
    <3>2. PICK k \in 1..Len(s.data) : /\ s.data[k].query = q /\ Pending(s, k)
                                      /\ s.net[q].token = k - 1 + s.id_offset
      BY <3>1, <2>1 DEF Sound, Tokens
    <3>3. t.data[k].query = q /\ Pending(t, k) /\ t.net[q].token = k - 1 + t.id_offset
      BY <3>1, <3>2, <1>1, <1>2 DEF Pending
    <3> QED
      BY <3>3, <1>1
  <2>2. ASSUME NEW k \in 1..Len(t.data), Pending(t, k)
        PROVE  t.net[t.data[k].query].at # "none"
    <3>1. k # j /\ k \in 1..Len(s.data)
      BY <2>2, <1>1, <1>2 DEF Pending
    <3>2. Pending(s, k)
      BY <3>1, <2>2, <1>2 DEF Pending
    <3>3. s.net[s.data[k].query].at # "none"
      BY <3>1, <3>2, TokenOf
    <3> QED
      BY <3>1, <3>3, <1>2
  <2> QED
    BY <2>1, <2>2 DEF Tokens
<1>9. Counted(t)
  <2>1. \A i \in 0..Len(s.data) - 1 : t.data[i + 1].state = "Wait" <=> s.data[i + 1].state = "Wait"
    BY <1>1, <1>2
  <2>2. WaitSet(t) = WaitSet(s)
    BY <2>1, <1>1 DEF WaitSet
  <2> QED
    BY <2>2 DEF Sound, Counted, Restarted
<1>10. Finishing(t, last)
  <2>1. \A k \in 1..Len(s.data) : t.data[k].state = "Finish" <=> s.data[k].state = "Finish"
    BY <1>2
  <2> QED
    BY <2>1, <1>1, <1>2 DEF Sound, Finishing
<1>11. Dummies(t) = {}
  <2>1. \A k \in 1..Len(s.data) : k # j => s.data[k].state # "Dummy"
    BY DEF Dummies
  <2>2. \A k \in 1..Len(s.data) : t.data[k].state # "Dummy"
    BY <2>1, <1>2
  <2> QED
    BY <2>2, <1>1 DEF Dummies
<1> QED
  BY <1>5, <1>6, <1>7, <1>8, <1>9, <1>10, <1>11 DEF Sound

LEMMA RestartChained ==
  ASSUME NEW s, NEW last, Sound(s, last), NEW j \in 1..Len(s.data), Dummies(s) = {j},
         NEW t, Restarted(s, t, j), NEW M, NEW C, Chained(s, M, C)
  PROVE  Chained(t, M, C)
<1>1. /\ Len(s.data) \in Nat /\ t.finished = s.finished /\ s.finish_i \in Nat
      /\ s.next_i \in Nat /\ s.next_i <= Len(s.data) /\ s.finish_i <= s.next_i
  BY RestartFacts
<1>2. \A k \in 1..Len(s.data) :
        /\ t.data[k].query = s.data[k].query /\ s.data[k].query \in Queries
        /\ k # j => /\ t.data[k].state = s.data[k].state
                    /\ t.net[s.data[k].query] = s.net[s.data[k].query]
  BY RestartFacts
<1>3. \A k \in 1..s.finish_i : t.data[k].state = "Finish"
  BY RestartFacts
<1>4. LastSent(t, M, C)
  <2>1. CASE t.next_i = s.finish_i /\ t.last_sent_i = NoIndex
    <3>1. \A k \in t.last_sent_i + 2 .. t.next_i : k \in 1..s.finish_i
      BY <2>1, <1>1 DEF NoIndex
    <3>2. \A k \in 1..t.next_i : ~Pending(t, k)
      BY <2>1, <1>3 DEF Pending
    <3> QED
      BY <3>1, <3>2, <2>1, <1>3 DEF LastSent
  <2>2. CASE /\ \A k \in 1..s.next_i : k # j /\ k \in 1..Len(s.data)
             /\ t.next_i = s.next_i /\ t.last_sent_i = s.last_sent_i
    <3>1. \A k \in 1..s.next_i :
            /\ t.data[k].query = s.data[k].query /\ t.data[k].state = s.data[k].state
            /\ t.net[s.data[k].query] = s.net[s.data[k].query]
      BY <2>2, <1>2
    <3>2. /\ \A k \in s.last_sent_i + 2 .. s.next_i : k \in 1..s.next_i
          /\ s.last_sent_i # NoIndex => s.last_sent_i + 1 \in 1..s.next_i
      <4>1. s.last_sent_i < s.next_i /\ s.last_sent_i \in Nat \cup {-1}
        BY DEF Sound, Indexed, States, NoIndex
      <4> QED
        BY <4>1, <1>1 DEF NoIndex
    <3> QED
      BY <3>1, <3>2, <2>2, <1>1 DEF Chained, LastSent, Pending
  <2> QED
    BY <2>1, <2>2, RestartFacts
<1>5. Following(t, M, C)
  <2>1. \A q \in Queries : t.net[q] = s.net[q] \/ t.net[q].at = "none"
    BY DEF Restarted
  <2> QED
    BY <2>1, <1>1 DEF Chained, Following, InNetwork
<1> QED
  BY <1>4, <1>5 DEF Chained

LEMMA DoResendKeeps ==
  ASSUME NEW s, NEW last, Sound(s, last), NEW j \in 1..Len(s.data), Dummies(s) = {j},
         NEW t, t = DoResend(s, j - 1)
  PROVE  /\ Sound(t, last) /\ Dummies(t) = {} /\ SameResults(s, t)
         /\ \A M, C : Chained(s, M, C) => Chained(t, M, C)
<1>1. PICK r : Restarted(s, r, j) /\ DoResend(s, j - 1) = CheckTimeouts(r, {j - 1})
  BY ResendRestarts
<1>2. Sound(r, last) /\ Dummies(r) = {} /\ SameResults(s, r)
  BY <1>1, RestartKeeps DEF Restarted
<1>3. t = CheckTimeouts(r, {j - 1})
  BY <1>1
<1>4. PICK L : Timed(r, t, L)
  BY <1>2, <1>3, TimeoutsChecked
<1>5. Sound(t, last) /\ Dummies(t) = {} /\ SameResults(r, t)
  BY <1>2, <1>4, TimedKeeps
<1>6. ASSUME NEW M, NEW C, Chained(s, M, C)
      PROVE  Chained(t, M, C)
  <2>1. Chained(r, M, C)
    BY <1>1, <1>6, RestartChained
  <2> QED
    BY <2>1, <1>2, <1>4, TimedChained
<1> QED
  BY <1>2, <1>5, <1>6 DEF SameResults
-----------------------------------------------------------------------------
(* What is settled stays settled. *)
LEMMA Settled ==
  ASSUME NEW F, NEW G, F \subseteq G, NEW M, NEW N, DoneIn(M) \subseteq DoneIn(N),
         NEW C, NEW D, C \subseteq D
  PROVE  \A q : /\ InOrder(q, F, M, C) => InOrder(q, G, N, D)
                /\ Passed(q, F, M, C) => Passed(q, G, N, D)
                /\ \A a : MayFollow(q, a, F, M, C) => MayFollow(q, a, G, N, D)
<1>1. \A p, q : Behind(p, q, F, M, C) => Behind(p, q, G, N, D)
  BY DEF Behind
<1>2. \A q : InOrder(q, F, M, C) => InOrder(q, G, N, D)
  BY <1>1 DEF InOrder
<1>3. \A q : Passed(q, F, M, C) => Passed(q, G, N, D)
  BY <1>2 DEF Passed
<1>4. \A q, a : MayFollow(q, a, F, M, C) => MayFollow(q, a, G, N, D)
  BY <1>1, <1>2 DEF MayFollow
<1> QED
  BY <1>2, <1>3, <1>4

(* do_finish(): the query is done with, and the parent is told. *)
Ended(s, t, j) ==
  /\ SameShape(s, t) /\ SameIndices(s, t) /\ t.wait_cnt = s.wait_cnt
  /\ \A k \in 1..Len(s.data) :
       /\ t.data[k].generation = s.data[k].generation
       /\ t.data[k].state = IF k = j THEN "Finish" ELSE s.data[k].state
  /\ t.net[s.data[j].query].at = "none"
  /\ \A q \in Queries : q # s.data[j].query => t.net[q] = s.net[q]
  /\ t.finished = s.finished \cup {s.data[j].query}
  /\ t.outbox = Append(s.outbox, "result")

LEMMA FinishEnds ==
  ASSUME NEW s, NEW last, Sound(s, last), NEW j \in 1..Len(s.data),
         NEW t, t = DoFinish(s, j - 1)
  PROVE  Ended(s, t, j)
<1> DEFINE q == s.data[j].query
           e == SetState(s.data, j, "Finish")
           r == [s.net[q] EXCEPT !.at = "none"]
           n == [s.net EXCEPT ![q] = r]
           f == s.finished \cup {q}
           o == Append(s.outbox, "result")
<1>1. /\ s \in States /\ s.data \in Seq(Entry) /\ Len(s.data) \in Nat /\ q \in Queries
  BY LastNumber DEF Sound, Entry
<1>2. t = [s EXCEPT !.data = e, !.net = n, !.finished = f, !.outbox = o]
  <2>1. (j - 1) + 1 = j
    OBVIOUS
  <2> QED
    BY <2>1, <1>1 DEF DoFinish, At, States, SetState
<1>3. /\ e \in Seq(Entry) /\ Len(e) = Len(s.data)
      /\ \A k \in 1..Len(s.data) :
           /\ e[k].state = IF k = j THEN "Finish" ELSE s.data[k].state
           /\ e[k].query = s.data[k].query /\ e[k].generation = s.data[k].generation
  BY <1>1, StateSet
<1>4. /\ n \in [Queries -> NetEntry] /\ n[q].at = "none"
      /\ \A p \in Queries : p # q => n[p] = s.net[p]
  <2>1. s.net \in [Queries -> NetEntry]
    BY <1>1 DEF States
  <2>2. s.net[q] \in NetEntry
    BY <2>1, <1>1
  <2>3. r \in NetEntry /\ r.at = "none"
    BY <2>2 DEF NetEntry
  <2> HIDE DEF r, q
  <2> QED
    BY <2>1, <2>3, <1>1
<1>5. f \in SUBSET Queries
  BY <1>1 DEF States
<1>6. o \in Seq({"result", "ready"})
  BY <1>1, AppendProperties DEF States
<1>7. f = s.finished \cup {s.data[j].query} /\ o = Append(s.outbox, "result")
  OBVIOUS
<1> HIDE DEF e, n, f, o
<1>8. t \in States
  BY <1>1, <1>2, <1>3, <1>4, <1>5, <1>6 DEF States
<1>9. /\ t.data = e /\ t.net = n /\ t.finished = f /\ t.outbox = o
      /\ t.id_offset = s.id_offset /\ t.finish_i = s.finish_i /\ t.next_i = s.next_i
      /\ t.last_sent_i = s.last_sent_i /\ t.generation = s.generation
      /\ t.wait_cnt = s.wait_cnt
  BY <1>1, <1>2 DEF States
<1>10. SameShape(s, t) /\ SameIndices(s, t)
  BY <1>3, <1>8, <1>9 DEF SameShape, SameIndices
<1> QED
  BY <1>3, <1>4, <1>7, <1>9, <1>10 DEF Ended

LEMMA DoFinishKeeps ==
  ASSUME NEW s, NEW last, Sound(s, last), NEW j \in 1..Len(s.data), Dummies(s) = {j},
         NEW t, t = DoFinish(s, j - 1)
  PROVE  /\ Sound(t, last) /\ Dummies(t) = {}
         /\ s.data[j].query \in (1..last) \ s.finished
         /\ t.finished = s.finished \cup {s.data[j].query}
         /\ t.outbox = Append(s.outbox, "result")
<1>1. Ended(s, t, j)
  BY FinishEnds
<1>2. /\ Len(s.data) \in Nat /\ Len(t.data) = Len(s.data) /\ t.id_offset = s.id_offset
      /\ t.finish_i = s.finish_i /\ t.next_i = s.next_i
      /\ t.last_sent_i = s.last_sent_i /\ t.generation = s.generation
      /\ \A k \in 1..Len(s.data) :
           /\ t.data[k].query = s.data[k].query
           /\ t.data[k].generation = s.data[k].generation
           /\ t.data[k].state = IF k = j THEN "Finish" ELSE s.data[k].state
      /\ s.data[j].state = "Dummy"
  BY <1>1, LastNumber DEF Ended, SameShape, SameIndices, Dummies
<1>3. t \in States /\ last \in Nat /\ Numbered(t, last)
  BY <1>1, ShapeKept DEF Ended
<1>4. /\ s.next_i \in Nat /\ s.next_i <= Len(s.data) /\ s.finish_i \in Nat
      /\ s.finish_i <= s.next_i
  BY DEF Sound, Indexed, States
<1>5. /\ \A k \in 1..Len(s.data) : s.data[k].query \in Queries
      /\ \A k \in 1..Len(s.data) : k # j => s.data[k].query # s.data[j].query
  BY LastNumber DEF Entry
<1>6. Indexed(t)
  <2>1. \A k \in 1..s.finish_i : k \in 1..Len(s.data)
    BY <1>2, <1>4
  <2> QED
    BY <2>1, <1>2, SMTT(30) DEF Sound, Indexed
<1>7. CurrentChain(t)
  <2>1. \A k \in 1..s.next_i : k \in 1..Len(s.data)
    BY <1>2, <1>4
  <2> QED
    BY <2>1, <1>2, SMTT(30) DEF Sound, CurrentChain, Pending
<1>8. Tokens(t)
  <2>1. ASSUME NEW q \in Queries, t.net[q].at # "none"
        PROVE  \E k \in 1..Len(t.data) : /\ t.data[k].query = q /\ Pending(t, k)
                                          /\ t.net[q].token = k - 1 + t.id_offset
    <3>1. q # s.data[j].query /\ t.net[q] = s.net[q]
      BY <2>1, <1>1 DEF Ended
    <3>2. PICK k \in 1..Len(s.data) : /\ s.data[k].query = q /\ Pending(s, k)
                                      /\ s.net[q].token = k - 1 + s.id_offset
      BY <3>1, <2>1 DEF Sound, Tokens
    <3>3. t.data[k].query = q /\ Pending(t, k) /\ t.net[q].token = k - 1 + t.id_offset
      BY <3>1, <3>2, <1>2 DEF Pending
    <3> QED
      BY <3>3, <1>2
  <2>2. ASSUME NEW k \in 1..Len(t.data), Pending(t, k)
        PROVE  t.net[t.data[k].query].at # "none"
    <3>1. k # j /\ k \in 1..Len(s.data)
      BY <2>2, <1>2 DEF Pending
    <3>2. Pending(s, k)
      BY <3>1, <2>2, <1>2 DEF Pending
    <3>3. s.net[s.data[k].query].at # "none"
      BY <3>1, <3>2, TokenOf
    <3>4. t.net[s.data[k].query] = s.net[s.data[k].query]
      BY <3>1, <1>1, <1>5 DEF Ended
    <3> QED
      BY <3>1, <3>3, <3>4, <1>2
  <2> QED
    BY <2>1, <2>2 DEF Tokens
<1>9. Counted(t)
  <2>1. \A i \in 0..Len(s.data) - 1 : t.data[i + 1].state = "Wait" <=> s.data[i + 1].state = "Wait"
    BY <1>2
  <2>2. WaitSet(t) = WaitSet(s)
    BY <2>1, <1>2 DEF WaitSet
  <2> QED
    BY <2>2, <1>1 DEF Sound, Counted, Ended
<1>10. s.data[j].query \in (1..last) \ s.finished
  <2>1. s.data[j].query \notin s.finished
    BY <1>2 DEF Sound, Finishing
  <2>2. s.data[j].query = last - Len(s.data) + j /\ Len(s.data) <= last
    BY DEF Sound, Numbered
  <2>3. Len(s.data) \in Nat /\ last \in Nat
    BY <1>2, <1>3
  <2>4. last - Len(s.data) + j \in 1..last
    BY <2>2, <2>3
  <2> QED
    BY <2>1, <2>2, <2>4
<1>11. Finishing(t, last)
  <2>1. t.finished = s.finished \cup {s.data[j].query}
    BY <1>1 DEF Ended
  <2>2. Finishing(s, last)
    BY DEF Sound
  <2>3. t.finished \subseteq 1..last
    BY <2>1, <2>2, <1>10 DEF Finishing
  <2>4. \A k \in 1..Len(t.data) : t.data[k].query \in t.finished <=> t.data[k].state = "Finish"
    BY <2>1, <2>2, <1>2, <1>5 DEF Finishing
  <2>5. \A p \in 1..last - Len(t.data) : p \in t.finished
    BY <2>1, <2>2, <1>2 DEF Finishing
  <2> QED
    BY <2>3, <2>4, <2>5 DEF Finishing
<1>12. Dummies(t) = {}
  <2>1. \A k \in 1..Len(s.data) : k # j => s.data[k].state # "Dummy"
    BY DEF Dummies
  <2>2. \A k \in 1..Len(s.data) : t.data[k].state # "Dummy"
    BY <2>1, <1>2
  <2> QED
    BY <2>2, <1>2 DEF Dummies
<1> QED
  BY <1>1, <1>3, <1>6, <1>7, <1>8, <1>9, <1>10, <1>11, <1>12 DEF Sound, Ended

LEMMA DoFinishChained ==
  ASSUME NEW s, NEW last, Sound(s, last), NEW j \in 1..Len(s.data), Dummies(s) = {j},
         Returned(s.net[s.data[j].query]), NEW t, t = DoFinish(s, j - 1),
         NEW M, NEW C, Chained(s, M, C)
  PROVE  Chained(t, M, C)
<1>1. Ended(s, t, j)
  BY FinishEnds
<1>2. /\ t.next_i = s.next_i /\ t.last_sent_i = s.last_sent_i
      /\ \A k \in 1..Len(s.data) :
           /\ t.data[k].query = s.data[k].query
           /\ t.data[k].state = IF k = j THEN "Finish" ELSE s.data[k].state
           /\ k # j => t.net[s.data[k].query] = s.net[s.data[k].query]
      /\ s.data[j].state = "Dummy" /\ Len(s.data) \in Nat
      /\ s.next_i \in Nat /\ s.next_i <= Len(s.data)
      /\ s.last_sent_i < s.next_i /\ s.last_sent_i \in Nat \cup {-1}
  <2>1. \A k \in 1..Len(s.data) : k # j => t.net[s.data[k].query] = s.net[s.data[k].query]
    <3>1. /\ \A k \in 1..Len(s.data) : s.data[k].query \in Queries
          /\ \A k \in 1..Len(s.data) : k # j => s.data[k].query # s.data[j].query
      BY LastNumber DEF Entry
    <3> QED
      BY <3>1, <1>1 DEF Ended
  <2>2. /\ s.next_i \in Nat /\ s.next_i <= Len(s.data)
        /\ s.last_sent_i < s.next_i /\ s.last_sent_i \in Nat \cup {-1}
    BY DEF Sound, Indexed, States, NoIndex
  <2> QED
    BY <2>1, <2>2, <1>1, LastNumber DEF Ended, SameShape, SameIndices, Dummies
<1>3. \A q : /\ Passed(q, s.finished, M, C) => Passed(q, t.finished, M, C)
             /\ \A a : MayFollow(q, a, s.finished, M, C) => MayFollow(q, a, t.finished, M, C)
  <2>1. s.finished \subseteq t.finished
    BY <1>1 DEF Ended
  <2> QED
    BY <2>1, Settled
<1>4. /\ \A k \in 1..s.next_i : k \in 1..Len(s.data)
      /\ \A k \in s.last_sent_i + 2 .. s.next_i : k \in 1..s.next_i
      /\ s.last_sent_i # NoIndex => s.last_sent_i + 1 \in 1..s.next_i
  BY <1>2 DEF NoIndex
<1>5. LastSent(s, M, C)
  BY DEF Chained
<1>6. LastSent(t, M, C)
  <2>1. \A k \in t.last_sent_i + 2 .. t.next_i : t.data[k].state = "Finish"
    BY <1>2, <1>4, <1>5 DEF LastSent
  <2>2. ASSUME t.last_sent_i # NoIndex, t.data[t.last_sent_i + 1].state = "Finish"
        PROVE  Passed(t.data[t.last_sent_i + 1].query, t.finished, M, C)
    <3> DEFINE l == s.last_sent_i + 1
    <3>1. l \in 1..s.next_i /\ l \in 1..Len(s.data) /\ t.last_sent_i + 1 = l
      BY <2>2, <1>2, <1>4
    <3>2. CASE l = j
      <4>1. Pending(s, l) /\ Returned(s.net[s.data[l].query])
        BY <3>2, <1>2 DEF Pending
      <4>2. Passed(s.data[l].query, s.finished, M, C)
        BY <4>1, <3>1, <1>5 DEF LastSent
      <4> QED
        BY <4>2, <3>1, <1>2, <1>3
    <3>3. CASE l # j
      <4>1. Passed(s.data[l].query, s.finished, M, C)
        BY <3>1, <3>3, <2>2, <1>2, <1>5 DEF LastSent
      <4> QED
        BY <4>1, <3>1, <1>2, <1>3
    <3> QED
      BY <3>2, <3>3
  <2>3. ASSUME NEW k \in 1..t.next_i, Pending(t, k), Returned(t.net[t.data[k].query])
        PROVE  Passed(t.data[k].query, t.finished, M, C)
    <3>1. k \in 1..s.next_i /\ k \in 1..Len(s.data) /\ k # j
      BY <2>3, <1>2, <1>4 DEF Pending
    <3>2. Pending(s, k) /\ Returned(s.net[s.data[k].query])
      BY <3>1, <2>3, <1>2 DEF Pending
    <3> QED
      BY <3>1, <3>2, <1>2, <1>3, <1>5 DEF LastSent
  <2> QED
    BY <2>1, <2>2, <2>3 DEF LastSent
<1>7. Following(t, M, C)
  <2>1. \A q \in Queries : t.net[q] = s.net[q] \/ t.net[q].at = "none"
    BY <1>1 DEF Ended
  <2> QED
    BY <2>1, <1>3 DEF Chained, Following, InNetwork
<1> QED
  BY <1>6, <1>7 DEF Chained
-----------------------------------------------------------------------------
(* loop() *)
LEMMA LeastIs ==
  ASSUME NEW S \in SUBSET Nat, S # {}
  PROVE  Min(S) \in S /\ \A x \in S : Min(S) <= x
  BY LeastNat DEF Min

LEMMA GreatestIs ==
  ASSUME NEW S \in SUBSET Nat, S # {}, NEW n \in Nat, \A x \in S : x <= n
  PROVE  Max(S) \in S /\ \A x \in S : x <= Max(S)
<1>1. PICK m \in S : \A x \in S : x <= m
  BY GreatestNat
<1>2. \A x \in S : m >= x
  BY <1>1
<1>3. Max(S) \in S /\ \A x \in S : Max(S) >= x
  BY <1>2 DEF Max
<1> QED
  BY <1>3

LEMMA AdvanceFields ==
  ASSUME NEW s, NEW last, Sound(s, last), NEW t, t = Advance(s)
  PROVE  /\ t \in States /\ SameShape(s, t) /\ SameResults(s, t)
         /\ t.data = s.data /\ t.net = s.net /\ t.wait_cnt = s.wait_cnt
         /\ t.generation = s.generation /\ t.last_sent_i = s.last_sent_i
         /\ t.finish_i \in s.finish_i .. Len(s.data)
         /\ \A k \in 1..t.finish_i : s.data[k].state = "Finish"
         /\ \/ t.next_i = s.next_i /\ t.finish_i <= t.next_i
            \/ t.next_i = t.finish_i /\ s.next_i < t.finish_i
<1> DEFINE S == { i \in s.finish_i .. Size(s) : i = Size(s) \/ At(s, i).state # "Finish" }
           f == Min(S)
           x == IF s.next_i < f THEN f ELSE s.next_i
<1>1. /\ s \in States /\ Len(s.data) \in Nat /\ s.finish_i \in Nat /\ s.next_i \in Nat
      /\ s.finish_i <= s.next_i /\ s.next_i <= Len(s.data)
      /\ \A k \in 1..s.finish_i : s.data[k].state = "Finish"
  BY LastNumber DEF Sound, Indexed, States
<1>2. Size(s) = Len(s.data)
  BY DEF Size
<1>3. S \in SUBSET Nat /\ Len(s.data) \in S
  BY <1>1, <1>2
<1>4. f \in S /\ \A i \in S : f <= i
  BY <1>3, LeastIs
<1>5. t = [s EXCEPT !.finish_i = f, !.next_i = x]
  BY DEF Advance
<1>6. f \in s.finish_i .. Len(s.data)
  BY <1>2, <1>4
<1>7. ASSUME NEW k \in 1..f
      PROVE  s.data[k].state = "Finish"
  <2>1. CASE k <= s.finish_i
    BY <2>1, <1>1, <1>6
  <2>2. CASE k > s.finish_i
    <3>1. k - 1 \in s.finish_i .. Size(s) /\ k - 1 < f /\ (k - 1) + 1 = k /\ k - 1 # Size(s)
      <4>1. f \in Nat /\ f <= Len(s.data) /\ k \in 1..f
        BY <1>1, <1>6
      <4> HIDE DEF f, S
      <4> QED
        BY <4>1, <2>2, <1>1, <1>2
    <3>2. k - 1 \notin S
      BY <3>1, <1>1, <1>4, <1>6
    <3>3. At(s, k - 1).state = "Finish"
      BY <3>1, <3>2
    <3> QED
      BY <3>1, <3>3 DEF At
  <2> QED
    BY <2>1, <2>2, <1>1, <1>6
<1> HIDE DEF f, S
<1>8. x \in Nat /\ f \in Nat /\ ((x = s.next_i /\ f <= x) \/ (x = f /\ s.next_i < f))
  <2>1. f \in Nat
    BY <1>1, <1>6
  <2>2. CASE s.next_i < f
    BY <2>1, <2>2, <1>1
  <2>3. CASE ~(s.next_i < f)
    <3>1. s.next_i \in Nat
      BY <1>1
    <3>2. x = s.next_i
      BY <2>3
    <3>3. f <= s.next_i
      BY <3>1, <2>1, <2>3
    <3> HIDE DEF x
    <3>4. f <= x
      BY <3>2, <3>3
    <3> QED
      BY <3>1, <3>2, <3>4, <2>1
  <2> QED
    BY <2>2, <2>3
<1> HIDE DEF x
<1>9. t \in States
  BY <1>1, <1>5, <1>8 DEF States
<1>10. /\ t.data = s.data /\ t.net = s.net /\ t.wait_cnt = s.wait_cnt
       /\ t.generation = s.generation /\ t.last_sent_i = s.last_sent_i
       /\ t.finish_i = f /\ t.next_i = x /\ t.id_offset = s.id_offset
       /\ t.outbox = s.outbox /\ t.finished = s.finished
  BY <1>1, <1>5 DEF States
<1> QED
  BY <1>6, <1>7, <1>8, <1>9, <1>10 DEF SameShape, SameResults

LEMMA AdvanceKeeps ==
  ASSUME NEW s, NEW last, Sound(s, last), Dummies(s) = {}, NEW t, t = Advance(s)
  PROVE  Sound(t, last) /\ Dummies(t) = {} /\ SameResults(s, t)
<1>1. /\ t \in States /\ SameShape(s, t) /\ SameResults(s, t)
      /\ t.data = s.data /\ t.net = s.net /\ t.wait_cnt = s.wait_cnt
      /\ t.generation = s.generation /\ t.last_sent_i = s.last_sent_i
      /\ t.finish_i \in s.finish_i .. Len(s.data)
      /\ \A k \in 1..t.finish_i : s.data[k].state = "Finish"
      /\ \/ t.next_i = s.next_i /\ t.finish_i <= t.next_i
         \/ t.next_i = t.finish_i /\ s.next_i < t.finish_i
      /\ t.id_offset = s.id_offset /\ t.finished = s.finished
  BY AdvanceFields DEF SameShape, SameResults
<1>2. /\ Len(s.data) \in Nat /\ s.finish_i \in Nat /\ s.next_i \in Nat
      /\ s.next_i <= Len(s.data) /\ s.last_sent_i < s.next_i
      /\ s.last_sent_i \in Nat \cup {-1}
  BY LastNumber DEF Sound, Indexed, States, NoIndex
<1>3. Numbered(t, last) /\ last \in Nat
  BY <1>1, ShapeKept
<1>4. Indexed(t)
  BY <1>1, <1>2 DEF Indexed
<1>5. CurrentChain(t)
  BY <1>1 DEF Sound, CurrentChain, Pending
<1>6. Tokens(t) /\ Counted(t) /\ Finishing(t, last) /\ Dummies(t) = {}
  <2>1. /\ t.data = s.data /\ t.net = s.net /\ t.wait_cnt = s.wait_cnt
        /\ t.id_offset = s.id_offset /\ t.finished = s.finished
    BY <1>1
  <2>2. Tokens(t)
    BY <2>1 DEF Sound, Tokens, Pending
  <2>3. Counted(t)
    BY <2>1 DEF Sound, Counted, WaitSet
  <2>4. Finishing(t, last) /\ Dummies(t) = {}
    BY <2>1 DEF Sound, Finishing, Dummies
  <2> QED
    BY <2>2, <2>3, <2>4
<1> QED
  BY <1>1, <1>3, <1>4, <1>5, <1>6 DEF Sound

LEMMA AdvanceChained ==
  ASSUME NEW s, NEW last, Sound(s, last), NEW t, t = Advance(s), NEW M, NEW C, Chained(s, M, C)
  PROVE  Chained(t, M, C)
<1>1. /\ SameResults(s, t) /\ t.data = s.data /\ t.net = s.net
      /\ t.last_sent_i = s.last_sent_i
      /\ \A k \in 1..t.finish_i : s.data[k].state = "Finish"
      /\ \/ t.next_i = s.next_i
         \/ t.next_i = t.finish_i /\ s.next_i < t.finish_i
      /\ t.finished = s.finished
  BY AdvanceFields DEF SameResults
<1>2. /\ s.last_sent_i \in Nat \cup {-1} /\ t.next_i \in Nat /\ s.next_i \in Nat
      /\ s.last_sent_i < s.next_i
  <2>1. s \in States /\ Indexed(s)
    BY DEF Sound
  <2>2. t \in States
    BY AdvanceFields
  <2>3. t.next_i \in Nat
    BY <2>2 DEF States
  <2>4. s.last_sent_i \in Nat \cup {-1} /\ s.next_i \in Nat
    BY <2>1 DEF States, NoIndex
  <2> QED
    BY <2>1, <2>3, <2>4 DEF Indexed
<1>3. LastSent(t, M, C)
  <2>1. CASE t.next_i = s.next_i
    BY <2>1, <1>1 DEF Chained, LastSent, Pending
  <2>2. CASE t.next_i = t.finish_i
    <3>1. \A k \in t.last_sent_i + 2 .. t.next_i : k \in 1..t.finish_i
      BY <2>2, <1>1, <1>2
    <3>2. \A k \in 1..t.next_i : ~Pending(t, k)
      BY <2>2, <1>1 DEF Pending
    <3> QED
      BY <3>1, <3>2, <1>1 DEF Chained, LastSent
  <2> QED
    BY <2>1, <2>2, <1>1
<1>4. Following(t, M, C)
  BY <1>1 DEF Chained, Following
<1> QED
  BY <1>3, <1>4 DEF Chained
-----------------------------------------------------------------------------
(* The second loop: the queries at the positions L are sent, e is where it *)
(* stops.                                                                  *)
Sent(s, t, L, e) ==
  /\ SameShape(s, t) /\ SameResults(s, t)
  /\ t.finish_i = s.finish_i /\ t.generation = s.generation
  /\ e \in s.next_i .. Len(s.data) /\ t.next_i = e
  /\ L = { i \in 0..Len(s.data) - 1 : s.next_i <= i /\ i < e /\ s.data[i + 1].state = "Start" }
  /\ \A k \in s.next_i + 1 .. e : s.data[k].state # "Wait"
  /\ \A k \in 1..Len(s.data) :
       /\ t.data[k].generation = IF k - 1 \in L THEN s.generation ELSE s.data[k].generation
       /\ t.data[k].state = IF k - 1 \in L THEN "Wait" ELSE s.data[k].state
  /\ \A q \in Queries :
       \/ /\ \A i \in L : s.data[i + 1].query # q
          /\ t.net[q] = s.net[q]
       \/ \E i \in L : /\ s.data[i + 1].query = q
                       /\ t.net[q].at = "session" /\ t.net[q].token = i + s.id_offset
                       /\ t.net[q].after = InvokeAfter(s, L, i)
  /\ t.wait_cnt = s.wait_cnt + Cardinality(L)
  /\ t.last_sent_i = IF L = {} THEN s.last_sent_i ELSE Max(L)

LEMMA SetSent ==
  ASSUME NEW e \in Entry, NEW f, NEW g \in Nat,
         f = [e EXCEPT !.state = "Wait", !.generation = g]
  PROVE  f \in Entry /\ f.generation = g /\ f.query = e.query /\ f.state = "Wait"
  BY DEF Entry

LEMMA SendEndIs ==
  ASSUME NEW s, NEW last, Sound(s, last)
  PROVE  /\ SendEnd(s) \in s.next_i .. Len(s.data)
         /\ \A k \in s.next_i + 1 .. SendEnd(s) : s.data[k].state # "Wait"
<1> DEFINE S == { k \in s.next_i .. Size(s) :
                    \/ k = Size(s)
                    \/ At(s, k).state = "Wait"
                    \/ s.wait_cnt + Cardinality({ j \in InState(s, "Start") :
                                                    s.next_i <= j /\ j < k }) >= MaxWait }
<1>1. /\ Len(s.data) \in Nat /\ s.next_i \in Nat /\ s.next_i <= Len(s.data)
      /\ Size(s) = Len(s.data)
  BY LastNumber DEF Sound, Indexed, States, Size
<1>2. S \in SUBSET Nat /\ Len(s.data) \in S
  BY <1>1
<1>3. PICK e : e = SendEnd(s)
  OBVIOUS
<1>4. e \in S /\ \A i \in S : e <= i
  <2>1. e = Min(S)
    BY <1>3 DEF SendEnd
  <2> HIDE DEF S
  <2> QED
    BY <2>1, <1>2, LeastIs
<1>5. e \in s.next_i .. Len(s.data) /\ e \in Nat
  BY <1>1, <1>4
<1>6. ASSUME NEW k \in s.next_i + 1 .. e, s.data[k].state = "Wait"
      PROVE  FALSE
  <2>1. k - 1 \in s.next_i .. Len(s.data) /\ k - 1 < e /\ (k - 1) + 1 = k
    BY <1>1, <1>5
  <2>2. At(s, k - 1).state = "Wait"
    BY <2>1, <1>6 DEF At
  <2>3. k - 1 \in S
    BY <2>1, <2>2, <1>1
  <2> HIDE DEF S
  <2>4. e <= k - 1
    BY <2>3, <1>4
  <2> QED
    BY <2>1, <2>4, <1>5
<1> QED
  BY <1>3, <1>5, <1>6

LEMMA InvokeAfterType ==
  ASSUME NEW s, NEW last, Sound(s, last), NEW L, L \subseteq 0..Len(s.data) - 1, NEW i \in L
  PROVE  InvokeAfter(s, L, i) \in Queries \cup {NoQuery}
<1> DEFINE B == { b \in L : b < i }
<1>1. /\ Len(s.data) \in Nat /\ \A k \in 1..Len(s.data) : s.data[k].query \in Queries
      /\ s.next_i \in Nat /\ s.next_i <= Len(s.data) /\ s.last_sent_i < s.next_i
      /\ s.last_sent_i \in Nat \cup {-1}
  BY LastNumber DEF Entry, Sound, Indexed, States, NoIndex
<1>2. \A b \in L : b \in Nat /\ b <= Len(s.data) /\ b + 1 \in 1..Len(s.data)
  BY <1>1
<1>3. CASE B # {}
  <2>1. B \in SUBSET Nat /\ \A b \in B : b <= Len(s.data)
    BY <1>2
  <2>2. Max(B) \in B
    <3> HIDE DEF B
    <3> QED
      BY <2>1, <1>1, <1>3, GreatestIs
  <2>3. InvokeAfter(s, L, i) = s.data[Max(B) + 1].query
    BY <1>3 DEF InvokeAfter, At
  <2> QED
    BY <2>2, <2>3, <1>1, <1>2
<1>4. CASE B = {}
  <2>1. s.last_sent_i # NoIndex => s.last_sent_i + 1 \in 1..Len(s.data)
    BY <1>1 DEF NoIndex
  <2> QED
    BY <2>1, <1>1, <1>4 DEF InvokeAfter, At
<1> QED
  BY <1>3, <1>4

LEMMA QueriesSent ==
  ASSUME NEW s, NEW last, Sound(s, last), NEW t, t = SendQueries(s)
  PROVE  \E L, e : Sent(s, t, L, e)
<1>1. PICK e : e = SendEnd(s)
  OBVIOUS
<1> DEFINE L == { j \in InState(s, "Start") : s.next_i <= j /\ j < e }
           Of(q) == CHOOSE j \in L : At(s, j).query = q
           D == [j \in 1..Size(s) |->
                   IF j - 1 \in L
                     THEN [s.data[j] EXCEPT !.state = "Wait", !.generation = s.generation]
                     ELSE s.data[j]]
           N == [q \in Queries |->
                   IF \E j \in L : At(s, j).query = q
                     THEN [Nowhere EXCEPT !.at = "session", !.token = Of(q) + s.id_offset,
                                          !.after = InvokeAfter(s, L, Of(q))]
                     ELSE s.net[q]]
           w == s.wait_cnt + Cardinality(L)
           l == IF L = {} THEN s.last_sent_i ELSE Max(L)
<1>2. t = [s EXCEPT !.data = D, !.net = N, !.wait_cnt = w, !.next_i = e, !.last_sent_i = l]
  BY <1>1 DEF SendQueries
<1>3. /\ s \in States /\ s.data \in Seq(Entry) /\ Len(s.data) \in Nat
      /\ \A k \in 1..Len(s.data) : s.data[k] \in Entry
      /\ \A i, j \in 1..Len(s.data) : s.data[i].query = s.data[j].query => i = j
  BY LastNumber DEF Sound
<1>4. /\ s.net \in [Queries -> NetEntry] /\ s.id_offset \in Nat /\ s.wait_cnt \in Int
      /\ s.next_i \in Nat /\ s.last_sent_i \in Nat \cup {NoIndex} /\ s.generation \in Nat
  BY <1>3 DEF States
<1>5. e \in s.next_i .. Len(s.data) /\ \A k \in s.next_i + 1 .. e : s.data[k].state # "Wait"
  BY <1>1, SendEndIs
<1>6. L = { i \in 0..Len(s.data) - 1 : s.next_i <= i /\ i < e /\ s.data[i + 1].state = "Start" }
  BY DEF InState, Positions, Size, At
<1> HIDE DEF L
<1>7. /\ L \subseteq 0..Len(s.data) - 1
      /\ \A i \in L : i \in Nat /\ i + 1 \in 1..Len(s.data) /\ At(s, i) = s.data[i + 1]
  BY <1>3, <1>6 DEF At
<1>8. \A i \in L : Of(At(s, i).query) = i
  <2> SUFFICES ASSUME NEW i \in L
               PROVE  Of(At(s, i).query) = i
    OBVIOUS
  <2> DEFINE k == Of(At(s, i).query)
  <2>1. k \in L /\ At(s, k).query = At(s, i).query
    OBVIOUS
  <2> HIDE DEF k
  <2>2. k + 1 = i + 1
    BY <2>1, <1>3, <1>7
  <2>3. k \in Int /\ i \in Int
    BY <2>1, <1>7
  <2> QED
    BY <2>2, <2>3 DEF k
<1> HIDE DEF Of
<1>9. /\ D \in Seq(Entry) /\ Len(D) = Len(s.data)
      /\ \A k \in 1..Len(s.data) :
           /\ D[k].query = s.data[k].query
           /\ D[k].generation = IF k - 1 \in L THEN s.generation ELSE s.data[k].generation
           /\ D[k].state = IF k - 1 \in L THEN "Wait" ELSE s.data[k].state
  <2>1. Size(s) = Len(s.data)
    BY DEF Size
  <2>2. ASSUME NEW k \in 1..Len(s.data)
        PROVE  /\ D[k] \in Entry /\ D[k].query = s.data[k].query
               /\ D[k].generation = IF k - 1 \in L THEN s.generation ELSE s.data[k].generation
               /\ D[k].state = IF k - 1 \in L THEN "Wait" ELSE s.data[k].state
    <3>1. CASE k - 1 \notin L
      BY <3>1, <2>1, <1>3
    <3>2. CASE k - 1 \in L
      <4>1. D[k] = [s.data[k] EXCEPT !.state = "Wait", !.generation = s.generation]
        BY <3>2, <2>1
      <4> HIDE DEF D
      <4>2. PICK d \in Entry : d = s.data[k]
        BY <1>3
      <4>3. PICK f : f = D[k]
        OBVIOUS
      <4>4. PICK g \in Nat : g = s.generation
        BY <1>4
      <4>5. f = [d EXCEPT !.state = "Wait", !.generation = g]
        BY <4>1, <4>2, <4>3, <4>4
      <4>6. f \in Entry /\ f.generation = g /\ f.query = d.query /\ f.state = "Wait"
        BY <4>5, SetSent
      <4> QED
        BY <3>2, <4>2, <4>3, <4>4, <4>6
    <3> QED
      BY <3>1, <3>2
  <2>3. D \in [1..Len(s.data) -> Entry]
    BY <2>1, <2>2
  <2> HIDE DEF D
  <2>4. D \in Seq(Entry) /\ Len(D) = Len(s.data)
    BY <2>3, <1>3, FunctionIsSeq
  <2> QED
    BY <2>2, <2>4
<1>10. /\ N \in [Queries -> NetEntry]
       /\ \A q \in Queries :
            \/ /\ \A i \in L : s.data[i + 1].query # q
               /\ N[q] = s.net[q]
            \/ \E i \in L : /\ s.data[i + 1].query = q
                            /\ N[q].at = "session" /\ N[q].token = i + s.id_offset
                            /\ N[q].after = InvokeAfter(s, L, i)
  <2>1. ASSUME NEW q \in Queries
        PROVE  /\ N[q] \in NetEntry
               /\ \/ /\ \A i \in L : s.data[i + 1].query # q
                     /\ N[q] = s.net[q]
                  \/ \E i \in L : /\ s.data[i + 1].query = q
                                  /\ N[q].at = "session" /\ N[q].token = i + s.id_offset
                                  /\ N[q].after = InvokeAfter(s, L, i)
    <3>1. CASE \E j \in L : At(s, j).query = q
      <4>1. PICK i \in L : At(s, i).query = q
        BY <3>1
      <4>2. s.data[i + 1].query = q /\ Of(q) = i /\ i + s.id_offset \in Int
        BY <4>1, <1>4, <1>7, <1>8
      <4>3. PICK a \in Queries \cup {NoQuery} : a = InvokeAfter(s, L, i)
        BY <1>7, InvokeAfterType
      <4>4. N[q] = [Nowhere EXCEPT !.at = "session", !.token = i + s.id_offset, !.after = a]
        BY <3>1, <4>2, <4>3
      <4> HIDE DEF N
      <4>5. /\ N[q] \in NetEntry /\ N[q].at = "session" /\ N[q].token = i + s.id_offset
            /\ N[q].after = a
        <5>1. PICK k \in Int : k = i + s.id_offset
          BY <4>2
        <5>2. PICK f : f = N[q]
          OBVIOUS
        <5>3. f = [Nowhere EXCEPT !.at = "session", !.token = k, !.after = a]
          BY <5>1, <5>2, <4>4
        <5>4. f \in NetEntry /\ f.at = "session" /\ f.token = k /\ f.after = a
          <6> HIDE DEF D, w, l
          <6> QED
            BY <5>3 DEF NetEntry, Nowhere
        <5> QED
          BY <5>1, <5>2, <5>4
      <4> QED
        BY <4>2, <4>3, <4>5
    <3>2. CASE ~ \E j \in L : At(s, j).query = q
      BY <3>2, <1>4, <1>7
    <3> QED
      BY <3>1, <3>2
  <2> QED
    BY <2>1
<1>11. w \in Int
  <2>1. L \in SUBSET (0..Len(s.data) - 1) /\ IsFiniteSet(0..Len(s.data) - 1)
    BY <1>3, <1>7, FS_Interval
  <2>2. Cardinality(L) \in Nat
    BY <2>1, FS_Subset, FS_CardinalityType
  <2> QED
    BY <2>2, <1>4
<1>12. l \in Nat \cup {NoIndex}
  <2>1. CASE L # {}
    <3>1. L \in SUBSET Nat /\ \A i \in L : i <= Len(s.data)
      BY <1>3, <1>7
    <3>2. Max(L) \in L
      BY <3>1, <2>1, <1>3, GreatestIs
    <3> QED
      BY <3>1, <3>2, <2>1
  <2>2. CASE L = {}
    BY <2>2, <1>4
  <2> QED
    BY <2>1, <2>2
<1>13. w = s.wait_cnt + Cardinality(L) /\ l = IF L = {} THEN s.last_sent_i ELSE Max(L)
  OBVIOUS
<1> HIDE DEF D, N, w, l
<1>14. /\ t \in States /\ t.data = D /\ t.wait_cnt = w /\ t.net = N /\ t.next_i = e
       /\ t.last_sent_i = l
       /\ t.id_offset = s.id_offset /\ t.finish_i = s.finish_i
       /\ t.generation = s.generation /\ t.outbox = s.outbox /\ t.finished = s.finished
  <2>1. D \in Seq(Entry) /\ N \in [Queries -> NetEntry] /\ e \in Nat /\ s \in States
    BY <1>3, <1>4, <1>5, <1>9, <1>10
  <2>2. t \in States
    BY <2>1, <1>2, <1>11, <1>12 DEF States
  <2> QED
    BY <2>1, <2>2, <1>2 DEF States
<1>15. SameShape(s, t) /\ SameResults(s, t)
  BY <1>9, <1>14 DEF SameShape, SameResults
<1>16. \A k \in 1..Len(s.data) :
         /\ t.data[k].generation = IF k - 1 \in L THEN s.generation ELSE s.data[k].generation
         /\ t.data[k].state = IF k - 1 \in L THEN "Wait" ELSE s.data[k].state
  BY <1>9, <1>14
<1>17. /\ t.wait_cnt = s.wait_cnt + Cardinality(L)
       /\ t.last_sent_i = IF L = {} THEN s.last_sent_i ELSE Max(L)
       /\ t.finish_i = s.finish_i /\ t.generation = s.generation /\ t.next_i = e
  BY <1>13, <1>14
<1>18. \A q \in Queries :
         \/ /\ \A i \in L : s.data[i + 1].query # q
            /\ t.net[q] = s.net[q]
         \/ \E i \in L : /\ s.data[i + 1].query = q
                         /\ t.net[q].at = "session" /\ t.net[q].token = i + s.id_offset
                         /\ t.net[q].after = InvokeAfter(s, L, i)
  BY <1>10, <1>14
<1>19. Sent(s, t, L, e)
  BY <1>5, <1>6, <1>15, <1>16, <1>17, <1>18, Zenon DEF Sent
<1> QED
  BY <1>19

LEMMA SentFacts ==
  ASSUME NEW s, NEW last, Sound(s, last), Dummies(s) = {}, NEW t, NEW L, NEW e, Sent(s, t, L, e)
  PROVE  /\ Len(s.data) \in Nat /\ Len(t.data) = Len(s.data) /\ t.id_offset = s.id_offset
         /\ t.next_i = e /\ t.finish_i = s.finish_i /\ t.finished = s.finished
         /\ t.generation = s.generation
         /\ s.next_i \in Nat /\ e \in Nat /\ s.next_i <= e /\ e <= Len(s.data)
         /\ s.finish_i \in Nat /\ s.finish_i <= s.next_i
         /\ \A k \in 1..Len(s.data) :
              /\ t.data[k].query = s.data[k].query /\ s.data[k].query \in Queries
              /\ k - 1 \notin L => /\ t.data[k].state = s.data[k].state
                                   /\ t.data[k].generation = s.data[k].generation
              /\ k - 1 \in L => /\ t.data[k].state = "Wait" /\ s.data[k].state = "Start"
                                /\ t.data[k].generation = s.generation
                                /\ t.net[s.data[k].query].at = "session"
                                /\ t.net[s.data[k].query].token = k - 1 + s.id_offset
                                /\ t.net[s.data[k].query].after = InvokeAfter(s, L, k - 1)
              /\ k - 1 \notin L => t.net[s.data[k].query] = s.net[s.data[k].query]
         /\ \A k \in 1..s.next_i : k \in 1..Len(s.data) /\ k - 1 \notin L
         /\ \A k \in s.next_i + 1 .. e : k \in 1..Len(s.data) /\ (k - 1 \notin L => s.data[k].state = "Finish")
<1>1. /\ Len(s.data) \in Nat /\ Len(t.data) = Len(s.data) /\ t.id_offset = s.id_offset
      /\ t.next_i = e /\ t.finish_i = s.finish_i /\ t.finished = s.finished
      /\ t.generation = s.generation
  BY LastNumber DEF Sent, SameShape, SameResults
<1>2. /\ s.next_i \in Nat /\ s.next_i <= Len(s.data) /\ s.finish_i \in Nat
      /\ s.finish_i <= s.next_i
  BY DEF Sound, Indexed, States
<1>3. e \in Nat /\ s.next_i <= e /\ e <= Len(s.data)
  BY <1>1, <1>2 DEF Sent
<1>4. /\ \A k \in 1..Len(s.data) : s.data[k].query \in Queries /\ s.data[k] \in Entry
      /\ \A i, j \in 1..Len(s.data) : s.data[i].query = s.data[j].query => i = j
  BY LastNumber DEF Entry
<1>5. L = { i \in 0..Len(s.data) - 1 : s.next_i <= i /\ i < e /\ s.data[i + 1].state = "Start" }
  BY DEF Sent
<1>6. \A k \in 1..Len(s.data) : k - 1 \in L <=> s.next_i < k /\ k <= e /\ s.data[k].state = "Start"
  <2>1. ASSUME NEW k \in 1..Len(s.data)
        PROVE  k - 1 \in L <=> s.next_i < k /\ k <= e /\ s.data[k].state = "Start"
    <3>1. /\ (k - 1) + 1 = k /\ k - 1 \in 0..Len(s.data) - 1
          /\ (s.next_i <= k - 1 <=> s.next_i < k) /\ (k - 1 < e <=> k <= e)
      BY <1>1, <1>2, <1>3
    <3> QED
      BY <3>1, <1>5
  <2> QED
    BY <2>1
<1>7. ASSUME NEW k \in 1..Len(s.data)
      PROVE  /\ t.data[k].query = s.data[k].query /\ s.data[k].query \in Queries
             /\ k - 1 \notin L => /\ t.data[k].state = s.data[k].state
                                  /\ t.data[k].generation = s.data[k].generation
             /\ k - 1 \in L => /\ t.data[k].state = "Wait" /\ s.data[k].state = "Start"
                               /\ t.data[k].generation = s.generation
                               /\ t.net[s.data[k].query].at = "session"
                               /\ t.net[s.data[k].query].token = k - 1 + s.id_offset
                               /\ t.net[s.data[k].query].after = InvokeAfter(s, L, k - 1)
             /\ k - 1 \notin L => t.net[s.data[k].query] = s.net[s.data[k].query]
  <2>1. t.data[k].query = s.data[k].query /\ s.data[k].query \in Queries
    BY <1>4 DEF Sent, SameShape
  <2>2. /\ t.data[k].generation = IF k - 1 \in L THEN s.generation ELSE s.data[k].generation
        /\ t.data[k].state = IF k - 1 \in L THEN "Wait" ELSE s.data[k].state
    BY DEF Sent
  <2>3. \A i \in L : i + 1 \in 1..Len(s.data) /\ i \in Int
    BY <1>1, <1>5
  <2>4. \A i \in L : s.data[i + 1].query = s.data[k].query => i = k - 1
    BY <2>3, <1>4
  <2>5. PICK q \in Queries : q = s.data[k].query
    BY <2>1
  <2>6. \/ /\ \A i \in L : s.data[i + 1].query # q
           /\ t.net[q] = s.net[q]
        \/ \E i \in L : /\ s.data[i + 1].query = q
                        /\ t.net[q].at = "session" /\ t.net[q].token = i + s.id_offset
                        /\ t.net[q].after = InvokeAfter(s, L, i)
    BY DEF Sent
  <2>7. k = (k - 1) + 1
    OBVIOUS
  <2>8. CASE k - 1 \in L
    <3>1. s.data[k].state = "Start"
      BY <2>8, <1>6
    <3>2. PICK i \in L : /\ s.data[i + 1].query = q
                         /\ t.net[q].at = "session" /\ t.net[q].token = i + s.id_offset
                         /\ t.net[q].after = InvokeAfter(s, L, i)
      BY <2>5, <2>6, <2>7, <2>8
    <3>3. i = k - 1
      BY <3>2, <2>4, <2>5
    <3> QED
      BY <3>1, <3>2, <3>3, <2>1, <2>2, <2>5, <2>8
  <2>9. CASE k - 1 \notin L
    <3>1. t.net[q] = s.net[q]
      BY <2>4, <2>5, <2>6, <2>9
    <3> QED
      BY <3>1, <2>1, <2>2, <2>5, <2>9
  <2> QED
    BY <2>8, <2>9
<1>8. \A k \in 1..s.next_i : k \in 1..Len(s.data) /\ k - 1 \notin L
  BY <1>1, <1>2, <1>6
<1>9. ASSUME NEW k \in s.next_i + 1 .. e
      PROVE  k \in 1..Len(s.data) /\ (k - 1 \notin L => s.data[k].state = "Finish")
  <2>1. k \in 1..Len(s.data) /\ s.next_i < k /\ k <= e
    BY <1>1, <1>2, <1>3
  <2>2. s.data[k].state # "Wait"
    BY DEF Sent
  <2>3. s.data[k].state # "Dummy"
    BY <2>1 DEF Dummies
  <2>4. s.data[k].state \in {"Start", "Wait", "Finish", "Dummy"}
    BY <2>1, <1>4 DEF Entry
  <2> QED
    BY <2>1, <2>2, <2>3, <2>4, <1>6
<1> QED
  BY <1>1, <1>2, <1>3, <1>7, <1>8, <1>9

LEMMA SentLast ==
  ASSUME NEW s, NEW last, Sound(s, last), NEW t, NEW L, NEW e, Sent(s, t, L, e)
  PROVE  \/ L = {} /\ t.last_sent_i = s.last_sent_i
         \/ /\ t.last_sent_i \in L /\ t.last_sent_i \in Nat
            /\ s.next_i <= t.last_sent_i /\ t.last_sent_i < e
            /\ \A i \in L : i <= t.last_sent_i
<1>1. Len(s.data) \in Nat /\ t.last_sent_i = IF L = {} THEN s.last_sent_i ELSE Max(L)
  BY LastNumber DEF Sent
<1>2. \A i \in L : i \in Nat /\ i <= Len(s.data) /\ s.next_i <= i /\ i < e
  BY <1>1 DEF Sent
<1>3. CASE L # {}
  <2>1. Max(L) \in L /\ \A i \in L : i <= Max(L)
    <3>1. L \in SUBSET Nat /\ \A i \in L : i <= Len(s.data)
      BY <1>2
    <3> QED
      BY <3>1, <1>1, <1>3, GreatestIs
  <2> QED
    BY <2>1, <1>1, <1>2, <1>3
<1> QED
  BY <1>1, <1>3

LEMMA SentKeeps ==
  ASSUME NEW s, NEW last, Sound(s, last), Dummies(s) = {}, NEW t, NEW L, NEW e, Sent(s, t, L, e)
  PROVE  Sound(t, last) /\ Dummies(t) = {} /\ SameResults(s, t)
<1>1. /\ Len(s.data) \in Nat /\ Len(t.data) = Len(s.data) /\ t.id_offset = s.id_offset
      /\ t.next_i = e /\ t.finish_i = s.finish_i /\ t.finished = s.finished
      /\ t.generation = s.generation
      /\ s.next_i \in Nat /\ e \in Nat /\ s.next_i <= e /\ e <= Len(s.data)
      /\ s.finish_i \in Nat /\ s.finish_i <= s.next_i
  BY SentFacts
<1>2. \A k \in 1..Len(s.data) :
        /\ t.data[k].query = s.data[k].query /\ s.data[k].query \in Queries
        /\ k - 1 \notin L => /\ t.data[k].state = s.data[k].state
                             /\ t.data[k].generation = s.data[k].generation
        /\ k - 1 \in L => /\ t.data[k].state = "Wait" /\ s.data[k].state = "Start"
                          /\ t.data[k].generation = s.generation
                          /\ t.net[s.data[k].query].at = "session"
                          /\ t.net[s.data[k].query].token = k - 1 + s.id_offset
        /\ k - 1 \notin L => t.net[s.data[k].query] = s.net[s.data[k].query]
  BY SentFacts
<1>3. /\ \A k \in 1..s.next_i : k \in 1..Len(s.data) /\ k - 1 \notin L
      /\ \A k \in s.next_i + 1 .. e :
           k \in 1..Len(s.data) /\ (k - 1 \notin L => s.data[k].state = "Finish")
  BY SentFacts
<1>4. /\ SameShape(s, t) /\ SameResults(s, t) /\ L \subseteq 0..Len(s.data) - 1
      /\ t.wait_cnt = s.wait_cnt + Cardinality(L)
  BY DEF Sent
<1>5. t \in States /\ last \in Nat /\ Numbered(t, last)
  BY <1>4, ShapeKept
<1>6. Indexed(t)
  <2>1. \A k \in 1..s.finish_i : k \in 1..s.next_i
    BY <1>1
  <2>2. \A k \in 1..s.finish_i : t.data[k].state = "Finish"
    BY <2>1, <1>2, <1>3 DEF Sound, Indexed
  <2>3. t.last_sent_i < e
    <3>1. s.last_sent_i < s.next_i /\ s.last_sent_i \in Nat \cup {-1}
      BY DEF Sound, Indexed, States, NoIndex
    <3>2. CASE L = {} /\ t.last_sent_i = s.last_sent_i
      BY <3>1, <3>2, <1>1
    <3> QED
      BY <3>2, SentLast
  <2> QED
    BY <2>2, <2>3, <1>1 DEF Indexed
<1>7. CurrentChain(t)
  <2> SUFFICES ASSUME NEW k \in 1..e
               PROVE  /\ t.data[k].state # "Start"
                      /\ Pending(t, k) => t.data[k].generation = t.generation
    BY <1>1 DEF CurrentChain
  <2>1. CASE k <= s.next_i
    <3>1. k \in 1..s.next_i
      BY <2>1, <1>1
    <3>2. k \in 1..Len(s.data) /\ k - 1 \notin L
      BY <3>1, <1>3
    <3> QED
      BY <3>1, <3>2, <1>1, <1>2 DEF Sound, CurrentChain, Pending
  <2>2. CASE k > s.next_i
    <3>1. k \in s.next_i + 1 .. e
      BY <2>2, <1>1
    <3> QED
      BY <3>1, <1>1, <1>2, <1>3 DEF Pending
  <2> QED
    BY <2>1, <2>2, <1>1
<1>8. Tokens(t)
  <2>1. ASSUME NEW q \in Queries, t.net[q].at # "none"
        PROVE  \E j \in 1..Len(t.data) : /\ t.data[j].query = q /\ Pending(t, j)
                                          /\ t.net[q].token = j - 1 + t.id_offset
    <3>1. CASE \E i \in L : s.data[i + 1].query = q
      <4>1. PICK i \in L : s.data[i + 1].query = q
        BY <3>1
      <4>2. i + 1 \in 1..Len(s.data) /\ (i + 1) - 1 = i
        BY <1>1, <1>4
      <4>3. t.data[i + 1].query = q /\ Pending(t, i + 1) /\ t.net[q].token = (i + 1) - 1 + t.id_offset
        BY <4>1, <4>2, <1>1, <1>2 DEF Pending
      <4> QED
        BY <4>2, <4>3, <1>1
    <3>2. CASE \A i \in L : s.data[i + 1].query # q
      <4>1. t.net[q] = s.net[q]
        BY <3>2, SMTT(30) DEF Sent
      <4>2. PICK j \in 1..Len(s.data) : /\ s.data[j].query = q /\ Pending(s, j)
                                        /\ s.net[q].token = j - 1 + s.id_offset
        BY <4>1, <2>1 DEF Sound, Tokens
      <4>3. j - 1 \notin L
        BY <4>2, <1>2 DEF Pending
      <4>4. t.data[j].query = q /\ Pending(t, j) /\ t.net[q].token = j - 1 + t.id_offset
        BY <4>1, <4>2, <4>3, <1>1, <1>2 DEF Pending
      <4> QED
        BY <4>4, <1>1
    <3> QED
      BY <3>1, <3>2
  <2>2. ASSUME NEW j \in 1..Len(t.data), Pending(t, j)
        PROVE  t.net[t.data[j].query].at # "none"
    <3>1. CASE j - 1 \in L
      BY <3>1, <1>1, <1>2
    <3>2. CASE j - 1 \notin L
      <4>1. Pending(s, j) /\ j \in 1..Len(s.data)
        BY <3>2, <2>2, <1>1, <1>2 DEF Pending
      <4>2. s.net[s.data[j].query].at # "none"
        BY <4>1, TokenOf
      <4> QED
        BY <4>1, <4>2, <3>2, <1>2
    <3> QED
      BY <3>1, <3>2
  <2> QED
    BY <2>1, <2>2 DEF Tokens
<1>9. WaitSet(t) = WaitSet(s) \cup L /\ WaitSet(s) \cap L = {}
  <2>1. ASSUME NEW i \in 0..Len(s.data) - 1
        PROVE  /\ i \in L => t.data[i + 1].state = "Wait" /\ s.data[i + 1].state = "Start"
               /\ i \notin L => t.data[i + 1].state = s.data[i + 1].state
    <3>1. i + 1 \in 1..Len(s.data) /\ (i + 1) - 1 = i
      BY <1>1
    <3> QED
      BY <3>1, <1>2
  <2> QED
    BY <2>1, <1>1, <1>4 DEF WaitSet
<1>10. Counted(t)
  <2>1. Counted(s) /\ s.wait_cnt \in Int
    BY DEF Sound, States
  <2> QED
    BY <2>1, <1>1, <1>4, <1>9, UnionOfWaits
<1>11. Finishing(t, last)
  <2>1. \A k \in 1..Len(s.data) : t.data[k].state = "Finish" <=> s.data[k].state = "Finish"
    BY <1>2
  <2> QED
    BY <2>1, <1>1, <1>2 DEF Sound, Finishing
<1>12. Dummies(t) = {}
  <2>1. \A k \in 1..Len(s.data) : t.data[k].state = "Dummy" => s.data[k].state = "Dummy"
    BY <1>2
  <2> QED
    BY <2>1, <1>1 DEF Dummies
<1> QED
  BY <1>4, <1>5, <1>6, <1>7, <1>8, <1>10, <1>11, <1>12 DEF Sound

LEMMA NumberOf ==
  ASSUME NEW n \in Nat, NEW last \in Nat, NEW j \in Nat, NEW k \in 1..n, n <= last,
         NEW p \in last - n + j + 1 .. last - n + k - 1
  PROVE  /\ p - last + n \in j + 1 .. k - 1 /\ p - last + n \in 1..n
         /\ p = last - n + (p - last + n)
  OBVIOUS

(* If the entries between two are finished, so are the queries between. *)
LEMMA GapFinished ==
  ASSUME NEW s, NEW last, Sound(s, last), NEW j \in 1..Len(s.data), NEW k \in 1..Len(s.data),
         j < k, \A m \in j + 1 .. k - 1 : s.data[m].state = "Finish"
  PROVE  /\ s.data[j].query < s.data[k].query
         /\ \A p \in s.data[j].query + 1 .. s.data[k].query - 1 : p \in s.finished
<1>1. PICK n \in Nat : n = Len(s.data)
  BY LastNumber
<1>2. last \in Nat /\ n <= last
  BY <1>1 DEF Sound, Numbered
<1>3. j \in Nat /\ k \in Nat /\ j \in 1..n /\ k \in 1..n
  BY <1>1
<1>4. PICK a, b : a = last - n + j /\ b = last - n + k
  OBVIOUS
<1>5. s.data[j].query = a /\ s.data[k].query = b
  BY <1>1, <1>4 DEF Sound, Numbered
<1>6. a \in Int /\ b \in Int /\ a < b
  BY <1>2, <1>3, <1>4
<1>7. ASSUME NEW p \in a + 1 .. b - 1
      PROVE  p \in s.finished
  <2>1. PICK m : m = p - last + n
    OBVIOUS
  <2>2. m \in j + 1 .. k - 1 /\ m \in 1..n /\ p = last - n + m
    <3>1. p \in last - n + j + 1 .. last - n + k - 1
      BY <1>2, <1>3, <1>4, <1>6
    <3> QED
      BY <3>1, <2>1, <1>2, <1>3, NumberOf
  <2>3. s.data[m].state = "Finish" /\ s.data[m].query = p
    BY <2>2, <1>1 DEF Sound, Numbered
  <2> QED
    BY <2>2, <2>3, <1>1 DEF Sound, Finishing
<1> QED
  BY <1>5, <1>6, <1>7

LEMMA FrontFinished ==
  ASSUME NEW s, NEW last, Sound(s, last), NEW k \in 1..Len(s.data),
         \A m \in 1 .. k - 1 : s.data[m].state = "Finish"
  PROVE  \A p \in 1 .. s.data[k].query - 1 : p \in s.finished
<1>1. PICK n \in Nat : n = Len(s.data)
  BY LastNumber
<1>2. last \in Nat /\ n <= last
  BY <1>1 DEF Sound, Numbered
<1>3. k \in Nat /\ k \in 1..n /\ 0 \in Nat
  BY <1>1
<1>4. PICK b : b = last - n + k
  OBVIOUS
<1>5. s.data[k].query = b
  BY <1>1, <1>4 DEF Sound, Numbered
<1>6. ASSUME NEW p \in 1 .. b - 1
      PROVE  p \in s.finished
  <2>1. CASE p <= last - n
    <3>1. p \in 1 .. last - n
      BY <2>1, <1>2
    <3> QED
      BY <3>1, <1>1 DEF Sound, Finishing
  <2>2. CASE p > last - n
    <3>1. PICK m : m = p - last + n
      OBVIOUS
    <3>2. m \in 0 + 1 .. k - 1 /\ m \in 1..n /\ p = last - n + m
      <4>1. p \in last - n + 0 + 1 .. last - n + k - 1
        BY <2>2, <1>2, <1>3, <1>4
      <4> QED
        BY <4>1, <3>1, <1>2, <1>3, NumberOf
    <3>3. s.data[m].state = "Finish"
      <4>1. m \in 1 .. k - 1
        BY <3>2
      <4> QED
        BY <4>1
    <3>4. s.data[m].query = p
      BY <3>2, <1>1 DEF Sound, Numbered
    <3> QED
      BY <3>2, <3>3, <3>4, <1>1 DEF Sound, Finishing
  <2> QED
    BY <2>1, <2>2, <1>2
<1> QED
  BY <1>5, <1>6

(* Every query sent follows the one it is invoked after: what lies between *)
(* is finished.                                                            *)
LEMMA SentFollows ==
  ASSUME NEW s, NEW last, Sound(s, last), Dummies(s) = {}, NEW t, NEW L, NEW e,
         Sent(s, t, L, e), NEW M, NEW C, C \subseteq Int, LastSent(s, M, C),
         NEW k \in 1..Len(s.data), k - 1 \in L
  PROVE  MayFollow(s.data[k].query, InvokeAfter(s, L, k - 1), s.finished, M, C)
<1>1. /\ Len(s.data) \in Nat /\ s.next_i \in Nat /\ e \in Nat /\ s.next_i <= e
      /\ e <= Len(s.data)
  BY SentFacts
<1>2. /\ \A m \in 1..s.next_i : m \in 1..Len(s.data) /\ m - 1 \notin L
      /\ \A m \in s.next_i + 1 .. e :
           m \in 1..Len(s.data) /\ (m - 1 \notin L => s.data[m].state = "Finish")
  BY SentFacts
<1>3. L \subseteq 0..Len(s.data) - 1 /\ \A i \in L : s.next_i <= i /\ i < e
  BY DEF Sent
<1>4. s.next_i < k /\ k <= e
  BY <1>1, <1>3
<1>5. s.last_sent_i < s.next_i /\ s.last_sent_i \in Nat \cup {-1}
  BY DEF Sound, Indexed, States, NoIndex
<1>6. /\ \A m \in s.last_sent_i + 2 .. s.next_i : s.data[m].state = "Finish"
      /\ s.last_sent_i # NoIndex /\ s.data[s.last_sent_i + 1].state = "Finish" =>
           Passed(s.data[s.last_sent_i + 1].query, s.finished, M, C)
  BY DEF LastSent
<1> DEFINE B == { i \in L : i < k - 1 }
<1>7. PICK q : q = s.data[k].query
  OBVIOUS
<1>8. q \in Queries /\ q \in Int
  <2>1. q \in Queries
    BY <1>7, LastNumber DEF Entry
  <2> QED
    BY <2>1 DEF Queries
<1>9. ASSUME NEW j \in 1..Len(s.data), j < k, \A m \in j + 1 .. k - 1 : s.data[m].state = "Finish"
      PROVE  MayFollow(q, s.data[j].query, s.finished, M, C)
  <2>1. PICK a : a = s.data[j].query
    OBVIOUS
  <2>2. a \in Queries /\ a # NoQuery
    <3>1. a \in Queries
      BY <2>1, LastNumber DEF Entry
    <3> QED
      BY <3>1 DEF Queries, NoQuery
  <2>3. a < q /\ \A p \in a + 1 .. q - 1 : p \in s.finished
    BY <2>1, <1>7, <1>9, GapFinished
  <2>4. MayFollow(q, a, s.finished, M, C)
    BY <2>2, <2>3 DEF MayFollow, Behind
  <2> QED
    BY <2>1, <2>4
<1>10. ASSUME NEW m \in 1..Len(s.data), m > s.next_i, m < k, m - 1 \notin L
       PROVE  s.data[m].state = "Finish"
  BY <1>10, <1>1, <1>2, <1>4
<1>11. CASE B # {}
  <2>1. PICK b : b = Max(B)
    OBVIOUS
  <2>2. B \in SUBSET Nat /\ \A i \in B : i <= Len(s.data)
    <3>1. \A i \in L : i \in Nat /\ i <= Len(s.data)
      BY <1>1, <1>3
    <3> QED
      BY <3>1
  <2>3. b \in B /\ \A i \in B : i <= b
    <3> HIDE DEF B
    <3> QED
      BY <2>1, <2>2, <1>1, <1>11, GreatestIs
  <2>4. InvokeAfter(s, L, k - 1) = s.data[b + 1].query
    BY <2>1, <1>11 DEF InvokeAfter, At
  <2>5. b \in L /\ b \in Nat /\ b + 1 \in 1..Len(s.data) /\ b + 1 < k /\ s.next_i <= b
    BY <2>3, <1>1, <1>3
  <2>6. ASSUME NEW m \in (b + 1) + 1 .. k - 1
        PROVE  s.data[m].state = "Finish"
    <3>1. m \in 1..Len(s.data) /\ m > s.next_i /\ m < k /\ b < m - 1 /\ m - 1 < k - 1 /\ m \in Int
      BY <2>5, <1>1
    <3>2. m - 1 \notin L
      <4>1. m - 1 \in L => m - 1 \in B
        BY <3>1
      <4>2. m - 1 \in B => m - 1 <= b
        BY <2>3
      <4> HIDE DEF B
      <4> QED
        BY <4>1, <4>2, <3>1, <2>5
    <3> QED
      BY <3>1, <3>2, <1>10
  <2> QED
    BY <2>4, <2>5, <2>6, <1>7, <1>9
<1>12. CASE B = {}
  <2>1. ASSUME NEW m \in 1..Len(s.data), m > s.next_i, m < k
        PROVE  s.data[m].state = "Finish"
    <3>1. m - 1 \notin B /\ m - 1 < k - 1
      BY <2>1, <1>12
    <3> QED
      BY <3>1, <2>1, <1>10
  <2>2. ASSUME NEW m \in s.last_sent_i + 2 .. k - 1
        PROVE  s.data[m].state = "Finish"
    <3>1. m \in 1..Len(s.data) /\ m < k
      BY <1>1, <1>5
    <3>2. CASE m <= s.next_i
      <4>1. m \in s.last_sent_i + 2 .. s.next_i
        BY <3>2, <1>1, <1>5
      <4> QED
        BY <4>1, <1>6
    <3>3. CASE m > s.next_i
      BY <3>1, <3>3, <2>1
    <3> QED
      BY <3>2, <3>3, <1>1, <1>5
  <2>3. CASE s.last_sent_i = NoIndex
    <3>1. InvokeAfter(s, L, k - 1) = NoQuery
      BY <2>3, <1>12 DEF InvokeAfter
    <3>2. \A m \in 1 .. k - 1 : s.data[m].state = "Finish"
      BY <2>2, <2>3 DEF NoIndex
    <3>3. \A p \in 1 .. q - 1 : p \in s.finished
      BY <3>2, <1>7, FrontFinished
    <3> QED
      BY <3>1, <3>3, <1>7 DEF MayFollow, InOrder, Behind
  <2>4. CASE s.last_sent_i # NoIndex
    <3>1. PICK j : j = s.last_sent_i + 1
      OBVIOUS
    <3>2. j \in 1..Len(s.data) /\ j < k /\ j \in 1..s.next_i /\ j + 1 = s.last_sent_i + 2
      BY <3>1, <2>4, <1>1, <1>4, <1>5 DEF NoIndex
    <3>3. \A m \in j + 1 .. k - 1 : s.data[m].state = "Finish"
      BY <3>2, <2>2
    <3>4. CASE s.data[j].state = "Wait"
      <4>1. InvokeAfter(s, L, k - 1) = s.data[j].query
        BY <3>1, <3>4, <2>4, <1>12 DEF InvokeAfter, At
      <4> QED
        BY <4>1, <3>2, <3>3, <1>7, <1>9
    <3>5. CASE s.data[j].state # "Wait"
      <4>1. InvokeAfter(s, L, k - 1) = NoQuery
        BY <3>1, <3>5, <2>4, <1>12 DEF InvokeAfter, At
      <4>2. s.data[j].state = "Finish"
        <5>1. s.data[j].state # "Start"
          BY <3>2 DEF Sound, CurrentChain
        <5>2. s.data[j].state # "Dummy"
          BY <3>2 DEF Dummies
        <5>3. s.data[j].state \in {"Start", "Wait", "Finish", "Dummy"}
          BY <3>2, LastNumber DEF Entry
        <5> QED
          BY <5>1, <5>2, <5>3, <3>5
      <4>3. PICK a : a = s.data[j].query
        OBVIOUS
      <4>4. Passed(a, s.finished, M, C) /\ a \in s.finished
        BY <4>2, <4>3, <3>1, <3>2, <2>4, <1>6 DEF Sound, Finishing
      <4>5. a < q /\ \A p \in a + 1 .. q - 1 : p \in s.finished
        BY <4>3, <3>2, <3>3, <1>7, GapFinished
      <4>6. a \in Int
        <5>1. a \in Queries
          BY <4>3, <3>2, LastNumber DEF Entry
        <5> QED
          BY <5>1 DEF Queries
      <4>7. ASSUME NEW p \in 1 .. q - 1
            PROVE  Behind(p, q, s.finished, M, C)
        <5>1. CASE p >= a
          BY <5>1, <4>4, <4>5, <4>6, <1>8 DEF Behind
        <5>2. CASE p < a
          <6>1. CASE a \in C
            BY <6>1, <5>2, <4>5 DEF Behind
          <6>2. CASE InOrder(a, s.finished, M, C)
            <7>1. p \in 1 .. a - 1
              BY <5>2, <4>6, <1>8
            <7>2. Behind(p, a, s.finished, M, C)
              BY <7>1, <6>2 DEF InOrder
            <7>3. CASE p \in DoneIn(M) \cup s.finished
              BY <7>3 DEF Behind
            <7>4. CASE \E c \in C : p < c /\ c < a
              <8>1. PICK c \in C : p < c /\ c < a
                BY <7>4
              <8>2. c < q
                BY <8>1, <4>5, <4>6, <1>8
              <8> QED
                BY <8>1, <8>2 DEF Behind
            <7> QED
              BY <7>2, <7>3, <7>4 DEF Behind
          <6> QED
            BY <6>1, <6>2, <4>4 DEF Passed
        <5> QED
          BY <5>1, <5>2, <4>6, <1>8
      <4>8. MayFollow(q, NoQuery, s.finished, M, C)
        BY <4>7 DEF MayFollow, InOrder
      <4> QED
        BY <4>1, <4>8, <1>7
    <3> QED
      BY <3>4, <3>5
  <2> QED
    BY <2>3, <2>4
<1> QED
  BY <1>11, <1>12

LEMMA SentChained ==
  ASSUME NEW s, NEW last, Sound(s, last), Dummies(s) = {}, NEW t, NEW L, NEW e,
         Sent(s, t, L, e), NEW M, NEW C, C \subseteq Int, Chained(s, M, C)
  PROVE  Chained(t, M, C)
<1>1. /\ Len(s.data) \in Nat /\ s.next_i \in Nat /\ e \in Nat /\ s.next_i <= e
      /\ e <= Len(s.data) /\ t.next_i = e /\ t.finished = s.finished
  BY SentFacts
<1>2. \A k \in 1..Len(s.data) :
        /\ t.data[k].query = s.data[k].query /\ s.data[k].query \in Queries
        /\ k - 1 \notin L => t.data[k].state = s.data[k].state
        /\ k - 1 \in L => /\ t.data[k].state = "Wait"
                          /\ t.net[s.data[k].query].at = "session"
                          /\ t.net[s.data[k].query].after = InvokeAfter(s, L, k - 1)
        /\ k - 1 \notin L => t.net[s.data[k].query] = s.net[s.data[k].query]
  BY SentFacts
<1>3. /\ \A m \in 1..s.next_i : m \in 1..Len(s.data) /\ m - 1 \notin L
      /\ \A m \in s.next_i + 1 .. e :
           m \in 1..Len(s.data) /\ (m - 1 \notin L => s.data[m].state = "Finish")
  BY SentFacts
<1>4. s.last_sent_i < s.next_i /\ s.last_sent_i \in Nat \cup {-1}
  BY DEF Sound, Indexed, States, NoIndex
<1>5. LastSent(s, M, C)
  BY DEF Chained
<1>6. ASSUME NEW m \in 1..s.next_i
      PROVE  /\ t.data[m].query = s.data[m].query /\ t.data[m].state = s.data[m].state
             /\ t.net[s.data[m].query] = s.net[s.data[m].query]
  BY <1>2, <1>3
<1>7. ASSUME NEW m \in s.next_i + 1 .. e, m - 1 \notin L
      PROVE  t.data[m].state = "Finish"
  BY <1>2, <1>3, <1>7
<1>8. \A m \in t.last_sent_i + 2 .. e : t.data[m].state = "Finish"
  <2> SUFFICES ASSUME NEW m \in t.last_sent_i + 2 .. e
               PROVE  t.data[m].state = "Finish"
    OBVIOUS
  <2>1. CASE L = {} /\ t.last_sent_i = s.last_sent_i
    <3>1. CASE m <= s.next_i
      <4>1. m \in s.last_sent_i + 2 .. s.next_i /\ m \in 1..s.next_i
        BY <3>1, <2>1, <1>1, <1>4
      <4> QED
        BY <4>1, <1>5, <1>6 DEF LastSent
    <3>2. CASE m > s.next_i
      <4>1. m \in s.next_i + 1 .. e
        BY <3>2, <2>1, <1>1, <1>4
      <4> QED
        BY <4>1, <2>1, <1>7
    <3> QED
      BY <3>1, <3>2, <2>1, <1>1, <1>4
  <2>2. CASE /\ t.last_sent_i \in L /\ t.last_sent_i \in Nat
             /\ s.next_i <= t.last_sent_i /\ t.last_sent_i < e
             /\ \A i \in L : i <= t.last_sent_i
    <3>1. m \in s.next_i + 1 .. e /\ m - 1 > t.last_sent_i /\ m \in Int
      BY <2>2, <1>1
    <3>2. m - 1 \notin L
      <4>1. m - 1 \in L => m - 1 <= t.last_sent_i
        BY <2>2
      <4> QED
        BY <4>1, <3>1, <2>2
    <3> QED
      BY <3>1, <3>2, <1>7
  <2> QED
    BY <2>1, <2>2, SentLast
<1>9. ASSUME t.last_sent_i # NoIndex, t.data[t.last_sent_i + 1].state = "Finish"
      PROVE  Passed(t.data[t.last_sent_i + 1].query, t.finished, M, C)
  <2>1. CASE t.last_sent_i = s.last_sent_i
    <3>1. s.last_sent_i + 1 \in 1..s.next_i
      BY <2>1, <1>1, <1>4, <1>9 DEF NoIndex
    <3> QED
      BY <3>1, <2>1, <1>1, <1>5, <1>6, <1>9 DEF LastSent
  <2>2. CASE t.last_sent_i \in L /\ t.last_sent_i \in Nat /\ t.last_sent_i < e
    <3>1. t.last_sent_i + 1 \in 1..Len(s.data) /\ (t.last_sent_i + 1) - 1 = t.last_sent_i
      BY <2>2, <1>1
    <3>2. t.data[t.last_sent_i + 1].state = "Wait"
      BY <3>1, <2>2, <1>2
    <3> QED
      BY <3>2, <1>9
  <2> QED
    BY <2>1, <2>2, SentLast
<1>10. ASSUME NEW k \in 1..e, Pending(t, k), Returned(t.net[t.data[k].query])
       PROVE  Passed(t.data[k].query, t.finished, M, C)
  <2>1. k \in 1..Len(s.data)
    BY <1>1
  <2>2. k - 1 \notin L
    BY <2>1, <1>2, <1>10 DEF Returned
  <2>3. CASE k <= s.next_i
    <3>1. k \in 1..s.next_i
      BY <2>3, <1>1
    <3>2. Pending(s, k) /\ Returned(s.net[s.data[k].query])
      BY <3>1, <1>6, <1>10 DEF Pending
    <3> QED
      BY <3>1, <3>2, <1>1, <1>5, <1>6 DEF LastSent
  <2>4. CASE k > s.next_i
    <3>1. k \in s.next_i + 1 .. e
      BY <2>4, <1>1
    <3> QED
      BY <3>1, <2>2, <1>7, <1>10 DEF Pending
  <2> QED
    BY <2>3, <2>4, <1>1
<1>11. LastSent(t, M, C)
  BY <1>1, <1>8, <1>9, <1>10 DEF LastSent
<1>12. Following(t, M, C)
  <2> SUFFICES ASSUME NEW q \in Queries
               PROVE  /\ InNetwork(t.net[q]) => MayFollow(q, t.net[q].after, t.finished, M, C)
                      /\ t.net[q].at = "sent" => t.net[q].msg \in 1..Len(M) /\ M[t.net[q].msg].query = q
    BY DEF Following
  <2>1. CASE \E i \in L : s.data[i + 1].query = q
    <3>1. PICK i \in L : s.data[i + 1].query = q
      BY <2>1
    <3>2. PICK k : k = i + 1
      OBVIOUS
    <3>3. k \in 1..Len(s.data) /\ k - 1 = i /\ s.data[k].query = q
      <4>1. L \subseteq 0..Len(s.data) - 1
        BY DEF Sent
      <4> QED
        BY <4>1, <3>1, <3>2, <1>1
    <3>4. t.net[q].at = "session" /\ t.net[q].after = InvokeAfter(s, L, k - 1)
      BY <3>3, <1>2
    <3>5. MayFollow(q, InvokeAfter(s, L, k - 1), s.finished, M, C)
      BY <3>3, <1>5, SentFollows
    <3> QED
      BY <3>4, <3>5, <1>1
  <2>2. CASE \A i \in L : s.data[i + 1].query # q
    <3>1. t.net[q] = s.net[q]
      BY <2>2 DEF Sent
    <3> QED
      BY <3>1, <1>1 DEF Chained, Following
  <2> QED
    BY <2>1, <2>2
<1> QED
  BY <1>11, <1>12 DEF Chained

LEMMA SameCount ==
  ASSUME NEW S, NEW T, IsFiniteSet(S), NEW f \in [S -> T],
         \A x, y \in S : f[x] = f[y] => x = y, \A y \in T : \E x \in S : f[x] = y
  PROVE  IsFiniteSet(T) /\ Cardinality(T) = Cardinality(S)
<1>1. f \in Bijection(S, T)
  BY DEF Bijection, Injection, Surjection, IsInjective
<1>2. ExistsBijection(S, T)
  BY <1>1 DEF ExistsBijection
<1> QED
  BY <1>2, FS_Bijection

(* try_shrink(): the finished entries at the front are dropped. *)
Shrunk(s, t) ==
  /\ t \in States /\ Len(t.data) = Len(s.data) - s.finish_i
  /\ \A k \in 1..Len(t.data) : t.data[k] = s.data[k + s.finish_i]
  /\ t.id_offset = s.id_offset + s.finish_i /\ t.finish_i = 0
  /\ t.next_i = s.next_i - s.finish_i
  /\ t.last_sent_i = IF s.last_sent_i # NoIndex /\ s.last_sent_i >= s.finish_i
                       THEN s.last_sent_i - s.finish_i ELSE NoIndex
  /\ t.generation = s.generation /\ t.wait_cnt = s.wait_cnt /\ t.net = s.net
  /\ SameResults(s, t)

LEMMA SetShrunk ==
  ASSUME NEW s \in States, NEW D \in Seq(Entry), NEW x \in Nat, NEW o \in Nat,
         NEW l \in Nat \cup {NoIndex}, NEW t,
         t = [s EXCEPT !.data = D, !.next_i = x, !.last_sent_i = l, !.id_offset = o,
                       !.finish_i = 0]
  PROVE  t \in States
  BY DEF States

LEMMA ShrinkDrops ==
  ASSUME NEW s, NEW last, Sound(s, last), NEW t, t = TryShrink(s)
  PROVE  t = s \/ Shrunk(s, t)
<1>1. /\ s \in States /\ s.data \in Seq(Entry) /\ Len(s.data) \in Nat
      /\ \A k \in 1..Len(s.data) : s.data[k] \in Entry
  BY LastNumber DEF Sound
<1>2. /\ s.finish_i \in Nat /\ s.next_i \in Nat /\ s.finish_i <= s.next_i
      /\ s.next_i <= Len(s.data) /\ s.id_offset \in Nat
      /\ s.last_sent_i \in Nat \cup {-1}
  BY DEF Sound, Indexed, States, NoIndex
<1> DEFINE D == SubSeq(s.data, s.finish_i + 1, Size(s))
           x == s.next_i - s.finish_i
           l == IF s.last_sent_i # NoIndex /\ s.last_sent_i >= s.finish_i
                  THEN s.last_sent_i - s.finish_i ELSE NoIndex
           o == s.id_offset + s.finish_i
<1>3. CASE s.finish_i * 2 > Size(s) /\ Size(s) > ShrinkMin
  <2>1. t = [s EXCEPT !.data = D, !.next_i = x, !.last_sent_i = l, !.id_offset = o,
                      !.finish_i = 0]
    BY <1>3 DEF TryShrink
  <2>2. /\ D \in Seq(Entry) /\ Len(D) = Len(s.data) - s.finish_i
        /\ \A k \in 1..Len(D) : D[k] = s.data[k + s.finish_i]
    <3>1. PICK m \in Int : m = s.finish_i + 1
      BY <1>2
    <3>2. PICK n \in Nat : n = Len(s.data)
      BY <1>1
    <3>3. PICK f \in Nat : f = s.finish_i
      BY <1>2
    <3>4. m = f + 1 /\ f <= n /\ D = SubSeq(s.data, m, n)
      BY <3>1, <3>2, <3>3, <1>2 DEF Size
    <3>5. \A i \in m..n : s.data[i] \in Entry
      BY <3>1, <3>2, <3>3, <1>1, <1>2
    <3> HIDE DEF D, x, l, o
    <3>6. /\ D \in Seq(Entry) /\ Len(D) = IF m <= n THEN n - m + 1 ELSE 0
          /\ \A i \in 1 .. n - m + 1 : D[i] = s.data[m + i - 1]
      <4>1. n \in Int
        BY <3>2
      <4>2. /\ SubSeq(s.data, m, n) \in Seq(Entry)
            /\ Len(SubSeq(s.data, m, n)) = IF m <= n THEN n - m + 1 ELSE 0
            /\ \A i \in 1 .. n - m + 1 : SubSeq(s.data, m, n)[i] = s.data[m + i - 1]
        BY <4>1, <3>5, SubSeqProperties
      <4> QED
        BY <4>2, <3>4
    <3>7. Len(D) = n - f /\ n - m + 1 = n - f
      BY <3>2, <3>3, <3>4, <3>6, SMTT(30)
    <3>8. \A k \in 1 .. n - f : k + f = m + k - 1
      BY <3>2, <3>3, <3>4
    <3> QED
      BY <3>2, <3>3, <3>6, <3>7, <3>8
  <2>3. x \in Nat /\ o \in Nat
    BY <1>2
  <2>4. l \in Nat \cup {NoIndex}
    BY <1>2 DEF NoIndex
  <2>5. l = IF s.last_sent_i # NoIndex /\ s.last_sent_i >= s.finish_i
              THEN s.last_sent_i - s.finish_i ELSE NoIndex
    OBVIOUS
  <2>6. x = s.next_i - s.finish_i /\ o = s.id_offset + s.finish_i
    OBVIOUS
  <2> HIDE DEF D, x, l, o
  <2>7. t \in States
    <3>1. D \in Seq(Entry) /\ s \in States
      BY <2>2, <1>1
    <3>2. PICK D1 \in Seq(Entry), x1 \in Nat, o1 \in Nat, l1 \in Nat \cup {NoIndex} :
            D1 = D /\ x1 = x /\ o1 = o /\ l1 = l
      BY <3>1, <2>3, <2>4
    <3>3. t = [s EXCEPT !.data = D1, !.next_i = x1, !.last_sent_i = l1, !.id_offset = o1,
                        !.finish_i = 0]
      BY <3>2, <2>1
    <3>4. PICK u : u = t
      OBVIOUS
    <3>5. u = [s EXCEPT !.data = D1, !.next_i = x1, !.last_sent_i = l1, !.id_offset = o1,
                        !.finish_i = 0]
      BY <3>3, <3>4
    <3>6. u \in States
      BY <3>1, <3>5, SetShrunk
    <3> QED
      BY <3>4, <3>6
  <2>8. /\ t.data = D /\ t.next_i = x /\ t.last_sent_i = l /\ t.id_offset = o /\ t.finish_i = 0
        /\ t.generation = s.generation /\ t.wait_cnt = s.wait_cnt /\ t.net = s.net
        /\ t.outbox = s.outbox /\ t.finished = s.finished
    BY <2>1, <1>1 DEF States
  <2>9. /\ Len(t.data) = Len(s.data) - s.finish_i
        /\ \A k \in 1..Len(t.data) : t.data[k] = s.data[k + s.finish_i]
    BY <2>2, <2>8
  <2> QED
    BY <2>5, <2>6, <2>7, <2>8, <2>9, Zenon DEF Shrunk, SameResults
<1>4. CASE ~(s.finish_i * 2 > Size(s) /\ Size(s) > ShrinkMin)
  BY <1>4 DEF TryShrink
<1> QED
  BY <1>3, <1>4

LEMMA ShrunkFacts ==
  ASSUME NEW s, NEW last, Sound(s, last), NEW t, Shrunk(s, t)
  PROVE  \E f \in Nat, n \in Nat :
           /\ f = s.finish_i /\ n = Len(t.data) /\ Len(s.data) = n + f
           /\ \A k \in 1..n : /\ t.data[k] = s.data[k + f] /\ k + f \in 1..Len(s.data)
                              /\ k + f \in Nat
           /\ \A j \in 1..Len(s.data) : j > f => j - f \in 1..n /\ s.data[j] = t.data[j - f]
           /\ \A j \in 1..f : s.data[j].state = "Finish" /\ j \in 1..Len(s.data)
           /\ s.next_i \in Nat /\ f <= s.next_i /\ s.next_i <= Len(s.data)
           /\ t.next_i = s.next_i - f /\ t.finish_i = 0
           /\ s.id_offset \in Nat /\ t.id_offset = s.id_offset + f
           /\ s.last_sent_i \in Nat \cup {-1} /\ s.last_sent_i < s.next_i
           /\ t.last_sent_i = IF s.last_sent_i # NoIndex /\ s.last_sent_i >= f
                                THEN s.last_sent_i - f ELSE NoIndex
<1>1. PICK f \in Nat : f = s.finish_i
  BY DEF Sound, States
<1>2. /\ Len(s.data) \in Nat /\ s.next_i \in Nat /\ f <= s.next_i /\ s.next_i <= Len(s.data)
      /\ s.id_offset \in Nat /\ s.last_sent_i \in Nat \cup {-1} /\ s.last_sent_i < s.next_i
      /\ \A j \in 1..f : s.data[j].state = "Finish"
  BY <1>1, LastNumber DEF Sound, Indexed, States, NoIndex
<1>3. PICK n \in Nat : n = Len(t.data)
  BY LenProperties DEF Shrunk, States
<1>4. Len(s.data) = n + f
  <2>1. n = Len(s.data) - f
    BY <1>1, <1>3 DEF Shrunk
  <2> QED
    BY <2>1, <1>2
<1>5. \A k \in 1..n : /\ t.data[k] = s.data[k + f] /\ k + f \in 1..Len(s.data) /\ k + f \in Nat
  <2>1. \A k \in 1..n : t.data[k] = s.data[k + f]
    BY <1>1, <1>3 DEF Shrunk
  <2> QED
    BY <2>1, <1>4
<1>6. ASSUME NEW j \in 1..Len(s.data), j > f
      PROVE  j - f \in 1..n /\ s.data[j] = t.data[j - f]
  <2>1. j - f \in 1..n /\ (j - f) + f = j
    BY <1>4, <1>6
  <2> QED
    BY <2>1, <1>5
<1>7. \A j \in 1..f : j \in 1..Len(s.data)
  BY <1>4
<1>8. /\ t.next_i = s.next_i - f /\ t.finish_i = 0
      /\ t.id_offset = s.id_offset + f
      /\ t.last_sent_i = IF s.last_sent_i # NoIndex /\ s.last_sent_i >= f
                           THEN s.last_sent_i - f ELSE NoIndex
  BY <1>1 DEF Shrunk
<1> QED
  BY <1>1, <1>2, <1>3, <1>4, <1>5, <1>6, <1>7, <1>8

LEMMA ShrunkCount ==
  ASSUME NEW s, NEW t, NEW f \in Nat, NEW n \in Nat, n = Len(t.data), Len(s.data) = n + f,
         \A k \in 1..n : t.data[k] = s.data[k + f],
         \A j \in 1..f : s.data[j].state = "Finish"
  PROVE  Cardinality(WaitSet(s)) = Cardinality(WaitSet(t))
<1> DEFINE g == [i \in WaitSet(t) |-> i + f]
<1>1. ASSUME NEW i \in WaitSet(t)
      PROVE  i \in Nat /\ i + f \in WaitSet(s)
  <2>1. i \in 0..n - 1 /\ t.data[i + 1].state = "Wait"
    BY DEF WaitSet
  <2>2. i + 1 \in 1..n /\ (i + 1) + f = (i + f) + 1 /\ i + f \in 0..(n + f) - 1 /\ i \in Nat
    BY <2>1
  <2> QED
    BY <2>1, <2>2 DEF WaitSet
<1>2. ASSUME NEW j \in WaitSet(s)
      PROVE  j - f \in WaitSet(t) /\ (j - f) + f = j
  <2>1. j \in 0..(n + f) - 1 /\ s.data[j + 1].state = "Wait"
    BY DEF WaitSet
  <2>2. j >= f
    <3>1. j + 1 \in 1..f => FALSE
      BY <2>1
    <3> QED
      BY <3>1, <2>1
  <2>3. j - f \in 0..n - 1 /\ (j - f) + 1 \in 1..n /\ ((j - f) + 1) + f = j + 1 /\ (j - f) + f = j
    BY <2>1, <2>2
  <2> QED
    BY <2>1, <2>3 DEF WaitSet
<1>3. g \in [WaitSet(t) -> WaitSet(s)]
  BY <1>1
<1>4. \A x, y \in WaitSet(t) : g[x] = g[y] => x = y
  BY <1>1
<1>5. \A y \in WaitSet(s) : \E x \in WaitSet(t) : g[x] = y
  BY <1>2
<1>6. IsFiniteSet(WaitSet(t))
  BY WaitSetFinite
<1> HIDE DEF g
<1> QED
  BY <1>3, <1>4, <1>5, <1>6, SameCount, ZenonT(60)

LEMMA ShrunkKeeps ==
  ASSUME NEW s, NEW last, Sound(s, last), NEW t, Shrunk(s, t)
  PROVE  Sound(t, last) /\ SameResults(s, t) /\ (Dummies(s) = {} => Dummies(t) = {})
<1>1. PICK f \in Nat, n \in Nat :
        /\ f = s.finish_i /\ n = Len(t.data) /\ Len(s.data) = n + f
        /\ \A k \in 1..n : /\ t.data[k] = s.data[k + f] /\ k + f \in 1..Len(s.data)
                           /\ k + f \in Nat
        /\ \A j \in 1..Len(s.data) : j > f => j - f \in 1..n /\ s.data[j] = t.data[j - f]
        /\ \A j \in 1..f : s.data[j].state = "Finish" /\ j \in 1..Len(s.data)
        /\ s.next_i \in Nat /\ f <= s.next_i /\ s.next_i <= Len(s.data)
        /\ t.next_i = s.next_i - f /\ t.finish_i = 0
        /\ s.id_offset \in Nat /\ t.id_offset = s.id_offset + f
        /\ s.last_sent_i \in Nat \cup {-1} /\ s.last_sent_i < s.next_i
        /\ t.last_sent_i = IF s.last_sent_i # NoIndex /\ s.last_sent_i >= f
                             THEN s.last_sent_i - f ELSE NoIndex
  BY ShrunkFacts
<1>2. /\ t \in States /\ t.generation = s.generation /\ t.wait_cnt = s.wait_cnt
      /\ t.net = s.net /\ t.finished = s.finished /\ SameResults(s, t)
  BY DEF Shrunk, SameResults
<1>3. last \in Nat /\ n + f <= last
  BY <1>1 DEF Sound, Numbered
<1>4. \A k \in 1..n : t.data[k] = s.data[k + f] /\ k + f \in 1..Len(s.data) /\ k + f \in Nat
  BY <1>1
<1>5. Numbered(t, last)
  <2>1. ASSUME NEW k \in 1..n
        PROVE  t.data[k].query = last - n + k
    <3>1. s.data[k + f].query = last - (n + f) + (k + f)
      <4>1. \A j \in 1..Len(s.data) : s.data[j].query = last - Len(s.data) + j
        BY DEF Sound, Numbered
      <4>2. k + f \in 1..Len(s.data) /\ Len(s.data) = n + f
        BY <1>1, <1>4
      <4> QED
        BY <4>1, <4>2
    <3>2. last - (n + f) + (k + f) = last - n + k
      BY <1>3
    <3> QED
      BY <3>1, <3>2, <1>4
  <2>2. n <= last
    BY <1>3
  <2> QED
    BY <2>1, <2>2, <1>1 DEF Numbered
<1>6. Indexed(t)
  <2>1. 0 <= t.next_i /\ t.next_i <= n
    BY <1>1
  <2>2. t.last_sent_i < t.next_i
    <3>1. PICK x \in Nat : x = s.next_i
      BY <1>1
    <3>2. f <= x /\ t.next_i = x - f /\ s.last_sent_i < x /\ s.last_sent_i \in Nat \cup {-1}
      BY <3>1, <1>1
    <3>3. CASE s.last_sent_i # NoIndex /\ s.last_sent_i >= f
      <4>1. t.last_sent_i = s.last_sent_i - f
        BY <3>3, <1>1
      <4> QED
        BY <4>1, <3>2
    <3>4. CASE ~(s.last_sent_i # NoIndex /\ s.last_sent_i >= f)
      <4>1. t.last_sent_i = -1
        BY <3>4, <1>1 DEF NoIndex
      <4> QED
        BY <4>1, <3>2
    <3> QED
      BY <3>3, <3>4
  <2>3. t.finish_i = 0 /\ n = Len(t.data)
    BY <1>1
  <2> QED
    BY <2>1, <2>2, <2>3 DEF Indexed
<1>7. ASSUME NEW k \in 1..t.next_i
      PROVE  k \in 1..n /\ k + f \in 1..s.next_i
  BY <1>1, SMTT(30)
<1>8. CurrentChain(t)
  <2> SUFFICES ASSUME NEW k \in 1..t.next_i
               PROVE  /\ t.data[k].state # "Start"
                      /\ Pending(t, k) => t.data[k].generation = t.generation
    BY DEF CurrentChain
  <2>1. k \in 1..n /\ k + f \in 1..s.next_i
    BY <1>7
  <2>2. t.data[k] = s.data[k + f]
    BY <2>1, <1>4
  <2>3. /\ s.data[k + f].state # "Start"
        /\ Pending(s, k + f) => s.data[k + f].generation = s.generation
    BY <2>1 DEF Sound, CurrentChain
  <2> QED
    BY <2>2, <2>3, <1>2 DEF Pending
<1>9. Tokens(t)
  <2>1. ASSUME NEW q \in Queries, t.net[q].at # "none"
        PROVE  \E k \in 1..Len(t.data) : /\ t.data[k].query = q /\ Pending(t, k)
                                          /\ t.net[q].token = k - 1 + t.id_offset
    <3>1. PICK j \in 1..Len(s.data) : /\ s.data[j].query = q /\ Pending(s, j)
                                      /\ s.net[q].token = j - 1 + s.id_offset
      BY <2>1, <1>2 DEF Sound, Tokens
    <3>2. j > f
      <4>1. j \in 1..f => FALSE
        BY <3>1, <1>1 DEF Pending
      <4>2. j \in 1..n + f
        BY <1>1
      <4> QED
        BY <4>1, <4>2
    <3>3. j - f \in 1..n /\ s.data[j] = t.data[j - f]
      BY <3>2, <1>1
    <3>4. (j - f) - 1 + t.id_offset = j - 1 + s.id_offset
      <4>1. j \in Nat /\ s.id_offset \in Nat /\ t.id_offset = s.id_offset + f
        BY <1>1
      <4> QED
        BY <4>1
    <3>5. t.data[j - f].query = q /\ Pending(t, j - f)
      BY <3>1, <3>3 DEF Pending
    <3>6. t.net[q].token = (j - f) - 1 + t.id_offset
      BY <3>1, <3>4, <1>2
    <3>7. j - f \in 1..Len(t.data)
      BY <3>3, <1>1
    <3> QED
      BY <3>5, <3>6, <3>7
  <2>2. ASSUME NEW k \in 1..Len(t.data), Pending(t, k)
        PROVE  t.net[t.data[k].query].at # "none"
    <3>1. k \in 1..n
      BY <1>1
    <3>2. t.data[k] = s.data[k + f] /\ k + f \in 1..Len(s.data)
      BY <3>1, <1>4
    <3>3. Pending(s, k + f)
      BY <3>2, <2>2 DEF Pending
    <3>4. s.net[s.data[k + f].query].at # "none"
      BY <3>2, <3>3 DEF Sound, Tokens
    <3> QED
      BY <3>2, <3>4, <1>2
  <2> QED
    BY <2>1, <2>2 DEF Tokens
<1>10. Counted(t)
  <2>1. Cardinality(WaitSet(s)) = Cardinality(WaitSet(t))
    <3>1. n = Len(t.data) /\ Len(s.data) = n + f
      BY <1>1
    <3>2. \A k \in 1..n : t.data[k] = s.data[k + f]
      BY <1>4
    <3>3. \A j \in 1..f : s.data[j].state = "Finish"
      BY <1>1
    <3> QED
      BY <3>1, <3>2, <3>3, ShrunkCount
  <2> QED
    BY <2>1, <1>2 DEF Sound, Counted
<1>11. Finishing(t, last)
  <2>1. ASSUME NEW k \in 1..Len(t.data)
        PROVE  t.data[k].query \in t.finished <=> t.data[k].state = "Finish"
    <3>1. k \in 1..n
      BY <1>1
    <3>2. t.data[k] = s.data[k + f] /\ k + f \in 1..Len(s.data)
      BY <3>1, <1>4
    <3>3. s.data[k + f].query \in s.finished <=> s.data[k + f].state = "Finish"
      BY <3>2 DEF Sound, Finishing
    <3> QED
      BY <3>2, <3>3, <1>2
  <2>2. ASSUME NEW p \in 1..last - n
        PROVE  p \in t.finished
    <3>1. CASE p <= last - (n + f)
      <4>1. p \in 1..last - (n + f)
        BY <3>1, <1>3
      <4>2. p \in s.finished
        BY <4>1, <1>1 DEF Sound, Finishing
      <4> QED
        BY <4>2, <1>2
    <3>2. CASE p > last - (n + f)
      <4>1. PICK m : m = p - last + (n + f)
        OBVIOUS
      <4>2. m \in 1..f /\ p = last - (n + f) + m
        BY <4>1, <3>2, <1>3
      <4>3. m \in 1..Len(s.data) /\ s.data[m].state = "Finish"
        BY <4>2, <1>1
      <4>4. s.data[m].query = p
        BY <4>2, <4>3, <1>1 DEF Sound, Numbered
      <4> QED
        BY <4>3, <4>4, <1>2 DEF Sound, Finishing
    <3> QED
      BY <3>1, <3>2, <1>3
  <2>3. t.finished \subseteq 1..last
    BY <1>2 DEF Sound, Finishing
  <2> QED
    BY <2>1, <2>2, <2>3, <1>1 DEF Finishing
<1>12. ASSUME Dummies(s) = {}
       PROVE  Dummies(t) = {}
  <2>1. ASSUME NEW k \in 1..Len(t.data)
        PROVE  t.data[k].state # "Dummy"
    <3>1. k \in 1..n
      BY <1>1
    <3>2. t.data[k] = s.data[k + f] /\ k + f \in 1..Len(s.data)
      BY <3>1, <1>4
    <3> QED
      BY <3>2, <1>12 DEF Dummies
  <2> QED
    BY <2>1 DEF Dummies
<1> QED
  BY <1>2, <1>3, <1>5, <1>6, <1>8, <1>9, <1>10, <1>11, <1>12 DEF Sound

LEMMA ShrunkChained ==
  ASSUME NEW s, NEW last, Sound(s, last), NEW t, Shrunk(s, t), NEW M, NEW C, Chained(s, M, C)
  PROVE  Chained(t, M, C)
<1>1. PICK f \in Nat, n \in Nat :
        /\ f = s.finish_i /\ n = Len(t.data) /\ Len(s.data) = n + f
        /\ \A k \in 1..n : /\ t.data[k] = s.data[k + f] /\ k + f \in 1..Len(s.data)
                           /\ k + f \in Nat
        /\ s.next_i \in Nat /\ f <= s.next_i /\ s.next_i <= Len(s.data)
        /\ t.next_i = s.next_i - f
        /\ s.last_sent_i \in Nat \cup {-1} /\ s.last_sent_i < s.next_i
        /\ t.last_sent_i = IF s.last_sent_i # NoIndex /\ s.last_sent_i >= f
                             THEN s.last_sent_i - f ELSE NoIndex
  BY ShrunkFacts
<1>2. t.net = s.net /\ t.finished = s.finished
  BY DEF Shrunk, SameResults
<1>3. ASSUME NEW k \in 1..t.next_i
      PROVE  k + f \in 1..s.next_i /\ t.data[k] = s.data[k + f]
  <2>1. k \in 1..n /\ k + f \in 1..s.next_i
    BY <1>1
  <2> QED
    BY <2>1, <1>1
<1>4. PICK x \in Nat : x = s.next_i
  BY <1>1
<1>5. /\ f <= x /\ t.next_i = x - f /\ s.last_sent_i < x /\ s.last_sent_i \in Nat \cup {-1}
      /\ NoIndex = -1
  BY <1>1, <1>4 DEF NoIndex
<1>6. LastSent(s, M, C)
  BY DEF Chained
<1>7. \A k \in 1..t.next_i : Pending(t, k) /\ Returned(t.net[t.data[k].query]) =>
        Passed(t.data[k].query, t.finished, M, C)
  BY <1>2, <1>3, <1>6 DEF LastSent, Pending
<1>8. CASE s.last_sent_i # NoIndex /\ s.last_sent_i >= f
  <2>1. t.last_sent_i = s.last_sent_i - f
    BY <1>1, <1>8
  <2>2. ASSUME NEW k \in t.last_sent_i + 2 .. t.next_i
        PROVE  t.data[k].state = "Finish"
    <3>1. k \in 1..t.next_i /\ k + f \in s.last_sent_i + 2 .. x
      BY <2>1, <1>5, <1>8
    <3> QED
      BY <3>1, <1>3, <1>4, <1>6 DEF LastSent
  <2>3. t.last_sent_i + 1 \in 1..t.next_i /\ (t.last_sent_i + 1) + f = s.last_sent_i + 1
    BY <2>1, <1>5, <1>8
  <2>4. t.data[t.last_sent_i + 1] = s.data[s.last_sent_i + 1]
    BY <2>3, <1>3
  <2> QED
    BY <2>2, <2>4, <1>2, <1>6, <1>7, <1>8 DEF Chained, LastSent, Following
<1>9. CASE ~(s.last_sent_i # NoIndex /\ s.last_sent_i >= f)
  <2>1. t.last_sent_i = -1 /\ s.last_sent_i < f
    BY <1>1, <1>5, <1>9
  <2>2. ASSUME NEW k \in t.last_sent_i + 2 .. t.next_i
        PROVE  t.data[k].state = "Finish"
    <3>1. k \in 1..t.next_i /\ k + f \in s.last_sent_i + 2 .. x
      BY <2>1, <1>5
    <3> QED
      BY <3>1, <1>3, <1>4, <1>6 DEF LastSent
  <2> QED
    BY <2>1, <2>2, <1>2, <1>5, <1>7 DEF Chained, LastSent, Following
<1> QED
  BY <1>8, <1>9

LEMMA TimerSet ==
  ASSUME NEW s, NEW last, Sound(s, last), NEW b \in BOOLEAN, NEW t, t = [s EXCEPT !.timer = b]
  PROVE  /\ Sound(t, last) /\ Alike(s, t) /\ Dummies(t) = Dummies(s) /\ SameResults(s, t)
         /\ \A M, C : Chained(s, M, C) => Chained(t, M, C)
<1>1. s \in States
  BY DEF Sound
<1>2. /\ t \in States /\ t.data = s.data /\ t.net = s.net /\ t.wait_cnt = s.wait_cnt
      /\ t.id_offset = s.id_offset /\ t.finish_i = s.finish_i /\ t.next_i = s.next_i
      /\ t.last_sent_i = s.last_sent_i /\ t.generation = s.generation
      /\ t.outbox = s.outbox /\ t.finished = s.finished
  BY <1>1 DEF States
<1>3. Alike(s, t)
  BY <1>2 DEF Alike, SameShape, SameIndices, SameResults, Pending
<1>4. Counted(t)
  BY <1>2 DEF Sound, Counted, WaitSet
<1>5. Dummies(t) = Dummies(s)
  BY <1>2 DEF Dummies
<1>6. SameResults(s, t)
  BY <1>2 DEF SameResults
<1> QED
  BY <1>3, <1>4, <1>5, <1>6, AlikeKeeps, AlikeChained

(* loop() leaves a sound state. *)
LEMMA LoopKeeps ==
  ASSUME NEW s, NEW last, Sound(s, last), Dummies(s) = {}, NEW t, t = Loop(s)
  PROVE  /\ Sound(t, last) /\ Dummies(t) = {} /\ SameResults(s, t)
         /\ \A M, C : C \subseteq Int /\ Chained(s, M, C) => Chained(t, M, C)
<1>1. PICK a : a = Advance(s)
  OBVIOUS
<1>2. Sound(a, last) /\ Dummies(a) = {} /\ SameResults(s, a)
  BY <1>1, AdvanceKeeps
<1>3. PICK b : b = SendQueries(a)
  OBVIOUS
<1>4. PICK L, e : Sent(a, b, L, e)
  BY <1>2, <1>3, QueriesSent
<1>5. Sound(b, last) /\ Dummies(b) = {} /\ SameResults(a, b)
  BY <1>2, <1>4, SentKeeps
<1>6. PICK c : c = TryShrink(b)
  OBVIOUS
<1>7. c = b \/ Shrunk(b, c)
  BY <1>5, <1>6, ShrinkDrops
<1>8. Sound(c, last) /\ Dummies(c) = {} /\ SameResults(b, c)
  <2>1. CASE c = b
    BY <2>1, <1>5 DEF SameResults
  <2>2. CASE Shrunk(b, c)
    BY <2>2, <1>5, ShrunkKeeps
  <2> QED
    BY <2>1, <2>2, <1>7
<1>9. PICK v : v = (c.timer \/ c.finish_i = Size(c))
  OBVIOUS
<1>10. v \in BOOLEAN
  BY <1>9
<1>11. t = [c EXCEPT !.timer = v]
  BY <1>1, <1>3, <1>6, <1>9 DEF Loop
<1>12. Sound(t, last) /\ Dummies(t) = {} /\ SameResults(c, t)
  BY <1>8, <1>10, <1>11, TimerSet
<1>13. ASSUME NEW M, NEW C, C \subseteq Int, Chained(s, M, C)
       PROVE  Chained(t, M, C)
  <2>1. Chained(a, M, C)
    BY <1>1, <1>13, AdvanceChained
  <2>2. Chained(b, M, C)
    BY <2>1, <1>2, <1>4, <1>13, SentChained
  <2>3. Chained(c, M, C)
    <3>1. CASE c = b
      BY <3>1, <2>2
    <3>2. CASE Shrunk(b, c)
      BY <3>2, <2>2, <1>5, ShrunkChained
    <3> QED
      BY <3>1, <3>2, <1>7
  <2> QED
    BY <2>3, <1>8, <1>10, <1>11, TimerSet
<1>14. SameResults(s, t)
  BY <1>2, <1>5, <1>8, <1>12 DEF SameResults
<1> QED
  BY <1>12, <1>13, <1>14
-----------------------------------------------------------------------------
(* on_result() of a delayed query: those behind it are late too. *)
LEMMA SetTotal ==
  ASSUME NEW e \in Entry, NEW f, NEW n \in Nat, f = [e EXCEPT !.total = n]
  PROVE  f \in Entry /\ f.generation = e.generation /\ f.query = e.query /\ f.state = e.state
  BY DEF Entry

Delayed(s, B) ==
  [s EXCEPT !.data = [j \in 1..Size(s) |->
                        IF j - 1 \in B
                          THEN [s.data[j] EXCEPT !.total = s.data[j].total + 1]
                          ELSE s.data[j]]]

LEMMA DelaysAdded ==
  ASSUME NEW s, NEW last, Sound(s, last), NEW B, NEW t, t = Delayed(s, B)
  PROVE  /\ Sound(t, last) /\ Alike(s, t) /\ Dummies(t) = Dummies(s) /\ t.net = s.net
         /\ SameShape(s, t)
<1> DEFINE D == [j \in 1..Size(s) |->
                   IF j - 1 \in B
                     THEN [s.data[j] EXCEPT !.total = s.data[j].total + 1]
                     ELSE s.data[j]]
<1>1. /\ s \in States /\ Len(s.data) \in Nat /\ Size(s) = Len(s.data)
      /\ \A k \in 1..Len(s.data) : s.data[k] \in Entry
  BY LastNumber DEF Sound, Size
<1>2. t = [s EXCEPT !.data = D]
  BY DEF Delayed
<1>3. ASSUME NEW k \in 1..Len(s.data)
      PROVE  /\ D[k] \in Entry /\ D[k].query = s.data[k].query
             /\ D[k].generation = s.data[k].generation /\ D[k].state = s.data[k].state
  <2>1. CASE k - 1 \notin B
    BY <2>1, <1>1
  <2>2. CASE k - 1 \in B
    <3>1. D[k] = [s.data[k] EXCEPT !.total = s.data[k].total + 1]
      BY <2>2, <1>1
    <3> HIDE DEF D
    <3>2. PICK e \in Entry : e = s.data[k]
      BY <1>1
    <3>3. PICK n \in Nat : n = s.data[k].total + 1
      BY <3>2 DEF Entry
    <3>4. PICK f : f = D[k]
      OBVIOUS
    <3>5. f = [e EXCEPT !.total = n]
      BY <3>1, <3>2, <3>3, <3>4
    <3>6. f \in Entry /\ f.generation = e.generation /\ f.query = e.query /\ f.state = e.state
      BY <3>5, SetTotal
    <3> QED
      BY <3>2, <3>4, <3>6
  <2> QED
    BY <2>1, <2>2
<1>4. D \in [1..Len(s.data) -> Entry]
  BY <1>1, <1>3
<1> HIDE DEF D
<1>5. D \in Seq(Entry) /\ Len(D) = Len(s.data)
  BY <1>1, <1>4, FunctionIsSeq
<1>6. t \in States
  BY <1>1, <1>2, <1>5 DEF States
<1>7. /\ t.data = D /\ t.net = s.net /\ t.wait_cnt = s.wait_cnt
      /\ t.id_offset = s.id_offset /\ t.finish_i = s.finish_i /\ t.next_i = s.next_i
      /\ t.last_sent_i = s.last_sent_i /\ t.generation = s.generation
      /\ t.outbox = s.outbox /\ t.finished = s.finished
  BY <1>1, <1>2 DEF States
<1>8. Alike(s, t) /\ SameShape(s, t)
  BY <1>3, <1>5, <1>6, <1>7 DEF Alike, SameShape, SameIndices, SameResults, Pending
<1>9. Counted(t)
  <2>1. WaitSet(t) = WaitSet(s)
    <3>1. ASSUME NEW i \in 0..Len(s.data) - 1
          PROVE  t.data[i + 1].state = s.data[i + 1].state
      <4>1. i + 1 \in 1..Len(s.data)
        BY <1>1
      <4> QED
        BY <4>1, <1>3, <1>7
    <3> QED
      BY <3>1, <1>5, <1>7 DEF WaitSet
  <2> QED
    BY <2>1, <1>7 DEF Sound, Counted
<1>10. Dummies(t) = Dummies(s)
  BY <1>3, <1>5, <1>7 DEF Dummies
<1> QED
  BY <1>7, <1>8, <1>9, <1>10, AlikeKeeps

LEMMA DelaysTimed ==
  ASSUME NEW s, NEW last, Sound(s, last), NEW j \in 1..Len(s.data), Dummies(s) = {j},
         NEW B, NEW u, u = Delayed(s, B), NEW t, t = CheckTimeouts(u, B)
  PROVE  /\ Sound(t, last) /\ Dummies(t) = {j} /\ SameResults(s, t) /\ SameShape(s, t)
         /\ t.net[s.data[j].query] = s.net[s.data[j].query]
         /\ \A M, C : Chained(s, M, C) => Chained(t, M, C)
<1>1. /\ Sound(u, last) /\ Alike(s, u) /\ Dummies(u) = Dummies(s) /\ u.net = s.net
      /\ SameShape(s, u)
  BY DelaysAdded
<1>2. PICK L : Timed(u, t, L)
  BY <1>1, TimeoutsChecked
<1>3. Sound(t, last) /\ Dummies(t) = Dummies(u) /\ SameResults(u, t) /\ SameShape(u, t)
  BY <1>1, <1>2, TimedKeeps
<1>4. /\ Len(u.data) = Len(s.data) /\ u.data[j].query = s.data[j].query
      /\ u.data[j].state = "Dummy"
  BY <1>1 DEF SameShape, Dummies
<1>5. t.net[u.data[j].query] = u.net[u.data[j].query]
  <2>1. j \in 1..Len(u.data)
    BY <1>4
  <2>2. /\ j - 1 \notin L => t.net[u.data[j].query] = u.net[u.data[j].query]
        /\ j - 1 \in L => u.data[j].state = "Start"
    BY <2>1, <1>1, <1>2, TimedFacts
  <2> QED
    BY <2>2, <1>4
<1>6. ASSUME NEW M, NEW C, Chained(s, M, C)
      PROVE  Chained(t, M, C)
  <2>1. Chained(u, M, C)
    BY <1>1, <1>6, AlikeChained
  <2> QED
    BY <2>1, <1>1, <1>2, TimedChained
<1>7. SameResults(s, t) /\ SameShape(s, t)
  BY <1>1, <1>3 DEF SameResults, SameShape, Alike
<1> QED
  BY <1>1, <1>3, <1>4, <1>5, <1>6, <1>7
-----------------------------------------------------------------------------
(* send_with_callback(): the next query is appended. *)
Added(s, e) == [s EXCEPT !.timer = FALSE, !.data = Append(s.data, e)]

LEMMA AddedFacts ==
  ASSUME NEW s, NEW last, Sound(s, last), NEW e \in Entry, NEW t, t = Added(s, e)
  PROVE  /\ t \in States /\ t.net = s.net /\ t.wait_cnt = s.wait_cnt
         /\ t.id_offset = s.id_offset /\ t.finish_i = s.finish_i /\ t.next_i = s.next_i
         /\ t.last_sent_i = s.last_sent_i /\ t.generation = s.generation
         /\ t.outbox = s.outbox /\ t.finished = s.finished
         /\ Len(s.data) \in Nat /\ Len(t.data) = Len(s.data) + 1
         /\ \A k \in 1..Len(s.data) : t.data[k] = s.data[k]
         /\ t.data[Len(s.data) + 1] = e
<1>1. s \in States /\ s.data \in Seq(Entry) /\ Len(s.data) \in Nat
  BY LastNumber DEF Sound
<1>2. PICK D : D = Append(s.data, e)
  OBVIOUS
<1>3. /\ D \in Seq(Entry) /\ Len(D) = Len(s.data) + 1
      /\ \A k \in 1..Len(s.data) : D[k] = s.data[k]
      /\ D[Len(s.data) + 1] = e
  BY <1>1, <1>2, AppendProperties
<1>4. t = [s EXCEPT !.timer = FALSE, !.data = D]
  BY <1>2 DEF Added
<1>5. t \in States
  <2>1. D \in Seq(Entry)
    BY <1>3
  <2> QED
    BY <2>1, <1>1, <1>4 DEF States
<1>6. /\ t.data = D /\ t.net = s.net /\ t.wait_cnt = s.wait_cnt
      /\ t.id_offset = s.id_offset /\ t.finish_i = s.finish_i /\ t.next_i = s.next_i
      /\ t.last_sent_i = s.last_sent_i /\ t.generation = s.generation
      /\ t.outbox = s.outbox /\ t.finished = s.finished
  BY <1>1, <1>4 DEF States
<1> QED
  BY <1>1, <1>3, <1>5, <1>6

LEMMA AddedKeeps ==
  ASSUME NEW s, NEW last, Sound(s, last), Dummies(s) = {}, NEW e \in Entry,
         e.state = "Start", e.query = last + 1, NEW t, t = Added(s, e)
  PROVE  /\ Sound(t, last + 1) /\ Dummies(t) = {} /\ SameResults(s, t)
         /\ \A M, C : Chained(s, M, C) => Chained(t, M, C)
<1>1. /\ t \in States /\ t.net = s.net /\ t.wait_cnt = s.wait_cnt
      /\ t.id_offset = s.id_offset /\ t.finish_i = s.finish_i /\ t.next_i = s.next_i
      /\ t.last_sent_i = s.last_sent_i /\ t.generation = s.generation
      /\ t.outbox = s.outbox /\ t.finished = s.finished
  BY AddedFacts
<1>2. PICK n \in Nat : n = Len(s.data)
  BY LastNumber
<1>3. /\ Len(t.data) = n + 1 /\ t.data[n + 1] = e /\ last \in Nat
      /\ \A k \in 1..n : t.data[k] = s.data[k]
  BY <1>2, AddedFacts DEF Sound
<1>4. \A k \in 1..n + 1 : k \in 1..n \/ k = n + 1
  OBVIOUS
<1>5. n <= last /\ \A k \in 1..n : s.data[k].query = last - n + k
  BY <1>2 DEF Sound, Numbered
<1>6. Numbered(t, last + 1)
  <2>1. ASSUME NEW k \in 1..n + 1
        PROVE  t.data[k].query = (last + 1) - (n + 1) + k
    <3>1. (last + 1) - (n + 1) + k = last - n + k /\ last - n + (n + 1) = last + 1
      BY <1>3
    <3>2. CASE k \in 1..n
      BY <3>1, <3>2, <1>3, <1>5
    <3>3. CASE k = n + 1
      BY <3>1, <3>3, <1>3
    <3> QED
      BY <3>2, <3>3, <1>4
  <2>2. n + 1 <= last + 1
    BY <1>3, <1>5
  <2> QED
    BY <2>1, <2>2, <1>3 DEF Numbered
<1>7. /\ s.finish_i \in Nat /\ s.next_i \in Nat /\ s.finish_i <= s.next_i /\ s.next_i <= n
      /\ s.last_sent_i < s.next_i /\ s.last_sent_i \in Nat \cup {-1}
      /\ \A k \in 1..s.finish_i : s.data[k].state = "Finish"
  BY <1>2 DEF Sound, Indexed, States, NoIndex
<1>8. /\ \A k \in 1..s.finish_i : k \in 1..n
      /\ \A k \in 1..s.next_i : k \in 1..n
  BY <1>7
<1>9. Indexed(t)
  <2>1. \A k \in 1..t.finish_i : t.data[k].state = "Finish"
    BY <1>1, <1>3, <1>7, <1>8
  <2>2. s.next_i <= n + 1
    BY <1>7
  <2> QED
    BY <2>1, <2>2, <1>1, <1>3, <1>7 DEF Indexed
<1>10. CurrentChain(t)
  BY <1>1, <1>3, <1>8 DEF Sound, CurrentChain, Pending
<1>11. Tokens(t)
  <2>1. ASSUME NEW q \in Queries, t.net[q].at # "none"
        PROVE  \E k \in 1..Len(t.data) : /\ t.data[k].query = q /\ Pending(t, k)
                                          /\ t.net[q].token = k - 1 + t.id_offset
    <3>1. PICK j \in 1..n : /\ s.data[j].query = q /\ Pending(s, j)
                            /\ s.net[q].token = j - 1 + s.id_offset
      BY <2>1, <1>1, <1>2 DEF Sound, Tokens
    <3>2. j \in 1..n + 1
      OBVIOUS
    <3>3. t.data[j].query = q /\ Pending(t, j) /\ t.net[q].token = j - 1 + t.id_offset
      BY <3>1, <1>1, <1>3 DEF Pending
    <3> QED
      BY <3>2, <3>3, <1>3
  <2>2. ASSUME NEW k \in 1..Len(t.data), Pending(t, k)
        PROVE  t.net[t.data[k].query].at # "none"
    <3>1. k \in 1..n
      BY <2>2, <1>3, <1>4 DEF Pending
    <3>2. Pending(s, k) /\ t.data[k] = s.data[k]
      BY <3>1, <2>2, <1>3 DEF Pending
    <3> QED
      BY <3>1, <3>2, <1>1, <1>2 DEF Sound, Tokens
  <2> QED
    BY <2>1, <2>2 DEF Tokens
<1>12. Counted(t)
  <2>1. ASSUME NEW i
        PROVE  i \in WaitSet(t) <=> i \in WaitSet(s)
    <3>1. CASE i \in 0..n - 1
      <4>1. i + 1 \in 1..n /\ i \in 0..(n + 1) - 1
        BY <3>1
      <4>2. t.data[i + 1] = s.data[i + 1]
        BY <4>1, <1>3
      <4> QED
        BY <4>1, <4>2, <3>1, <1>2, <1>3 DEF WaitSet
    <3>2. CASE i \notin 0..n - 1
      <4>1. i \in 0..(n + 1) - 1 => i + 1 = n + 1
        BY <3>2
      <4> QED
        BY <4>1, <3>2, <1>2, <1>3 DEF WaitSet
    <3> QED
      BY <3>1, <3>2
  <2>2. WaitSet(t) = WaitSet(s)
    BY <2>1
  <2> QED
    BY <2>2, <1>1 DEF Sound, Counted
<1>13. Finishing(t, last + 1)
  <2>1. s.finished \subseteq 1..last
    BY DEF Sound, Finishing
  <2>2. t.finished \subseteq 1..last + 1 /\ last + 1 \notin t.finished
    BY <2>1, <1>1, <1>3
  <2>3. ASSUME NEW k \in 1..n + 1
        PROVE  t.data[k].query \in t.finished <=> t.data[k].state = "Finish"
    <3>1. CASE k \in 1..n
      BY <3>1, <1>1, <1>2, <1>3 DEF Sound, Finishing
    <3>2. CASE k = n + 1
      BY <3>2, <2>2, <1>3
    <3> QED
      BY <3>1, <3>2, <1>4
  <2>4. (last + 1) - (n + 1) = last - n
    BY <1>3
  <2>5. \A p \in 1..(last + 1) - (n + 1) : p \in t.finished
    BY <2>4, <1>1, <1>2 DEF Sound, Finishing
  <2> QED
    BY <2>2, <2>3, <2>5, <1>3 DEF Finishing
<1>14. Dummies(t) = {}
  <2>1. ASSUME NEW k \in 1..n + 1
        PROVE  t.data[k].state # "Dummy"
    <3>1. CASE k \in 1..n
      BY <3>1, <1>2, <1>3 DEF Dummies
    <3>2. CASE k = n + 1
      BY <3>2, <1>3
    <3> QED
      BY <3>1, <3>2, <1>4
  <2> QED
    BY <2>1, <1>3 DEF Dummies
<1>15. ASSUME NEW M, NEW C, Chained(s, M, C)
       PROVE  Chained(t, M, C)
  <2>1. /\ \A k \in s.last_sent_i + 2 .. s.next_i : k \in 1..n
        /\ s.last_sent_i # NoIndex => s.last_sent_i + 1 \in 1..n
    BY <1>7 DEF NoIndex
  <2>2. LastSent(t, M, C)
    BY <2>1, <1>1, <1>3, <1>8, <1>15, SMTT(30) DEF Chained, LastSent, Pending
  <2> QED
    BY <2>2, <1>1, <1>15 DEF Chained, Following
<1>16. last + 1 \in Nat
  BY <1>3
<1> QED
  BY <1>1, <1>6, <1>9, <1>10, <1>11, <1>12, <1>13, <1>14, <1>15, <1>16 DEF Sound, SameResults
-----------------------------------------------------------------------------
(* The handlers of the dispatcher. *)

LEMMA InvFacts ==
  ASSUME IInv
  PROVE  /\ Sound(State, Accepted) /\ Dummies(State) = {}
         /\ Chained(State, msgs, cancelled) /\ MessagesOrdered(finished, msgs, cancelled)
         /\ ParentOK /\ cancelled \subseteq Int /\ cancelled \subseteq Queries
         /\ State.data = data /\ State.net = net /\ State.id_offset = id_offset
         /\ State.outbox = outbox /\ State.finished = finished /\ Accepted \in Nat
<1>1. /\ Sound(State, Accepted) /\ Dummies(State) = {}
      /\ Chained(State, msgs, cancelled) /\ MessagesOrdered(finished, msgs, cancelled)
      /\ ParentOK
  BY DEF IInv
<1>2. cancelled \subseteq Queries
  BY <1>1 DEF MessagesOrdered
<1>3. Queries \subseteq Int
  BY DEF Queries
<1>4. Accepted \in Nat
  BY <1>1 DEF Sound
<1> QED
  BY <1>1, <1>2, <1>3, <1>4 DEF State

LEMMA AnswerTaken ==
  ASSUME IInv, NEW q \in Queries, net[q].at # "none"
  PROVE  \E j \in Nat, t \in States :
           /\ t = DataFromToken(State, net[q].token)
           /\ j \in 1..Len(t.data) /\ net[q].token - id_offset = j - 1
           /\ Sound(t, Accepted) /\ Dummies(t) = {j} /\ SameResults(State, t)
           /\ t.data[j].query = q /\ t.net = net /\ Chained(t, msgs, cancelled)
<1>1. PICK s, last : s = State /\ last = Accepted
  OBVIOUS
<1>2. /\ Sound(s, last) /\ Dummies(s) = {} /\ s.net = net /\ s.id_offset = id_offset
      /\ Chained(s, msgs, cancelled)
  BY <1>1, InvFacts
<1>3. PICK j \in 1..Len(s.data) :
        /\ j = s.net[q].token - s.id_offset + 1 /\ s.data[j].query = q
        /\ s.data[j].state = "Wait" /\ Taken(s, DataFromToken(s, s.net[q].token), j)
  BY <1>2, TokenTaken
<1>4. PICK t : t = DataFromToken(s, net[q].token)
  OBVIOUS
<1>5. Taken(s, t, j)
  BY <1>2, <1>3, <1>4
<1>6. Sound(t, last) /\ Alike(s, t) /\ Dummies(t) = {j}
  BY <1>2, <1>3, <1>5, TakenKeeps
<1>7. /\ Len(t.data) = Len(s.data) /\ t.data[j].query = q /\ t.net = net
      /\ SameResults(s, t)
  BY <1>2, <1>3, <1>5 DEF Taken, SameResults
<1>8. Chained(t, msgs, cancelled)
  BY <1>2, <1>6, AlikeChained
<1>9. j \in Nat /\ net[q].token - id_offset = j - 1
  <2>1. Len(s.data) \in Nat
    BY <1>2, LastNumber
  <2>2. j \in Nat
    BY <2>1
  <2>3. s \in States /\ s.net \in [Queries -> NetEntry] /\ s.id_offset \in Nat
    BY <1>2 DEF Sound, States
  <2>4. s.net[q] \in NetEntry
    BY <2>3
  <2>5. s.net[q].token \in Int
    BY <2>4 DEF NetEntry
  <2>6. PICK k \in Int, o \in Nat : k = s.net[q].token /\ o = s.id_offset
    BY <2>3, <2>5
  <2>7. j = k - o + 1
    BY <2>6, <1>3
  <2>8. k - o = j - 1
    BY <2>2, <2>7
  <2> QED
    BY <2>2, <2>6, <2>8, <1>2
<1>10. t \in States
  BY <1>6 DEF Sound
<1> QED
  BY <1>1, <1>3, <1>4, <1>6, <1>7, <1>8, <1>9, <1>10

(* A handler that finishes no query. *)
LEMMA HandlerKeeps ==
  ASSUME IInv, NEW s, Sound(s, Accepted), Dummies(s) = {}, SameResults(State, s),
         Chained(s, msgs, cancelled), Becomes(Loop(s)),
         UNCHANGED <<msgs, parent, inbox, lost, cancelled>>
  PROVE  IInv'
<1>1. PICK t : t = Loop(s)
  OBVIOUS
<1>2. PICK last : last = Accepted
  OBVIOUS
<1>3. /\ Sound(t, last) /\ Dummies(t) = {} /\ SameResults(s, t)
      /\ Chained(t, msgs, cancelled)
  BY <1>1, <1>2, InvFacts, LoopKeeps
<1>4. State' = t
  BY <1>1, <1>3, StateAfter DEF Sound
<1>5. finished' = finished /\ outbox' = outbox
  BY <1>1, <1>3, InvFacts DEF Becomes, SameResults
<1>6. Accepted' = last
  BY <1>2 DEF Accepted, parent
<1>7. ParentOK'
  BY <1>5, InvFacts DEF ParentOK, NothingLost, parent
<1>8. MessagesOrdered(finished, msgs, cancelled)'
  BY <1>5, InvFacts
<1>9. PICK M, C : M = msgs /\ C = cancelled
  OBVIOUS
<1>10. msgs' = M /\ cancelled' = C /\ Chained(t, M, C)
  BY <1>3, <1>9
<1> QED
  BY <1>3, <1>4, <1>6, <1>7, <1>8, <1>10 DEF IInv

LEMMA OnResultKeeps ==
  ASSUME IInv, NEW q \in Queries, OnResult(q)
  PROVE  IInv'
<1>1. net[q].at = "answer"
  BY DEF OnResult
<1>2. PICK j \in Nat, s \in States :
        /\ s = DataFromToken(State, net[q].token)
        /\ j \in 1..Len(s.data) /\ net[q].token - id_offset = j - 1
        /\ Sound(s, Accepted) /\ Dummies(s) = {j} /\ SameResults(State, s)
        /\ s.data[j].query = q /\ s.net = net /\ Chained(s, msgs, cancelled)
  BY <1>1, AnswerTaken
<1>3. PICK B : B = { k \in Positions(s) : k > j - 1 }
  OBVIOUS
<1>4. PICK u : u = Delayed(s, B)
  OBVIOUS
<1>5. PICK t : t = IF ~net[q].slow THEN s ELSE CheckTimeouts(u, B)
  OBVIOUS
<1>6. Becomes(Loop(IF net[q].kind = "resend" THEN DoResend(t, j - 1) ELSE TryResendQuery(t, j - 1)))
  BY <1>2, <1>3, <1>4, <1>5 DEF OnResult, Delayed
<1>7. PICK last : last = Accepted
  OBVIOUS
<1>8. /\ Sound(t, last) /\ Dummies(t) = {j} /\ SameResults(State, t)
      /\ Len(t.data) = Len(s.data) /\ t.data[j].query = q /\ t.net[q] = net[q]
      /\ Chained(t, msgs, cancelled)
  <2>1. CASE ~net[q].slow
    BY <2>1, <1>2, <1>5, <1>7
  <2>2. CASE net[q].slow
    <3>1. t = CheckTimeouts(u, B)
      BY <2>2, <1>5
    <3>2. /\ Sound(t, last) /\ Dummies(t) = {j} /\ SameResults(s, t) /\ SameShape(s, t)
          /\ t.net[s.data[j].query] = s.net[s.data[j].query]
          /\ \A M, C : Chained(s, M, C) => Chained(t, M, C)
      BY <3>1, <1>2, <1>4, <1>7, DelaysTimed
    <3> QED
      BY <3>2, <1>2 DEF SameResults, SameShape
  <2> QED
    BY <2>1, <2>2
<1>9. UNCHANGED <<msgs, parent, inbox, lost, cancelled>>
  BY DEF OnResult, limits
<1>10. CASE net[q].kind = "resend"
  <2>1. PICK v : v = DoResend(t, j - 1)
    OBVIOUS
  <2>2. /\ Sound(v, last) /\ Dummies(v) = {} /\ SameResults(t, v)
        /\ \A M, C : Chained(t, M, C) => Chained(v, M, C)
    BY <2>1, <1>2, <1>8, DoResendKeeps
  <2>3. /\ Sound(v, Accepted) /\ SameResults(State, v) /\ Chained(v, msgs, cancelled)
    BY <2>2, <1>7, <1>8 DEF SameResults
  <2>4. Becomes(Loop(v))
    BY <2>1, <1>6, <1>10
  <2> QED
    BY <2>2, <2>3, <2>4, <1>9, HandlerKeeps
<1>11. CASE net[q].kind # "resend"
  <2>1. PICK v : v = TryResendQuery(t, j - 1)
    OBVIOUS
  <2>2. Returned(t.net[t.data[j].query])
    BY <1>1, <1>8, <1>11 DEF Returned
  <2>3. Sound(v, last) /\ Alike(t, v) /\ Dummies(v) = {}
    BY <2>1, <2>2, <1>2, <1>8, TryResendKeeps
  <2>4. Chained(v, msgs, cancelled)
    BY <2>3, <1>8, AlikeChained
  <2>5. Sound(v, Accepted) /\ SameResults(State, v)
    BY <2>3, <1>7, <1>8 DEF SameResults, Alike
  <2>6. Becomes(Loop(v))
    BY <2>1, <1>6, <1>11
  <2> QED
    BY <2>3, <2>4, <2>5, <2>6, <1>9, HandlerKeeps
<1> QED
  BY <1>10, <1>11

LEMMA OnResendOkKeeps ==
  ASSUME IInv, NEW q \in Queries, OnResendOk(q)
  PROVE  IInv'
<1>1. net[q].at # "none"
  BY DEF OnResendOk
<1>2. PICK j \in Nat, s \in States :
        /\ s = DataFromToken(State, net[q].token)
        /\ j \in 1..Len(s.data) /\ net[q].token - id_offset = j - 1
        /\ Sound(s, Accepted) /\ Dummies(s) = {j} /\ SameResults(State, s)
        /\ s.data[j].query = q /\ s.net = net /\ Chained(s, msgs, cancelled)
  BY <1>1, AnswerTaken
<1>3. PICK v, last : v = DoResend(s, j - 1) /\ last = Accepted
  OBVIOUS
<1>4. /\ Sound(v, last) /\ Dummies(v) = {} /\ SameResults(s, v)
      /\ \A M, C : Chained(s, M, C) => Chained(v, M, C)
  BY <1>2, <1>3, DoResendKeeps
<1>5. Sound(v, Accepted) /\ SameResults(State, v) /\ Chained(v, msgs, cancelled)
  BY <1>2, <1>3, <1>4 DEF SameResults
<1>6. Becomes(Loop(v))
  BY <1>2, <1>3 DEF OnResendOk
<1>7. UNCHANGED <<msgs, parent, inbox, lost, cancelled>>
  BY DEF OnResendOk
<1> QED
  BY <1>4, <1>5, <1>6, <1>7, HandlerKeeps
-----------------------------------------------------------------------------
(* The parent's count. *)

LEMMA BalanceType ==
  ASSUME NEW F, NEW o, NEW n \in Nat, Len(o) \in Nat
  PROVE  /\ IsFiniteSet((1..n) \ F) /\ Cardinality((1..n) \ F) \in Nat
         /\ IsFiniteSet(Results(o)) /\ Cardinality(Results(o)) \in Nat
<1>1. IsFiniteSet(1..n) /\ (1..n) \ F \in SUBSET (1..n)
  BY FS_Interval
<1>2. IsFiniteSet(1..Len(o)) /\ Results(o) \in SUBSET (1..Len(o))
  BY FS_Interval DEF Results
<1> QED
  BY <1>1, <1>2, FS_Subset, FS_CardinalityType

LEMMA ResultsAppend ==
  ASSUME NEW o \in Seq({"result", "ready"})
  PROVE  /\ Cardinality(Results(Append(o, "result"))) = Cardinality(Results(o)) + 1
         /\ Results(Append(o, "ready")) = Results(o)
<1>1. Len(o) \in Nat
  BY LenProperties
<1>2. IsFiniteSet(Results(o)) /\ Cardinality(Results(o)) \in Nat
  BY <1>1, BalanceType
<1>3. PICK n \in Nat : n = Len(o)
  BY <1>1
<1>4. n + 1 \notin Results(o) /\ Results(o) = { i \in 1..n : o[i] = "result" }
  BY <1>3 DEF Results
<1>5. ASSUME NEW x \in {"result", "ready"}
      PROVE  Results(Append(o, x)) = IF x = "result" THEN Results(o) \cup {n + 1} ELSE Results(o)
  <2>1. PICK a : a = Append(o, x)
    OBVIOUS
  <2>2. Len(a) = n + 1 /\ a[n + 1] = x /\ \A i \in 1..n : a[i] = o[i]
    BY <2>1, <1>3, AppendProperties
  <2>3. Results(a) = { i \in 1..n + 1 : a[i] = "result" }
    BY <2>2 DEF Results
  <2>4. \A i : i \in 1..n + 1 <=> i \in 1..n \/ i = n + 1
    OBVIOUS
  <2>5. ASSUME NEW i
        PROVE  i \in Results(a) <=> i \in Results(o) \/ (i = n + 1 /\ x = "result")
    BY <2>2, <2>3, <2>4, <1>4
  <2>6. CASE x = "result"
    BY <2>1, <2>5, <2>6
  <2>7. CASE x # "result"
    BY <2>1, <2>5, <2>7
  <2> QED
    BY <2>6, <2>7
<1>6. Results(Append(o, "result")) = Results(o) \cup {n + 1} /\ Results(Append(o, "ready")) = Results(o)
  BY <1>5
<1>7. Cardinality(Results(o) \cup {n + 1}) = Cardinality(Results(o)) + 1
  BY <1>2, <1>4, FS_AddElement
<1> QED
  BY <1>6, <1>7

LEMMA ResultsTail ==
  ASSUME NEW o \in Seq({"result", "ready"}), o # <<>>
  PROVE  /\ Head(o) = "result" => Cardinality(Results(o)) = Cardinality(Results(Tail(o))) + 1
         /\ Head(o) = "ready" => Cardinality(Results(o)) = Cardinality(Results(Tail(o)))
         /\ Tail(o) \in Seq({"result", "ready"}) /\ Head(o) \in {"result", "ready"}
<1>1. PICK r : r = Tail(o)
  OBVIOUS
<1>2. PICK n \in Nat : n = Len(r)
  BY <1>1, HeadTailProperties, LenProperties
<1>3. /\ r \in Seq({"result", "ready"}) /\ Len(o) = n + 1 /\ \A i \in 1..n : r[i] = o[i + 1]
      /\ Head(o) = o[1] /\ Head(o) \in {"result", "ready"}
  <2>1. Len(o) \in Nat /\ Len(r) = Len(o) - 1 /\ r \in Seq({"result", "ready"})
        /\ Head(o) \in {"result", "ready"}
    BY <1>1, HeadTailProperties, LenProperties
  <2>2. \A i \in 1..n : r[i] = o[i + 1]
    BY <1>1, <1>2, HeadTailProperties
  <2>3. Head(o) = o[1]
    OBVIOUS
  <2> QED
    BY <2>1, <2>2, <2>3, <1>2
<1> DEFINE g == [i \in Results(r) |-> i + 1]
<1>4. ASSUME NEW i \in Results(r)
      PROVE  i \in Nat /\ i + 1 \in Results(o) \ {1}
  <2>1. i \in 1..n /\ r[i] = "result"
    BY <1>2 DEF Results
  <2>2. i + 1 \in 1..n + 1 /\ i \in Nat /\ i + 1 # 1
    BY <2>1
  <2> QED
    BY <2>1, <2>2, <1>3 DEF Results
<1>5. ASSUME NEW j \in Results(o) \ {1}
      PROVE  j - 1 \in Results(r) /\ (j - 1) + 1 = j
  <2>1. j \in 1..n + 1 /\ o[j] = "result" /\ j # 1
    BY <1>3 DEF Results
  <2>2. j - 1 \in 1..n /\ (j - 1) + 1 = j
    BY <2>1
  <2>3. r[j - 1] = o[j]
    BY <2>2, <1>3
  <2> QED
    BY <2>1, <2>2, <2>3, <1>2 DEF Results
<1>6. g \in [Results(r) -> Results(o) \ {1}]
  BY <1>4
<1>7. \A x, y \in Results(r) : g[x] = g[y] => x = y
  BY <1>4
<1>8. \A y \in Results(o) \ {1} : \E x \in Results(r) : g[x] = y
  BY <1>5
<1>9. IsFiniteSet(Results(r)) /\ Cardinality(Results(r)) \in Nat
  BY <1>2, BalanceType
<1>10. IsFiniteSet(Results(o)) /\ Cardinality(Results(o)) \in Nat
  <2>1. Len(o) \in Nat
    BY LenProperties
  <2> QED
    BY <2>1, BalanceType
<1> HIDE DEF g
<1>11. Cardinality(Results(o) \ {1}) = Cardinality(Results(r))
  <2>1. PICK T : T = Results(o) \ {1}
    OBVIOUS
  <2>2. g \in [Results(r) -> T] /\ \A y \in T : \E x \in Results(r) : g[x] = y
    BY <2>1, <1>6, <1>8
  <2> QED
    BY <2>1, <2>2, <1>7, <1>9, SameCount, ZenonT(60)
<1>12. CASE Head(o) = "result"
  <2>1. 1 \in Results(o)
    BY <1>3, <1>12 DEF Results
  <2>2. Cardinality(Results(o) \ {1}) = Cardinality(Results(o)) - 1
    BY <2>1, <1>10, FS_RemoveElement
  <2> QED
    BY <2>2, <1>1, <1>3, <1>9, <1>10, <1>11, <1>12
<1>13. CASE Head(o) = "ready"
  <2>1. Results(o) \ {1} = Results(o)
    BY <1>3, <1>13 DEF Results
  <2> QED
    BY <2>1, <1>1, <1>3, <1>11, <1>13
<1> QED
  BY <1>1, <1>3, <1>12, <1>13

LEMMA BalanceFinish ==
  ASSUME NEW F, NEW o \in Seq({"result", "ready"}), NEW n \in Nat, NEW q \in (1..n) \ F
  PROVE  Balance(F \cup {q}, Append(o, "result"), n) = Balance(F, o, n)
<1>1. Len(o) \in Nat
  BY LenProperties
<1>2. /\ IsFiniteSet((1..n) \ F) /\ Cardinality((1..n) \ F) \in Nat
      /\ IsFiniteSet(Results(o)) /\ Cardinality(Results(o)) \in Nat
  BY <1>1, BalanceType
<1>3. (1..n) \ (F \cup {q}) = ((1..n) \ F) \ {q}
  OBVIOUS
<1>4. Cardinality((1..n) \ (F \cup {q})) = Cardinality((1..n) \ F) - 1
  <2>1. PICK G : G = (1..n) \ F
    OBVIOUS
  <2>2. IsFiniteSet(G) /\ q \in G
    BY <2>1, <1>2
  <2>3. Cardinality(G \ {q}) = Cardinality(G) - 1
    BY <2>2, FS_RemoveElement
  <2> QED
    BY <2>1, <2>3, <1>3
<1>5. Cardinality(Results(Append(o, "result"))) = Cardinality(Results(o)) + 1
  BY ResultsAppend
<1> QED
  BY <1>2, <1>4, <1>5 DEF Balance

LEMMA BalanceGiven ==
  ASSUME NEW n \in Nat, NEW F, F \subseteq 1..n, NEW o, Len(o) \in Nat
  PROVE  Balance(F, o, n + 1) = Balance(F, o, n) + 1
<1>1. /\ IsFiniteSet((1..n) \ F) /\ Cardinality((1..n) \ F) \in Nat
      /\ IsFiniteSet(Results(o)) /\ Cardinality(Results(o)) \in Nat
  BY BalanceType
<1>2. (1..n + 1) \ F = ((1..n) \ F) \cup {n + 1} /\ n + 1 \notin (1..n) \ F
  OBVIOUS
<1>3. Cardinality((1..n + 1) \ F) = Cardinality((1..n) \ F) + 1
  BY <1>1, <1>2, FS_AddElement
<1> QED
  BY <1>1, <1>3 DEF Balance

LEMMA MessagesSettle ==
  ASSUME NEW F, NEW G, F \subseteq G, NEW M, NEW C, NEW D, C \subseteq D, D \subseteq Queries,
         MessagesOrdered(F, M, C)
  PROVE  MessagesOrdered(G, M, D)
<1>1. \A q : /\ InOrder(q, F, M, C) => InOrder(q, G, M, D)
             /\ \A a : MayFollow(q, a, F, M, C) => MayFollow(q, a, G, M, D)
  BY Settled
<1> QED
  BY <1>1 DEF MessagesOrdered

LEMMA OnResendErrorKeeps ==
  ASSUME IInv, NEW q \in Queries, OnResendError(q)
  PROVE  IInv'
<1>1. net[q].at = "callback"
  BY DEF OnResendError
<1>2. PICK j \in Nat, s \in States :
        /\ s = DataFromToken(State, net[q].token)
        /\ j \in 1..Len(s.data) /\ net[q].token - id_offset = j - 1
        /\ Sound(s, Accepted) /\ Dummies(s) = {j} /\ SameResults(State, s)
        /\ s.data[j].query = q /\ s.net = net /\ Chained(s, msgs, cancelled)
  BY <1>1, AnswerTaken
<1>3. PICK v, last : v = DoFinish(s, j - 1) /\ last = Accepted
  OBVIOUS
<1>4. /\ Sound(v, last) /\ Dummies(v) = {} /\ q \in (1..last) \ s.finished
      /\ v.finished = s.finished \cup {q} /\ v.outbox = Append(s.outbox, "result")
  BY <1>2, <1>3, DoFinishKeeps
<1>5. Chained(v, msgs, cancelled)
  <2>1. Returned(s.net[s.data[j].query])
    BY <1>1, <1>2 DEF Returned
  <2> QED
    BY <2>1, <1>2, <1>3, DoFinishChained
<1>6. PICK t : t = Loop(v)
  OBVIOUS
<1>7. /\ Sound(t, last) /\ Dummies(t) = {} /\ SameResults(v, t)
      /\ Chained(t, msgs, cancelled)
  BY <1>4, <1>5, <1>6, InvFacts, LoopKeeps
<1>8. Becomes(t)
  BY <1>2, <1>3, <1>6 DEF OnResendError
<1>9. State' = t
  BY <1>7, <1>8, StateAfter DEF Sound
<1>10. UNCHANGED <<msgs, open, cnt, given, inbox, lost, cancelled>>
  BY DEF OnResendError, parent, limits
<1>11. /\ finished' = finished \cup {q} /\ outbox' = Append(outbox, "result")
       /\ q \in (1..last) \ finished
  BY <1>2, <1>4, <1>7, <1>8, InvFacts DEF Becomes, SameResults
<1>12. Accepted' = last
  BY <1>3, <1>10 DEF Accepted
<1>13. MessagesOrdered(finished, msgs, cancelled)'
  <2>1. PICK F, G, M, C : F = finished /\ G = finished \cup {q} /\ M = msgs /\ C = cancelled
    OBVIOUS
  <2>2. MessagesOrdered(F, M, C) /\ F \subseteq G /\ C \subseteq Queries
    BY <2>1, InvFacts
  <2>3. MessagesOrdered(G, M, C)
    BY <2>2, MessagesSettle
  <2>4. finished' = G /\ msgs' = M /\ cancelled' = C
    BY <2>1, <1>10, <1>11
  <2> QED
    BY <2>3, <2>4
<1>14. ParentOK'
  <2>1. /\ given \in Nat /\ Len(inbox) \in Nat /\ outbox \in Seq({"result", "ready"})
        /\ cnt = Balance(finished, outbox, given)
    <3>1. State \in States
      BY InvFacts DEF Sound
    <3> QED
      BY <3>1, InvFacts, LenProperties DEF ParentOK, State, States
  <2>2. q \in (1..given) \ finished
    <3>1. last = given - Len(inbox)
      BY <1>3 DEF Accepted
    <3> QED
      BY <3>1, <2>1, <1>11
  <2>3. Balance(finished \cup {q}, Append(outbox, "result"), given) = Balance(finished, outbox, given)
    BY <2>1, <2>2, BalanceFinish
  <2>4. cnt' = Balance(finished', outbox', given')
    BY <2>1, <2>3, <1>10, <1>11
  <2> QED
    BY <2>4, <1>10, InvFacts DEF ParentOK, NothingLost
<1>15. PICK M, C : M = msgs /\ C = cancelled
  OBVIOUS
<1>16. msgs' = M /\ cancelled' = C /\ Chained(t, M, C)
  BY <1>7, <1>10, <1>15
<1> QED
  BY <1>7, <1>9, <1>12, <1>13, <1>14, <1>16 DEF IInv

LEMMA SendWithCallbackKeeps ==
  ASSUME IInv, SendWithCallback
  PROVE  IInv'
<1>1. /\ inbox # <<>> /\ inbox' = Tail(inbox)
      /\ UNCHANGED <<msgs, open, cnt, given, lost, cancelled>>
  BY DEF SendWithCallback, parent, limits
<1>2. PICK g \in Nat, n \in Nat, last \in Nat : g = given /\ n = Len(inbox) /\ last = Accepted
  BY InvFacts, LenProperties DEF ParentOK
<1>3. last = g - n /\ n > 0
  <2>1. n # 0
    BY <1>1, <1>2, EmptySeq, InvFacts DEF ParentOK
  <2> QED
    BY <2>1, <1>2 DEF Accepted
<1>4. /\ inbox \in Seq(Queries) /\ \A k \in 1..n : inbox[k] = g - n + k
  BY <1>2, InvFacts DEF ParentOK
<1>5. /\ Head(inbox) = last + 1 /\ Head(inbox) \in Queries
      /\ Tail(inbox) \in Seq(Queries) /\ Len(Tail(inbox)) = n - 1
      /\ \A k \in 1..n - 1 : Tail(inbox)[k] = g - (n - 1) + k
  <2>1. /\ Head(inbox) \in Queries /\ Tail(inbox) \in Seq(Queries)
        /\ Len(Tail(inbox)) = n - 1
        /\ \A i \in 1 .. Len(Tail(inbox)) : Tail(inbox)[i] = inbox[i + 1]
    BY <1>1, <1>2, <1>4, HeadTailProperties
  <2>2. Head(inbox) = inbox[1] /\ 1 \in 1..n
    BY <1>1, <1>3, <1>4
  <2>3. inbox[1] = g - n + 1
    BY <2>2, <1>4
  <2>4. Head(inbox) = last + 1
    BY <2>2, <2>3, <1>3
  <2>5. ASSUME NEW k \in 1..n - 1
        PROVE  Tail(inbox)[k] = g - (n - 1) + k
    <3>1. Tail(inbox)[k] = inbox[k + 1] /\ k + 1 \in 1..n
      BY <2>1
    <3>2. inbox[k + 1] = g - n + (k + 1)
      BY <3>1, <1>4
    <3>3. g - n + (k + 1) = g - (n - 1) + k
      BY <1>3
    <3> QED
      BY <3>1, <3>2, <3>3
  <2> QED
    BY <2>1, <2>4, <2>5
<1>6. PICK e : e = [state |-> "Start", generation |-> 0, total |-> 0, query |-> Head(inbox)]
  OBVIOUS
<1>7. e \in Entry /\ e.state = "Start" /\ e.query = last + 1
  BY <1>5, <1>6 DEF Entry
<1>8. PICK s : s = State
  OBVIOUS
<1>9. /\ Sound(s, last) /\ Dummies(s) = {} /\ Chained(s, msgs, cancelled)
      /\ s.finished = finished /\ s.outbox = outbox
  BY <1>2, <1>8, InvFacts
<1>10. PICK v : v = Added(s, e)
  OBVIOUS
<1>11. /\ Sound(v, last + 1) /\ Dummies(v) = {} /\ SameResults(s, v)
       /\ \A M, C : Chained(s, M, C) => Chained(v, M, C)
  BY <1>7, <1>9, <1>10, AddedKeeps
<1>12. PICK t, l : t = Loop(v) /\ l = last + 1
  OBVIOUS
<1>13. /\ Sound(t, l) /\ Dummies(t) = {} /\ SameResults(v, t)
       /\ Chained(t, msgs, cancelled)
  <2>1. Sound(v, l) /\ Chained(v, msgs, cancelled)
    BY <1>9, <1>11, <1>12
  <2> QED
    BY <2>1, <1>11, <1>12, InvFacts, LoopKeeps
<1>14. Becomes(t)
  BY <1>6, <1>8, <1>10, <1>12 DEF SendWithCallback, Added
<1>15. State' = t
  BY <1>13, <1>14, StateAfter DEF Sound
<1>16. finished' = finished /\ outbox' = outbox
  BY <1>9, <1>11, <1>13, <1>14 DEF Becomes, SameResults
<1>17. Accepted' = l
  BY <1>1, <1>2, <1>3, <1>5, <1>12 DEF Accepted
<1>18. MessagesOrdered(finished, msgs, cancelled)'
  BY <1>1, <1>16, InvFacts
<1>19. ParentOK'
  <2>1. /\ given' = given /\ cnt' = cnt /\ open' = open /\ lost' = lost
        /\ finished' = finished /\ outbox' = outbox
    BY <1>1, <1>16
  <2>2. /\ inbox' \in Seq(Queries) /\ Len(inbox') = n - 1 /\ Len(inbox') <= given'
        /\ \A k \in 1..n - 1 : inbox'[k] = given' - (n - 1) + k
    BY <1>1, <1>2, <1>3, <1>5
  <2> QED
    BY <2>1, <2>2, InvFacts DEF ParentOK, NothingLost
<1>20. PICK M, C : M = msgs /\ C = cancelled
  OBVIOUS
<1>21. msgs' = M /\ cancelled' = C /\ Chained(t, M, C)
  BY <1>1, <1>13, <1>20
<1> QED
  BY <1>13, <1>15, <1>17, <1>18, <1>19, <1>21 DEF IInv
-----------------------------------------------------------------------------
(* The parent and the timer. *)

SameCore(s, t) ==
  /\ t \in States /\ t.data = s.data /\ t.net = s.net /\ t.wait_cnt = s.wait_cnt
  /\ t.id_offset = s.id_offset /\ SameIndices(s, t) /\ t.finished = s.finished

LEMMA CoreKeeps ==
  ASSUME NEW s, NEW last, Sound(s, last), Dummies(s) = {}, NEW t, SameCore(s, t)
  PROVE  /\ Sound(t, last) /\ Dummies(t) = {}
         /\ \A M, C : Chained(s, M, C) => Chained(t, M, C)
<1>1. /\ t \in States /\ t.data = s.data /\ t.net = s.net /\ t.wait_cnt = s.wait_cnt
      /\ t.id_offset = s.id_offset /\ t.finish_i = s.finish_i /\ t.next_i = s.next_i
      /\ t.last_sent_i = s.last_sent_i /\ t.generation = s.generation
      /\ t.finished = s.finished
  BY DEF SameCore, SameIndices
<1>2. Numbered(t, last) /\ Indexed(t) /\ CurrentChain(t)
  BY <1>1 DEF Sound, Numbered, Indexed, CurrentChain, Pending
<1>3. Tokens(t) /\ Counted(t) /\ Finishing(t, last)
  BY <1>1 DEF Sound, Tokens, Pending, Counted, WaitSet, Finishing
<1>4. \A M, C : Chained(s, M, C) => Chained(t, M, C)
  BY <1>1 DEF Chained, LastSent, Following, Pending
<1>5. Dummies(t) = {}
  BY <1>1 DEF Dummies
<1> QED
  BY <1>1, <1>2, <1>3, <1>4, <1>5 DEF Sound

LEMMA StateIs ==
  ASSUME IInv
  PROVE  /\ State \in States /\ data \in Seq(Entry) /\ id_offset \in Nat /\ finish_i \in Nat
         /\ next_i \in Nat /\ last_sent_i \in Nat \cup {NoIndex} /\ generation \in Nat
         /\ wait_cnt \in Int /\ timer \in BOOLEAN /\ net \in [Queries -> NetEntry]
         /\ total \in [Queries -> Nat] /\ outbox \in Seq({"result", "ready"})
         /\ finished \subseteq Queries
<1>1. State \in States
  BY InvFacts DEF Sound
<1> QED
  BY <1>1 DEF State, States

(* A step that changes the timer or the outbox only. *)
LEMMA CoreStep ==
  ASSUME IInv, timer' \in BOOLEAN, outbox' \in Seq({"result", "ready"}),
         UNCHANGED <<data, indices, net, total, finished, msgs, cancelled>>,
         Accepted' = Accepted, ParentOK'
  PROVE  IInv'
<1>1. PICK s, t, last : s = State /\ t = State' /\ last = Accepted
  OBVIOUS
<1>2. Sound(s, last) /\ Dummies(s) = {} /\ Chained(s, msgs, cancelled)
  BY <1>1, InvFacts
<1>3. /\ t.data = s.data /\ t.net = s.net /\ t.wait_cnt = s.wait_cnt
      /\ t.id_offset = s.id_offset /\ SameIndices(s, t) /\ t.finished = s.finished
  BY <1>1 DEF State, indices, SameIndices
<1>4. t \in States
  BY <1>1, StateIs DEF State, States, indices
<1>5. /\ Sound(t, last) /\ Dummies(t) = {} /\ Chained(t, msgs, cancelled)
  BY <1>2, <1>3, <1>4, CoreKeeps DEF SameCore
<1>6. PICK M, C, F : M = msgs /\ C = cancelled /\ F = finished
  OBVIOUS
<1>7. /\ msgs' = M /\ cancelled' = C /\ finished' = F /\ Chained(t, M, C)
      /\ MessagesOrdered(F, M, C)
  BY <1>5, <1>6, InvFacts
<1> QED
  BY <1>1, <1>5, <1>7 DEF IInv

LEMMA ParentSendKeeps ==
  ASSUME IInv, ParentSend
  PROVE  IInv'
<1>1. /\ given < MaxQueries /\ given' = given + 1 /\ cnt' = (IF open THEN cnt + 1 ELSE 1)
      /\ open' = TRUE /\ inbox' = Append(inbox, given + 1) /\ outbox' = outbox
      /\ finished' = finished /\ lost' = lost
  BY DEF ParentSend
<1>2. UNCHANGED <<data, indices, timer, net, total, outbox, finished, msgs, cancelled>>
  BY DEF ParentSend, limits
<1>3. PICK g \in Nat, n \in Nat : g = given /\ n = Len(inbox)
  BY InvFacts, LenProperties DEF ParentOK
<1>4. /\ inbox \in Seq(Queries) /\ n <= g /\ g < MaxQueries /\ MaxQueries \in Nat
      /\ \A k \in 1..n : inbox[k] = g - n + k
      /\ cnt \in Nat /\ cnt = Balance(finished, outbox, g) /\ (~open => cnt = 0)
  BY <1>1, <1>3, InvFacts, SequenceDispatcherAssumption DEF ParentOK
<1>5. g + 1 \in Queries /\ g + 1 \in 0..MaxQueries
  BY <1>4 DEF Queries
<1>6. /\ inbox' \in Seq(Queries) /\ Len(inbox') = n + 1
      /\ \A k \in 1..n : inbox'[k] = inbox[k]
  BY <1>1, <1>3, <1>4, <1>5, AppendProperties
<1>7. \A k \in 1..n + 1 : inbox'[k] = (g + 1) - (n + 1) + k
  <2>1. ASSUME NEW k \in 1..n + 1
        PROVE  inbox'[k] = (g + 1) - (n + 1) + k
    <3>1. k \in 1..n \/ k = n + 1
      OBVIOUS
    <3>2. (g + 1) - (n + 1) + k = g - n + k /\ g - n + (n + 1) = g + 1
      OBVIOUS
    <3>3. inbox'[n + 1] = g + 1
      BY <1>1, <1>3, <1>4, <1>5, AppendProperties
    <3> QED
      BY <3>1, <3>2, <3>3, <1>4, <1>6
  <2> QED
    BY <2>1
<1>8. Accepted' = Accepted
  <2>1. Accepted = g - n /\ Accepted' = (g + 1) - (n + 1)
    BY <1>1, <1>3, <1>6 DEF Accepted
  <2> QED
    BY <2>1
<1>9. finished \subseteq 1..g
  <2>1. finished \subseteq 1..Accepted
    BY InvFacts DEF Sound, Finishing
  <2>2. Accepted = g - n
    BY <1>3 DEF Accepted
  <2> QED
    BY <2>1, <2>2, <1>4
<1>10. cnt' = Balance(finished, outbox, g + 1) /\ cnt' = cnt + 1
  <2>1. Len(outbox) \in Nat
    BY StateIs, LenProperties
  <2>2. Balance(finished, outbox, g + 1) = Balance(finished, outbox, g) + 1
    BY <2>1, <1>9, BalanceGiven
  <2>3. cnt' = cnt + 1
    BY <1>1, <1>4
  <2> QED
    BY <2>2, <2>3, <1>4
<1>11. ParentOK'
  <2>1. given' = g + 1 /\ given' \in 0..MaxQueries /\ Len(inbox') <= given' /\ Len(inbox') = n + 1
    BY <1>1, <1>3, <1>4, <1>5, <1>6
  <2>2. cnt' = Balance(finished', outbox', given') /\ cnt' \in Nat
    BY <2>1, <1>1, <1>4, <1>10
  <2>3. \A k \in 1..Len(inbox') : inbox'[k] = given' - Len(inbox') + k
    BY <2>1, <1>7
  <2>4. lost' = {} /\ inbox' \in Seq(Queries) /\ open' = TRUE
    BY <1>1, <1>6, InvFacts DEF ParentOK, NothingLost
  <2> QED
    BY <2>1, <2>2, <2>3, <2>4 DEF ParentOK, NothingLost
<1>12. timer' \in BOOLEAN /\ outbox' \in Seq({"result", "ready"})
  BY <1>2, StateIs
<1> QED
  BY <1>2, <1>8, <1>11, <1>12, CoreStep

LEMMA ParentResultKeeps ==
  ASSUME IInv, ParentResult
  PROVE  IInv'
<1>1. /\ outbox # <<>> /\ Head(outbox) = "result" /\ outbox' = Tail(outbox) /\ cnt' = cnt - 1
      /\ given' = given /\ inbox' = inbox /\ open' = open /\ lost' = lost /\ finished' = finished
  BY DEF ParentResult
<1>2. UNCHANGED <<data, indices, timer, net, total, finished, msgs, cancelled>>
  BY DEF ParentResult, limits
<1>3. /\ Cardinality(Results(outbox)) = Cardinality(Results(Tail(outbox))) + 1
      /\ Tail(outbox) \in Seq({"result", "ready"})
  BY <1>1, StateIs, ResultsTail
<1>4. given \in Nat /\ cnt = Balance(finished, outbox, given)
  BY InvFacts DEF ParentOK
<1>5. /\ Cardinality((1..given) \ finished) \in Nat
      /\ Cardinality(Results(Tail(outbox))) \in Nat
  BY <1>3, <1>4, LenProperties, BalanceType
<1>6. cnt' = Balance(finished, Tail(outbox), given) /\ cnt' \in Nat /\ cnt > 0
  BY <1>1, <1>3, <1>4, <1>5, SMTT(30) DEF Balance
<1>7. ParentOK'
  <2>1. cnt' = Balance(finished', outbox', given')
    BY <1>1, <1>6
  <2>2. open
    BY <1>6, InvFacts DEF ParentOK
  <2> QED
    BY <2>1, <2>2, <1>1, <1>6, InvFacts DEF ParentOK, NothingLost
<1>8. Accepted' = Accepted
  BY <1>1 DEF Accepted
<1>9. timer' \in BOOLEAN /\ outbox' \in Seq({"result", "ready"})
  BY <1>1, <1>2, <1>3, StateIs
<1> QED
  BY <1>2, <1>7, <1>8, <1>9, CoreStep

LEMMA TimeoutExpiredKeeps ==
  ASSUME IInv, TimeoutExpired
  PROVE  IInv'
<1>1. /\ given' = given /\ inbox' = inbox /\ open' = open /\ lost' = lost /\ finished' = finished
      /\ cnt' = cnt
  BY DEF TimeoutExpired, parent
<1>2. UNCHANGED <<data, indices, net, total, finished, msgs, cancelled>>
  BY DEF TimeoutExpired, limits
<1>3. /\ Results(outbox') = Results(outbox) /\ timer' \in BOOLEAN
      /\ outbox' \in Seq({"result", "ready"})
  <2>1. outbox \in Seq({"result", "ready"}) /\ timer \in BOOLEAN
    BY StateIs
  <2>2. CASE finish_i = Len(data)
    <3>1. outbox' = Append(outbox, "ready") /\ timer' = timer
      BY <2>2 DEF TimeoutExpired
    <3>2. Append(outbox, "ready") \in Seq({"result", "ready"})
      BY <2>1, AppendProperties
    <3> QED
      BY <2>1, <3>1, <3>2, ResultsAppend
  <2>3. CASE finish_i # Len(data)
    BY <2>1, <2>3 DEF TimeoutExpired
  <2> QED
    BY <2>2, <2>3
<1>4. ParentOK'
  <2>1. cnt' = Balance(finished', outbox', given')
    BY <1>1, <1>3, InvFacts DEF ParentOK, Balance
  <2> QED
    BY <2>1, <1>1, InvFacts DEF ParentOK, NothingLost
<1>5. Accepted' = Accepted
  BY <1>1 DEF Accepted
<1> QED
  BY <1>2, <1>3, <1>4, <1>5, CoreStep

(* The dispatcher is closed only when nothing is left to do for it. *)
LEMMA ParentReadyToCloseKeeps ==
  ASSUME IInv, ParentReadyToClose
  PROVE  IInv'
<1>1. /\ outbox # <<>> /\ Head(outbox) = "ready" /\ outbox' = Tail(outbox)
      /\ UNCHANGED <<msgs, total, cnt, given, finished, cancelled>>
  BY DEF ParentReadyToClose, limits
<1>2. /\ Cardinality(Results(outbox)) = Cardinality(Results(Tail(outbox)))
      /\ Tail(outbox) \in Seq({"result", "ready"})
  BY <1>1, StateIs, ResultsTail
<1>3. cnt' = Balance(finished', outbox', given')
  BY <1>1, <1>2, InvFacts DEF ParentOK, Balance
<1>4. CASE ~MayClose
  <2>1. UNCHANGED <<open, lost, data, indices, timer, inbox, net>>
    BY <1>4 DEF ParentReadyToClose
  <2>2. ParentOK'
    BY <2>1, <1>1, <1>3, InvFacts DEF ParentOK, NothingLost
  <2>3. Accepted' = Accepted
    BY <2>1, <1>1 DEF Accepted
  <2>4. timer' \in BOOLEAN /\ outbox' \in Seq({"result", "ready"})
    BY <2>1, <1>1, <1>2, StateIs
  <2>5. UNCHANGED <<data, indices, net, total, finished, msgs, cancelled>>
    BY <2>1, <1>1
  <2> QED
    BY <2>2, <2>3, <2>4, <2>5, CoreStep
<1>5. CASE MayClose
  <2>1. /\ open' = FALSE /\ lost' = lost \cup (1 .. given \ finished) /\ data' = <<>>
        /\ id_offset' = 1 /\ finish_i' = 0 /\ next_i' = 0 /\ last_sent_i' = NoIndex
        /\ generation' = 1 /\ wait_cnt' = 0 /\ timer' = FALSE /\ inbox' = <<>>
        /\ net' = [q \in Queries |-> Nowhere] /\ cnt = 0
    BY <1>5 DEF ParentReadyToClose, MayClose
  <2>2. PICK g \in Nat, n \in Nat : g = given /\ n = Len(inbox)
    BY InvFacts, LenProperties DEF ParentOK
  <2>3. (1..g) \ finished = {}
    <3>1. /\ IsFiniteSet((1..g) \ finished) /\ Cardinality((1..g) \ finished) \in Nat
          /\ Cardinality(Results(outbox)) \in Nat
      BY StateIs, LenProperties, BalanceType
    <3>2. Cardinality((1..g) \ finished) + Cardinality(Results(outbox)) = 0
      BY <2>1, <2>2, InvFacts DEF ParentOK, Balance
    <3>3. Cardinality((1..g) \ finished) = 0
      BY <3>1, <3>2
    <3> QED
      BY <3>1, <3>3, FS_EmptySet
  <2>4. finished \subseteq 1..g /\ g \in 0..MaxQueries
    <3>1. finished \subseteq 1..Accepted /\ Accepted = given - Len(inbox)
      BY InvFacts DEF Sound, Finishing, Accepted
    <3>2. given \in 0..MaxQueries
      BY InvFacts DEF ParentOK
    <3> QED
      BY <3>1, <3>2, <2>2
  <2>5. ParentOK'
    <3>1. lost' = {}
      BY <2>1, <2>2, <2>3, InvFacts DEF ParentOK, NothingLost
    <3>2. inbox' \in Seq(Queries) /\ Len(inbox') = 0
      BY <2>1
    <3>3. given' = g /\ cnt' = 0 /\ open' = FALSE
      BY <2>1, <2>2, <1>1
    <3>4. /\ given' \in 0..MaxQueries /\ Len(inbox') <= given' /\ cnt' \in Nat
          /\ \A k \in 1..Len(inbox') : inbox'[k] = given' - Len(inbox') + k
      BY <3>2, <3>3, <2>2, <2>4
    <3>5. open' \in BOOLEAN /\ (~open' => cnt' = 0)
      BY <3>3
    <3> QED
      BY <3>1, <3>2, <3>4, <3>5, <1>3 DEF ParentOK, NothingLost
  <2>6. PICK t : t = State'
    OBVIOUS
  <2>7. PICK F, M, C, o : F = finished /\ M = msgs /\ C = cancelled /\ o = Tail(outbox)
    OBVIOUS
  <2>8. PICK N : N = [q \in Queries |-> Nowhere]
    OBVIOUS
  <2>9. N \in [Queries -> NetEntry] /\ \A q \in Queries : N[q].at = "none"
    BY <2>8 DEF Nowhere, NetEntry, NoQuery
  <2>10. /\ t.data = <<>> /\ t.id_offset = 1 /\ t.finish_i = 0 /\ t.next_i = 0
         /\ t.last_sent_i = NoIndex /\ t.generation = 1 /\ t.wait_cnt = 0
         /\ t.net = N /\ t.finished = F
    BY <2>1, <2>6, <2>7, <2>8, <1>1 DEF State
  <2>11. t \in States
    <3>1. /\ total \in [Queries -> Nat] /\ F \subseteq Queries
          /\ o \in Seq({"result", "ready"})
      BY <2>7, <1>2, StateIs
    <3>2. t = [data |-> <<>>, id_offset |-> 1, finish_i |-> 0, next_i |-> 0,
               last_sent_i |-> NoIndex, generation |-> 1, wait_cnt |-> 0, timer |-> FALSE,
               net |-> N, total |-> total, outbox |-> o, finished |-> F]
      BY <2>1, <2>6, <2>7, <2>8, <1>1 DEF State
    <3>3. <<>> \in Seq(Entry)
      BY EmptySeq
    <3> QED
      BY <3>1, <3>2, <3>3, <2>9 DEF States
  <2>12. Len(t.data) = 0
    BY <2>10
  <2>13. Sound(t, g)
    <3>1. Numbered(t, g) /\ Indexed(t) /\ CurrentChain(t)
      BY <2>10, <2>12 DEF Numbered, Indexed, CurrentChain, NoIndex
    <3>2. Tokens(t)
      BY <2>9, <2>10, <2>12 DEF Tokens
    <3>3. Counted(t)
      <4>1. WaitSet(t) = {}
        BY <2>12 DEF WaitSet
      <4> QED
        BY <4>1, <2>10, FS_EmptySet DEF Counted
    <3>4. Finishing(t, g)
      BY <2>3, <2>4, <2>7, <2>10, <2>12 DEF Finishing
    <3> QED
      BY <3>1, <3>2, <3>3, <3>4, <2>11 DEF Sound
  <2>14. Dummies(t) = {}
    BY <2>12 DEF Dummies
  <2>15. Chained(t, M, C)
    BY <2>9, <2>10 DEF Chained, LastSent, Following, InNetwork, NoIndex
  <2>16. Accepted' = g
    <3>1. given' = g /\ Len(inbox') = 0
      BY <2>1, <2>2, <1>1
    <3> QED
      BY <3>1 DEF Accepted
  <2>17. /\ msgs' = M /\ cancelled' = C /\ finished' = F /\ MessagesOrdered(F, M, C)
    BY <2>7, <1>1, InvFacts
  <2> QED
    BY <2>5, <2>6, <2>13, <2>14, <2>15, <2>16, <2>17 DEF IInv
<1> QED
  BY <1>4, <1>5
-----------------------------------------------------------------------------
(* The session, the delayer and the server change net and msgs only.       *)

LEMMA NetStep ==
  ASSUME IInv, NEW N \in [Queries -> NetEntry], net' = N,
         \A q \in Queries : /\ N[q].at = "none" <=> net[q].at = "none"
                            /\ N[q].at # "none" => N[q].token = net[q].token,
         total' \in [Queries -> Nat], UNCHANGED netOnly,
         NEW M, M = msgs', NEW C, C = cancelled', DoneIn(msgs) \subseteq DoneIn(M),
         cancelled \subseteq C, MessagesOrdered(finished, M, C),
         \A q \in Queries :
           /\ Returned(N[q]) => Returned(net[q]) \/ Passed(q, finished, M, C)
           /\ InNetwork(N[q]) => MayFollow(q, N[q].after, finished, M, C)
           /\ N[q].at = "sent" => N[q].msg \in 1..Len(M) /\ M[N[q].msg].query = q
  PROVE  IInv'
<1>1. PICK s, t, last : s = State /\ t = State' /\ last = Accepted
  OBVIOUS
<1>2. /\ Sound(s, last) /\ Dummies(s) = {} /\ Chained(s, msgs, cancelled)
      /\ s.net = net /\ s.finished = finished
  BY <1>1, InvFacts
<1>3. /\ t.data = s.data /\ t.net = N /\ t.wait_cnt = s.wait_cnt
      /\ t.id_offset = s.id_offset /\ t.finish_i = s.finish_i /\ t.next_i = s.next_i
      /\ t.last_sent_i = s.last_sent_i /\ t.generation = s.generation
      /\ t.finished = s.finished
  BY <1>1 DEF State, netOnly, indices
<1>4. t \in States
  BY <1>1, StateIs DEF State, States, netOnly, indices
<1>5. Numbered(t, last) /\ Indexed(t) /\ CurrentChain(t)
  BY <1>2, <1>3 DEF Sound, Numbered, Indexed, CurrentChain, Pending
<1>6. Counted(t) /\ Finishing(t, last) /\ Dummies(t) = {}
  BY <1>2, <1>3 DEF Sound, Counted, WaitSet, Finishing, Dummies
<1>7. Tokens(t)
  <2>1. ASSUME NEW q \in Queries, t.net[q].at # "none"
        PROVE  \E k \in 1..Len(t.data) : /\ t.data[k].query = q /\ Pending(t, k)
                                          /\ t.net[q].token = k - 1 + t.id_offset
    <3>1. s.net[q].at # "none" /\ t.net[q].token = s.net[q].token
      BY <2>1, <1>2, <1>3
    <3>2. PICK j \in 1..Len(s.data) : /\ s.data[j].query = q /\ Pending(s, j)
                                      /\ s.net[q].token = j - 1 + s.id_offset
      BY <3>1, <1>2 DEF Sound, Tokens
    <3> QED
      BY <3>1, <3>2, <1>3 DEF Pending
  <2>2. ASSUME NEW k \in 1..Len(t.data), Pending(t, k)
        PROVE  t.net[t.data[k].query].at # "none"
    <3>1. k \in 1..Len(s.data) /\ Pending(s, k) /\ t.data[k] = s.data[k]
      BY <2>2, <1>3 DEF Pending
    <3>2. s.net[s.data[k].query].at # "none" /\ s.data[k].query \in Queries
      BY <3>1, <1>2, TokenOf
    <3> QED
      BY <3>1, <3>2, <1>2, <1>3
  <2> QED
    BY <2>1, <2>2 DEF Tokens
<1>8. Sound(t, last)
  BY <1>2, <1>4, <1>5, <1>6, <1>7 DEF Sound
<1>9. \A q : Passed(q, finished, msgs, cancelled) => Passed(q, finished, M, C)
  BY Settled
<1>10. LastSent(t, M, C)
  <2>1. LastSent(s, msgs, cancelled)
    BY <1>2 DEF Chained
  <2>2. \A j \in t.last_sent_i + 2 .. t.next_i : t.data[j].state = "Finish"
    BY <2>1, <1>3 DEF LastSent
  <2>3. t.last_sent_i # NoIndex /\ t.data[t.last_sent_i + 1].state = "Finish" =>
          Passed(t.data[t.last_sent_i + 1].query, t.finished, M, C)
    BY <2>1, <1>2, <1>3, <1>9 DEF LastSent
  <2>4. ASSUME NEW j \in 1..t.next_i, Pending(t, j), Returned(t.net[t.data[j].query])
        PROVE  Passed(t.data[j].query, t.finished, M, C)
    <3>1. PICK q : q = s.data[j].query
      OBVIOUS
    <3>2. q \in Queries
      <4>1. j \in 1..Len(s.data)
        <5>1. s.next_i \in Nat /\ s.next_i <= Len(s.data) /\ Len(s.data) \in Nat /\ t.next_i = s.next_i
          BY <1>2, <1>3, LastNumber DEF Sound, Indexed, States
        <5> QED
          BY <5>1
      <4> QED
        BY <4>1, <3>1, <1>2, LastNumber DEF Entry
    <3>3. Pending(s, j) /\ Returned(N[q]) /\ t.data[j].query = q
      BY <3>1, <2>4, <1>3 DEF Pending
    <3>4. CASE Returned(net[q])
      BY <3>1, <3>3, <3>4, <2>1, <1>2, <1>3, <1>9 DEF LastSent
    <3>5. CASE Passed(q, finished, M, C)
      BY <3>3, <3>5, <1>2, <1>3
    <3> QED
      BY <3>2, <3>3, <3>4, <3>5
  <2> QED
    BY <2>2, <2>3, <2>4 DEF LastSent
<1>11. Chained(t, M, C)
  <2>1. Following(t, M, C)
    BY <1>2, <1>3 DEF Following
  <2> QED
    BY <2>1, <1>10 DEF Chained
<1>12. Accepted' = last
  BY <1>1 DEF Accepted, netOnly, parent
<1>13. ParentOK'
  BY InvFacts DEF ParentOK, NothingLost, netOnly, parent
<1>14. PICK F : F = finished
  OBVIOUS
<1>15. finished' = F /\ MessagesOrdered(F, M, C)
  BY <1>14 DEF netOnly
<1> QED
  BY <1>1, <1>6, <1>8, <1>11, <1>12, <1>13, <1>15 DEF IInv

(* A query invoked after one that was executed in order is in order. *)
LEMMA ChainInOrder ==
  ASSUME NEW q \in Queries, NEW a \in Queries, NEW F, NEW M, NEW C, C \subseteq Int,
         MayFollow(q, a, F, M, C), InOrder(a, F, M, C), a \in DoneIn(M)
  PROVE  InOrder(q, F, M, C)
<1>1. a # NoQuery /\ a \in Int /\ q \in Int
  BY DEF Queries, NoQuery
<1>2. a < q /\ \A p \in a + 1 .. q - 1 : Behind(p, q, F, M, C)
  BY <1>1 DEF MayFollow
<1>3. ASSUME NEW p \in 1 .. q - 1
      PROVE  Behind(p, q, F, M, C)
  <2>1. CASE p > a
    BY <2>1, <1>1, <1>2
  <2>2. CASE p = a
    BY <2>2 DEF Behind
  <2>3. CASE p < a
    <3>1. p \in 1 .. a - 1
      BY <2>3, <1>1
    <3>2. Behind(p, a, F, M, C)
      BY <3>1 DEF InOrder
    <3>3. CASE \E c \in C : p < c /\ c < a
      <4>1. PICK c \in C : p < c /\ c < a
        BY <3>3
      <4>2. c < q
        BY <4>1, <1>1, <1>2
      <4> QED
        BY <4>1, <4>2 DEF Behind
    <3> QED
      BY <3>2, <3>3 DEF Behind
  <2> QED
    BY <2>1, <2>2, <2>3, <1>1
<1> QED
  BY <1>3 DEF InOrder

LEMMA ReadyInOrder ==
  ASSUME IInv, NEW m \in 1..Len(msgs), Ready(m)
  PROVE  /\ msgs[m].query \in Queries
         /\ InOrder(msgs[m].query, finished, msgs, cancelled)
<1>1. /\ MessagesOrdered(finished, msgs, cancelled) /\ cancelled \subseteq Int
      /\ msgs \in Seq(Message)
  BY InvFacts DEF MessagesOrdered
<1>2. \A k \in 1..Len(msgs) : msgs[k] \in Message /\ msgs[k].query \in Queries
  <2>1. \A k \in 1..Len(msgs) : msgs[k] \in Message
    BY <1>1, ElementOfSeq
  <2> QED
    BY <2>1 DEF Message
<1>3. CASE msgs[m].after = 0
  BY <1>1, <1>2, <1>3 DEF MessagesOrdered, MayFollow
<1>4. CASE msgs[m].after # 0
  <2>1. PICK k : k = msgs[m].after
    OBVIOUS
  <2>2. /\ k \in 1..Len(msgs) /\ msgs[k].status = "done"
        /\ MayFollow(msgs[m].query, msgs[k].query, finished, msgs, cancelled)
    BY <2>1, <1>1, <1>4 DEF MessagesOrdered, Ready
  <2>3. /\ InOrder(msgs[k].query, finished, msgs, cancelled) /\ msgs[k].query \in DoneIn(msgs)
    BY <2>2, <1>1 DEF MessagesOrdered, DoneIn
  <2>4. PICK q \in Queries, a \in Queries : q = msgs[m].query /\ a = msgs[k].query
    BY <2>2, <1>2
  <2>5. MayFollow(q, a, finished, msgs, cancelled) /\ InOrder(a, finished, msgs, cancelled)
        /\ a \in DoneIn(msgs)
    BY <2>2, <2>3, <2>4
  <2>6. InOrder(q, finished, msgs, cancelled)
    BY <2>5, <1>1, ChainInOrder
  <2> QED
    BY <2>4, <2>6
<1> QED
  BY <1>3, <1>4

SetStatus(M, m, st) == [M EXCEPT ![m].status = st]

LEMMA StatusSet ==
  ASSUME NEW M \in Seq(Message), NEW m \in 1..Len(M),
         NEW st \in {"done", "failed", "wait_failed"}, NEW N, N = SetStatus(M, m, st)
  PROVE  /\ N \in Seq(Message) /\ Len(N) = Len(M)
         /\ \A k \in 1..Len(M) :
              /\ N[k].status = IF k = m THEN st ELSE M[k].status
              /\ N[k].query = M[k].query /\ N[k].after = M[k].after
<1> DEFINE f == [M[m] EXCEPT !.status = st]
<1>1. M[m] \in Message /\ \A k \in 1..Len(M) : M[k] \in Message
  BY ElementOfSeq
<1>2. f \in Message /\ f.status = st /\ f.query = M[m].query /\ f.after = M[m].after
  BY <1>1 DEF Message
<1>3. N = [M EXCEPT ![m] = f]
  BY DEF SetStatus
<1> HIDE DEF f
<1>4. /\ N \in Seq(Message) /\ Len(N) = Len(M)
      /\ \A k \in 1..Len(M) : N[k] = IF k = m THEN f ELSE M[k]
  BY <1>2, <1>3, ExceptSeq
<1> QED
  BY <1>2, <1>4

(* What Following says of a query in the network. *)
LEMMA NetFacts ==
  ASSUME IInv, NEW q \in Queries
  PROVE  /\ net[q] \in NetEntry
         /\ InNetwork(net[q]) => MayFollow(q, net[q].after, finished, msgs, cancelled)
         /\ net[q].at = "sent" => net[q].msg \in 1..Len(msgs) /\ msgs[net[q].msg].query = q
<1>1. net[q] \in NetEntry
  BY StateIs
<1>2. Following(State, msgs, cancelled) /\ State.net = net /\ State.finished = finished
  BY InvFacts DEF Chained
<1> QED
  BY <1>1, <1>2 DEF Following

LEMMA ServerKeeps ==
  ASSUME IInv, NEW m \in 1..Len(msgs), NEW st \in {"done", "failed", "wait_failed"},
         msgs[m].status = "pending",
         st \in {"done", "failed"} => InOrder(msgs[m].query, finished, msgs, cancelled),
         msgs' = SetStatus(msgs, m, st), UNCHANGED <<netOnly, net, total, cancelled>>
  PROVE  IInv'
<1>1. MessagesOrdered(finished, msgs, cancelled) /\ msgs \in Seq(Message)
  BY InvFacts DEF MessagesOrdered
<1>2. PICK M, C, F : M = msgs' /\ C = cancelled /\ F = finished
  OBVIOUS
<1>3. /\ M \in Seq(Message) /\ Len(M) = Len(msgs)
      /\ \A k \in 1..Len(msgs) :
           /\ M[k].status = IF k = m THEN st ELSE msgs[k].status
           /\ M[k].query = msgs[k].query /\ M[k].after = msgs[k].after
  <2>1. PICK L \in Seq(Message) : L = msgs
    BY <1>1
  <2>2. M = SetStatus(L, m, st) /\ m \in 1..Len(L)
    BY <2>1, <1>2
  <2>3. /\ M \in Seq(Message) /\ Len(M) = Len(L)
        /\ \A k \in 1..Len(L) :
             /\ M[k].status = IF k = m THEN st ELSE L[k].status
             /\ M[k].query = L[k].query /\ M[k].after = L[k].after
    BY <2>2, StatusSet
  <2> QED
    BY <2>1, <2>3
<1>4. DoneIn(msgs) \subseteq DoneIn(M)
  BY <1>3 DEF DoneIn
<1>5. \A q : /\ InOrder(q, finished, msgs, cancelled) => InOrder(q, finished, M, C)
             /\ \A a : MayFollow(q, a, finished, msgs, cancelled) => MayFollow(q, a, finished, M, C)
  BY <1>2, <1>4, Settled
<1>6. MessagesOrdered(finished, M, C)
  <2>1. ASSUME NEW k \in 1..Len(M), M[k].status \in {"done", "failed"}
        PROVE  InOrder(M[k].query, finished, M, C)
    <3>1. CASE k = m
      BY <3>1, <2>1, <1>3, <1>5
    <3>2. CASE k # m
      BY <3>2, <2>1, <1>1, <1>3, <1>5 DEF MessagesOrdered
    <3> QED
      BY <3>1, <3>2
  <2>2. ASSUME NEW k \in 1..Len(M)
        PROVE  /\ M[k].after = 0 => MayFollow(M[k].query, NoQuery, finished, M, C)
               /\ M[k].after # 0 => /\ M[k].after \in 1..Len(M)
                                    /\ MayFollow(M[k].query, M[M[k].after].query, finished, M, C)
    <3>1. CASE M[k].after = 0
      BY <3>1, <1>1, <1>3, <1>5 DEF MessagesOrdered
    <3>2. CASE M[k].after # 0
      <4>1. PICK a : a = msgs[k].after
        OBVIOUS
      <4>2. a \in 1..Len(msgs) /\ MayFollow(msgs[k].query, msgs[a].query, finished, msgs, cancelled)
        BY <4>1, <3>2, <1>1, <1>3 DEF MessagesOrdered
      <4>3. M[k].after = a /\ M[a].query = msgs[a].query /\ M[k].query = msgs[k].query
        BY <4>1, <4>2, <1>3
      <4> QED
        BY <4>2, <4>3, <3>2, <1>3, <1>5
    <3> QED
      BY <3>1, <3>2
  <2> QED
    BY <2>1, <2>2, <1>2, <1>3, InvFacts DEF MessagesOrdered
<1>7. PICK N : N = net
  OBVIOUS
<1>8. ASSUME NEW q \in Queries
      PROVE  /\ InNetwork(N[q]) => MayFollow(q, N[q].after, finished, M, C)
             /\ N[q].at = "sent" => N[q].msg \in 1..Len(M) /\ M[N[q].msg].query = q
  BY <1>3, <1>5, <1>7, NetFacts
<1>9. N \in [Queries -> NetEntry] /\ total' \in [Queries -> Nat] /\ net' = N
  BY <1>7, StateIs
<1>10. UNCHANGED netOnly /\ C = cancelled' /\ M = msgs' /\ cancelled \subseteq C
  BY <1>2
<1>11. \A q \in Queries : /\ N[q].at = "none" <=> net[q].at = "none"
                          /\ N[q].at # "none" => N[q].token = net[q].token
                          /\ Returned(N[q]) => Returned(net[q])
  BY <1>7
<1> QED
  BY <1>4, <1>6, <1>8, <1>9, <1>10, <1>11, NetStep

LEMMA ServerDoneKeeps ==
  ASSUME IInv, NEW m \in 1..Len(msgs), ServerDone(m)
  PROVE  IInv'
<1>1. Ready(m) /\ msgs[m].status = "pending"
  BY DEF ServerDone, Ready
<1>2. InOrder(msgs[m].query, finished, msgs, cancelled)
  BY <1>1, ReadyInOrder
<1>3. msgs' = SetStatus(msgs, m, "done") /\ UNCHANGED <<netOnly, net, total, cancelled>>
  BY DEF ServerDone, SetStatus, limits
<1> QED
  BY <1>1, <1>2, <1>3, ServerKeeps

LEMMA ServerFailedKeeps ==
  ASSUME IInv, NEW m \in 1..Len(msgs), ServerFailed(m)
  PROVE  IInv'
<1>1. Ready(m) /\ msgs[m].status = "pending"
  BY DEF ServerFailed, Ready
<1>2. InOrder(msgs[m].query, finished, msgs, cancelled)
  BY <1>1, ReadyInOrder
<1>3. msgs' = SetStatus(msgs, m, "failed") /\ UNCHANGED <<netOnly, net, total, cancelled>>
  BY DEF ServerFailed, SetStatus
<1> QED
  BY <1>1, <1>2, <1>3, ServerKeeps

LEMMA ServerWaitFailedKeeps ==
  ASSUME IInv, NEW m \in 1..Len(msgs), ServerWaitFailed(m)
  PROVE  IInv'
<1>1. msgs[m].status = "pending"
  BY DEF ServerWaitFailed
<1>2. msgs' = SetStatus(msgs, m, "wait_failed") /\ UNCHANGED <<netOnly, net, total, cancelled>>
  BY DEF ServerWaitFailed, SetStatus, limits
<1> QED
  BY <1>1, <1>2, ServerKeeps

(* The state of one query in the network changes. *)
LEMMA OneMoves ==
  ASSUME IInv, NEW q \in Queries, net[q].at # "none", NEW r \in NetEntry, r.at # "none",
         r.token = net[q].token, net' = [net EXCEPT ![q] = r],
         total' \in [Queries -> Nat], UNCHANGED netOnly, UNCHANGED msgs,
         cancelled \subseteq cancelled', cancelled' \subseteq Queries,
         Returned(r) => Returned(net[q]) \/ Passed(q, finished, msgs, cancelled'),
         InNetwork(r) => r.at # "sent" /\ InNetwork(net[q]) /\ r.after = net[q].after
  PROVE  IInv'
<1>1. PICK N, C, M, F : N = net' /\ C = cancelled' /\ M = msgs /\ F = finished
  OBVIOUS
<1>2. /\ N \in [Queries -> NetEntry] /\ N[q] = r /\ \A p \in Queries : p # q => N[p] = net[p]
  BY <1>1, StateIs
<1>3. MessagesOrdered(F, M, C)
  <2>1. MessagesOrdered(F, M, cancelled) /\ cancelled \subseteq C /\ C \subseteq Queries
    BY <1>1, InvFacts
  <2>2. PICK D : D = cancelled
    OBVIOUS
  <2> QED
    BY <2>1, <2>2, MessagesSettle
<1>4. \A p, a : MayFollow(p, a, finished, msgs, cancelled) => MayFollow(p, a, finished, M, C)
  BY <1>1, Settled
<1>5. ASSUME NEW p \in Queries
      PROVE  /\ Returned(N[p]) => Returned(net[p]) \/ Passed(p, finished, M, C)
             /\ InNetwork(N[p]) => MayFollow(p, N[p].after, finished, M, C)
             /\ N[p].at = "sent" => N[p].msg \in 1..Len(M) /\ M[N[p].msg].query = p
  <2>1. CASE p = q
    BY <2>1, <1>1, <1>2, <1>4, NetFacts DEF InNetwork
  <2>2. CASE p # q
    BY <2>2, <1>1, <1>2, <1>4, NetFacts
  <2> QED
    BY <2>1, <2>2
<1>6. \A p \in Queries : /\ N[p].at = "none" <=> net[p].at = "none"
                         /\ N[p].at # "none" => N[p].token = net[p].token
  BY <1>2
<1>7. /\ MessagesOrdered(finished, M, C) /\ M = msgs' /\ C = cancelled' /\ net' = N
      /\ DoneIn(msgs) \subseteq DoneIn(M) /\ cancelled \subseteq C
  BY <1>1, <1>3
<1> QED
  BY <1>2, <1>5, <1>6, <1>7, NetStep

(* A query in the network is answered. *)
LEMMA AnsweredIs ==
  ASSUME IInv, NEW q \in Queries, NEW kind \in {"ok", "error", "resend"}
  PROVE  \E r \in NetEntry : /\ r.at = "answer" /\ r.kind = kind /\ r.token = net[q].token
                             /\ Answered(q, kind) = [net EXCEPT ![q] = r]
<1>1. net[q] \in NetEntry /\ net \in [Queries -> NetEntry]
  BY StateIs
<1>2. PICK r : r = [net[q] EXCEPT !.at = "answer", !.kind = kind, !.msg = 0]
  OBVIOUS
<1>3. r \in NetEntry /\ r.at = "answer" /\ r.kind = kind /\ r.token = net[q].token
  BY <1>1, <1>2 DEF NetEntry
<1>4. Answered(q, kind) = [net EXCEPT ![q] = r]
  BY <1>1, <1>2 DEF Answered
<1> QED
  BY <1>3, <1>4

LEMMA TotalIs ==
  ASSUME IInv
  PROVE  total \in [Queries -> Nat] /\ cancelled \subseteq Queries
  BY StateIs, InvFacts

LEMMA AnsweredKeeps ==
  ASSUME IInv, NEW q \in Queries, NEW kind \in {"ok", "error", "resend"}, net[q].at # "none",
         net' = Answered(q, kind), UNCHANGED <<netOnly, msgs, total>>,
         cancelled \subseteq cancelled', cancelled' \subseteq Queries,
         kind # "resend" => Passed(q, finished, msgs, cancelled')
  PROVE  IInv'
<1>1. PICK r \in NetEntry : /\ r.at = "answer" /\ r.kind = kind /\ r.token = net[q].token
                            /\ Answered(q, kind) = [net EXCEPT ![q] = r]
  BY AnsweredIs
<1>2. /\ r.at # "none" /\ net' = [net EXCEPT ![q] = r] /\ ~InNetwork(r)
      /\ Returned(r) => kind # "resend"
  BY <1>1 DEF InNetwork, Returned
<1>3. total' \in [Queries -> Nat] /\ UNCHANGED netOnly /\ UNCHANGED msgs
  BY TotalIs
<1>4. Returned(r) => Returned(net[q]) \/ Passed(q, finished, msgs, cancelled')
  BY <1>2
<1> HIDE DEF InNetwork, Returned, Passed, netOnly
<1> QED
  BY <1>1, <1>2, <1>3, <1>4, OneMoves

LEMMA SessionCancelKeeps ==
  ASSUME IInv, NEW q \in Queries, SessionCancel(q)
  PROVE  IInv'
<1>1. /\ net[q].at # "none" /\ net' = Answered(q, "error") /\ cancelled' = cancelled \cup {q}
      /\ UNCHANGED <<netOnly, msgs, total>>
  BY DEF SessionCancel
<1>2. cancelled \subseteq cancelled' /\ cancelled' \subseteq Queries /\ q \in cancelled'
  BY <1>1, TotalIs
<1>3. Passed(q, finished, msgs, cancelled')
  BY <1>2 DEF Passed
<1> QED
  BY <1>1, <1>2, <1>3, AnsweredKeeps

(* The server came to a message that it executed or refused. *)
LEMMA StatusPassed ==
  ASSUME IInv, NEW q \in Queries, Status(q) # "none"
  PROVE  /\ net[q].at = "sent"
         /\ Status(q) \in {"done", "failed"} => Passed(q, finished, msgs, cancelled)
<1>1. net[q].at = "sent" /\ Status(q) = msgs[net[q].msg].status
  BY DEF Status
<1>2. PICK k : k = net[q].msg
  OBVIOUS
<1>3. k \in 1..Len(msgs) /\ msgs[k].query = q /\ Status(q) = msgs[k].status
  BY <1>1, <1>2, NetFacts
<1>4. MessagesOrdered(finished, msgs, cancelled)
  BY InvFacts
<1>5. msgs[k].status \in {"done", "failed"} => InOrder(q, finished, msgs, cancelled)
  BY <1>3, <1>4 DEF MessagesOrdered
<1> QED
  BY <1>1, <1>3, <1>5 DEF Passed

LEMMA SessionAnswerKeeps ==
  ASSUME IInv, NEW q \in Queries, SessionAnswer(q)
  PROVE  IInv'
<1>1. PICK kind \in {"ok", "error", "resend"} :
        /\ net' = Answered(q, kind) /\ Status(q) # "none"
        /\ kind # "resend" => Status(q) \in {"done", "failed"}
  BY DEF SessionAnswer
<1>2. /\ UNCHANGED <<netOnly, msgs, total>> /\ cancelled' = cancelled
  BY DEF SessionAnswer, limits
<1>3. net[q].at # "none" /\ (kind # "resend" => Passed(q, finished, msgs, cancelled'))
  BY <1>1, <1>2, StatusPassed
<1>4. cancelled \subseteq cancelled' /\ cancelled' \subseteq Queries
  BY <1>2, TotalIs
<1> QED
  BY <1>1, <1>2, <1>3, <1>4, AnsweredKeeps

(* A query stays in the network, without a message. *)
LEMMA StaysKeeps ==
  ASSUME IInv, NEW q \in Queries, NEW r \in NetEntry, r.at \in {"session", "delay"},
         InNetwork(net[q]), r.token = net[q].token, r.after = net[q].after,
         net' = [net EXCEPT ![q] = r], total' \in [Queries -> Nat],
         UNCHANGED <<netOnly, msgs, cancelled>>
  PROVE  IInv'
<1>1. r.at # "none" /\ r.at # "sent" /\ ~Returned(r) /\ net[q].at # "none"
  BY DEF Returned, InNetwork
<1>2. /\ cancelled \subseteq cancelled' /\ cancelled' \subseteq Queries
      /\ UNCHANGED netOnly /\ UNCHANGED msgs
  BY TotalIs
<1> QED
  BY <1>1, <1>2, OneMoves

LEMMA SessionResendKeeps ==
  ASSUME IInv, NEW q \in Queries, SessionResend(q)
  PROVE  IInv'
<1>1. net[q].at = "sent"
  BY StatusPassed DEF SessionResend
<1>2. net[q] \in NetEntry /\ net \in [Queries -> NetEntry] /\ total \in [Queries -> Nat]
  BY StateIs
<1>3. PICK r : r = [net[q] EXCEPT !.at = "session", !.msg = 0]
  OBVIOUS
<1>4. /\ r \in NetEntry /\ r.at \in {"session", "delay"} /\ r.token = net[q].token
      /\ r.after = net[q].after
  BY <1>2, <1>3 DEF NetEntry
<1>5. net' = [net EXCEPT ![q] = r]
  BY <1>2, <1>3 DEF SessionResend
<1>6. InNetwork(net[q])
  BY <1>1 DEF InNetwork
<1>7. UNCHANGED <<netOnly, msgs, cancelled>> /\ total' \in [Queries -> Nat]
  BY <1>2 DEF SessionResend, limits
<1> QED
  BY <1>4, <1>5, <1>6, <1>7, StaysKeeps

LEMMA DelayKeeps ==
  ASSUME IInv, NEW q \in Queries, Delay(q)
  PROVE  IInv'
<1>1. net[q].at = "sent" /\ Passed(q, finished, msgs, cancelled)
  BY StatusPassed DEF Delay
<1>2. net[q] \in NetEntry /\ net \in [Queries -> NetEntry] /\ total \in [Queries -> Nat]
  BY StateIs
<1>3. UNCHANGED netOnly /\ UNCHANGED msgs /\ cancelled' = cancelled
  BY DEF Delay, limits
<1>4. total' \in [Queries -> Nat]
  <2>1. total[q] + 1 \in Nat
    BY <1>2
  <2> QED
    BY <1>2, <2>1 DEF Delay
<1>5. CASE total[q] + 1 > TotalLimit
  <2>1. PICK r : r = [net[q] EXCEPT !.at = "answer", !.kind = "error", !.msg = 0, !.slow = TRUE]
    OBVIOUS
  <2>2. r \in NetEntry /\ r.at = "answer" /\ r.token = net[q].token
    BY <1>2, <2>1 DEF NetEntry
  <2>3. net' = [net EXCEPT ![q] = r]
    BY <1>2, <1>5, <2>1 DEF Delay, Answered
  <2>4. ~InNetwork(r) /\ r.at # "none" /\ net[q].at # "none"
    BY <2>2, <1>1 DEF InNetwork
  <2>5. /\ cancelled \subseteq cancelled' /\ cancelled' \subseteq Queries
        /\ Passed(q, finished, msgs, cancelled')
    BY <1>1, <1>3, TotalIs
  <2> QED
    BY <2>2, <2>3, <2>4, <2>5, <1>3, <1>4, OneMoves
<1>6. CASE ~(total[q] + 1 > TotalLimit)
  <2>1. PICK r : r = [net[q] EXCEPT !.at = "delay", !.msg = 0, !.slow = TRUE]
    OBVIOUS
  <2>2. /\ r \in NetEntry /\ r.at \in {"session", "delay"} /\ r.token = net[q].token
        /\ r.after = net[q].after
    BY <1>2, <2>1 DEF NetEntry
  <2>3. net' = [net EXCEPT ![q] = r]
    BY <1>2, <1>6, <2>1 DEF Delay
  <2>4. InNetwork(net[q]) /\ UNCHANGED <<netOnly, msgs, cancelled>>
    BY <1>1, <1>3 DEF InNetwork
  <2> QED
    BY <2>2, <2>3, <2>4, <1>4, StaysKeeps
<1> QED
  BY <1>5, <1>6

LEMMA DelayOverKeeps ==
  ASSUME IInv, NEW q \in Queries, DelayOver(q)
  PROVE  IInv'
<1>1. net[q].at = "delay" /\ net[q].at # "none" /\ InNetwork(net[q])
  BY DEF DelayOver, InNetwork
<1>2. net[q] \in NetEntry /\ net \in [Queries -> NetEntry] /\ total \in [Queries -> Nat]
  BY StateIs
<1>3. UNCHANGED <<netOnly, msgs, total>> /\ cancelled' = cancelled
  BY DEF DelayOver, limits
<1>4. CASE net[q].after # NoQuery
  <2>1. net' = Answered(q, "resend")
    BY <1>4 DEF DelayOver
  <2>2. cancelled \subseteq cancelled' /\ cancelled' \subseteq Queries
    BY <1>3, TotalIs
  <2> QED
    BY <1>1, <1>3, <2>1, <2>2, AnsweredKeeps
<1>5. CASE net[q].after = NoQuery
  <2>1. PICK r : r = [net[q] EXCEPT !.at = "session"]
    OBVIOUS
  <2>2. /\ r \in NetEntry /\ r.at \in {"session", "delay"} /\ r.token = net[q].token
        /\ r.after = net[q].after
    BY <1>2, <2>1 DEF NetEntry
  <2>3. net' = [net EXCEPT ![q] = r]
    BY <1>2, <1>5, <2>1 DEF DelayOver
  <2>4. total' \in [Queries -> Nat] /\ UNCHANGED <<netOnly, msgs, cancelled>>
    BY <1>2, <1>3
  <2> QED
    BY <1>1, <2>2, <2>3, <2>4, StaysKeeps
<1> QED
  BY <1>4, <1>5

WithMessage(M, q, k) == Append(M, [query |-> q, status |-> "pending", after |-> k])

LEMMA MessageAppended ==
  ASSUME NEW M \in Seq(Message), NEW q \in Queries, NEW k \in Nat, NEW N,
         N = WithMessage(M, q, k)
  PROVE  /\ N \in Seq(Message) /\ Len(N) = Len(M) + 1 /\ Len(M) \in Nat
         /\ \A m \in 1..Len(M) : m \in 1..Len(N) /\ N[m] = M[m]
         /\ N[Len(N)].query = q /\ N[Len(N)].status = "pending" /\ N[Len(N)].after = k
         /\ DoneIn(N) = DoneIn(M)
<1>1. PICK e : e = [query |-> q, status |-> "pending", after |-> k]
  OBVIOUS
<1>2. e \in Message /\ e.query = q /\ e.status = "pending" /\ e.after = k
  BY <1>1 DEF Message
<1>3. /\ N \in Seq(Message) /\ Len(N) = Len(M) + 1 /\ Len(M) \in Nat
      /\ \A m \in 1..Len(M) : N[m] = M[m]
      /\ N[Len(M) + 1] = e
  BY <1>1, <1>2, AppendProperties, LenProperties DEF WithMessage
<1>4. \A m \in 1..Len(N) : m \in 1..Len(M) \/ m = Len(N)
  BY <1>3
<1>5. \A m \in 1..Len(M) : m \in 1..Len(N)
  BY <1>3
<1>6. N[Len(N)].status # "done" /\ N[Len(N)] = e
  BY <1>2, <1>3
<1>7. DoneIn(N) = DoneIn(M)
  BY <1>3, <1>4, <1>5, <1>6 DEF DoneIn
<1> QED
  BY <1>2, <1>3, <1>5, <1>6, <1>7

LEMMA SessionSendKeeps ==
  ASSUME IInv, NEW q \in Queries, SessionSend(q)
  PROVE  IInv'
<1>1. net[q].at = "session" /\ net[q].at # "none" /\ InNetwork(net[q])
  BY DEF SessionSend, InNetwork
<1>2. net[q] \in NetEntry /\ net \in [Queries -> NetEntry] /\ total \in [Queries -> Nat]
  BY StateIs
<1>3. UNCHANGED netOnly /\ UNCHANGED total /\ cancelled' = cancelled
  BY DEF SessionSend, limits
<1>4. PICK a : a = net[q].after
  OBVIOUS
<1>5. a \in Queries \cup {NoQuery} /\ MayFollow(q, a, finished, msgs, cancelled)
  BY <1>1, <1>2, <1>4, NetFacts DEF NetEntry
<1>6. CASE a # NoQuery /\ net[a].at # "sent"
  <2>1. net' = Answered(q, "resend") /\ UNCHANGED msgs
    BY <1>4, <1>6 DEF SessionSend
  <2>2. cancelled \subseteq cancelled' /\ cancelled' \subseteq Queries
    BY <1>3, TotalIs
  <2> QED
    BY <1>1, <1>3, <2>1, <2>2, AnsweredKeeps
<1>7. CASE ~(a # NoQuery /\ net[a].at # "sent")
  <2>1. PICK k : k = IF a = NoQuery THEN 0 ELSE net[a].msg
    OBVIOUS
  <2>2. /\ a = NoQuery => k = 0
        /\ a # NoQuery => k \in 1..Len(msgs) /\ msgs[k].query = a
    BY <2>1, <1>5, <1>7, NetFacts
  <2>3. PICK L, F, C : L = msgs /\ F = finished /\ C = cancelled
    OBVIOUS
  <2>4. L \in Seq(Message) /\ MessagesOrdered(F, L, C) /\ C \subseteq Queries
    BY <2>3, InvFacts DEF MessagesOrdered
  <2>5. k \in Nat /\ (a = NoQuery => k = 0)
        /\ (a # NoQuery => k # 0 /\ k \in 1..Len(L) /\ L[k].query = a)
    BY <2>2, <2>3
  <2>6. PICK M : M = WithMessage(L, q, k)
    OBVIOUS
  <2>7. msgs' = M
    BY <2>1, <2>3, <2>6, <1>4, <1>7 DEF SessionSend, WithMessage
  <2>8. /\ M \in Seq(Message) /\ Len(M) = Len(L) + 1 /\ Len(L) \in Nat
        /\ \A m \in 1..Len(L) : m \in 1..Len(M) /\ M[m] = L[m]
        /\ M[Len(M)].query = q /\ M[Len(M)].status = "pending" /\ M[Len(M)].after = k
        /\ DoneIn(M) = DoneIn(L)
    <3>1. L \in Seq(Message) /\ k \in Nat
      BY <2>4, <2>5
    <3> QED
      BY <3>1, <2>6, MessageAppended
  <2>9. \A m \in 1..Len(M) : m \in 1..Len(L) \/ m = Len(M)
    BY <2>8
  <2>10. \A p : /\ InOrder(p, F, L, C) => InOrder(p, F, M, C)
                /\ \A b : MayFollow(p, b, F, L, C) => MayFollow(p, b, F, M, C)
    BY <2>8, Settled
  <2>11. MessagesOrdered(F, M, C)
    <3>1. ASSUME NEW m \in 1..Len(L)
          PROVE  /\ M[m].status \in {"done", "failed"} => InOrder(M[m].query, F, M, C)
                 /\ M[m].after = 0 => MayFollow(M[m].query, NoQuery, F, M, C)
                 /\ M[m].after # 0 => /\ M[m].after \in 1..Len(M)
                                      /\ MayFollow(M[m].query, M[M[m].after].query, F, M, C)
      <4>1. M[m] = L[m]
        BY <2>8
      <4>2. /\ L[m].status \in {"done", "failed"} => InOrder(L[m].query, F, L, C)
            /\ L[m].after = 0 => MayFollow(L[m].query, NoQuery, F, L, C)
            /\ L[m].after # 0 => /\ L[m].after \in 1..Len(L)
                                 /\ MayFollow(L[m].query, L[L[m].after].query, F, L, C)
        BY <2>4 DEF MessagesOrdered
      <4>3. L[m].after # 0 => /\ L[m].after \in 1..Len(M)
                              /\ MayFollow(L[m].query, M[L[m].after].query, F, M, C)
        BY <4>2, <2>8, <2>10
      <4> QED
        BY <4>1, <4>2, <4>3, <2>10
    <3>2. MayFollow(q, a, F, M, C)
      BY <1>5, <2>3, <2>10
    <3>3. ASSUME NEW m, m = Len(M)
          PROVE  /\ M[m].status \in {"done", "failed"} => InOrder(M[m].query, F, M, C)
                 /\ M[m].after = 0 => MayFollow(M[m].query, NoQuery, F, M, C)
                 /\ M[m].after # 0 => /\ M[m].after \in 1..Len(M)
                                      /\ MayFollow(M[m].query, M[M[m].after].query, F, M, C)
      <4>1. M[m].query = q /\ M[m].status = "pending" /\ M[m].after = k
        BY <3>3, <2>8
      <4>2. CASE a = NoQuery
        BY <4>1, <4>2, <3>2, <2>5
      <4>3. CASE a # NoQuery
        <5>1. k # 0 /\ k \in 1..Len(M) /\ M[k].query = a
          BY <4>3, <2>5, <2>8
        <5> QED
          BY <4>1, <5>1, <3>2
      <4> QED
        BY <4>2, <4>3
    <3> QED
      BY <3>1, <3>3, <2>4, <2>8, <2>9 DEF MessagesOrdered
  <2>12. PICK r : r = [net[q] EXCEPT !.at = "sent", !.msg = Len(M)]
    OBVIOUS
  <2>13. /\ r \in NetEntry /\ r.at = "sent" /\ r.token = net[q].token /\ r.after = a
         /\ r.msg = Len(M)
    <3>1. Len(M) \in Nat
      BY <2>8
    <3> QED
      BY <1>2, <1>4, <2>12, <3>1 DEF NetEntry
  <2>14. PICK N : N = [net EXCEPT ![q] = r]
    OBVIOUS
  <2>15. net' = N
    <3>1. Len(msgs) + 1 = Len(M)
      BY <2>3, <2>8
    <3> QED
      BY <3>1, <2>12, <2>14, <1>2, <1>4, <1>7 DEF SessionSend
  <2>16. N \in [Queries -> NetEntry] /\ N[q] = r /\ \A p \in Queries : p # q => N[p] = net[p]
    BY <2>13, <2>14, <1>2
  <2>17. ASSUME NEW p \in Queries
         PROVE  /\ Returned(N[p]) => Returned(net[p]) \/ Passed(p, finished, M, C)
                /\ InNetwork(N[p]) => MayFollow(p, N[p].after, finished, M, C)
                /\ N[p].at = "sent" => N[p].msg \in 1..Len(M) /\ M[N[p].msg].query = p
    <3>1. CASE p = q
      <4>1. ~Returned(r) /\ MayFollow(q, r.after, finished, M, C)
        BY <1>5, <2>3, <2>10, <2>13 DEF Returned
      <4>2. r.msg \in 1..Len(M) /\ M[r.msg].query = q
        BY <2>8, <2>13
      <4> QED
        BY <3>1, <4>1, <4>2, <2>16
    <3>2. CASE p # q
      <4>1. N[p] = net[p]
        BY <3>2, <2>16
      <4>2. /\ InNetwork(net[p]) => MayFollow(p, net[p].after, F, M, C)
            /\ net[p].at = "sent" => net[p].msg \in 1..Len(L) /\ L[net[p].msg].query = p
        BY <2>3, <2>10, NetFacts
      <4>3. net[p].at = "sent" => net[p].msg \in 1..Len(M) /\ M[net[p].msg].query = p
        BY <4>2, <2>8
      <4> QED
        BY <4>1, <4>2, <4>3, <2>3
    <3> QED
      BY <3>1, <3>2
  <2>18. \A p \in Queries : /\ N[p].at = "none" <=> net[p].at = "none"
                            /\ N[p].at # "none" => N[p].token = net[p].token
    BY <2>13, <2>16, <1>1
  <2>19. /\ total' \in [Queries -> Nat] /\ C = cancelled' /\ M = msgs'
         /\ DoneIn(msgs) \subseteq DoneIn(M) /\ cancelled \subseteq C
         /\ MessagesOrdered(finished, M, C)
    BY <1>2, <1>3, <2>3, <2>7, <2>8, <2>11
  <2> QED
    BY <1>3, <2>15, <2>16, <2>17, <2>18, <2>19, NetStep
<1> QED
  BY <1>6, <1>7
-----------------------------------------------------------------------------
(* The invariant holds initially and is kept by every step. *)

LEMMA InitInv ==
  ASSUME Init
  PROVE  IInv
<1>1. /\ data = <<>> /\ id_offset = 1 /\ finish_i = 0 /\ next_i = 0 /\ last_sent_i = NoIndex
      /\ generation = 1 /\ wait_cnt = 0 /\ timer = FALSE /\ msgs = <<>> /\ outbox = <<>>
      /\ open = FALSE /\ cnt = 0 /\ inbox = <<>> /\ given = 0 /\ finished = {}
      /\ cancelled = {} /\ lost = {}
  BY DEF Init
<1>2. net = [q \in Queries |-> Nowhere] /\ total = [q \in Queries |-> 0]
  BY DEF Init
<1>3. net \in [Queries -> NetEntry] /\ \A q \in Queries : net[q].at = "none"
  BY <1>2 DEF Nowhere, NetEntry, NoQuery
<1>4. total \in [Queries -> Nat]
  BY <1>2
<1>5. PICK t : t = State
  OBVIOUS
<1>6. /\ t.data = <<>> /\ t.id_offset = 1 /\ t.finish_i = 0 /\ t.next_i = 0
      /\ t.last_sent_i = NoIndex /\ t.generation = 1 /\ t.wait_cnt = 0
      /\ t.net = net /\ t.finished = {} /\ Len(t.data) = 0
  BY <1>1, <1>5 DEF State
<1>7. t \in States
  <2>1. <<>> \in Seq(Entry) /\ outbox \in Seq({"result", "ready"})
    BY <1>1, EmptySeq
  <2>2. t = [data |-> <<>>, id_offset |-> 1, finish_i |-> 0, next_i |-> 0,
             last_sent_i |-> NoIndex, generation |-> 1, wait_cnt |-> 0, timer |-> FALSE,
             net |-> net, total |-> total, outbox |-> outbox, finished |-> {}]
    BY <1>1, <1>5 DEF State
  <2> QED
    BY <2>1, <2>2, <1>3, <1>4 DEF States
<1>8. Sound(t, 0)
  <2>1. Numbered(t, 0) /\ Indexed(t) /\ CurrentChain(t)
    BY <1>6 DEF Numbered, Indexed, CurrentChain, NoIndex
  <2>2. Tokens(t)
    BY <1>3, <1>6 DEF Tokens
  <2>3. Counted(t)
    <3>1. WaitSet(t) = {}
      BY <1>6 DEF WaitSet
    <3> QED
      BY <3>1, <1>6, FS_EmptySet DEF Counted
  <2>4. Finishing(t, 0)
    BY <1>6 DEF Finishing
  <2> QED
    BY <2>1, <2>2, <2>3, <2>4, <1>7 DEF Sound
<1>9. Dummies(t) = {}
  BY <1>6 DEF Dummies
<1>10. Chained(t, msgs, cancelled)
  BY <1>3, <1>6 DEF Chained, LastSent, Following, InNetwork, NoIndex
<1>11. MessagesOrdered(finished, msgs, cancelled)
  BY <1>1 DEF MessagesOrdered
<1>12. Accepted = 0
  <2>1. given = 0 /\ Len(inbox) = 0
    BY <1>1
  <2> QED
    BY <2>1 DEF Accepted
<1>13. ParentOK
  <2>1. Balance({}, <<>>, 0) = 0
    <3>1. (1..0) \ {} = {} /\ Results(<<>>) = {}
      BY DEF Results
    <3> QED
      BY <3>1, FS_EmptySet DEF Balance
  <2>2. MaxQueries \in Nat
    BY SequenceDispatcherAssumption
  <2>3. inbox \in Seq(Queries) /\ Len(inbox) = 0
    BY <1>1
  <2>4. cnt = Balance(finished, outbox, given) /\ lost = {} /\ given = 0 /\ cnt = 0
    BY <2>1, <1>1
  <2>5. /\ given \in 0..MaxQueries /\ cnt \in Nat /\ Len(inbox) <= given
        /\ \A k \in 1..Len(inbox) : inbox[k] = given - Len(inbox) + k
    BY <2>2, <2>3, <2>4
  <2>6. open \in BOOLEAN
    BY <1>1
  <2> QED
    BY <2>3, <2>4, <2>5, <2>6 DEF ParentOK, NothingLost
<1> QED
  BY <1>5, <1>8, <1>9, <1>10, <1>11, <1>12, <1>13 DEF IInv

LEMMA StutterKeeps ==
  ASSUME IInv, UNCHANGED vars
  PROVE  IInv'
<1>1. /\ UNCHANGED <<data, indices, net, total, finished, msgs, cancelled>>
      /\ timer' = timer /\ outbox' = outbox /\ UNCHANGED <<open, cnt, given, inbox, lost>>
  BY DEF vars, parent, limits
<1>2. Accepted' = Accepted
  BY <1>1 DEF Accepted
<1>3. ParentOK'
  BY <1>1, InvFacts DEF ParentOK, NothingLost
<1>4. timer' \in BOOLEAN /\ outbox' \in Seq({"result", "ready"})
  BY <1>1, StateIs
<1> QED
  BY <1>1, <1>2, <1>3, <1>4, CoreStep

LEMMA NextInv ==
  ASSUME IInv, [Next]_vars
  PROVE  IInv'
<1>1. CASE ParentSend
  BY <1>1, ParentSendKeeps
<1>2. CASE ParentResult
  BY <1>2, ParentResultKeeps
<1>3. CASE ParentReadyToClose
  BY <1>3, ParentReadyToCloseKeeps
<1>4. CASE SendWithCallback
  BY <1>4, SendWithCallbackKeeps
<1>5. CASE TimeoutExpired
  BY <1>5, TimeoutExpiredKeeps
<1>6. CASE \E q \in Queries : Handled(q) \/ OnResendOk(q)
  <2>1. PICK q \in Queries : OnResult(q) \/ OnResendError(q) \/ OnResendOk(q)
    BY <1>6 DEF Handled
  <2> QED
    BY <2>1, OnResultKeeps, OnResendErrorKeeps, OnResendOkKeeps
<1>7. CASE \E q \in Queries : Carried(q) \/ SessionCancel(q) \/ SessionResend(q) \/ Delay(q)
  <2>1. PICK q \in Queries : Carried(q) \/ SessionCancel(q) \/ SessionResend(q) \/ Delay(q)
    BY <1>7
  <2>2. CASE Carried(q)
    BY <2>2, SessionSendKeeps, SessionAnswerKeeps, DelayOverKeeps DEF Carried
  <2> QED
    BY <2>1, <2>2, SessionCancelKeeps, SessionResendKeeps, DelayKeeps
<1>8. CASE \E m \in 1..Len(msgs) : ServerDone(m) \/ ServerFailed(m) \/ ServerWaitFailed(m)
  BY <1>8, ServerDoneKeeps, ServerFailedKeeps, ServerWaitFailedKeeps
<1>9. CASE UNCHANGED vars
  BY <1>9, StutterKeeps
<1> QED
  BY <1>1, <1>2, <1>3, <1>4, <1>5, <1>6, <1>7, <1>8, <1>9 DEF Next

LEMMA Invariance == Spec => []IInv
<1>1. Init => IInv
  BY InitInv
<1>2. IInv /\ [Next]_vars => IInv'
  BY NextInv
<1> QED
  BY <1>1, <1>2, PTL DEF Spec
-----------------------------------------------------------------------------
(* What the invariant says of answers and their entries. *)

LEMMA EntryOf ==
  ASSUME IInv, NEW q \in Queries, net[q].at # "none"
  PROVE  \E j \in 1..Len(data) : /\ data[j].query = q /\ data[j].state = "Wait"
                                 /\ net[q].token = j - 1 + id_offset
<1>1. /\ Tokens(State) /\ Dummies(State) = {} /\ State.data = data /\ State.net = net
      /\ State.id_offset = id_offset
  BY InvFacts DEF Sound
<1>2. PICK j \in 1..Len(data) : /\ data[j].query = q /\ Pending(State, j)
                                /\ net[q].token = j - 1 + id_offset
  BY <1>1 DEF Tokens
<1>3. data[j].state # "Dummy" /\ data[j].state \in {"Wait", "Dummy"}
  BY <1>1, <1>2 DEF Dummies, Pending
<1> QED
  BY <1>2, <1>3

LEMMA WaitsCounted ==
  ASSUME IInv
  PROVE  /\ wait_cnt \in Nat /\ wait_cnt = Cardinality(Awaited)
         /\ wait_cnt = Cardinality({ j \in 1..Len(data) : data[j].state = "Wait" })
<1> DEFINE W == WaitSet(State)
           J == { j \in 1..Len(data) : data[j].state = "Wait" }
<1>1. /\ Sound(State, Accepted) /\ State.data = data /\ State.net = net
      /\ State.wait_cnt = wait_cnt
  BY InvFacts DEF State
<1>2. /\ Len(data) \in Nat /\ \A j \in 1..Len(data) : data[j] \in Entry
      /\ \A i, j \in 1..Len(data) : data[i].query = data[j].query => i = j
  BY <1>1, LastNumber
<1>3. IsFiniteSet(W) /\ Cardinality(W) \in Nat
  BY <1>1, <1>2, WaitSetFinite, FS_CardinalityType
<1>4. W = { i \in 0..Len(data) - 1 : data[i + 1].state = "Wait" }
  BY <1>1 DEF WaitSet
<1>5. wait_cnt = Cardinality(W)
  BY <1>1 DEF Sound, Counted
<1>6. Cardinality(J) = Cardinality(W)
  <2> DEFINE f == [i \in W |-> i + 1]
  <2>1. f \in [W -> J]
    BY <1>2, <1>4
  <2>2. \A x, y \in W : f[x] = f[y] => x = y
    BY <1>2, <1>4
  <2>3. ASSUME NEW y \in J
        PROVE  \E x \in W : f[x] = y
    <3>1. y - 1 \in W /\ f[y - 1] = y
      BY <1>2, <1>4
    <3> QED
      BY <3>1
  <2> HIDE DEF f, W, J
  <2> QED
    BY <2>1, <2>2, <2>3, <1>3, SameCount
<1>7. Cardinality(Awaited) = Cardinality(W)
  <2> DEFINE f == [i \in W |-> data[i + 1].query]
  <2>1. \A i \in W : i \in Int /\ i + 1 \in 1..Len(data) /\ data[i + 1].state = "Wait"
    BY <1>2, <1>4
  <2>2. ASSUME NEW i \in W
        PROVE  data[i + 1].query \in Awaited
    <3>1. PICK j : j = i + 1
      OBVIOUS
    <3>2. j \in 1..Len(data) /\ Pending(State, j)
      BY <3>1, <2>1, <1>1 DEF Pending
    <3>3. net[data[j].query].at # "none" /\ data[j].query \in Queries
      BY <3>2, <1>1, <1>2 DEF Sound, Tokens, Entry
    <3> QED
      BY <3>1, <3>3 DEF Awaited
  <2>3. f \in [W -> Awaited]
    BY <2>2
  <2>4. ASSUME NEW x \in W, NEW y \in W, f[x] = f[y]
        PROVE  x = y
    <3>1. x + 1 = y + 1
      BY <2>1, <2>4, <1>2
    <3> QED
      BY <3>1, <2>1
  <2>5. ASSUME NEW q \in Awaited
        PROVE  \E x \in W : f[x] = q
    <3>1. q \in Queries /\ net[q].at # "none"
      BY DEF Awaited
    <3>2. PICK j \in 1..Len(data) : data[j].query = q /\ data[j].state = "Wait"
      BY <3>1, EntryOf
    <3>3. PICK i : i = j - 1
      OBVIOUS
    <3>4. i \in 0..Len(data) - 1 /\ i + 1 = j
      BY <3>3, <1>2
    <3>5. i \in W
      BY <3>2, <3>4, <1>4
    <3> QED
      BY <3>2, <3>4, <3>5
  <2> HIDE DEF f, W
  <2> QED
    BY <2>3, <2>4, <2>5, <1>3, SameCount
<1> QED
  BY <1>3, <1>5, <1>6, <1>7
-----------------------------------------------------------------------------
(* When a message is executed, its query is the only one executed anew. *)

LEMMA DoneAnew ==
  ASSUME NEW M \in Seq(Message), NEW m \in 1..Len(M), M[m].status = "pending",
         NEW st \in {"done", "failed", "wait_failed"}, NEW N, N = SetStatus(M, m, st)
  PROVE  DoneIn(N) \subseteq IF st = "done" THEN DoneIn(M) \cup {M[m].query} ELSE DoneIn(M)
<1>1. /\ Len(N) = Len(M)
      /\ \A k \in 1..Len(M) :
           /\ N[k].status = IF k = m THEN st ELSE M[k].status
           /\ N[k].query = M[k].query
  BY StatusSet
<1>2. ASSUME NEW q \in DoneIn(N)
      PROVE  q \in DoneIn(M) \/ (st = "done" /\ q = M[m].query)
  <2>1. PICK k \in 1..Len(N) : N[k].status = "done" /\ q = N[k].query
    BY DEF DoneIn
  <2>2. CASE k = m
    BY <2>1, <2>2, <1>1
  <2>3. CASE k # m
    BY <2>1, <2>3, <1>1 DEF DoneIn
  <2> QED
    BY <2>2, <2>3
<1> QED
  BY <1>2

LEMMA ExecutedAnew ==
  ASSUME IInv, [Next]_vars, NEW q \in Executed', q \notin Executed
  PROVE  InOrder(q, finished, msgs, cancelled)
<1>1. PICK M, N : M = msgs /\ N = msgs'
  OBVIOUS
<1>2. Executed = DoneIn(M) /\ Executed' = DoneIn(N)
  BY <1>1 DEF Executed, DoneIn
<1>3. M \in Seq(Message)
  BY <1>1, InvFacts DEF MessagesOrdered
<1>4. CASE M = N
  BY <1>2, <1>4
<1>5. ASSUME NEW m \in 1..Len(msgs), ServerDone(m)
      PROVE  InOrder(q, finished, msgs, cancelled)
  <2>1. Ready(m) /\ M[m].status = "pending" /\ m \in 1..Len(M) /\ N = SetStatus(M, m, "done")
    BY <1>1, <1>5 DEF ServerDone, Ready, SetStatus
  <2>2. DoneIn(N) \subseteq DoneIn(M) \cup {M[m].query}
    BY <2>1, <1>3, DoneAnew
  <2>3. q = msgs[m].query
    BY <2>2, <1>1, <1>2
  <2> QED
    BY <2>1, <2>3, ReadyInOrder
<1>6. ASSUME NEW m \in 1..Len(msgs), ServerFailed(m) \/ ServerWaitFailed(m)
      PROVE  FALSE
  <2>1. PICK st \in {"failed", "wait_failed"} : N = SetStatus(M, m, st)
    BY <1>1, <1>6 DEF ServerFailed, ServerWaitFailed, SetStatus
  <2>2. M[m].status = "pending" /\ m \in 1..Len(M)
    BY <1>1, <1>6 DEF ServerFailed, ServerWaitFailed, Ready
  <2>3. st \in {"done", "failed", "wait_failed"} /\ st # "done"
    OBVIOUS
  <2>4. DoneIn(N) \subseteq DoneIn(M)
    BY <2>1, <2>2, <2>3, <1>3, DoneAnew
  <2> QED
    BY <2>4, <1>2
<1>7. ASSUME NEW p \in Queries, SessionSend(p)
      PROVE  FALSE
  <2>1. CASE UNCHANGED msgs
    BY <2>1, <1>1, <1>2
  <2>2. CASE ~UNCHANGED msgs
    <3>1. PICK a : a = net[p].after
      OBVIOUS
    <3>2. /\ ~(a # NoQuery /\ net[a].at # "sent")
          /\ N = WithMessage(M, p, IF a = NoQuery THEN 0 ELSE net[a].msg)
      BY <2>2, <3>1, <1>1, <1>7 DEF SessionSend, WithMessage
    <3>3. a \in Queries \cup {NoQuery}
      BY <3>1, NetFacts DEF NetEntry
    <3>4. a # NoQuery => net[a].msg \in Nat
      BY <3>3, NetFacts DEF NetEntry
    <3>5. PICK k \in Nat : k = IF a = NoQuery THEN 0 ELSE net[a].msg
      BY <3>4
    <3>6. N = WithMessage(M, p, k)
      BY <3>2, <3>5
    <3>7. DoneIn(N) = DoneIn(M)
      BY <3>6, <1>3, MessageAppended
    <3> QED
      BY <3>7, <1>2
  <2> QED
    BY <2>1, <2>2
<1>8. CASE UNCHANGED vars \/ ParentSend \/ ParentResult \/ ParentReadyToClose
           \/ SendWithCallback \/ TimeoutExpired
  <2>1. M = N
    BY <1>8, <1>1 DEF vars, ParentSend, ParentResult, ParentReadyToClose, SendWithCallback,
                      TimeoutExpired
  <2> QED
    BY <2>1, <1>4
<1>9. ASSUME NEW p \in Queries, \/ OnResult(p) \/ OnResendError(p) \/ OnResendOk(p)
                                \/ SessionAnswer(p) \/ DelayOver(p)
                                \/ SessionCancel(p) \/ SessionResend(p) \/ Delay(p)
      PROVE  M = N
  BY <1>9, <1>1 DEF OnResult, OnResendError, OnResendOk, SessionAnswer, DelayOver,
                    SessionCancel, SessionResend, Delay
<1>10. CASE \E p \in Queries : \/ Handled(p) \/ OnResendOk(p)
                               \/ Carried(p) \/ SessionCancel(p) \/ SessionResend(p) \/ Delay(p)
  BY <1>10, <1>4, <1>7, <1>9 DEF Handled, Carried
<1>11. CASE \E m \in 1..Len(msgs) : ServerDone(m) \/ ServerFailed(m) \/ ServerWaitFailed(m)
  BY <1>11, <1>5, <1>6
<1> QED
  BY <1>8, <1>10, <1>11 DEF Next
-----------------------------------------------------------------------------
(* The theorems. *)

(***************************************************************************)
(* The fields of SequenceDispatcher keep their types; the indices of       *)
(* loop() and try_shrink() stay in order and within data_, and no handler  *)
(* leaves an entry in the state Dummy of data_from_token().                *)
(***************************************************************************)
THEOREM TypeCorrect == Spec => []TypeOK
<1>1. IInv => TypeOK
  <2> SUFFICES ASSUME IInv
               PROVE  TypeOK
    OBVIOUS
  <2>1. data \in Seq([state : {"Start", "Wait", "Finish"}, generation : Nat, total : Nat,
                      query : Queries])
    <3>1. /\ Dummies(State) = {} /\ State.data = data /\ data \in Seq(Entry)
      BY InvFacts, StateIs
    <3>2. Len(data) \in Nat /\ \A j \in 1..Len(data) : data[j] \in Entry
      BY <3>1, LenProperties, ElementOfSeq
    <3>3. \A j \in 1..Len(data) : data[j].state # "Dummy"
      BY <3>1 DEF Dummies
    <3>4. \A j \in 1..Len(data) :
            data[j] \in [state : {"Start", "Wait", "Finish"}, generation : Nat, total : Nat,
                         query : Queries]
      BY <3>2, <3>3 DEF Entry
    <3>5. data = [j \in 1..Len(data) |-> data[j]]
      BY <3>1, LenProperties
    <3> QED
      BY <3>2, <3>4, <3>5, FunctionIsSeq
  <2>2. {id_offset, finish_i, next_i, generation, wait_cnt, cnt} \subseteq Nat
    BY StateIs, WaitsCounted, InvFacts DEF ParentOK
  <2>3. last_sent_i \in Nat \cup {NoIndex}
    BY StateIs
  <2>4. finish_i <= next_i /\ next_i <= Len(data) /\ last_sent_i < next_i
    BY InvFacts DEF Sound, Indexed, State
  <2> QED
    BY <2>1, <2>2, <2>3, <2>4 DEF TypeOK
<1> QED
  BY <1>1, Invariance, PTL

(***************************************************************************)
(* The CHECKs of data_from_token() never fail: whatever was shrunk, resent *)
(* or finished since a token was given out, it names the awaited entry of  *)
(* its query, and wait_cnt_ counts the awaited entries.                    *)
(***************************************************************************)
THEOREM AnswersArrive == Spec => []AnswersFindTheirQuery
<1>1. IInv => AnswersFindTheirQuery
  <2> SUFFICES ASSUME IInv
               PROVE  AnswersFindTheirQuery
    OBVIOUS
  <2>1. ASSUME NEW q \in Awaited
        PROVE  /\ net[q].token - id_offset \in 0 .. Len(data) - 1
               /\ data[net[q].token - id_offset + 1].query = q
               /\ data[net[q].token - id_offset + 1].state = "Wait"
    <3>1. q \in Queries /\ net[q].at # "none"
      BY DEF Awaited
    <3>2. PICK j \in 1..Len(data) : /\ data[j].query = q /\ data[j].state = "Wait"
                                    /\ net[q].token = j - 1 + id_offset
      BY <3>1, EntryOf
    <3>3. id_offset \in Nat /\ Len(data) \in Nat
      BY StateIs, LenProperties
    <3>4. net[q].token - id_offset = j - 1 /\ j - 1 \in 0..Len(data) - 1 /\ j - 1 + 1 = j
      BY <3>2, <3>3
    <3> QED
      BY <3>2, <3>4
  <2> QED
    BY <2>1, WaitsCounted DEF AnswersFindTheirQuery
<1> QED
  BY <1>1, Invariance, PTL

(***************************************************************************)
(* loop() misses no query: in front of next_i_ nothing waits to be sent,   *)
(* and what is awaited there belongs to the current generation, so that    *)
(* do_resend() will move next_i_ back for it.                              *)
(***************************************************************************)
THEOREM NoneIsSkipped == Spec => []NothingSkipped
<1>1. IInv => NothingSkipped
  <2> SUFFICES ASSUME IInv
               PROVE  NothingSkipped
    OBVIOUS
  <2>1. CurrentChain(State) /\ State.data = data /\ State.next_i = next_i
        /\ State.generation = generation
    BY InvFacts DEF Sound, State
  <2> QED
    BY <2>1 DEF CurrentChain, Pending, NothingSkipped
<1> QED
  BY <1>1, Invariance, PTL

(***************************************************************************)
(* MultiSequenceDispatcher never closes a dispatcher that has an           *)
(* unfinished query: cnt_ counts those and the results still on their way. *)
(***************************************************************************)
THEOREM NoneIsLost == Spec => []NothingLost
<1>1. IInv => NothingLost
  BY InvFacts DEF ParentOK
<1> QED
  BY <1>1, Invariance, PTL

(***************************************************************************)
(* The server executes the queries in the order they were given to         *)
(* send_with_callback(), except across a query that its owner cancelled.   *)
(***************************************************************************)
THEOREM OrderIsKept == Spec => ExecutedInOrder
<1>1. IInv /\ [Next]_vars =>
        [\A q \in Executed' \ Executed : \A p \in 1 .. q - 1 :
           \/ p \in Executed \cup finished
           \/ \E c \in cancelled : p < c /\ c < q]_vars
  <2> SUFFICES ASSUME IInv, [Next]_vars, NEW q \in Executed' \ Executed, NEW p \in 1 .. q - 1
               PROVE  \/ p \in Executed \cup finished
                      \/ \E c \in cancelled : p < c /\ c < q
    OBVIOUS
  <2>1. InOrder(q, finished, msgs, cancelled)
    BY ExecutedAnew
  <2>2. Executed = DoneIn(msgs)
    BY DEF Executed, DoneIn
  <2> QED
    BY <2>1, <2>2 DEF InOrder, Behind
<1> QED
  BY <1>1, Invariance, PTL DEF Spec, ExecutedInOrder
=============================================================================
