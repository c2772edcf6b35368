--------------------------- MODULE Session_proofs ---------------------------
(***************************************************************************)
(* Proofs about Session, for every set of queries, every order of          *)
(* invocation and any number of connections, packets and troubles.         *)
(*                                                                         *)
(* The handlers are operators on the record of the session, so most lemmas *)
(* are about a handler and not about a step: if the record is Sound, with  *)
(* some queries in the handler's hands (H), some messages taken to be gone *)
(* already (G) and some containers about to go (X), it is Sound after the  *)
(* handler, and the handler keeps (Keeps) what the other parts rely on.    *)
(* Loops are followed one turn at a time: the first turn after which the   *)
(* record was not sound does not exist.  IInv adds what is under way on    *)
(* the connection: only there the questions for the unknown queries are.   *)
(***************************************************************************)
EXTENDS Session, FiniteSetTheorems, SequenceTheorems, WellFoundedInduction, TLAPS

(* A non-empty set of natural numbers has a least element. *)
LEMMA LeastNat ==
  ASSUME NEW T \in SUBSET Nat, T # {}
  PROVE  \E x \in T : \A y \in T : x <= y
<1>1. IsWellFoundedOn({ss \in Nat \X Nat : ss[1] < ss[2]}, Nat)
  BY NatLessThanWellFounded, Zenon DEF OpToRel
<1>2. PICK R : /\ IsWellFoundedOn(R, Nat)
               /\ \A x, y \in Nat : y < x => <<y, x>> \in R
  <2>1. \A x, y \in Nat : y < x => <<y, x>> \in {ss \in Nat \X Nat : ss[1] < ss[2]}
    OBVIOUS
  <2> QED
    BY <1>1, <2>1, Zenon
<1>3. PICK x \in T : \A y \in T : ~(<<y, x>> \in R)
  BY <1>2, WFMin
<1>4. ASSUME NEW y \in T
      PROVE  x <= y
  <2>1. ~(y < x)
    BY <1>2, <1>3, Zenon
  <2> QED
    BY <2>1
<1> QED
  BY <1>4
-----------------------------------------------------------------------------
(* the members of Session and SessionConnection *)
Fields ==
  { "pending", "parked", "sent", "containers", "unknown", "state", "to_send",
    "to_get_state_info", "to_resend_answer", "next", "closed", "given", "returned", "renewed" }

IsSession(d) == d = [f \in Fields |-> d[f]]

(* e is d but for the members of S *)
Same(d, e, S) == IsSession(e) /\ \A f \in Fields \ S : e[f] = d[f]

Sendings == [id : Nat, query : Queries, after : Nat]

(* What there is on the connection when N is the next message id. *)
Packets(N) ==
  [id : Nat, msgs : Seq(Sendings), info : SUBSET (1 .. N - 1), resend : SUBSET (1 .. N - 1)]

Messages(N) ==
  [type : {"ack", "result", "created"}, id : Nat]
    \cup [type : {"info"}, id : Nat, is_received : BOOLEAN, large : BOOLEAN]
    \cup [type : {"infos"}, ids : SUBSET (1 .. N - 1), received : SUBSET (1 .. N - 1)]
    \cup [type : {"failed"}, packet : Packets(N)]

Entries(N) == [query : Queries, container_id : 1 .. N - 1, ack : BOOLEAN]

Typed(d) ==
  /\ IsSession(d)
  /\ d.next \in Nat \ {0}
  /\ d.pending \in Seq(Queries) /\ d.parked \in Seq(Queries)
  /\ DOMAIN d.sent \subseteq 1 .. d.next - 1
  /\ \A m \in DOMAIN d.sent : d.sent[m] \in Entries(d.next)
  /\ d.returned \in [Queries -> Nat]
  /\ d.given \subseteq Queries /\ d.renewed \subseteq d.given
  /\ d.to_send \in Seq(Sendings)
  /\ d.to_get_state_info \subseteq 1 .. d.next - 1
  /\ d.to_resend_answer \subseteq 1 .. d.next - 1

Elements(q) == { q[i] : i \in 1..Len(q) }
Distinct(q) == \A i, j \in 1..Len(q) : q[i] = q[j] => i = j

SentQueries(sent) == { sent[m].query : m \in DOMAIN sent }
ReturnedQueries(returned) == { q \in Queries : returned[q] # 0 }
OneId(sent) == \A m, k \in DOMAIN sent : sent[m].query = sent[k].query => m = k
Once(returned) == \A q \in Queries : returned[q] \in {0, 1}

Parts(A, B, C, D, E, G) ==
  /\ G = A \cup B \cup C \cup D \cup E
  /\ A \cap B = {} /\ A \cap C = {} /\ A \cap D = {} /\ A \cap E = {}
  /\ B \cap C = {} /\ B \cap D = {} /\ B \cap E = {}
  /\ C \cap D = {} /\ C \cap E = {} /\ D \cap E = {}

(* Each query is in one place; those of H are in nobody's but the          *)
(* handler's hands.                                                        *)
Placed(d, H) ==
  /\ Parts(Elements(d.pending), Elements(d.parked), SentQueries(d.sent),
           ReturnedQueries(d.returned), H, d.given)
  /\ Distinct(d.pending) /\ Distinct(d.parked)
  /\ OneId(d.sent) /\ Once(d.returned)

(* the messages of container id, without those of G *)
Inside(sent, id, G) == { m \in DOMAIN sent \ G : sent[m].container_id = id }

(* ref_cnt is right, if the messages of G are taken to be gone, for all    *)
(* containers but those of X; message_ids are right for all.               *)
Contents(containers, sent, next, G, X) ==
  /\ DOMAIN containers \subseteq (1 .. next - 1) \ DOMAIN sent
  /\ \A id \in DOMAIN containers :
       /\ containers[id] \in [ref_cnt : Nat \ {0}, message_ids : SUBSET (1 .. next - 1)]
       /\ id \notin X => containers[id].ref_cnt = Cardinality(Inside(sent, id, G))
       /\ \A m \in containers[id].message_ids \cap DOMAIN sent : sent[m].container_id = id

Contained(d, G, X) == Contents(d.containers, d.sent, d.next, G, X)

(* What is to be sent is in no container yet. *)
NotSent(to_send, sent, next) ==
  /\ \A i \in 1..Len(to_send) :
       /\ to_send[i].id \in 1 .. next - 1
       /\ to_send[i].id \in DOMAIN sent => sent[to_send[i].id].container_id = to_send[i].id
  /\ \A i, j \in 1..Len(to_send) : to_send[i].id = to_send[j].id => i = j

Unsent(d) == NotSent(d.to_send, d.sent, d.next)

(* unknown_queries_ holds what was sent and not acknowledged; ms aside *)
UnknownIsSent(d, ms) == \A m \in d.unknown \ ms : m \in DOMAIN d.sent /\ d.sent[m].ack = FALSE

ParkedWait(d) == d.parked # <<>> => d.unknown # {}

Nearly(d, H, G, X, ms) ==
  /\ Typed(d) /\ Placed(d, H) /\ Contained(d, G, X) /\ Unsent(d)
  /\ UnknownIsSent(d, ms) /\ ParkedWait(d)

Sound(d, H, G, X) == Nearly(d, H, G, X, {})
-----------------------------------------------------------------------------
(* Sequences without repetition. *)

LEMMA ElementsEmpty == Elements(<<>>) = {} /\ Distinct(<<>>)
  BY DEF Elements, Distinct

LEMMA ElementsAppend ==
  ASSUME NEW S, NEW q \in Seq(S), NEW x \in S, x \notin Elements(q), Distinct(q)
  PROVE  /\ Append(q, x) \in Seq(S)
         /\ Elements(Append(q, x)) = Elements(q) \cup {x} /\ Distinct(Append(q, x))
<1>1. PICK r : r = Append(q, x)
  OBVIOUS
<1>2. /\ r \in Seq(S) /\ Len(r) = Len(q) + 1 /\ Len(q) \in Nat
      /\ \A i \in 1..Len(q) : r[i] = q[i]
      /\ r[Len(q) + 1] = x
  BY <1>1, AppendProperties
<1>3. \A i \in 1..Len(r) : i \in 1..Len(q) \/ i = Len(q) + 1
  BY <1>2
<1>4. \A i \in 1..Len(q) : i \in 1..Len(r) /\ i # Len(q) + 1
  BY <1>2
<1>5. Len(q) + 1 \in 1..Len(r)
  BY <1>2
<1>6. Elements(r) = Elements(q) \cup {x}
  BY <1>2, <1>3, <1>4, <1>5 DEF Elements
<1>7. \A i \in 1..Len(q) : q[i] # x
  BY DEF Elements
<1>8. Distinct(r)
  BY <1>2, <1>3, <1>7 DEF Distinct
<1> QED
  BY <1>1, <1>2, <1>6, <1>8

LEMMA ElementsConcat ==
  ASSUME NEW S, NEW q \in Seq(S), NEW r \in Seq(S), Elements(q) \cap Elements(r) = {},
         Distinct(q), Distinct(r)
  PROVE  /\ q \o r \in Seq(S)
         /\ Elements(q \o r) = Elements(q) \cup Elements(r) /\ Distinct(q \o r)
<1>1. PICK p : p = q \o r
  OBVIOUS
<1>2. /\ p \in Seq(S) /\ Len(p) = Len(q) + Len(r) /\ Len(q) \in Nat /\ Len(r) \in Nat
      /\ \A i \in 1..Len(p) : p[i] = IF i <= Len(q) THEN q[i] ELSE r[i - Len(q)]
  BY <1>1, ConcatProperties
<1>3. \A i \in 1..Len(q) : i \in 1..Len(p) /\ p[i] = q[i]
  BY <1>2
<1>4. \A i \in 1..Len(r) : i + Len(q) \in 1..Len(p) /\ p[i + Len(q)] = r[i]
  <2> SUFFICES ASSUME NEW i \in 1..Len(r) PROVE i + Len(q) \in 1..Len(p) /\ p[i + Len(q)] = r[i]
    OBVIOUS
  <2>1. i + Len(q) \in 1..Len(p) /\ ~(i + Len(q) <= Len(q)) /\ (i + Len(q)) - Len(q) = i
    BY <1>2
  <2> QED
    BY <2>1, <1>2
<1>5. \A i \in 1..Len(p) : \/ i \in 1..Len(q) /\ p[i] = q[i]
                           \/ i - Len(q) \in 1..Len(r) /\ p[i] = r[i - Len(q)]
  BY <1>2
<1>6. Elements(p) = Elements(q) \cup Elements(r)
  <2>1. Elements(p) \subseteq Elements(q) \cup Elements(r)
    BY <1>5 DEF Elements
  <2>2. Elements(q) \subseteq Elements(p)
    BY <1>3 DEF Elements
  <2>3. Elements(r) \subseteq Elements(p)
    BY <1>4 DEF Elements
  <2> QED
    BY <2>1, <2>2, <2>3
<1>7. \A i \in 1..Len(q), j \in 1..Len(r) : q[i] # r[j]
  BY DEF Elements
<1>8. Distinct(p)
  <2> SUFFICES ASSUME NEW i \in 1..Len(p), NEW j \in 1..Len(p), p[i] = p[j] PROVE i = j
    BY DEF Distinct
  <2>1. CASE i \in 1..Len(q) /\ j \in 1..Len(q)
    BY <2>1, <1>3 DEF Distinct
  <2>2. CASE i \notin 1..Len(q) /\ j \notin 1..Len(q)
    <3>1. i - Len(q) = j - Len(q)
      BY <2>2, <1>5 DEF Distinct
    <3> QED
      BY <3>1, <1>2
  <2>3. CASE i \in 1..Len(q) /\ j \notin 1..Len(q)
    BY <2>3, <1>3, <1>5, <1>7
  <2>4. CASE i \notin 1..Len(q) /\ j \in 1..Len(q)
    BY <2>4, <1>3, <1>5, <1>7
  <2> QED
    BY <2>1, <2>2, <2>3, <2>4
<1> QED
  BY <1>1, <1>2, <1>6, <1>8

(* The parts of a set when something moves. *)
LEMMA PartsMerge ==
  ASSUME NEW A, NEW B, NEW C, NEW D, NEW E, NEW G, Parts(A, B, C, D, E, G), NEW F, F = A \cup B
  PROVE  Parts(F, {}, C, D, E, G) /\ A \cap B = {}
  BY DEF Parts

(* The members after an assignment. *)
LEMMA Assign ==
  ASSUME NEW d, IsSession(d), NEW f \in Fields, NEW v
  PROVE  /\ Same(d, [d EXCEPT ![f] = v], {f})
         /\ [d EXCEPT ![f] = v][f] = v
  BY DEF IsSession, Same

LEMMA SameTransitive ==
  ASSUME NEW d, NEW e, NEW g, NEW S, NEW T, Same(d, e, S), Same(e, g, T)
  PROVE  Same(d, g, S \cup T)
  BY DEF Same

MarkedAsKnown(d, ms, e) ==
  /\ Same(d, e, {"unknown", "pending", "parked"})
  /\ e.unknown = d.unknown \ ms
  /\ \/ e.pending = d.pending /\ e.parked = d.parked
        /\ ~(d.unknown # {} /\ d.unknown \subseteq ms)
     \/ e.pending = d.pending \o d.parked /\ e.parked = <<>>

LEMMA MarkAsKnownFields ==
  ASSUME NEW d, IsSession(d), NEW ms, NEW e, e = MarkAsKnown(d, ms)
  PROVE  MarkedAsKnown(d, ms, e)
<1>1. CASE d.unknown # {} /\ d.unknown \subseteq ms
  <2>1. e = [d EXCEPT !.unknown = {}, !.pending = @ \o d.parked, !.parked = <<>>]
    BY <1>1 DEF MarkAsKnown
  <2>2. Same(d, e, {"unknown", "pending", "parked"})
    BY <2>1 DEF IsSession, Same
  <2>3. e.unknown = {} /\ e.pending = d.pending \o d.parked /\ e.parked = <<>>
    BY <2>1 DEF IsSession, Fields
  <2> QED
    BY <2>2, <2>3, <1>1 DEF MarkedAsKnown
<1>2. CASE ~(d.unknown # {} /\ d.unknown \subseteq ms)
  <2>1. e = [d EXCEPT !.unknown = @ \ ms]
    BY <1>2 DEF MarkAsKnown
  <2>2. Same(d, e, {"unknown", "pending", "parked"})
    BY <2>1 DEF IsSession, Same
  <2>3. e.unknown = d.unknown \ ms /\ e.pending = d.pending /\ e.parked = d.parked
    BY <2>1 DEF IsSession, Fields
  <2> QED
    BY <2>2, <2>3, <1>2 DEF MarkedAsKnown
<1> QED
  BY <1>1, <1>2
-----------------------------------------------------------------------------
(* What no message of the server changes. *)
Keeps(d, e) ==
  /\ e.next = d.next /\ e.state = d.state /\ e.closed = d.closed /\ e.given = d.given
  /\ e.unknown \subseteq d.unknown
  /\ d.to_get_state_info \subseteq e.to_get_state_info
  /\ DOMAIN e.sent \subseteq DOMAIN d.sent
  /\ \A m \in DOMAIN e.sent : e.sent[m].container_id = d.sent[m].container_id

LEMMA KeepsRefl ==
  ASSUME NEW d
  PROVE  Keeps(d, d)
  BY DEF Keeps

LEMMA KeepsTransitive ==
  ASSUME NEW d, NEW e, NEW g, Keeps(d, e), Keeps(e, g)
  PROVE  Keeps(d, g)
  BY DEF Keeps

LEMMA NearlySound ==
  ASSUME NEW d, NEW H, NEW G, NEW X, NEW ms, Sound(d, H, G, X)
  PROVE  Nearly(d, H, G, X, ms)
  BY DEF Sound, Nearly, UnknownIsSent

(* the messages of ms are known, or gone *)
Known(d, e, ms) == e.unknown = d.unknown \ ms /\ e.sent = d.sent /\ e.containers = d.containers
Gone(d, e, ms) ==
  e.unknown = d.unknown /\ DOMAIN e.sent = DOMAIN d.sent \ ms /\ e.containers = d.containers
OnlyContainers(d, e) == e.unknown = d.unknown /\ e.sent = d.sent

LEMMA MarkAsKnownSound ==
  ASSUME NEW d, NEW H, NEW G, NEW X, NEW ms, Nearly(d, H, G, X, ms), NEW e, e = MarkAsKnown(d, ms)
  PROVE  Sound(e, H, G, X) /\ Keeps(d, e) /\ Known(d, e, ms)
<1> USE DEF Nearly
<1>2. IsSession(d)
  BY DEF Typed
<1>3. /\ Same(d, e, {"unknown", "pending", "parked"})
      /\ e.unknown = d.unknown \ ms
      /\ \/ e.pending = d.pending /\ e.parked = d.parked
            /\ ~(d.unknown # {} /\ d.unknown \subseteq ms)
         \/ e.pending = d.pending \o d.parked /\ e.parked = <<>>
  <2>1. MarkedAsKnown(d, ms, e)
    BY <1>2, MarkAsKnownFields
  <2> QED
    BY <2>1 DEF MarkedAsKnown
<1>4. /\ e.next = d.next /\ e.sent = d.sent /\ e.containers = d.containers /\ e.state = d.state
      /\ e.closed = d.closed /\ e.given = d.given /\ IsSession(e)
  BY <1>3 DEF Same, Fields
<1>5. /\ e.to_send = d.to_send /\ e.to_get_state_info = d.to_get_state_info
      /\ e.to_resend_answer = d.to_resend_answer /\ e.returned = d.returned /\ e.renewed = d.renewed
  BY <1>3 DEF Same, Fields
<1>6. /\ e.pending \in Seq(Queries) /\ e.parked \in Seq(Queries) /\ Placed(e, H)
      /\ (e.parked # <<>> => e.unknown # {})
  <2>1. CASE /\ e.pending = d.pending /\ e.parked = d.parked
             /\ ~(d.unknown # {} /\ d.unknown \subseteq ms)
    <3>1. Placed(e, H)
      BY <2>1, <1>4, <1>5 DEF Placed
    <3>2. d.unknown # {} => e.unknown # {}
      BY <2>1, <1>3
    <3> QED
      BY <3>1, <3>2, <2>1 DEF Typed, ParkedWait
  <2>2. CASE e.pending = d.pending \o d.parked /\ e.parked = <<>>
    <3> DEFINE A == Elements(d.pending)
               B == Elements(d.parked)
    <3>1. Parts(A, B, SentQueries(d.sent), ReturnedQueries(d.returned), H, d.given)
      BY DEF Placed
    <3>2. A \cap B = {}
      BY <3>1 DEF Parts
    <3>3. /\ e.pending \in Seq(Queries) /\ Elements(e.pending) = A \cup B /\ Distinct(e.pending)
      BY <2>2, <3>2, ElementsConcat DEF Placed, Typed
    <3>4. /\ Elements(e.parked) = {} /\ Distinct(e.parked) /\ e.parked \in Seq(Queries)
      BY <2>2, ElementsEmpty
    <3>5. Parts(Elements(e.pending), Elements(e.parked), SentQueries(d.sent),
                ReturnedQueries(d.returned), H, d.given)
      BY <3>1, <3>3, <3>4, PartsMerge
    <3>6. Placed(e, H)
      BY <3>5, <3>3, <3>4, <1>4, <1>5 DEF Placed
    <3> QED
      BY <3>3, <3>4, <3>6, <2>2
  <2> QED
    BY <2>1, <2>2, <1>3
<1>7. Typed(e)
  BY <1>4, <1>5, <1>6 DEF Typed
<1>8. Contained(e, G, X)
  BY <1>4 DEF Contained, Contents
<1>9. Unsent(e)
  BY <1>4, <1>5 DEF Unsent, NotSent
<1>10. UnknownIsSent(e, {})
  BY <1>3, <1>4 DEF UnknownIsSent
<1>11. Sound(e, H, G, X)
  BY <1>6, <1>7, <1>8, <1>9, <1>10 DEF Sound, Nearly, ParkedWait
<1>12. Keeps(d, e)
  BY <1>3, <1>4, <1>5 DEF Keeps
<1> QED
  BY <1>11, <1>12, <1>3, <1>4 DEF Known

LEMMA CleanupContainerSound ==
  ASSUME NEW d, NEW H, NEW X, NEW U, NEW ms, ms \subseteq DOMAIN d.sent,
         Nearly(d, H, {}, X, U), NEW e, e = CleanupContainer(d, ms)
  PROVE  /\ Nearly(e, H, {}, X, U) /\ Nearly(e, H, ms, X, U) /\ Keeps(d, e)
         /\ OnlyContainers(d, e)
<1>2. IsSession(d)
  BY DEF Sound, Nearly, Typed
<1> DEFINE C == { d.sent[m].container_id : m \in ms } \ ms
<1>3. Same(d, e, {"containers"}) /\ e.containers = Without(d.containers, C)
  <2>1. e = [d EXCEPT !.containers = Without(@, C)]
    BY DEF CleanupContainer
  <2>2. PICK w : w = Without(d.containers, C)
    OBVIOUS
  <2>3. e = [d EXCEPT !.containers = w]
    BY <2>1, <2>2
  <2> QED
    BY <2>3, <2>2, <1>2 DEF IsSession, Same, Fields
<1>4. /\ e.next = d.next /\ e.sent = d.sent /\ e.pending = d.pending /\ e.state = d.state
      /\ e.closed = d.closed /\ e.given = d.given /\ IsSession(e) /\ e.unknown = d.unknown
  BY <1>3 DEF Same, Fields
<1>5. /\ e.to_send = d.to_send /\ e.to_get_state_info = d.to_get_state_info /\ e.parked = d.parked
      /\ e.to_resend_answer = d.to_resend_answer /\ e.returned = d.returned /\ e.renewed = d.renewed
  BY <1>3 DEF Same, Fields
<1>6. Typed(e) /\ Placed(e, H)
  BY <1>4, <1>5 DEF Typed, Placed, Sound, Nearly
<1>7. Unsent(e) /\ UnknownIsSent(e, U) /\ ParkedWait(e)
  BY <1>4, <1>5 DEF Sound, Nearly, Unsent, NotSent, UnknownIsSent, ParkedWait
<1>8. Contained(d, {}, X)
  BY DEF Sound, Nearly
<1>9. /\ DOMAIN e.containers \subseteq DOMAIN d.containers
      /\ \A id \in DOMAIN e.containers : e.containers[id] = d.containers[id] /\ id \notin C
  BY <1>3 DEF Without
<1>10. Contained(e, {}, X)
  BY <1>9, <1>8, <1>4 DEF Contained, Contents
<1>11. \A id \in DOMAIN e.containers : Inside(e.sent, id, ms) = Inside(e.sent, id, {})
  <2> SUFFICES ASSUME NEW id \in DOMAIN e.containers, NEW m \in ms, d.sent[m].container_id = id
               PROVE  FALSE
    BY <1>4 DEF Inside
  <2>1. id \in ms
    BY <1>9
  <2>2. id \notin DOMAIN d.sent
    BY <1>8, <1>9 DEF Contained, Contents
  <2> QED
    BY <2>1, <2>2
<1>12. Contained(e, ms, X)
  BY <1>10, <1>11 DEF Contained, Contents
<1>13. Keeps(d, e)
  BY <1>4, <1>5 DEF Keeps
<1> QED
  BY <1>6, <1>7, <1>10, <1>12, <1>13, <1>4 DEF Nearly, OnlyContainers

(* Messages leave sent_queries_. *)
Removed(sent, ms, w) ==
  /\ DOMAIN w = DOMAIN sent \ ms
  /\ \A m \in DOMAIN sent \ ms : w[m] = sent[m]
  /\ SentQueries(w) = SentQueries(sent) \ { sent[m].query : m \in ms }
  /\ OneId(w)
  /\ \A id : Inside(w, id, {}) = Inside(sent, id, ms)

LEMMA WithoutSent ==
  ASSUME NEW sent, OneId(sent), NEW ms, ms \subseteq DOMAIN sent, NEW w, w = Without(sent, ms)
  PROVE  Removed(sent, ms, w)
<1>2. DOMAIN w = DOMAIN sent \ ms /\ \A m \in DOMAIN sent \ ms : w[m] = sent[m]
  BY DEF Without
<1>3. OneId(w)
  BY <1>2 DEF OneId
<1>4. SentQueries(w) = SentQueries(sent) \ { sent[m].query : m \in ms }
  BY <1>2 DEF SentQueries, OneId
<1>5. \A id : Inside(w, id, {}) = Inside(sent, id, ms)
  BY <1>2 DEF Inside
<1> QED
  BY <1>2, <1>3, <1>4, <1>5 DEF Removed

LEMMA PartsReturn ==
  ASSUME NEW A, NEW B, NEW C, NEW D, NEW E, NEW G, Parts(A, B, C, D, E, G), NEW M, M \subseteq C
  PROVE  Parts(A, B, C \ M, D \cup M, E, G)
  BY DEF Parts

LEMMA PartsResend ==
  ASSUME NEW A, NEW B, NEW C, NEW D, NEW E, NEW G, Parts(A, B, C, D, E, G), NEW M, M \subseteq C
  PROVE  Parts(A \cup M, B, C \ M, D, E, G) /\ A \cap M = {}
  BY DEF Parts

(* What the loss of messages leaves sound. *)
StillSound(d, e, ms, X) ==
  /\ Contained(e, {}, X) /\ Unsent(e) /\ UnknownIsSent(e, {})
  /\ DOMAIN e.sent \subseteq 1 .. e.next - 1
  /\ \A m \in DOMAIN e.sent : e.sent[m] \in Entries(e.next)
  /\ DOMAIN e.sent = DOMAIN d.sent \ ms
  /\ \A m \in DOMAIN e.sent : e.sent[m].container_id = d.sent[m].container_id

LEMMA LessSent ==
  ASSUME NEW d, NEW e, NEW X, NEW ms, Removed(d.sent, ms, e.sent),
         Typed(d), Contained(d, ms, X), Unsent(d), UnknownIsSent(d, {}), d.unknown \cap ms = {},
         e.next = d.next, e.containers = d.containers, e.to_send = d.to_send, e.unknown = d.unknown
  PROVE  StillSound(d, e, ms, X)
<1>1. /\ DOMAIN e.sent = DOMAIN d.sent \ ms
      /\ \A m \in DOMAIN e.sent : e.sent[m] = d.sent[m]
      /\ \A id : Inside(e.sent, id, {}) = Inside(d.sent, id, ms)
  BY DEF Removed
<1>2. Contained(e, {}, X)
  BY <1>1 DEF Contained, Contents
<1>3. Unsent(e)
  BY <1>1 DEF Unsent, NotSent
<1>4. UnknownIsSent(e, {})
  BY <1>1 DEF UnknownIsSent
<1>5. DOMAIN e.sent \subseteq 1 .. e.next - 1 /\ \A m \in DOMAIN e.sent : e.sent[m] \in Entries(e.next)
  BY <1>1 DEF Typed
<1> QED
  BY <1>1, <1>2, <1>3, <1>4, <1>5 DEF StillSound

LEMMA ReturnSentSound ==
  ASSUME NEW d, NEW H, NEW X, NEW ms, ms \subseteq DOMAIN d.sent,
         Sound(d, H, ms, X), d.unknown \cap ms = {}, NEW e, e = ReturnSent(d, ms)
  PROVE  Sound(e, H, {}, X) /\ Keeps(d, e) /\ Gone(d, e, ms)
<1>2. IsSession(d)
  BY DEF Sound, Nearly, Typed
<1>3. PICK w : w = Without(d.sent, ms)
  OBVIOUS
<1>4. PICK r : r = [q \in Queries |-> d.returned[q] + Cardinality(SentAs(d, q) \cap ms)]
  OBVIOUS
<1>5. Same(d, e, {"sent", "returned"}) /\ e.sent = w /\ e.returned = r
  <2>1. e = [d EXCEPT !.sent = w, !.returned = r]
    BY <1>3, <1>4 DEF ReturnSent
  <2> QED
    BY <2>1, <1>2 DEF IsSession, Same, Fields
<1>6. /\ e.next = d.next /\ e.containers = d.containers /\ e.pending = d.pending /\ e.state = d.state
      /\ e.closed = d.closed /\ e.given = d.given /\ IsSession(e) /\ e.unknown = d.unknown
  BY <1>5 DEF Same, Fields
<1>7. /\ e.to_send = d.to_send /\ e.to_get_state_info = d.to_get_state_info /\ e.parked = d.parked
      /\ e.to_resend_answer = d.to_resend_answer /\ e.renewed = d.renewed
  BY <1>5 DEF Same, Fields
<1> DEFINE M == { d.sent[m].query : m \in ms }
<1>8. OneId(d.sent) /\ Once(d.returned)
  BY DEF Sound, Nearly, Placed
<1>9. M \subseteq SentQueries(d.sent) /\ M \subseteq Queries
  BY DEF SentQueries, Sound, Nearly, Typed, Entries
<1>10. \A q \in M : d.returned[q] = 0
  <2>1. SentQueries(d.sent) \cap ReturnedQueries(d.returned) = {}
    BY DEF Sound, Nearly, Placed, Parts
  <2> QED
    BY <2>1, <1>9 DEF ReturnedQueries
<1>11. \A q \in Queries : IF q \in M THEN r[q] = 1 ELSE r[q] = d.returned[q]
  <2> SUFFICES ASSUME NEW q \in Queries
               PROVE  IF q \in M THEN r[q] = 1 ELSE r[q] = d.returned[q]
    OBVIOUS
  <2>1. r[q] = d.returned[q] + Cardinality(SentAs(d, q) \cap ms)
    BY <1>4
  <2>2. d.returned[q] \in Nat
    BY DEF Sound, Nearly, Typed
  <2>3. CASE q \in M
    <3>1. PICK m \in ms : d.sent[m].query = q
      BY <2>3
    <3>2. SentAs(d, q) \cap ms = {m}
      BY <3>1, <1>8 DEF SentAs, OneId
    <3>3. Cardinality(SentAs(d, q) \cap ms) = 1
      BY <3>2, FS_Singleton
    <3> QED
      BY <3>3, <2>1, <2>3, <1>10
  <2>4. CASE q \notin M
    <3>1. SentAs(d, q) \cap ms = {}
      BY <2>4 DEF SentAs
    <3>2. Cardinality(SentAs(d, q) \cap ms) = 0
      BY <3>1, FS_EmptySet
    <3> QED
      BY <3>2, <2>1, <2>2, <2>4
  <2> QED
    BY <2>3, <2>4
<1>12. r \in [Queries -> Nat] /\ Once(r) /\ ReturnedQueries(r) = ReturnedQueries(d.returned) \cup M
  <2>1. \A q \in Queries : r[q] \in {0, 1} /\ r[q] \in Nat /\ (r[q] # 0 <=> d.returned[q] # 0 \/ q \in M)
    BY <1>11, <1>8 DEF Once
  <2>2. r \in [Queries -> Nat]
    BY <2>1, <1>4
  <2>3. ReturnedQueries(r) = ReturnedQueries(d.returned) \cup M
    BY <2>1, <1>9 DEF ReturnedQueries
  <2> QED
    BY <2>1, <2>2, <2>3 DEF Once
<1>13. SentQueries(w) = SentQueries(d.sent) \ M /\ OneId(w)
  <2>1. Removed(d.sent, ms, w)
    BY <1>3, <1>8, WithoutSent
  <2> QED
    BY <2>1 DEF Removed
<1>14. Placed(e, H)
  <2>1. Parts(Elements(d.pending), Elements(d.parked), SentQueries(d.sent),
              ReturnedQueries(d.returned), H, d.given)
    BY DEF Sound, Nearly, Placed
  <2>2. Parts(Elements(d.pending), Elements(d.parked), SentQueries(d.sent) \ M,
              ReturnedQueries(d.returned) \cup M, H, d.given)
    BY <2>1, <1>9, PartsReturn
  <2>3. Distinct(d.pending) /\ Distinct(d.parked)
    BY DEF Sound, Nearly, Placed
  <2> QED
    BY <2>2, <2>3, <1>5, <1>6, <1>7, <1>12, <1>13 DEF Placed
<1>15. /\ Contained(e, {}, X) /\ Unsent(e) /\ UnknownIsSent(e, {})
       /\ DOMAIN e.sent \subseteq 1 .. e.next - 1
       /\ \A m \in DOMAIN e.sent : e.sent[m] \in Entries(e.next)
       /\ DOMAIN e.sent = DOMAIN d.sent \ ms
       /\ \A m \in DOMAIN e.sent : e.sent[m].container_id = d.sent[m].container_id
  <2>1. Typed(d) /\ Contained(d, ms, X) /\ Unsent(d) /\ UnknownIsSent(d, {})
    BY DEF Sound, Nearly
  <2>2. Removed(d.sent, ms, w)
    BY <1>3, <1>8, WithoutSent
  <2>3. Removed(d.sent, ms, e.sent)
    BY <2>2, <1>5
  <2>4. StillSound(d, e, ms, X)
    BY <2>1, <2>3, <1>6, <1>7, LessSent
  <2> QED
    BY <2>4 DEF StillSound
<1>16. Typed(e)
  BY <1>15, <1>12, <1>5, <1>6, <1>7 DEF Typed, Sound, Nearly
<1>17. ParkedWait(e)
  BY <1>6, <1>7 DEF Sound, Nearly, ParkedWait
<1>18. Keeps(d, e)
  BY <1>15, <1>6, <1>7 DEF Keeps
<1> QED
  BY <1>6, <1>14, <1>15, <1>16, <1>17, <1>18 DEF Sound, Nearly, Gone

LEMMA ResendQuerySound ==
  ASSUME NEW d, NEW H, NEW X, NEW m \in DOMAIN d.sent,
         Sound(d, H, {m}, X), m \notin d.unknown, NEW e, e = ResendQuery(d, m)
  PROVE  Sound(e, H, {}, X) /\ Keeps(d, e) /\ Gone(d, e, {m})
<1>2. IsSession(d)
  BY DEF Sound, Nearly, Typed
<1>3. PICK w : w = Without(d.sent, {m})
  OBVIOUS
<1>4. PICK q : q = d.sent[m].query
  OBVIOUS
<1>5. Same(d, e, {"sent", "pending"}) /\ e.sent = w /\ e.pending = Append(d.pending, q)
  <2>0. PICK a : a = Append(d.pending, q)
    OBVIOUS
  <2>1. e = [d EXCEPT !.sent = w, !.pending = a]
    BY <1>3, <1>4, <2>0 DEF ResendQuery
  <2> QED
    BY <2>0, <2>1, <1>2 DEF IsSession, Same, Fields
<1>6. /\ e.next = d.next /\ e.containers = d.containers /\ e.returned = d.returned /\ e.state = d.state
      /\ e.closed = d.closed /\ e.given = d.given /\ IsSession(e) /\ e.unknown = d.unknown
  BY <1>5 DEF Same, Fields
<1>7. /\ e.to_send = d.to_send /\ e.to_get_state_info = d.to_get_state_info /\ e.parked = d.parked
      /\ e.to_resend_answer = d.to_resend_answer /\ e.renewed = d.renewed
  BY <1>5 DEF Same, Fields
<1>8. OneId(d.sent)
  BY DEF Sound, Nearly, Placed
<1>9. q \in SentQueries(d.sent) /\ q \in Queries
  BY <1>4 DEF SentQueries, Sound, Nearly, Typed, Entries
<1>10. PICK ms : ms = {m}
  OBVIOUS
<1>13. Removed(d.sent, ms, w)
  <2>1. ms \subseteq DOMAIN d.sent /\ w = Without(d.sent, ms)
    BY <1>3, <1>10
  <2> QED
    BY <2>1, <1>8, WithoutSent
<1>11. SentQueries(w) = SentQueries(d.sent) \ {q} /\ OneId(w)
  BY <1>13, <1>10, <1>4 DEF Removed
<1>12. Placed(e, H) /\ e.pending \in Seq(Queries)
  <2>1. Parts(Elements(d.pending), Elements(d.parked), SentQueries(d.sent),
              ReturnedQueries(d.returned), H, d.given)
    BY DEF Sound, Nearly, Placed
  <2>2. /\ Parts(Elements(d.pending) \cup {q}, Elements(d.parked), SentQueries(d.sent) \ {q},
                 ReturnedQueries(d.returned), H, d.given)
        /\ Elements(d.pending) \cap {q} = {}
    <3>1. PICK M : M = {q}
      OBVIOUS
    <3>2. M \subseteq SentQueries(d.sent)
      BY <1>9, <3>1
    <3>3. /\ Parts(Elements(d.pending) \cup M, Elements(d.parked), SentQueries(d.sent) \ M,
                   ReturnedQueries(d.returned), H, d.given)
          /\ Elements(d.pending) \cap M = {}
      BY <2>1, <3>2, PartsResend
    <3> QED
      BY <3>1, <3>3
  <2>3. Distinct(d.pending) /\ Distinct(d.parked) /\ d.pending \in Seq(Queries) /\ Once(d.returned)
    BY DEF Sound, Nearly, Placed, Typed
  <2>4. /\ e.pending \in Seq(Queries) /\ Elements(e.pending) = Elements(d.pending) \cup {q}
        /\ Distinct(e.pending)
    BY <2>2, <2>3, <1>5, <1>9, ElementsAppend
  <2> QED
    BY <2>2, <2>3, <2>4, <1>5, <1>6, <1>7, <1>11 DEF Placed
<1>15. /\ Contained(e, {}, X) /\ Unsent(e) /\ UnknownIsSent(e, {})
       /\ DOMAIN e.sent \subseteq 1 .. e.next - 1
       /\ \A k \in DOMAIN e.sent : e.sent[k] \in Entries(e.next)
       /\ DOMAIN e.sent = DOMAIN d.sent \ {m}
       /\ \A k \in DOMAIN e.sent : e.sent[k].container_id = d.sent[k].container_id
  <2>1. Typed(d) /\ Contained(d, ms, X) /\ Unsent(d) /\ UnknownIsSent(d, {})
    BY <1>10 DEF Sound, Nearly
  <2>2. d.unknown \cap ms = {}
    BY <1>10
  <2>3. Removed(d.sent, ms, e.sent)
    BY <1>13, <1>5
  <2>4. StillSound(d, e, ms, X)
    BY <2>1, <2>2, <2>3, <1>6, <1>7, LessSent
  <2> QED
    BY <2>4, <1>10 DEF StillSound
<1>16. Typed(e)
  BY <1>15, <1>12, <1>5, <1>6, <1>7 DEF Typed, Sound, Nearly
<1>17. ParkedWait(e)
  BY <1>6, <1>7 DEF Sound, Nearly, ParkedWait
<1>18. Keeps(d, e)
  BY <1>15, <1>6, <1>7 DEF Keeps
<1> QED
  BY <1>6, <1>12, <1>15, <1>16, <1>17, <1>18 DEF Sound, Nearly, Gone

(* A message whose container is not counted may be taken to be gone. *)
LEMMA NotCounted ==
  ASSUME NEW d, NEW X, NEW m \in DOMAIN d.sent, Contained(d, {}, X),
         d.sent[m].container_id \notin DOMAIN d.containers \/ d.sent[m].container_id \in X
  PROVE  Contained(d, {m}, X)
<1>1. \A id \in DOMAIN d.containers :
        id \notin X => Inside(d.sent, id, {m}) = Inside(d.sent, id, {})
  BY DEF Inside
<1> QED
  BY <1>1 DEF Contained, Contents

LEMMA InsideFinite ==
  ASSUME NEW d, Typed(d), NEW id, NEW G
  PROVE  IsFiniteSet(Inside(d.sent, id, G)) /\ Cardinality(Inside(d.sent, id, G)) \in Nat
<1>1. d.next - 1 \in Int /\ 1 \in Int
  BY DEF Typed
<1>2. IsFiniteSet(1 .. d.next - 1)
  BY <1>1, FS_Interval
<1>3. Inside(d.sent, id, G) \subseteq 1 .. d.next - 1
  BY DEF Inside, Typed
<1>4. IsFiniteSet(Inside(d.sent, id, G))
  BY <1>2, <1>3, FS_Subset
<1> QED
  BY <1>4, FS_CardinalityType

(* e is d with other containers *)
LEMMA OtherContainers ==
  ASSUME NEW d, NEW e, NEW H, NEW G, NEW X, NEW F, NEW Y,
         Sound(d, H, F, Y), Same(d, e, {"containers"}), Contained(e, G, X)
  PROVE  Sound(e, H, G, X) /\ Keeps(d, e) /\ OnlyContainers(d, e)
<1>4. /\ e.next = d.next /\ e.sent = d.sent /\ e.pending = d.pending /\ e.state = d.state
      /\ e.closed = d.closed /\ e.given = d.given /\ IsSession(e) /\ e.unknown = d.unknown
  BY DEF Same, Fields
<1>5. /\ e.to_send = d.to_send /\ e.to_get_state_info = d.to_get_state_info /\ e.parked = d.parked
      /\ e.to_resend_answer = d.to_resend_answer /\ e.returned = d.returned /\ e.renewed = d.renewed
  BY DEF Same, Fields
<1>6. Typed(e) /\ Placed(e, H)
  BY <1>4, <1>5 DEF Typed, Placed, Sound, Nearly
<1>7. Unsent(e) /\ UnknownIsSent(e, {}) /\ ParkedWait(e)
  BY <1>4, <1>5 DEF Sound, Nearly, Unsent, NotSent, UnknownIsSent, ParkedWait
<1>8. Keeps(d, e)
  BY <1>4, <1>5 DEF Keeps
<1> QED
  BY <1>4, <1>6, <1>7, <1>8 DEF Sound, Nearly, OnlyContainers

LEMMA DecContainerSound ==
  ASSUME NEW d, NEW H, NEW m \in DOMAIN d.sent, Sound(d, H, {}, {}), NEW e, e = DecContainer(d, m)
  PROVE  Sound(e, H, {m}, {}) /\ Keeps(d, e) /\ OnlyContainers(d, e)
<1>2. PICK id : id = d.sent[m].container_id
  OBVIOUS
<1>3. IsSession(d) /\ Typed(d) /\ Contained(d, {}, {})
  BY DEF Sound, Nearly, Typed
<1>4. CASE id = m \/ id \notin DOMAIN d.containers
  <2>1. e = d
    BY <1>2, <1>4 DEF DecContainer
  <2>2. id \notin DOMAIN d.containers
    BY <1>3, <1>4 DEF Contained, Contents
  <2>3. Contained(d, {m}, {})
    BY <2>2, <1>2, <1>3, NotCounted
  <2> QED
    BY <2>1, <2>3, KeepsRefl DEF Sound, Nearly, OnlyContainers
<1>5. CASE id # m /\ id \in DOMAIN d.containers
  <2>1. /\ d.containers[id] \in [ref_cnt : Nat \ {0}, message_ids : SUBSET (1 .. d.next - 1)]
        /\ d.containers[id].ref_cnt = Cardinality(Inside(d.sent, id, {}))
    BY <1>3, <1>5 DEF Contained, Contents
  <2>2. \A k \in DOMAIN d.containers \ {id} : Inside(d.sent, k, {m}) = Inside(d.sent, k, {})
    BY <1>2 DEF Inside
  <2>3. PICK w : e.containers = w /\ Same(d, e, {"containers"})
                 /\ DOMAIN w \subseteq DOMAIN d.containers
                 /\ (\A k \in DOMAIN w \ {id} : w[k] = d.containers[k])
                 /\ (id \in DOMAIN w =>
                      /\ w[id] \in [ref_cnt : Nat \ {0}, message_ids : SUBSET (1 .. d.next - 1)]
                      /\ w[id].ref_cnt = d.containers[id].ref_cnt - 1
                      /\ w[id].message_ids = d.containers[id].message_ids)
    <3>1. CASE d.containers[id].ref_cnt = 1
      <4>1. PICK w : w = Without(d.containers, {id})
        OBVIOUS
      <4>2. e = [d EXCEPT !.containers = w]
        BY <4>1, <3>1, <1>2, <1>5 DEF DecContainer
      <4>3. e.containers = w /\ Same(d, e, {"containers"})
        BY <4>2, <1>3 DEF IsSession, Same, Fields
      <4>4. DOMAIN w = DOMAIN d.containers \ {id} /\ \A k \in DOMAIN w : w[k] = d.containers[k]
        BY <4>1 DEF Without
      <4> QED
        BY <4>3, <4>4
    <3>2. CASE d.containers[id].ref_cnt # 1
      <4>1. PICK r : r = [d.containers[id] EXCEPT !.ref_cnt = @ - 1]
        OBVIOUS
      <4>2. PICK w : w = [d.containers EXCEPT ![id] = r]
        OBVIOUS
      <4>3. e = [d EXCEPT !.containers = w]
        BY <4>1, <4>2, <3>2, <1>2, <1>5 DEF DecContainer
      <4>4. e.containers = w /\ Same(d, e, {"containers"})
        BY <4>3, <1>3 DEF IsSession, Same, Fields
      <4>5. DOMAIN w = DOMAIN d.containers /\ w[id] = r /\ \A k \in DOMAIN w \ {id} : w[k] = d.containers[k]
        BY <4>2, <1>5
      <4>6. /\ r.ref_cnt = d.containers[id].ref_cnt - 1
            /\ r.message_ids = d.containers[id].message_ids
            /\ r \in [ref_cnt : Nat \ {0}, message_ids : SUBSET (1 .. d.next - 1)]
        BY <4>1, <2>1, <3>2
      <4> QED
        BY <4>4, <4>5, <4>6
    <3> QED
      BY <3>1, <3>2
  <2>4. Cardinality(Inside(d.sent, id, {m})) = d.containers[id].ref_cnt - 1
    <3>1. Inside(d.sent, id, {m}) = Inside(d.sent, id, {}) \ {m} /\ m \in Inside(d.sent, id, {})
      BY <1>2 DEF Inside
    <3>2. IsFiniteSet(Inside(d.sent, id, {}))
      BY <1>3, InsideFinite
    <3>3. PICK S : S = Inside(d.sent, id, {})
      OBVIOUS
    <3>4. Cardinality(S \ {m}) = Cardinality(S) - 1
      BY <3>1, <3>2, <3>3, FS_RemoveElement
    <3> QED
      BY <3>1, <3>3, <3>4, <2>1
  <2>5. e.sent = d.sent /\ e.next = d.next
    BY <2>3 DEF Same, Fields
  <2>6. Contained(e, {m}, {})
    <3>1. DOMAIN w \subseteq (1 .. d.next - 1) \ DOMAIN d.sent
      BY <1>3, <2>3 DEF Contained, Contents
    <3>2. ASSUME NEW k \in DOMAIN w
          PROVE  /\ w[k] \in [ref_cnt : Nat \ {0}, message_ids : SUBSET (1 .. d.next - 1)]
                 /\ w[k].ref_cnt = Cardinality(Inside(d.sent, k, {m}))
                 /\ \A j \in w[k].message_ids \cap DOMAIN d.sent : d.sent[j].container_id = k
      <4>1. /\ d.containers[k] \in [ref_cnt : Nat \ {0}, message_ids : SUBSET (1 .. d.next - 1)]
            /\ d.containers[k].ref_cnt = Cardinality(Inside(d.sent, k, {}))
            /\ \A j \in d.containers[k].message_ids \cap DOMAIN d.sent : d.sent[j].container_id = k
        BY <1>3, <2>3 DEF Contained, Contents
      <4>2. CASE k = id
        BY <4>1, <4>2, <2>3, <2>4
      <4>3. CASE k # id
        BY <4>1, <4>3, <2>2, <2>3
      <4> QED
        BY <4>2, <4>3
    <3>3. Contents(w, d.sent, d.next, {m}, {})
      BY <3>1, <3>2 DEF Contents
    <3> QED
      BY <3>3, <2>3, <2>5 DEF Contained
  <2> QED
    BY <2>3, <2>6, OtherContainers
<1> QED
  BY <1>4, <1>5
-----------------------------------------------------------------------------
(* The handlers of one message. *)

LEMMA OnMessageFailedInnerSound ==
  ASSUME NEW d, NEW H, NEW X, NEW m, NEW in_container \in BOOLEAN, Sound(d, H, {}, X),
         in_container /\ m \in DOMAIN d.sent => d.sent[m].container_id \in X,
         NEW e, e = OnMessageFailedInner(d, m, in_container)
  PROVE  /\ Sound(e, H, {}, X) /\ Keeps(d, e) /\ m \notin DOMAIN e.sent
         /\ in_container => e.containers = d.containers
<1>2. CASE m \notin DOMAIN d.sent
  <2>1. e = d
    BY <1>2 DEF OnMessageFailedInner
  <2> QED
    BY <1>2, <2>1, KeepsRefl
<1>3. CASE m \in DOMAIN d.sent
  <2>1. PICK e1 : e1 = IF in_container THEN d ELSE CleanupContainer(d, {m})
    OBVIOUS
  <2>2. PICK ms : ms = {m}
    OBVIOUS
  <2>3. PICK e2 : e2 = MarkAsKnown(e1, ms)
    OBVIOUS
  <2>4. e = ResendQuery(e2, m)
    BY <1>3, <2>1, <2>2, <2>3 DEF OnMessageFailedInner
  <2>5. /\ Sound(e1, H, ms, X) /\ Keeps(d, e1) /\ e1.sent = d.sent
        /\ in_container => e1.containers = d.containers
    <3>1. CASE in_container
      <4>1. Contained(d, {m}, X)
        BY <1>3, <3>1, NotCounted DEF Sound, Nearly
      <4> QED
        BY <4>1, <2>1, <2>2, <3>1, KeepsRefl DEF Sound, Nearly
    <3>2. CASE ~in_container
      <4>1. e1 = CleanupContainer(d, ms) /\ ms \subseteq DOMAIN d.sent
        BY <1>3, <2>1, <2>2, <3>2
      <4>2. Nearly(d, H, {}, X, {})
        BY DEF Sound
      <4>3. Nearly(e1, H, ms, X, {}) /\ Keeps(d, e1) /\ OnlyContainers(d, e1)
        BY <4>1, <4>2, CleanupContainerSound
      <4> QED
        BY <4>3, <3>2 DEF Sound, OnlyContainers
    <3> QED
      BY <3>1, <3>2
  <2>6. Nearly(e1, H, ms, X, ms)
    BY <2>5, NearlySound
  <2>7. Sound(e2, H, ms, X) /\ Keeps(e1, e2) /\ Known(e1, e2, ms)
    BY <2>3, <2>6, MarkAsKnownSound
  <2>8. m \in DOMAIN e2.sent /\ m \notin e2.unknown /\ Sound(e2, H, {m}, X)
    BY <1>3, <2>2, <2>5, <2>7 DEF Known
  <2>9. Sound(e, H, {}, X) /\ Keeps(e2, e) /\ Gone(e2, e, {m})
    BY <2>4, <2>8, ResendQuerySound
  <2>10. Keeps(d, e)
    BY <2>5, <2>7, <2>9, KeepsTransitive
  <2> QED
    BY <2>5, <2>7, <2>9, <2>10 DEF Known, Gone
<1> QED
  BY <1>2, <1>3

Left(d, e, ms) == e.unknown = d.unknown \ ms /\ DOMAIN e.sent = DOMAIN d.sent \ ms

(* mark_as_known and return of what is in no container any more *)
LEMMA ReturnKnownSound ==
  ASSUME NEW d, NEW H, NEW ms, ms \subseteq DOMAIN d.sent, Sound(d, H, ms, {}),
         NEW e, e = ReturnSent(MarkAsKnown(d, ms), ms)
  PROVE  Sound(e, H, {}, {}) /\ Keeps(d, e) /\ Left(d, e, ms)
<1>1. PICK e2 : e2 = MarkAsKnown(d, ms)
  OBVIOUS
<1>2. Nearly(d, H, ms, {}, ms)
  BY NearlySound
<1>3. Sound(e2, H, ms, {}) /\ Keeps(d, e2) /\ Known(d, e2, ms)
  BY <1>1, <1>2, MarkAsKnownSound
<1>4. ms \subseteq DOMAIN e2.sent /\ e2.unknown \cap ms = {}
  BY <1>3 DEF Known
<1>5. Sound(e, H, {}, {}) /\ Keeps(e2, e) /\ Gone(e2, e, ms)
  BY <1>1, <1>3, <1>4, ReturnSentSound
<1>6. Keeps(d, e)
  BY <1>3, <1>5, KeepsTransitive
<1> QED
  BY <1>3, <1>5, <1>6 DEF Known, Gone, Left

LEMMA OnMessageResultSound ==
  ASSUME NEW d, NEW H, NEW m, Sound(d, H, {}, {}), NEW e, e = OnMessageResult(d, m)
  PROVE  Sound(e, H, {}, {}) /\ Keeps(d, e)
<1>2. CASE m \notin DOMAIN d.sent
  <2>1. e = d
    BY <1>2 DEF OnMessageResult
  <2> QED
    BY <1>2, <2>1, KeepsRefl
<1>3. CASE m \in DOMAIN d.sent
  <2>1. PICK ms : ms = {m}
    OBVIOUS
  <2>2. PICK e1 : e1 = CleanupContainer(d, ms)
    OBVIOUS
  <2>3. e = ReturnSent(MarkAsKnown(e1, ms), ms) /\ ms \subseteq DOMAIN d.sent
    BY <1>3, <2>1, <2>2 DEF OnMessageResult
  <2>4. Nearly(d, H, {}, {}, {})
    BY DEF Sound
  <2>5. Nearly(e1, H, ms, {}, {}) /\ Keeps(d, e1) /\ OnlyContainers(d, e1)
    BY <2>2, <2>3, <2>4, CleanupContainerSound
  <2>6. ms \subseteq DOMAIN e1.sent /\ Sound(e1, H, ms, {})
    BY <2>3, <2>5 DEF OnlyContainers, Sound
  <2>7. Sound(e, H, {}, {}) /\ Keeps(e1, e)
    BY <2>3, <2>6, ReturnKnownSound
  <2> QED
    BY <2>5, <2>7, KeepsTransitive
<1> QED
  BY <1>2, <1>3

(* dec_container, mark_as_known and return of a cancelled query *)
LEMMA ReturnCancelledSound ==
  ASSUME NEW d, NEW H, NEW m \in DOMAIN d.sent, Sound(d, H, {}, {}), NEW e,
         e = ReturnSent(MarkAsKnown(DecContainer(d, m), {m}), {m})
  PROVE  Sound(e, H, {}, {}) /\ Keeps(d, e) /\ m \notin e.unknown
<1>1. PICK ms : ms = {m}
  OBVIOUS
<1>2. PICK e1 : e1 = DecContainer(d, m)
  OBVIOUS
<1>3. e = ReturnSent(MarkAsKnown(e1, ms), ms)
  BY <1>1, <1>2
<1>4. Sound(e1, H, {m}, {}) /\ Keeps(d, e1) /\ OnlyContainers(d, e1)
  BY <1>2, DecContainerSound
<1>5. ms \subseteq DOMAIN e1.sent /\ Sound(e1, H, ms, {})
  BY <1>1, <1>4 DEF OnlyContainers
<1>6. Sound(e, H, {}, {}) /\ Keeps(e1, e) /\ Left(e1, e, ms)
  BY <1>3, <1>5, ReturnKnownSound
<1>7. Keeps(d, e)
  BY <1>4, <1>6, KeepsTransitive
<1> QED
  BY <1>1, <1>6, <1>7 DEF Left

(* Only the acknowledgements are others; those of ms are new. *)
SameButAcks(d, s, ms) ==
  /\ DOMAIN s = DOMAIN d.sent
  /\ \A m \in DOMAIN s : /\ s[m] \in Entries(d.next)
                         /\ s[m].query = d.sent[m].query
                         /\ s[m].container_id = d.sent[m].container_id
                         /\ m \notin ms /\ d.sent[m].ack = FALSE => s[m].ack = FALSE

LEMMA OtherAcks ==
  ASSUME NEW d, NEW H, Sound(d, H, {}, {}), NEW ms, NEW s, NEW e,
         Same(d, e, {"sent"}), e.sent = s, SameButAcks(d, s, ms)
  PROVE  Nearly(e, H, {}, {}, ms) /\ Keeps(d, e)
<1>0. /\ DOMAIN s = DOMAIN d.sent
      /\ \A m \in DOMAIN s : /\ s[m] \in Entries(d.next)
                             /\ s[m].query = d.sent[m].query
                             /\ s[m].container_id = d.sent[m].container_id
                             /\ m \notin ms /\ d.sent[m].ack = FALSE => s[m].ack = FALSE
  BY DEF SameButAcks
<1>1. /\ e.next = d.next /\ e.containers = d.containers /\ e.pending = d.pending /\ e.state = d.state
      /\ e.closed = d.closed /\ e.given = d.given /\ IsSession(e) /\ e.unknown = d.unknown
  BY DEF Same, Fields
<1>2. /\ e.to_send = d.to_send /\ e.to_get_state_info = d.to_get_state_info /\ e.parked = d.parked
      /\ e.to_resend_answer = d.to_resend_answer /\ e.renewed = d.renewed /\ e.returned = d.returned
  BY DEF Same, Fields
<1>3. Typed(e)
  BY <1>0, <1>1, <1>2 DEF Sound, Nearly, Typed
<1>4. SentQueries(s) = SentQueries(d.sent)
  BY <1>0 DEF SentQueries
<1>5. OneId(d.sent) => OneId(s)
  BY <1>0 DEF OneId
<1>6. Placed(e, H)
  BY <1>0, <1>1, <1>2, <1>4, <1>5 DEF Sound, Nearly, Placed
<1>7. \A id : Inside(s, id, {}) = Inside(d.sent, id, {})
  BY <1>0 DEF Inside
<1>8. Contained(d, {}, {})
  BY DEF Sound, Nearly
<1>9. Contained(e, {}, {})
  BY <1>0, <1>1, <1>7, <1>8 DEF Contained, Contents
<1>10. Unsent(e)
  BY <1>0, <1>1, <1>2 DEF Sound, Nearly, Unsent, NotSent
<1>11. UnknownIsSent(e, ms) /\ ParkedWait(e)
  BY <1>0, <1>1, <1>2 DEF Sound, Nearly, UnknownIsSent, ParkedWait
<1>12. Keeps(d, e)
  BY <1>0, <1>1, <1>2 DEF Keeps
<1> QED
  BY <1>3, <1>6, <1>9, <1>10, <1>11, <1>12 DEF Nearly

Acked(d, e, ms) == DOMAIN e.sent = DOMAIN d.sent /\ e.unknown \cap ms = {}

LEMMA OnMessageAckInnerSound ==
  ASSUME NEW d, NEW H, NEW ms, NEW in_container \in BOOLEAN, Sound(d, H, {}, {}),
         NEW g, g = OnMessageAckInner(d, ms, in_container)
  PROVE  Sound(g, H, {}, {}) /\ Keeps(d, g) /\ Acked(d, g, ms)
<1>2. PICK there : there = ms \cap DOMAIN d.sent
  OBVIOUS
<1>3. PICK s : s = [m \in DOMAIN d.sent |-> [d.sent[m] EXCEPT !.ack = @ \/ m \in there]]
  OBVIOUS
<1>4. PICK e : e = [d EXCEPT !.sent = s]
  OBVIOUS
<1>5. PICK e1 : e1 = IF in_container THEN e ELSE CleanupContainer(e, there)
  OBVIOUS
<1>6. g = MarkAsKnown(e1, there)
  BY <1>2, <1>3, <1>4, <1>5 DEF OnMessageAckInner
<1>7. Typed(d) /\ IsSession(d)
  BY DEF Sound, Nearly, Typed
<1>8. Same(d, e, {"sent"}) /\ e.sent = s
  BY <1>4, <1>7 DEF IsSession, Same, Fields
<1>9. \A m \in DOMAIN d.sent : d.sent[m] \in Entries(d.next)
  BY <1>7 DEF Typed
<1>10. /\ DOMAIN s = DOMAIN d.sent
       /\ \A m \in DOMAIN s : /\ s[m] \in Entries(d.next)
                              /\ s[m].query = d.sent[m].query
                              /\ s[m].container_id = d.sent[m].container_id
                              /\ m \notin there => s[m].ack = d.sent[m].ack
  <2> SUFFICES ASSUME NEW m \in DOMAIN d.sent
               PROVE  /\ s[m] \in Entries(d.next) /\ s[m].query = d.sent[m].query
                      /\ s[m].container_id = d.sent[m].container_id
                      /\ m \notin there => s[m].ack = d.sent[m].ack
    BY <1>3
  <2>1. s[m] = [d.sent[m] EXCEPT !.ack = @ \/ m \in there]
    BY <1>3
  <2> QED
    BY <2>1, <1>9 DEF Entries
<1>11. Nearly(e, H, {}, {}, there) /\ Keeps(d, e)
  <2>1. SameButAcks(d, s, there)
    BY <1>10 DEF SameButAcks
  <2> QED
    BY <2>1, <1>8, OtherAcks
<1>12. e.sent = s /\ e.unknown = d.unknown /\ e.containers = d.containers
  BY <1>8 DEF Same, Fields
<1>13. /\ Nearly(e1, H, {}, {}, there) /\ Keeps(d, e1) /\ e1.sent = s /\ e1.unknown = d.unknown
       /\ in_container => e1.containers = d.containers
  <2>1. CASE in_container
    BY <2>1, <1>5, <1>11, <1>12
  <2>2. CASE ~in_container
    <3>1. there \subseteq DOMAIN e.sent /\ e1 = CleanupContainer(e, there)
      BY <2>2, <1>2, <1>5, <1>10, <1>12
    <3>2. Nearly(e1, H, {}, {}, there) /\ Keeps(e, e1) /\ OnlyContainers(e, e1)
      BY <3>1, <1>11, CleanupContainerSound
    <3>3. Keeps(d, e1)
      BY <3>2, <1>11, KeepsTransitive
    <3> QED
      BY <3>2, <3>3, <2>2, <1>12 DEF OnlyContainers
  <2> QED
    BY <2>1, <2>2
<1>14. Sound(g, H, {}, {}) /\ Keeps(e1, g) /\ Known(e1, g, there)
  BY <1>6, <1>13, MarkAsKnownSound
<1>15. Keeps(d, g)
  BY <1>13, <1>14, KeepsTransitive
<1>16. d.unknown \subseteq DOMAIN d.sent
  BY DEF Sound, Nearly, UnknownIsSent
<1>17. g.unknown \cap ms = {} /\ DOMAIN g.sent = DOMAIN d.sent
  BY <1>2, <1>10, <1>13, <1>14, <1>16 DEF Known
<1> QED
  BY <1>14, <1>15, <1>17 DEF Acked

LEMMA DropContainer ==
  ASSUME NEW d, NEW H, NEW id, Sound(d, H, {}, {}) \/ Sound(d, H, {}, {id}),
         NEW e, e = [d EXCEPT !.containers = Without(@, {id})]
  PROVE  Sound(e, H, {}, {}) /\ Keeps(d, e) /\ OnlyContainers(d, e)
<1>1. PICK w : w = Without(d.containers, {id})
  OBVIOUS
<1>2. IsSession(d) /\ e = [d EXCEPT !.containers = w]
  BY <1>1 DEF Sound, Nearly, Typed
<1>3. Same(d, e, {"containers"}) /\ e.containers = w
  BY <1>2 DEF IsSession, Same, Fields
<1>4. e.sent = d.sent /\ e.next = d.next
  BY <1>3 DEF Same, Fields
<1>5. DOMAIN w = DOMAIN d.containers \ {id} /\ \A k \in DOMAIN w : w[k] = d.containers[k]
  BY <1>1 DEF Without
<1>6. Contained(d, {}, {id})
  BY DEF Sound, Nearly, Contained, Contents
<1>7. Contained(e, {}, {})
  <2>1. DOMAIN w \subseteq (1 .. d.next - 1) \ DOMAIN d.sent
    BY <1>5, <1>6 DEF Contained, Contents
  <2>2. ASSUME NEW k \in DOMAIN w
        PROVE  /\ w[k] \in [ref_cnt : Nat \ {0}, message_ids : SUBSET (1 .. d.next - 1)]
               /\ w[k].ref_cnt = Cardinality(Inside(d.sent, k, {}))
               /\ \A j \in w[k].message_ids \cap DOMAIN d.sent : d.sent[j].container_id = k
    <3>1. k \in DOMAIN d.containers /\ k \notin {id} /\ w[k] = d.containers[k]
      BY <1>5
    <3> QED
      BY <3>1, <1>6 DEF Contained, Contents
  <2>3. Contents(w, d.sent, d.next, {}, {})
    BY <2>1, <2>2 DEF Contents
  <2> QED
    BY <2>3, <1>3, <1>4 DEF Contained
<1> QED
  BY <1>3, <1>7, OtherContainers

LEMMA OnMessageAckSound ==
  ASSUME NEW d, NEW H, NEW id, Sound(d, H, {}, {}), NEW e, e = OnMessageAck(d, id)
  PROVE  Sound(e, H, {}, {}) /\ Keeps(d, e) /\ id \notin e.unknown /\ DOMAIN e.sent = DOMAIN d.sent
<1>1. CASE id \in DOMAIN d.containers
  <2>0. PICK in_container \in BOOLEAN : in_container = TRUE
    OBVIOUS
  <2>1. PICK g : g = OnMessageAckInner(d, d.containers[id].message_ids, in_container)
    OBVIOUS
  <2>2. e = [g EXCEPT !.containers = Without(@, {id})]
    BY <1>1, <2>0, <2>1 DEF OnMessageAck
  <2>3. Sound(g, H, {}, {}) /\ Keeps(d, g) /\ DOMAIN g.sent = DOMAIN d.sent
    BY <2>1, OnMessageAckInnerSound DEF Acked
  <2>4. Sound(e, H, {}, {}) /\ Keeps(g, e) /\ OnlyContainers(g, e)
    BY <2>2, <2>3, DropContainer
  <2>5. id \notin d.unknown
    BY <1>1 DEF Sound, Nearly, UnknownIsSent, Contained, Contents
  <2>6. Keeps(d, e)
    BY <2>3, <2>4, KeepsTransitive
  <2> QED
    BY <2>3, <2>4, <2>5, <2>6 DEF Keeps, OnlyContainers
<1>2. CASE id \notin DOMAIN d.containers
  <2>1. PICK ms : ms = {id}
    OBVIOUS
  <2>2. PICK in_container \in BOOLEAN : in_container = FALSE
    OBVIOUS
  <2>3. e = OnMessageAckInner(d, ms, in_container)
    BY <1>2, <2>1, <2>2 DEF OnMessageAck
  <2>4. Sound(e, H, {}, {}) /\ Keeps(d, e) /\ Acked(d, e, ms)
    BY <2>3, OnMessageAckInnerSound
  <2> QED
    BY <2>1, <2>4 DEF Acked
<1> QED
  BY <1>1, <1>2
-----------------------------------------------------------------------------
(* The loops over messages and queries: functions of the number of their   *)
(* turns.                                                                  *)
Turn(loop, d, i, a, b) ==
  CASE loop = "fail" -> IF i \in a THEN OnMessageFailedInner(d, i, b) ELSE d
    [] loop = "info" -> IF i \in a THEN OnMessageInfo(d, i, i \in b, FALSE) ELSE d
    [] loop = "handle" -> Handle(d, a[i])
    [] loop = "send" -> ConnectionSendQuery(d, a[i])

Turns(f, loop, d, a, b, l) ==
  f = [i \in 0..l |-> IF i = 0 THEN d ELSE Turn(loop, f[i - 1], i, a, b)]

LEMMA LoopExists ==
  ASSUME NEW d, NEW loop, NEW a, NEW b, NEW L \in Nat
  PROVE  \E f : Turns(f, loop, d, a, b, L)
<1> DEFINE Is(f, l) == f = [i \in 0..l |-> IF i = 0 THEN d ELSE Turn(loop, f[i - 1], i, a, b)]
           Bad == { l \in Nat : ~\E f : Is(f, l) }
<1>1. ASSUME Bad # {} PROVE FALSE
  <2>1. PICK l \in Bad : \A k \in Bad : l <= k
    BY <1>1, LeastNat
  <2>2. l # 0
    <3> DEFINE f == [i \in 0..0 |-> d]
    <3>1. Is(f, 0)
      OBVIOUS
    <3> QED
      BY <2>1, <3>1
  <2>3. l - 1 \in Nat /\ l - 1 \notin Bad
    BY <2>1, <2>2, SMTT(30)
  <2>4. PICK f : Is(f, l - 1)
    BY <2>3
  <2>5. PICK x : x = Turn(loop, f[l - 1], l, a, b)
    OBVIOUS
  <2> DEFINE g == [i \in 0..l |-> IF i = l THEN x ELSE f[i]]
  <2>6. ASSUME NEW i \in 0..l
        PROVE  g[i] = IF i = 0 THEN d ELSE Turn(loop, g[i - 1], i, a, b)
    <3>1. CASE i = 0
      <4>1. i \in 0 .. l - 1 /\ i # l
        BY <3>1, <2>2, <2>3
      <4> QED
        BY <4>1, <3>1, <2>4
    <3>2. CASE i # 0 /\ i # l
      <4>1. i \in 0 .. l - 1 /\ i - 1 \in 0 .. l - 1 /\ i - 1 \in 0..l /\ i - 1 # l
        BY <3>2, <2>3
      <4>2. g[i] = f[i] /\ g[i - 1] = f[i - 1]
        BY <3>2, <4>1
      <4> QED
        BY <3>2, <4>1, <4>2, <2>4
    <3>3. CASE i = l
      <4>1. l - 1 \in 0..l /\ l - 1 # l
        BY <2>2, <2>3
      <4>2. g[i] = x /\ g[i - 1] = f[l - 1]
        BY <3>3, <4>1
      <4> QED
        BY <3>3, <4>2, <2>2, <2>5
    <3> QED
      BY <3>1, <3>2, <3>3
  <2>7. g = [i \in 0..l |-> g[i]]
    OBVIOUS
  <2>8. g = [i \in 0..l |-> IF i = 0 THEN d ELSE Turn(loop, g[i - 1], i, a, b)]
    BY <2>6, <2>7
  <2>9. Is(g, l)
    BY <2>8
  <2> QED
    BY <2>1, <2>9
<1>2. \E f : Is(f, L)
  BY <1>1
<1> QED
  BY <1>2 DEF Turns

LEMMA FailAllRuns ==
  ASSUME NEW d, d.next \in Nat \ {0}, NEW ms, NEW in_container
  PROVE  \E f : /\ f[0] = d /\ FailAll(d, ms, in_container) = f[d.next - 1]
                /\ \A i \in 1 .. d.next - 1 :
                     f[i] = IF i \in ms THEN OnMessageFailedInner(f[i - 1], i, in_container)
                                        ELSE f[i - 1]
<1>1. PICK L \in Nat : L = d.next - 1
  OBVIOUS
<1> DEFINE g == CHOOSE f : f = [i \in 0..L |->
                  IF i = 0 THEN d
                  ELSE IF i \in ms THEN OnMessageFailedInner(f[i - 1], i, in_container)
                  ELSE f[i - 1]]
<1>2. \E f : f = [i \in 0..L |->
                  IF i = 0 THEN d
                  ELSE IF i \in ms THEN OnMessageFailedInner(f[i - 1], i, in_container)
                  ELSE f[i - 1]]
  <2>1. \E f : Turns(f, "fail", d, ms, in_container, L)
    BY LoopExists
  <2> QED
    BY <2>1 DEF Turns, Turn
<1>3. g = [i \in 0..L |->
             IF i = 0 THEN d
             ELSE IF i \in ms THEN OnMessageFailedInner(g[i - 1], i, in_container)
             ELSE g[i - 1]]
  BY <1>2, Zenon
<1>4. FailAll(d, ms, in_container) = g[L]
  BY <1>1, Zenon DEF FailAll
<1> HIDE DEF g
<1>5. PICK f : f = g
  OBVIOUS
<1>6. f[0] = d
  BY <1>3, <1>5
<1>7. \A i \in 1..L : i \in 0..L /\ i # 0
  OBVIOUS
<1>8. \A i \in 1..L :
        f[i] = IF i \in ms THEN OnMessageFailedInner(f[i - 1], i, in_container) ELSE f[i - 1]
  BY <1>3, <1>5, <1>7
<1> QED
  BY <1>1, <1>4, <1>5, <1>6, <1>8, Zenon

LEMMA FailAllSound ==
  ASSUME NEW d, NEW H, NEW X, NEW ms, NEW in_container \in BOOLEAN, Sound(d, H, {}, X),
         in_container => \A m \in ms \cap DOMAIN d.sent : d.sent[m].container_id \in X,
         NEW e, e = FailAll(d, ms, in_container)
  PROVE  Sound(e, H, {}, X) /\ Keeps(d, e) /\ DOMAIN e.sent \cap ms = {}
<1>1. d.next \in Nat \ {0} /\ DOMAIN d.sent \subseteq 1 .. d.next - 1
  BY DEF Sound, Nearly, Typed
<1>2. PICK L \in Nat : L = d.next - 1
  BY <1>1
<1>3. PICK f : /\ f[0] = d /\ e = f[L]
               /\ \A i \in 1..L :
                    f[i] = IF i \in ms THEN OnMessageFailedInner(f[i - 1], i, in_container)
                                       ELSE f[i - 1]
  BY <1>1, <1>2, FailAllRuns
<1> DEFINE Good(i) == Sound(f[i], H, {}, X) /\ Keeps(d, f[i]) /\ \A j \in 1..i : j \in ms => j \notin DOMAIN f[i].sent
           Bad == { i \in 0..L : ~Good(i) }
<1>4. ASSUME Bad # {} PROVE FALSE
  <2>1. Bad \in SUBSET Nat
    OBVIOUS
  <2>2. PICK i \in Bad : \A j \in Bad : i <= j
    BY <1>4, <2>1, LeastNat
  <2>3. CASE i = 0
    <3>1. f[i] = d
      BY <2>3, <1>3
    <3>2. \A j \in 1..i : FALSE
      BY <2>3
    <3> QED
      BY <3>1, <3>2, <2>2, KeepsRefl
  <2>4. CASE i # 0
    <3>1. i - 1 \in 0..L /\ ~(i <= i - 1) /\ i \in 1..L
      BY <2>4
    <3>2. Good(i - 1)
      BY <3>1, <2>2
    <3>3. PICK g : g = f[i - 1]
      OBVIOUS
    <3>4. PICK h : h = f[i]
      OBVIOUS
    <3>5. \A j \in 1..i : j \in 1 .. i - 1 \/ j = i
      BY <3>1
    <3>6. Sound(g, H, {}, X) /\ Keeps(d, g) /\ \A j \in 1 .. i - 1 : j \in ms => j \notin DOMAIN g.sent
      BY <3>2, <3>3
    <3>7. CASE i \in ms
      <4>1. h = OnMessageFailedInner(g, i, in_container)
        BY <3>7, <3>1, <3>3, <3>4, <1>3
      <4>2. in_container /\ i \in DOMAIN g.sent => g.sent[i].container_id \in X
        BY <3>6, <3>7 DEF Keeps
      <4>3. Sound(h, H, {}, X) /\ Keeps(g, h) /\ i \notin DOMAIN h.sent
        BY <4>1, <4>2, <3>6, OnMessageFailedInnerSound
      <4>4. Keeps(d, h)
        BY <4>3, <3>6, KeepsTransitive
      <4>5. \A j \in 1..i : j \in ms => j \notin DOMAIN h.sent
        BY <4>3, <3>5, <3>6 DEF Keeps
      <4> QED
        BY <4>3, <4>4, <4>5, <3>4, <2>2
    <3>8. CASE i \notin ms
      <4>1. h = g
        BY <3>8, <3>1, <3>3, <3>4, <1>3
      <4>2. \A j \in 1..i : j \in ms => j \notin DOMAIN h.sent
        BY <4>1, <3>5, <3>6, <3>8
      <4> QED
        BY <4>1, <4>2, <3>4, <3>6, <2>2
    <3> QED
      BY <3>7, <3>8
  <2> QED
    BY <2>3, <2>4
<1>5. Good(L)
  BY <1>4
<1>6. DOMAIN e.sent \cap ms = {}
  BY <1>1, <1>2, <1>3, <1>5 DEF Keeps
<1> QED
  BY <1>3, <1>5, <1>6

LEMMA OnMessageFailedSound ==
  ASSUME NEW d, NEW H, NEW id, Sound(d, H, {}, {}), NEW e, e = OnMessageFailed(d, id)
  PROVE  Sound(e, H, {}, {}) /\ Keeps(d, e) /\ id \notin e.unknown
<1>1. CASE id \in DOMAIN d.containers
  <2>0. PICK in_container \in BOOLEAN : in_container = TRUE
    OBVIOUS
  <2>1. PICK ms : ms = d.containers[id].message_ids
    OBVIOUS
  <2>2. PICK g : g = FailAll(d, ms, in_container)
    OBVIOUS
  <2>3. e = [g EXCEPT !.containers = Without(@, {id})]
    BY <1>1, <2>0, <2>1, <2>2 DEF OnMessageFailed
  <2>4. PICK X : X = {id}
    OBVIOUS
  <2>5. Contained(d, {}, X)
    <3>1. Contained(d, {}, {})
      BY DEF Sound, Nearly
    <3> QED
      BY <3>1 DEF Contained, Contents
  <2>6. Sound(d, H, {}, X)
    BY <2>5 DEF Sound, Nearly
  <2>7. \A m \in ms \cap DOMAIN d.sent : d.sent[m].container_id \in X
    BY <1>1, <2>1, <2>4, <2>5 DEF Contained, Contents
  <2>8. Sound(g, H, {}, X) /\ Keeps(d, g)
    BY <2>2, <2>6, <2>7, FailAllSound
  <2>9. Sound(e, H, {}, {}) /\ Keeps(g, e)
    BY <2>3, <2>4, <2>8, DropContainer
  <2>10. id \notin d.unknown
    BY <1>1 DEF Sound, Nearly, UnknownIsSent, Contained, Contents
  <2>11. Keeps(d, e)
    BY <2>8, <2>9, KeepsTransitive
  <2> QED
    BY <2>9, <2>10, <2>11 DEF Keeps
<1>2. CASE id \notin DOMAIN d.containers
  <2>1. PICK in_container \in BOOLEAN : in_container = FALSE
    OBVIOUS
  <2>2. e = OnMessageFailedInner(d, id, in_container)
    BY <1>2, <2>1 DEF OnMessageFailed
  <2>3. Sound(e, H, {}, {}) /\ Keeps(d, e) /\ id \notin DOMAIN e.sent
    BY <2>1, <2>2, OnMessageFailedInnerSound
  <2> QED
    BY <2>3 DEF Sound, Nearly, UnknownIsSent
<1> QED
  BY <1>1, <1>2

(* to_get_state_info and to_resend_answer grow *)
LEMMA MoreToAsk ==
  ASSUME NEW d, NEW H, Sound(d, H, {}, {}), NEW e,
         NEW A \in SUBSET (1 .. d.next - 1), NEW B \in SUBSET (1 .. d.next - 1),
         Same(d, e, {"to_get_state_info", "to_resend_answer"}),
         e.to_get_state_info = d.to_get_state_info \cup A,
         e.to_resend_answer = d.to_resend_answer \cup B
  PROVE  Sound(e, H, {}, {}) /\ Keeps(d, e) /\ e.unknown = d.unknown
<1>1. /\ e.next = d.next /\ e.containers = d.containers /\ e.pending = d.pending /\ e.state = d.state
      /\ e.closed = d.closed /\ e.given = d.given /\ IsSession(e) /\ e.unknown = d.unknown
  BY DEF Same, Fields
<1>2. /\ e.to_send = d.to_send /\ e.sent = d.sent /\ e.parked = d.parked
      /\ e.renewed = d.renewed /\ e.returned = d.returned
  BY DEF Same, Fields
<1>3. Typed(e)
  BY <1>1, <1>2 DEF Sound, Nearly, Typed
<1>4. Placed(e, H) /\ Contained(e, {}, {})
  BY <1>1, <1>2 DEF Sound, Nearly, Placed, Contained
<1>5. Unsent(e) /\ UnknownIsSent(e, {}) /\ ParkedWait(e)
  BY <1>1, <1>2 DEF Sound, Nearly, Unsent, NotSent, UnknownIsSent, ParkedWait
<1>6. Keeps(d, e)
  BY <1>1, <1>2 DEF Keeps
<1> QED
  BY <1>1, <1>3, <1>4, <1>5, <1>6 DEF Sound, Nearly

LEMMA OnMessageInfoSound ==
  ASSUME NEW d, NEW H, NEW m, NEW is_received, NEW large,
         Sound(d, H, {}, {}), NEW e, e = OnMessageInfo(d, m, is_received, large)
  PROVE  Sound(e, H, {}, {}) /\ Keeps(d, e) /\ m \notin e.unknown
<1>1. CASE m \notin DOMAIN d.sent
  <2>1. e = d /\ m \notin d.unknown
    BY <1>1 DEF OnMessageInfo, Sound, Nearly, UnknownIsSent
  <2> QED
    BY <2>1, KeepsRefl
<1>2. CASE m \in DOMAIN d.sent /\ d.sent[m].query \in cancelled
  <2>1. e = ReturnSent(MarkAsKnown(DecContainer(d, m), {m}), {m})
    BY <1>2 DEF OnMessageInfo
  <2> QED
    BY <2>1, <1>2, ReturnCancelledSound
<1>3. CASE m \in DOMAIN d.sent /\ d.sent[m].query \notin cancelled /\ ~is_received
  <2>1. e = OnMessageFailed(d, m)
    BY <1>3 DEF OnMessageInfo
  <2> QED
    BY <2>1, OnMessageFailedSound
<1>4. CASE m \in DOMAIN d.sent /\ d.sent[m].query \notin cancelled /\ is_received
  <2>1. PICK g : g = OnMessageAck(d, m)
    OBVIOUS
  <2>2. e = IF large THEN [g EXCEPT !.to_resend_answer = @ \cup {m}] ELSE g
    BY <1>4, <2>1 DEF OnMessageInfo
  <2>3. Sound(g, H, {}, {}) /\ Keeps(d, g) /\ m \notin g.unknown /\ DOMAIN g.sent = DOMAIN d.sent
    BY <2>1, OnMessageAckSound
  <2>4. CASE large
    <3>1. PICK B : B = {m}
      OBVIOUS
    <3>2. PICK A : A = {}
      OBVIOUS
    <3>3. IsSession(g) /\ m \in 1 .. g.next - 1
      BY <1>4, <2>3 DEF Sound, Nearly, Typed
    <3>4. PICK r : r = g.to_resend_answer \cup B
      OBVIOUS
    <3>5. e = [g EXCEPT !.to_resend_answer = r]
      BY <2>2, <2>4, <3>1, <3>4
    <3>6. Same(g, e, {"to_get_state_info", "to_resend_answer"}) /\ e.to_resend_answer = r
      BY <3>3, <3>5 DEF IsSession, Same, Fields
    <3>7. e.to_get_state_info = g.to_get_state_info
      BY <3>3, <3>5 DEF IsSession, Fields
    <3>8. e.to_get_state_info = g.to_get_state_info \cup A
      BY <3>2, <3>7
    <3>9. A \in SUBSET (1 .. g.next - 1) /\ B \in SUBSET (1 .. g.next - 1)
      BY <3>1, <3>2, <3>3
    <3>10. Sound(e, H, {}, {}) /\ Keeps(g, e) /\ e.unknown = g.unknown
      BY <2>3, <3>4, <3>6, <3>8, <3>9, MoreToAsk
    <3> QED
      BY <2>3, <3>10, KeepsTransitive
  <2>5. CASE ~large
    BY <2>2, <2>3, <2>5
  <2> QED
    BY <2>4, <2>5
<1> QED
  BY <1>1, <1>2, <1>3, <1>4

InfoTurns(f, d, ms, received, L) ==
  /\ f[0] = d /\ OnMessagesInfo(d, ms, received) = f[L]
  /\ \A i \in 1..L :
       f[i] = IF i \in ms THEN OnMessageInfo(f[i - 1], i, i \in received, FALSE) ELSE f[i - 1]

LEMMA OnMessagesInfoRuns ==
  ASSUME NEW d, d.next \in Nat \ {0}, NEW ms, NEW received, NEW L \in Nat, L = d.next - 1
  PROVE  \E f : InfoTurns(f, d, ms, received, L)
<1> DEFINE g == CHOOSE f : f = [i \in 0..L |->
                  IF i = 0 THEN d
                  ELSE IF i \in ms THEN OnMessageInfo(f[i - 1], i, i \in received, FALSE)
                  ELSE f[i - 1]]
<1>2. \E f : f = [i \in 0..L |->
                  IF i = 0 THEN d
                  ELSE IF i \in ms THEN OnMessageInfo(f[i - 1], i, i \in received, FALSE)
                  ELSE f[i - 1]]
  <2>1. \E f : Turns(f, "info", d, ms, received, L)
    BY LoopExists
  <2> QED
    BY <2>1 DEF Turns, Turn
<1>3. g = [i \in 0..L |->
             IF i = 0 THEN d
             ELSE IF i \in ms THEN OnMessageInfo(g[i - 1], i, i \in received, FALSE)
             ELSE g[i - 1]]
  BY <1>2, Zenon
<1>4. OnMessagesInfo(d, ms, received) = g[L]
  BY Zenon DEF OnMessagesInfo
<1> HIDE DEF g
<1>5. PICK f : f = g
  OBVIOUS
<1>6. f[0] = d
  BY <1>3, <1>5
<1>7. \A i \in 1..L : i \in 0..L /\ i # 0
  OBVIOUS
<1>8. \A i \in 1..L :
        f[i] = IF i \in ms THEN OnMessageInfo(f[i - 1], i, i \in received, FALSE) ELSE f[i - 1]
  BY <1>3, <1>5, <1>7
<1> QED
  BY <1>4, <1>5, <1>6, <1>8, Zenon DEF InfoTurns

LEMMA OnMessagesInfoSound ==
  ASSUME NEW d, NEW H, NEW ms, NEW received, Sound(d, H, {}, {}),
         NEW e, e = OnMessagesInfo(d, ms, received)
  PROVE  Sound(e, H, {}, {}) /\ Keeps(d, e) /\ e.unknown \cap ms = {}
<1>1. d.next \in Nat \ {0} /\ d.unknown \subseteq 1 .. d.next - 1
  BY DEF Sound, Nearly, Typed, UnknownIsSent
<1>2. PICK L \in Nat : L = d.next - 1
  BY <1>1
<1>21. PICK f : InfoTurns(f, d, ms, received, L)
  BY <1>1, <1>2, OnMessagesInfoRuns
<1>3. f[0] = d /\ e = f[L]
  BY <1>21 DEF InfoTurns
<1>31. ASSUME NEW i \in 1..L
       PROVE  /\ i \in ms => f[i] = OnMessageInfo(f[i - 1], i, i \in received, FALSE)
              /\ i \notin ms => f[i] = f[i - 1]
  BY <1>21, Zenon DEF InfoTurns
<1> DEFINE Good(i) == Sound(f[i], H, {}, {}) /\ Keeps(d, f[i]) /\ \A j \in 1..i : j \in ms => j \notin f[i].unknown
           Bad == { i \in 0..L : ~Good(i) }
<1>4. ASSUME Bad # {} PROVE FALSE
  <2>1. Bad \in SUBSET Nat
    OBVIOUS
  <2>2. PICK i \in Bad : \A j \in Bad : i <= j
    BY <1>4, <2>1, LeastNat
  <2>3. CASE i = 0
    <3>1. f[i] = d
      BY <2>3, <1>3
    <3>2. \A j \in 1..i : FALSE
      BY <2>3
    <3> QED
      BY <3>1, <3>2, <2>2, KeepsRefl
  <2>4. CASE i # 0
    <3>1. i - 1 \in 0..L /\ ~(i <= i - 1) /\ i \in 1..L
      BY <2>4
    <3>2. Good(i - 1)
      BY <3>1, <2>2
    <3>3. PICK g : g = f[i - 1]
      OBVIOUS
    <3>4. PICK h : h = f[i]
      OBVIOUS
    <3>5. \A j \in 1..i : j \in 1 .. i - 1 \/ j = i
      BY <3>1
    <3>6. Sound(g, H, {}, {}) /\ Keeps(d, g) /\ \A j \in 1 .. i - 1 : j \in ms => j \notin g.unknown
      BY <3>2, <3>3
    <3>7. CASE i \in ms
      <4>1. f[i] = OnMessageInfo(f[i - 1], i, i \in received, FALSE)
        BY <3>1, <3>7, <1>31, Zenon
      <4>2. h = OnMessageInfo(g, i, i \in received, FALSE)
        BY <4>1, <3>3, <3>4, Zenon
      <4>3. Sound(h, H, {}, {}) /\ Keeps(g, h) /\ i \notin h.unknown
        BY <4>2, <3>6, OnMessageInfoSound, Zenon
      <4>4. Keeps(d, h)
        BY <4>3, <3>6, KeepsTransitive
      <4>5. \A j \in 1..i : j \in ms => j \notin h.unknown
        BY <4>3, <3>5, <3>6 DEF Keeps
      <4> QED
        BY <4>3, <4>4, <4>5, <3>4, <2>2
    <3>8. CASE i \notin ms
      <4>1. h = g
        BY <3>8, <3>1, <3>3, <3>4, <1>31
      <4>2. \A j \in 1..i : j \in ms => j \notin h.unknown
        BY <4>1, <3>5, <3>6, <3>8
      <4> QED
        BY <4>1, <4>2, <3>4, <3>6, <2>2
    <3> QED
      BY <3>7, <3>8
  <2> QED
    BY <2>3, <2>4
<1>5. Good(L)
  BY <1>4
<1>6. e.unknown \cap ms = {}
  BY <1>1, <1>2, <1>3, <1>5 DEF Keeps
<1> QED
  BY <1>3, <1>5, <1>6

LEMMA OnSessionCreatedSound ==
  ASSUME NEW d, NEW H, NEW id, Sound(d, H, {}, {}), NEW e, e = OnSessionCreated(d, id)
  PROVE  Sound(e, H, {}, {}) /\ Keeps(d, e)
<1>1. PICK in_container \in BOOLEAN : in_container = FALSE
  OBVIOUS
<1>2. PICK old : old = { m \in DOMAIN d.sent : d.sent[m].container_id < id }
  OBVIOUS
<1>3. PICK g : g = FailAll(d, old, in_container)
  OBVIOUS
<1>4. PICK r : r = g.renewed \cup { d.sent[m].query : m \in old }
  OBVIOUS
<1>5. e = [g EXCEPT !.renewed = r]
  BY <1>1, <1>2, <1>3, <1>4 DEF OnSessionCreated
<1>6. Sound(g, H, {}, {}) /\ Keeps(d, g)
  BY <1>1, <1>3, FailAllSound
<1>7. IsSession(g)
  BY <1>6 DEF Sound, Nearly, Typed
<1>8. Same(g, e, {"renewed"}) /\ e.renewed = r
  BY <1>5, <1>7 DEF IsSession, Same, Fields
<1>9. r \subseteq g.given
  <2>1. SentQueries(d.sent) \subseteq d.given
    BY DEF Sound, Nearly, Placed, Parts
  <2>2. { d.sent[m].query : m \in old } \subseteq d.given
    BY <2>1, <1>2 DEF SentQueries
  <2>3. g.given = d.given /\ g.renewed \subseteq g.given
    BY <1>6 DEF Keeps, Sound, Nearly, Typed
  <2> QED
    BY <2>2, <2>3, <1>4
<1>11. /\ e.next = g.next /\ e.containers = g.containers /\ e.pending = g.pending /\ e.state = g.state
       /\ e.closed = g.closed /\ e.given = g.given /\ IsSession(e) /\ e.unknown = g.unknown
  BY <1>8 DEF Same, Fields
<1>12. /\ e.to_send = g.to_send /\ e.sent = g.sent /\ e.parked = g.parked /\ e.returned = g.returned
       /\ e.to_get_state_info = g.to_get_state_info /\ e.to_resend_answer = g.to_resend_answer
  BY <1>8 DEF Same, Fields
<1>13. Typed(e)
  BY <1>6, <1>8, <1>9, <1>11, <1>12 DEF Sound, Nearly, Typed
<1>14. Placed(e, H) /\ Contained(e, {}, {})
  BY <1>6, <1>11, <1>12 DEF Sound, Nearly, Placed, Contained
<1>15. Unsent(e) /\ UnknownIsSent(e, {}) /\ ParkedWait(e)
  BY <1>6, <1>11, <1>12 DEF Sound, Nearly, Unsent, NotSent, UnknownIsSent, ParkedWait
<1>16. Keeps(g, e)
  BY <1>11, <1>12 DEF Keeps
<1>17. Keeps(d, e)
  BY <1>6, <1>16, KeepsTransitive
<1> QED
  BY <1>13, <1>14, <1>15, <1>17 DEF Sound, Nearly

(* The state of m was asked for in the packet, or is told by the message. *)
AsksFor(msg, m) ==
  \/ msg.type = "failed" /\ m \in msg.packet.info
  \/ msg.type = "infos" /\ m \in msg.ids

LEMMA OnPacketFailedSound ==
  ASSUME NEW d, NEW H, Sound(d, H, {}, {}), NEW packet \in Packets(d.next),
         NEW e, e = OnPacketFailed(d, packet)
  PROVE  Sound(e, H, {}, {}) /\ Keeps(d, e) /\ packet.info \subseteq e.to_get_state_info
<1>1. PICK g : g = OnMessageFailed(d, packet.id)
  OBVIOUS
<1>2. PICK A : A = packet.info
  OBVIOUS
<1>3. PICK B : B = packet.resend
  OBVIOUS
<1>4. Sound(g, H, {}, {}) /\ Keeps(d, g)
  BY <1>1, OnMessageFailedSound
<1>5. IsSession(g) /\ g.next = d.next
  BY <1>4 DEF Sound, Nearly, Typed, Keeps
<1>6. A \in SUBSET (1 .. g.next - 1) /\ B \in SUBSET (1 .. g.next - 1)
  BY <1>2, <1>3, <1>5 DEF Packets
<1>7. PICK a : a = g.to_get_state_info \cup A
  OBVIOUS
<1>8. PICK b : b = g.to_resend_answer \cup B
  OBVIOUS
<1>9. e = [g EXCEPT !.to_get_state_info = a, !.to_resend_answer = b]
  BY <1>1, <1>2, <1>3, <1>7, <1>8 DEF OnPacketFailed
<1>10. /\ Same(g, e, {"to_get_state_info", "to_resend_answer"})
       /\ e.to_get_state_info = a /\ e.to_resend_answer = b
  BY <1>5, <1>9 DEF IsSession, Same, Fields
<1>11. Sound(e, H, {}, {}) /\ Keeps(g, e)
  BY <1>4, <1>6, <1>7, <1>8, <1>10, MoreToAsk
<1>12. Keeps(d, e)
  BY <1>4, <1>11, KeepsTransitive
<1> QED
  BY <1>2, <1>7, <1>10, <1>11, <1>12

LEMMA HandleSound ==
  ASSUME NEW d, NEW H, Sound(d, H, {}, {}), NEW msg \in Messages(d.next), NEW e, e = Handle(d, msg)
  PROVE  /\ Sound(e, H, {}, {}) /\ Keeps(d, e)
         /\ \A m \in e.unknown : AsksFor(msg, m) => m \in e.to_get_state_info
<1>1. CASE msg.type = "ack"
  <2>1. e = OnMessageAck(d, msg.id)
    BY <1>1 DEF Handle
  <2>2. Sound(e, H, {}, {}) /\ Keeps(d, e)
    BY <2>1, OnMessageAckSound
  <2> QED
    BY <1>1, <2>2 DEF AsksFor
<1>2. CASE msg.type = "result"
  <2>1. e = OnMessageResult(d, msg.id)
    BY <1>2 DEF Handle
  <2>2. Sound(e, H, {}, {}) /\ Keeps(d, e)
    BY <2>1, OnMessageResultSound
  <2> QED
    BY <1>2, <2>2 DEF AsksFor
<1>3. CASE msg.type = "failed"
  <2>1. e = OnPacketFailed(d, msg.packet)
    BY <1>3 DEF Handle
  <2>2. msg.packet \in Packets(d.next)
    BY <1>3 DEF Messages
  <2>3. Sound(e, H, {}, {}) /\ Keeps(d, e) /\ msg.packet.info \subseteq e.to_get_state_info
    BY <2>1, <2>2, OnPacketFailedSound
  <2> QED
    BY <1>3, <2>3 DEF AsksFor
<1>4. CASE msg.type = "info"
  <2>1. e = OnMessageInfo(d, msg.id, msg.is_received, msg.large)
    BY <1>4 DEF Handle
  <2>2. Sound(e, H, {}, {}) /\ Keeps(d, e)
    BY <2>1, OnMessageInfoSound
  <2> QED
    BY <1>4, <2>2 DEF AsksFor
<1>5. CASE msg.type = "infos"
  <2>1. e = OnMessagesInfo(d, msg.ids, msg.received)
    BY <1>5 DEF Handle
  <2>2. Sound(e, H, {}, {}) /\ Keeps(d, e) /\ e.unknown \cap msg.ids = {}
    BY <2>1, OnMessagesInfoSound
  <2> QED
    BY <1>5, <2>2 DEF AsksFor
<1>6. CASE msg.type = "created"
  <2>1. e = OnSessionCreated(d, msg.id)
    BY <1>6 DEF Handle
  <2>2. Sound(e, H, {}, {}) /\ Keeps(d, e)
    BY <2>1, OnSessionCreatedSound
  <2> QED
    BY <1>6, <2>2 DEF AsksFor
<1>7. msg.type \in {"ack", "result", "created", "info", "infos", "failed"}
  BY DEF Messages
<1> QED
  BY <1>1, <1>2, <1>3, <1>4, <1>5, <1>6, <1>7

HandleTurns(f, d, msgs, L) ==
  f[0] = d /\ HandleAll(d, msgs) = f[L] /\ \A i \in 1..L : f[i] = Handle(f[i - 1], msgs[i])

LEMMA HandleAllRuns ==
  ASSUME NEW d, NEW msgs, NEW L \in Nat, L = Len(msgs)
  PROVE  \E f : HandleTurns(f, d, msgs, L)
<1> DEFINE g == CHOOSE f : f = [i \in 0..L |-> IF i = 0 THEN d ELSE Handle(f[i - 1], msgs[i])]
<1>2. \E f : f = [i \in 0..L |-> IF i = 0 THEN d ELSE Handle(f[i - 1], msgs[i])]
  <2>1. \E f : Turns(f, "handle", d, msgs, 0, L)
    BY LoopExists
  <2> QED
    BY <2>1 DEF Turns, Turn
<1>3. g = [i \in 0..L |-> IF i = 0 THEN d ELSE Handle(g[i - 1], msgs[i])]
  BY <1>2, Zenon
<1>4. HandleAll(d, msgs) = g[L]
  BY Zenon DEF HandleAll
<1> HIDE DEF g
<1>5. PICK f : f = g
  OBVIOUS
<1>6. f[0] = d
  BY <1>3, <1>5
<1>7. \A i \in 1..L : i \in 0..L /\ i # 0
  OBVIOUS
<1>8. \A i \in 1..L : f[i] = Handle(f[i - 1], msgs[i])
  BY <1>3, <1>5, <1>7
<1> QED
  BY <1>4, <1>5, <1>6, <1>8, Zenon DEF HandleTurns

SendTurns(f, d, queue, L) ==
  f[0] = d /\ SendPending(d, queue) = f[L] /\ \A i \in 1..L : f[i] = ConnectionSendQuery(f[i - 1], queue[i])

LEMMA SendPendingRuns ==
  ASSUME NEW d, NEW queue, NEW L \in Nat, L = Len(queue)
  PROVE  \E f : SendTurns(f, d, queue, L)
<1> DEFINE g == CHOOSE f : f = [i \in 0..L |-> IF i = 0 THEN d ELSE ConnectionSendQuery(f[i - 1], queue[i])]
<1>2. \E f : f = [i \in 0..L |-> IF i = 0 THEN d ELSE ConnectionSendQuery(f[i - 1], queue[i])]
  <2>1. \E f : Turns(f, "send", d, queue, 0, L)
    BY LoopExists
  <2> QED
    BY <2>1 DEF Turns, Turn
<1>3. g = [i \in 0..L |-> IF i = 0 THEN d ELSE ConnectionSendQuery(g[i - 1], queue[i])]
  BY <1>2, Zenon
<1>4. SendPending(d, queue) = g[L]
  BY Zenon DEF SendPending
<1> HIDE DEF g
<1>5. PICK f : f = g
  OBVIOUS
<1>6. f[0] = d
  BY <1>3, <1>5
<1>7. \A i \in 1..L : i \in 0..L /\ i # 0
  OBVIOUS
<1>8. \A i \in 1..L : f[i] = ConnectionSendQuery(f[i - 1], queue[i])
  BY <1>3, <1>5, <1>7
<1> QED
  BY <1>4, <1>5, <1>6, <1>8, Zenon DEF SendTurns

(* What was asked for in the first i messages is known or asked for again. *)
Answered(msgs, i, e) ==
  \A j \in 1..i : \A m \in e.unknown : AsksFor(msgs[j], m) => m \in e.to_get_state_info

LEMMA HandleAllSound ==
  ASSUME NEW d, NEW H, Sound(d, H, {}, {}), NEW msgs \in Seq(Messages(d.next)),
         NEW e, e = HandleAll(d, msgs)
  PROVE  Sound(e, H, {}, {}) /\ Keeps(d, e) /\ Answered(msgs, Len(msgs), e)
<1>1. PICK L \in Nat : L = Len(msgs)
  OBVIOUS
<1>2. PICK f : HandleTurns(f, d, msgs, L)
  BY <1>1, HandleAllRuns
<1>3. f[0] = d /\ e = f[L] /\ \A i \in 1..L : f[i] = Handle(f[i - 1], msgs[i])
  BY <1>2 DEF HandleTurns
<1> DEFINE Good(i) == Sound(f[i], H, {}, {}) /\ Keeps(d, f[i]) /\ Answered(msgs, i, f[i])
           Bad == { i \in 0..L : ~Good(i) }
<1>4. ASSUME Bad # {} PROVE FALSE
  <2>1. Bad \in SUBSET Nat
    OBVIOUS
  <2>2. PICK i \in Bad : \A j \in Bad : i <= j
    BY <1>4, <2>1, LeastNat
  <2>3. CASE i = 0
    <3>1. f[i] = d
      BY <2>3, <1>3
    <3>2. \A j \in 1..i : FALSE
      BY <2>3
    <3>3. Answered(msgs, i, d)
      BY <3>2 DEF Answered
    <3> QED
      BY <3>1, <3>3, <2>2, KeepsRefl
  <2>4. CASE i # 0
    <3>1. i - 1 \in 0..L /\ ~(i <= i - 1) /\ i \in 1..L
      BY <2>4
    <3>2. Good(i - 1)
      BY <3>1, <2>2
    <3>3. PICK g : g = f[i - 1]
      OBVIOUS
    <3>4. PICK h : h = f[i]
      OBVIOUS
    <3>5. \A j \in 1..i : j \in 1 .. i - 1 \/ j = i
      BY <3>1
    <3>6. Sound(g, H, {}, {}) /\ Keeps(d, g) /\ Answered(msgs, i - 1, g)
      BY <3>2, <3>3
    <3>7. h = Handle(g, msgs[i])
      BY <3>1, <3>3, <3>4, <1>3
    <3>8. msgs[i] \in Messages(g.next)
      BY <3>1, <3>6, <1>1 DEF Keeps
    <3>9. /\ Sound(h, H, {}, {}) /\ Keeps(g, h)
          /\ \A m \in h.unknown : AsksFor(msgs[i], m) => m \in h.to_get_state_info
      BY <3>6, <3>7, <3>8, HandleSound
    <3>10. Keeps(d, h)
      BY <3>6, <3>9, KeepsTransitive
    <3>11. h.unknown \subseteq g.unknown /\ g.to_get_state_info \subseteq h.to_get_state_info
      BY <3>9 DEF Keeps
    <3>12. Answered(msgs, i, h)
      BY <3>5, <3>6, <3>9, <3>11 DEF Answered
    <3> QED
      BY <3>4, <3>9, <3>10, <3>12, <2>2
  <2> QED
    BY <2>3, <2>4
<1>5. Good(L)
  BY <1>4
<1> QED
  BY <1>1, <1>3, <1>5
-----------------------------------------------------------------------------
(* Sending. *)

(* What sending does not change. *)
Sends(d, e) ==
  /\ d.next <= e.next /\ e.state = d.state /\ e.closed = d.closed /\ e.given = d.given
  /\ e.unknown = d.unknown /\ e.to_get_state_info = d.to_get_state_info

LEMMA SendsTransitive ==
  ASSUME NEW d, NEW e, NEW g, Typed(d), Typed(e), Typed(g), Sends(d, e), Sends(e, g)
  PROVE  Sends(d, g)
<1>1. d.next \in Nat /\ e.next \in Nat /\ g.next \in Nat
  BY DEF Typed
<1>2. d.next <= g.next
  BY <1>1 DEF Sends
<1> QED
  BY <1>2 DEF Sends

LEMMA PartsToReturned ==
  ASSUME NEW A, NEW B, NEW C, NEW D, NEW E, NEW G, Parts(A, B, C, D, E, G), NEW M, M \subseteq E
  PROVE  Parts(A, B, C, D \cup M, E \ M, G) /\ D \cap M = {} /\ M \subseteq G
  BY DEF Parts

LEMMA PartsToParked ==
  ASSUME NEW A, NEW B, NEW C, NEW D, NEW E, NEW G, Parts(A, B, C, D, E, G), NEW M, M \subseteq E,
         NEW F, F = B \cup M, NEW R, R = E \ M
  PROVE  Parts(A, F, C, D, R, G)
  BY DEF Parts

LEMMA PartsToSent ==
  ASSUME NEW A, NEW B, NEW C, NEW D, NEW E, NEW G, Parts(A, B, C, D, E, G), NEW M, M \subseteq E,
         NEW F, F = C \cup M, NEW R, R = E \ M
  PROVE  Parts(A, B, F, D, R, G)
  BY DEF Parts

LEMMA ReturnQuerySound ==
  ASSUME NEW d, NEW H, Sound(d, H, {}, {}), NEW q \in H, NEW e, e = ReturnQuery(d, q)
  PROVE  Sound(e, H \ {q}, {}, {}) /\ Sends(d, e)
<1>1. IsSession(d) /\ d.returned \in [Queries -> Nat] /\ Once(d.returned)
  BY DEF Sound, Nearly, Typed, Placed
<1>2. PICK M : M = {q}
  OBVIOUS
<1>3. Parts(Elements(d.pending), Elements(d.parked), SentQueries(d.sent),
            ReturnedQueries(d.returned), H, d.given)
  BY DEF Sound, Nearly, Placed
<1>4. /\ Parts(Elements(d.pending), Elements(d.parked), SentQueries(d.sent),
               ReturnedQueries(d.returned) \cup M, H \ M, d.given)
      /\ ReturnedQueries(d.returned) \cap M = {} /\ M \subseteq d.given
  <2>1. M \subseteq H
    BY <1>2
  <2> QED
    BY <2>1, <1>3, PartsToReturned
<1>5. q \in Queries
  BY <1>2, <1>4 DEF Sound, Nearly, Typed
<1>6. PICK r : r = [d.returned EXCEPT ![q] = @ + 1]
  OBVIOUS
<1>7. e = [d EXCEPT !.returned = r]
  BY <1>6 DEF ReturnQuery
<1>8. Same(d, e, {"returned"}) /\ e.returned = r
  BY <1>1, <1>7 DEF IsSession, Same, Fields
<1>9. d.returned[q] = 0
  BY <1>2, <1>4, <1>5 DEF ReturnedQueries
<1>10. \A p \in Queries : r[p] = IF p = q THEN 1 ELSE d.returned[p]
  BY <1>1, <1>5, <1>6, <1>9
<1>11. r \in [Queries -> Nat]
  BY <1>1, <1>5, <1>6
<1>12. Once(r)
  BY <1>1, <1>10 DEF Once
<1>13. ReturnedQueries(r) = ReturnedQueries(d.returned) \cup M
  BY <1>2, <1>5, <1>10 DEF ReturnedQueries
<1>14. /\ e.next = d.next /\ e.containers = d.containers /\ e.pending = d.pending /\ e.state = d.state
       /\ e.closed = d.closed /\ e.given = d.given /\ IsSession(e) /\ e.unknown = d.unknown
  BY <1>8 DEF Same, Fields
<1>15. /\ e.to_send = d.to_send /\ e.sent = d.sent /\ e.parked = d.parked /\ e.renewed = d.renewed
       /\ e.to_get_state_info = d.to_get_state_info /\ e.to_resend_answer = d.to_resend_answer
  BY <1>8 DEF Same, Fields
<1>16. Typed(e)
  BY <1>8, <1>11, <1>14, <1>15 DEF Sound, Nearly, Typed
<1>17. Placed(e, H \ M)
  BY <1>4, <1>8, <1>12, <1>13, <1>14, <1>15 DEF Sound, Nearly, Placed
<1>18. Contained(e, {}, {})
  BY <1>14, <1>15 DEF Sound, Nearly, Contained
<1>19. Unsent(e) /\ UnknownIsSent(e, {}) /\ ParkedWait(e)
  BY <1>14, <1>15 DEF Sound, Nearly, Unsent, NotSent, UnknownIsSent, ParkedWait
<1>20. Sends(d, e)
  BY <1>14, <1>15 DEF Sends, Sound, Nearly, Typed
<1> QED
  BY <1>2, <1>16, <1>17, <1>18, <1>19, <1>20 DEF Sound, Nearly

LEMMA ParkQuerySound ==
  ASSUME NEW d, NEW H, Sound(d, H, {}, {}), NEW q \in H, d.unknown # {},
         NEW e, e = [d EXCEPT !.parked = Append(@, q)]
  PROVE  Sound(e, H \ {q}, {}, {}) /\ Sends(d, e)
<1>1. IsSession(d) /\ d.parked \in Seq(Queries) /\ Distinct(d.parked)
  BY DEF Sound, Nearly, Typed, Placed
<1>2. PICK M : M = {q}
  OBVIOUS
<1>3. Parts(Elements(d.pending), Elements(d.parked), SentQueries(d.sent),
            ReturnedQueries(d.returned), H, d.given)
  BY DEF Sound, Nearly, Placed
<1>4. /\ Parts(Elements(d.pending), Elements(d.parked) \cup M, SentQueries(d.sent),
               ReturnedQueries(d.returned), H \ M, d.given)
      /\ Elements(d.parked) \cap M = {} /\ M \subseteq d.given
  <2>1. M \subseteq H
    BY <1>2
  <2>2. PICK F : F = Elements(d.parked) \cup M
    OBVIOUS
  <2>3. PICK R : R = H \ M
    OBVIOUS
  <2>4. Parts(Elements(d.pending), F, SentQueries(d.sent),
                ReturnedQueries(d.returned), R, d.given)
    BY <2>1, <2>2, <2>3, <1>3, PartsToParked
  <2>5. Elements(d.parked) \cap M = {} /\ M \subseteq d.given
    BY <2>1, <1>3 DEF Parts
  <2> QED
    BY <2>2, <2>3, <2>4, <2>5
<1>5. q \in Queries /\ q \notin Elements(d.parked)
  BY <1>2, <1>4 DEF Sound, Nearly, Typed
<1>6. PICK r : r = Append(d.parked, q)
  OBVIOUS
<1>7. e = [d EXCEPT !.parked = r]
  BY <1>6
<1>8. Same(d, e, {"parked"}) /\ e.parked = r
  BY <1>1, <1>7 DEF IsSession, Same, Fields
<1>9. r \in Seq(Queries) /\ Elements(r) = Elements(d.parked) \cup M /\ Distinct(r)
  BY <1>1, <1>2, <1>5, <1>6, ElementsAppend
<1>14. /\ e.next = d.next /\ e.containers = d.containers /\ e.pending = d.pending /\ e.state = d.state
       /\ e.closed = d.closed /\ e.given = d.given /\ IsSession(e) /\ e.unknown = d.unknown
  BY <1>8 DEF Same, Fields
<1>15. /\ e.to_send = d.to_send /\ e.sent = d.sent /\ e.returned = d.returned /\ e.renewed = d.renewed
       /\ e.to_get_state_info = d.to_get_state_info /\ e.to_resend_answer = d.to_resend_answer
  BY <1>8 DEF Same, Fields
<1>16. Typed(e)
  BY <1>8, <1>9, <1>14, <1>15 DEF Sound, Nearly, Typed
<1>17. Placed(e, H \ M)
  BY <1>4, <1>8, <1>9, <1>14, <1>15 DEF Sound, Nearly, Placed
<1>18. Contained(e, {}, {})
  BY <1>14, <1>15 DEF Sound, Nearly, Contained
<1>19. Unsent(e) /\ UnknownIsSent(e, {}) /\ ParkedWait(e)
  BY <1>14, <1>15 DEF Sound, Nearly, Unsent, NotSent, UnknownIsSent, ParkedWait
<1>20. Sends(d, e)
  BY <1>14, <1>15 DEF Sends, Sound, Nearly, Typed
<1> QED
  BY <1>2, <1>16, <1>17, <1>18, <1>19, <1>20 DEF Sound, Nearly

LEMMA NextId ==
  ASSUME NEW n \in Nat \ {0}
  PROVE  /\ n + 1 \in Nat \ {0} /\ n \in 1 .. (n + 1) - 1 /\ n \notin 1 .. n - 1 /\ n <= n + 1
         /\ 1 .. n - 1 \subseteq 1 .. (n + 1) - 1 /\ Entries(n) \subseteq Entries(n + 1)
<1>1. 1 .. n - 1 \subseteq 1 .. (n + 1) - 1
  OBVIOUS
<1>2. Entries(n) \subseteq Entries(n + 1)
  BY <1>1 DEF Entries
<1> QED
  BY <1>1, <1>2

LEMMA MessageIdNat ==
  ASSUME NEW d, Typed(d), NEW q
  PROVE  MessageId(d, q) \in Nat /\ (MessageId(d, q) # 0 => MessageId(d, q) \in DOMAIN d.sent)
<1>1. SentAs(d, q) \subseteq DOMAIN d.sent
  BY DEF SentAs
<1>2. DOMAIN d.sent \subseteq 1 .. d.next - 1 /\ d.next \in Nat
  BY DEF Typed
<1>3. CASE SentAs(d, q) = {}
  BY <1>3 DEF MessageId
<1>4. CASE SentAs(d, q) # {}
  <2>1. PICK x : x = CHOOSE m \in SentAs(d, q) : TRUE
    OBVIOUS
  <2>2. x \in SentAs(d, q)
    BY <1>4, <2>1
  <2>3. MessageId(d, q) = x
    BY <1>4, <2>1 DEF MessageId
  <2> QED
    BY <2>2, <2>3, <1>1, <1>2
<1> QED
  BY <1>3, <1>4

LEMMA SendQuerySound ==
  ASSUME NEW d, NEW H, Sound(d, H, {}, {}), NEW q \in H, NEW after \in Nat, NEW m, m = d.next,
         NEW e, e = [d EXCEPT !.next = m + 1,
                    !.to_send = Append(@, [id |-> m, query |-> q, after |-> after]),
                    !.sent = With(@, m, [query |-> q, container_id |-> m, ack |-> FALSE])]
  PROVE  Sound(e, H \ {q}, {}, {}) /\ Sends(d, e)
<1>1. /\ IsSession(d) /\ m \in Nat \ {0} /\ d.to_send \in Seq(Sendings)
      /\ DOMAIN d.sent \subseteq 1 .. m - 1 /\ \A k \in DOMAIN d.sent : d.sent[k] \in Entries(m)
  BY DEF Sound, Nearly, Typed
<1>2. PICK M : M = {q}
  OBVIOUS
<1>3. Parts(Elements(d.pending), Elements(d.parked), SentQueries(d.sent),
            ReturnedQueries(d.returned), H, d.given)
  BY DEF Sound, Nearly, Placed
<1>4. /\ Parts(Elements(d.pending), Elements(d.parked), SentQueries(d.sent) \cup M,
               ReturnedQueries(d.returned), H \ M, d.given)
      /\ SentQueries(d.sent) \cap M = {} /\ M \subseteq d.given
  <2>1. M \subseteq H
    BY <1>2
  <2>2. PICK F : F = SentQueries(d.sent) \cup M
    OBVIOUS
  <2>3. PICK R : R = H \ M
    OBVIOUS
  <2>4. Parts(Elements(d.pending), Elements(d.parked), F,
                ReturnedQueries(d.returned), R, d.given)
    BY <2>1, <2>2, <2>3, <1>3, PartsToSent
  <2>5. SentQueries(d.sent) \cap M = {} /\ M \subseteq d.given
    BY <2>1, <1>3 DEF Parts
  <2> QED
    BY <2>2, <2>3, <2>4, <2>5
<1>5. q \in Queries /\ q \notin SentQueries(d.sent)
  BY <1>2, <1>4 DEF Sound, Nearly, Typed
<1>6. PICK x : x = [id |-> m, query |-> q, after |-> after]
  OBVIOUS
<1>7. PICK y : y = [query |-> q, container_id |-> m, ack |-> FALSE]
  OBVIOUS
<1>8. PICK t : t = Append(d.to_send, x)
  OBVIOUS
<1>9. PICK s : s = With(d.sent, m, y)
  OBVIOUS
<1>10. PICK n : n = m + 1
  OBVIOUS
<1>11. e = [d EXCEPT !.next = n, !.to_send = t, !.sent = s]
  BY <1>6, <1>7, <1>8, <1>9, <1>10
<1>12. Same(d, e, {"next", "to_send", "sent"}) /\ e.next = n /\ e.to_send = t /\ e.sent = s
  BY <1>1, <1>11 DEF IsSession, Same, Fields
<1>13. /\ e.containers = d.containers /\ e.pending = d.pending /\ e.state = d.state
       /\ e.closed = d.closed /\ e.given = d.given /\ IsSession(e) /\ e.unknown = d.unknown
  BY <1>12 DEF Same, Fields
<1>14. /\ e.parked = d.parked /\ e.returned = d.returned /\ e.renewed = d.renewed
       /\ e.to_get_state_info = d.to_get_state_info /\ e.to_resend_answer = d.to_resend_answer
  BY <1>12 DEF Same, Fields
<1>15. /\ n \in Nat \ {0} /\ m \in 1 .. n - 1 /\ m \notin 1 .. m - 1 /\ m <= n
       /\ 1 .. m - 1 \subseteq 1 .. n - 1 /\ Entries(m) \subseteq Entries(n)
  BY <1>1, <1>10, NextId
<1>16. x \in Sendings /\ x.id = m
  BY <1>1, <1>5, <1>6 DEF Sendings
<1>17. y \in Entries(n) /\ y.query = q /\ y.container_id = m
  BY <1>5, <1>7, <1>15 DEF Entries
<1>18. /\ DOMAIN s = DOMAIN d.sent \cup {m} /\ s[m] = y /\ m \notin DOMAIN d.sent
       /\ \A k \in DOMAIN d.sent : s[k] = d.sent[k]
  BY <1>1, <1>9, <1>15 DEF With
<1>19. /\ t \in Seq(Sendings) /\ Len(t) = Len(d.to_send) + 1 /\ Len(d.to_send) \in Nat
       /\ t[Len(d.to_send) + 1] = x
       /\ \A i \in 1 .. Len(d.to_send) : t[i] = d.to_send[i]
  BY <1>1, <1>8, <1>16, AppendProperties
<1>20. \A k \in DOMAIN s : s[k] \in Entries(n)
  BY <1>1, <1>15, <1>17, <1>18
<1>21. DOMAIN s \subseteq 1 .. n - 1
  BY <1>1, <1>15, <1>18
<1>22. Typed(e)
  <2>1. d.to_get_state_info \subseteq 1 .. n - 1 /\ d.to_resend_answer \subseteq 1 .. n - 1
    BY <1>15 DEF Sound, Nearly, Typed
  <2> QED
    BY <2>1, <1>12, <1>13, <1>14, <1>15, <1>19, <1>20, <1>21 DEF Sound, Nearly, Typed
<1>23. SentQueries(s) = SentQueries(d.sent) \cup M
  <2>1. SentQueries(s) \subseteq SentQueries(d.sent) \cup M
    BY <1>2, <1>17, <1>18 DEF SentQueries
  <2>2. SentQueries(d.sent) \subseteq SentQueries(s)
    BY <1>18 DEF SentQueries
  <2>3. q \in SentQueries(s)
    BY <1>17, <1>18 DEF SentQueries
  <2> QED
    BY <2>1, <2>2, <2>3, <1>2
<1>24. OneId(s)
  <2>1. OneId(d.sent)
    BY DEF Sound, Nearly, Placed
  <2>2. \A k \in DOMAIN d.sent : d.sent[k].query # q
    BY <1>5 DEF SentQueries
  <2> QED
    BY <2>1, <2>2, <1>17, <1>18 DEF OneId
<1>25. Placed(e, H \ M)
  BY <1>4, <1>12, <1>13, <1>14, <1>23, <1>24 DEF Sound, Nearly, Placed
<1>26. Contained(e, {}, {})
  <2>1. Contents(d.containers, d.sent, m, {}, {})
    BY DEF Sound, Nearly, Contained
  <2>2. DOMAIN d.containers \subseteq (1 .. n - 1) \ DOMAIN s
    BY <2>1, <1>15, <1>18 DEF Contents
  <2>3. ASSUME NEW id \in DOMAIN d.containers
        PROVE  /\ d.containers[id] \in [ref_cnt : Nat \ {0}, message_ids : SUBSET (1 .. n - 1)]
               /\ d.containers[id].ref_cnt = Cardinality(Inside(s, id, {}))
               /\ \A k \in d.containers[id].message_ids \cap DOMAIN s : s[k].container_id = id
    <3>1. /\ d.containers[id] \in [ref_cnt : Nat \ {0}, message_ids : SUBSET (1 .. m - 1)]
          /\ d.containers[id].ref_cnt = Cardinality(Inside(d.sent, id, {}))
          /\ \A k \in d.containers[id].message_ids \cap DOMAIN d.sent : d.sent[k].container_id = id
          /\ id \in 1 .. m - 1
      BY <2>1 DEF Contents
    <3>2. id # m
      BY <3>1, <1>15
    <3>3. Inside(s, id, {}) = Inside(d.sent, id, {})
      BY <3>2, <1>17, <1>18 DEF Inside
    <3>4. d.containers[id] \in [ref_cnt : Nat \ {0}, message_ids : SUBSET (1 .. n - 1)]
      BY <3>1, <1>15
    <3>5. m \notin d.containers[id].message_ids
      BY <3>1, <1>15
    <3>6. \A k \in d.containers[id].message_ids \cap DOMAIN s : s[k].container_id = id
      BY <3>1, <3>5, <1>18
    <3> QED
      BY <3>1, <3>3, <3>4, <3>6
  <2>4. Contents(d.containers, s, n, {}, {})
    BY <2>2, <2>3 DEF Contents
  <2> QED
    BY <2>4, <1>12, <1>13 DEF Contained
<1>27. Unsent(e)
  <2>1. /\ \A i \in 1..Len(d.to_send) :
             /\ d.to_send[i].id \in 1 .. m - 1
             /\ d.to_send[i].id \in DOMAIN d.sent => d.sent[d.to_send[i].id].container_id = d.to_send[i].id
        /\ \A i, j \in 1..Len(d.to_send) : d.to_send[i].id = d.to_send[j].id => i = j
    BY DEF Sound, Nearly, Unsent, NotSent
  <2>2. \A i \in 1..Len(t) : i \in 1..Len(d.to_send) \/ i = Len(d.to_send) + 1
    BY <1>19
  <2>3. ASSUME NEW i \in 1..Len(t)
        PROVE  t[i].id \in 1 .. n - 1 /\ (t[i].id \in DOMAIN s => s[t[i].id].container_id = t[i].id)
    <3>1. CASE i \in 1..Len(d.to_send)
      <4>1. t[i].id = d.to_send[i].id /\ t[i].id \in 1 .. m - 1 /\ t[i].id # m
        BY <3>1, <2>1, <1>15, <1>19
      <4> QED
        BY <4>1, <3>1, <2>1, <1>15, <1>18
    <3>2. CASE i = Len(d.to_send) + 1
      <4>1. t[i].id = m
        BY <3>2, <1>16, <1>19
      <4> QED
        BY <4>1, <1>15, <1>17, <1>18
    <3> QED
      BY <3>1, <3>2, <2>2
  <2>4. \A i \in 1..Len(d.to_send) : t[i].id # m
    BY <2>1, <1>15, <1>19
  <2>5. ASSUME NEW i \in 1..Len(t), NEW j \in 1..Len(t), t[i].id = t[j].id
        PROVE  i = j
    BY <2>5, <2>1, <2>2, <2>4, <1>16, <1>19
  <2>6. NotSent(t, s, n)
    BY <2>3, <2>5 DEF NotSent
  <2> QED
    BY <2>6, <1>12 DEF Unsent
<1>28. UnknownIsSent(e, {}) /\ ParkedWait(e)
  BY <1>12, <1>13, <1>14, <1>18 DEF Sound, Nearly, UnknownIsSent, ParkedWait
<1>29. Sends(d, e)
  BY <1>12, <1>13, <1>14, <1>15 DEF Sends
<1> QED
  BY <1>2, <1>22, <1>25, <1>26, <1>27, <1>28, <1>29 DEF Sound, Nearly

LEMMA ConnectionSendQuerySound ==
  ASSUME NEW d, NEW H, Sound(d, H, {}, {}), NEW q \in H, NEW e, e = ConnectionSendQuery(d, q)
  PROVE  Sound(e, H \ {q}, {}, {}) /\ Sends(d, e)
<1>1. PICK after : after = IF q \in DOMAIN After THEN MessageId(d, After[q]) ELSE 0
  OBVIOUS
<1>2. after \in Nat
  <2>1. Typed(d)
    BY DEF Sound, Nearly
  <2>2. MessageId(d, After[q]) \in Nat
    BY <2>1, MessageIdNat
  <2> QED
    BY <2>2, <1>1
<1>3. PICK m : m = d.next
  OBVIOUS
<1>4. CASE q \in cancelled \/ (q \in DOMAIN After /\ after = 0)
  <2>1. e = ReturnQuery(d, q)
    BY <1>1, <1>4 DEF ConnectionSendQuery
  <2> QED
    BY <2>1, ReturnQuerySound
<1>5. CASE /\ ~(q \in cancelled \/ (q \in DOMAIN After /\ after = 0))
           /\ q \in DOMAIN After /\ d.unknown # {}
  <2>1. e = [d EXCEPT !.parked = Append(@, q)]
    BY <1>1, <1>5 DEF ConnectionSendQuery
  <2> QED
    BY <2>1, <1>5, ParkQuerySound
<1>6. CASE /\ ~(q \in cancelled \/ (q \in DOMAIN After /\ after = 0))
           /\ ~(q \in DOMAIN After /\ d.unknown # {})
  <2>1. e = [d EXCEPT !.next = m + 1,
                    !.to_send = Append(@, [id |-> m, query |-> q, after |-> after]),
                    !.sent = With(@, m, [query |-> q, container_id |-> m, ack |-> FALSE])]
    BY <1>1, <1>3, <1>6 DEF ConnectionSendQuery
  <2> QED
    BY <2>1, <1>2, <1>3, SendQuerySound
<1> QED
  BY <1>4, <1>5, <1>6

(* the queries of a queue after the first i *)
Rest(queue, i) == { queue[j] : j \in i + 1 .. Len(queue) }

LEMMA RestProperties ==
  ASSUME NEW queue \in Seq(Queries), Distinct(queue)
  PROVE  /\ Rest(queue, 0) = Elements(queue) /\ Rest(queue, Len(queue)) = {}
         /\ \A i \in 1..Len(queue) : queue[i] \in Rest(queue, i - 1)
         /\ \A i \in 1..Len(queue) : Rest(queue, i - 1) \ {queue[i]} = Rest(queue, i)
<1>1. PICK L \in Nat : L = Len(queue)
  OBVIOUS
<1>2. Rest(queue, 0) = Elements(queue)
  BY DEF Rest, Elements
<1>3. Rest(queue, L) = {}
  <2>1. \A j \in L + 1 .. L : FALSE
    OBVIOUS
  <2> QED
    BY <1>1, <2>1 DEF Rest
<1>4. ASSUME NEW i \in 1..L
      PROVE  queue[i] \in Rest(queue, i - 1) /\ Rest(queue, i - 1) \ {queue[i]} = Rest(queue, i)
  <2>1. i \in (i - 1) + 1 .. L
    OBVIOUS
  <2>2. \A j \in (i - 1) + 1 .. L : j \in 1..L /\ (j = i \/ j \in i + 1 .. L)
    OBVIOUS
  <2>3. \A j \in i + 1 .. L : j \in (i - 1) + 1 .. L /\ j # i /\ j \in 1..L
    OBVIOUS
  <2>4. \A j \in 1..L : queue[j] = queue[i] => j = i
    BY <1>1 DEF Distinct
  <2>5. queue[i] \in Rest(queue, i - 1)
    BY <1>1, <2>1 DEF Rest
  <2>6. Rest(queue, i - 1) \ {queue[i]} = Rest(queue, i)
    BY <1>1, <2>2, <2>3, <2>4 DEF Rest
  <2> QED
    BY <2>5, <2>6
<1> QED
  BY <1>1, <1>2, <1>3, <1>4

LEMMA SendPendingSound ==
  ASSUME NEW d, NEW queue \in Seq(Queries), Distinct(queue), Sound(d, Elements(queue), {}, {}),
         NEW e, e = SendPending(d, queue)
  PROVE  Sound(e, {}, {}, {}) /\ Sends(d, e)
<1>1. PICK L \in Nat : L = Len(queue)
  OBVIOUS
<1>2. PICK f : SendTurns(f, d, queue, L)
  BY <1>1, SendPendingRuns
<1>3. f[0] = d /\ e = f[L] /\ \A i \in 1..L : f[i] = ConnectionSendQuery(f[i - 1], queue[i])
  BY <1>2 DEF SendTurns
<1> DEFINE Good(i) == Sound(f[i], Rest(queue, i), {}, {}) /\ Sends(d, f[i])
           Bad == { i \in 0..L : ~Good(i) }
<1>4. ASSUME Bad # {} PROVE FALSE
  <2>1. Bad \in SUBSET Nat
    OBVIOUS
  <2>2. PICK i \in Bad : \A j \in Bad : i <= j
    BY <1>4, <2>1, LeastNat
  <2>3. CASE i = 0
    <3>1. f[i] = d
      BY <2>3, <1>3
    <3>2. Sound(d, Rest(queue, i), {}, {})
      BY <2>3, RestProperties
    <3>3. Sends(d, d)
      BY DEF Sends, Sound, Nearly, Typed
    <3> QED
      BY <3>1, <3>2, <3>3, <2>2
  <2>4. CASE i # 0
    <3>1. i - 1 \in 0..L /\ ~(i <= i - 1) /\ i \in 1..L
      BY <2>4
    <3>2. Good(i - 1)
      BY <3>1, <2>2
    <3>3. PICK g : g = f[i - 1]
      OBVIOUS
    <3>4. PICK h : h = f[i]
      OBVIOUS
    <3>5. PICK H : H = Rest(queue, i - 1)
      OBVIOUS
    <3>6. Sound(g, H, {}, {}) /\ Sends(d, g)
      BY <3>2, <3>3, <3>5
    <3>7. queue[i] \in H /\ H \ {queue[i]} = Rest(queue, i)
      BY <3>1, <3>5, <1>1, RestProperties
    <3>8. PICK q : q = queue[i]
      OBVIOUS
    <3>9. h = ConnectionSendQuery(g, q) /\ q \in H
      BY <3>1, <3>3, <3>4, <3>7, <3>8, <1>3
    <3>10. Sound(h, H \ {q}, {}, {}) /\ Sends(g, h)
      BY <3>6, <3>9, ConnectionSendQuerySound
    <3>11. Typed(d) /\ Typed(g) /\ Typed(h)
      BY <3>6, <3>10 DEF Sound, Nearly
    <3>12. Sends(d, h)
      BY <3>6, <3>10, <3>11, SendsTransitive
    <3> QED
      BY <3>4, <3>7, <3>8, <3>10, <3>12, <2>2
  <2> QED
    BY <2>3, <2>4
<1>5. Good(L)
  BY <1>4
<1>6. Rest(queue, L) = {}
  BY <1>1, RestProperties
<1> QED
  BY <1>3, <1>5, <1>6

(* The state of the connection is something else. *)
LEMMA OtherState ==
  ASSUME NEW d, NEW H, Sound(d, H, {}, {}), NEW e, Same(d, e, {"state", "closed"})
  PROVE  /\ Sound(e, H, {}, {}) /\ e.next = d.next /\ e.given = d.given /\ e.unknown = d.unknown
         /\ e.to_get_state_info = d.to_get_state_info /\ e.sent = d.sent
<1>1. /\ e.next = d.next /\ e.containers = d.containers /\ e.pending = d.pending
      /\ e.given = d.given /\ IsSession(e) /\ e.unknown = d.unknown
  BY DEF Same, Fields
<1>2. /\ e.to_send = d.to_send /\ e.sent = d.sent /\ e.parked = d.parked /\ e.renewed = d.renewed
      /\ e.to_get_state_info = d.to_get_state_info /\ e.to_resend_answer = d.to_resend_answer
      /\ e.returned = d.returned
  BY DEF Same, Fields
<1>3. Typed(e)
  BY <1>1, <1>2 DEF Sound, Nearly, Typed
<1>4. Placed(e, H) /\ Contained(e, {}, {})
  BY <1>1, <1>2 DEF Sound, Nearly, Placed, Contained
<1>5. Unsent(e) /\ UnknownIsSent(e, {}) /\ ParkedWait(e)
  BY <1>1, <1>2 DEF Sound, Nearly, Unsent, UnknownIsSent, ParkedWait
<1> QED
  BY <1>1, <1>2, <1>3, <1>4, <1>5 DEF Sound, Nearly

(* What loop() does not change. *)
Looped(d, e) ==
  /\ d.next <= e.next /\ e.closed = d.closed /\ e.given = d.given
  /\ e.state = IF d.state = "empty" THEN "connecting" ELSE d.state
  /\ e.unknown = d.unknown /\ e.to_get_state_info = d.to_get_state_info

LEMMA LoopSound ==
  ASSUME NEW d, Sound(d, {}, {}, {}), NEW e, e = Loop(d)
  PROVE  Sound(e, {}, {}, {}) /\ Looped(d, e)
<1>1. PICK g : g = IF d.state = "ready" THEN SendPending([d EXCEPT !.pending = <<>>], d.pending) ELSE d
  OBVIOUS
<1>2. e = IF g.state = "empty" THEN [g EXCEPT !.state = "connecting"] ELSE g
  BY <1>1 DEF Loop
<1>3. IsSession(d) /\ d.pending \in Seq(Queries) /\ Distinct(d.pending) /\ Typed(d)
  BY DEF Sound, Nearly, Typed, Placed
<1>4. Sound(g, {}, {}, {}) /\ Sends(d, g)
  <2>1. CASE d.state = "ready"
    <3>1. PICK h : h = [d EXCEPT !.pending = <<>>]
      OBVIOUS
    <3>2. PICK queue : queue = d.pending
      OBVIOUS
    <3>3. g = SendPending(h, queue)
      BY <1>1, <2>1, <3>1, <3>2
    <3>4. Same(d, h, {"pending"}) /\ h.pending = <<>>
      BY <1>3, <3>1 DEF IsSession, Same, Fields
    <3>5. /\ h.next = d.next /\ h.containers = d.containers /\ h.state = d.state /\ h.closed = d.closed
          /\ h.given = d.given /\ IsSession(h) /\ h.unknown = d.unknown
      BY <3>4 DEF Same, Fields
    <3>6. /\ h.to_send = d.to_send /\ h.sent = d.sent /\ h.parked = d.parked /\ h.renewed = d.renewed
          /\ h.to_get_state_info = d.to_get_state_info /\ h.to_resend_answer = d.to_resend_answer
          /\ h.returned = d.returned
      BY <3>4 DEF Same, Fields
    <3>7. Typed(h)
      BY <3>4, <3>5, <3>6 DEF Sound, Nearly, Typed
    <3>8. Parts(Elements(d.pending), Elements(d.parked), SentQueries(d.sent),
                ReturnedQueries(d.returned), {}, d.given)
      BY DEF Sound, Nearly, Placed
    <3>9. Parts({}, Elements(d.parked), SentQueries(d.sent),
                ReturnedQueries(d.returned), Elements(queue), d.given)
      BY <3>2, <3>8 DEF Parts
    <3>10. Placed(h, Elements(queue))
      BY <3>4, <3>5, <3>6, <3>9, ElementsEmpty DEF Sound, Nearly, Placed
    <3>11. Contained(h, {}, {}) /\ Unsent(h) /\ UnknownIsSent(h, {}) /\ ParkedWait(h)
      BY <3>5, <3>6 DEF Sound, Nearly, Contained, Unsent, UnknownIsSent, ParkedWait
    <3>12. Sound(h, Elements(queue), {}, {})
      BY <3>7, <3>10, <3>11 DEF Sound, Nearly
    <3>13. queue \in Seq(Queries) /\ Distinct(queue)
      BY <1>3, <3>2
    <3>14. Sound(g, {}, {}, {}) /\ Sends(h, g)
      BY <3>3, <3>12, <3>13, SendPendingSound
    <3> QED
      BY <3>14, <3>5, <3>6 DEF Sends
  <2>2. CASE d.state # "ready"
    <3>1. g = d
      BY <1>1, <2>2
    <3>2. Sends(d, d)
      BY <1>3 DEF Sends, Typed
    <3> QED
      BY <3>1, <3>2
  <2> QED
    BY <2>1, <2>2
<1>5. CASE g.state = "empty"
  <2>1. IsSession(g) /\ e = [g EXCEPT !.state = "connecting"]
    BY <1>2, <1>4, <1>5 DEF Sound, Nearly, Typed
  <2>2. Same(g, e, {"state", "closed"}) /\ e.state = "connecting" /\ e.closed = g.closed
    BY <2>1 DEF IsSession, Same, Fields
  <2>3. /\ Sound(e, {}, {}, {}) /\ e.next = g.next /\ e.given = g.given /\ e.unknown = g.unknown
        /\ e.to_get_state_info = g.to_get_state_info
    BY <2>2, <1>4, OtherState
  <2> QED
    BY <2>2, <2>3, <1>4, <1>5 DEF Sends, Looped
<1>6. CASE g.state # "empty"
  BY <1>2, <1>4, <1>6 DEF Sends, Looped
<1> QED
  BY <1>5, <1>6
-----------------------------------------------------------------------------
(* The inductive invariant. *)

ServerFields == {"session", "received", "done", "told", "troubled"}

(* Every unknown query has been asked for on the connection. *)
AskedFor(d, packets, msgs) ==
  d.state = "ready" =>
    \A m \in d.unknown :
      \/ m \in d.to_get_state_info
      \/ \E i \in 1..Len(packets) : m \in packets[i].info
      \/ \E i \in 1..Len(msgs) : AsksFor(msgs[i], m)

StateOK(d) ==
  /\ d.state \in {"empty", "connecting", "ready"}
  /\ d.closed \in BOOLEAN /\ (d.closed <=> d.state = "empty")
  /\ d.closed => DOMAIN d.sent = {}

(* what is under way: packets, messages, events *)
Wire(packets, msgs, evs, n) ==
  packets \in Seq(Packets(n)) /\ msgs \in Seq(Messages(n)) /\ evs \subseteq 1 .. n - 1

IsServer(sv) == sv = [f \in ServerFields |-> sv[f]] /\ sv.received \subseteq Sendings

Holds(d, packets, msgs, evs, sv) ==
  /\ Sound(d, {}, {}, {}) /\ StateOK(d)
  /\ Wire(packets, msgs, evs, d.next)
  /\ AskedFor(d, packets, msgs)
  /\ IsServer(sv)

IInv ==
  Holds(c, up, down, events, server) /\ cancelled \subseteq Queries /\ troubles \in 0..MaxTroubles

LEMMA ForgetConnectionSound ==
  ASSUME NEW d, NEW H, Sound(d, H, {}, {}), NEW e, e = ForgetConnection(d)
  PROVE  /\ Sound(e, H, {}, {}) /\ e.state = "empty" /\ e.next = d.next /\ e.closed = d.closed
         /\ e.given = d.given
<1>1. IsSession(d)
  BY DEF Sound, Nearly, Typed
<1>2. /\ Same(d, e, {"state", "to_send", "to_get_state_info", "to_resend_answer"})
      /\ e.state = "empty" /\ e.to_send = <<>> /\ e.to_get_state_info = {} /\ e.to_resend_answer = {}
  <2>1. e = [d EXCEPT !.state = "empty", !.to_send = <<>>, !.to_get_state_info = {}, !.to_resend_answer = {}]
    BY DEF ForgetConnection
  <2>2. Same(d, e, {"state", "to_send", "to_get_state_info", "to_resend_answer"})
    BY <1>1, <2>1 DEF IsSession, Same
  <2>3. e.state = "empty" /\ e.to_send = <<>>
    BY <1>1, <2>1 DEF IsSession, Fields
  <2>4. e.to_get_state_info = {} /\ e.to_resend_answer = {}
    BY <1>1, <2>1 DEF IsSession, Fields
  <2> QED
    BY <2>2, <2>3, <2>4
<1>3. /\ e.next = d.next /\ e.containers = d.containers /\ e.pending = d.pending
      /\ e.closed = d.closed /\ e.given = d.given /\ IsSession(e) /\ e.unknown = d.unknown
  BY <1>2 DEF Same, Fields
<1>4. /\ e.sent = d.sent /\ e.parked = d.parked /\ e.renewed = d.renewed /\ e.returned = d.returned
  BY <1>2 DEF Same, Fields
<1>5. e.to_send \in Seq(Sendings) /\ Len(e.to_send) = 0
  BY <1>2
<1>6. Typed(e)
  BY <1>2, <1>3, <1>4, <1>5 DEF Sound, Nearly, Typed
<1>7. Placed(e, H) /\ Contained(e, {}, {})
  BY <1>3, <1>4 DEF Sound, Nearly, Placed, Contained
<1>8. \A i \in 1..Len(e.to_send) : FALSE
  BY <1>5
<1>9. Unsent(e)
  BY <1>8 DEF Unsent, NotSent
<1>10. UnknownIsSent(e, {}) /\ ParkedWait(e)
  BY <1>3, <1>4 DEF Sound, Nearly, UnknownIsSent, ParkedWait
<1> QED
  BY <1>2, <1>3, <1>6, <1>7, <1>9, <1>10 DEF Sound, Nearly

LEMMA OnClosedSound ==
  ASSUME NEW d, NEW H, Sound(d, H, {}, {}), NEW code, NEW e, e = OnClosed(d, code)
  PROVE  /\ Sound(e, H, {}, {}) /\ e.state = "empty" /\ e.next = d.next /\ e.closed = d.closed
         /\ e.given = d.given
<1>1. PICK lost : lost = { m \in DOMAIN d.sent : ~d.sent[m].ack }
  OBVIOUS
<1>2. PICK e1 : e1 = CleanupContainer(d, lost)
  OBVIOUS
<1>3. PICK g : g = IF code = 500 THEN ReturnSent(MarkAsKnown(e1, lost), lost) ELSE MarkAsUnknown(e1, lost)
  OBVIOUS
<1>4. e = ForgetConnection(g)
  BY <1>1, <1>2, <1>3 DEF OnClosed
<1>5. lost \subseteq DOMAIN d.sent /\ Nearly(d, H, {}, {}, {})
  BY <1>1 DEF Sound
<1>6. /\ Nearly(e1, H, {}, {}, {}) /\ Nearly(e1, H, lost, {}, {}) /\ Keeps(d, e1)
      /\ OnlyContainers(d, e1)
  BY <1>2, <1>5, CleanupContainerSound
<1>7. Sound(g, H, {}, {}) /\ g.next = d.next /\ g.closed = d.closed /\ g.given = d.given
  <2>1. CASE code = 500
    <3>1. g = ReturnSent(MarkAsKnown(e1, lost), lost)
      BY <1>3, <2>1
    <3>2. lost \subseteq DOMAIN e1.sent /\ Sound(e1, H, lost, {})
      BY <1>5, <1>6 DEF OnlyContainers, Sound
    <3>3. Sound(g, H, {}, {}) /\ Keeps(e1, g)
      BY <3>1, <3>2, ReturnKnownSound
    <3> QED
      BY <3>3, <1>6 DEF Keeps
  <2>2. CASE code # 500
    <3>1. PICK u : u = e1.unknown \cup lost
      OBVIOUS
    <3>2. g = [e1 EXCEPT !.unknown = u]
      BY <1>3, <2>2, <3>1 DEF MarkAsUnknown
    <3>3. IsSession(e1)
      BY <1>6 DEF Nearly, Typed
    <3>4. Same(e1, g, {"unknown"}) /\ g.unknown = u
      BY <3>2, <3>3 DEF IsSession, Same, Fields
    <3>5. /\ g.next = e1.next /\ g.containers = e1.containers /\ g.pending = e1.pending
          /\ g.closed = e1.closed /\ g.given = e1.given /\ IsSession(g)
      BY <3>4 DEF Same, Fields
    <3>6. /\ g.to_send = e1.to_send /\ g.sent = e1.sent /\ g.parked = e1.parked
          /\ g.renewed = e1.renewed /\ g.to_get_state_info = e1.to_get_state_info
          /\ g.to_resend_answer = e1.to_resend_answer /\ g.returned = e1.returned
      BY <3>4 DEF Same, Fields
    <3>7. Typed(g)
      BY <1>6, <3>5, <3>6 DEF Nearly, Typed
    <3>8. Placed(g, H) /\ Contained(g, {}, {})
      BY <1>6, <3>5, <3>6 DEF Nearly, Placed, Contained
    <3>9. Unsent(g)
      BY <1>6, <3>5, <3>6 DEF Nearly, Unsent
    <3>10. \A m \in lost : m \in DOMAIN g.sent /\ g.sent[m].ack = FALSE
      <4>1. \A m \in DOMAIN d.sent : d.sent[m].ack \in BOOLEAN
        BY DEF Sound, Nearly, Typed, Entries
      <4>2. g.sent = d.sent
        BY <1>6, <3>6 DEF OnlyContainers
      <4> QED
        BY <1>1, <4>1, <4>2
    <3>11. UnknownIsSent(e1, {})
      BY <1>6 DEF Nearly
    <3>12. UnknownIsSent(g, {})
      BY <3>1, <3>4, <3>6, <3>10, <3>11 DEF UnknownIsSent
    <3>13. ParkedWait(g)
      BY <1>6, <3>1, <3>4, <3>6 DEF Nearly, ParkedWait
    <3> QED
      BY <1>6, <3>5, <3>7, <3>8, <3>9, <3>12, <3>13 DEF Sound, Nearly, Keeps
  <2> QED
    BY <2>1, <2>2
<1>8. /\ Sound(e, H, {}, {}) /\ e.state = "empty" /\ e.next = g.next /\ e.closed = g.closed
      /\ e.given = g.given
  BY <1>4, <1>7, ForgetConnectionSound
<1> QED
  BY <1>7, <1>8

(* What is counted in a place. *)
LEMMA CountWaiting ==
  ASSUME NEW queue \in Seq(Queries), Distinct(queue), NEW q
  PROVE  Cardinality(WaitsIn(queue, q)) = IF q \in Elements(queue) THEN 1 ELSE 0
<1>1. DOMAIN queue = 1..Len(queue)
  OBVIOUS
<1>2. CASE q \in Elements(queue)
  <2>1. PICK i \in 1..Len(queue) : queue[i] = q
    BY <1>2 DEF Elements
  <2>2. WaitsIn(queue, q) = {i}
    BY <2>1, <1>1 DEF WaitsIn, Distinct
  <2>3. Cardinality(WaitsIn(queue, q)) = 1
    BY <2>2, FS_Singleton
  <2> QED
    BY <2>3, <1>2
<1>3. CASE q \notin Elements(queue)
  <2>1. WaitsIn(queue, q) = {}
    BY <1>3, <1>1 DEF WaitsIn, Elements
  <2>2. Cardinality(WaitsIn(queue, q)) = 0
    BY <2>1, FS_EmptySet
  <2> QED
    BY <2>2, <1>3
<1> QED
  BY <1>2, <1>3

LEMMA CountSent ==
  ASSUME NEW d, OneId(d.sent), NEW q
  PROVE  Cardinality(SentAs(d, q)) = IF q \in SentQueries(d.sent) THEN 1 ELSE 0
<1>2. CASE q \in SentQueries(d.sent)
  <2>1. PICK m \in DOMAIN d.sent : d.sent[m].query = q
    BY <1>2 DEF SentQueries
  <2>2. SentAs(d, q) = {m}
    BY <2>1 DEF SentAs, OneId
  <2>3. Cardinality(SentAs(d, q)) = 1
    BY <2>2, FS_Singleton
  <2> QED
    BY <2>3, <1>2
<1>3. CASE q \notin SentQueries(d.sent)
  <2>1. SentAs(d, q) = {}
    BY <1>3 DEF SentAs, SentQueries
  <2>2. Cardinality(SentAs(d, q)) = 0
    BY <2>1, FS_EmptySet
  <2> QED
    BY <2>2, <1>3
<1> QED
  BY <1>2, <1>3

(* Each query that was given is counted once, and no other. *)
LEMMA CountedOnce ==
  ASSUME NEW d, Sound(d, {}, {}, {}), NEW q \in Queries
  PROVE  /\ Cardinality(WaitsIn(d.pending, q)) \in {0, 1}
         /\ Cardinality(WaitsIn(d.parked, q)) \in {0, 1}
         /\ Cardinality(SentAs(d, q)) \in {0, 1} /\ d.returned[q] \in {0, 1}
         /\ Cardinality(WaitsIn(d.pending, q)) + Cardinality(WaitsIn(d.parked, q))
              + Cardinality(SentAs(d, q)) + d.returned[q] = IF q \in d.given THEN 1 ELSE 0
<1>1. PICK a : a = Cardinality(WaitsIn(d.pending, q))
  OBVIOUS
<1>2. PICK b : b = Cardinality(WaitsIn(d.parked, q))
  OBVIOUS
<1>3. PICK s : s = Cardinality(SentAs(d, q))
  OBVIOUS
<1>4. PICK r : r = d.returned[q]
  OBVIOUS
<1>5. /\ d.pending \in Seq(Queries) /\ d.parked \in Seq(Queries)
      /\ Distinct(d.pending) /\ Distinct(d.parked) /\ OneId(d.sent)
  BY DEF Sound, Nearly, Typed, Placed
<1>6. a = IF q \in Elements(d.pending) THEN 1 ELSE 0
  BY <1>1, <1>5, CountWaiting
<1>7. b = IF q \in Elements(d.parked) THEN 1 ELSE 0
  BY <1>2, <1>5, CountWaiting
<1>8. s = IF q \in SentQueries(d.sent) THEN 1 ELSE 0
  BY <1>3, <1>5, CountSent
<1>9. r = IF q \in ReturnedQueries(d.returned) THEN 1 ELSE 0
  <2>1. r \in {0, 1}
    BY <1>4 DEF Sound, Nearly, Placed, Once
  <2>2. r # 0 <=> q \in ReturnedQueries(d.returned)
    BY <1>4 DEF ReturnedQueries
  <2> QED
    BY <2>1, <2>2
<1>10. Parts(Elements(d.pending), Elements(d.parked), SentQueries(d.sent),
             ReturnedQueries(d.returned), {}, d.given)
  BY DEF Sound, Nearly, Placed
<1>11. a + b + s + r = IF q \in d.given THEN 1 ELSE 0
  <2>1. q \in d.given <=> \/ q \in Elements(d.pending) \/ q \in Elements(d.parked)
                          \/ q \in SentQueries(d.sent) \/ q \in ReturnedQueries(d.returned)
    BY <1>10 DEF Parts
  <2>2. /\ ~(q \in Elements(d.pending) /\ q \in Elements(d.parked))
        /\ ~(q \in Elements(d.pending) /\ q \in SentQueries(d.sent))
        /\ ~(q \in Elements(d.pending) /\ q \in ReturnedQueries(d.returned))
        /\ ~(q \in Elements(d.parked) /\ q \in SentQueries(d.sent))
        /\ ~(q \in Elements(d.parked) /\ q \in ReturnedQueries(d.returned))
        /\ ~(q \in SentQueries(d.sent) /\ q \in ReturnedQueries(d.returned))
    BY <1>10 DEF Parts
  <2> QED
    BY <2>1, <2>2, <1>6, <1>7, <1>8, <1>9
<1> QED
  BY <1>1, <1>2, <1>3, <1>4, <1>6, <1>7, <1>8, <1>9, <1>11
-----------------------------------------------------------------------------
(* Flushing a packet. *)

(* What may be on the connection only grows with the next message id. *)
LEMMA WireMonotone ==
  ASSUME NEW n \in Nat \ {0}, NEW N \in Nat \ {0}, n <= N
  PROVE  /\ 1 .. n - 1 \subseteq 1 .. N - 1 /\ Entries(n) \subseteq Entries(N)
         /\ Packets(n) \subseteq Packets(N) /\ Messages(n) \subseteq Messages(N)
<1>1. 1 .. n - 1 \subseteq 1 .. N - 1
  OBVIOUS
<1>2. Entries(n) \subseteq Entries(N)
  BY <1>1 DEF Entries
<1>3. Packets(n) \subseteq Packets(N)
  BY <1>1 DEF Packets
<1>4. Messages(n) \subseteq Messages(N)
  BY <1>1, <1>3 DEF Messages
<1> QED
  BY <1>1, <1>2, <1>3, <1>4

LEMMA SeqMonotone ==
  ASSUME NEW S, NEW T, S \subseteq T, NEW s \in Seq(S)
  PROVE  s \in Seq(T)
  OBVIOUS

(* nothing of the first n messages of d is to be sent in e *)
Apart(d, e, n) == \A i \in 1..Len(e.to_send), j \in 1..n : e.to_send[i].id # d.to_send[j].id

(* the first n messages, and the questions, are taken *)
Taken(d, e, n) ==
  /\ Same(d, e, {"to_send", "to_get_state_info", "to_resend_answer", "next"})
  /\ e.to_send = SubSeq(d.to_send, n + 1, Len(d.to_send))
  /\ e.to_get_state_info = {} /\ e.to_resend_answer = {}
  /\ e.next = d.next \/ e.next = d.next + 1

LEMMA TakeToSendSound ==
  ASSUME NEW d, Sound(d, {}, {}, {}), NEW n \in 0..Len(d.to_send), NEW e, Taken(d, e, n)
  PROVE  Sound(e, {}, {}, {}) /\ d.next <= e.next /\ Apart(d, e, n)
<1>0. /\ Same(d, e, {"to_send", "to_get_state_info", "to_resend_answer", "next"})
      /\ e.to_send = SubSeq(d.to_send, n + 1, Len(d.to_send))
      /\ e.to_get_state_info = {} /\ e.to_resend_answer = {}
      /\ e.next = d.next \/ e.next = d.next + 1
  BY DEF Taken
<1>1. d.next \in Nat \ {0} /\ d.to_send \in Seq(Sendings) /\ Len(d.to_send) \in Nat
  BY DEF Sound, Nearly, Typed
<1>2. e.next \in Nat \ {0} /\ d.next <= e.next
  BY <1>0, <1>1
<1>3. 1 .. d.next - 1 \subseteq 1 .. e.next - 1 /\ Entries(d.next) \subseteq Entries(e.next)
  BY <1>1, <1>2, WireMonotone
<1>4. /\ e.sent = d.sent /\ e.containers = d.containers /\ e.pending = d.pending
      /\ e.given = d.given /\ IsSession(e) /\ e.unknown = d.unknown
  BY <1>0 DEF Same, Fields
<1>5. /\ e.parked = d.parked /\ e.renewed = d.renewed /\ e.returned = d.returned
      /\ e.state = d.state /\ e.closed = d.closed
  BY <1>0 DEF Same, Fields
<1>6. PICK t : t = SubSeq(d.to_send, n + 1, Len(d.to_send))
  OBVIOUS
<1>7. /\ t \in Seq(Sendings) /\ Len(t) = Len(d.to_send) - n
      /\ \A i \in 1..Len(t) : t[i] = d.to_send[n + i]
  <2>1. n + 1 \in 1 .. Len(d.to_send) + 1 /\ Len(d.to_send) \in (n + 1) - 1 .. Len(d.to_send)
    BY <1>1
  <2>2. /\ t \in Seq(Sendings)
        /\ Len(t) = IF n + 1 <= Len(d.to_send) THEN Len(d.to_send) - (n + 1) + 1 ELSE 0
        /\ \A i \in 1 .. Len(d.to_send) - (n + 1) + 1 : t[i] = d.to_send[(n + 1) + i - 1]
    BY <1>1, <1>6, <2>1, SubSeqProperties
  <2>3. Len(t) = Len(d.to_send) - n
    BY <1>1, <2>2
  <2>4. ASSUME NEW i \in 1..Len(t)
        PROVE  t[i] = d.to_send[n + i]
    <3>1. i \in 1 .. Len(d.to_send) - (n + 1) + 1 /\ (n + 1) + i - 1 = n + i
      BY <1>1, <2>3
    <3> QED
      BY <3>1, <2>2
  <2> QED
    BY <2>2, <2>3, <2>4
<1>8. \A i \in 1..Len(t) : n + i \in 1..Len(d.to_send)
  BY <1>1, <1>7
<1>9. NotSent(d.to_send, d.sent, d.next)
  BY DEF Sound, Nearly, Unsent
<1>10. NotSent(t, d.sent, e.next)
  <2>1. ASSUME NEW i \in 1..Len(t)
        PROVE  t[i].id \in 1 .. e.next - 1 /\ (t[i].id \in DOMAIN d.sent => d.sent[t[i].id].container_id = t[i].id)
    <3>1. PICK k \in 1..Len(d.to_send) : k = n + i /\ t[i] = d.to_send[k]
      BY <1>7, <1>8
    <3>2. /\ d.to_send[k].id \in 1 .. d.next - 1
          /\ d.to_send[k].id \in DOMAIN d.sent => d.sent[d.to_send[k].id].container_id = d.to_send[k].id
      BY <1>9 DEF NotSent
    <3> QED
      BY <3>1, <3>2, <1>3
  <2>2. ASSUME NEW i \in 1..Len(t), NEW j \in 1..Len(t), t[i].id = t[j].id
        PROVE  i = j
    <3>1. PICK k \in 1..Len(d.to_send) : k = n + i /\ t[i] = d.to_send[k]
      BY <1>7, <1>8
    <3>2. PICK l \in 1..Len(d.to_send) : l = n + j /\ t[j] = d.to_send[l]
      BY <1>7, <1>8
    <3>3. k = l
      BY <2>2, <3>1, <3>2, <1>9 DEF NotSent
    <3>4. i \in Int /\ j \in Int /\ n \in Int
      BY <1>1
    <3> QED
      BY <3>1, <3>2, <3>3, <3>4
  <2> QED
    BY <2>1, <2>2 DEF NotSent
<1>11. Unsent(e)
  BY <1>0, <1>4, <1>6, <1>10 DEF Unsent
<1>12. \A i \in 1..Len(e.to_send), j \in 1..n : e.to_send[i].id # d.to_send[j].id
  <2> SUFFICES ASSUME NEW i \in 1..Len(t), NEW j \in 1..n, t[i].id = d.to_send[j].id
               PROVE  FALSE
    BY <1>0, <1>6
  <2>1. j \in 1..Len(d.to_send) /\ n + i \in 1..Len(d.to_send) /\ n + i # j
    BY <1>1, <1>8
  <2> QED
    BY <2>1, <1>7, <1>9 DEF NotSent
<1>13. DOMAIN d.sent \subseteq 1 .. e.next - 1 /\ \A m \in DOMAIN d.sent : d.sent[m] \in Entries(e.next)
  BY <1>3 DEF Sound, Nearly, Typed
<1>14. Typed(e)
  BY <1>0, <1>2, <1>4, <1>5, <1>6, <1>7, <1>13 DEF Sound, Nearly, Typed
<1>15. Contained(e, {}, {})
  <2>1. Contents(d.containers, d.sent, d.next, {}, {})
    BY DEF Sound, Nearly, Contained
  <2>2. DOMAIN d.containers \subseteq (1 .. e.next - 1) \ DOMAIN d.sent
    BY <2>1, <1>3 DEF Contents
  <2>3. \A id \in DOMAIN d.containers :
          d.containers[id] \in [ref_cnt : Nat \ {0}, message_ids : SUBSET (1 .. e.next - 1)]
    BY <2>1, <1>3 DEF Contents
  <2>4. Contents(d.containers, d.sent, e.next, {}, {})
    BY <2>1, <2>2, <2>3 DEF Contents
  <2> QED
    BY <2>4, <1>4 DEF Contained
<1>16. Placed(e, {})
  BY <1>4, <1>5 DEF Sound, Nearly, Placed
<1>17. UnknownIsSent(e, {}) /\ ParkedWait(e)
  BY <1>4, <1>5 DEF Sound, Nearly, UnknownIsSent, ParkedWait
<1> QED
  BY <1>2, <1>11, <1>12, <1>14, <1>15, <1>16, <1>17 DEF Sound, Nearly, Apart

LEMMA OnContainerSentSound ==
  ASSUME NEW d, Sound(d, {}, {}, {}), NEW id \in 1 .. d.next - 1, NEW ms,
         id \notin DOMAIN d.sent, \A m \in DOMAIN d.sent : d.sent[m].container_id # id,
         \A m \in ms \cap DOMAIN d.sent : d.sent[m].container_id = m,
         \A i \in 1..Len(d.to_send) : d.to_send[i].id \notin ms,
         NEW e, e = OnContainerSent(d, id, ms)
  PROVE  /\ Sound(e, {}, {}, {}) /\ e.next = d.next /\ e.state = d.state /\ e.closed = d.closed
         /\ e.unknown = d.unknown /\ e.to_get_state_info = d.to_get_state_info /\ DOMAIN e.sent = DOMAIN d.sent
<1>1. PICK there : there = ms \cap DOMAIN d.sent
  OBVIOUS
<1>2. PICK s : s = [m \in DOMAIN d.sent |->
                      [d.sent[m] EXCEPT !.container_id = IF m \in there THEN id ELSE @]]
  OBVIOUS
<1>3. PICK w : w = IF there = {} THEN d.containers
                   ELSE With(d.containers, id, [ref_cnt |-> Cardinality(there), message_ids |-> there])
  OBVIOUS
<1>4. IsSession(d) /\ Typed(d)
  BY DEF Sound, Nearly, Typed
<1>5. Same(d, e, {"sent", "containers"}) /\ e.sent = s /\ e.containers = w
  <2>1. PICK g : g = [d EXCEPT !.sent = s]
    OBVIOUS
  <2>2. e = IF there = {} THEN g
            ELSE [g EXCEPT !.containers =
                    With(@, id, [ref_cnt |-> Cardinality(there), message_ids |-> there])]
    BY <1>1, <1>2, <2>1 DEF OnContainerSent
  <2>3. Same(d, g, {"sent"}) /\ g.sent = s /\ IsSession(g) /\ g.containers = d.containers
    BY <1>4, <2>1 DEF IsSession, Same, Fields
  <2>4. CASE there = {}
    <3>1. e = g /\ w = d.containers
      BY <2>2, <2>4, <1>3
    <3> QED
      BY <3>1, <2>3 DEF Same
  <2>5. CASE there # {}
    <3>1. e = [g EXCEPT !.containers = w]
      BY <2>2, <2>3, <2>5, <1>3
    <3>2. Same(g, e, {"containers"}) /\ e.containers = w /\ e.sent = g.sent
      BY <3>1, <2>3 DEF IsSession, Same, Fields
    <3>3. Same(d, e, {"sent", "containers"})
      BY <3>2, <2>3 DEF Same
    <3> QED
      BY <3>2, <3>3, <2>3
  <2> QED
    BY <2>4, <2>5
<1>6. /\ e.next = d.next /\ e.state = d.state /\ e.pending = d.pending /\ e.closed = d.closed
      /\ e.given = d.given /\ IsSession(e) /\ e.unknown = d.unknown
  BY <1>5 DEF Same, Fields
<1>7. /\ e.to_send = d.to_send /\ e.parked = d.parked /\ e.renewed = d.renewed
      /\ e.to_get_state_info = d.to_get_state_info /\ e.to_resend_answer = d.to_resend_answer
      /\ e.returned = d.returned
  BY <1>5 DEF Same, Fields
<1>8. \A m \in DOMAIN d.sent : d.sent[m] \in Entries(d.next)
  BY <1>4 DEF Typed
<1>9. /\ DOMAIN s = DOMAIN d.sent
      /\ \A m \in DOMAIN s : /\ s[m] \in Entries(d.next)
                             /\ s[m].query = d.sent[m].query
                             /\ s[m].ack = d.sent[m].ack
                             /\ s[m].container_id = IF m \in there THEN id ELSE d.sent[m].container_id
  <2> SUFFICES ASSUME NEW m \in DOMAIN d.sent
               PROVE  /\ s[m] \in Entries(d.next)
                      /\ s[m].query = d.sent[m].query
                      /\ s[m].ack = d.sent[m].ack
                      /\ s[m].container_id = IF m \in there THEN id ELSE d.sent[m].container_id
    BY <1>2
  <2>1. s[m] = [d.sent[m] EXCEPT !.container_id = IF m \in there THEN id ELSE @]
    BY <1>2
  <2> QED
    BY <2>1, <1>8 DEF Entries
<1>10. Typed(e)
  BY <1>4, <1>5, <1>6, <1>7, <1>9 DEF Typed
<1>11. SentQueries(s) = SentQueries(d.sent) /\ (OneId(d.sent) => OneId(s))
  BY <1>9 DEF SentQueries, OneId
<1>12. Placed(e, {})
  BY <1>5, <1>6, <1>7, <1>11 DEF Sound, Nearly, Placed
<1>13. UnknownIsSent(e, {}) /\ ParkedWait(e)
  BY <1>5, <1>6, <1>7, <1>9 DEF Sound, Nearly, UnknownIsSent, ParkedWait
<1>14. NotSent(d.to_send, s, d.next)
  <2>1. NotSent(d.to_send, d.sent, d.next)
    BY DEF Sound, Nearly, Unsent
  <2>2. \A i \in 1..Len(d.to_send) : d.to_send[i].id \notin there
    BY <1>1
  <2> QED
    BY <2>1, <2>2, <1>9 DEF NotSent
<1>15. Unsent(e)
  BY <1>5, <1>6, <1>7, <1>14 DEF Unsent
<1>16. Contents(d.containers, d.sent, d.next, {}, {})
  BY DEF Sound, Nearly, Contained
<1>17. ASSUME NEW k \in DOMAIN d.containers, k # id
       PROVE  /\ d.containers[k] \in [ref_cnt : Nat \ {0}, message_ids : SUBSET (1 .. d.next - 1)]
              /\ d.containers[k].ref_cnt = Cardinality(Inside(s, k, {}))
              /\ \A m \in d.containers[k].message_ids \cap DOMAIN s : s[m].container_id = k
  <2>1. k \notin DOMAIN d.sent
    BY <1>16 DEF Contents
  <2>2. \A m \in DOMAIN s : s[m].container_id = k <=> d.sent[m].container_id = k
    BY <2>1, <1>1, <1>9, <1>17
  <2>3. Inside(s, k, {}) = Inside(d.sent, k, {})
    BY <2>2, <1>9 DEF Inside
  <2> QED
    BY <2>2, <2>3, <1>9, <1>16 DEF Contents
<1>18. id \notin DOMAIN d.containers
  <2> SUFFICES ASSUME id \in DOMAIN d.containers PROVE FALSE
    OBVIOUS
  <2>1. Inside(d.sent, id, {}) = {}
    BY DEF Inside
  <2>2. d.containers[id].ref_cnt = Cardinality(Inside(d.sent, id, {})) /\ d.containers[id].ref_cnt # 0
    BY <1>16 DEF Contents
  <2> QED
    BY <2>1, <2>2, FS_EmptySet
<1>19. Contents(w, s, d.next, {}, {})
  <2>1. CASE there = {}
    <3>1. w = d.containers
      BY <2>1, <1>3
    <3>2. DOMAIN w \subseteq (1 .. d.next - 1) \ DOMAIN s
      BY <3>1, <1>9, <1>16 DEF Contents
    <3> QED
      BY <3>1, <3>2, <1>17, <1>18 DEF Contents
  <2>2. CASE there # {}
    <3>1. PICK r : r = [ref_cnt |-> Cardinality(there), message_ids |-> there]
      OBVIOUS
    <3>2. w = With(d.containers, id, r)
      BY <3>1, <2>2, <1>3
    <3>3. DOMAIN w = DOMAIN d.containers \cup {id} /\ w[id] = r /\ \A k \in DOMAIN d.containers : w[k] = d.containers[k]
      BY <3>2, <1>18 DEF With
    <3>4. DOMAIN w \subseteq (1 .. d.next - 1) \ DOMAIN s
      BY <3>3, <1>9, <1>16 DEF Contents
    <3>5. Inside(s, id, {}) = there
      BY <1>1, <1>9 DEF Inside
    <3>6. Cardinality(there) \in Nat \ {0}
      <4>1. Typed(e) /\ e.sent = s
        BY <1>5, <1>10
      <4>2. IsFiniteSet(Inside(s, id, {})) /\ Cardinality(Inside(s, id, {})) \in Nat
        BY <4>1, InsideFinite
      <4>3. Cardinality(there) = 0 => there = {}
        BY <3>5, <4>2, FS_EmptySet
      <4> QED
        BY <2>2, <3>5, <4>2, <4>3
    <3>7. there \subseteq 1 .. d.next - 1
      BY <1>1, <1>4 DEF Typed
    <3>8. /\ r \in [ref_cnt : Nat \ {0}, message_ids : SUBSET (1 .. d.next - 1)]
          /\ r.ref_cnt = Cardinality(Inside(s, id, {}))
          /\ \A m \in r.message_ids \cap DOMAIN s : s[m].container_id = id
      BY <3>1, <3>5, <3>6, <3>7, <1>9
    <3>9. ASSUME NEW k \in DOMAIN w
          PROVE  /\ w[k] \in [ref_cnt : Nat \ {0}, message_ids : SUBSET (1 .. d.next - 1)]
                 /\ w[k].ref_cnt = Cardinality(Inside(s, k, {}))
                 /\ \A m \in w[k].message_ids \cap DOMAIN s : s[m].container_id = k
      <4>1. CASE k = id
        BY <4>1, <3>3, <3>8
      <4>2. CASE k # id
        <5>1. k \in DOMAIN d.containers /\ w[k] = d.containers[k]
          BY <4>2, <3>3
        <5> QED
          BY <4>2, <5>1, <1>17
      <4> QED
        BY <4>1, <4>2
    <3> QED
      BY <3>4, <3>9 DEF Contents
  <2> QED
    BY <2>1, <2>2
<1>20. Contained(e, {}, {})
  BY <1>5, <1>6, <1>19 DEF Contained
<1> QED
  BY <1>5, <1>6, <1>7, <1>9, <1>10, <1>12, <1>13, <1>15, <1>20 DEF Sound, Nearly
-----------------------------------------------------------------------------
(* The steps. *)

LEMMA WireStep ==
  ASSUME NEW d, NEW e, NEW packets, NEW msgs, NEW evs, Typed(d), Typed(e), d.next <= e.next,
         Wire(packets, msgs, evs, d.next)
  PROVE  Wire(packets, msgs, evs, e.next)
<1>1. d.next \in Nat \ {0} /\ e.next \in Nat \ {0}
  BY DEF Typed
<1>2. /\ 1 .. d.next - 1 \subseteq 1 .. e.next - 1
      /\ Packets(d.next) \subseteq Packets(e.next) /\ Messages(d.next) \subseteq Messages(e.next)
  BY <1>1, WireMonotone
<1>3. packets \in Seq(Packets(e.next)) /\ msgs \in Seq(Messages(e.next))
  BY <1>2, SeqMonotone DEF Wire
<1> QED
  BY <1>2, <1>3 DEF Wire

(* loop() after a step that leaves the session open *)
LEMMA LoopStep ==
  ASSUME NEW b, Sound(b, {}, {}, {}), NEW packets, NEW msgs, NEW evs, Wire(packets, msgs, evs, b.next),
         NEW d, Sound(d, {}, {}, {}), d.next = b.next, d.closed = FALSE,
         d.state \in {"empty", "connecting", "ready"}, AskedFor(d, packets, msgs),
         NEW sv, IsServer(sv), NEW e, e = Loop(d)
  PROVE  Holds(e, packets, msgs, evs, sv)
<1>1. Sound(e, {}, {}, {}) /\ Looped(d, e)
  BY LoopSound
<1>2. Typed(b) /\ Typed(e) /\ b.next <= e.next
  BY <1>1 DEF Sound, Nearly, Looped
<1>3. Wire(packets, msgs, evs, e.next)
  BY <1>2, WireStep
<1>4. StateOK(e)
  BY <1>1 DEF Looped, StateOK
<1>5. AskedFor(e, packets, msgs)
  BY <1>1 DEF Looped, AskedFor
<1> QED
  BY <1>1, <1>3, <1>4, <1>5 DEF Holds

(* What is asked for stays so when less is unknown. *)
LEMMA AskedKept ==
  ASSUME NEW d, NEW e, NEW packets, NEW msgs, AskedFor(d, packets, msgs),
         e.state = "ready" => d.state = "ready", e.unknown \subseteq d.unknown,
         d.to_get_state_info \subseteq e.to_get_state_info
  PROVE  AskedFor(e, packets, msgs)
  BY DEF AskedFor

LEMMA InitInv == Init => IInv
<1> SUFFICES ASSUME Init PROVE IInv
  OBVIOUS
<1>1. PICK d : d = c
  OBVIOUS
<1>2. /\ d.pending = <<>> /\ d.parked = <<>> /\ d.sent = EmptyFn /\ d.containers = EmptyFn
      /\ d.unknown = {} /\ d.state = "connecting" /\ d.to_send = <<>>
  BY <1>1 DEF Init
<1>3. /\ d.to_get_state_info = {} /\ d.to_resend_answer = {} /\ d.next = 1 /\ d.closed = FALSE
      /\ d.given = {} /\ d.returned = [q \in Queries |-> 0] /\ d.renewed = {}
  BY <1>1 DEF Init
<1>4. IsSession(d)
  BY <1>1 DEF Init, IsSession, Fields
<1>5. DOMAIN d.sent = {} /\ DOMAIN d.containers = {}
  BY <1>2 DEF EmptyFn
<1>6. Typed(d)
  BY <1>2, <1>3, <1>4, <1>5 DEF Typed
<1>7. Placed(d, {})
  <2>1. Elements(d.pending) = {} /\ Elements(d.parked) = {} /\ Distinct(d.pending) /\ Distinct(d.parked)
    BY <1>2, ElementsEmpty
  <2>2. SentQueries(d.sent) = {} /\ OneId(d.sent)
    BY <1>5 DEF SentQueries, OneId
  <2>3. ReturnedQueries(d.returned) = {} /\ Once(d.returned)
    BY <1>3 DEF ReturnedQueries, Once
  <2>4. Parts({}, {}, {}, {}, {}, {})
    BY DEF Parts
  <2> QED
    BY <2>1, <2>2, <2>3, <2>4, <1>3 DEF Placed
<1>8. Contained(d, {}, {})
  BY <1>5 DEF Contained, Contents
<1>9. Unsent(d)
  <2>1. \A i \in 1..Len(d.to_send) : FALSE
    BY <1>2
  <2> QED
    BY <2>1 DEF Unsent, NotSent
<1>10. UnknownIsSent(d, {}) /\ ParkedWait(d)
  BY <1>2 DEF UnknownIsSent, ParkedWait
<1>11. StateOK(d)
  BY <1>2, <1>3 DEF StateOK
<1>12. Wire(up, down, events, d.next)
  BY <1>3 DEF Init, Wire
<1>13. AskedFor(d, up, down)
  BY <1>2 DEF AskedFor
<1>14. IsServer(server)
  BY DEF Init, InitServer, IsServer, ServerFields
<1>15. Holds(d, up, down, events, server)
  BY <1>6, <1>7, <1>8, <1>9, <1>10, <1>11, <1>12, <1>13, <1>14 DEF Holds, Sound, Nearly
<1>16. cancelled \subseteq Queries /\ troubles \in 0..MaxTroubles
  BY SessionAssumption DEF Init
<1> QED
  BY <1>1, <1>15, <1>16 DEF IInv

LEMMA GiveSound ==
  ASSUME NEW b, Sound(b, {}, {}, {}), NEW q \in Queries, q \notin b.given, NEW M, M = {q},
         NEW d, d = [b EXCEPT !.given = @ \cup {q}]
  PROVE  /\ Sound(d, M, {}, {}) /\ d.next = b.next /\ d.closed = b.closed /\ d.state = b.state
         /\ d.unknown = b.unknown /\ d.to_get_state_info = b.to_get_state_info /\ d.sent = b.sent
<1>1. IsSession(b)
  BY DEF Sound, Nearly, Typed
<1>2. PICK G : G = b.given \cup M
  OBVIOUS
<1>3. Same(b, d, {"given"}) /\ d.given = G
  BY <1>1, <1>2 DEF IsSession, Same, Fields
<1>4. /\ d.next = b.next /\ d.containers = b.containers /\ d.pending = b.pending /\ d.state = b.state
      /\ d.closed = b.closed /\ IsSession(d) /\ d.unknown = b.unknown
  BY <1>3 DEF Same, Fields
<1>5. /\ d.to_send = b.to_send /\ d.sent = b.sent /\ d.parked = b.parked /\ d.renewed = b.renewed
      /\ d.to_get_state_info = b.to_get_state_info /\ d.to_resend_answer = b.to_resend_answer
      /\ d.returned = b.returned
  BY <1>3 DEF Same, Fields
<1>6. Typed(d)
  BY <1>2, <1>3, <1>4, <1>5 DEF Sound, Nearly, Typed
<1>7. Parts(Elements(b.pending), Elements(b.parked), SentQueries(b.sent),
            ReturnedQueries(b.returned), {}, b.given)
  BY DEF Sound, Nearly, Placed
<1>8. Parts(Elements(b.pending), Elements(b.parked), SentQueries(b.sent),
            ReturnedQueries(b.returned), M, G)
  BY <1>2, <1>7 DEF Parts
<1>9. Placed(d, M)
  BY <1>3, <1>4, <1>5, <1>8 DEF Sound, Nearly, Placed
<1>10. Contained(d, {}, {})
  BY <1>4, <1>5 DEF Sound, Nearly, Contained
<1>11. Unsent(d) /\ UnknownIsSent(d, {}) /\ ParkedWait(d)
  BY <1>4, <1>5 DEF Sound, Nearly, Unsent, UnknownIsSent, ParkedWait
<1> QED
  BY <1>4, <1>5, <1>6, <1>9, <1>10, <1>11 DEF Sound, Nearly

Pended(d, q, e) == e = [d EXCEPT !.pending = Append(@, q)]

Alike(d, e) ==
  /\ e.next = d.next /\ e.closed = d.closed /\ e.state = d.state
  /\ e.unknown = d.unknown /\ e.to_get_state_info = d.to_get_state_info

LEMMA PendSound ==
  ASSUME NEW d, NEW q, NEW M, M = {q}, Sound(d, M, {}, {}), NEW e, Pended(d, q, e)
  PROVE  Sound(e, {}, {}, {}) /\ Alike(d, e)
<1>1. IsSession(d) /\ d.pending \in Seq(Queries) /\ Distinct(d.pending)
  BY DEF Sound, Nearly, Typed, Placed
<1>2. PICK r : r = Append(d.pending, q)
  OBVIOUS
<1>3. Same(d, e, {"pending"}) /\ e.pending = r
  BY <1>1, <1>2 DEF Pended, IsSession, Same, Fields
<1>4. /\ e.next = d.next /\ e.containers = d.containers /\ e.given = d.given /\ e.state = d.state
      /\ e.closed = d.closed /\ IsSession(e) /\ e.unknown = d.unknown
  BY <1>3 DEF Same, Fields
<1>5. /\ e.to_send = d.to_send /\ e.sent = d.sent /\ e.parked = d.parked /\ e.renewed = d.renewed
      /\ e.to_get_state_info = d.to_get_state_info /\ e.to_resend_answer = d.to_resend_answer
      /\ e.returned = d.returned
  BY <1>3 DEF Same, Fields
<1>6. Parts(Elements(d.pending), Elements(d.parked), SentQueries(d.sent),
            ReturnedQueries(d.returned), M, d.given)
  BY DEF Sound, Nearly, Placed
<1>7. q \notin Elements(d.pending) /\ q \in d.given
  BY <1>6 DEF Parts
<1>8. q \in Queries
  BY <1>7 DEF Sound, Nearly, Typed
<1>9. r \in Seq(Queries) /\ Elements(r) = Elements(d.pending) \cup M /\ Distinct(r)
  BY <1>1, <1>2, <1>7, <1>8, ElementsAppend
<1>10. Parts(Elements(r), Elements(d.parked), SentQueries(d.sent),
             ReturnedQueries(d.returned), {}, d.given)
  BY <1>6, <1>9 DEF Parts
<1>11. Typed(e)
  BY <1>3, <1>4, <1>5, <1>9 DEF Sound, Nearly, Typed
<1>12. Placed(e, {})
  BY <1>3, <1>4, <1>5, <1>9, <1>10 DEF Sound, Nearly, Placed
<1>13. Contained(e, {}, {})
  BY <1>4, <1>5 DEF Sound, Nearly, Contained
<1>14. Unsent(e) /\ UnknownIsSent(e, {}) /\ ParkedWait(e)
  BY <1>4, <1>5 DEF Sound, Nearly, Unsent, UnknownIsSent, ParkedWait
<1> QED
  BY <1>4, <1>5, <1>11, <1>12, <1>13, <1>14 DEF Sound, Nearly, Alike

LEMMA SendInv ==
  ASSUME IInv, NEW q \in Queries, Send(q)
  PROVE  IInv'
<1>1. PICK b : b = c
  OBVIOUS
<1>2. PICK e : e = c'
  OBVIOUS
<1>3. PICK d : d = [b EXCEPT !.given = @ \cup {q}]
  OBVIOUS
<1>4. PICK M : M = {q}
  OBVIOUS
<1>5. Holds(b, up, down, events, server) /\ b.closed = FALSE /\ q \notin b.given
  <2>1. Holds(b, up, down, events, server) /\ ~b.closed /\ q \notin b.given
    BY <1>1 DEF IInv, Send
  <2> QED
    BY <2>1 DEF Holds, StateOK
<1>6. /\ Sound(b, {}, {}, {}) /\ StateOK(b) /\ Wire(up, down, events, b.next)
      /\ AskedFor(b, up, down) /\ IsServer(server)
  BY <1>5 DEF Holds
<1>7. /\ Sound(d, M, {}, {}) /\ d.next = b.next /\ d.closed = b.closed /\ d.state = b.state
      /\ d.unknown = b.unknown /\ d.to_get_state_info = b.to_get_state_info /\ d.sent = b.sent
  BY <1>3, <1>4, <1>5, <1>6, GiveSound
<1>8. e = IF q \in cancelled THEN ReturnQuery(d, q) ELSE Loop([d EXCEPT !.pending = Append(@, q)])
  BY <1>1, <1>2, <1>3 DEF Send
<1>9. Holds(e, up, down, events, server)
  <2>1. CASE q \in cancelled
    <3>1. e = ReturnQuery(d, q) /\ q \in M /\ M \ {q} = {}
      BY <1>4, <1>8, <2>1
    <3>2. Sound(e, M \ {q}, {}, {}) /\ Sends(d, e)
      BY <3>1, <1>7, ReturnQuerySound
    <3>3. Sound(e, {}, {}, {})
      BY <3>1, <3>2
    <3>4. Typed(b) /\ Typed(e) /\ b.next <= e.next
      BY <3>2, <3>3, <1>6, <1>7 DEF Sound, Nearly, Sends
    <3>5. Wire(up, down, events, e.next)
      BY <3>4, <1>6, WireStep
    <3>6. StateOK(e)
      BY <3>2, <1>5, <1>6, <1>7 DEF StateOK, Sends
    <3>7. AskedFor(e, up, down)
      BY <3>2, <1>6, <1>7 DEF AskedFor, Sends
    <3> QED
      BY <3>3, <3>5, <3>6, <3>7, <1>6 DEF Holds
  <2>2. CASE q \notin cancelled
    <3>1. PICK g : g = [d EXCEPT !.pending = Append(@, q)]
      OBVIOUS
    <3>2. e = Loop(g)
      BY <3>1, <1>8, <2>2
    <3>0. Pended(d, q, g)
      BY <3>1 DEF Pended
    <3>6. Sound(g, {}, {}, {}) /\ Alike(d, g)
      BY <3>0, <1>4, <1>7, PendSound
    <3>3. /\ Sound(g, {}, {}, {}) /\ g.next = d.next /\ g.closed = d.closed /\ g.state = d.state
          /\ g.unknown = d.unknown /\ g.to_get_state_info = d.to_get_state_info
      BY <3>6 DEF Alike
    <3>4. AskedFor(g, up, down)
      BY <3>3, <1>6, <1>7 DEF AskedFor
    <3>5. g.closed = FALSE /\ g.state \in {"empty", "connecting", "ready"} /\ g.next = b.next
      BY <3>3, <1>5, <1>6, <1>7 DEF StateOK
    <3> QED
      BY <3>2, <3>3, <3>4, <3>5, <1>6, LoopStep
  <2> QED
    BY <2>1, <2>2
<1>10. /\ cancelled' = cancelled /\ events' = events /\ up' = up /\ down' = down
       /\ server' = server /\ troubles' = troubles
  BY DEF Send
<1>11. cancelled \subseteq Queries /\ troubles \in 0..MaxTroubles
  BY DEF IInv
<1> QED
  BY <1>2, <1>9, <1>10, <1>11 DEF IInv

LEMMA TroubleType ==
  ASSUME IInv, Trouble
  PROVE  troubles' \in 0..MaxTroubles
  BY SessionAssumption DEF IInv, Trouble

LEMMA CancelInv ==
  ASSUME IInv, NEW q \in Queries, Cancel(q)
  PROVE  IInv'
<1>1. PICK m : m = MessageId(c, q)
  OBVIOUS
<1>2. PICK evs : evs = events'
  OBVIOUS
<1>3. Holds(c, up, down, events, server)
  BY DEF IInv
<1>4. Typed(c) /\ Wire(up, down, events, c.next)
  BY <1>3 DEF Holds, Sound, Nearly
<1>5. evs \subseteq 1 .. c.next - 1
  <2>1. evs = events \/ evs = events \cup ({m} \ {0})
    BY <1>1, <1>2 DEF Cancel
  <2>2. m # 0 => m \in DOMAIN c.sent
    BY <1>1, <1>4, MessageIdNat
  <2>3. DOMAIN c.sent \subseteq 1 .. c.next - 1
    BY <1>4 DEF Typed
  <2>4. events \subseteq 1 .. c.next - 1
    BY <1>4 DEF Wire
  <2>5. \A x \in evs : x \in events \/ (x = m /\ m # 0)
    BY <2>1
  <2> QED
    BY <2>2, <2>3, <2>4, <2>5
<1>6. Wire(up, down, evs, c.next)
  BY <1>4, <1>5 DEF Wire
<1>7. Holds(c, up, down, evs, server)
  BY <1>3, <1>6 DEF Holds
<1>8. /\ cancelled' = cancelled \cup {q} /\ c' = c /\ up' = up /\ down' = down /\ server' = server
      /\ Trouble
  BY DEF Cancel
<1>9. cancelled' \subseteq Queries /\ troubles' \in 0..MaxTroubles
  BY <1>8, TroubleType DEF IInv
<1> QED
  BY <1>2, <1>7, <1>8, <1>9 DEF IInv

LEMMA RawEventInv ==
  ASSUME IInv, NEW m \in events, RawEvent(m)
  PROVE  IInv'
<1>1. PICK b : b = c
  OBVIOUS
<1>2. PICK e : e = c'
  OBVIOUS
<1>3. PICK evs : evs = events \ {m}
  OBVIOUS
<1>4. /\ Sound(b, {}, {}, {}) /\ StateOK(b) /\ Wire(up, down, events, b.next)
      /\ AskedFor(b, up, down) /\ IsServer(server)
  BY <1>1 DEF IInv, Holds
<1>5. Wire(up, down, evs, b.next)
  BY <1>3, <1>4 DEF Wire
<1>6. Holds(e, up, down, evs, server)
  <2>1. CASE m \notin DOMAIN b.sent
    <3>1. e = b
      BY <2>1, <1>1, <1>2 DEF RawEvent
    <3> QED
      BY <3>1, <1>4, <1>5 DEF Holds
  <2>2. CASE m \in DOMAIN b.sent
    <3>1. PICK d : d = ReturnSent(MarkAsKnown(DecContainer(b, m), {m}), {m})
      OBVIOUS
    <3>2. e = Loop(d)
      BY <2>2, <3>1, <1>1, <1>2 DEF RawEvent
    <3>3. Sound(d, {}, {}, {}) /\ Keeps(b, d)
      BY <2>2, <3>1, <1>4, ReturnCancelledSound
    <3>4. b.closed = FALSE /\ b.state \in {"empty", "connecting", "ready"}
      BY <2>2, <1>4 DEF StateOK
    <3>5. d.closed = FALSE /\ d.state \in {"empty", "connecting", "ready"} /\ d.next = b.next
      BY <3>3, <3>4 DEF Keeps
    <3>6. AskedFor(d, up, down)
      BY <3>3, <1>4, AskedKept DEF Keeps
    <3> QED
      BY <3>2, <3>3, <3>5, <3>6, <1>4, <1>5, LoopStep
  <2> QED
    BY <2>1, <2>2
<1>7. /\ cancelled' = cancelled /\ events' = evs /\ up' = up /\ down' = down
      /\ server' = server /\ troubles' = troubles
  BY <1>3 DEF RawEvent
<1>8. cancelled \subseteq Queries /\ troubles \in 0..MaxTroubles
  BY DEF IInv
<1> QED
  BY <1>2, <1>6, <1>7, <1>8 DEF IInv

LEMMA ConnectionOpenFinishInv ==
  ASSUME IInv, ConnectionOpenFinish
  PROVE  IInv'
<1>1. PICK b : b = c
  OBVIOUS
<1>2. PICK e : e = c'
  OBVIOUS
<1>4. /\ Sound(b, {}, {}, {}) /\ StateOK(b) /\ Wire(up, down, events, b.next)
      /\ AskedFor(b, up, down) /\ IsServer(server)
  BY <1>1 DEF IInv, Holds
<1>5. PICK d : d = [b EXCEPT !.state = "ready", !.to_get_state_info = b.unknown]
  OBVIOUS
<1>6. e = Loop(d) /\ b.state = "connecting"
  BY <1>1, <1>2, <1>5 DEF ConnectionOpenFinish
<1>7. b.closed = FALSE /\ IsSession(b) /\ b.unknown \subseteq 1 .. b.next - 1
  BY <1>4, <1>6 DEF StateOK, Sound, Nearly, Typed, UnknownIsSent
<1>8. Same(b, d, {"state", "to_get_state_info"}) /\ d.state = "ready" /\ d.to_get_state_info = b.unknown
  BY <1>5, <1>7 DEF IsSession, Same, Fields
<1>9. /\ d.next = b.next /\ d.containers = b.containers /\ d.given = b.given /\ d.pending = b.pending
      /\ d.closed = b.closed /\ IsSession(d) /\ d.unknown = b.unknown
  BY <1>8 DEF Same, Fields
<1>10. /\ d.to_send = b.to_send /\ d.sent = b.sent /\ d.parked = b.parked /\ d.renewed = b.renewed
       /\ d.to_resend_answer = b.to_resend_answer /\ d.returned = b.returned
  BY <1>8 DEF Same, Fields
<1>11. Typed(d)
  BY <1>4, <1>7, <1>8, <1>9, <1>10 DEF Sound, Nearly, Typed
<1>12. Placed(d, {}) /\ Contained(d, {}, {})
  BY <1>4, <1>9, <1>10 DEF Sound, Nearly, Placed, Contained
<1>13. Unsent(d) /\ UnknownIsSent(d, {}) /\ ParkedWait(d)
  BY <1>4, <1>9, <1>10 DEF Sound, Nearly, Unsent, UnknownIsSent, ParkedWait
<1>14. Sound(d, {}, {}, {})
  BY <1>11, <1>12, <1>13 DEF Sound, Nearly
<1>15. AskedFor(d, up, down)
  BY <1>8, <1>9 DEF AskedFor
<1>16. d.closed = FALSE /\ d.state \in {"empty", "connecting", "ready"}
  BY <1>7, <1>8, <1>9
<1>17. Holds(e, up, down, events, server)
  BY <1>4, <1>6, <1>9, <1>14, <1>15, <1>16, LoopStep
<1>18. /\ cancelled' = cancelled /\ events' = events /\ up' = up /\ down' = down
       /\ server' = server /\ troubles' = troubles
  BY DEF ConnectionOpenFinish
<1>19. cancelled \subseteq Queries /\ troubles \in 0..MaxTroubles
  BY DEF IInv
<1> QED
  BY <1>2, <1>17, <1>18, <1>19 DEF IInv

LEMMA DisconnectedInv ==
  ASSUME IInv, NEW d, Sound(d, {}, {}, {}), d.next = c.next, d.closed = c.closed, c.state = "ready",
         NEW code, c' = Loop(OnClosed(d, code)), Disconnected, troubles' \in 0..MaxTroubles
  PROVE  IInv'
<1>1. PICK e : e = c'
  OBVIOUS
<1>2. PICK g : g = OnClosed(d, code)
  OBVIOUS
<1>3. e = Loop(g)
  BY <1>1, <1>2
<1>4. /\ Sound(g, {}, {}, {}) /\ g.state = "empty" /\ g.next = d.next /\ g.closed = d.closed
  BY <1>2, OnClosedSound
<1>5. /\ Sound(c, {}, {}, {}) /\ StateOK(c) /\ Wire(up, down, events, c.next) /\ IsServer(server)
  BY DEF IInv, Holds
<1>6. g.closed = FALSE /\ g.state \in {"empty", "connecting", "ready"} /\ g.next = d.next
  BY <1>4, <1>5 DEF StateOK
<1>7. PICK none : none = <<>>
  OBVIOUS
<1>8. Wire(none, none, events, d.next)
  BY <1>5, <1>7 DEF Wire
<1>9. AskedFor(g, none, none)
  BY <1>4 DEF AskedFor
<1>10. PICK sv : sv = server'
  OBVIOUS
<1>11. IsServer(sv)
  <2>1. sv = [server EXCEPT !.told = {}]
    BY <1>10 DEF Disconnected
  <2> QED
    BY <2>1, <1>5 DEF IsServer, ServerFields
<1>12. Holds(e, none, none, events, sv)
  BY <1>3, <1>4, <1>6, <1>8, <1>9, <1>11, LoopStep
<1>13. cancelled' = cancelled /\ events' = events /\ up' = none /\ down' = none /\ server' = sv
  BY <1>7, <1>10 DEF Disconnected
<1>14. cancelled \subseteq Queries
  BY DEF IInv
<1> QED
  BY <1>1, <1>12, <1>13, <1>14 DEF IInv

LEMMA DisconnectInv ==
  ASSUME IInv, NEW code, Disconnect(code)
  PROVE  IInv'
<1>1. PICK b : b = c
  OBVIOUS
<1>2. Sound(b, {}, {}, {})
  BY <1>1 DEF IInv, Holds
<1>3. b.next = c.next /\ b.closed = c.closed /\ c.state = "ready" /\ c' = Loop(OnClosed(b, code)) /\ Disconnected
  BY <1>1 DEF Disconnect
<1>4. troubles' \in 0..MaxTroubles
  BY TroubleType DEF Disconnect
<1> QED
  BY <1>2, <1>3, <1>4, DisconnectedInv

LEMMA OnPongInv ==
  ASSUME IInv, NEW old, OnPong(old)
  PROVE  IInv'
<1>1. PICK b : b = c
  OBVIOUS
<1>2. Sound(b, {}, {}, {})
  BY <1>1 DEF IInv, Holds
<1>3. PICK s : s = [m \in DOMAIN b.sent |-> [b.sent[m] EXCEPT !.ack = @ /\ m \notin old]]
  OBVIOUS
<1>4. PICK d : d = [b EXCEPT !.sent = s]
  OBVIOUS
<1>5. PICK code : code = 0
  OBVIOUS
<1>6. c.state = "ready" /\ c' = Loop(OnClosed(d, code)) /\ Disconnected
  BY <1>1, <1>3, <1>4, <1>5 DEF OnPong
<1>7. IsSession(b) /\ \A m \in DOMAIN b.sent : b.sent[m] \in Entries(b.next)
  BY <1>2 DEF Sound, Nearly, Typed
<1>8. Same(b, d, {"sent"}) /\ d.sent = s
  BY <1>4, <1>7 DEF IsSession, Same, Fields
<1>9. SameButAcks(b, s, {})
  <2>1. DOMAIN s = DOMAIN b.sent
    BY <1>3
  <2>2. ASSUME NEW m \in DOMAIN b.sent
        PROVE  /\ s[m] \in Entries(b.next) /\ s[m].query = b.sent[m].query
               /\ s[m].container_id = b.sent[m].container_id
               /\ b.sent[m].ack = FALSE => s[m].ack = FALSE
    <3>1. s[m] = [b.sent[m] EXCEPT !.ack = @ /\ m \notin old]
      BY <1>3
    <3> QED
      BY <3>1, <1>7 DEF Entries
  <2> QED
    BY <2>1, <2>2 DEF SameButAcks
<1>10. Nearly(d, {}, {}, {}, {}) /\ Keeps(b, d)
  BY <1>2, <1>8, <1>9, OtherAcks
<1>11. Sound(d, {}, {}, {}) /\ d.next = c.next /\ d.closed = c.closed
  BY <1>1, <1>10 DEF Sound, Keeps
<1>12. troubles' \in 0..MaxTroubles
  <2>1. CASE Quiet
    BY <2>1 DEF OnPong, IInv
  <2>2. CASE ~Quiet
    BY <2>2, TroubleType DEF OnPong
  <2> QED
    BY <2>1, <2>2
<1> QED
  BY <1>6, <1>11, <1>12, DisconnectedInv

(* A packet joins those on the connection; what it asks is asked for. *)
LEMMA PacketSent ==
  ASSUME NEW b, NEW e, Sound(b, {}, {}, {}), Sound(e, {}, {}, {}), b.next <= e.next,
         e.state = b.state, e.closed = b.closed, DOMAIN e.sent = DOMAIN b.sent, e.unknown = b.unknown,
         NEW packets, NEW msgs, NEW evs, NEW sv, Holds(b, packets, msgs, evs, sv),
         NEW p \in Packets(e.next), p.info = b.to_get_state_info,
         NEW more, more = Append(packets, p)
  PROVE  Holds(e, more, msgs, evs, sv)
<1>1. StateOK(b) /\ Wire(packets, msgs, evs, b.next) /\ AskedFor(b, packets, msgs) /\ IsServer(sv)
  BY DEF Holds
<1>2. Typed(b) /\ Typed(e)
  BY DEF Sound, Nearly
<1>3. Wire(packets, msgs, evs, e.next)
  BY <1>1, <1>2, WireStep
<1>4. packets \in Seq(Packets(e.next)) /\ more \in Seq(Packets(e.next))
  BY <1>3 DEF Wire
<1>5. PICK L \in Nat : L = Len(packets)
  BY <1>4
<1>6. Len(more) = L + 1 /\ more[L + 1] = p /\ \A i \in 1..L : more[i] = packets[i]
  BY <1>4, <1>5
<1>7. Wire(more, msgs, evs, e.next)
  BY <1>3, <1>4 DEF Wire
<1>8. StateOK(e)
  BY <1>1 DEF StateOK
<1>9. AskedFor(e, more, msgs)
  <2>1. SUFFICES ASSUME b.state = "ready", NEW m \in b.unknown
                 PROVE  \/ \E i \in 1..Len(more) : m \in more[i].info
                        \/ \E i \in 1..Len(msgs) : AsksFor(msgs[i], m)
    BY DEF AskedFor
  <2>2. \/ m \in b.to_get_state_info
        \/ \E i \in 1..L : m \in packets[i].info
        \/ \E i \in 1..Len(msgs) : AsksFor(msgs[i], m)
    BY <2>1, <1>1, <1>5 DEF AskedFor
  <2>3. CASE m \in b.to_get_state_info
    BY <2>3, <1>5, <1>6
  <2>4. CASE \E i \in 1..L : m \in packets[i].info
    BY <2>4, <1>5, <1>6
  <2> QED
    BY <2>2, <2>3, <2>4
<1> QED
  BY <1>1, <1>7, <1>8, <1>9 DEF Holds

LEMMA FlushPacketInv ==
  ASSUME IInv, NEW n \in 0..Len(c.to_send), NEW more \in BOOLEAN, FlushPacket(n, more)
  PROVE  IInv'
<1>1. PICK b : b = c
  OBVIOUS
<1>2. PICK e : e = c'
  OBVIOUS
<1>3. PICK rest : rest = (IF b.to_get_state_info = {} THEN 0 ELSE 1) + (IF b.to_resend_answer = {} THEN 0 ELSE 1)
  OBVIOUS
<1>4. PICK alone \in BOOLEAN : alone = (n = 1 /\ rest = 0 /\ ~more)
  OBVIOUS
<1>5. PICK msgs : msgs = SubSeq(b.to_send, 1, n)
  OBVIOUS
<1>6. PICK id : id = IF alone THEN msgs[1].id ELSE b.next
  OBVIOUS
<1>7. PICK d : d = [b EXCEPT !.to_send = SubSeq(@, n + 1, Len(@)),
                             !.to_get_state_info = {}, !.to_resend_answer = {},
                             !.next = IF alone THEN @ ELSE @ + 1]
  OBVIOUS
<1>8. PICK p : p = [id |-> id, msgs |-> msgs, info |-> b.to_get_state_info, resend |-> b.to_resend_answer]
  OBVIOUS
<1>9. PICK packets : packets = Append(up, p)
  OBVIOUS
<1>10. PICK ms : ms = { msgs[i].id : i \in 1..n }
  OBVIOUS
<1>11. /\ up' = packets /\ UNCHANGED <<cancelled, events, down, server, troubles>>
       /\ e = IF n + rest > 1 \/ (more /\ n + rest > 0) THEN OnContainerSent(d, id, ms) ELSE d
  BY <1>1, <1>2, <1>3, <1>4, <1>5, <1>6, <1>7, <1>8, <1>9, <1>10 DEF FlushPacket
<1>12. Holds(b, up, down, events, server) /\ Sound(b, {}, {}, {}) /\ n \in 0..Len(b.to_send)
  BY <1>1 DEF IInv, Holds
<1>13. /\ IsSession(b) /\ b.next \in Nat \ {0} /\ b.to_send \in Seq(Sendings) /\ Len(b.to_send) \in Nat
       /\ b.to_get_state_info \subseteq 1 .. b.next - 1 /\ b.to_resend_answer \subseteq 1 .. b.next - 1
  BY <1>12 DEF Sound, Nearly, Typed
<1>14. /\ Same(b, d, {"to_send", "to_get_state_info", "to_resend_answer", "next"})
       /\ d.to_send = SubSeq(b.to_send, n + 1, Len(b.to_send))
       /\ d.to_get_state_info = {} /\ d.to_resend_answer = {}
       /\ d.next = IF alone THEN b.next ELSE b.next + 1
  BY <1>7, <1>13 DEF IsSession, Same, Fields
<1>15. d.next = b.next \/ d.next = b.next + 1
  BY <1>14
<1>16. Sound(d, {}, {}, {}) /\ b.next <= d.next /\ Apart(b, d, n)
  <2>1. Taken(b, d, n)
    BY <1>14, <1>15 DEF Taken
  <2> QED
    BY <2>1, <1>12, TakeToSendSound
<1>17. d.state = b.state /\ d.closed = b.closed /\ d.sent = b.sent /\ d.unknown = b.unknown
  BY <1>14 DEF Same, Fields
<1>18. msgs \in Seq(Sendings) /\ Len(msgs) = n /\ \A i \in 1..n : msgs[i] = b.to_send[i]
  <2>1. \A i \in 1..n : b.to_send[i] \in Sendings
    BY <1>12, <1>13
  <2>2. n \in Nat
    BY <1>12, <1>13
  <2> QED
    BY <2>1, <2>2, <1>5, SubSeqProperties
<1>19. p \in Packets(d.next)
  <2>1. id \in Nat
    <3>1. CASE alone
      <4>1. n = 1
        BY <3>1, <1>4
      <4>2. msgs \in Seq(Sendings) /\ Len(msgs) = 1
        BY <4>1, <1>18
      <4>3. msgs[1] \in Sendings
        BY <4>2
      <4> QED
        BY <3>1, <4>3, <1>6 DEF Sendings
    <3>2. CASE ~alone
      BY <3>2, <1>6, <1>13
    <3> QED
      BY <3>1, <3>2
  <2>2. 1 .. b.next - 1 \subseteq 1 .. d.next - 1
    BY <1>13, <1>15
  <2> QED
    BY <2>1, <2>2, <1>8, <1>13, <1>18 DEF Packets
<1>20. p.info = b.to_get_state_info
  BY <1>8
<1>21. Holds(e, packets, down, events, server)
  <2>1. CASE n + rest > 1 \/ (more /\ n + rest > 0)
    <3>1. n = 1 /\ rest = 0 => n + rest = 1
      OBVIOUS
    <3>2. alone = FALSE
      <4>1. ASSUME n = 1, rest = 0, ~more PROVE FALSE
        BY <2>1, <3>1, <4>1
      <4> QED
        BY <4>1, <1>4
    <3>3. id = b.next /\ d.next = b.next + 1
      BY <3>2, <1>6, <1>14
    <3>4. id \in 1 .. d.next - 1
      BY <3>3, <1>13
    <3>5. id \notin DOMAIN d.sent /\ \A m \in DOMAIN d.sent : d.sent[m].container_id # id
      <4>1. DOMAIN b.sent \subseteq 1 .. b.next - 1
        BY <1>12 DEF Sound, Nearly, Typed
      <4>2. \A m \in DOMAIN b.sent : b.sent[m].container_id \in 1 .. b.next - 1
        BY <1>12 DEF Sound, Nearly, Typed, Entries
      <4>3. b.next \notin 1 .. b.next - 1
        BY <1>13
      <4> QED
        BY <4>1, <4>2, <4>3, <3>3, <1>17
    <3>6. \A m \in ms : \E j \in 1..n : m = b.to_send[j].id
      BY <1>10, <1>18
    <3>7. \A m \in ms \cap DOMAIN d.sent : d.sent[m].container_id = m
      <4>1. NotSent(b.to_send, b.sent, b.next)
        BY <1>12 DEF Sound, Nearly, Unsent
      <4>2. 1..n \subseteq 1..Len(b.to_send)
        BY <1>12, <1>13
      <4> QED
        BY <4>1, <4>2, <3>6, <1>17 DEF NotSent
    <3>8. \A i \in 1..Len(d.to_send) : d.to_send[i].id \notin ms
      BY <3>6, <1>16 DEF Apart
    <3>9. e = OnContainerSent(d, id, ms)
      BY <2>1, <1>11
    <3>10. /\ Sound(e, {}, {}, {}) /\ e.next = d.next /\ e.state = d.state /\ e.closed = d.closed
           /\ e.unknown = d.unknown /\ DOMAIN e.sent = DOMAIN d.sent
      BY <3>4, <3>5, <3>7, <3>8, <3>9, <1>16, OnContainerSentSound
    <3>11. /\ b.next <= e.next /\ e.state = b.state /\ e.closed = b.closed
           /\ e.unknown = b.unknown /\ DOMAIN e.sent = DOMAIN b.sent /\ p \in Packets(e.next)
      BY <3>10, <1>16, <1>17, <1>19
    <3> QED
      BY <3>10, <3>11, <1>9, <1>12, <1>20, PacketSent
  <2>2. CASE ~(n + rest > 1 \/ (more /\ n + rest > 0))
    <3>1. e = d
      BY <2>2, <1>11
    <3>2. DOMAIN d.sent = DOMAIN b.sent
      BY <1>17
    <3> QED
      BY <3>1, <3>2, <1>9, <1>12, <1>16, <1>17, <1>19, <1>20, PacketSent
  <2> QED
    BY <2>1, <2>2
<1>22. cancelled \subseteq Queries /\ troubles \in 0..MaxTroubles
  BY DEF IInv
<1> QED
  BY <1>2, <1>11, <1>21, <1>22 DEF IInv

LEMMA FlushInv ==
  ASSUME IInv, Flush
  PROVE  IInv'
  BY FlushPacketInv DEF Flush

LEMMA PingInv ==
  ASSUME IInv, Ping
  PROVE  IInv'
<1>1. PICK more \in BOOLEAN : more = TRUE
  OBVIOUS
<1>2. FlushPacket(0, more)
  BY <1>1 DEF Ping
<1>3. c.to_send \in Seq(Sendings)
  BY DEF IInv, Holds, Sound, Nearly, Typed
<1>4. 0 \in 0..Len(c.to_send)
  BY <1>3
<1> QED
  BY <1>2, <1>4, FlushPacketInv

LEMMA ReceiveInv ==
  ASSUME IInv, NEW n \in 1..Len(down), Receive(n)
  PROVE  IInv'
<1>1. PICK b : b = c
  OBVIOUS
<1>2. PICK e : e = c'
  OBVIOUS
<1>3. PICK first : first = SubSeq(down, 1, n)
  OBVIOUS
<1>4. PICK others : others = SubSeq(down, n + 1, Len(down))
  OBVIOUS
<1>5. PICK d : d = HandleAll(b, first)
  OBVIOUS
<1>6. e = Loop(d) /\ b.state = "ready"
  BY <1>1, <1>2, <1>3, <1>5 DEF Receive
<1>7. /\ Sound(b, {}, {}, {}) /\ StateOK(b) /\ Wire(up, down, events, b.next)
      /\ AskedFor(b, up, down) /\ IsServer(server)
  BY <1>1 DEF IInv, Holds
<1>8. PICK S : S = Messages(b.next)
  OBVIOUS
<1>9. down \in Seq(S) /\ Len(down) \in Nat /\ n \in Nat \ {0} /\ n <= Len(down)
  BY <1>7, <1>8 DEF Wire
<1>10. PICK L \in Nat : L = Len(down)
  BY <1>9
<1>11. first \in Seq(S) /\ Len(first) = n /\ \A i \in 1..n : first[i] = down[i]
  <2>1. \A i \in 1..n : down[i] \in S
    BY <1>9
  <2> QED
    BY <2>1, <1>3, <1>9, SubSeqProperties
<1>12. others \in Seq(S) /\ Len(others) = L - n /\ \A i \in 1 .. L - n : others[i] = down[n + i]
  <2>1. \A i \in n + 1 .. L : down[i] \in S
    BY <1>9, <1>10
  <2>2. others = SubSeq(down, n + 1, L)
    BY <1>4, <1>10
  <2>3. n + 1 \in Int /\ L \in Int /\ n + 1 <= L + 1
    BY <1>9, <1>10
  <2>4. /\ others \in Seq(S) /\ Len(others) = IF n + 1 <= L THEN L - (n + 1) + 1 ELSE 0
        /\ \A i \in 1 .. L - (n + 1) + 1 : others[i] = down[n + 1 + i - 1]
    BY <2>1, <2>2, <2>3, SubSeqProperties
  <2>5. L - (n + 1) + 1 = L - n /\ \A i \in 1 .. L - n : n + 1 + i - 1 = n + i
    BY <1>9, <1>10
  <2>6. Len(others) = L - n
    BY <2>4, <1>9, <1>10
  <2> QED
    BY <2>4, <2>5, <2>6
<1>13. Sound(d, {}, {}, {}) /\ Keeps(b, d) /\ Answered(first, Len(first), d)
  BY <1>5, <1>7, <1>8, <1>11, HandleAllSound
<1>14. Wire(up, others, events, b.next)
  BY <1>7, <1>8, <1>12 DEF Wire
<1>15. d.closed = FALSE /\ d.state \in {"empty", "connecting", "ready"} /\ d.next = b.next
  BY <1>6, <1>7, <1>13 DEF Keeps, StateOK
<1>16. AskedFor(d, up, others)
  <2>1. SUFFICES ASSUME NEW m \in d.unknown, m \notin d.to_get_state_info
                 PROVE  \/ \E i \in 1..Len(up) : m \in up[i].info
                        \/ \E i \in 1..Len(others) : AsksFor(others[i], m)
    BY DEF AskedFor
  <2>2. m \in b.unknown /\ m \notin b.to_get_state_info
    BY <2>1, <1>13 DEF Keeps
  <2>3. (\E i \in 1..Len(up) : m \in up[i].info) \/ (\E i \in 1..L : AsksFor(down[i], m))
    BY <2>2, <1>6, <1>7, <1>10 DEF AskedFor
  <2>4. ASSUME NEW i \in 1..L, AsksFor(down[i], m)
        PROVE  \E j \in 1..Len(others) : AsksFor(others[j], m)
    <3>1. CASE i \in 1..n
      <4>1. AsksFor(first[i], m)
        BY <2>4, <3>1, <1>11
      <4> QED
        BY <4>1, <2>1, <3>1, <1>11, <1>13 DEF Answered
    <3>2. CASE i \notin 1..n
      <4>1. i - n \in 1 .. L - n /\ n + (i - n) = i
        BY <3>2, <2>4, <1>9, <1>10
      <4>2. others[i - n] = down[i]
        BY <4>1, <1>12
      <4> QED
        BY <4>1, <4>2, <2>4, <1>12
    <3> QED
      BY <3>1, <3>2
  <2> QED
    BY <2>3, <2>4
<1>17. Holds(e, up, others, events, server)
  BY <1>6, <1>7, <1>13, <1>14, <1>15, <1>16, LoopStep
<1>18. down' = others /\ UNCHANGED <<cancelled, events, up, server, troubles>>
  BY <1>4 DEF Receive
<1>19. cancelled \subseteq Queries /\ troubles \in 0..MaxTroubles
  BY DEF IInv
<1> QED
  BY <1>2, <1>17, <1>18, <1>19 DEF IInv

(* A closed session has returned every query. *)
LEMMA ReturnAllSound ==
  ASSUME NEW d, Sound(d, {}, {}, {}), NEW e,
         e = [ReturnAll(d) EXCEPT !.state = "empty", !.closed = TRUE]
  PROVE  Sound(e, {}, {}, {}) /\ StateOK(e) /\ e.next = d.next /\ e.unknown = {}
<1>1. PICK r : r = [q \in Queries |-> d.returned[q] + Cardinality(WaitsIn(d.pending, q))
                                                    + Cardinality(SentAs(d, q))
                                                    + Cardinality(WaitsIn(d.parked, q))]
  OBVIOUS
<1>2. IsSession(d)
  BY DEF Sound, Nearly, Typed
<1>3. PICK g : g = ReturnAll(d)
  OBVIOUS
<1>4. /\ Same(d, g, {"sent", "containers", "pending", "parked", "unknown", "returned"})
      /\ g.sent = EmptyFn /\ g.containers = EmptyFn /\ g.pending = <<>> /\ g.parked = <<>>
      /\ g.unknown = {} /\ g.returned = r
  BY <1>1, <1>2, <1>3 DEF ReturnAll, IsSession, Same, Fields
<1>5. IsSession(g) /\ e = [g EXCEPT !.state = "empty", !.closed = TRUE]
  BY <1>3, <1>4 DEF Same
<1>6. Same(g, e, {"state", "closed"}) /\ e.state = "empty" /\ e.closed = TRUE
  BY <1>5 DEF IsSession, Same, Fields
<1>7. /\ g.next = d.next /\ g.given = d.given /\ g.renewed = d.renewed /\ g.to_send = d.to_send
      /\ g.to_get_state_info = d.to_get_state_info /\ g.to_resend_answer = d.to_resend_answer
  BY <1>4 DEF Same, Fields
<1>8. /\ e.next = g.next /\ e.given = g.given /\ e.renewed = g.renewed /\ e.to_send = g.to_send
      /\ e.to_get_state_info = g.to_get_state_info /\ e.to_resend_answer = g.to_resend_answer
  BY <1>6 DEF Same, Fields
<1>9. /\ e.sent = EmptyFn /\ e.containers = EmptyFn /\ e.pending = <<>> /\ e.parked = <<>>
      /\ e.unknown = {} /\ e.returned = r /\ IsSession(e)
  BY <1>4, <1>6 DEF Same, Fields
<1>10. /\ e.next = d.next /\ e.given = d.given /\ e.renewed = d.renewed /\ e.to_send = d.to_send
       /\ e.to_get_state_info = d.to_get_state_info /\ e.to_resend_answer = d.to_resend_answer
  BY <1>7, <1>8
<1>11. DOMAIN e.sent = {} /\ DOMAIN e.containers = {}
  BY <1>9 DEF EmptyFn
<1>12. ASSUME NEW q \in Queries
       PROVE  r[q] = IF q \in d.given THEN 1 ELSE 0
  <2>1. PICK x : x = Cardinality(WaitsIn(d.pending, q))
    OBVIOUS
  <2>2. PICK y : y = Cardinality(WaitsIn(d.parked, q))
    OBVIOUS
  <2>3. PICK z : z = Cardinality(SentAs(d, q))
    OBVIOUS
  <2>4. PICK w : w = d.returned[q]
    OBVIOUS
  <2>5. /\ x \in {0, 1} /\ y \in {0, 1} /\ z \in {0, 1} /\ w \in {0, 1}
        /\ x + y + z + w = IF q \in d.given THEN 1 ELSE 0
    BY <2>1, <2>2, <2>3, <2>4, CountedOnce
  <2>6. r[q] = w + x + z + y
    BY <2>1, <2>2, <2>3, <2>4, <1>1
  <2>7. w + x + z + y = x + y + z + w
    BY <2>5
  <2> QED
    BY <2>5, <2>6, <2>7
<1>13. d.given \subseteq Queries
  BY DEF Sound, Nearly, Typed
<1>14. r \in [Queries -> Nat] /\ Once(r) /\ ReturnedQueries(r) = d.given
  <2>1. DOMAIN r = Queries /\ r = [q \in Queries |-> r[q]]
    BY <1>1
  <2>2. \A q \in Queries : r[q] \in {0, 1} /\ (r[q] # 0 <=> q \in d.given)
    BY <1>12
  <2>3. \A q \in Queries : r[q] \in Nat
    BY <2>2
  <2>4. Once(r)
    BY <2>2 DEF Once
  <2>5. ReturnedQueries(r) = d.given
    BY <2>2, <1>13 DEF ReturnedQueries
  <2> QED
    BY <2>1, <2>3, <2>4, <2>5
<1>15. Typed(e)
  <2>0. <<>> \in Seq(Queries)
    OBVIOUS
  <2>1. e.pending \in Seq(Queries) /\ e.parked \in Seq(Queries)
    BY <2>0, <1>9
  <2>2. e.returned \in [Queries -> Nat]
    BY <1>9, <1>14
  <2>3. /\ e.next \in Nat \ {0} /\ e.given \subseteq Queries /\ e.renewed \subseteq e.given
        /\ e.to_send \in Seq(Sendings)
        /\ e.to_get_state_info \subseteq 1 .. e.next - 1 /\ e.to_resend_answer \subseteq 1 .. e.next - 1
    BY <1>10 DEF Sound, Nearly, Typed
  <2>4. IsSession(e)
    BY <1>9
  <2> QED
    BY <2>1, <2>2, <2>3, <2>4, <1>11 DEF Typed
<1>16. Placed(e, {})
  <2>1. Elements(e.pending) = {} /\ Elements(e.parked) = {} /\ Distinct(e.pending) /\ Distinct(e.parked)
    BY <1>9, ElementsEmpty
  <2>2. SentQueries(e.sent) = {} /\ OneId(e.sent)
    BY <1>11 DEF SentQueries, OneId
  <2>3. ReturnedQueries(e.returned) = d.given /\ Once(e.returned)
    BY <1>9, <1>14
  <2>4. Parts({}, {}, {}, d.given, {}, d.given)
    BY DEF Parts
  <2> QED
    BY <2>1, <2>2, <2>3, <2>4, <1>10 DEF Placed
<1>17. Contained(e, {}, {})
  BY <1>11 DEF Contained, Contents
<1>18. Unsent(e)
  <2>1. NotSent(d.to_send, d.sent, d.next)
    BY DEF Sound, Nearly, Unsent
  <2>2. PICK s : s = e.sent
    OBVIOUS
  <2>3. NotSent(d.to_send, s, d.next)
    BY <2>1, <2>2, <1>11 DEF NotSent
  <2> QED
    BY <2>2, <2>3, <1>10 DEF Unsent
<1>19. UnknownIsSent(e, {}) /\ ParkedWait(e)
  BY <1>9 DEF UnknownIsSent, ParkedWait
<1>20. StateOK(e)
  BY <1>6, <1>11 DEF StateOK
<1> QED
  BY <1>9, <1>10, <1>15, <1>16, <1>17, <1>18, <1>19, <1>20 DEF Sound, Nearly

LEMMA CloseInv ==
  ASSUME IInv, Close
  PROVE  IInv'
<1>1. PICK b : b = c
  OBVIOUS
<1>2. PICK e : e = c'
  OBVIOUS
<1>3. PICK code : code = 0
  OBVIOUS
<1>4. PICK d : d = IF b.state = "ready" THEN OnClosed(b, code) ELSE b
  OBVIOUS
<1>5. Sound(b, {}, {}, {})
  BY <1>1 DEF IInv, Holds
<1>6. Sound(d, {}, {}, {})
  <2>1. CASE b.state = "ready"
    BY <2>1, <1>4, <1>5, OnClosedSound
  <2>2. CASE b.state # "ready"
    BY <2>2, <1>4, <1>5
  <2> QED
    BY <2>1, <2>2
<1>7. e = [ReturnAll(d) EXCEPT !.state = "empty", !.closed = TRUE]
  BY <1>1, <1>2, <1>3, <1>4 DEF Close
<1>8. Sound(e, {}, {}, {}) /\ StateOK(e) /\ e.unknown = {}
  BY <1>6, <1>7, ReturnAllSound
<1>9. PICK none : none = <<>>
  OBVIOUS
<1>10. Wire(none, none, {}, e.next) /\ AskedFor(e, none, none)
  BY <1>8, <1>9 DEF Wire, AskedFor
<1>11. IsServer(InitServer)
  BY DEF InitServer, IsServer, ServerFields
<1>12. Holds(e, none, none, {}, InitServer)
  BY <1>8, <1>10, <1>11 DEF Holds
<1>13. /\ up' = none /\ down' = none /\ events' = {} /\ server' = InitServer
       /\ UNCHANGED <<cancelled, troubles>>
  BY <1>9 DEF Close
<1>14. cancelled \subseteq Queries /\ troubles \in 0..MaxTroubles
  BY DEF IInv
<1> QED
  BY <1>2, <1>12, <1>13, <1>14 DEF IInv
-----------------------------------------------------------------------------
(* The server. *)

Asks(msgs, m) == \E i \in 1..Len(msgs) : AsksFor(msgs[i], m)

LEMMA AsksConcat ==
  ASSUME NEW S, NEW s \in Seq(S), NEW t \in Seq(S), NEW m, Asks(s, m) \/ Asks(t, m)
  PROVE  Asks(s \o t, m)
<1>1. PICK u : u = s \o t
  OBVIOUS
<1>2. PICK k \in Nat : k = Len(s)
  OBVIOUS
<1>3. PICK l \in Nat : l = Len(t)
  OBVIOUS
<1>4. Len(u) = k + l /\ \A i \in 1..k + l : u[i] = IF i <= k THEN s[i] ELSE t[i - k]
  BY <1>1, <1>2, <1>3
<1>5. CASE Asks(s, m)
  <2>1. PICK i \in 1..k : AsksFor(s[i], m)
    BY <1>2, <1>5 DEF Asks
  <2>2. i \in 1..k + l /\ i <= k
    BY <1>2, <1>3
  <2> QED
    BY <2>1, <2>2, <1>1, <1>4 DEF Asks
<1>6. CASE Asks(t, m)
  <2>1. PICK i \in 1..l : AsksFor(t[i], m)
    BY <1>3, <1>6 DEF Asks
  <2>2. k + i \in 1..k + l /\ ~(k + i <= k) /\ k + i - k = i
    BY <1>2, <1>3
  <2>3. u[k + i] = t[i]
    BY <2>2, <1>4
  <2> QED
    BY <2>1, <2>2, <2>3, <1>1, <1>4 DEF Asks
<1> QED
  BY <1>5, <1>6

(* The server took the first packet and sent some messages, which tell all *)
(* that the packet asked.                                                  *)
LEMMA Delivered ==
  ASSUME NEW d, NEW packets, NEW msgs, NEW evs, NEW sv, Holds(d, packets, msgs, evs, sv),
         packets # <<>>, NEW more \in Seq(Messages(d.next)),
         \A m \in Head(packets).info : Asks(more, m),
         NEW sw, IsServer(sw), NEW all, all = msgs \o more
  PROVE  Holds(d, Tail(packets), all, evs, sw)
<1>1. /\ Sound(d, {}, {}, {}) /\ StateOK(d) /\ Wire(packets, msgs, evs, d.next)
      /\ AskedFor(d, packets, msgs)
  BY DEF Holds
<1>2. PICK P : P = Packets(d.next)
  OBVIOUS
<1>3. PICK S : S = Messages(d.next)
  OBVIOUS
<1>4. packets \in Seq(P) /\ msgs \in Seq(S) /\ more \in Seq(S) /\ evs \subseteq 1 .. d.next - 1
  BY <1>1, <1>2, <1>3 DEF Wire
<1>5. all \in Seq(S)
  BY <1>4
<1>6. PICK rest : rest = Tail(packets)
  OBVIOUS
<1>7. PICK L \in Nat : L = Len(packets)
  BY <1>4
<1>8. /\ L # 0 /\ rest \in Seq(P) /\ Len(rest) = L - 1
      /\ Head(packets) = packets[1] /\ \A i \in 1 .. L - 1 : rest[i] = packets[i + 1]
  BY <1>4, <1>6, <1>7
<1>9. Wire(rest, all, evs, d.next)
  BY <1>2, <1>3, <1>4, <1>5, <1>8 DEF Wire
<1>10. AskedFor(d, rest, all)
  <2>1. SUFFICES ASSUME d.state = "ready", NEW m \in d.unknown
                 PROVE  \/ m \in d.to_get_state_info
                        \/ \E i \in 1..Len(rest) : m \in rest[i].info
                        \/ Asks(all, m)
    BY DEF AskedFor, Asks
  <2>2. \/ m \in d.to_get_state_info
        \/ \E i \in 1..L : m \in packets[i].info
        \/ Asks(msgs, m)
    BY <2>1, <1>1, <1>7 DEF AskedFor, Asks
  <2>3. CASE Asks(msgs, m)
    BY <2>3, <1>4, AsksConcat
  <2>4. ASSUME NEW i \in 1..L, m \in packets[i].info
        PROVE  (\E j \in 1..Len(rest) : m \in rest[j].info) \/ Asks(all, m)
    <3>1. CASE i = 1
      <4>1. Asks(more, m)
        BY <2>4, <3>1, <1>8
      <4> QED
        BY <4>1, <1>4, AsksConcat
    <3>2. CASE i # 1
      <4>1. i - 1 \in 1 .. L - 1 /\ i - 1 + 1 = i
        BY <3>2, <1>7
      <4>2. rest[i - 1] = packets[i]
        BY <4>1, <1>8
      <4> QED
        BY <2>4, <4>1, <4>2, <1>8
    <3> QED
      BY <3>1, <3>2
  <2> QED
    BY <2>2, <2>3, <2>4
<1> QED
  BY <1>1, <1>6, <1>9, <1>10 DEF Holds

(* The server sent some messages. *)
LEMMA Told ==
  ASSUME NEW d, NEW packets, NEW msgs, NEW evs, NEW sv, Holds(d, packets, msgs, evs, sv),
         NEW more \in Seq(Messages(d.next)), NEW sw, IsServer(sw), NEW all, all = msgs \o more
  PROVE  Holds(d, packets, all, evs, sw)
<1>1. /\ Sound(d, {}, {}, {}) /\ StateOK(d) /\ Wire(packets, msgs, evs, d.next)
      /\ AskedFor(d, packets, msgs)
  BY DEF Holds
<1>2. PICK S : S = Messages(d.next)
  OBVIOUS
<1>3. msgs \in Seq(S) /\ more \in Seq(S)
  BY <1>1, <1>2 DEF Wire
<1>4. all \in Seq(S)
  BY <1>3
<1>5. Wire(packets, all, evs, d.next)
  BY <1>1, <1>2, <1>4 DEF Wire
<1>6. \A m : Asks(msgs, m) => Asks(all, m)
  BY <1>3, AsksConcat
<1>7. AskedFor(d, packets, all)
  BY <1>1, <1>6 DEF AskedFor, Asks
<1> QED
  BY <1>1, <1>5, <1>7 DEF Holds

LEMMA AcceptInv ==
  ASSUME IInv, NEW ack \in Acks, Accept(ack)
  PROVE  IInv'
<1>1. PICK b : b = c
  OBVIOUS
<1>2. PICK p : p = Head(up)
  OBVIOUS
<1>3. PICK created : created = IF server.session THEN <<>> ELSE <<[type |-> "created", id |-> p.id]>>
  OBVIOUS
<1>4. PICK infos : infos = IF p.info = {} THEN <<>> ELSE <<Infos(p.info, p.info \cap DOMAIN server.done)>>
  OBVIOUS
<1>5. PICK more : more = created \o ack \o infos
  OBVIOUS
<1>6. /\ up # <<>> /\ up' = Tail(up) /\ down' = down \o created \o ack \o infos
      /\ UNCHANGED <<c, cancelled, events, troubles>>
  BY <1>2, <1>3, <1>4 DEF Accept
<1>7. PICK sw : sw = server'
  OBVIOUS
<1>8. Holds(b, up, down, events, server) /\ Wire(up, down, events, b.next) /\ IsServer(server)
  BY <1>1 DEF IInv, Holds
<1>9. p \in Packets(b.next)
  BY <1>2, <1>6, <1>8 DEF Wire
<1>10. p.id \in Nat /\ p.msgs \in Seq(Sendings) /\ p.info \subseteq 1 .. b.next - 1
  BY <1>9 DEF Packets
<1>11. \A x \in Range(p.msgs) : x \in Sendings
  BY <1>10 DEF Range
<1>12. PICK S : S = Messages(b.next)
  OBVIOUS
<1>13. created \in Seq(S)
  <2>1. [type |-> "created", id |-> p.id] \in S
    BY <1>10, <1>12 DEF Messages
  <2> QED
    BY <2>1, <1>3
<1>14. ack \in Seq(S)
  <2>1. ack = <<>> \/ \E m \in {p.id} \cup { x.id : x \in Range(p.msgs) } : ack = <<[type |-> "ack", id |-> m]>>
    BY <1>2, <1>6 DEF Acks
  <2>2. \A m \in {p.id} \cup { x.id : x \in Range(p.msgs) } : m \in Nat
    BY <1>10, <1>11 DEF Sendings
  <2>3. ASSUME NEW m \in Nat PROVE [type |-> "ack", id |-> m] \in S
    BY <1>12 DEF Messages
  <2>4. ASSUME NEW m \in Nat PROVE <<[type |-> "ack", id |-> m]>> \in Seq(S)
    BY <2>3
  <2>5. <<>> \in Seq(S)
    OBVIOUS
  <2>6. CASE ack = <<>>
    BY <2>5, <2>6
  <2>7. ASSUME NEW m \in {p.id} \cup { x.id : x \in Range(p.msgs) }, ack = <<[type |-> "ack", id |-> m]>>
        PROVE  ack \in Seq(S)
    BY <2>2, <2>4, <2>7
  <2> QED
    BY <2>1, <2>6, <2>7
<1>15. infos \in Seq(S) /\ \A m \in p.info : Asks(infos, m)
  <2>1. CASE p.info = {}
    BY <2>1, <1>4
  <2>2. CASE p.info # {}
    <3>1. PICK x : x = Infos(p.info, p.info \cap DOMAIN server.done)
      OBVIOUS
    <3>2. infos = <<x>>
      BY <2>2, <3>1, <1>4
    <3>3. x.type = "infos" /\ x.ids = p.info
      BY <3>1 DEF Infos
    <3>4. x \in S
      BY <3>1, <1>10, <1>12 DEF Infos, Messages
    <3>5. infos \in Seq(S) /\ Len(infos) = 1 /\ infos[1] = x
      BY <3>2, <3>4
    <3>6. \A m \in p.info : AsksFor(x, m)
      BY <3>3 DEF AsksFor
    <3> QED
      BY <3>5, <3>6 DEF Asks
  <2> QED
    BY <2>1, <2>2
<1>16. PICK some : some = created \o ack
  OBVIOUS
<1>17. some \in Seq(S) /\ more = some \o infos /\ more \in Seq(S) /\ \A m \in p.info : Asks(more, m)
  <2>1. some \in Seq(S) /\ more = some \o infos
    BY <1>5, <1>13, <1>14, <1>16
  <2>2. more \in Seq(S)
    BY <2>1, <1>15
  <2>3. \A m \in p.info : Asks(more, m)
    BY <2>1, <1>15, AsksConcat
  <2> QED
    BY <2>1, <2>2, <2>3
<1>18. down' = down \o more
  <2>1. down \in Seq(S)
    BY <1>8, <1>12 DEF Wire
  <2>2. (down \o created) \o ack = down \o some
    BY <2>1, <1>13, <1>14, <1>16, ConcatAssociative
  <2>3. (down \o some) \o infos = down \o more
    BY <2>1, <1>15, <1>17, ConcatAssociative
  <2>4. ((down \o created) \o ack) \o infos = (down \o some) \o infos
    BY <2>2
  <2> QED
    BY <2>3, <2>4, <1>6
<1>19. IsServer(sw)
  <2>1. PICK done : done = FoldLeft(Run, server.done, p.msgs)
    OBVIOUS
  <2>2. sw = [server EXCEPT !.session = TRUE, !.received = @ \cup Range(p.msgs),
                            !.done = done, !.told = @ \ p.resend]
    BY <2>1, <1>2, <1>7 DEF Accept
  <2> QED
    BY <2>2, <1>8, <1>11 DEF IsServer, ServerFields
<1>20. Holds(b, Tail(up), down', events, sw)
  BY <1>2, <1>6, <1>8, <1>12, <1>17, <1>18, <1>19, Delivered
<1>21. cancelled \subseteq Queries /\ troubles \in 0..MaxTroubles
  BY DEF IInv
<1> QED
  BY <1>1, <1>6, <1>7, <1>20, <1>21 DEF IInv

LEMMA RejectInv ==
  ASSUME IInv, Reject
  PROVE  IInv'
<1>1. PICK b : b = c
  OBVIOUS
<1>2. PICK p : p = Head(up)
  OBVIOUS
<1>3. PICK x : x = [type |-> "failed", packet |-> p]
  OBVIOUS
<1>4. PICK more : more = <<x>>
  OBVIOUS
<1>5. PICK sw : sw = server'
  OBVIOUS
<1>6. /\ up # <<>> /\ up' = Tail(up) /\ down' = Append(down, x) /\ Trouble
      /\ sw = [server EXCEPT !.troubled = TRUE] /\ UNCHANGED <<c, cancelled, events>>
  BY <1>2, <1>3, <1>5 DEF Reject
<1>7. Holds(b, up, down, events, server) /\ Wire(up, down, events, b.next) /\ IsServer(server)
  BY <1>1 DEF IInv, Holds
<1>8. p \in Packets(b.next)
  BY <1>2, <1>6, <1>7 DEF Wire
<1>9. PICK S : S = Messages(b.next)
  OBVIOUS
<1>10. x \in S
  BY <1>3, <1>8, <1>9 DEF Messages
<1>11. more \in Seq(S) /\ Len(more) = 1 /\ more[1] = x
  BY <1>4, <1>10
<1>12. \A m \in p.info : Asks(more, m)
  <2>1. x.type = "failed" /\ x.packet = p
    BY <1>3
  <2>2. \A m \in p.info : AsksFor(x, m)
    BY <2>1 DEF AsksFor
  <2> QED
    BY <2>2, <1>11 DEF Asks
<1>13. down' = down \o more
  <2>1. down \in Seq(S)
    BY <1>7, <1>9 DEF Wire
  <2> QED
    BY <2>1, <1>4, <1>6, <1>10
<1>14. IsServer(sw)
  BY <1>6, <1>7 DEF IsServer, ServerFields
<1>15. Holds(b, Tail(up), down', events, sw)
  BY <1>2, <1>6, <1>7, <1>9, <1>11, <1>12, <1>13, <1>14, Delivered
<1>16. cancelled \subseteq Queries /\ troubles' \in 0..MaxTroubles
  BY <1>6, TroubleType DEF IInv
<1> QED
  BY <1>1, <1>5, <1>6, <1>15, <1>16 DEF IInv

LEMMA AnswerInv ==
  ASSUME IInv, NEW x \in server.received, Answer(x)
  PROVE  IInv'
<1>1. PICK b : b = c
  OBVIOUS
<1>2. Holds(b, up, down, events, server) /\ Wire(up, down, events, b.next) /\ IsServer(server)
  BY <1>1 DEF IInv, Holds
<1>3. x.id \in Nat
  BY <1>2 DEF IsServer, Sendings
<1>4. PICK S : S = Messages(b.next)
  OBVIOUS
<1>5. Result(x.id) \in S /\ Info(x.id, TRUE, TRUE) \in S
  BY <1>3, <1>4 DEF Messages, Result, Info
<1>6. PICK y \in S : down' = Append(down, y)
  BY <1>5 DEF Answer
<1>7. PICK more : more = <<y>>
  OBVIOUS
<1>8. more \in Seq(S)
  BY <1>6, <1>7
<1>9. down' = down \o more
  <2>1. down \in Seq(S)
    BY <1>2, <1>4 DEF Wire
  <2> QED
    BY <2>1, <1>6, <1>7
<1>10. PICK sw : sw = server'
  OBVIOUS
<1>11. IsServer(sw)
  <2>1. sw = [server EXCEPT !.told = @ \cup {x.id}]
    BY <1>10 DEF Answer
  <2> QED
    BY <2>1, <1>2 DEF IsServer, ServerFields
<1>12. Holds(b, up, down', events, sw)
  BY <1>2, <1>4, <1>8, <1>9, <1>11, Told
<1>13. UNCHANGED <<c, cancelled, events, up>>
  BY DEF Answer
<1>14. cancelled \subseteq Queries /\ troubles' \in 0..MaxTroubles
  BY TroubleType DEF IInv, Answer
<1> QED
  BY <1>1, <1>10, <1>12, <1>13, <1>14 DEF IInv

LEMMA LoseSessionInv ==
  ASSUME IInv, LoseSession
  PROVE  IInv'
<1>1. PICK b : b = c
  OBVIOUS
<1>2. Holds(b, up, down, events, server)
  BY <1>1 DEF IInv
<1>3. PICK sw : sw = server'
  OBVIOUS
<1>4. sw = [InitServer EXCEPT !.troubled = TRUE]
  BY <1>3 DEF LoseSession
<1>5. IsServer(sw)
  BY <1>4 DEF InitServer, IsServer, ServerFields
<1>6. Holds(b, up, down, events, sw)
  BY <1>2, <1>5 DEF Holds
<1>7. UNCHANGED <<c, cancelled, events, up, down>> /\ Trouble
  BY DEF LoseSession
<1>8. cancelled \subseteq Queries /\ troubles' \in 0..MaxTroubles
  BY <1>7, TroubleType DEF IInv
<1> QED
  BY <1>1, <1>3, <1>6, <1>7, <1>8 DEF IInv
-----------------------------------------------------------------------------
LEMMA NextInv == IInv /\ [Next]_vars => IInv'
<1> SUFFICES ASSUME IInv, [Next]_vars PROVE IInv'
  OBVIOUS
<1>1. ASSUME NEW q \in Queries, Send(q) PROVE IInv'
  BY <1>1, SendInv
<1>2. ASSUME NEW q \in Queries, Cancel(q) PROVE IInv'
  BY <1>2, CancelInv
<1>3. ASSUME NEW m \in events, RawEvent(m) PROVE IInv'
  BY <1>3, RawEventInv
<1>4. CASE ConnectionOpenFinish
  BY <1>4, ConnectionOpenFinishInv
<1>5. CASE Flush
  BY <1>5, FlushInv
<1>6. CASE Ping
  BY <1>6, PingInv
<1>7. ASSUME NEW n \in 1..Len(down), Receive(n) PROVE IInv'
  BY <1>7, ReceiveInv
<1>8. ASSUME NEW code \in {0, 500}, Disconnect(code) PROVE IInv'
  BY <1>8, DisconnectInv
<1>9. CASE Timeouts
  BY <1>9, OnPongInv DEF Timeouts
<1>10. CASE Close
  BY <1>10, CloseInv
<1>11. ASSUME NEW ack \in Acks, Accept(ack) PROVE IInv'
  BY <1>11, AcceptInv
<1>12. CASE Reject
  BY <1>12, RejectInv
<1>13. ASSUME NEW x \in server.received, Answer(x) PROVE IInv'
  BY <1>13, AnswerInv
<1>14. CASE LoseSession
  BY <1>14, LoseSessionInv
<1>15. CASE UNCHANGED vars
  BY <1>15 DEF vars, IInv
<1> QED
  BY <1>1, <1>2, <1>3, <1>4, <1>5, <1>6, <1>7, <1>8, <1>9, <1>10, <1>11, <1>12, <1>13, <1>14, <1>15
     DEF Next

THEOREM Inductive == Spec => []IInv
<1>1. Init => IInv
  BY InitInv
<1>2. IInv /\ [Next]_vars => IInv'
  BY NextInv
<1> QED
  BY <1>1, <1>2, PTL DEF Spec

(* The session's members and what is under way have their types; in        *)
(* particular unknown_queries_ holds only ids of queries that are in       *)
(* sent_queries_ without an acknowledgement, whatever order connections    *)
(* close, answers arrive and queries are cancelled in.                     *)
THEOREM TypeCorrect == Spec => []TypeOK
<1>1. IInv => TypeOK
  <2> SUFFICES ASSUME IInv PROVE TypeOK
    OBVIOUS
  <2>1. PICK d : d = c
    OBVIOUS
  <2>2. /\ Typed(d) /\ Contained(d, {}, {}) /\ UnknownIsSent(d, {}) /\ StateOK(d)
        /\ Wire(up, down, events, d.next)
    BY <2>1 DEF IInv, Holds, Sound, Nearly
  <2>3. PICK S : S = 1 .. d.next - 1
    OBVIOUS
  <2>4. /\ d.pending \in Seq(Queries) /\ d.parked \in Seq(Queries) /\ DOMAIN d.sent \subseteq S
        /\ d.to_get_state_info \subseteq S /\ d.to_resend_answer \subseteq S
        /\ d.next \in Nat \ {0} /\ d.given \subseteq Queries /\ d.renewed \subseteq d.given
    BY <2>2, <2>3 DEF Typed
  <2>5. \A m \in DOMAIN d.sent : d.sent[m] \in [query : Queries, container_id : S, ack : BOOLEAN]
    BY <2>2, <2>3 DEF Typed, Entries
  <2>6. \A id \in DOMAIN d.containers :
          d.containers[id].ref_cnt \in Nat \ {0} /\ d.containers[id].message_ids \subseteq S
    BY <2>2, <2>3 DEF Contained, Contents
  <2>7. d.unknown \subseteq { m \in DOMAIN d.sent : ~d.sent[m].ack }
    BY <2>2 DEF UnknownIsSent
  <2>8. d.state \in {"empty", "connecting", "ready"} /\ d.closed = (d.state = "empty")
    <3>1. d.state \in {"empty", "connecting", "ready"}
      BY <2>2 DEF StateOK
    <3>2. d.closed \in BOOLEAN /\ (d.closed <=> d.state = "empty")
      BY <2>2 DEF StateOK
    <3>3. PICK e \in BOOLEAN : e = (d.state = "empty")
      OBVIOUS
    <3>4. d.closed = e
      BY <3>2, <3>3
    <3> QED
      BY <3>1, <3>3, <3>4
  <2>9. events \subseteq S
    BY <2>2, <2>3 DEF Wire
  <2>10. cancelled \subseteq Queries /\ troubles \in 0..MaxTroubles
    BY DEF IInv
  <2> QED
    BY <2>1, <2>3, <2>4, <2>5, <2>6, <2>7, <2>8, <2>9, <2>10 DEF TypeOK, Ids
<1> QED
  BY <1>1, Inductive, PTL

(* Every query given to send() is in one place and returned at most once,  *)
(* and ref_cnt of a container is the number of its messages in             *)
(* sent_queries_: no path of Session.cpp that takes a query out of         *)
(* sent_queries_ loses or doubles it, and the CHECK of dec_container       *)
(* holds.                                                                  *)
THEOREM InOnePlace == Spec => []OnePlace
<1>1. IInv => OnePlace
  <2> SUFFICES ASSUME IInv PROVE OnePlace
    OBVIOUS
  <2>1. PICK d : d = c
    OBVIOUS
  <2>2. Sound(d, {}, {}, {}) /\ Typed(d) /\ Contained(d, {}, {})
    BY <2>1 DEF IInv, Holds, Sound, Nearly
  <2>3. ASSUME NEW q \in d.given
        PROVE  Cardinality(WaitsIn(d.pending, q)) + Cardinality(WaitsIn(d.parked, q))
                 + Cardinality(SentAs(d, q)) + d.returned[q] = 1
    <3>1. q \in Queries
      BY <2>2 DEF Typed
    <3>2. Cardinality(WaitsIn(d.pending, q)) + Cardinality(WaitsIn(d.parked, q))
            + Cardinality(SentAs(d, q)) + d.returned[q] = IF q \in d.given THEN 1 ELSE 0
      BY <2>2, <3>1, CountedOnce
    <3> QED
      BY <2>3, <3>2
  <2>4. ASSUME NEW id \in DOMAIN d.containers
        PROVE  d.containers[id].ref_cnt = Cardinality({ m \in DOMAIN d.sent : d.sent[m].container_id = id })
    <3>1. d.containers[id].ref_cnt = Cardinality(Inside(d.sent, id, {}))
      BY <2>2 DEF Contained, Contents
    <3>2. Inside(d.sent, id, {}) = { m \in DOMAIN d.sent : d.sent[m].container_id = id }
      BY DEF Inside
    <3> QED
      BY <3>1, <3>2
  <2> QED
    BY <2>1, <2>3, <2>4 DEF OnePlace
<1> QED
  BY <1>1, Inductive, PTL

(* The state of each of unknown_queries_ has been asked for on the present *)
(* connection (to_get_state_info_, a packet that holds it, its rejection   *)
(* or its answer), and pending_invoke_after_queries_ is not empty only     *)
(* while unknown_queries_ is not.                                          *)
THEOREM UnknownAreAsked == Spec => []UnknownIsAsked
<1>1. IInv => UnknownIsAsked
  <2> SUFFICES ASSUME IInv PROVE UnknownIsAsked
    OBVIOUS
  <2>1. PICK d : d = c
    OBVIOUS
  <2>2. ParkedWait(d) /\ Wire(up, down, events, d.next) /\ AskedFor(d, up, down)
    BY <2>1 DEF IInv, Holds, Sound, Nearly
  <2>3. DOMAIN up = 1..Len(up) /\ DOMAIN down = 1..Len(down)
    BY <2>2 DEF Wire
  <2>4. /\ \A i \in 1..Len(up) : up[i] \in Range(up)
        /\ \A i \in 1..Len(down) : down[i] \in Range(down)
    BY <2>3 DEF Range
  <2>5. ASSUME d.state = "ready", NEW m \in d.unknown
        PROVE  \/ m \in d.to_get_state_info
               \/ \E p \in Range(up) : m \in p.info
               \/ \E x \in Range(down) : AsksFor(x, m)
    BY <2>2, <2>4, <2>5 DEF AskedFor
  <2> QED
    BY <2>1, <2>2, <2>5 DEF UnknownIsAsked, ParkedWait, AsksFor
<1> QED
  BY <1>1, Inductive, PTL
=============================================================================
