------------------------ MODULE BinlogKeyValue_proofs ------------------------
(***************************************************************************)
(* Proofs about BinlogKeyValue: for any number of threads, keys, values    *)
(* and restarts, whatever the order in which the threads hand their events *)
(* over, restarting from a prefix of the log gives a snapshot of the map   *)
(* and no event in the log is rejected.                                    *)
(*                                                                         *)
(* The argument is about the log as it will be once every event that has a *)
(* number is in it, the full log: the events in the log, followed by the   *)
(* ones with a thread or with the sequencer in the order of their numbers. *)
(* Every change of the map appends to the full log, handing an event over  *)
(* leaves it alone, and a restart cuts it.                                 *)
(***************************************************************************)
EXTENDS BinlogKeyValue, FiniteSetTheorems, WellFoundedInduction, TLAPS

(* A non-empty set of natural numbers has a least element. *)
LEMMA LeastNat ==
  ASSUME NEW T \in SUBSET Nat, T # {}
  PROVE  \E x \in T : \A y \in T : x <= y
<1>1. IsWellFoundedOn({ss \in Nat \X Nat : ss[1] < ss[2]}, Nat)
  BY NatLessThanWellFounded, Zenon DEF OpToRel
<1>2. PICK R : /\ IsWellFoundedOn(R, Nat)
               /\ \A x, y \in Nat : y < x => <<y, x>> \in R
  <2>1. \A x, y \in Nat : y < x => <<y, x>> \in {ss \in Nat \X Nat : ss[1] < ss[2]}
    OBVIOUS
  <2> QED
    BY <1>1, <2>1, Zenon
<1>3. PICK x \in T : \A y \in T : ~(<<y, x>> \in R)
  BY <1>2, WFMin
<1>4. ASSUME NEW y \in T
      PROVE  x <= y
  <2>1. ~(y < x)
    BY <1>2, <1>3, Zenon
  <2> QED
    BY <2>1
<1> QED
  BY <1>4

(* A non-empty set of natural numbers with an upper bound has a greatest   *)
(* element.                                                                *)
LEMMA GreatestNat ==
  ASSUME NEW T \in SUBSET Nat, T # {}, NEW n \in Nat, \A x \in T : x <= n
  PROVE  \E x \in T : \A y \in T : y <= x
<1> DEFINE U == { m \in Nat : \E x \in T : m = n - x }
<1>1. \A x \in T : n - x \in U
  OBVIOUS
<1>2. U \in SUBSET Nat /\ U # {}
  BY <1>1
<1>3. PICK m \in U : \A k \in U : m <= k
  BY <1>2, LeastNat
<1>4. PICK x \in T : m = n - x
  OBVIOUS
<1>5. \A y \in T : y <= x
  BY <1>1, <1>3, <1>4
<1> QED
  BY <1>5
-----------------------------------------------------------------------------
(* The first n events of a log. *)
Prefix(F, n) == SubSeq(F, 1, n)

(* No two live events are about one key. *)
Settled(G) == \A e, f \in Live(G) : e.key = f.key => e = f

(* The events processor takes e after the events of G. *)
Accepted(G, e) ==
  IF e.rewrite
    THEN \E x \in Live(G) : x.id = e.id
    ELSE \A i \in 1..Len(G) : G[i].id < e.id

(* The id of F[n] was given out by an addition. *)
Rooted(F, n) == \E i \in 1..n : ~F[i].rewrite /\ F[i].id = F[n].id

(* Every prefix of F replays to the map its last event recorded. *)
GoodLog(F) ==
  /\ F \in Seq(Event)
  /\ \A n \in 0..Len(F) : Settled(Prefix(F, n))
  /\ \A n \in 1..Len(F) : F[n].view = Values(Replayed(Prefix(F, n)))
  /\ \A n \in 1..Len(F) : Accepted(Prefix(F, n - 1), F[n])
  /\ \A n \in 1..Len(F) : Rooted(F, n)

(* The numbered events that are not in the log yet. *)
OutstandingOf(a, p) == a \cup UNION { Range(p[t]) : t \in Threads }

Outstanding == OutstandingOf(arrived, pending)

(* F is the log followed by the outstanding events in order. *)
IsFullLog(F) ==
  /\ Len(F) = Len(log) + (last_id - next)
  /\ \A j \in 1..Len(log) : F[j] = log[j]
  /\ \A j \in 1 .. last_id - next :
       /\ F[Len(log) + j] \in Outstanding
       /\ F[Len(log) + j].seq_no = next + j - 1

(* Every outstanding event is in one place and has a number of its own,    *)
(* and the sequencer does not hold the one it waits for.                   *)
OneEach ==
  /\ \A e \in Outstanding : e.seq_no \in next .. last_id - 1
  /\ \A e \in arrived : e.seq_no # next
  /\ \A e, f \in arrived : e.seq_no = f.seq_no => e = f
  /\ \A t \in Threads : \A i \in 1..Len(pending[t]) :
       /\ \A e \in arrived : e.seq_no # pending[t][i].seq_no
       /\ \A u \in Threads : \A j \in 1..Len(pending[u]) :
            pending[t][i].seq_no = pending[u][j].seq_no => t = u /\ i = j

Types ==
  /\ last_id \in Nat \ {0} /\ last_id <= MaxSeqNo + 1
  /\ next \in 1..last_id
  /\ pending \in [Threads -> Seq(Event)]
  /\ arrived \subseteq Event
  /\ log \in Seq(Event)

IInv ==
  /\ Types
  /\ OneEach
  /\ \E F \in Seq(Event) :
       /\ GoodLog(F)
       /\ Replayed(F) = map
       /\ \A n \in 1..Len(F) : F[n].id \in 1 .. last_id - 1
       /\ IsFullLog(F)
-----------------------------------------------------------------------------
(* Prefixes. *)
LEMMA AppendType ==
  ASSUME NEW S, NEW F \in Seq(S), NEW e \in S
  PROVE  /\ Append(F, e) \in Seq(S)
         /\ Len(Append(F, e)) = Len(F) + 1
         /\ \A i \in 1..Len(F) : Append(F, e)[i] = F[i]
         /\ Append(F, e)[Len(F) + 1] = e
OBVIOUS

LEMMA PrefixType ==
  ASSUME NEW S, NEW F \in Seq(S), NEW n \in 0..Len(F)
  PROVE  /\ Prefix(F, n) \in Seq(S)
         /\ Len(Prefix(F, n)) = n
         /\ \A i \in 1..n : Prefix(F, n)[i] = F[i]
BY DEF Prefix

LEMMA PrefixAll ==
  ASSUME NEW S, NEW F \in Seq(S)
  PROVE  Prefix(F, Len(F)) = F
BY DEF Prefix

LEMMA PrefixPrefix ==
  ASSUME NEW S, NEW F \in Seq(S), NEW n \in 0..Len(F), NEW m \in 0..n
  PROVE  Prefix(Prefix(F, n), m) = Prefix(F, m)
BY DEF Prefix

LEMMA PrefixAppend ==
  ASSUME NEW S, NEW F \in Seq(S), NEW e \in S, NEW n \in 0..Len(F)
  PROVE  Prefix(Append(F, e), n) = Prefix(F, n)
BY DEF Prefix

(* A sequence that agrees with F up to its end is a prefix of F. *)
LEMMA PrefixIs ==
  ASSUME NEW S, NEW F \in Seq(S), NEW G \in Seq(S), Len(G) <= Len(F),
         \A i \in 1..Len(G) : G[i] = F[i]
  PROVE  G = Prefix(F, Len(G))
BY DEF Prefix

(* What appending an event does to the live ones: it takes the place of    *)
(* the one with its id.                                                    *)
LEMMA LiveAppend ==
  ASSUME NEW F \in Seq(Event), NEW e \in Event
  PROVE  /\ \A x \in Live(F) : x.id # e.id => x \in Live(Append(F, e))
         /\ e.val # Erased => e \in Live(Append(F, e))
         /\ \A x \in Live(Append(F, e)) : \/ x = e /\ e.val # Erased
                                          \/ x \in Live(F) /\ x.id # e.id
<1>a. Append(F, e) \in Seq(Event)
  BY AppendType
<1> PICK G \in Seq(Event) : G = Append(F, e)
  BY <1>a
<1>1. /\ Len(G) = Len(F) + 1
      /\ \A i \in 1..Len(F) : G[i] = F[i]
      /\ G[Len(G)] = e
  OBVIOUS
<1>2. ASSUME NEW x \in Live(F), x.id # e.id
      PROVE  x \in Live(G)
  <2>1. PICK i \in 1..Len(F) : F[i] = x /\ \A j \in i + 1 .. Len(F) : F[j].id # x.id
    BY DEF Live
  <2>2. i \in 1..Len(G) /\ G[i] = x
    BY <1>1, <2>1
  <2>3. \A j \in i + 1 .. Len(G) : G[j].id # x.id
    BY <1>1, <1>2, <2>1
  <2>4. x \in Range(G)
    BY <2>2 DEF Range
  <2>5. x.val # Erased
    BY DEF Live
  <2> QED
    BY <2>2, <2>3, <2>4, <2>5 DEF Live
<1>3. ASSUME e.val # Erased
      PROVE  e \in Live(G)
  <2>1. Len(G) \in 1..Len(G) /\ e \in Range(G)
    BY <1>1 DEF Range
  <2>2. \A j \in Len(G) + 1 .. Len(G) : G[j].id # e.id
    BY <1>1
  <2> QED
    BY <1>1, <1>3, <2>1, <2>2 DEF Live
<1>4. ASSUME NEW x \in Live(G), x # e \/ e.val = Erased
      PROVE  x \in Live(F) /\ x.id # e.id
  <2>1. PICK i \in 1..Len(G) : G[i] = x /\ \A j \in i + 1 .. Len(G) : G[j].id # x.id
    BY DEF Live
  <2>2. x.val # Erased
    BY DEF Live
  <2>3. i # Len(G)
    BY <1>1, <1>4, <2>1, <2>2
  <2>4. i \in 1..Len(F) /\ F[i] = x
    BY <1>1, <2>1, <2>3
  <2>5. x.id # e.id
    BY <1>1, <2>1, <2>3
  <2>6. \A j \in i + 1 .. Len(F) : F[j].id # x.id
    BY <1>1, <2>1
  <2>7. x \in Range(F)
    BY <2>4 DEF Range
  <2> QED
    BY <2>2, <2>4, <2>5, <2>6, <2>7 DEF Live
<1>5. \A x \in Live(G) : \/ x = e /\ e.val # Erased
                         \/ x \in Live(F) /\ x.id # e.id
  BY <1>4
<1> QED
  BY <1>2, <1>3, <1>5

(* Two live events have different ids, and are events of the log. *)
LEMMA LiveIds ==
  ASSUME NEW F \in Seq(Event)
  PROVE  /\ \A e, f \in Live(F) : e.id = f.id => e = f
         /\ \A e \in Live(F) : e \in Event /\ e.val \in Vals /\ \E i \in 1..Len(F) : F[i] = e
<1>1. ASSUME NEW e \in Live(F)
      PROVE  e \in Event /\ e.val \in Vals /\ \E i \in 1..Len(F) : F[i] = e
  <2>1. PICK i \in 1..Len(F) : F[i] = e
    BY DEF Live
  <2>2. e \in Event
    BY <2>1
  <2>3. e.val # Erased
    BY DEF Live
  <2> QED
    BY <2>1, <2>2, <2>3 DEF Event
<1>2. ASSUME NEW e \in Live(F), NEW f \in Live(F), e.id = f.id
      PROVE  e = f
  <2>1. PICK i \in 1..Len(F) : F[i] = e /\ \A j \in i + 1 .. Len(F) : F[j].id # e.id
    BY DEF Live
  <2>2. PICK k \in 1..Len(F) : F[k] = f /\ \A j \in k + 1 .. Len(F) : F[j].id # f.id
    BY DEF Live
  <2> QED
    BY <1>2, <2>1, <2>2
<1> QED
  BY <1>1, <1>2

(* What a settled log replays to: the key of every live event, and nothing *)
(* else.                                                                   *)
LEMMA ReplayedIs ==
  ASSUME NEW F \in Seq(Event), Settled(F)
  PROVE  /\ DOMAIN Replayed(F) = { e.key : e \in Live(F) }
         /\ \A e \in Live(F) : Replayed(F)[e.key] = [val |-> e.val, id |-> e.id]
<1>1. DOMAIN Replayed(F) = { e.key : e \in Live(F) }
  BY DEF Replayed
<1>2. ASSUME NEW e \in Live(F)
      PROVE  Replayed(F)[e.key] = [val |-> e.val, id |-> e.id]
  <2> DEFINE P(x) == x.key = e.key /\ \A y \in Live(F) : y.key = e.key => x.id <= y.id
  <2>1. e.id \in Nat
    BY LiveIds DEF Event
  <2>2. P(e)
    BY <2>1 DEF Settled
  <2>3. PICK c : c = CHOOSE x \in Live(F) : P(x)
    OBVIOUS
  <2>4. c \in Live(F) /\ P(c)
    BY <2>2, <2>3, Zenon
  <2>5. c = e
    BY <2>4 DEF Settled
  <2>6. e.key \in { x.key : x \in Live(F) }
    OBVIOUS
  <2>7. Replayed(F)[e.key] = [val |-> c.val, id |-> c.id]
    BY <2>3, <2>6, Zenon DEF Replayed
  <2> QED
    BY <2>5, <2>7
<1> QED
  BY <1>1, <1>2

(* A map that has exactly the live events is the one that is replayed. *)
LEMMA ReplayedEquals ==
  ASSUME NEW F \in Seq(Event), Settled(F), NEW m,
         m = [k \in DOMAIN m |-> m[k]],
         DOMAIN m = { e.key : e \in Live(F) },
         \A e \in Live(F) : m[e.key] = [val |-> e.val, id |-> e.id]
  PROVE  Replayed(F) = m
<1>1. DOMAIN Replayed(F) = DOMAIN m
  BY ReplayedIs
<1>2. ASSUME NEW k \in DOMAIN m
      PROVE  Replayed(F)[k] = m[k]
  <2>1. PICK e \in Live(F) : k = e.key
    OBVIOUS
  <2>2. Replayed(F)[e.key] = [val |-> e.val, id |-> e.id]
    BY ReplayedIs
  <2> QED
    BY <2>1, <2>2
<1>3. Replayed(F) = [k \in DOMAIN Replayed(F) |-> Replayed(F)[k]]
  BY DEF Replayed
<1> QED
  BY <1>1, <1>2, <1>3

(* An event that is accepted after F, and records the map that F and it    *)
(* replay to, makes F longer.                                              *)
LEMMA GoodAppend ==
  ASSUME NEW F, GoodLog(F), NEW e \in Event,
         Settled(Append(F, e)),
         e.view = Values(Replayed(Append(F, e))),
         Accepted(F, e),
         \/ ~e.rewrite
         \/ \E i \in 1..Len(F) : F[i].id = e.id
  PROVE  GoodLog(Append(F, e))
<1>1. F \in Seq(Event)
  BY DEF GoodLog
<1>2. PICK G \in Seq(Event) : G = Append(F, e)
  BY <1>1, AppendType
<1>3. /\ Len(G) = Len(F) + 1
      /\ Len(F) \in Nat
      /\ \A i \in 1..Len(F) : G[i] = F[i]
      /\ G[Len(F) + 1] = e
  BY <1>1, <1>2
<1>4. \A n \in 0..Len(F) : Prefix(G, n) = Prefix(F, n)
  BY <1>1, <1>2, PrefixAppend
<1>5. Prefix(G, Len(F) + 1) = G /\ Prefix(G, Len(F)) = F
  BY <1>1, <1>3, <1>4, PrefixAll
<1>6. \A n \in 0..Len(G) : n \in 0..Len(F) \/ n = Len(F) + 1
  BY <1>3
<1>7. \A n \in 1..Len(G) : n \in 1..Len(F) \/ n = Len(F) + 1
  BY <1>3
<1>8. \A n \in 0..Len(G) : Settled(Prefix(G, n))
  BY <1>2, <1>4, <1>5, <1>6 DEF GoodLog
<1>9. ASSUME NEW n \in 1..Len(G)
      PROVE  G[n].view = Values(Replayed(Prefix(G, n))) /\ Accepted(Prefix(G, n - 1), G[n])
  <2>1. CASE n = Len(F) + 1
    <3>1. n - 1 = Len(F)
      BY <1>3, <2>1
    <3>2. G[n] = e /\ Prefix(G, n) = G /\ Prefix(G, n - 1) = F
      BY <1>3, <1>5, <2>1, <3>1
    <3> QED
      BY <1>2, <3>2
  <2>2. CASE n \in 1..Len(F)
    <3>1. n \in 0..Len(F) /\ n - 1 \in 0..Len(F)
      BY <1>3, <2>2
    <3>2. Prefix(G, n) = Prefix(F, n) /\ Prefix(G, n - 1) = Prefix(F, n - 1) /\ G[n] = F[n]
      BY <1>3, <1>4, <2>2, <3>1
    <3> QED
      BY <2>2, <3>2 DEF GoodLog
  <2> QED
    BY <1>7, <2>1, <2>2
<1>10. ASSUME NEW n \in 1..Len(G)
       PROVE  Rooted(G, n)
  <2>1. ASSUME NEW m \in 1..Len(F)
        PROVE  \E i \in 1..m : ~G[i].rewrite /\ G[i].id = G[m].id
    <3>1. PICK i \in 1..m : ~F[i].rewrite /\ F[i].id = F[m].id
      BY DEF GoodLog, Rooted
    <3>2. i \in 1..Len(F)
      BY <1>3
    <3> QED
      BY <1>3, <3>1, <3>2
  <2>2. CASE n = Len(F) + 1
    <3>1. CASE ~e.rewrite
      BY <1>3, <2>2, <3>1 DEF Rooted
    <3>2. CASE \E i \in 1..Len(F) : F[i].id = e.id
      <4>1. PICK m \in 1..Len(F) : F[m].id = e.id
        BY <3>2
      <4>2. PICK i \in 1..m : ~G[i].rewrite /\ G[i].id = G[m].id
        BY <2>1
      <4>3. i \in 1..n
        BY <1>3, <2>2
      <4>4. G[i].id = G[n].id
        BY <1>3, <2>2, <4>1, <4>2
      <4> QED
        BY <4>2, <4>3, <4>4 DEF Rooted
    <3> QED
      BY <3>1, <3>2
  <2>3. CASE n \in 1..Len(F)
    BY <2>1, <2>3 DEF Rooted
  <2> QED
    BY <1>7, <2>2, <2>3
<1>11. GoodLog(G)
  BY <1>8, <1>9, <1>10 DEF GoodLog
<1> QED
  BY <1>2, <1>11

(* A prefix of a good log is good. *)
LEMMA GoodPrefix ==
  ASSUME NEW F, GoodLog(F), NEW n \in 0..Len(F)
  PROVE  GoodLog(Prefix(F, n))
<1>1. F \in Seq(Event) /\ Len(F) \in Nat
  BY DEF GoodLog
<1>2. PICK G \in Seq(Event) : G = Prefix(F, n)
  BY <1>1, PrefixType
<1>3. Len(G) = n /\ \A i \in 1..n : G[i] = F[i]
  BY <1>1, <1>2, PrefixType
<1>4. \A m \in 0..n : Prefix(G, m) = Prefix(F, m) /\ m \in 0..Len(F)
  BY <1>1, <1>2, PrefixPrefix
<1>5. \A m \in 0..Len(G) : Settled(Prefix(G, m))
  BY <1>3, <1>4 DEF GoodLog
<1>6. ASSUME NEW m \in 1..Len(G)
      PROVE  /\ G[m].view = Values(Replayed(Prefix(G, m)))
             /\ Accepted(Prefix(G, m - 1), G[m])
             /\ Rooted(G, m)
  <2>1. m \in 1..Len(F) /\ m \in 1..n /\ m \in 0..n /\ m - 1 \in 0..n
    BY <1>1, <1>3
  <2>2. Prefix(G, m) = Prefix(F, m) /\ Prefix(G, m - 1) = Prefix(F, m - 1) /\ G[m] = F[m]
    BY <1>3, <1>4, <2>1
  <2>3. PICK i \in 1..m : ~F[i].rewrite /\ F[i].id = F[m].id
    BY <2>1 DEF GoodLog, Rooted
  <2>4. G[i] = F[i]
    BY <1>1, <1>3, <2>1
  <2>5. Rooted(G, m)
    BY <2>2, <2>3, <2>4 DEF Rooted
  <2> QED
    BY <2>1, <2>2, <2>5 DEF GoodLog
<1>7. GoodLog(G)
  BY <1>5, <1>6 DEF GoodLog
<1> QED
  BY <1>2, <1>7

(* A good log is settled. *)
LEMMA GoodSettled ==
  ASSUME NEW F, GoodLog(F)
  PROVE  F \in Seq(Event) /\ Settled(F)
<1>1. F \in Seq(Event) /\ Len(F) \in Nat
  BY DEF GoodLog
<1>2. Prefix(F, Len(F)) = F /\ Len(F) \in 0..Len(F)
  BY <1>1, PrefixAll
<1> QED
  BY <1>1, <1>2 DEF GoodLog

(* The event of set: it adds its key, or rewrites the event that holds it. *)
LEMMA SetStep ==
  ASSUME NEW F, GoodLog(F), NEW e \in Event, e.val # Erased, NEW m, m = Replayed(F),
         \/ /\ e.key \notin DOMAIN m
            /\ ~e.rewrite
            /\ \A i \in 1..Len(F) : F[i].id < e.id
         \/ /\ e.key \in DOMAIN m
            /\ e.rewrite
            /\ e.id = m[e.key].id,
         e.view = Values(With(m, e.key, [val |-> e.val, id |-> e.id]))
  PROVE  /\ GoodLog(Append(F, e))
         /\ Replayed(Append(F, e)) = With(m, e.key, [val |-> e.val, id |-> e.id])
<1>1. F \in Seq(Event) /\ Settled(F)
  BY GoodSettled
<1>2. PICK G \in Seq(Event) : G = Append(F, e)
  BY <1>1, AppendType
<1>3. /\ \A x \in Live(F) : x.id # e.id => x \in Live(G)
      /\ e \in Live(G)
      /\ \A x \in Live(G) : x = e \/ (x \in Live(F) /\ x.id # e.id)
  BY <1>1, <1>2, LiveAppend
<1>4. /\ DOMAIN m = { x.key : x \in Live(F) }
      /\ \A x \in Live(F) : m[x.key] = [val |-> x.val, id |-> x.id]
  BY <1>1, ReplayedIs
<1>5. /\ \A x, y \in Live(F) : x.id = y.id => x = y
      /\ \A x \in Live(F) : \E i \in 1..Len(F) : F[i] = x
  BY <1>1, LiveIds
<1>6. ASSUME NEW x \in Live(F)
      PROVE  x.key = e.key <=> x.id = e.id
  <2>1. CASE e.key \notin DOMAIN m /\ \A i \in 1..Len(F) : F[i].id < e.id
    <3>1. x.key # e.key
      BY <1>4, <2>1
    <3>2. PICK i \in 1..Len(F) : F[i] = x
      BY <1>5
    <3>3. F[i].id < e.id
      BY <2>1
    <3>4. F[i] \in Event
      BY <1>1
    <3>5. F[i].id \in Nat /\ e.id \in Nat
      BY <3>4 DEF Event
    <3> QED
      BY <3>1, <3>2, <3>3, <3>5
  <2>2. CASE e.key \in DOMAIN m /\ e.id = m[e.key].id
    <3>1. PICK y \in Live(F) : y.key = e.key
      BY <1>4, <2>2
    <3>a. m[y.key] = [val |-> y.val, id |-> y.id]
      BY <1>4
    <3>2. m[y.key].id = y.id
      BY <3>a
    <3>3. y.id = e.id
      BY <2>2, <3>1, <3>2
    <3> QED
      BY <1>1, <1>5, <3>1, <3>3 DEF Settled
  <2> QED
    BY <2>1, <2>2
<1>7. Settled(G)
  <2> SUFFICES ASSUME NEW x \in Live(G), NEW y \in Live(G), x.key = y.key
               PROVE  x = y
    BY DEF Settled
  <2> QED
    BY <1>1, <1>3, <1>6 DEF Settled
<1>8. PICK w : w = With(m, e.key, [val |-> e.val, id |-> e.id])
  OBVIOUS
<1>9. /\ DOMAIN w = DOMAIN m \cup {e.key}
      /\ w[e.key] = [val |-> e.val, id |-> e.id]
      /\ \A k \in DOMAIN m : k # e.key => w[k] = m[k]
      /\ w = [k \in DOMAIN w |-> w[k]]
  BY <1>8 DEF With
<1>10. DOMAIN w = { x.key : x \in Live(G) }
  <2>1. ASSUME NEW k \in DOMAIN w
        PROVE  \E x \in Live(G) : k = x.key
    BY <1>3, <1>4, <1>6, <1>9
  <2>2. ASSUME NEW x \in Live(G)
        PROVE  x.key \in DOMAIN w
    BY <1>3, <1>4, <1>9
  <2> QED
    BY <2>1, <2>2
<1>11. ASSUME NEW x \in Live(G)
       PROVE  w[x.key] = [val |-> x.val, id |-> x.id]
  <2>1. CASE x = e
    BY <1>9, <2>1
  <2>2. CASE x \in Live(F) /\ x.id # e.id
    BY <1>4, <1>6, <1>9, <2>2
  <2> QED
    BY <1>3, <2>1, <2>2
<1>12. Replayed(G) = w
  BY <1>7, <1>9, <1>10, <1>11, ReplayedEquals
<1>13. Accepted(F, e)
  <2>1. CASE ~e.rewrite
    BY <2>1 DEF Accepted
  <2>2. CASE e.rewrite
    <3>1. PICK y \in Live(F) : y.key = e.key
      BY <1>4, <2>2
    <3>2. y.id = e.id
      BY <1>6, <3>1
    <3> QED
      BY <2>2, <3>2 DEF Accepted
  <2> QED
    BY <2>1, <2>2
<1>14. ~e.rewrite \/ \E i \in 1..Len(F) : F[i].id = e.id
  <2>1. CASE e.rewrite
    <3>1. PICK y \in Live(F) : y.id = e.id
      BY <1>13, <2>1 DEF Accepted
    <3> QED
      BY <1>5, <3>1
  <2> QED
    BY <2>1
<1>15. GoodLog(G)
  BY <1>2, <1>7, <1>8, <1>12, <1>13, <1>14, GoodAppend
<1> QED
  BY <1>2, <1>8, <1>12, <1>15

(* The event of erase: it ends the event that holds its key. *)
LEMMA EraseStep ==
  ASSUME NEW F, GoodLog(F), NEW e \in Event, e.val = Erased, e.rewrite,
         NEW m, m = Replayed(F), e.key \in DOMAIN m, e.id = m[e.key].id,
         e.view = Values(Without(m, e.key))
  PROVE  /\ GoodLog(Append(F, e))
         /\ Replayed(Append(F, e)) = Without(m, e.key)
<1>1. F \in Seq(Event) /\ Settled(F)
  BY GoodSettled
<1>2. PICK G \in Seq(Event) : G = Append(F, e)
  BY <1>1, AppendType
<1>3. /\ \A x \in Live(F) : x.id # e.id => x \in Live(G)
      /\ \A x \in Live(G) : x \in Live(F) /\ x.id # e.id
  BY <1>1, <1>2, LiveAppend
<1>4. /\ DOMAIN m = { x.key : x \in Live(F) }
      /\ \A x \in Live(F) : m[x.key] = [val |-> x.val, id |-> x.id]
  BY <1>1, ReplayedIs
<1>5. /\ \A x, y \in Live(F) : x.id = y.id => x = y
      /\ \A x \in Live(F) : \E i \in 1..Len(F) : F[i] = x
  BY <1>1, LiveIds
<1>6. PICK y \in Live(F) : y.key = e.key /\ y.id = e.id
  <2>1. PICK y \in Live(F) : y.key = e.key
    BY <1>4
  <2>a. m[y.key] = [val |-> y.val, id |-> y.id]
    BY <1>4
  <2>2. m[y.key].id = y.id
    BY <2>a
  <2> QED
    BY <2>1, <2>2
<1>7. \A x \in Live(F) : x.key = e.key <=> x.id = e.id
  BY <1>1, <1>5, <1>6 DEF Settled
<1>8. Settled(G)
  BY <1>1, <1>3 DEF Settled
<1>9. PICK w : w = Without(m, e.key)
  OBVIOUS
<1>10. /\ DOMAIN w = DOMAIN m \ {e.key}
       /\ \A k \in DOMAIN w : w[k] = m[k]
       /\ w = [k \in DOMAIN w |-> w[k]]
  BY <1>9 DEF Without
<1>11. DOMAIN w = { x.key : x \in Live(G) }
  <2>1. ASSUME NEW k \in DOMAIN w
        PROVE  \E x \in Live(G) : k = x.key
    <3>1. PICK x \in Live(F) : k = x.key
      BY <1>4, <1>10
    <3> QED
      BY <1>3, <1>7, <1>10, <3>1
  <2>2. ASSUME NEW x \in Live(G)
        PROVE  x.key \in DOMAIN w
    BY <1>3, <1>4, <1>7, <1>10
  <2> QED
    BY <2>1, <2>2
<1>12. ASSUME NEW x \in Live(G)
       PROVE  w[x.key] = [val |-> x.val, id |-> x.id]
  <2>1. x.key \in DOMAIN w
    BY <1>11
  <2> QED
    BY <1>3, <1>4, <1>10, <2>1
<1>13. Replayed(G) = w
  BY <1>8, <1>10, <1>11, <1>12, ReplayedEquals
<1>14. Accepted(F, e)
  BY <1>6 DEF Accepted
<1>15. \E i \in 1..Len(F) : F[i].id = e.id
  BY <1>5, <1>6
<1>16. GoodLog(G)
  BY <1>2, <1>8, <1>9, <1>13, <1>14, <1>15, GoodAppend
<1> QED
  BY <1>2, <1>9, <1>13, <1>16

(* A map that is replayed: a finite function from keys to values and ids   *)
(* of the log.                                                             *)
LEMMA ReplayedType ==
  ASSUME NEW F, GoodLog(F), NEW m, m = Replayed(F)
  PROVE  /\ m = [k \in DOMAIN m |-> m[k]]
         /\ DOMAIN m \subseteq Keys
         /\ IsFiniteSet(DOMAIN m)
         /\ \A k \in DOMAIN m : /\ m[k].val \in Vals
                                /\ m[k] = [val |-> m[k].val, id |-> m[k].id]
                                /\ \E i \in 1..Len(F) : F[i].id = m[k].id
<1>1. F \in Seq(Event) /\ Settled(F)
  BY GoodSettled
<1>2. /\ DOMAIN m = { x.key : x \in Live(F) }
      /\ \A x \in Live(F) : m[x.key] = [val |-> x.val, id |-> x.id]
  BY <1>1, ReplayedIs
<1>3. m = [k \in DOMAIN m |-> m[k]]
  BY DEF Replayed
<1>4. ASSUME NEW k \in DOMAIN m
      PROVE  /\ k \in Keys /\ m[k].val \in Vals
             /\ m[k] = [val |-> m[k].val, id |-> m[k].id]
             /\ \E i \in 1..Len(F) : F[i].id = m[k].id /\ F[i].key = k
  <2>1. PICK x \in Live(F) : k = x.key
    BY <1>2
  <2>2. m[k] = [val |-> x.val, id |-> x.id]
    BY <1>2, <2>1
  <2>3. x \in Event /\ x.val \in Vals /\ \E i \in 1..Len(F) : F[i] = x
    BY <1>1, LiveIds
  <2>4. k \in Keys
    BY <2>1, <2>3 DEF Event
  <2>5. m[k].val = x.val /\ m[k].id = x.id
    BY <2>2
  <2> QED
    BY <2>1, <2>2, <2>3, <2>4, <2>5
<1>5. IsFiniteSet(DOMAIN m)
  <2> DEFINE I == 1..Len(F)
             Ks == { F[i].key : i \in I }
  <2>1. IsFiniteSet(I)
    BY <1>1, FS_Interval
  <2>2. IsFiniteSet(Ks)
    <3>1. PICK g : g = [i \in I |-> F[i].key]
      OBVIOUS
    <3>2. g \in Surjection(I, Ks)
      BY <3>1 DEF Surjection
    <3> QED
      BY <2>1, <3>2, FS_Surjection, Zenon
  <2>3. DOMAIN m \subseteq Ks
    BY <1>4
  <2> QED
    BY <2>2, <2>3, FS_Subset
<1> QED
  BY <1>3, <1>4, <1>5

(* Part of a map. *)
Less(m, S) == [k \in DOMAIN m \ S |-> m[k]]

(* The first n elements of order. *)
FirstOf(order, n) == { order[j] : j \in 1..n }

(* One more event of s behind F. *)
LEMMA ConcatStep ==
  ASSUME NEW S, NEW F \in Seq(S), NEW s \in Seq(S)
  PROVE  \A i \in 1..Len(s) : Append(F \o Prefix(s, i - 1), s[i]) = F \o Prefix(s, i)
<1> TAKE i \in 1..Len(s)
<1>1. /\ Prefix(s, i) \in Seq(S) /\ Len(Prefix(s, i)) = i
      /\ \A j \in 1..i : Prefix(s, i)[j] = s[j]
  BY PrefixType
<1>2. /\ Prefix(s, i - 1) \in Seq(S) /\ Len(Prefix(s, i - 1)) = i - 1
      /\ \A j \in 1 .. i - 1 : Prefix(s, i - 1)[j] = s[j]
  <2>1. i - 1 \in 0..Len(s)
    OBVIOUS
  <2> QED
    BY <2>1, PrefixType
<1>3. PICK P \in Seq(S), Q \in Seq(S) : P = Prefix(s, i - 1) /\ Q = Prefix(s, i)
  BY <1>1, <1>2
<1>5. PICK a, b : a = Append(F \o P, s[i]) /\ b = F \o Q
  OBVIOUS
<1>6. F \o P \in Seq(S) /\ Len(F \o P) = Len(F) + i - 1 /\ s[i] \in S
  BY <1>2, <1>3
<1>7. a \in Seq(S) /\ Len(a) = Len(F) + i
  BY <1>5, <1>6
<1>8. b \in Seq(S) /\ Len(b) = Len(F) + i
  BY <1>1, <1>3, <1>5
<1>9. ASSUME NEW j \in 1 .. Len(F) + i
      PROVE  a[j] = b[j]
  <2>1. CASE j <= Len(F)
    BY <1>1, <1>2, <1>3, <1>5, <1>6, <2>1
  <2>2. CASE j > Len(F) /\ j < Len(F) + i
    <3>1. a[j] = (F \o P)[j]
      BY <1>5, <1>6, <2>2
    <3>a. j - Len(F) \in 1 .. i - 1
      BY <2>2
    <3>b. P[j - Len(F)] = s[j - Len(F)]
      BY <1>2, <1>3, <3>a
    <3>2. (F \o P)[j] = P[j - Len(F)] /\ P[j - Len(F)] = s[j - Len(F)]
      BY <1>2, <1>3, <2>2, <3>b
    <3>3. b[j] = Q[j - Len(F)] /\ Q[j - Len(F)] = s[j - Len(F)]
      BY <1>1, <1>3, <1>5, <2>2
    <3> QED
      BY <3>1, <3>2, <3>3
  <2>3. CASE j = Len(F) + i
    <3>1. a[j] = s[i]
      BY <1>5, <1>6, <2>3
    <3>2. b[j] = Q[i] /\ Q[i] = s[i]
      BY <1>1, <1>3, <1>5, <2>3
    <3> QED
      BY <3>1, <3>2
  <2> QED
    BY <2>1, <2>2, <2>3, SMTT(30)
<1>10. a = b
  BY <1>7, <1>8, <1>9
<1> QED
  BY <1>3, <1>5, <1>10

(* The first N elements of order are different. *)
Distinct(order, N) == \A i, j \in 1..N : i # j => order[i] # order[j]

(* s erases the keys of order, one after the other. *)
Erases(s, m, order) ==
  \A i \in 1..Len(s) : /\ s[i].id = m[order[i]].id /\ s[i].rewrite
                       /\ s[i].key = order[i] /\ s[i].val = Erased
                       /\ s[i].view = Values(Less(m, FirstOf(order, i)))

(* The events of erase_by_prefix, one after the other. *)
LEMMA EraseSteps ==
  ASSUME NEW F, GoodLog(F), NEW m, m = Replayed(F),
         NEW N \in Nat, NEW order \in [1..N -> DOMAIN m],
         Distinct(order, N),
         NEW s \in Seq(Event), Len(s) = N,
         Erases(s, m, order)
  PROVE  /\ GoodLog(F \o s)
         /\ Replayed(F \o s) = Less(m, FirstOf(order, N))
<1>a. F \in Seq(Event)
  BY GoodSettled
<1>b. \A i \in 1..Len(s) : Append(F \o Prefix(s, i - 1), s[i]) = F \o Prefix(s, i)
  BY <1>a, ConcatStep
<1> DEFINE Gone(i) == FirstOf(order, i)
           Holds(i) == GoodLog(F \o Prefix(s, i)) /\ Replayed(F \o Prefix(s, i)) = Less(m, Gone(i))
           Bad == { i \in 0..N : ~Holds(i) }
<1>1. F \in Seq(Event)
  BY <1>a
<1>2. Holds(0)
  <2>1. F \o Prefix(s, 0) = F
    BY <1>1 DEF Prefix
  <2>2. Gone(0) = {}
    BY DEF FirstOf
  <2>3. m = [k \in DOMAIN m |-> m[k]]
    BY ReplayedType
  <2>4. Less(m, {}) = [k \in DOMAIN m |-> m[k]]
    BY DEF Less
  <2> QED
    BY <2>1, <2>2, <2>3, <2>4
<1>3. ASSUME NEW i \in 1..N, Holds(i - 1)
      PROVE  Holds(i)
  <2>1. PICK G : G = F \o Prefix(s, i - 1)
    OBVIOUS
  <2>2. PICK w : w = Less(m, Gone(i - 1))
    OBVIOUS
  <2>3. GoodLog(G) /\ w = Replayed(G)
    BY <1>3, <2>1, <2>2
  <2>4. PICK e \in Event : e = s[i]
    OBVIOUS
  <2>5. Append(G, e) = F \o Prefix(s, i)
    <3>1. i \in 1..Len(s)
      OBVIOUS
    <3> QED
      BY <1>b, <2>1, <2>4, <3>1
  <2>a. /\ e.id = m[order[i]].id /\ e.rewrite
        /\ e.key = order[i] /\ e.val = Erased
        /\ e.view = Values(Less(m, Gone(i)))
    BY <2>4 DEF Erases
  <2>6. order[i] \in DOMAIN m /\ order[i] \notin Gone(i - 1)
    BY DEF Distinct, FirstOf
  <2>7. e.key \in DOMAIN w /\ w[e.key] = m[e.key]
    BY <2>2, <2>a, <2>6 DEF Less
  <2>8. Gone(i) = Gone(i - 1) \cup {order[i]}
    BY DEF FirstOf
  <2>9. Less(m, Gone(i)) = Without(w, e.key)
    <3>1. DOMAIN w = DOMAIN m \ Gone(i - 1) /\ \A k \in DOMAIN w : w[k] = m[k]
      BY <2>2 DEF Less
    <3>2. e.key = order[i]
      BY <2>a
    <3>3. DOMAIN m \ Gone(i) = DOMAIN w \ {e.key}
      BY <2>8, <3>1, <3>2
    <3> HIDE DEF Gone
    <3> QED
      BY <3>1, <3>3 DEF Less, Without
  <2>10. /\ e.val = Erased /\ e.rewrite /\ e.id = w[e.key].id
         /\ e.view = Values(Without(w, e.key))
    BY <2>a, <2>7, <2>9
  <2>11. GoodLog(Append(G, e)) /\ Replayed(Append(G, e)) = Without(w, e.key)
    BY <2>3, <2>7, <2>10, EraseStep
  <2> QED
    BY <2>5, <2>9, <2>11
<1>4. Bad = {}
  <2>1. SUFFICES ASSUME Bad # {}
                 PROVE  FALSE
    OBVIOUS
  <2> HIDE DEF Holds
  <2>2. Bad \in SUBSET Nat
    OBVIOUS
  <2>3. PICK i \in Bad : \A j \in Bad : i <= j
    BY <2>1, <2>2, LeastNat
  <2>4. i # 0 /\ i \in 1..N
    BY <1>2
  <2>5. i - 1 \notin Bad /\ i - 1 \in 0..N
    BY <2>3, <2>4
  <2> QED
    BY <1>3, <2>4, <2>5
<1>5. Holds(N)
  <2> HIDE DEF Holds
  <2> QED
    BY <1>4
<1>6. Prefix(s, N) = s
  BY PrefixAll
<1> QED
  BY <1>5, <1>6
-----------------------------------------------------------------------------
(* The outstanding events, one by one. *)
InPlace(a, p, e) == \/ e \in a
                    \/ \E t \in Threads : \E i \in 1..Len(p[t]) : e = p[t][i]

LEMMA OutstandingIs ==
  ASSUME NEW a, NEW p \in [Threads -> Seq(Event)], NEW e
  PROVE  e \in OutstandingOf(a, p) <=> InPlace(a, p, e)
<1>1. ASSUME NEW t \in Threads
      PROVE  e \in Range(p[t]) <=> \E i \in 1..Len(p[t]) : e = p[t][i]
  <2>1. p[t] \in Seq(Event)
    OBVIOUS
  <2>2. DOMAIN p[t] = 1..Len(p[t])
    BY <2>1
  <2> QED
    BY <2>2 DEF Range
<1> QED
  BY <1>1, Zenon DEF OutstandingOf, InPlace

LEMMA ConcatType ==
  ASSUME NEW S, NEW F \in Seq(S), NEW s \in Seq(S)
  PROVE  /\ F \o s \in Seq(S)
         /\ Len(F \o s) = Len(F) + Len(s)
         /\ \A j \in 1..Len(F) : (F \o s)[j] = F[j]
         /\ \A j \in 1..Len(s) : (F \o s)[Len(F) + j] = s[j]
OBVIOUS

(* A thread that had nothing numbers the events of s under the lock. *)
LEMMA Numbering ==
  ASSUME Types, OneEach, NEW F \in Seq(Event), IsFullLog(F),
         NEW t \in Threads, Idle(t), NEW s \in Seq(Event),
         \A i \in 1..Len(s) : s[i].seq_no = last_id + i - 1,
         last_id + Len(s) <= MaxSeqNo + 1,
         pending' = [pending EXCEPT ![t] = s], last_id' = last_id + Len(s),
         UNCHANGED <<arrived, next, log>>
  PROVE  Types' /\ OneEach' /\ IsFullLog(F \o s)'
<1> USE BinlogKeyValueAssumption
<1>1. /\ last_id \in Nat /\ last_id # 0 /\ next \in Nat /\ next # 0 /\ next <= last_id
      /\ Len(s) \in Nat /\ Len(F) \in Nat
  BY DEF Types
<1>2. log \in Seq(Event) /\ Len(log) \in Nat /\ arrived \subseteq Event
  BY DEF Types
<1>3. /\ pending'[t] = s
      /\ \A u \in Threads : u # t => pending'[u] = pending[u]
      /\ pending[t] = <<>>
  BY DEF Types, Idle
<1>4. Types'
  <2>1. pending' \in [Threads -> Seq(Event)]
    BY DEF Types
  <2>2. last_id' \in Nat \ {0} /\ last_id' <= MaxSeqNo + 1 /\ next' \in 1..last_id'
    BY <1>1
  <2> QED
    BY <1>2, <2>1, <2>2 DEF Types
<1>5. ASSUME NEW e
      PROVE  e \in Outstanding' <=> \/ e \in Outstanding
                                    \/ \E i \in 1..Len(s) : e = s[i]
  <2>a. pending \in [Threads -> Seq(Event)] /\ pending' \in [Threads -> Seq(Event)]
    BY <1>4 DEF Types
  <2>b. arrived' = arrived
    OBVIOUS
  <2>1. e \in Outstanding' <=> InPlace(arrived', pending', e)
    BY <2>a, OutstandingIs DEF Outstanding
  <2>2. e \in Outstanding <=> InPlace(arrived, pending, e)
    BY <2>a, OutstandingIs DEF Outstanding
  <2>3. ~\E i \in 1..Len(pending[t]) : e = pending[t][i]
    BY <1>3
  <2> QED
    BY <1>3, <2>b, <2>1, <2>2, <2>3 DEF InPlace
<1>6. \A e \in Outstanding' : e.seq_no \in next' .. last_id' - 1
  <2>1. ASSUME NEW e \in Outstanding
        PROVE  e.seq_no \in next' .. last_id' - 1
    <3>1. e.seq_no \in next .. last_id - 1
      BY DEF OneEach
    <3> QED
      BY <1>1, <3>1
  <2>2. ASSUME NEW i \in 1..Len(s)
        PROVE  s[i].seq_no \in next' .. last_id' - 1
    <3>1. s[i].seq_no = last_id + i - 1
      OBVIOUS
    <3> QED
      BY <1>1, <3>1
  <2> QED
    BY <1>5, <2>1, <2>2
<1>7. \A i \in 1..Len(s) : s[i].seq_no >= last_id
  BY <1>1
<1>8. ASSUME NEW u \in Threads, NEW i \in 1..Len(pending[u])
      PROVE  /\ pending[u][i].seq_no \in Nat /\ pending[u][i].seq_no < last_id
             /\ u # t
  <2>1. pending[u][i] \in Outstanding
    BY OutstandingIs DEF Types, Outstanding, InPlace
  <2>2. pending[u][i].seq_no \in next .. last_id - 1
    BY <2>1 DEF OneEach
  <2> QED
    BY <1>1, <1>3, <2>2
<1>9. \A e \in arrived : e.seq_no \in Nat /\ e.seq_no < last_id
  <2>1. \A e \in arrived : e \in Outstanding
    BY OutstandingIs DEF Types, Outstanding, InPlace
  <2>2. \A e \in arrived : e.seq_no \in next .. last_id - 1
    BY <2>1 DEF OneEach
  <2> QED
    BY <1>1, <2>2
<1>10. ASSUME NEW u \in Threads, NEW i \in 1..Len(pending'[u])
       PROVE  \A e \in arrived' : e.seq_no # pending'[u][i].seq_no
  <2>1. CASE u = t
    BY <1>1, <1>3, <1>7, <1>9, <2>1
  <2>2. CASE u # t
    BY <1>3, <2>2 DEF OneEach
  <2> QED
    BY <2>1, <2>2
<1>11. ASSUME NEW u \in Threads, NEW i \in 1..Len(pending'[u]),
              NEW v \in Threads, NEW j \in 1..Len(pending'[v]),
              pending'[u][i].seq_no = pending'[v][j].seq_no
       PROVE  u = v /\ i = j
  <2>1. CASE u = t /\ v = t
    <3>1. i \in 1..Len(s) /\ j \in 1..Len(s) /\ s[i].seq_no = s[j].seq_no
      BY <1>3, <1>11, <2>1
    <3>2. last_id + i - 1 = last_id + j - 1
      BY <3>1
    <3> QED
      BY <1>1, <2>1, <3>1, <3>2
  <2>2. CASE u = t /\ v # t
    <3>1. i \in 1..Len(s) /\ j \in 1..Len(pending[v]) /\ s[i].seq_no = pending[v][j].seq_no
      BY <1>3, <1>11, <2>2
    <3> QED
      BY <1>1, <1>7, <1>8, <3>1
  <2>3. CASE u # t /\ v = t
    <3>1. j \in 1..Len(s) /\ i \in 1..Len(pending[u]) /\ s[j].seq_no = pending[u][i].seq_no
      BY <1>3, <1>11, <2>3
    <3> QED
      BY <1>1, <1>7, <1>8, <3>1
  <2>4. CASE u # t /\ v # t
    BY <1>3, <1>11, <2>4 DEF OneEach
  <2> QED
    BY <2>1, <2>2, <2>3, <2>4
<1>12. OneEach'
  <2>1. /\ \A e \in arrived' : e.seq_no # next'
        /\ \A e, f \in arrived' : e.seq_no = f.seq_no => e = f
    BY DEF OneEach
  <2>2. \A u \in Threads : \A i \in 1..Len(pending'[u]) :
          /\ \A e \in arrived' : e.seq_no # pending'[u][i].seq_no
          /\ \A v \in Threads : \A j \in 1..Len(pending'[v]) :
               pending'[u][i].seq_no = pending'[v][j].seq_no => u = v /\ i = j
    BY <1>10, <1>11
  <2> QED
    BY <1>6, <2>1, <2>2, Zenon DEF OneEach
<1>13. PICK G \in Seq(Event) : G = F \o s
  BY ConcatType
<1>14. /\ Len(G) = Len(F) + Len(s)
       /\ \A j \in 1..Len(F) : G[j] = F[j]
       /\ \A j \in 1..Len(s) : G[Len(F) + j] = s[j]
  BY <1>13, ConcatType
<1>15. Len(F) = Len(log) + (last_id - next)
  BY DEF IsFullLog
<1>16. IsFullLog(G)'
  <2>1. Len(G) = Len(log) + (last_id' - next)
    BY <1>1, <1>2, <1>14, <1>15, SMTT(30)
  <2>2. \A j \in 1..Len(log) : G[j] = log[j]
    BY <1>1, <1>2, <1>14, <1>15 DEF IsFullLog
  <2>3. ASSUME NEW j \in 1 .. last_id' - next
        PROVE  /\ G[Len(log) + j] \in Outstanding'
               /\ G[Len(log) + j].seq_no = next + j - 1
    <3>1. CASE j \in 1 .. last_id - next
      <4>1. G[Len(log) + j] = F[Len(log) + j]
        BY <1>1, <1>2, <1>14, <1>15, <3>1
      <4>2. F[Len(log) + j] \in Outstanding /\ F[Len(log) + j].seq_no = next + j - 1
        BY <3>1 DEF IsFullLog
      <4> QED
        BY <1>5, <4>1, <4>2
    <3>2. CASE j \notin 1 .. last_id - next
      <4>1. PICK i \in 1..Len(s) : i = j - (last_id - next)
        BY <1>1, <3>2
      <4>2. Len(log) + j = Len(F) + i
        BY <1>1, <1>2, <1>15, <4>1
      <4>3. G[Len(log) + j] = s[i]
        BY <1>14, <4>2
      <4>4. s[i].seq_no = last_id + i - 1
        OBVIOUS
      <4>5. last_id + i - 1 = next + j - 1
        BY <1>1, <4>1
      <4> QED
        BY <1>5, <4>3, <4>4, <4>5
    <3> QED
      BY <3>1, <3>2
  <2> QED
    BY <2>1, <2>2, <2>3 DEF IsFullLog
<1> QED
  BY <1>4, <1>12, <1>13, <1>16

(* The type of a view. *)
LEMMA ValuesType ==
  ASSUME NEW m, DOMAIN m \subseteq Keys, \A k \in DOMAIN m : m[k].val \in Vals
  PROVE  Values(m) \in UNION { [S -> Vals] : S \in SUBSET Keys }
<1>1. Values(m) \in [DOMAIN m -> Vals]
  BY DEF Values
<1> QED
  BY <1>1

LEMMA AppendIsOne ==
  ASSUME NEW S, NEW F \in Seq(S), NEW e \in S
  PROVE  F \o <<e>> = Append(F, e) /\ <<e>> \in Seq(S) /\ Len(<<e>>) = 1 /\ <<e>>[1] = e
OBVIOUS

(* The full log of a state, and what the inductive invariant says of it. *)
Full(F) ==
  /\ F \in Seq(Event)
  /\ GoodLog(F)
  /\ Replayed(F) = map
  /\ \A n \in 1..Len(F) : F[n].id \in 1 .. last_id - 1
  /\ IsFullLog(F)

(* set keeps the invariant. *)
LEMMA InvSet ==
  ASSUME IInv, NEW t \in Threads, NEW k \in Keys, NEW v \in Vals, Set(t, k, v)
  PROVE  IInv'
<1> USE BinlogKeyValueAssumption
<1>1. PICK F \in Seq(Event) : Full(F)
  BY DEF IInv, Full
<1>2. Types /\ OneEach /\ last_id \in Nat /\ last_id # 0
  BY DEF IInv, Types
<1>3. PICK id : id = EventId(k)
  OBVIOUS
<1>4. PICK w : w = With(map, k, [val |-> v, id |-> id])
  OBVIOUS
<1>5. PICK e : e = [seq_no |-> last_id, id |-> id, rewrite |-> id # last_id,
                    key |-> k, val |-> v, view |-> Values(w)]
  OBVIOUS
<1>6. /\ Idle(t) /\ last_id <= MaxSeqNo
      /\ map' = w /\ last_id' = last_id + 1
      /\ pending' = [pending EXCEPT ![t] = <<e>>]
      /\ UNCHANGED <<arrived, next, log>>
  BY <1>3, <1>4, <1>5 DEF Set
<1>7. GoodLog(F) /\ map = Replayed(F) /\ IsFullLog(F)
  BY <1>1 DEF Full
<1>8. /\ DOMAIN map \subseteq Keys
      /\ \A j \in DOMAIN map : map[j].val \in Vals /\ \E i \in 1..Len(F) : F[i].id = map[j].id
  BY <1>7, ReplayedType
<1>9. \A i \in 1..Len(F) : F[i].id \in 1 .. last_id - 1
  BY <1>1 DEF Full
<1>10. id \in 1..last_id /\ (k \in DOMAIN map => id = map[k].id /\ id # last_id)
                         /\ (k \notin DOMAIN map => id = last_id)
  <2>1. CASE k \in DOMAIN map
    <3>1. id = map[k].id
      BY <1>3, <2>1 DEF EventId
    <3>2. id \in 1 .. last_id - 1
      BY <1>8, <1>9, <2>1, <3>1
    <3> QED
      BY <1>2, <2>1, <3>1, <3>2
  <2>2. CASE k \notin DOMAIN map
    BY <1>2, <1>3, <2>2 DEF EventId
  <2> QED
    BY <2>1, <2>2
<1>11. Values(w) \in UNION { [S -> Vals] : S \in SUBSET Keys }
  <2>1. DOMAIN w = DOMAIN map \cup {k}
    BY <1>4 DEF With
  <2>2. \A j \in DOMAIN w : w[j].val \in Vals
    BY <1>4, <1>8 DEF With
  <2> QED
    BY <1>8, <2>1, <2>2, ValuesType
<1>12. e \in Event
  BY <1>2, <1>5, <1>10, <1>11 DEF Event
<1>13. v # Erased
  OBVIOUS
<1>14. /\ e.key = k /\ e.val = v /\ e.id = id /\ e.seq_no = last_id
       /\ e.rewrite = (id # last_id) /\ e.view = Values(w)
  BY <1>5
<1>15. \A i \in 1..Len(F) : F[i].id < last_id
  BY <1>2, <1>9
<1>16. \/ /\ e.key \notin DOMAIN map
          /\ ~e.rewrite
          /\ \A i \in 1..Len(F) : F[i].id < e.id
       \/ /\ e.key \in DOMAIN map
          /\ e.rewrite
          /\ e.id = map[e.key].id
  BY <1>10, <1>14, <1>15
<1>17. e.val # Erased /\ e.view = Values(With(map, e.key, [val |-> e.val, id |-> e.id]))
  BY <1>4, <1>13, <1>14
<1>18. GoodLog(Append(F, e)) /\ Replayed(Append(F, e)) = w
  BY <1>4, <1>7, <1>12, <1>14, <1>16, <1>17, SetStep
<1>19. PICK s \in Seq(Event) : s = <<e>>
  BY <1>1, <1>12, AppendIsOne
<1>20. Len(s) = 1 /\ s[1] = e /\ F \o s = Append(F, e)
  BY <1>12, <1>19, AppendIsOne
<1>21. /\ \A i \in 1..Len(s) : s[i].seq_no = last_id + i - 1
       /\ last_id + Len(s) <= MaxSeqNo + 1
       /\ pending' = [pending EXCEPT ![t] = s] /\ last_id' = last_id + Len(s)
  BY <1>2, <1>6, <1>14, <1>19, <1>20
<1>22. Types' /\ OneEach' /\ IsFullLog(F \o s)'
  BY <1>2, <1>6, <1>7, <1>21, Numbering
<1>23. PICK G \in Seq(Event) : G = Append(F, e)
  BY <1>12, AppendType
<1>24. \A n \in 1..Len(G) : G[n].id \in 1 .. last_id' - 1
  <2>1. /\ Len(G) = Len(F) + 1 /\ \A n \in 1..Len(F) : G[n] = F[n]
        /\ G[Len(F) + 1] = e
    BY <1>12, <1>23
  <2>2. ASSUME NEW n \in 1..Len(G)
        PROVE  G[n].id \in 1..last_id
    <3>1. n \in 1..Len(F) \/ n = Len(F) + 1
      BY <2>1
    <3> QED
      BY <1>2, <1>9, <1>10, <1>14, <2>1, <3>1, SMTT(30)
  <2> QED
    BY <1>2, <1>6, <2>2
<1>25. GoodLog(G) /\ Replayed(G) = map' /\ IsFullLog(G)'
  BY <1>6, <1>18, <1>20, <1>22, <1>23
<1> QED
  BY <1>22, <1>24, <1>25 DEF IInv

(* The events that erase the keys of order. *)
EraseAll(s, order, N) ==
  s = [i \in 1..N |-> EraseEvent(last_id + i - 1, order[i],
                        Values(Less(map, FirstOf(order, i))))]

(* Erasing events, numbered one after the other, keep the invariant. *)
LEMMA InvErasing ==
  ASSUME IInv, NEW t \in Threads, Idle(t), NEW N \in Nat,
         NEW order \in [1..N -> DOMAIN map],
         Distinct(order, N),
         last_id + N <= MaxSeqNo + 1,
         NEW s, EraseAll(s, order, N),
         map' = Less(map, FirstOf(order, N)),
         last_id' = last_id + N, pending' = [pending EXCEPT ![t] = s],
         UNCHANGED <<arrived, next, log>>
  PROVE  IInv'
<1> USE BinlogKeyValueAssumption
<1>1. PICK F \in Seq(Event) : Full(F)
  BY DEF IInv, Full
<1>2. Types /\ OneEach /\ last_id \in Nat /\ last_id # 0
  BY DEF IInv, Types
<1>3. GoodLog(F) /\ map = Replayed(F) /\ IsFullLog(F)
  BY <1>1 DEF Full
<1>4. /\ DOMAIN map \subseteq Keys
      /\ \A j \in DOMAIN map : map[j].val \in Vals /\ \E i \in 1..Len(F) : F[i].id = map[j].id
  BY <1>3, ReplayedType, SMTT(30)
<1>5. \A i \in 1..Len(F) : F[i].id \in 1 .. last_id - 1
  BY <1>1 DEF Full
<1>6. \A j \in DOMAIN map : map[j].id \in 1 .. last_id - 1
  BY <1>4, <1>5
<1>7. ASSUME NEW S
      PROVE  Values(Less(map, S)) \in UNION { [R -> Vals] : R \in SUBSET Keys }
  <2>1. PICK w : w = Less(map, S)
    OBVIOUS
  <2>2. DOMAIN w \subseteq Keys /\ \A k \in DOMAIN w : w[k].val \in Vals
    BY <1>4, <2>1 DEF Less
  <2> QED
    BY <2>1, <2>2, ValuesType
<1>8. ASSUME NEW i \in 1..N
      PROVE  /\ s[i] \in Event
             /\ s[i].id = map[order[i]].id /\ s[i].rewrite
             /\ s[i].key = order[i] /\ s[i].val = Erased
             /\ s[i].view = Values(Less(map, FirstOf(order, i)))
             /\ s[i].seq_no = last_id + i - 1
             /\ s[i].id \in 1 .. last_id - 1
  <2>1. PICK w : w = Values(Less(map, FirstOf(order, i)))
    OBVIOUS
  <2>2. w \in UNION { [R -> Vals] : R \in SUBSET Keys }
    BY <1>7, <2>1
  <2>3. PICK k \in DOMAIN map : k = order[i]
    OBVIOUS
  <2>4. s[i] = [seq_no |-> last_id + i - 1, id |-> map[k].id, rewrite |-> TRUE, key |-> k,
                val |-> Erased, view |-> w]
    BY <2>1, <2>3 DEF EraseEvent, EraseAll
  <2>5. map[k].id \in 1 .. last_id - 1 /\ map[k].id \in Nat /\ k \in Keys
        /\ last_id + i - 1 \in Nat
    BY <1>2, <1>4, <1>6, SMTT(30)
  <2>6. s[i] \in Event
    BY <2>2, <2>4, <2>5 DEF Event
  <2>7. /\ s[i].id = map[k].id /\ s[i].rewrite /\ s[i].key = k /\ s[i].val = Erased
        /\ s[i].view = w /\ s[i].seq_no = last_id + i - 1
    BY <2>4
  <2> QED
    BY <2>1, <2>3, <2>5, <2>6, <2>7
<1>9. s \in Seq(Event) /\ Len(s) = N
  <2>1. s = [i \in 1..N |-> s[i]]
    BY DEF EraseAll
  <2>2. s \in [1..N -> Event]
    BY <1>8, <2>1
  <2> QED
    BY <2>2
<1>10. Erases(s, map, order)
  BY <1>8, <1>9 DEF Erases
<1>11. PICK m : m = map
  OBVIOUS
<1>12. PICK G : G = F \o s
  OBVIOUS
<1>13. GoodLog(G) /\ Replayed(G) = Less(map, FirstOf(order, N))
  <2>1. PICK L : L = Less(map, FirstOf(order, N))
    OBVIOUS
  <2>2. order \in [1..N -> DOMAIN m] /\ m = Replayed(F) /\ Erases(s, m, order)
    BY <1>3, <1>10, <1>11
  <2>3. GoodLog(F \o s) /\ Replayed(F \o s) = Less(m, FirstOf(order, N))
    BY <1>3, <1>9, <2>2, EraseSteps
  <2> QED
    BY <1>11, <1>12, <2>3
<1>14. /\ \A i \in 1..Len(s) : s[i].seq_no = last_id + i - 1
       /\ last_id + Len(s) <= MaxSeqNo + 1 /\ last_id' = last_id + Len(s)
  BY <1>8, <1>9
<1>15. Types' /\ OneEach' /\ IsFullLog(F \o s)'
  BY <1>2, <1>3, <1>9, <1>14, Numbering
<1>16. /\ G \in Seq(Event) /\ Len(G) = Len(F) + N
       /\ \A j \in 1..Len(F) : G[j] = F[j]
       /\ \A j \in 1..N : G[Len(F) + j] = s[j]
  <2>a. PICK q \in Seq(Event) : q = s
    BY <1>9
  <2>b. G = F \o q
    BY <1>12, <2>a
  <2>1. G \in Seq(Event)
    BY <2>b, ConcatType
  <2>2. Len(G) = Len(F) + Len(q)
    BY <2>b, ConcatType
  <2>3. \A j \in 1..Len(F) : G[j] = F[j]
    BY <2>b, ConcatType
  <2>4. \A j \in 1..Len(q) : G[Len(F) + j] = q[j]
    BY <2>b, ConcatType
  <2> QED
    BY <1>9, <2>a, <2>1, <2>2, <2>3, <2>4
<1>17. \A n \in 1..Len(G) : G[n].id \in 1 .. last_id' - 1
  <2> TAKE n \in 1..Len(G)
  <2>1. CASE n \in 1..Len(F)
    <3>1. G[n].id \in 1 .. last_id - 1
      BY <1>5, <1>16, <2>1
    <3> QED
      BY <1>2, <3>1
  <2>2. CASE n \notin 1..Len(F)
    <3>1. PICK j \in 1..N : n = Len(F) + j
      <4>1. n - Len(F) \in 1..N
        BY <1>1, <1>16, <2>2
      <4>2. n = Len(F) + (n - Len(F))
        BY <1>1, <1>16
      <4> QED
        BY <4>1, <4>2
    <3>2. G[n].id \in 1 .. last_id - 1
      BY <1>8, <1>16, <3>1
    <3> QED
      BY <1>2, <3>2
  <2> QED
    BY <2>1, <2>2
<1>18. Replayed(G) = map' /\ IsFullLog(G)'
  BY <1>12, <1>13, <1>15
<1> QED
  BY <1>13, <1>15, <1>16, <1>17, <1>18 DEF IInv

(* erase keeps the invariant. *)
LEMMA InvErase ==
  ASSUME IInv, NEW t \in Threads, NEW k \in Keys, Erase(t, k)
  PROVE  IInv'
<1> USE BinlogKeyValueAssumption
<1>1. last_id \in Nat
  BY DEF IInv, Types
<1>2. /\ Idle(t) /\ last_id <= MaxSeqNo /\ k \in DOMAIN map
      /\ map' = Without(map, k) /\ last_id' = last_id + 1
      /\ pending' = [pending EXCEPT ![t] = <<EraseEvent(last_id, k, Values(Without(map, k)))>>]
      /\ UNCHANGED <<arrived, next, log>>
  BY DEF Erase
<1>3. PICK order : order = [i \in 1..1 |-> k]
  OBVIOUS
<1>4. order \in [1..1 -> DOMAIN map] /\ order[1] = k
      /\ \A i, j \in 1..1 : i = j
  BY <1>2, <1>3
<1>5. \A i \in 1..1 : i = 1 /\ FirstOf(order, i) = {k}
  BY <1>4 DEF FirstOf
<1>6. Without(map, k) = Less(map, {k})
  BY DEF Without, Less
<1>7. PICK s : s = [i \in 1..1 |-> EraseEvent(last_id + i - 1, order[i],
                                     Values(Less(map, FirstOf(order, i))))]
  OBVIOUS
<1>8. s = <<EraseEvent(last_id, k, Values(Without(map, k)))>>
  <2>1. PICK e : e = EraseEvent(last_id, k, Values(Without(map, k)))
    OBVIOUS
  <2>2. ASSUME NEW i \in 1..1
        PROVE  EraseEvent(last_id + i - 1, order[i], Values(Less(map, FirstOf(order, i)))) = e
    <3>1. last_id + i - 1 = last_id
      BY <1>1
    <3>2. order[i] = k /\ FirstOf(order, i) = {k}
      BY <1>4, <1>5
    <3> QED
      BY <1>6, <2>1, <3>1, <3>2
  <2>3. s = [i \in 1..1 |-> e]
    BY <1>7, <2>2
  <2>4. s = <<e>>
    BY <2>3
  <2> QED
    BY <2>1, <2>4
<1>9. 1 \in Nat /\ last_id + 1 <= MaxSeqNo + 1
  BY <1>1, <1>2
<1>10. map' = Less(map, FirstOf(order, 1))
  <2>1. FirstOf(order, 1) = {k}
    BY <1>5
  <2> QED
    BY <1>2, <1>6, <2>1
<1>11. Distinct(order, 1) /\ EraseAll(s, order, 1)
  BY <1>4, <1>7 DEF Distinct, EraseAll
<1>12. pending' = [pending EXCEPT ![t] = s]
  BY <1>2, <1>8
<1> QED
  BY <1>2, <1>4, <1>9, <1>10, <1>11, <1>12, InvErasing

(* erase_by_prefix keeps the invariant: its events are in one order of the
   keys that are gone, each key once. *)
LEMMA InvEraseByPrefix ==
  ASSUME IInv, NEW t \in Threads, NEW prefix \in KeyGroups, EraseByPrefix(t, prefix)
  PROVE  IInv'
<1> USE BinlogKeyValueAssumption
<1>1. PICK gone : gone = prefix \cap DOMAIN map
  OBVIOUS
<1>2. PICK N : N = Cardinality(gone)
  OBVIOUS
<1>3. PICK order \in SetToSeqs(gone) :
        pending' = [pending EXCEPT ![t] =
          [i \in 1..N |-> EraseEvent(last_id + i - 1, order[i],
             Values([k \in DOMAIN map \ { order[j] : j \in 1..i } |-> map[k]]))]]
  BY <1>1, <1>2, Zenon DEF EraseByPrefix
<1>4. /\ Idle(t) /\ last_id + N - 1 <= MaxSeqNo
      /\ map' = [k \in DOMAIN map \ gone |-> map[k]]
      /\ last_id' = last_id + N
      /\ UNCHANGED <<arrived, next, log>>
  BY <1>1, <1>2 DEF EraseByPrefix
<1>5. last_id \in Nat /\ IsFiniteSet(gone)
  <2>1. PICK F \in Seq(Event) : GoodLog(F) /\ map = Replayed(F)
    BY DEF IInv
  <2>2. IsFiniteSet(DOMAIN map)
    BY <2>1, ReplayedType
  <2>3. gone \in SUBSET DOMAIN map
    BY <1>1
  <2>4. IsFiniteSet(gone)
    BY <2>2, <2>3, FS_Subset
  <2> QED
    BY <2>4 DEF IInv, Types
<1>6. N \in Nat
  BY <1>2, <1>5, FS_CardinalityType
<1>7. order \in [1..N -> gone] /\ \A i, j \in 1..N : i # j => order[i] # order[j]
  BY <1>2, <1>3 DEF SetToSeqs
<1>8. FirstOf(order, N) = gone
  <2>1. IsFiniteSet(1..N) /\ Cardinality(1..N) = N
    BY <1>6, FS_Interval
  <2>a. \A i, j \in 1..N : order[i] = order[j] => i = j
    BY <1>7
  <2>2. order \in Injection(1..N, gone)
    BY <1>7, <2>a DEF Injection, IsInjective
  <2>3. order \in Surjection(1..N, gone)
    BY <1>2, <1>5, <2>1, <2>2, FS_Injection
  <2> QED
    BY <1>7, <2>3 DEF Surjection, FirstOf
<1>9. order \in [1..N -> DOMAIN map]
  BY <1>1, <1>7
<1>10. PICK s : s = [i \in 1..N |-> EraseEvent(last_id + i - 1, order[i],
                                     Values(Less(map, FirstOf(order, i))))]
  OBVIOUS
<1>11. pending' = [pending EXCEPT ![t] = s]
  BY <1>3, <1>10 DEF Less, FirstOf
<1>12. map' = Less(map, FirstOf(order, N))
  BY <1>4, <1>8 DEF Less
<1>13. last_id + N <= MaxSeqNo + 1
  BY <1>4, <1>5, <1>6
<1>14. Distinct(order, N) /\ EraseAll(s, order, N)
  BY <1>7, <1>10, Zenon DEF Distinct, EraseAll
<1> QED
  BY <1>4, <1>6, <1>9, <1>11, <1>12, <1>13, <1>14, InvErasing

(* An outstanding event is known by its number. *)
LEMMA OutstandingUnique ==
  ASSUME Types, OneEach, NEW e \in Outstanding, NEW f \in Outstanding, e.seq_no = f.seq_no
  PROVE  e = f
<1>1. pending \in [Threads -> Seq(Event)]
  BY DEF Types
<1>2. InPlace(arrived, pending, e) /\ InPlace(arrived, pending, f)
  BY <1>1, OutstandingIs DEF Outstanding
<1>3. CASE e \in arrived /\ f \in arrived
  BY <1>3 DEF OneEach
<1>4. CASE e \in arrived /\ f \notin arrived
  BY <1>2, <1>4 DEF OneEach, InPlace
<1>5. CASE e \notin arrived /\ f \in arrived
  BY <1>2, <1>5 DEF OneEach, InPlace
<1>6. CASE e \notin arrived /\ f \notin arrived
  <2>1. PICK t \in Threads : \E i \in 1..Len(pending[t]) : e = pending[t][i]
    BY <1>2, <1>6 DEF InPlace
  <2>2. PICK i \in 1..Len(pending[t]) : e = pending[t][i]
    BY <2>1
  <2>3. PICK u \in Threads : \E j \in 1..Len(pending[u]) : f = pending[u][j]
    BY <1>2, <1>6 DEF InPlace
  <2>4. PICK j \in 1..Len(pending[u]) : f = pending[u][j]
    BY <2>3
  <2>5. t = u /\ i = j
    BY <2>2, <2>4 DEF OneEach
  <2> QED
    BY <2>2, <2>4, <2>5
<1> QED
  BY <1>3, <1>4, <1>5, <1>6

(* Where the sequencer stops: the first number that has not arrived. *)
Stops(all, n) ==
  /\ \A k \in next .. n - 1 : \E e \in all : e.seq_no = k
  /\ ~\E e \in all : e.seq_no = n

LEMMA StopExists ==
  ASSUME Types, NEW all, \A e \in all : e.seq_no \in next .. last_id - 1
  PROVE  \E n \in next .. last_id : Stops(all, n)
<1>1. last_id \in Nat /\ next \in Nat /\ next <= last_id
  BY DEF Types
<1> DEFINE T == { n \in next .. last_id : ~\E e \in all : e.seq_no = n }
<1>2. last_id \in T
  BY <1>1
<1>3. T \in SUBSET Nat /\ T # {}
  BY <1>1, <1>2
<1>4. PICK n \in T : \A k \in T : n <= k
  BY <1>3, LeastNat
<1>5. \A k \in next .. n - 1 : \E e \in all : e.seq_no = k
  BY <1>1, <1>4
<1>6. n \in next .. last_id /\ ~\E e \in all : e.seq_no = n
  BY <1>4
<1> QED
  BY <1>5, <1>6 DEF Stops

(* Handing an event over keeps the invariant, with the same full log. *)
LEMMA InvAddEvent ==
  ASSUME IInv, NEW t \in Threads, AddEvent(t)
  PROVE  IInv'
<1>1. PICK F \in Seq(Event) : Full(F)
  BY DEF IInv, Full
<1>2. Types /\ OneEach
  BY DEF IInv
<1>3. /\ last_id \in Nat /\ next \in Nat /\ next # 0 /\ next <= last_id
      /\ MaxSeqNo \in Nat /\ last_id <= MaxSeqNo + 1
  BY <1>2, BinlogKeyValueAssumption DEF Types
<1>4. PICK p \in Seq(Event) : p = pending[t]
  BY <1>2 DEF Types
<1>5. p # <<>>
  BY <1>4 DEF AddEvent, Idle
<1>6. PICK h \in Event : h = Head(p) /\ h = p[1]
  BY <1>5
<1>7. PICK all : all = arrived \cup {h}
  OBVIOUS
<1>8. PICK stop : stop = CHOOSE n \in next .. MaxSeqNo + 1 : Stops(all, n)
  OBVIOUS
<1>9. /\ pending' = [pending EXCEPT ![t] = Tail(p)]
      /\ next' = stop
      /\ arrived' = { e \in all : e.seq_no >= stop }
      /\ log' = log \o [i \in 1 .. stop - next |-> CHOOSE e \in all : e.seq_no = next + i - 1]
      /\ UNCHANGED <<map, last_id>>
  <2>1. all = arrived \cup {Head(pending[t])}
    BY <1>4, <1>6, <1>7
  <2>2. stop = CHOOSE n \in next .. MaxSeqNo + 1 :
                 /\ \A k \in next .. n - 1 : \E e \in all : e.seq_no = k
                 /\ ~\E e \in all : e.seq_no = n
    BY <1>8 DEF Stops
  <2>3. pending' = [pending EXCEPT ![t] = Tail(p)] /\ UNCHANGED <<map, last_id>>
    BY <1>4 DEF AddEvent
  <2>4. next' = stop
    BY <2>1, <2>2, Zenon DEF AddEvent
  <2>5. arrived' = { e \in all : e.seq_no >= stop }
    BY <2>1, <2>2, Zenon DEF AddEvent
  <2>6. log' = log \o [i \in 1 .. stop - next |-> CHOOSE e \in all : e.seq_no = next + i - 1]
    BY <2>1, <2>2 DEF AddEvent
  <2> QED
    BY <2>3, <2>4, <2>5, <2>6
<1>10. 1 \in 1..Len(p) /\ Len(p) \in Nat
  BY <1>5
<1>11. pending \in [Threads -> Seq(Event)] /\ arrived \subseteq Event /\ log \in Seq(Event)
  BY <1>2 DEF Types
<1>12. \A e : e \in Outstanding <=> InPlace(arrived, pending, e)
  BY <1>11, OutstandingIs DEF Outstanding
<1>13. \A e \in all : e \in Outstanding
  BY <1>4, <1>6, <1>7, <1>10, <1>12 DEF InPlace
<1>14. \A e \in Outstanding : e.seq_no \in next .. last_id - 1
  BY <1>2 DEF OneEach
<1>15. \A e, f \in Outstanding : e.seq_no = f.seq_no => e = f
  BY <1>2, OutstandingUnique
<1>16. stop \in next .. last_id /\ Stops(all, stop)
  <2>1. PICK n \in next .. last_id : Stops(all, n)
    <3>1. \A e \in all : e.seq_no \in next .. last_id - 1
      BY <1>13, <1>14
    <3> QED
      BY <1>2, <3>1, StopExists
  <2>2. n \in next .. MaxSeqNo + 1
    BY <1>3
  <2>3. stop \in next .. MaxSeqNo + 1 /\ Stops(all, stop)
    BY <1>8, <2>1, <2>2, Zenon
  <2>4. ~(stop > last_id)
    <3>1. SUFFICES ASSUME stop > last_id
                   PROVE  FALSE
      OBVIOUS
    <3>2. last_id \in next .. stop - 1
      BY <1>3, <2>3, <3>1
    <3>3. PICK e \in all : e.seq_no = last_id
      BY <2>3, <3>2 DEF Stops
    <3>4. e.seq_no \in next .. last_id - 1
      BY <1>13, <1>14
    <3> QED
      BY <1>3, <3>3, <3>4
  <2> QED
    BY <1>3, <2>3, <2>4
<1>17. /\ \A k \in next .. stop - 1 : \E e \in all : e.seq_no = k
       /\ \A e \in all : e.seq_no # stop
  BY <1>16 DEF Stops
<1>18. stop \in Nat /\ next <= stop /\ stop <= last_id /\ stop # 0
  BY <1>3, <1>16
<1>19. PICK s : s = [i \in 1 .. stop - next |-> CHOOSE e \in all : e.seq_no = next + i - 1]
  OBVIOUS
<1>20. ASSUME NEW i \in 1 .. stop - next
       PROVE  s[i] \in all /\ s[i].seq_no = next + i - 1
  <2>1. PICK k : k = next + i - 1
    OBVIOUS
  <2>2. k \in next .. stop - 1
    BY <1>3, <1>18, <2>1
  <2>3. \E e \in all : e.seq_no = k
    BY <1>17, <2>2
  <2>4. s[i] = CHOOSE e \in all : e.seq_no = k
    BY <1>19, <2>1
  <2> QED
    BY <2>1, <2>3, <2>4, Zenon
<1>21. all \subseteq Event
  BY <1>7, <1>11
<1>22. s \in Seq(Event) /\ Len(s) = stop - next
  <2>1. s = [i \in 1 .. stop - next |-> s[i]]
    BY <1>19
  <2>2. s \in [1 .. stop - next -> Event]
    BY <1>20, <1>21, <2>1
  <2> QED
    BY <1>3, <1>18, <2>2
<1>23. /\ log' \in Seq(Event) /\ Len(log') = Len(log) + (stop - next)
       /\ \A j \in 1..Len(log) : log'[j] = log[j]
       /\ \A j \in 1 .. stop - next : log'[Len(log) + j] = s[j]
  <2>1. PICK l \in Seq(Event) : l = log
    BY <1>11
  <2>2. PICK q \in Seq(Event) : q = s
    BY <1>22
  <2>3. log' = l \o q
    BY <1>9, <1>19, <2>1, <2>2
  <2>4. log' \in Seq(Event) /\ Len(log') = Len(l) + Len(q)
    BY <2>3, ConcatType
  <2>5. \A j \in 1..Len(l) : log'[j] = l[j]
    BY <2>3, ConcatType
  <2>6. \A j \in 1..Len(q) : log'[Len(l) + j] = q[j]
    BY <2>3, ConcatType
  <2> QED
    BY <1>22, <2>1, <2>2, <2>4, <2>5, <2>6
<1>24. /\ pending'[t] = Tail(p)
       /\ \A u \in Threads : u # t => pending'[u] = pending[u]
       /\ pending' \in [Threads -> Seq(Event)]
  BY <1>5, <1>9, <1>11
<1>25. /\ Len(Tail(p)) = Len(p) - 1
       /\ \A i \in 1 .. Len(p) - 1 : Tail(p)[i] = p[i + 1]
  BY <1>5
<1>26. ASSUME NEW u \in Threads, NEW i \in 1..Len(pending'[u])
       PROVE  \E j \in 1..Len(pending[u]) : /\ pending'[u][i] = pending[u][j]
                                            /\ u = t => j # 1
                                            /\ j = IF u = t THEN i + 1 ELSE i
  <2>1. CASE u = t
    <3>1. i \in 1 .. Len(p) - 1 /\ pending'[u][i] = p[i + 1]
      BY <1>24, <1>25, <2>1
    <3>2. i + 1 \in 1..Len(p) /\ i + 1 # 1
      BY <1>10, <3>1
    <3> QED
      BY <1>4, <2>1, <3>1, <3>2
  <2>2. CASE u # t
    BY <1>24, <2>2
  <2> QED
    BY <2>1, <2>2
<1>27. Types'
  <2>1. arrived' \subseteq Event
    BY <1>9, <1>21
  <2>2. last_id' \in Nat \ {0} /\ last_id' <= MaxSeqNo + 1 /\ next' \in 1..last_id'
    BY <1>3, <1>9, <1>18
  <2> QED
    BY <1>23, <1>24, <2>1, <2>2 DEF Types
<1>28. \A e : e \in Outstanding' <=> InPlace(arrived', pending', e)
  BY <1>24, OutstandingIs DEF Outstanding
(* what a thread still has is none of what the sequencer has *)
<1>29. ASSUME NEW u \in Threads, NEW i \in 1..Len(pending'[u]), NEW f \in all
       PROVE  pending'[u][i].seq_no # f.seq_no
  <2>1. PICK j \in 1..Len(pending[u]) : pending'[u][i] = pending[u][j] /\ (u = t => j # 1)
    BY <1>26
  <2>2. CASE f \in arrived
    BY <1>2, <2>1, <2>2 DEF OneEach
  <2>3. CASE f = h
    <3>1. h = pending[t][1] /\ 1 \in 1..Len(pending[t])
      BY <1>4, <1>6, <1>10
    <3>2. pending[u][j].seq_no = pending[t][1].seq_no => u = t /\ j = 1
      BY <1>2, <3>1 DEF OneEach
    <3> QED
      BY <2>1, <2>3, <3>1, <3>2
  <2> QED
    BY <1>7, <2>2, <2>3
<1>30. ASSUME NEW u \in Threads, NEW i \in 1..Len(pending'[u])
       PROVE  pending'[u][i].seq_no \in stop .. last_id - 1
  <2>1. PICK j \in 1..Len(pending[u]) : pending'[u][i] = pending[u][j]
    BY <1>26
  <2>2. pending'[u][i] \in Outstanding
    BY <1>12, <2>1 DEF InPlace
  <2>3. PICK k \in next .. last_id - 1 : k = pending'[u][i].seq_no
    BY <1>14, <2>2
  <2>4. k \notin next .. stop - 1
    BY <1>17, <1>29, <2>3
  <2> QED
    BY <1>3, <1>18, <2>3, <2>4
<1>31. \A e \in arrived' : e \in all /\ e.seq_no \in stop .. last_id - 1
  <2> TAKE e \in arrived'
  <2>1. e \in all /\ e.seq_no >= stop
    BY <1>9
  <2>2. e.seq_no \in next .. last_id - 1
    BY <1>13, <1>14, <2>1
  <2> QED
    BY <1>3, <1>18, <2>1, <2>2
<1>32. OneEach'
  <2>1. ASSUME NEW e \in Outstanding'
        PROVE  e.seq_no \in next' .. last_id' - 1
    <3>1. InPlace(arrived', pending', e)
      BY <1>28
    <3>2. e.seq_no \in stop .. last_id - 1
      BY <1>30, <1>31, <3>1 DEF InPlace
    <3> QED
      BY <1>9, <3>2
  <2>2. \A e \in arrived' : e.seq_no # next'
    BY <1>9, <1>17, <1>31
  <2>3. \A e, f \in arrived' : e.seq_no = f.seq_no => e = f
    BY <1>13, <1>15, <1>31
  <2>4. ASSUME NEW u \in Threads, NEW i \in 1..Len(pending'[u]),
               NEW v \in Threads, NEW j \in 1..Len(pending'[v]),
               pending'[u][i].seq_no = pending'[v][j].seq_no
        PROVE  u = v /\ i = j
    <3>1. PICK a \in 1..Len(pending[u]) : /\ pending'[u][i] = pending[u][a]
                                          /\ a = IF u = t THEN i + 1 ELSE i
      BY <1>26
    <3>2. PICK b \in 1..Len(pending[v]) : /\ pending'[v][j] = pending[v][b]
                                          /\ b = IF v = t THEN j + 1 ELSE j
      BY <1>26
    <3>3. u = v /\ a = b
      BY <1>2, <2>4, <3>1, <3>2 DEF OneEach
    <3> QED
      BY <3>1, <3>2, <3>3
  <2>5. \A u \in Threads : \A i \in 1..Len(pending'[u]) :
          /\ \A e \in arrived' : e.seq_no # pending'[u][i].seq_no
          /\ \A v \in Threads : \A j \in 1..Len(pending'[v]) :
               pending'[u][i].seq_no = pending'[v][j].seq_no => u = v /\ i = j
    BY <1>29, <1>31, <2>4
  <2> QED
    BY <2>1, <2>2, <2>3, <2>5, Zenon DEF OneEach
<1>33. ASSUME NEW e \in Outstanding, e.seq_no >= stop
       PROVE  e \in Outstanding'
  <2>1. CASE e \in all
    BY <1>9, <1>28, <1>33, <2>1 DEF InPlace
  <2>2. CASE e \notin all
    <3>1. PICK u \in Threads : \E i \in 1..Len(pending[u]) : e = pending[u][i]
      BY <1>7, <1>12, <2>2 DEF InPlace
    <3>2. PICK i \in 1..Len(pending[u]) : e = pending[u][i]
      BY <3>1
    <3>3. CASE u # t
      BY <1>24, <1>28, <3>2, <3>3 DEF InPlace
    <3>4. CASE u = t
      <4>1. i # 1
        BY <1>4, <1>6, <1>7, <2>2, <3>2, <3>4
      <4>2. PICK j \in 1 .. Len(p) - 1 : i = j + 1
        <5>1. i - 1 \in 1 .. Len(p) - 1 /\ i = (i - 1) + 1
          BY <1>4, <1>10, <3>4, <4>1
        <5> QED
          BY <5>1
      <4>3. j \in 1..Len(pending'[t]) /\ pending'[t][j] = e
        BY <1>4, <1>24, <1>25, <3>2, <3>4, <4>2
      <4> QED
        BY <1>28, <4>3 DEF InPlace
    <3> QED
      BY <3>3, <3>4
  <2> QED
    BY <2>1, <2>2
<1>34. /\ Len(F) = Len(log) + (last_id - next) /\ Len(log) \in Nat
       /\ \A j \in 1..Len(log) : F[j] = log[j]
       /\ \A j \in 1 .. last_id - next : /\ F[Len(log) + j] \in Outstanding
                                         /\ F[Len(log) + j].seq_no = next + j - 1
  BY <1>1, <1>11 DEF Full, IsFullLog
<1>35. ASSUME NEW j \in 1 .. stop - next
       PROVE  F[Len(log) + j] = s[j]
  <2>1. j \in 1 .. last_id - next
    BY <1>3, <1>18
  <2>2. s[j] \in Outstanding /\ s[j].seq_no = next + j - 1
    BY <1>13, <1>20
  <2> QED
    BY <1>15, <1>34, <2>1, <2>2
<1>36. IsFullLog(F)'
  <2>1. Len(F) = Len(log') + (last_id' - next')
    BY <1>3, <1>9, <1>18, <1>23, <1>34
  <2>2. ASSUME NEW j \in 1..Len(log')
        PROVE  F[j] = log'[j]
    <3>1. CASE j \in 1..Len(log)
      BY <1>23, <1>34, <3>1
    <3>2. CASE j \notin 1..Len(log)
      <4>1. PICK i \in 1 .. stop - next : j = Len(log) + i
        <5>1. j - Len(log) \in 1 .. stop - next /\ j = Len(log) + (j - Len(log))
          BY <1>3, <1>18, <1>23, <1>34, <3>2
        <5> QED
          BY <5>1
      <4> QED
        BY <1>23, <1>35, <4>1
    <3> QED
      BY <3>1, <3>2
  <2>3. ASSUME NEW j \in 1 .. last_id' - next'
        PROVE  F[Len(log') + j] \in Outstanding' /\ F[Len(log') + j].seq_no = next' + j - 1
    <3>1. PICK i \in 1 .. last_id - next : i = stop - next + j
      BY <1>3, <1>9, <1>18
    <3>2. Len(log') + j = Len(log) + i
      BY <1>3, <1>9, <1>18, <1>23, <1>34, <3>1
    <3>3. F[Len(log) + i] \in Outstanding /\ F[Len(log) + i].seq_no = next + i - 1
      BY <1>34
    <3>4. next + i - 1 = stop + j - 1 /\ stop + j - 1 >= stop
      BY <1>3, <1>9, <1>18, <3>1
    <3>5. F[Len(log) + i] \in Outstanding'
      BY <1>33, <3>3, <3>4
    <3> QED
      BY <1>9, <3>2, <3>3, <3>4, <3>5
  <2> QED
    BY <2>1, <2>2, <2>3 DEF IsFullLog
<1>37. GoodLog(F) /\ Replayed(F) = map' /\ \A n \in 1..Len(F) : F[n].id \in 1 .. last_id' - 1
  BY <1>1, <1>9 DEF Full
<1> QED
  BY <1>27, <1>32, <1>36, <1>37 DEF IInv

(* The number after a restart is larger than every id in the log, and not  *)
(* larger than it was.                                                     *)
LEMMA NextIdBound ==
  ASSUME NEW L, GoodLog(L), NEW b \in Nat \ {0},
         \A n \in 1..Len(L) : L[n].id \in 1 .. b - 1
  PROVE  /\ NextIdAfter(L) \in 1..b
         /\ \A n \in 1..Len(L) : L[n].id \in 1 .. NextIdAfter(L) - 1
<1> DEFINE A == { L[i].id : i \in { j \in 1..Len(L) : ~L[j].rewrite } }
           Top(n) == n \in A /\ \A m \in A : m <= n
<1>1. \A n \in 1..Len(L) : \E a \in A : a = L[n].id
  <2> TAKE n \in 1..Len(L)
  <2>1. L \in Seq(Event) /\ Len(L) \in Nat
    BY DEF GoodLog
  <2>2. PICK i \in 1..n : ~L[i].rewrite /\ L[i].id = L[n].id
    BY DEF GoodLog, Rooted
  <2>3. i \in 1..Len(L)
    BY <2>1
  <2> QED
    BY <2>2, <2>3
<1>2. A \subseteq 1 .. b - 1
  OBVIOUS
<1>3. CASE A = {}
  <2>1. NextIdAfter(L) = 1
    BY <1>3 DEF NextIdAfter
  <2>2. \A n \in 1..Len(L) : FALSE
    <3> HIDE DEF A
    <3> QED
      BY <1>1, <1>3
  <2>3. NextIdAfter(L) \in 1..b
    BY <2>1
  <2> QED
    BY <2>2, <2>3
<1>4. CASE A # {}
  <2> HIDE DEF A
  <2>1. A \in SUBSET Nat /\ \A x \in A : x <= b
    BY <1>2
  <2>2. \E n \in A : \A m \in A : m <= n
    BY <1>4, <2>1, GreatestNat
  <2>3. PICK c : c = CHOOSE n \in A : \A m \in A : m <= n
    OBVIOUS
  <2>4. c \in A /\ \A m \in A : m <= c
    BY <2>2, <2>3, Zenon
  <2>5. NextIdAfter(L) = c + 1
    BY <1>4, <2>3 DEF NextIdAfter, A
  <2>6. c \in 1 .. b - 1
    BY <1>2, <2>4
  <2>7. NextIdAfter(L) \in 1..b
    BY <2>5, <2>6
  <2>8. ASSUME NEW n \in 1..Len(L)
        PROVE  L[n].id \in 1 .. NextIdAfter(L) - 1
    <3>1. PICK a \in A : a = L[n].id
      BY <1>1
    <3>2. a \in 1 .. b - 1 /\ a <= c
      BY <1>2, <2>4
    <3> QED
      BY <2>5, <2>6, <3>1, <3>2
  <2> QED
    BY <2>7, <2>8
<1> QED
  BY <1>3, <1>4

(* A restart keeps the invariant: the full log is what survived. *)
LEMMA InvRestart ==
  ASSUME IInv, Restart
  PROVE  IInv'
<1> USE BinlogKeyValueAssumption
<1>1. PICK F \in Seq(Event) : Full(F)
  BY DEF IInv, Full
<1>2. log \in Seq(Event) /\ Len(log) \in Nat /\ last_id \in Nat \ {0} /\ last_id <= MaxSeqNo + 1
  BY DEF IInv, Types
<1>3. PICK n \in 0..Len(log) : log' = SubSeq(log, 1, n)
  BY DEF Restart
<1>4. PICK L \in Seq(Event) : L = log'
  BY <1>2, <1>3
<1>5. L = Prefix(F, n) /\ Len(L) = n /\ n \in 0..Len(F) /\ \A i \in 1..n : L[i] = F[i]
  <2>1. /\ Len(F) = Len(log) + (last_id - next) /\ \A j \in 1..Len(log) : F[j] = log[j]
    BY <1>1 DEF Full, IsFullLog
  <2>2. next \in 1..last_id
    BY DEF IInv, Types
  <2>3. n \in 0..Len(F)
    BY <1>2, <2>1, <2>2
  <2>4. Len(L) = n /\ \A i \in 1..n : L[i] = log[i] /\ i \in 1..Len(log)
    BY <1>2, <1>3, <1>4
  <2>5. \A i \in 1..n : L[i] = F[i]
    BY <2>1, <2>4
  <2>6. Len(L) <= Len(F) /\ \A i \in 1..Len(L) : L[i] = F[i]
    BY <2>3, <2>4, <2>5
  <2>7. L = Prefix(F, Len(L))
    BY <2>6, PrefixIs
  <2> QED
    BY <2>3, <2>4, <2>5, <2>7
<1>6. GoodLog(L)
  BY <1>1, <1>5, GoodPrefix DEF Full
<1>7. \A i \in 1..Len(L) : L[i].id \in 1 .. last_id - 1
  BY <1>1, <1>5 DEF Full
<1>8. PICK c : c = NextIdAfter(L)
  OBVIOUS
<1>9. c \in 1..last_id /\ \A i \in 1..Len(L) : L[i].id \in 1 .. c - 1
  BY <1>2, <1>6, <1>7, <1>8, NextIdBound
<1>10. /\ map' = Replayed(L) /\ last_id' = c /\ next' = c
       /\ pending' = [t \in Threads |-> <<>>] /\ arrived' = {}
  BY <1>4, <1>8 DEF Restart
<1>11. pending' \in [Threads -> Seq(Event)] /\ \A t \in Threads : Len(pending'[t]) = 0
  BY <1>10
<1>12. Types'
  <2>1. c \in Nat \ {0} /\ c <= MaxSeqNo + 1 /\ c \in 1..c
    BY <1>2, <1>9
  <2> QED
    BY <1>4, <1>10, <1>11, <2>1 DEF Types
<1>13. \A e : e \notin Outstanding'
  <2>1. \A e : e \in Outstanding' <=> InPlace(arrived', pending', e)
    BY <1>11, OutstandingIs DEF Outstanding
  <2> QED
    BY <1>10, <1>11, <2>1 DEF InPlace
<1>14. OneEach'
  BY <1>10, <1>11, <1>13 DEF OneEach
<1>15. IsFullLog(L)'
  <2>1. Len(L) = Len(log') + (last_id' - next') /\ last_id' - next' = 0
    BY <1>4, <1>9, <1>10
  <2> QED
    BY <1>4, <2>1 DEF IsFullLog
<1>16. \A i \in 1..Len(L) : L[i].id \in 1 .. last_id' - 1
  BY <1>9, <1>10
<1> QED
  BY <1>6, <1>10, <1>12, <1>14, <1>15, <1>16 DEF IInv

LEMMA EmptyIsSeq ==
  ASSUME NEW S
  PROVE  <<>> \in Seq(S)
OBVIOUS

(* The invariant holds at the start. *)
LEMMA InvInit ==
  ASSUME Init
  PROVE  IInv
<1> USE BinlogKeyValueAssumption
<1>1. /\ last_id = 1 /\ next = 1 /\ arrived = {} /\ log = <<>> /\ map = EmptyMap
      /\ pending = [t \in Threads |-> <<>>]
  BY DEF Init
<1>2. Types
  BY <1>1 DEF Types
<1>3. \A t \in Threads : Len(pending[t]) = 0
  BY <1>1
<1>4. \A e : e \notin Outstanding
  <2>1. \A e : e \in Outstanding <=> InPlace(arrived, pending, e)
    BY <1>2, OutstandingIs DEF Outstanding, Types
  <2> QED
    BY <1>1, <1>3, <2>1 DEF InPlace
<1>5. OneEach
  BY <1>1, <1>3, <1>4 DEF OneEach
<1>6. PICK F \in Seq(Event) : F = <<>>
  BY EmptyIsSeq
<1>7. Len(F) = 0 /\ IsFullLog(F)
  BY <1>1, <1>6 DEF IsFullLog
<1>8. Live(F) = {}
  BY <1>6 DEF Live, Range
<1>9. Prefix(F, 0) = F
  BY <1>6, <1>7, PrefixAll
<1>10. Settled(F)
  BY <1>8 DEF Settled
<1>11. \A n \in 0..Len(F) : Settled(Prefix(F, n))
  BY <1>7, <1>9, <1>10
<1>12. GoodLog(F)
  BY <1>7, <1>11 DEF GoodLog
<1>13. Replayed(F) = map
  <2>1. DOMAIN map = {} /\ map = [k \in DOMAIN map |-> map[k]]
    BY <1>1 DEF EmptyMap
  <2> QED
    BY <1>8, <1>10, <2>1, ReplayedEquals
<1>14. \A n \in 1..Len(F) : F[n].id \in 1 .. last_id - 1
  BY <1>7
<1> QED
  BY <1>2, <1>5, <1>7, <1>12, <1>13, <1>14 DEF IInv
-----------------------------------------------------------------------------
(* Every step of a thread and every restart keeps the inductive invariant. *)
LEMMA InvNext ==
  ASSUME IInv, [Next]_vars
  PROVE  IInv'
<1>1. ASSUME NEW t \in Threads, NEW k \in Keys, NEW v \in Vals, Set(t, k, v)
      PROVE  IInv'
  BY <1>1, InvSet
<1>2. ASSUME NEW t \in Threads, NEW k \in Keys, Erase(t, k)
      PROVE  IInv'
  BY <1>2, InvErase
<1>3. ASSUME NEW t \in Threads, NEW prefix \in KeyGroups, EraseByPrefix(t, prefix)
      PROVE  IInv'
  BY <1>3, InvEraseByPrefix
<1>4. ASSUME NEW t \in Threads, AddEvent(t)
      PROVE  IInv'
  BY <1>4, InvAddEvent
<1>5. CASE Restart
  BY <1>5, InvRestart
<1>6. CASE UNCHANGED vars
  <2>1. /\ map' = map /\ last_id' = last_id /\ pending' = pending /\ arrived' = arrived
        /\ next' = next /\ log' = log
    BY <1>6 DEF vars
  <2>2. Types' /\ OneEach'
    BY <2>1 DEF IInv, Types, OneEach, Outstanding
  <2>3. PICK F \in Seq(Event) : Full(F)
    BY DEF IInv, Full
  <2>4. IsFullLog(F)'
    BY <2>1, <2>3 DEF Full, IsFullLog, Outstanding
  <2> QED
    BY <2>1, <2>2, <2>3, <2>4 DEF IInv, Full
<1> QED
  BY <1>1, <1>2, <1>3, <1>4, <1>5, <1>6 DEF Next

(***************************************************************************)
(* The inductive invariant of the key-value store: every numbered event is *)
(* in one place, and the full log replays, at each of its prefixes, to the *)
(* map as it was under the lock when the prefix's last event was numbered. *)
(***************************************************************************)
THEOREM Invariance == Spec => []IInv
<1>1. Init => IInv
  BY InvInit
<1>2. IInv /\ [Next]_vars => IInv'
  BY InvNext
<1> QED
  BY <1>1, <1>2, PTL DEF Spec

(* The log itself is good. *)
LEMMA LogIsPrefix ==
  ASSUME IInv
  PROVE  GoodLog(log)
<1>1. PICK F \in Seq(Event) : Full(F)
  BY DEF IInv, Full
<1>2. log \in Seq(Event) /\ Len(log) \in Nat /\ last_id \in Nat /\ next \in 1..last_id
  BY DEF IInv, Types
<1>3. Len(F) = Len(log) + (last_id - next) /\ \A j \in 1..Len(log) : F[j] = log[j]
  BY <1>1 DEF Full, IsFullLog
<1>4. PICK L \in Seq(Event) : L = log
  BY <1>2
<1>5. Len(L) \in 0..Len(F) /\ Len(L) <= Len(F) /\ \A i \in 1..Len(L) : L[i] = F[i]
  BY <1>2, <1>3, <1>4
<1>6. L = Prefix(F, Len(L))
  BY <1>5, PrefixIs
<1> QED
  BY <1>1, <1>4, <1>5, <1>6, GoodPrefix DEF Full

(* Types: a key of map_ always names an event id that was given out. *)
LEMMA TypesFollow ==
  ASSUME IInv
  PROVE  TypeOK
<1>1. PICK F \in Seq(Event) : Full(F)
  BY DEF IInv, Full
<1>2. GoodLog(F) /\ map = Replayed(F) /\ \A n \in 1..Len(F) : F[n].id \in 1 .. last_id - 1
  BY <1>1 DEF Full
<1>3. /\ DOMAIN map \subseteq Keys
      /\ \A k \in DOMAIN map : map[k].val \in Vals /\ \E i \in 1..Len(F) : F[i].id = map[k].id
  BY <1>2, ReplayedType
<1>4. \A k \in DOMAIN map : map[k].val \in Vals /\ map[k].id \in 1 .. last_id - 1
  BY <1>2, <1>3
<1>5. Types
  BY DEF IInv
<1> QED
  BY <1>3, <1>4, <1>5 DEF TypeOK, Types

(***************************************************************************)
(* Types of the map, the events and the numbers, and that the id map_      *)
(* keeps for a key was given out before, for any set of threads and keys.  *)
(***************************************************************************)
THEOREM TypeCorrect == Spec => []TypeOK
<1>1. IInv => TypeOK
  BY TypesFollow
<1> QED
  BY <1>1, Invariance, PTL

(* The snapshots follow from the invariant. *)
LEMMA SnapshotFollows ==
  ASSUME IInv
  PROVE  RestartIsSnapshot
<1>1. GoodLog(log)
  BY LogIsPrefix
<1>2. \A n \in 1..Len(log) : Values(Replayed(SubSeq(log, 1, n))) = log[n].view
  BY <1>1 DEF GoodLog, Prefix
<1>3. ASSUME \A t \in Threads : Idle(t)
      PROVE  arrived = {} /\ Replayed(log) = map
  <2>1. Types /\ OneEach
    BY DEF IInv
  <2>2. \A e : e \in Outstanding <=> e \in arrived
    <3>1. \A e : e \in Outstanding <=> InPlace(arrived, pending, e)
      BY <2>1, OutstandingIs DEF Outstanding, Types
    <3>2. \A t \in Threads : pending[t] = <<>>
      BY <1>3 DEF Idle
    <3>3. \A t \in Threads : Len(pending[t]) = 0
      BY <3>2
    <3> QED
      BY <3>1, <3>3 DEF InPlace
  <2>3. PICK F \in Seq(Event) : Full(F)
    BY DEF IInv, Full
  <2>4. last_id \in Nat /\ next \in 1..last_id /\ log \in Seq(Event) /\ Len(log) \in Nat
    BY <2>1 DEF Types
  <2>5. next = last_id
    <3>1. SUFFICES ASSUME next # last_id
                   PROVE  FALSE
      OBVIOUS
    <3>2. 1 \in 1 .. last_id - next
      BY <2>4, <3>1
    <3>3. PICK e \in Outstanding : e.seq_no = next + 1 - 1
      BY <2>3, <3>2 DEF Full, IsFullLog
    <3>4. e.seq_no = next
      BY <2>4, <3>3
    <3> QED
      BY <2>1, <2>2, <3>4 DEF OneEach
  <2>6. arrived = {}
    <3>1. ASSUME NEW e \in arrived
          PROVE  FALSE
      <4>1. e.seq_no \in next .. last_id - 1
        BY <2>1, <2>2 DEF OneEach
      <4> QED
        BY <2>4, <2>5, <4>1
    <3> QED
      BY <3>1
  <2>7. Len(F) = Len(log) /\ \A j \in 1..Len(log) : F[j] = log[j]
    BY <2>3, <2>4, <2>5 DEF Full, IsFullLog
  <2>8. F = log
    BY <2>4, <2>7
  <2> QED
    BY <2>3, <2>6, <2>8 DEF Full
<1> QED
  BY <1>2, <1>3 DEF RestartIsSnapshot

(***************************************************************************)
(* Restarting from any prefix of the log gives the map as it was when the  *)
(* prefix's last event was numbered, although set, erase and               *)
(* erase_by_prefix hand their events over after they have released the     *)
(* lock, in any order; and when no thread holds an event back, the log     *)
(* gives the map as it is.  For any number of threads, keys, values,       *)
(* numbers and restarts.                                                   *)
(***************************************************************************)
THEOREM Snapshots == Spec => []RestartIsSnapshot
<1>1. IInv => RestartIsSnapshot
  BY SnapshotFollows
<1> QED
  BY <1>1, Invariance, PTL

(* That events are accepted follows from the invariant. *)
LEMMA AcceptedFollows ==
  ASSUME IInv
  PROVE  NoEventRejected
<1>1. GoodLog(log) /\ log \in Seq(Event) /\ Len(log) \in Nat
  BY LogIsPrefix DEF GoodLog
<1>2. ASSUME NEW n \in 1..Len(log)
      PROVE  IF log[n].rewrite
               THEN \E e \in Live(SubSeq(log, 1, n - 1)) : e.id = log[n].id
               ELSE \A i \in 1..n - 1 : log[i].id < log[n].id
  <2>1. Accepted(Prefix(log, n - 1), log[n])
    BY <1>1 DEF GoodLog
  <2>2. n - 1 \in 0..Len(log)
    BY <1>1
  <2>3. Len(Prefix(log, n - 1)) = n - 1 /\ \A i \in 1 .. n - 1 : Prefix(log, n - 1)[i] = log[i]
    BY <1>1, <2>2, PrefixType
  <2>4. CASE log[n].rewrite
    BY <2>1, <2>4 DEF Accepted, Prefix
  <2>5. CASE ~log[n].rewrite
    BY <2>1, <2>3, <2>5 DEF Accepted
  <2> QED
    BY <2>4, <2>5
<1> QED
  BY <1>2 DEF NoEventRejected

(***************************************************************************)
(* The events processor accepts every event of the log: a rewrite or an    *)
(* erase names an event that is live where it stands, and additions have   *)
(* increasing ids, also after a restart that numbers events again.         *)
(***************************************************************************)
THEOREM NeverRejected == Spec => []NoEventRejected
<1>1. IInv => NoEventRejected
  BY AcceptedFollows
<1> QED
  BY <1>1, Invariance, PTL
=============================================================================
