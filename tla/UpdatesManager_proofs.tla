----------------------- MODULE UpdatesManager_proofs -----------------------
(***************************************************************************)
(* Proofs about UpdatesManager, for any sequence of updates, any number of *)
(* containers and troubles and any thresholds: no update is skipped or     *)
(* applied twice while the process runs, the CHECKs hold, gaps are         *)
(* watched, and containers are processed in order, as long as the server   *)
(* sends no pts in an updateShort while an answer is awaited.              *)
(*                                                                         *)
(* A handler is a composition of operators on the client's record, so the  *)
(* invariant is stated for such a record (Sound), with the number of the   *)
(* server's update up to which the client has applied everything, and each *)
(* operator is shown to keep it.  What is under way to the client comes    *)
(* with the steps (Holds).                                                 *)
(***************************************************************************)
EXTENDS UpdatesManager, FiniteSetTheorems, SequenceTheorems, WellFoundedInduction, TLAPS

(* A non-empty set of natural numbers has a least element. *)
LEMMA LeastNat ==
  ASSUME NEW T \in SUBSET Nat, T # {}
  PROVE  \E x \in T : \A y \in T : x <= y
<1>1. IsWellFoundedOn({ss \in Nat \X Nat : ss[1] < ss[2]}, Nat)
  BY NatLessThanWellFounded, Zenon DEF OpToRel
<1>2. PICK R : /\ IsWellFoundedOn(R, Nat)
               /\ \A x, y \in Nat : y < x => <<y, x>> \in R
  <2>1. \A x, y \in Nat : y < x => <<y, x>> \in {ss \in Nat \X Nat : ss[1] < ss[2]}
    OBVIOUS
  <2> QED
    BY <1>1, <2>1, Zenon
<1>3. PICK x \in T : \A y \in T : ~(<<y, x>> \in R)
  BY <1>2, WFMin
<1>4. ASSUME NEW y \in T
      PROVE  x <= y
  <2>1. ~(y < x)
    BY <1>2, <1>3, Zenon
  <2> QED
    BY <2>1
<1> QED
  BY <1>4

(* A non-empty set of natural numbers with an upper bound has a greatest   *)
(* element.                                                                *)
LEMMA GreatestNat ==
  ASSUME NEW T \in SUBSET Nat, T # {}, NEW most \in Nat, \A x \in T : x <= most
  PROVE  \E x \in T : \A y \in T : y <= x
<1> DEFINE U == { m \in Nat : \E x \in T : m = most - x }
<1>1. \A x \in T : most - x \in U
  OBVIOUS
<1>2. U \in SUBSET Nat /\ U # {}
  BY <1>1
<1>3. PICK m \in U : \A k \in U : m <= k
  BY <1>2, LeastNat
<1>4. PICK x \in T : m = most - x
  OBVIOUS
<1>5. \A y \in T : y <= x
  BY <1>1, <1>3, <1>4
<1> QED
  BY <1>5
-----------------------------------------------------------------------------
(* What there is when the server has made N updates and S containers.  R   *)
(* says how often it has reset the pts, how many differences were too long *)
(* and how many short updates were early.                                  *)
Misfortunes == [resets : Nat, tooLongs : Nat, shorts : Nat]

Grows(R, R2) == R.resets <= R2.resets /\ R.tooLongs <= R2.tooLongs

(* updates may have been given up *)
Excused(R) == R.resets > 0 \/ R.tooLongs > 0

Reached(N) == { PtsAt(k) : k \in 0..N }

Updates(N) == { Update(k) : k \in 1..N }

(* what tells a pts at most *)
Telling(N) == [pts : {0} \cup Reached(N), cnt : {0}]

Containers(N, S, R) ==
  { m \in [seq : 0..S, upd : Updates(N) \cup Telling(N), other : {"none", "plain", "reset"},
           sort : AllSorts] : m.other = "reset" => R.resets > 0 }

(* the members of UpdatesManager and MessagesManager *)
Fields ==
  { "pts", "acks", "stored", "pending_updates", "postponed_pts_updates", "accumulated_pts",
    "accumulated_pts_count", "pts_gap_timeout", "seq", "postponed_updates",
    "pending_seq_updates", "seq_gap_timeout", "retry_timeout", "running", "asked",
    "last_get_difference_pts", "passed", "skipped", "base", "seqs", "fatal" }

IsClient(d) == d = [f \in Fields |-> d[f]]

(* no CHECK has failed *)
NotFatal(d) == d.fatal = FALSE

Alone(d) ==
  /\ d.running \in {"no", "state", "difference"}
  /\ d.running # "no" => d.pending_updates = {} /\ d.accumulated_pts = -1
  /\ NotFatal(d)

(* the positions that updates cover *)
Cover(us) == UNION { u.pts - u.cnt + 1 .. u.pts : u \in us }

(* accumulated_pts_count_ counts the positions that the pending updates    *)
(* cover, which are between the pts and accumulated_pts_.                  *)
Accumulated(d, N) ==
  /\ d.pending_updates \subseteq Updates(N)
  /\ \A u \in d.pending_updates : d.pts <= u.pts - u.cnt /\ u.pts <= d.accumulated_pts
  /\ d.accumulated_pts \in {-1} \cup Reached(N)
  /\ d.accumulated_pts_count = Cardinality(Cover(d.pending_updates))
  /\ d.accumulated_pts # -1 => d.pts < d.accumulated_pts /\ d.pts_gap_timeout

Positioned(d, N, R) ==
  /\ d.pts \in {NoPts, MaxPts} \cup Reached(N)
  /\ d.stored \in {NoPts} \cup Reached(N)
  /\ d.acks \in Seq({MaxPts} \cup Reached(N))
  /\ d.pts = NoPts => d.stored = NoPts /\ d.acks = <<>>
  /\ d.running = "difference" => d.asked = d.pts /\ d.pts # NoPts
  /\ d.running = "state" => d.pts \in {NoPts, MaxPts}
  /\ d.pts = MaxPts => R.resets > 0
  /\ d.skipped # {} => Excused(R)

(* The client has applied what there is between its base and the t-th      *)
(* update, and saves nothing that is after it.                             *)
Timeline(d, t) ==
  /\ \E b \in 0..t : d.base = PtsAt(b) /\ d.passed = SubSeq(Ends, b + 1, t)
  /\ d.stored <= PtsAt(t)
  /\ \A i \in 1..Len(d.acks) : d.acks[i] # MaxPts => d.acks[i] <= PtsAt(t)

Held(d) ==
  d.pending_updates \cup d.postponed_pts_updates
    \cup { d.postponed_updates[i].upd : i \in 1..Len(d.postponed_updates) }

(* The client holds no update twice. *)
Once(d, N, S, R) ==
  /\ d.postponed_updates \in Seq(Containers(N, S, R))
  /\ d.postponed_pts_updates \subseteq Updates(N)
  /\ d.pending_updates \cap d.postponed_pts_updates = {}
  /\ \A i \in 1..Len(d.postponed_updates) : d.postponed_updates[i].upd.cnt > 0 =>
       /\ d.postponed_updates[i].upd \notin d.pending_updates \cup d.postponed_pts_updates
       /\ \A j \in 1..Len(d.postponed_updates) :
            d.postponed_updates[i].upd = d.postponed_updates[j].upd => i = j

Sequenced(d, N, S, R) ==
  /\ d.seq \in 0..S
  /\ d.seqs = 1..d.seq
  /\ IsFiniteSet(d.pending_seq_updates)
  /\ d.pending_seq_updates \subseteq Containers(N, S, R)
  /\ \A m \in d.pending_seq_updates : m.seq > 0

Body(d, t, N, S, R) ==
  /\ IsClient(d)
  /\ Alone(d)
  /\ Accumulated(d, N)
  /\ Positioned(d, N, R)
  /\ Timeline(d, t)
  /\ Once(d, N, S, R)
  /\ Sequenced(d, N, S, R)

(* The t-th update is the one that the pts tells, unless it is a mark. *)
Sound(d, t, N, S, R) ==
  /\ Body(d, t, N, S, R)
  /\ Known(d.pts) => d.pts = PtsAt(t)

(* An unknown pts and a gap in seq are watched. *)
Watched(d, R) ==
  /\ ~Known(d.pts) => d.running # "no" \/ d.retry_timeout
  /\ d.pending_seq_updates # {} /\ R.resets = 0 => d.seq_gap_timeout \/ d.running # "no" \/ d.retry_timeout

(* Postponed updates are watched. *)
PostponedWatched(d) ==
  d.postponed_updates # <<>> \/ d.postponed_pts_updates # {} => d.running # "no" \/ d.retry_timeout

(* What is on its way is not held by the client and is there once. *)
Flying(d, ms, us, N, S, R) ==
  /\ ms \subseteq Containers(N, S, R)
  /\ us \subseteq Updates(N)
  /\ us \cap Held(d) = {}
  /\ \A m \in ms : m.upd.cnt > 0 =>
       /\ m.upd \notin Held(d) \cup us
       /\ \A k \in ms : k.upd = m.upd => k = m

Replies(N, S) ==
  [type : {"none", "state", "empty", "full", "slice", "tooLong", "invalid", "failed"},
   pts : {0} \cup Reached(N), seq : 0..S, reset : BOOLEAN]

(* The reply r answers what the client is asking. *)
Answering(d, r, t, N, S, R) ==
  /\ r \in Replies(N, S)
  /\ r.type = "none" => r = NoReply
  /\ r.type # "none" => d.running # "no"
  /\ r.type = "state" => d.running = "state" /\ PtsAt(t) <= r.pts
  /\ r.type \in {"empty", "full", "slice", "tooLong", "invalid"} => d.running = "difference"
  /\ r.type = "empty" => Known(d.asked)
  /\ r.type \in {"full", "slice", "tooLong"} => Known(d.asked) /\ d.asked < r.pts
  /\ r.type = "invalid" => d.asked = MaxPts
  /\ r.type \in {"state", "empty", "full", "slice", "tooLong"} =>
       r.pts \in Reached(N) \/ r.type = "empty"
  /\ r.type \in {"state", "empty", "full", "slice"} =>
       \A m \in d.pending_seq_updates : m.seq <= r.seq
  /\ r.type = "tooLong" => R.tooLongs > 0
  /\ r.reset => R.resets > 0

(* d is the client, r the reply to it, ms and us are on their way to it; *)
(* there have been k troubles.                                           *)
Holds(d, r, ms, us, N, S, k, R) ==
  /\ N \in 0..Len(Ends) /\ S \in 0..MaxSeq /\ k \in Nat /\ R \in Misfortunes
  /\ \E t \in 0..N : Sound(d, t, N, S, R) /\ Answering(d, r, t, N, S, R)
  /\ Watched(d, R) /\ PostponedWatched(d)
  /\ Flying(d, ms, us, N, S, R)

(* ... of the client as it is now *)
Regular == Holds(c, reply, net, answers, n, s, troubles, odd)

(* The inductive invariant: nothing is known of a client once a short      *)
(* update has come early.                                                  *)
IInv == odd \in Misfortunes /\ (NoEarlyShort => Regular)
-----------------------------------------------------------------------------
(* Positions and the updates between them. *)
LEMMA PtsNext ==
  ASSUME NEW k \in 1..Len(Ends)
  PROVE  PtsAt(k - 1) < PtsAt(k) /\ PtsAt(k) = Ends[k]
  BY UpdatesManagerAssumption, SMTT(30) DEF PtsAt

LEMMA PtsType ==
  ASSUME NEW k \in 0..Len(Ends)
  PROVE  PtsAt(k) \in Nat /\ 1 <= PtsAt(k) /\ FirstPts <= PtsAt(k) /\ PtsAt(k) < MaxPts
<1> DEFINE Bad == { i \in 0..Len(Ends) : ~(FirstPts <= PtsAt(i)) }
<1>0. FirstPts \in Nat /\ 1 <= FirstPts /\ MaxPts \in Nat
  BY UpdatesManagerAssumption
<1>1. \A i \in 0..Len(Ends) : PtsAt(i) \in Nat /\ PtsAt(i) < MaxPts
  BY UpdatesManagerAssumption DEF PtsAt
<1>2. ASSUME Bad # {} PROVE FALSE
  <2>1. Bad \in SUBSET Nat
    BY UpdatesManagerAssumption
  <2>2. PICK i \in Bad : \A j \in Bad : i <= j
    BY <1>2, <2>1, LeastNat
  <2>3. i # 0
    BY UpdatesManagerAssumption DEF PtsAt
  <2>4. i - 1 \in 0..Len(Ends) /\ i \in 1..Len(Ends)
    BY <2>3, UpdatesManagerAssumption
  <2>5. FirstPts <= PtsAt(i - 1)
    BY <2>2, <2>4
  <2>6. PtsAt(i) > PtsAt(i - 1)
    BY <2>4, PtsNext
  <2>7. PtsAt(i) \in Nat /\ PtsAt(i - 1) \in Nat /\ ~(FirstPts <= PtsAt(i))
    BY <1>1, <2>2, <2>4
  <2> QED
    BY <2>5, <2>6, <2>7, <1>0
<1>3. FirstPts <= PtsAt(k) /\ PtsAt(k) \in Nat /\ PtsAt(k) < MaxPts
  BY <1>1, <1>2
<1> QED
  BY <1>3, <1>0

LEMMA PtsIncrease ==
  ASSUME NEW i \in 0..Len(Ends), NEW j \in 0..Len(Ends), i < j
  PROVE  PtsAt(i) < PtsAt(j)
<1> DEFINE Bad == { x \in 0..Len(Ends) : i < x /\ ~(PtsAt(i) < PtsAt(x)) }
<1>1. Len(Ends) \in Nat
  BY UpdatesManagerAssumption
<1>2. ASSUME Bad # {} PROVE FALSE
  <2>1. Bad \in SUBSET Nat
    BY <1>1
  <2>2. PICK x \in Bad : \A y \in Bad : x <= y
    BY <1>2, <2>1, LeastNat
  <2>3. x - 1 \in 0..Len(Ends) /\ x \in 1..Len(Ends)
    BY <1>1
  <2>4. PtsAt(x - 1) < PtsAt(x)
    BY <2>3, PtsNext
  <2>5. PtsAt(i) <= PtsAt(x - 1)
    <3>1. CASE x - 1 = i
      BY <3>1, PtsType, <2>3
    <3>2. CASE x - 1 # i
      <4>1. i < x - 1
        BY <3>2, <1>1
      <4>2. x - 1 \notin Bad
        BY <2>2, <1>1
      <4> QED
        BY <4>1, <4>2, <2>3, PtsType
    <3> QED
      BY <3>1, <3>2
  <2> QED
    BY <2>3, <2>4, <2>5, PtsType
<1> QED
  BY <1>2

LEMMA PtsInjective ==
  ASSUME NEW i \in 0..Len(Ends), NEW j \in 0..Len(Ends)
  PROVE  /\ PtsAt(i) = PtsAt(j) => i = j
         /\ PtsAt(i) < PtsAt(j) => i < j
         /\ PtsAt(i) <= PtsAt(j) => i <= j
         /\ i <= j => PtsAt(i) <= PtsAt(j)
<1>1. Len(Ends) \in Nat
  BY UpdatesManagerAssumption
<1>2. PtsAt(i) \in Nat /\ PtsAt(j) \in Nat
  BY PtsType
<1>3. i < j => PtsAt(i) < PtsAt(j)
  BY PtsIncrease
<1>4. j < i => PtsAt(j) < PtsAt(i)
  BY PtsIncrease
<1> QED
  BY <1>1, <1>2, <1>3, <1>4

LEMMA UpdateIs ==
  ASSUME NEW k \in 1..Len(Ends)
  PROVE  /\ Update(k) \in [pts : Nat, cnt : Nat]
         /\ Update(k).pts = PtsAt(k) /\ Update(k).cnt = PtsAt(k) - PtsAt(k - 1)
         /\ Update(k).cnt > 0
         /\ Update(k).pts - Update(k).cnt = PtsAt(k - 1)
<1>1. k - 1 \in 0..Len(Ends) /\ k \in 0..Len(Ends)
  BY UpdatesManagerAssumption
<1>2. PtsAt(k) \in Nat /\ PtsAt(k - 1) \in Nat
  BY <1>1, PtsType
<1>3. PtsAt(k - 1) < PtsAt(k)
  BY PtsNext
<1> QED
  BY <1>2, <1>3 DEF Update

(* Updates cover different positions. *)
LEMMA UpdatesApart ==
  ASSUME NEW N \in 0..Len(Ends), NEW u \in Updates(N), NEW v \in Updates(N), u # v
  PROVE  (u.pts - u.cnt + 1 .. u.pts) \cap (v.pts - v.cnt + 1 .. v.pts) = {}
<1>1. Len(Ends) \in Nat
  BY UpdatesManagerAssumption
<1>2. PICK i \in 1..N : u = Update(i)
  BY DEF Updates
<1>3. PICK j \in 1..N : v = Update(j)
  BY DEF Updates
<1>4. i \in 1..Len(Ends) /\ j \in 1..Len(Ends) /\ i # j
  BY <1>1, <1>2, <1>3
<1>5. i - 1 \in 0..Len(Ends) /\ j - 1 \in 0..Len(Ends) /\ i \in 0..Len(Ends) /\ j \in 0..Len(Ends)
  BY <1>1, <1>4
<1>6. PtsAt(i) \in Nat /\ PtsAt(j) \in Nat /\ PtsAt(i - 1) \in Nat /\ PtsAt(j - 1) \in Nat
  BY <1>5, PtsType
<1>7. u.pts = PtsAt(i) /\ u.pts - u.cnt = PtsAt(i - 1) /\ v.pts = PtsAt(j) /\ v.pts - v.cnt = PtsAt(j - 1)
  BY <1>2, <1>3, <1>4, UpdateIs
<1>8. CASE i < j
  <2>1. i <= j - 1
    BY <1>8, <1>4, <1>1
  <2>2. PtsAt(i) <= PtsAt(j - 1)
    BY <2>1, <1>5, PtsInjective
  <2> QED
    BY <2>2, <1>6, <1>7
<1>9. CASE j < i
  <2>1. j <= i - 1
    BY <1>9, <1>4, <1>1
  <2>2. PtsAt(j) <= PtsAt(i - 1)
    BY <2>1, <1>5, PtsInjective
  <2> QED
    BY <2>2, <1>6, <1>7
<1> QED
  BY <1>4, <1>8, <1>9, <1>1

LEMMA UpdatesType ==
  ASSUME NEW N \in 0..Len(Ends), NEW u \in Updates(N)
  PROVE  /\ u \in [pts : Nat, cnt : Nat] /\ u.cnt > 0
         /\ u.pts - u.cnt \in Nat /\ FirstPts <= u.pts - u.cnt
         /\ u.pts \in Reached(N)
         /\ u.pts < MaxPts
<1>1. Len(Ends) \in Nat
  BY UpdatesManagerAssumption
<1>2. PICK i \in 1..N : u = Update(i)
  BY DEF Updates
<1>3. i \in 1..Len(Ends) /\ i - 1 \in 0..Len(Ends) /\ i \in 0..Len(Ends) /\ i \in 0..N
  BY <1>1
<1>4. PtsAt(i - 1) \in Nat /\ FirstPts <= PtsAt(i - 1) /\ PtsAt(i) < MaxPts
  BY <1>3, PtsType
<1>5. u.pts - u.cnt = PtsAt(i - 1) /\ u.pts = PtsAt(i) /\ u \in [pts : Nat, cnt : Nat] /\ u.cnt > 0
  BY <1>2, <1>3, UpdateIs
<1> QED
  BY <1>3, <1>4, <1>5 DEF Reached

LEMMA ReachedType ==
  ASSUME NEW N \in 0..Len(Ends), NEW p \in Reached(N)
  PROVE  p \in Nat /\ 1 <= p /\ p < MaxPts /\ FirstPts <= p /\ Known(p) /\ \E k \in 0..N : p = PtsAt(k)
<1>1. PICK k \in 0..N : p = PtsAt(k)
  BY DEF Reached
<1>2. k \in 0..Len(Ends)
  BY UpdatesManagerAssumption
<1>3. p \in Nat /\ 1 <= p /\ p < MaxPts /\ FirstPts <= p
  BY <1>1, <1>2, PtsType
<1>4. Known(p)
  BY <1>3, UpdatesManagerAssumption DEF Known, NoPts
<1> QED
  BY <1>1, <1>3, <1>4

LEMMA CoverFinite ==
  ASSUME NEW N \in 0..Len(Ends), NEW U \in SUBSET Updates(N)
  PROVE  IsFiniteSet(Cover(U)) /\ Cardinality(Cover(U)) \in Nat
<1>1. MaxPts \in Nat
  BY UpdatesManagerAssumption
<1>2. \A u \in U : u.pts - u.cnt \in Nat /\ u.pts \in Nat /\ u.pts < MaxPts
  BY UpdatesType
<1>3. Cover(U) \in SUBSET (0..MaxPts)
  BY <1>1, <1>2 DEF Cover
<1>4. IsFiniteSet(0..MaxPts)
  BY <1>1, FS_Interval
<1>5. IsFiniteSet(Cover(U))
  BY <1>3, <1>4, FS_Subset
<1> QED
  BY <1>5, FS_CardinalityType

LEMMA CoverAdd ==
  ASSUME NEW N \in 0..Len(Ends), NEW U \in SUBSET Updates(N), NEW u \in Updates(N), u \notin U
  PROVE  Cardinality(Cover(U \cup {u})) = Cardinality(Cover(U)) + u.cnt
<1> DEFINE I == u.pts - u.cnt + 1 .. u.pts
<1>1. u.pts \in Nat /\ u.cnt \in Nat /\ u.cnt > 0 /\ u.pts - u.cnt \in Nat
  BY UpdatesType
<1>2. IsFiniteSet(I) /\ Cardinality(I) = u.cnt
  <2>1. u.pts - u.cnt + 1 \in Int /\ u.pts \in Int /\ ~(u.pts - u.cnt + 1 > u.pts)
    BY <1>1
  <2>2. IsFiniteSet(I) /\ Cardinality(I) = u.pts - (u.pts - u.cnt + 1) + 1
    BY <2>1, FS_Interval
  <2> QED
    BY <2>2, <1>1
<1>3. Cover(U \cup {u}) = Cover(U) \cup I
  BY DEF Cover
<1>4. Cover(U) \cap I = {}
  <2>1. ASSUME NEW v \in U PROVE (v.pts - v.cnt + 1 .. v.pts) \cap I = {}
    BY UpdatesApart
  <2> QED
    BY <2>1 DEF Cover
<1>5. IsFiniteSet(Cover(U)) /\ Cardinality(Cover(U)) \in Nat
  BY CoverFinite
<1>6. Cardinality(Cover(U) \cap I) = 0
  BY <1>4, FS_EmptySet
<1>7. Cardinality(Cover(U) \cup I) = Cardinality(Cover(U)) + Cardinality(I) - Cardinality(Cover(U) \cap I)
  BY <1>2, <1>5, FS_Union
<1> HIDE DEF I
<1>8. Cardinality(Cover(U) \cup I) = Cardinality(Cover(U)) + u.cnt
  BY <1>1, <1>2, <1>5, <1>6, <1>7
<1> QED
  BY <1>3, <1>8

(* U is a set of updates after the position p and up to a. *)
Inside(U, p, a) == \A u \in U : p <= u.pts - u.cnt /\ u.pts <= a

LEMMA CoverBound ==
  ASSUME NEW N \in 0..Len(Ends), NEW U \in SUBSET Updates(N), NEW p \in Int, NEW a \in Int, p <= a,
         Inside(U, p, a)
  PROVE  /\ Cardinality(Cover(U)) <= a - p
         /\ Cardinality(Cover(U)) = a - p => Cover(U) = p + 1 .. a
<1>1. \A u \in U : u.pts - u.cnt \in Nat /\ u.pts \in Nat /\ u.cnt \in Nat
  BY UpdatesType
<1>2. Cover(U) \in SUBSET (p + 1 .. a)
  BY <1>1 DEF Cover, Inside
<1>3. IsFiniteSet(p + 1 .. a) /\ Cardinality(p + 1 .. a) = IF p + 1 > a THEN 0 ELSE a - (p + 1) + 1
  BY FS_Interval
<1>4. Cardinality(p + 1 .. a) = a - p
  BY <1>3
<1>5. Cardinality(Cover(U)) <= Cardinality(p + 1 .. a)
      /\ (Cardinality(p + 1 .. a) = Cardinality(Cover(U)) => p + 1 .. a = Cover(U))
  BY <1>2, <1>3, FS_Subset
<1> QED
  BY <1>4, <1>5

(* U are the updates after the i-th, up to the j-th. *)
AllBetween(U, i, j) == { u.pts : u \in U } = { Ends[k] : k \in i + 1 .. j }

(* Updates that cover everything between two positions are all there are. *)
LEMMA CoverFull ==
  ASSUME NEW N \in 0..Len(Ends), NEW U \in SUBSET Updates(N),
         NEW i \in 0..N, NEW j \in 0..N, i <= j,
         Inside(U, PtsAt(i), PtsAt(j)), Cardinality(Cover(U)) = PtsAt(j) - PtsAt(i)
  PROVE  AllBetween(U, i, j)
<1>1. Len(Ends) \in Nat
  BY UpdatesManagerAssumption
<1>2. i \in 0..Len(Ends) /\ j \in 0..Len(Ends)
  BY <1>1
<1>3. PtsAt(i) \in Nat /\ PtsAt(j) \in Nat /\ PtsAt(i) <= PtsAt(j)
  BY <1>2, PtsType, PtsInjective
<1>4. Cover(U) = PtsAt(i) + 1 .. PtsAt(j)
  BY <1>3, CoverBound
<1>5. ASSUME NEW l \in 1..N
      PROVE  /\ l \in 1..Len(Ends) /\ l \in 0..Len(Ends) /\ l - 1 \in 0..Len(Ends)
             /\ PtsAt(l) \in Nat /\ PtsAt(l - 1) \in Nat /\ PtsAt(l) = Ends[l]
             /\ Update(l).pts = PtsAt(l) /\ Update(l).pts - Update(l).cnt = PtsAt(l - 1)
  <2>1. l \in 1..Len(Ends) /\ l \in 0..Len(Ends) /\ l - 1 \in 0..Len(Ends)
    BY <1>1
  <2> QED
    BY <2>1, PtsType, UpdateIs, PtsNext
<1>6. ASSUME NEW k \in i + 1 .. j PROVE \E u \in U : u.pts = Ends[k]
  <2>1. k \in 1..N /\ i < k /\ k <= j
    BY <1>1
  <2>2. PtsAt(i) < PtsAt(k) /\ PtsAt(k) <= PtsAt(j) /\ PtsAt(k) \in Nat
    BY <2>1, <1>2, <1>5, PtsInjective, PtsIncrease
  <2>3. PtsAt(k) \in Cover(U)
    BY <2>2, <1>3, <1>4
  <2>4. PICK u \in U : PtsAt(k) \in u.pts - u.cnt + 1 .. u.pts
    BY <2>3 DEF Cover
  <2>5. PICK l \in 1..N : u = Update(l)
    BY DEF Updates
  <2>9. u.pts = PtsAt(l) /\ u.pts - u.cnt = PtsAt(l - 1) /\ PtsAt(l) \in Nat /\ PtsAt(l - 1) \in Nat
    BY <2>5, <1>5
  <2>6. PtsAt(l - 1) < PtsAt(k) /\ PtsAt(k) <= PtsAt(l)
    BY <2>2, <2>4, <2>9
  <2>7. l - 1 < k /\ k <= l
    BY <2>1, <2>6, <1>5, PtsInjective
  <2>8. l = k
    BY <2>1, <2>7
  <2> QED
    BY <2>1, <2>5, <2>8, <1>5
<1>7. ASSUME NEW u \in U PROVE \E k \in i + 1 .. j : u.pts = Ends[k]
  <2>1. PICK l \in 1..N : u = Update(l)
    BY DEF Updates
  <2>2. PtsAt(i) <= PtsAt(l - 1) /\ PtsAt(l) <= PtsAt(j)
    BY <2>1, <1>5 DEF Inside
  <2>3. i <= l - 1 /\ l <= j
    BY <2>2, <1>2, <1>5, PtsInjective
  <2>4. l \in i + 1 .. j
    BY <2>3
  <2> QED
    BY <2>1, <2>4, <1>5
<1> QED
  BY <1>6, <1>7, SMTT(30) DEF AllBetween
-----------------------------------------------------------------------------
(* What is applied is a part of the server's updates. *)
LEMMA EndsPart ==
  ASSUME NEW i \in 0..Len(Ends), NEW j \in i..Len(Ends), NEW q, q = SubSeq(Ends, i + 1, j)
  PROVE  /\ q \in Seq(Nat) /\ Len(q) = j - i /\ DOMAIN q = 1 .. j - i
         /\ \A x \in 1 .. j - i : q[x] = PtsAt(i + x) /\ i + x \in 1..Len(Ends)
<1>1. Ends \in Seq(Nat) /\ Len(Ends) \in Nat
  BY UpdatesManagerAssumption
<1>2. \A x \in (i + 1) .. j : Ends[x] \in Nat
  BY <1>1
<1>3. q \in Seq(Nat) /\ Len(q) = (IF i + 1 <= j THEN j - (i + 1) + 1 ELSE 0)
      /\ \A x \in 1 .. j - (i + 1) + 1 : q[x] = Ends[i + 1 + x - 1]
  BY <1>1, <1>2, SubSeqProperties, SMTT(30)
<1>4. Len(q) = j - i
  BY <1>1, <1>3
<1>5. ASSUME NEW x \in 1 .. j - i PROVE q[x] = PtsAt(i + x) /\ i + x \in 1..Len(Ends)
  <2>1. i + x \in 1..Len(Ends) /\ i + 1 + x - 1 = i + x /\ x \in 1 .. j - (i + 1) + 1
    BY <1>1
  <2> QED
    BY <2>1, <1>3, PtsNext
<1> QED
  BY <1>3, <1>4, <1>5, LenProperties

LEMMA EndsPartIs ==
  ASSUME NEW i \in 0..Len(Ends), NEW j \in i..Len(Ends), NEW q,
         DOMAIN q = 1 .. j - i, q = [x \in DOMAIN q |-> q[x]],
         \A x \in 1 .. j - i : q[x] = PtsAt(i + x)
  PROVE  q = SubSeq(Ends, i + 1, j)
<1>1. PICK r : r = SubSeq(Ends, i + 1, j)
  OBVIOUS
<1>2. /\ r \in Seq(Nat) /\ DOMAIN r = 1 .. j - i
      /\ \A x \in 1 .. j - i : r[x] = PtsAt(i + x)
  BY <1>1, EndsPart
<1>3. r = [x \in 1 .. j - i |-> r[x]]
  BY <1>2, LenProperties
<1>4. q = [x \in 1 .. j - i |-> q[x]]
  BY Zenon
<1>5. \A x \in 1 .. j - i : q[x] = r[x]
  BY <1>2, Zenon
<1> QED
  BY <1>1, <1>3, <1>4, <1>5

LEMMA EndsConcat ==
  ASSUME NEW b \in 0..Len(Ends), NEW i \in b..Len(Ends), NEW j \in i..Len(Ends)
  PROVE  SubSeq(Ends, b + 1, i) \o SubSeq(Ends, i + 1, j) = SubSeq(Ends, b + 1, j)
<1>1. Ends \in Seq(Nat) /\ Len(Ends) \in Nat
  BY UpdatesManagerAssumption
<1>2. b + 1 \in 1..Len(Ends) + 1 /\ i \in b + 1 - 1 .. Len(Ends)
  BY <1>1
<1> QED
  BY <1>1, <1>2, ConcatAdjacentSubSeq

(* The updates between two positions, in order. *)
LEMMA IncreasingIs ==
  ASSUME NEW i \in 0..Len(Ends), NEW j \in i..Len(Ends)
  PROVE  Increasing({ Ends[k] : k \in i + 1 .. j }) = SubSeq(Ends, i + 1, j)
<1>1. Len(Ends) \in Nat /\ j - i \in Nat
  BY UpdatesManagerAssumption
<1>2. PICK P : P = { Ends[k] : k \in i + 1 .. j }
  OBVIOUS
<1>3. PICK M \in Nat : M = j - i
  BY <1>1
<1>4. ASSUME NEW k \in i + 1 .. j
      PROVE  k \in 0..Len(Ends) /\ Ends[k] = PtsAt(k) /\ PtsAt(k) \in Nat /\ PtsAt(k) \in P
  <2>1. k \in 1..Len(Ends) /\ k \in 0..Len(Ends)
    BY <1>1
  <2> QED
    BY <2>1, <1>2, PtsNext, PtsType
<1>5. P = { PtsAt(k) : k \in i + 1 .. j }
  BY <1>2, <1>4
<1>6. Cardinality(P) = M
  <2> DEFINE f == [x \in 1..M |-> PtsAt(i + x)]
  <2>1. \A x \in 1..M : i + x \in i + 1 .. j
    BY <1>1, <1>3
  <2>2. f \in [1..M -> P]
    BY <2>1, <1>4
  <2>3. ASSUME NEW x \in 1..M, NEW y \in 1..M, f[x] = f[y] PROVE x = y
    <3>1. PtsAt(i + x) = PtsAt(i + y)
      BY <2>3
    <3>2. i + x = i + y
      BY <3>1, <2>1, <1>4, PtsInjective
    <3> QED
      BY <3>2, <1>1
  <2>4. ASSUME NEW p \in P PROVE \E x \in 1..M : f[x] = p
    <3>1. PICK k \in i + 1 .. j : p = PtsAt(k)
      BY <1>5
    <3>2. k - i \in 1..M /\ i + (k - i) = k
      BY <1>1, <1>3
    <3> QED
      BY <3>1, <3>2
  <2>5. f \in Bijection(1..M, P)
    BY <2>2, <2>3, <2>4 DEF Bijection, Injection, Surjection, IsInjective
  <2>6. ExistsBijection(1..M, P)
    BY <2>5 DEF ExistsBijection
  <2> QED
    BY <2>6, FS_CountingElements
<1> DEFINE Good(q) == q \in [1..M -> P] /\ \A x, y \in 1..M : x < y => q[x] < q[y]
<1>7. \E q : Good(q)
  <2> DEFINE f == [x \in 1..M |-> PtsAt(i + x)]
  <2>1. \A x \in 1..M : i + x \in i + 1 .. j
    BY <1>1, <1>3
  <2>2. f \in [1..M -> P]
    BY <2>1, <1>4
  <2>3. ASSUME NEW x \in 1..M, NEW y \in 1..M, x < y PROVE f[x] < f[y]
    <3>1. i + x < i + y
      BY <2>3, <1>1
    <3>2. PtsAt(i + x) < PtsAt(i + y)
      BY <3>1, <2>1, <1>4, PtsIncrease
    <3> QED
      BY <3>2
  <2> QED
    BY <2>2, <2>3
<1>8. PICK q : q = Increasing(P) /\ Good(q)
  <2>1. Increasing(P) = CHOOSE q \in [1..M -> P] : \A x, y \in 1..M : x < y => q[x] < q[y]
    BY <1>6 DEF Increasing
  <2>2. Good(Increasing(P))
    BY <1>7, <2>1
  <2> QED
    BY <2>2
<1>9. PICK h \in [1..M -> i + 1 .. j] : \A x \in 1..M : q[x] = PtsAt(h[x])
  <2>1. \A x \in 1..M : \E k \in i + 1 .. j : q[x] = PtsAt(k)
    BY <1>5, <1>8
  <2> DEFINE g == [x \in 1..M |-> CHOOSE k \in i + 1 .. j : q[x] = PtsAt(k)]
  <2>2. \A x \in 1..M : g[x] \in i + 1 .. j /\ q[x] = PtsAt(g[x])
    BY <2>1
  <2>3. g \in [1..M -> i + 1 .. j]
    BY <2>2
  <2> QED
    BY <2>2, <2>3
<1>10. \A x \in 1..M : h[x] \in Nat /\ i + 1 <= h[x] /\ h[x] <= j
  BY <1>1
<1>11. ASSUME NEW x \in 1..M, NEW y \in 1..M, x < y PROVE h[x] < h[y]
  <2>1. PtsAt(h[x]) < PtsAt(h[y])
    BY <1>8, <1>9, <1>11
  <2> QED
    BY <2>1, <1>4, PtsInjective
<1>12. \A x \in 1..M : i + x <= h[x]
  <2> DEFINE Bad == { x \in 1..M : ~(i + x <= h[x]) }
  <2>1. ASSUME Bad # {} PROVE FALSE
    <3>1. Bad \in SUBSET Nat
      OBVIOUS
    <3>2. PICK x \in Bad : \A y \in Bad : x <= y
      BY <2>1, <3>1, LeastNat
    <3>3. x # 1
      BY <1>10, <1>1
    <3>4. x - 1 \in 1..M /\ x \in 1..M /\ x - 1 < x
      BY <3>3
    <3>5. x - 1 \notin Bad
      BY <3>2, <3>4
    <3>6. h[x - 1] < h[x]
      BY <3>4, <1>11
    <3> QED
      BY <3>4, <3>5, <3>6, <3>2, <1>10, <1>1
  <2> QED
    BY <2>1
<1>13. \A x \in 1..M : h[x] <= i + x
  <2> DEFINE Bad == { x \in 1..M : ~(h[x] <= i + x) }
  <2>1. ASSUME Bad # {} PROVE FALSE
    <3>1. Bad \in SUBSET Nat /\ \A x \in Bad : x <= M
      OBVIOUS
    <3>2. PICK x \in Bad : \A y \in Bad : y <= x
      BY <2>1, <3>1, GreatestNat
    <3>3. x # M
      BY <1>10, <1>1, <1>3
    <3>4. x + 1 \in 1..M /\ x \in 1..M /\ x < x + 1
      BY <3>3
    <3>5. x + 1 \notin Bad
      BY <3>2, <3>4
    <3>6. h[x] < h[x + 1]
      BY <3>4, <1>11
    <3> QED
      BY <3>4, <3>5, <3>6, <3>2, <1>10, <1>1
  <2> QED
    BY <2>1
<1>14. \A x \in 1..M : q[x] = PtsAt(i + x)
  <2>1. \A x \in 1..M : h[x] = i + x
    BY <1>12, <1>13, <1>10, <1>1
  <2> QED
    BY <2>1, <1>9
<1>15. DOMAIN q = 1 .. j - i /\ q = [x \in DOMAIN q |-> q[x]]
  BY <1>3, <1>8
<1>16. q = SubSeq(Ends, i + 1, j)
  BY <1>3, <1>14, <1>15, EndsPartIs
<1> QED
  BY <1>2, <1>8, <1>16

LEMMA BetweenIs ==
  ASSUME NEW b \in 0..Len(Ends), NEW t \in 0..Len(Ends)
  PROVE  Between(PtsAt(b), PtsAt(t)) = SubSeq(Ends, b + 1, t)
<1>1. Ends \in Seq(Nat) /\ Len(Ends) \in Nat /\ DOMAIN Ends = 1..Len(Ends)
  BY UpdatesManagerAssumption, LenProperties
<1>2. ASSUME NEW i \in 0..Len(Ends)
      PROVE  Cardinality({ k \in DOMAIN Ends : Ends[k] <= PtsAt(i) }) = i
  <2>1. \A k \in 1..Len(Ends) : Ends[k] <= PtsAt(i) <=> k <= i
    <3> SUFFICES ASSUME NEW k \in 1..Len(Ends) PROVE Ends[k] <= PtsAt(i) <=> k <= i
      OBVIOUS
    <3>1. k \in 0..Len(Ends) /\ Ends[k] = PtsAt(k)
      BY <1>1, PtsNext
    <3> QED
      BY <3>1, PtsInjective
  <2>2. { k \in DOMAIN Ends : Ends[k] <= PtsAt(i) } = 1..i
    BY <1>1, <2>1
  <2>3. Cardinality(1..i) = IF 1 > i THEN 0 ELSE i - 1 + 1
    BY <1>1, FS_Interval
  <2>4. Cardinality(1..i) = i
    BY <2>3, <1>1
  <2> QED
    BY <2>2, <2>4
<1> QED
  BY <1>2 DEF Between
-----------------------------------------------------------------------------
(* Asking for the difference or the state. *)

(* e is like d in what has to do with containers. *)
SameSeq(d, e) ==
  /\ e.seq = d.seq /\ e.seqs = d.seqs
  /\ e.pending_seq_updates = d.pending_seq_updates
  /\ e.seq_gap_timeout = d.seq_gap_timeout
  /\ e.postponed_updates = d.postponed_updates

LEMMA SameSeqTrans ==
  ASSUME NEW d, NEW e, NEW f, SameSeq(d, e), SameSeq(e, f)
  PROVE  SameSeq(d, f)
  BY DEF SameSeq

(* e is d, with the pending updates postponed *)
Put(d, e) ==
  /\ IsClient(e)
  /\ e.pending_updates = {} /\ e.accumulated_pts = -1 /\ e.accumulated_pts_count = 0
  /\ e.pts_gap_timeout = FALSE
  /\ e.postponed_pts_updates = d.postponed_pts_updates \cup d.pending_updates
  /\ e.retry_timeout = d.retry_timeout /\ e.fatal = d.fatal /\ e.skipped = d.skipped
  /\ e.passed = d.passed /\ e.base = d.base
  /\ SameSeq(d, e)

LEMMA OnceSame ==
  ASSUME NEW N, NEW S, NEW R, NEW d, NEW e, Once(d, N, S, R),
         e.postponed_updates = d.postponed_updates,
         e.pending_updates = d.pending_updates,
         e.postponed_pts_updates = d.postponed_pts_updates
  PROVE  Once(e, N, S, R)
  BY DEF Once

LEMMA CoverNone == Cardinality(Cover({})) = 0
<1>1. Cover({}) = {}
  BY DEF Cover
<1> QED
  BY <1>1, FS_EmptySet

LEMMA RunStateIs ==
  ASSUME NEW d, IsClient(d), NEW e, e = GetUpdatesState(d)
  PROVE  /\ Put(d, e) /\ e.running = "state"
         /\ e.pts = d.pts /\ e.acks = d.acks /\ e.stored = d.stored
<1>1. IsClient(e)
  BY DEF IsClient, GetUpdatesState, BeforeGetDifference, DropPendingUpdates
<1> QED
  BY <1>1 DEF IsClient, Fields, GetUpdatesState, BeforeGetDifference, DropPendingUpdates,
              Put, SameSeq

LEMMA RunDifferenceIs ==
  ASSUME NEW d, IsClient(d), d.running = "no", NEW e, e = RunGetDifference(d)
  PROVE  /\ Put(d, e) /\ e.running = "difference" /\ e.asked = d.pts
         /\ e.pts = d.pts /\ e.acks = d.acks /\ e.stored = d.stored
<1>1. IsClient(e)
  BY DEF IsClient, RunGetDifference, BeforeGetDifference, DropPendingUpdates
<1> QED
  BY <1>1 DEF IsClient, Fields, RunGetDifference, BeforeGetDifference, DropPendingUpdates,
              Put, SameSeq

(* Nothing the client holds is lost or held twice when it is postponed. *)
LEMMA PutKeeps ==
  ASSUME NEW N \in 0..Len(Ends), NEW S \in Nat, NEW R \in Misfortunes, NEW d, NEW e,
         Once(d, N, S, R), Sequenced(d, N, S, R), d.pending_updates \in SUBSET Updates(N),
         NotFatal(d), Put(d, e), e.running \in {"state", "difference"}
  PROVE  /\ Alone(e) /\ Accumulated(e, N) /\ Once(e, N, S, R) /\ Sequenced(e, N, S, R)
         /\ Held(e) = Held(d)
<1>1. Alone(e)
  BY DEF Alone, Put, NotFatal
<1>2. Accumulated(e, N)
  BY CoverNone DEF Accumulated, Put
<1>3. Once(e, N, S, R)
  BY DEF Once, Put, SameSeq
<1>4. Sequenced(e, N, S, R)
  BY DEF Sequenced, Put, SameSeq
<1>5. Held(e) = Held(d)
  BY DEF Held, Put, SameSeq
<1> QED
  BY <1>1, <1>2, <1>3, <1>4, <1>5

(* e is d, asking the server *)
Asks(d, e) ==
  /\ e.running \in {"state", "difference"}
  /\ Held(e) = Held(d)
  /\ e.retry_timeout = d.retry_timeout
  /\ SameSeq(d, e)

LEMMA StateSound ==
  ASSUME NEW N \in 0..Len(Ends), NEW S \in Nat, NEW R \in Misfortunes, NEW t \in 0..N, NEW d, NEW e,
         IsClient(d), Once(d, N, S, R), Sequenced(d, N, S, R), Timeline(d, t), NotFatal(d),
         d.pending_updates \in SUBSET Updates(N),
         d.stored \in {NoPts} \cup Reached(N), d.acks \in Seq({MaxPts} \cup Reached(N)),
         d.pts = NoPts => d.stored = NoPts /\ d.acks = <<>>,
         d.pts \in {NoPts, MaxPts}, d.pts = MaxPts => R.resets > 0,
         d.skipped # {} => Excused(R), e = GetUpdatesState(d)
  PROVE  Sound(e, t, N, S, R) /\ Asks(d, e) /\ e.pts = d.pts
<1>1. /\ Put(d, e) /\ e.running = "state"
      /\ e.pts = d.pts /\ e.acks = d.acks /\ e.stored = d.stored
  BY RunStateIs
<1>6. e.running \in {"state", "difference"}
  BY <1>1
<1>2. /\ Alone(e) /\ Accumulated(e, N) /\ Once(e, N, S, R) /\ Sequenced(e, N, S, R)
      /\ Held(e) = Held(d)
  BY <1>1, <1>6, PutKeeps
<1>3. Positioned(e, N, R)
  BY <1>1 DEF Positioned, Put
<1>4. Timeline(e, t)
  BY <1>1 DEF Timeline, Put
<1>5. ~Known(e.pts)
  BY <1>1 DEF Known
<1> QED
  BY <1>1, <1>2, <1>3, <1>4, <1>5 DEF Sound, Body, Asks, Put

(* d may ask, whether or not it watches a gap in pts. *)
Askable(d, t, N, S, R) ==
  /\ IsClient(d) /\ NotFatal(d)
  /\ Once(d, N, S, R) /\ Sequenced(d, N, S, R)
  /\ d.pending_updates \in SUBSET Updates(N)
  /\ Timeline(d, t) /\ Positioned(d, N, R)
  /\ Known(d.pts) => d.pts = PtsAt(t)

LEMMA SoundAskable ==
  ASSUME NEW N, NEW S, NEW R, NEW t, NEW d, Sound(d, t, N, S, R)
  PROVE  Askable(d, t, N, S, R)
  BY DEF Sound, Body, Alone, Accumulated, Askable

LEMMA RunGetDifferenceSound ==
  ASSUME NEW N \in 0..Len(Ends), NEW S \in Nat, NEW R \in Misfortunes, NEW t \in 0..N, NEW d, NEW e,
         Askable(d, t, N, S, R), d.running = "no", d.pts # NoPts, e = RunGetDifference(d)
  PROVE  Sound(e, t, N, S, R) /\ Asks(d, e) /\ e.pts = d.pts
<1>1. /\ IsClient(d) /\ Once(d, N, S, R) /\ Sequenced(d, N, S, R)
      /\ d.pending_updates \in SUBSET Updates(N)
      /\ NotFatal(d) /\ Timeline(d, t) /\ Positioned(d, N, R)
  BY DEF Askable
<1>2. /\ Put(d, e) /\ e.running = "difference" /\ e.asked = d.pts
      /\ e.pts = d.pts /\ e.acks = d.acks /\ e.stored = d.stored
  BY <1>1, RunDifferenceIs
<1>3. e.running \in {"state", "difference"}
  BY <1>2
<1>4. /\ Alone(e) /\ Accumulated(e, N) /\ Once(e, N, S, R) /\ Sequenced(e, N, S, R)
      /\ Held(e) = Held(d)
  BY <1>1, <1>2, <1>3, PutKeeps
<1>5. Positioned(e, N, R)
  BY <1>1, <1>2 DEF Positioned, Put
<1>6. Timeline(e, t)
  BY <1>1, <1>2 DEF Timeline, Put
<1>7. Known(e.pts) => e.pts = PtsAt(t)
  BY <1>2 DEF Askable
<1> QED
  BY <1>2, <1>4, <1>5, <1>6, <1>7 DEF Sound, Body, Asks, Put

LEMMA AskSound ==
  ASSUME NEW N \in 0..Len(Ends), NEW S \in Nat, NEW R \in Misfortunes, NEW t \in 0..N, NEW d, NEW e,
         Askable(d, t, N, S, R), d.running = "no", e = GetDifference(d)
  PROVE  Sound(e, t, N, S, R) /\ Asks(d, e) /\ e.pts = d.pts
<1>1. CASE d.pts = NoPts
  <2>1. d.stored = NoPts
    BY <1>1 DEF Askable, Positioned
  <2>2. e = GetUpdatesState(d)
    BY <1>1, <2>1 DEF GetDifference, InitState
  <2>3. /\ IsClient(d) /\ Once(d, N, S, R) /\ Sequenced(d, N, S, R) /\ Timeline(d, t)
        /\ NotFatal(d) /\ d.pending_updates \in SUBSET Updates(N) /\ Positioned(d, N, R)
    BY DEF Askable
  <2>4. /\ d.stored \in {NoPts} \cup Reached(N) /\ d.acks \in Seq({MaxPts} \cup Reached(N))
        /\ d.pts = NoPts => d.stored = NoPts /\ d.acks = <<>>
        /\ d.pts = MaxPts => R.resets > 0
        /\ d.skipped # {} => Excused(R)
        /\ d.pts \in {NoPts, MaxPts}
    BY <1>1, <2>3 DEF Positioned
  <2> QED
    BY <2>2, <2>3, <2>4, StateSound
<1>2. CASE d.pts # NoPts
  <2>1. e = RunGetDifference(d)
    BY <1>2 DEF GetDifference
  <2> QED
    BY <1>2, <2>1, RunGetDifferenceSound
<1> QED
  BY <1>1, <1>2

(* A client that asks already does nothing. *)
LEMMA AskingAlready ==
  ASSUME NEW N, NEW S, NEW R, NEW t, NEW d, Sound(d, t, N, S, R), d.running # "no"
  PROVE  GetDifference(d) = d /\ Asks(d, d)
<1>1. d.pts = NoPts => d.stored = NoPts
  BY DEF Sound, Body, Positioned
<1>2. GetDifference(d) = d
  BY <1>1 DEF GetDifference, InitState, RunGetDifference
<1>3. Asks(d, d)
  BY DEF Sound, Body, Alone, Asks, SameSeq
<1> QED
  BY <1>2, <1>3

LEMMA GetDifferenceSound ==
  ASSUME NEW N \in 0..Len(Ends), NEW S \in Nat, NEW R \in Misfortunes, NEW t \in 0..N, NEW d, NEW e,
         Sound(d, t, N, S, R), e = GetDifference(d)
  PROVE  Sound(e, t, N, S, R) /\ Asks(d, e) /\ e.pts = d.pts
<1>1. CASE d.running = "no"
  BY <1>1, SoundAskable, AskSound
<1>2. CASE d.running # "no"
  BY <1>2, AskingAlready
<1> QED
  BY <1>1, <1>2

(* updatePtsChanged: the pts is to be restored *)
LEMMA ResetSound ==
  ASSUME NEW N \in 0..Len(Ends), NEW S \in Nat, NEW R \in Misfortunes, NEW t \in 0..N, NEW d, NEW e,
         Body(d, t, N, S, R), d.running = "no", R.resets > 0, e = SetPts(d, MaxPts)
  PROVE  Sound(e, t, N, S, R) /\ Asks(d, e) /\ e.pts = MaxPts
<1>1. PICK f : f = [AddPts(d, MaxPts) EXCEPT !.stored = NoPts]
  OBVIOUS
<1>2. IsClient(d)
  BY DEF Body
<1>3. IsClient(f)
  BY <1>1, <1>2 DEF IsClient, AddPts
<1>4. /\ f.pts = MaxPts /\ f.acks = Append(d.acks, MaxPts) /\ f.stored = NoPts
      /\ f.pending_updates = d.pending_updates /\ f.postponed_pts_updates = d.postponed_pts_updates
      /\ f.running = d.running /\ f.fatal = d.fatal /\ f.skipped = d.skipped /\ f.base = d.base /\ f.passed = d.passed
      /\ f.retry_timeout = d.retry_timeout /\ SameSeq(d, f)
  BY <1>1, <1>2 DEF IsClient, Fields, AddPts, SameSeq
<1>5. e = GetUpdatesState(f)
  BY <1>1, <1>4 DEF SetPts, InitState
<1>6. Once(f, N, S, R)
  BY <1>4 DEF Body, Once, SameSeq
<1>7. Sequenced(f, N, S, R)
  BY <1>4 DEF Body, Sequenced, SameSeq
<1>8. NotFatal(f) /\ f.pending_updates \in SUBSET Updates(N)
  BY <1>4 DEF Body, Alone, Accumulated, NotFatal
<1>9. PICK A : A = {MaxPts} \cup Reached(N)
  OBVIOUS
<1>10. d.acks \in Seq(A) /\ MaxPts \in A
  BY <1>9 DEF Body, Positioned
<1>11. f.acks \in Seq(A)
  BY <1>4, <1>10, AppendProperties
<1>12. Timeline(f, t)
  <2>1. PtsAt(t) \in Nat
    BY PtsType, UpdatesManagerAssumption
  <2>2. Len(f.acks) = Len(d.acks) + 1 /\ Len(d.acks) \in Nat
    BY <1>4, <1>10, AppendProperties, LenProperties
  <2>3. \A i \in 1..Len(d.acks) : f.acks[i] = d.acks[i]
    BY <1>4, <1>10, AppendProperties
  <2>4. f.acks[Len(d.acks) + 1] = MaxPts
    BY <1>4, <1>10, AppendProperties
  <2>5. \A i \in 1..Len(f.acks) : f.acks[i] # MaxPts => f.acks[i] <= PtsAt(t)
    <3> SUFFICES ASSUME NEW i \in 1..Len(f.acks), f.acks[i] # MaxPts PROVE f.acks[i] <= PtsAt(t)
      OBVIOUS
    <3>1. i \in 1..Len(d.acks)
      BY <2>2, <2>4
    <3> QED
      BY <3>1, <2>3 DEF Body, Timeline
  <2>6. f.stored <= PtsAt(t)
    BY <2>1, <1>4 DEF NoPts
  <2> QED
    BY <2>5, <2>6, <1>4 DEF Body, Timeline
<1>13. MaxPts # NoPts
  BY UpdatesManagerAssumption DEF NoPts
<1>16. /\ f.stored \in {NoPts} \cup Reached(N) /\ f.acks \in Seq({MaxPts} \cup Reached(N))
       /\ f.pts = NoPts => f.stored = NoPts /\ f.acks = <<>>
       /\ f.pts = MaxPts => R.resets > 0
       /\ f.pts \in {NoPts, MaxPts}
       /\ f.skipped # {} => Excused(R)
  BY <1>4, <1>9, <1>11, <1>13 DEF Excused
<1>14. Sound(e, t, N, S, R) /\ Asks(f, e) /\ e.pts = f.pts
  BY <1>3, <1>5, <1>6, <1>7, <1>8, <1>12, <1>16, StateSound
<1>15. Held(f) = Held(d)
  BY <1>4 DEF Held, SameSeq
<1> QED
  BY <1>4, <1>14, <1>15 DEF Asks, SameSeq
-----------------------------------------------------------------------------
(* A later pts. *)

(* e is d with the pts p, a later one *)
Moved(d, e, p) ==
  /\ IsClient(e)
  /\ e.pts = p /\ e.acks = Append(d.acks, p) /\ e.stored = d.stored
  /\ e.pending_updates = d.pending_updates /\ e.postponed_pts_updates = d.postponed_pts_updates
  /\ e.running = d.running /\ e.fatal = d.fatal /\ e.skipped = d.skipped
  /\ e.passed = d.passed /\ e.base = d.base
  /\ e.accumulated_pts = d.accumulated_pts /\ e.accumulated_pts_count = d.accumulated_pts_count
  /\ SameSeq(d, e)

(* a query that is to be repeated stays so *)
StillToAsk(d, e) == d.retry_timeout => e.retry_timeout

LEMMA SetPtsIs ==
  ASSUME NEW d, IsClient(d), NEW p \in Int, p # MaxPts, d.pts \in Int, p > d.pts,
         NEW e, e = SetPts(d, p)
  PROVE  Moved(d, e, p) /\ StillToAsk(d, e)
<1>1. PICK f : f = AddPts(d, p)
  OBVIOUS
<1>2. IsClient(f)
  BY <1>1 DEF IsClient, AddPts
<1>3. Moved(d, f, p) /\ f.retry_timeout = d.retry_timeout
  BY <1>1, <1>2 DEF Moved, IsClient, Fields, AddPts, SameSeq
<1>4. CASE d.last_get_difference_pts + ForcedDiff < p
  <2>1. PICK g : g = ScheduleGetDifference([f EXCEPT !.last_get_difference_pts = p])
    OBVIOUS
  <2>2. IsClient(g)
    BY <1>2, <2>1 DEF IsClient, ScheduleGetDifference
  <2>4. /\ g.pts = f.pts /\ g.acks = f.acks /\ g.stored = f.stored
        /\ g.pending_updates = f.pending_updates /\ g.postponed_pts_updates = f.postponed_pts_updates
        /\ g.running = f.running /\ g.fatal = f.fatal /\ g.skipped = f.skipped
        /\ g.passed = f.passed /\ g.base = f.base /\ SameSeq(f, g) /\ g.retry_timeout = TRUE
        /\ g.accumulated_pts = f.accumulated_pts /\ g.accumulated_pts_count = f.accumulated_pts_count
    BY <1>2, <2>1 DEF IsClient, Fields, ScheduleGetDifference, SameSeq
  <2>5. Moved(d, g, p)
    BY <1>3, <2>2, <2>4 DEF Moved, SameSeq
  <2>6. e = g
    BY <1>1, <1>4, <2>1 DEF SetPts
  <2> QED
    BY <2>4, <2>5, <2>6 DEF StillToAsk
<1>5. CASE ~(d.last_get_difference_pts + ForcedDiff < p)
  <2>1. e = f
    BY <1>1, <1>5 DEF SetPts
  <2> QED
    BY <1>3, <2>1 DEF StillToAsk
<1> QED
  BY <1>4, <1>5

(* e is d at the pts p, with nothing pending *)
Settled(d, e, p) ==
  /\ IsClient(e)
  /\ e.pts = p /\ e.acks \in {<<>>, Append(d.acks, p)} /\ e.stored = d.stored
  /\ e.pending_updates = {} /\ e.accumulated_pts = -1 /\ e.accumulated_pts_count = 0
  /\ e.postponed_pts_updates = d.postponed_pts_updates
  /\ e.postponed_updates = d.postponed_updates
  /\ e.running = "no" /\ e.fatal = d.fatal

(* what is applied goes up to the t-th update *)
AppliedTo(d, t) == \E b \in 0..t : d.base = PtsAt(b) /\ d.passed = SubSeq(Ends, b + 1, t)

LEMMA SettleSound ==
  ASSUME NEW N \in 0..Len(Ends), NEW S \in Nat, NEW R \in Misfortunes, NEW t \in 0..N, NEW t2 \in t..N,
         NEW d, NEW e, Body(d, t, N, S, R), Settled(d, e, PtsAt(t2)), AppliedTo(e, t2),
         Sequenced(e, N, S, R), e.skipped # {} => Excused(R)
  PROVE  Sound(e, t2, N, S, R) /\ Held(e) \subseteq Held(d)
<1>1. Len(Ends) \in Nat
  BY UpdatesManagerAssumption
<1>2. t \in 0..Len(Ends) /\ t2 \in 0..Len(Ends) /\ t2 \in 0..N
  BY <1>1
<1>3. PtsAt(t) <= PtsAt(t2) /\ PtsAt(t) \in Nat /\ PtsAt(t2) \in Nat /\ PtsAt(t2) \in Reached(N)
  BY <1>2, PtsInjective, PtsType DEF Reached
<1>4. Alone(e)
  BY DEF Body, Alone, NotFatal, Settled
<1>5. Accumulated(e, N)
  BY CoverNone DEF Accumulated, Settled
<1>6. Known(PtsAt(t2))
  BY <1>3, ReachedType
<1>7. PICK A : A = {MaxPts} \cup Reached(N)
  OBVIOUS
<1>8. d.acks \in Seq(A) /\ PtsAt(t2) \in A
  BY <1>3, <1>7 DEF Body, Positioned
<1>9. PICK q : q = Append(d.acks, PtsAt(t2))
  OBVIOUS
<1>10. q \in Seq(A)
  BY <1>8, <1>9, AppendProperties
<1>11. e.acks \in Seq({MaxPts} \cup Reached(N)) /\ (e.acks = <<>> \/ e.acks = q)
  <2>1. e.acks = <<>> \/ e.acks = q
    BY <1>9 DEF Settled
  <2>2. <<>> \in Seq(A)
    BY EmptySeq
  <2>3. e.acks \in Seq(A)
    BY <2>1, <2>2, <1>10
  <2> QED
    BY <2>1, <2>3, <1>7
<1>12. Positioned(e, N, R)
  <2>1. e.stored \in {NoPts} \cup Reached(N)
    BY DEF Body, Positioned, Settled
  <2> QED
    BY <2>1, <1>3, <1>6, <1>11 DEF Positioned, Settled, Known
<1>13. \A i \in 1..Len(e.acks) : e.acks[i] # MaxPts => e.acks[i] <= PtsAt(t2)
  <2>1. Len(q) = Len(d.acks) + 1 /\ Len(d.acks) \in Nat
    BY <1>8, <1>9, AppendProperties, LenProperties
  <2>2. \A i \in 1..Len(d.acks) : q[i] = d.acks[i]
    BY <1>8, <1>9, AppendProperties
  <2>3. q[Len(d.acks) + 1] = PtsAt(t2)
    BY <1>8, <1>9, AppendProperties
  <2>4. \A i \in 1..Len(q) : q[i] # MaxPts => q[i] <= PtsAt(t2)
    <3> SUFFICES ASSUME NEW i \in 1..Len(q), q[i] # MaxPts PROVE q[i] <= PtsAt(t2)
      OBVIOUS
    <3>1. CASE i = Len(d.acks) + 1
      BY <3>1, <2>3, <1>3
    <3>2. CASE i # Len(d.acks) + 1
      <4>1. i \in 1..Len(d.acks)
        BY <3>2, <2>1
      <4>2. q[i] = d.acks[i]
        BY <4>1, <2>2
      <4>3. d.acks[i] # MaxPts => d.acks[i] <= PtsAt(t)
        BY <4>1 DEF Body, Timeline
      <4>4. d.acks[i] \in A
        BY <4>1, <1>8, ElementOfSeq
      <4>5. d.acks[i] # MaxPts => d.acks[i] \in Nat
        BY <4>4, <1>7, ReachedType
      <4> QED
        BY <4>2, <4>3, <4>5, <1>3
    <3> QED
      BY <3>1, <3>2
  <2>5. Len(<<>>) = 0
    OBVIOUS
  <2>6. CASE e.acks = <<>>
    BY <2>5, <2>6
  <2>7. CASE e.acks = q
    BY <2>4, <2>7
  <2> QED
    BY <2>6, <2>7, <1>11
<1>14. e.stored <= PtsAt(t2)
  <2>1. d.stored <= PtsAt(t) /\ d.stored \in {NoPts} \cup Reached(N)
    BY DEF Body, Timeline, Positioned
  <2>2. d.stored \in Int
    BY <2>1, ReachedType DEF NoPts
  <2> QED
    BY <2>1, <2>2, <1>3 DEF Settled
<1>15. Timeline(e, t2)
  BY <1>13, <1>14 DEF Timeline, AppliedTo
<1>16. Once(e, N, S, R)
  BY DEF Body, Once, Settled
<1>17. Held(e) \subseteq Held(d)
  BY DEF Held, Settled
<1> QED
  BY <1>4, <1>5, <1>12, <1>15, <1>16, <1>17 DEF Sound, Body, Settled

LEMMA MaxOfTwo ==
  ASSUME NEW a \in Int, NEW b \in Int
  PROVE  Max({a, b}) = IF a >= b THEN a ELSE b
<1>1. PICK x : x = (IF a >= b THEN a ELSE b)
  OBVIOUS
<1>2. x \in {a, b} /\ \A y \in {a, b} : x >= y
  BY <1>1
<1>3. \A z \in {a, b} : (\A y \in {a, b} : z >= y) => z = x
  BY <1>1
<1>4. Max({a, b}) = CHOOSE z \in {a, b} : \A y \in {a, b} : z >= y
  BY DEF Max
<1>5. Max({a, b}) = x
  BY <1>2, <1>3, <1>4, Zenon
<1> QED
  BY <1>1, <1>5

LEMMA MaxBounds ==
  ASSUME NEW x \in Int, NEW y \in Int, NEW z \in Int, z < y
  PROVE  z < Max({x, y}) /\ y <= Max({x, y}) /\ x <= Max({x, y})
  BY MaxOfTwo

(* e is d after the updates U are applied to its data *)
Extends(d, e, U) ==
  e.base = d.base /\ e.passed = d.passed \o Increasing({ u.pts : u \in U })

(* Applying what is between two positions. *)
LEMMA ApplyPart ==
  ASSUME NEW N \in 0..Len(Ends), NEW t \in 0..N, NEW j \in t..N, NEW d, NEW e, NEW U,
         AppliedTo(d, t), AllBetween(U, t, j), Extends(d, e, U)
  PROVE  AppliedTo(e, j)
<1>1. Len(Ends) \in Nat
  BY UpdatesManagerAssumption
<1>2. PICK b \in 0..t : d.base = PtsAt(b) /\ d.passed = SubSeq(Ends, b + 1, t)
  BY DEF AppliedTo
<1>3. /\ b \in 0..Len(Ends) /\ t \in b..Len(Ends) /\ j \in t..Len(Ends)
      /\ t \in 0..Len(Ends) /\ b \in 0..j
  BY <1>1
<1>4. Increasing({ Ends[k] : k \in t + 1 .. j }) = SubSeq(Ends, t + 1, j)
  BY <1>3, IncreasingIs
<1>5. e.passed = SubSeq(Ends, b + 1, t) \o SubSeq(Ends, t + 1, j)
  BY <1>2, <1>4 DEF AllBetween, Extends
<1>6. SubSeq(Ends, b + 1, t) \o SubSeq(Ends, t + 1, j) = SubSeq(Ends, b + 1, j)
  BY <1>3, EndsConcat
<1> QED
  BY <1>2, <1>3, <1>5, <1>6 DEF AppliedTo, Extends

LEMMA ApplyIs ==
  ASSUME NEW d, IsClient(d), NEW U, NEW e, e = Apply(d, U)
  PROVE  /\ IsClient(e) /\ Extends(d, e, U)
         /\ e.pts = d.pts /\ e.acks = d.acks /\ e.stored = d.stored
         /\ e.pending_updates = d.pending_updates
         /\ e.postponed_pts_updates = d.postponed_pts_updates
         /\ e.accumulated_pts = d.accumulated_pts
         /\ e.accumulated_pts_count = d.accumulated_pts_count
         /\ e.running = d.running /\ e.asked = d.asked /\ e.fatal = d.fatal /\ e.skipped = d.skipped
         /\ e.retry_timeout = d.retry_timeout /\ SameSeq(d, e)
<1>1. PICK q : q = Increasing({ u.pts : u \in U })
  OBVIOUS
<1>2. e = [d EXCEPT !.passed = @ \o q]
  BY <1>1 DEF Apply
<1>3. IsClient(e)
  BY <1>2 DEF IsClient
<1>4. e.passed = d.passed \o q
  BY <1>2 DEF IsClient, Fields
<1>5. Extends(d, e, U)
  <2>1. e.base = d.base
    BY <1>2 DEF IsClient, Fields
  <2> QED
    BY <1>1, <1>4, <2>1 DEF Extends
<1>6. SameSeq(d, e)
  BY <1>2 DEF IsClient, Fields, SameSeq
<1>7. /\ e.pts = d.pts /\ e.acks = d.acks /\ e.stored = d.stored
      /\ e.pending_updates = d.pending_updates
      /\ e.postponed_pts_updates = d.postponed_pts_updates
  BY <1>2 DEF IsClient, Fields
<1>8. /\ e.accumulated_pts = d.accumulated_pts
      /\ e.accumulated_pts_count = d.accumulated_pts_count
      /\ e.running = d.running /\ e.asked = d.asked /\ e.fatal = d.fatal /\ e.skipped = d.skipped
      /\ e.retry_timeout = d.retry_timeout
  BY <1>2 DEF IsClient, Fields
<1> QED
  BY <1>3, <1>5, <1>6, <1>7, <1>8
-----------------------------------------------------------------------------
(* add_pending_update *)

(* the pending updates with u *)
With(U, u) == IF u.cnt > 0 THEN U \cup {u} ELSE U

(* u is an update or tells a pts, which is after the one of d *)
After(d, u, N) ==
  /\ u \in Updates(N) \cup Telling(N)
  /\ u.pts >= 1 /\ u.pts > d.pts
  /\ u.cnt > 0 => u \notin Held(d)

LEMMA AfterType ==
  ASSUME NEW N \in 0..Len(Ends), NEW d, NEW u, After(d, u, N)
  PROVE  /\ u.pts \in Nat /\ u.cnt \in Nat /\ u.pts \in Reached(N)
         /\ u.cnt > 0 => u \in Updates(N)
<1>1. CASE u \in Updates(N)
  BY <1>1, UpdatesType
<1>2. CASE u \in Telling(N)
  <2>1. u.cnt = 0 /\ u.pts \in {0} \cup Reached(N)
    BY <1>2 DEF Telling
  <2>2. u.pts \in Reached(N)
    BY <2>1 DEF After
  <2> QED
    BY <2>1, <2>2, ReachedType
<1> QED
  BY <1>1, <1>2 DEF After

(* An update covers nothing up to the pts. *)
LEMMA AfterStart ==
  ASSUME NEW N \in 0..Len(Ends), NEW d, NEW u, After(d, u, N), NEW t \in 0..N,
         d.pts \in {NoPts, PtsAt(t)}
  PROVE  /\ d.pts <= u.pts - u.cnt
         /\ u.cnt > 0 => FirstPts <= u.pts - u.cnt
<1>1. u.pts \in Nat /\ u.cnt \in Nat /\ u.pts > d.pts
  BY AfterType DEF After
<1>2. Len(Ends) \in Nat /\ t \in 0..Len(Ends)
  BY UpdatesManagerAssumption
<1>3. PtsAt(t) \in Nat /\ FirstPts \in Nat
  BY <1>2, PtsType, UpdatesManagerAssumption
<1>4. CASE u.cnt > 0
  <2>1. u \in Updates(N)
    BY <1>4, AfterType
  <2>2. u.pts - u.cnt \in Nat /\ FirstPts <= u.pts - u.cnt
    BY <2>1, UpdatesType
  <2>3. PICK k \in 1..N : u = Update(k)
    BY <2>1 DEF Updates
  <2>4. k \in 1..Len(Ends) /\ k \in 0..Len(Ends) /\ k - 1 \in 0..Len(Ends)
    BY <1>2
  <2>5. u.pts = PtsAt(k) /\ u.pts - u.cnt = PtsAt(k - 1)
    BY <2>3, <2>4, UpdateIs
  <2>6. CASE d.pts = NoPts
    BY <2>2, <2>6 DEF NoPts
  <2>7. CASE d.pts = PtsAt(t)
    <3>1. PtsAt(t) < PtsAt(k)
      BY <1>1, <2>5, <2>7
    <3>2. t < k
      BY <3>1, <2>4, <1>2, PtsInjective
    <3>3. t <= k - 1
      BY <3>2, <2>4, <1>2
    <3>4. PtsAt(t) <= PtsAt(k - 1)
      BY <3>3, <2>4, <1>2, PtsInjective
    <3> QED
      BY <3>4, <2>2, <2>5, <2>7
  <2> QED
    BY <2>2, <2>6, <2>7
<1>5. CASE u.cnt = 0
  <2>1. d.pts \in Int
    BY <1>3 DEF NoPts
  <2> QED
    BY <1>1, <1>5, <2>1
<1> QED
  BY <1>1, <1>4, <1>5

(* The updates K are after the pts of d and up to a, and cover k positions. *)
Fits(d, K, a, k, N) ==
  /\ K \in SUBSET Updates(N) /\ Inside(K, d.pts, a) /\ a \in Reached(N) /\ d.pts < a
  /\ k = Cardinality(Cover(K)) /\ k \in Nat
  /\ d.pts + k <= a
  /\ d.pts = NoPts => d.pts + k < a

(* accumulated_pts_ and accumulated_pts_count_ with u *)
Sums(d, u, K, a, k) ==
  /\ a = Max({d.accumulated_pts, u.pts})
  /\ k = d.accumulated_pts_count + u.cnt
  /\ K = With(d.pending_updates, u)

LEMMA SumIs ==
  ASSUME NEW N \in 0..Len(Ends), NEW d, NEW u, After(d, u, N), NEW t \in 0..N,
         d.pts \in {NoPts, PtsAt(t)}, Accumulated(d, N), NEW a, NEW k, NEW K, Sums(d, u, K, a, k)
  PROVE  Fits(d, K, a, k, N)
<1>0. /\ a = Max({d.accumulated_pts, u.pts})
      /\ k = d.accumulated_pts_count + u.cnt
      /\ K = With(d.pending_updates, u)
  BY DEF Sums
<1>1. u.pts \in Nat /\ u.cnt \in Nat /\ u.pts \in Reached(N) /\ (u.cnt > 0 => u \in Updates(N))
      /\ u.pts > d.pts
  <2>1. u.pts \in Nat /\ u.cnt \in Nat /\ u.pts \in Reached(N) /\ (u.cnt > 0 => u \in Updates(N))
    BY AfterType
  <2> QED
    BY <2>1 DEF After
<1>2. d.pts <= u.pts - u.cnt /\ (u.cnt > 0 => FirstPts <= u.pts - u.cnt)
  BY AfterStart
<1>3. t \in 0..Len(Ends)
  BY UpdatesManagerAssumption
<1>4. d.pts \in Int /\ FirstPts \in Nat /\ 1 <= FirstPts
  BY <1>3, PtsType, UpdatesManagerAssumption DEF NoPts
<1>5. d.accumulated_pts \in {-1} \cup Reached(N)
  BY DEF Accumulated
<1>6. d.accumulated_pts \in Int
  BY <1>5, ReachedType
<1>7. a = IF d.accumulated_pts >= u.pts THEN d.accumulated_pts ELSE u.pts
  BY <1>0, <1>1, <1>6, MaxOfTwo
<1>8. a \in Reached(N) /\ a \in Nat /\ d.pts < a /\ u.pts <= a /\ d.accumulated_pts <= a /\ FirstPts <= a
  <2>1. a \in Reached(N)
    <3>1. d.accumulated_pts = -1 => ~(d.accumulated_pts >= u.pts)
      BY <1>1
    <3> QED
      BY <3>1, <1>1, <1>5, <1>7
  <2>2. a \in Nat /\ FirstPts <= a
    BY <2>1, ReachedType
  <2>3. d.pts < u.pts /\ u.pts \in Int
    BY <1>1, <1>4
  <2>4. d.pts < a /\ u.pts <= a /\ d.accumulated_pts <= a
    BY <2>3, <1>0, <1>4, <1>6, MaxBounds
  <2> QED
    BY <2>1, <2>2, <2>4
<1>9. d.pending_updates \in SUBSET Updates(N)
  BY DEF Accumulated
<1>10. K \in SUBSET Updates(N)
  BY <1>1, <1>9 DEF With, Sums
<1>11. \A v \in K : v.pts \in Nat /\ v.cnt \in Nat /\ v.pts - v.cnt \in Nat /\ FirstPts <= v.pts - v.cnt
  BY <1>10, UpdatesType
<1>12. Inside(K, d.pts, a)
  <2>1. \A v \in d.pending_updates : d.pts <= v.pts - v.cnt /\ v.pts <= d.accumulated_pts
    BY DEF Accumulated
  <2> SUFFICES ASSUME NEW v \in K PROVE d.pts <= v.pts - v.cnt /\ v.pts <= a
    BY DEF Inside
  <2>2. v \in d.pending_updates \/ v = u
    BY DEF With, Sums
  <2>3. CASE v \in d.pending_updates
    BY <2>1, <2>3, <1>6, <1>8, <1>11
  <2>4. CASE v = u
    BY <2>4, <1>2, <1>8
  <2> QED
    BY <2>2, <2>3, <2>4
<1>13. Inside(K, FirstPts, a)
  BY <1>11, <1>12 DEF Inside
<1>14. k = Cardinality(Cover(K)) /\ k \in Nat
  <2>1. d.accumulated_pts_count = Cardinality(Cover(d.pending_updates))
    BY DEF Accumulated
  <2>2. Cardinality(Cover(K)) \in Nat /\ Cardinality(Cover(d.pending_updates)) \in Nat
    BY <1>9, <1>10, CoverFinite
  <2>3. CASE u.cnt > 0
    <3>1. u \notin d.pending_updates
      BY <2>3 DEF After, Held
    <3>2. K = d.pending_updates \cup {u}
      BY <2>3 DEF With, Sums
    <3>3. Cardinality(Cover(d.pending_updates \cup {u})) = Cardinality(Cover(d.pending_updates)) + u.cnt
      BY <2>3, <3>1, <1>1, <1>9, CoverAdd
    <3> QED
      BY <3>2, <3>3, <2>1, <2>2, <1>0
  <2>4. CASE u.cnt = 0
    <3>1. K = d.pending_updates
      BY <2>4 DEF With, Sums
    <3>2. k = d.accumulated_pts_count
      BY <2>1, <2>2, <2>4, <1>0
    <3> QED
      BY <3>1, <3>2, <2>1, <2>2
  <2> QED
    BY <2>3, <2>4, <1>1
<1>15. Cardinality(Cover(K)) <= a - d.pts
  BY <1>4, <1>8, <1>10, <1>12, CoverBound
<1>16. Cardinality(Cover(K)) <= a - FirstPts
  BY <1>4, <1>8, <1>10, <1>13, CoverBound
<1>17. d.pts + k <= a /\ (d.pts = NoPts => d.pts + k < a)
  BY <1>4, <1>8, <1>14, <1>15, <1>16 DEF NoPts
<1>18. K \in SUBSET Updates(N) /\ Inside(K, d.pts, a) /\ a \in Reached(N) /\ d.pts < a
  BY <1>8, <1>10, <1>12
<1> QED
  BY <1>14, <1>17, <1>18 DEF Fits

(* e is d, with the pending updates U and the sums a and k *)
Summed(d, e, U, a, k) ==
  /\ IsClient(e)
  /\ e.pending_updates = U /\ e.accumulated_pts = a /\ e.accumulated_pts_count = k
  /\ e.pts = d.pts /\ e.acks = d.acks /\ e.stored = d.stored
  /\ e.postponed_pts_updates = d.postponed_pts_updates
  /\ e.running = d.running /\ e.asked = d.asked /\ e.fatal = d.fatal /\ e.skipped = d.skipped
  /\ e.passed = d.passed /\ e.base = d.base
  /\ e.retry_timeout = d.retry_timeout
  /\ SameSeq(d, e)

(* e is d after the update u *)
Grown(d, e, u) ==
  /\ e.running = d.running
  /\ Held(e) \subseteq Held(d) \cup {u}
  /\ e.postponed_pts_updates = d.postponed_pts_updates
  /\ SameSeq(d, e) /\ StillToAsk(d, e)
  /\ e.pts # d.pts => Known(e.pts)

LEMMA KeepSound ==
  ASSUME NEW N \in 0..Len(Ends), NEW S \in Nat, NEW R \in Misfortunes, NEW t \in 0..N,
         NEW d, NEW e, NEW f, NEW u, Sound(d, t, N, S, R), d.running = "no", After(d, u, N),
         d.pts \in {NoPts, PtsAt(t)}, NEW a, NEW k, NEW K, Sums(d, u, K, a, k),
         Summed(d, f, K, a, k), e = SetGetDifferenceTimeout(f)
  PROVE  Sound(e, t, N, S, R) /\ Grown(d, e, u)
<1>1. Accumulated(d, N)
  BY DEF Sound, Body
<1>2. /\ K \in SUBSET Updates(N) /\ Inside(K, d.pts, a) /\ a \in Reached(N) /\ d.pts < a
      /\ k = Cardinality(Cover(K))
  BY <1>1, SumIs DEF Fits
<1>3. IsClient(f)
  BY DEF Summed
<1>4. IsClient(e)
  BY <1>3 DEF IsClient, SetGetDifferenceTimeout
<1>5. /\ e.pending_updates = f.pending_updates /\ e.accumulated_pts = f.accumulated_pts
      /\ e.accumulated_pts_count = f.accumulated_pts_count
      /\ e.pts = f.pts /\ e.acks = f.acks /\ e.stored = f.stored
      /\ e.postponed_pts_updates = f.postponed_pts_updates
      /\ e.running = f.running /\ e.asked = f.asked /\ e.fatal = f.fatal /\ e.skipped = f.skipped
      /\ e.passed = f.passed /\ e.base = f.base /\ e.retry_timeout = f.retry_timeout
      /\ SameSeq(f, e) /\ e.pts_gap_timeout = TRUE
  BY <1>3 DEF IsClient, Fields, SetGetDifferenceTimeout, SameSeq
<1>6. Summed(d, e, K, a, k) /\ e.pts_gap_timeout = TRUE
  BY <1>4, <1>5 DEF Summed, SameSeq
<1>7. Alone(e)
  BY <1>6 DEF Sound, Body, Alone, NotFatal, Summed
<1>8. Accumulated(e, N)
  <2>1. \A v \in K : d.pts <= v.pts - v.cnt /\ v.pts <= a
    BY <1>2 DEF Inside
  <2> QED
    BY <2>1, <1>2, <1>6 DEF Accumulated, Summed
<1>9. Positioned(e, N, R)
  BY <1>6 DEF Sound, Body, Positioned, Summed
<1>10. Timeline(e, t)
  BY <1>6 DEF Sound, Body, Timeline, Summed
<1>11. K \subseteq d.pending_updates \cup {u} /\ (u \in K \ d.pending_updates => u \notin Held(d))
  BY DEF With, After, Sums
<1>12. Once(e, N, S, R)
  <2>1. /\ d.postponed_updates \in Seq(Containers(N, S, R))
        /\ d.postponed_pts_updates \subseteq Updates(N)
        /\ d.pending_updates \cap d.postponed_pts_updates = {}
        /\ \A i \in 1..Len(d.postponed_updates) : d.postponed_updates[i].upd.cnt > 0 =>
             /\ d.postponed_updates[i].upd \notin d.pending_updates \cup d.postponed_pts_updates
             /\ \A j \in 1..Len(d.postponed_updates) :
                  d.postponed_updates[i].upd = d.postponed_updates[j].upd => i = j
    BY DEF Sound, Body, Once
  <2>2. e.postponed_updates = d.postponed_updates /\ e.pending_updates = K
        /\ e.postponed_pts_updates = d.postponed_pts_updates
    BY <1>6 DEF Summed, SameSeq
  <2>3. K \cap d.postponed_pts_updates = {}
    BY <2>1, <1>11 DEF Held
  <2>4. \A i \in 1..Len(d.postponed_updates) : d.postponed_updates[i].upd.cnt > 0 =>
           d.postponed_updates[i].upd \notin K
    BY <2>1, <1>11 DEF Held
  <2>5. \A i \in 1..Len(e.postponed_updates) : e.postponed_updates[i].upd.cnt > 0 =>
             /\ e.postponed_updates[i].upd \notin e.pending_updates \cup e.postponed_pts_updates
             /\ \A j \in 1..Len(e.postponed_updates) :
                  e.postponed_updates[i].upd = e.postponed_updates[j].upd => i = j
    BY <2>1, <2>2, <2>4
  <2> QED
    BY <2>1, <2>2, <2>3, <2>5 DEF Once
<1>13. Sequenced(e, N, S, R)
  BY <1>6 DEF Sound, Body, Sequenced, Summed, SameSeq
<1>14. Sound(e, t, N, S, R)
  BY <1>4, <1>6, <1>7, <1>8, <1>9, <1>10, <1>12, <1>13 DEF Sound, Body, Summed
<1>15. Held(e) \subseteq Held(d) \cup {u}
  BY <1>6, <1>11 DEF Held, Summed, SameSeq
<1> QED
  BY <1>6, <1>14, <1>15 DEF Grown, Summed, StillToAsk

(* e is h with nothing pending *)
Cleared(h, e) ==
  /\ IsClient(e)
  /\ e.pts = h.pts /\ e.acks = h.acks /\ e.stored = h.stored
  /\ e.postponed_pts_updates = h.postponed_pts_updates /\ e.running = h.running
  /\ e.fatal = h.fatal /\ e.skipped = h.skipped /\ e.passed = h.passed /\ e.base = h.base
  /\ e.pending_updates = {} /\ e.accumulated_pts = -1 /\ e.accumulated_pts_count = 0
  /\ SameSeq(h, e) /\ StillToAsk(h, e)

LEMMA FillSound ==
  ASSUME NEW N \in 0..Len(Ends), NEW S \in Nat, NEW R \in Misfortunes, NEW t \in 0..N,
         NEW d, NEW e, NEW f, NEW g, NEW h, NEW u, Sound(d, t, N, S, R), d.running = "no",
         After(d, u, N), d.pts \in {NoPts, PtsAt(t)}, NEW a, NEW k, NEW K, Sums(d, u, K, a, k),
         NEW U, Summed(d, f, U, a, k), d.pts + k = a, g = Apply(f, K), h = SetPts(g, a),
         Cleared(h, e)
  PROVE  \E j \in t..N : Sound(e, j, N, S, R) /\ Grown(d, e, u)
<1>0. Accumulated(d, N)
  BY DEF Sound, Body
<1>1. /\ K \in SUBSET Updates(N) /\ Inside(K, d.pts, a) /\ a \in Reached(N) /\ d.pts < a
      /\ k = Cardinality(Cover(K)) /\ k \in Nat
      /\ d.pts = NoPts => d.pts + k < a
  BY <1>0, SumIs DEF Fits
<1>2. a \in Nat /\ a < MaxPts /\ MaxPts \in Nat /\ Known(a)
  BY <1>1, ReachedType, UpdatesManagerAssumption
<1>3. d.pts = PtsAt(t)
  BY <1>1, <1>2
<1>4. PICK j \in 0..N : a = PtsAt(j)
  BY <1>1, ReachedType
<1>5. Len(Ends) \in Nat /\ t \in 0..Len(Ends) /\ j \in 0..Len(Ends)
  BY UpdatesManagerAssumption
<1>6. PtsAt(t) \in Nat /\ PtsAt(j) \in Nat
  BY <1>5, PtsType
<1>7. t <= j /\ j \in t..N
  <2>1. PtsAt(t) < PtsAt(j)
    BY <1>1, <1>3, <1>4
  <2>2. t < j
    BY <2>1, <1>5, PtsInjective
  <2> QED
    BY <2>2, <1>5
<1>8. Cardinality(Cover(K)) = PtsAt(j) - PtsAt(t)
  BY <1>1, <1>3, <1>4, <1>6
<1>9. Inside(K, PtsAt(t), PtsAt(j))
  BY <1>1, <1>3, <1>4
<1>10. AllBetween(K, t, j)
  BY <1>1, <1>7, <1>8, <1>9, CoverFull
<1>11. /\ IsClient(g) /\ Extends(f, g, K)
       /\ g.pts = f.pts /\ g.acks = f.acks /\ g.stored = f.stored
       /\ g.postponed_pts_updates = f.postponed_pts_updates
       /\ g.running = f.running /\ g.fatal = f.fatal /\ g.skipped = f.skipped
       /\ g.retry_timeout = f.retry_timeout /\ SameSeq(f, g)
  <2>1. IsClient(f)
    BY DEF Summed
  <2> QED
    BY <2>1, ApplyIs
<1>12. AppliedTo(d, t)
  BY DEF Sound, Body, Timeline, AppliedTo
<1>13. Extends(d, g, K)
  BY <1>11 DEF Summed, Extends
<1>14. AppliedTo(g, j)
  BY <1>7, <1>10, <1>12, <1>13, ApplyPart
<1>15. g.pts = d.pts /\ d.pts \in Int
  BY <1>3, <1>6, <1>11 DEF Summed
<1>16. Moved(g, h, a) /\ StillToAsk(g, h)
  BY <1>1, <1>2, <1>11, <1>15, SetPtsIs
<1>17. AppliedTo(e, j)
  BY <1>14, <1>16 DEF AppliedTo, Moved, Cleared
<1>18. SameSeq(d, e)
  <2>1. SameSeq(d, f) /\ SameSeq(f, g) /\ SameSeq(g, h)
    BY <1>11, <1>16 DEF Moved, Summed
  <2>2. SameSeq(h, e)
    BY DEF Cleared
  <2> QED
    BY <2>1, <2>2, SameSeqTrans
<1>19. Settled(d, e, PtsAt(j))
  <2>1. e.acks = Append(d.acks, a) /\ e.pts = a
    BY <1>11, <1>16 DEF Moved, Summed, Cleared
  <2>2. e.stored = d.stored /\ e.postponed_pts_updates = d.postponed_pts_updates
        /\ e.running = "no" /\ e.fatal = d.fatal
    BY <1>11, <1>16 DEF Moved, Summed, Cleared
  <2> QED
    BY <2>1, <2>2, <1>4, <1>18 DEF Settled, SameSeq, Cleared
<1>20. Body(d, t, N, S, R) /\ Sequenced(d, N, S, R)
  BY DEF Sound, Body
<1>21. Sequenced(e, N, S, R)
  BY <1>18, <1>20 DEF Sequenced, SameSeq
<1>25. e.skipped # {} => Excused(R)
  <2>1. e.skipped = d.skipped
    BY <1>11, <1>16 DEF Moved, Summed, Cleared
  <2> QED
    BY <2>1, <1>20 DEF Body, Positioned
<1>22. Sound(e, j, N, S, R) /\ Held(e) \subseteq Held(d)
  BY <1>7, <1>17, <1>19, <1>20, <1>21, <1>25, SettleSound
<1>23. StillToAsk(d, e)
  BY <1>11, <1>16 DEF StillToAsk, Summed, Cleared
<1>24. Grown(d, e, u)
  BY <1>2, <1>4, <1>18, <1>19, <1>22, <1>23 DEF Grown, Settled
<1> QED
  BY <1>7, <1>22, <1>24

LEMMA AccumulateSound ==
  ASSUME NEW N \in 0..Len(Ends), NEW S \in Nat, NEW R \in Misfortunes, NEW t \in 0..N,
         NEW d, NEW e, NEW u, Sound(d, t, N, S, R), d.running = "no", After(d, u, N),
         d.pts \in {NoPts, PtsAt(t)}, e = AccumulateUpdate(d, u)
  PROVE  \E t2 \in t..N : Sound(e, t2, N, S, R) /\ Grown(d, e, u)
<1>1. PICK a : a = Max({d.accumulated_pts, u.pts})
  OBVIOUS
<1>2. PICK k : k = d.accumulated_pts_count + u.cnt
  OBVIOUS
<1>3. PICK K : K = With(d.pending_updates, u)
  OBVIOUS
<1>4. Sums(d, u, K, a, k)
  BY <1>1, <1>2, <1>3 DEF Sums
<1>5. PICK sum : sum = [d EXCEPT !.accumulated_pts_count = k, !.accumulated_pts = a]
  OBVIOUS
<1>6. IsClient(d) /\ Accumulated(d, N)
  BY DEF Sound, Body
<1>7. IsClient(sum)
  BY <1>5, <1>6 DEF IsClient
<1>8. Summed(d, sum, d.pending_updates, a, k) /\ sum.pts_gap_timeout = d.pts_gap_timeout
  BY <1>5, <1>6, <1>7 DEF Summed, IsClient, Fields, SameSeq
<1>9. PICK kept : kept = IF u.cnt > 0 THEN [sum EXCEPT !.pending_updates = @ \cup {u}] ELSE sum
  OBVIOUS
<1>10. IsClient(kept) /\ Summed(d, kept, K, a, k)
  <2>1. CASE u.cnt > 0
    <3>1. kept = [sum EXCEPT !.pending_updates = @ \cup {u}]
      BY <1>9, <2>1
    <3>2. IsClient(kept)
      BY <1>7, <3>1 DEF IsClient
    <3>3. /\ kept.pending_updates = sum.pending_updates \cup {u}
          /\ kept.accumulated_pts = sum.accumulated_pts
          /\ kept.accumulated_pts_count = sum.accumulated_pts_count
          /\ kept.pts = sum.pts /\ kept.acks = sum.acks /\ kept.stored = sum.stored
          /\ kept.postponed_pts_updates = sum.postponed_pts_updates
          /\ kept.running = sum.running /\ kept.asked = sum.asked /\ kept.fatal = sum.fatal /\ kept.skipped = sum.skipped
          /\ kept.passed = sum.passed /\ kept.base = sum.base
          /\ kept.retry_timeout = sum.retry_timeout /\ SameSeq(sum, kept)
      BY <1>7, <3>1 DEF IsClient, Fields, SameSeq
    <3>4. K = d.pending_updates \cup {u}
      BY <1>3, <2>1 DEF With
    <3> QED
      BY <3>2, <3>3, <3>4, <1>8 DEF Summed, SameSeq
  <2>2. CASE ~(u.cnt > 0)
    <3>1. kept = sum
      BY <1>9, <2>2
    <3>2. K = d.pending_updates
      BY <1>3, <2>2 DEF With
    <3> QED
      BY <3>1, <3>2, <1>7, <1>8
  <2> QED
    BY <2>1, <2>2
<1>11. Fits(d, K, a, k, N)
  BY <1>4, <1>6, SumIs
<1>12. d.pts + u.cnt <= u.pts
  <2>1. d.pts <= u.pts - u.cnt
    BY AfterStart
  <2>2. u.pts \in Nat /\ u.cnt \in Nat
    BY AfterType
  <2>3. t \in 0..Len(Ends)
    BY UpdatesManagerAssumption
  <2>4. d.pts \in Int
    BY <2>3, PtsType DEF NoPts
  <2> QED
    BY <2>1, <2>2, <2>4
<1>13. d.pts \in Int /\ u.pts \in Nat /\ u.cnt \in Nat /\ k \in Nat /\ a \in Nat /\ d.pts < a /\ d.pts + k <= a
  <2>1. t \in 0..Len(Ends)
    BY UpdatesManagerAssumption
  <2>2. a \in Reached(N) /\ k \in Nat /\ d.pts < a /\ d.pts + k <= a
    BY <1>11 DEF Fits
  <2> QED
    BY <2>1, <2>2, PtsType, AfterType, ReachedType DEF NoPts
<1>14. sum.accumulated_pts = a /\ sum.accumulated_pts_count = k /\ sum.pending_updates = d.pending_updates
       /\ kept.pending_updates = K
  BY <1>8, <1>10 DEF Summed
<1>15. e = IF sum.pending_updates = {} /\ d.pts + k = a /\ ~sum.pts_gap_timeout
             THEN IF u.cnt = 0 THEN sum
                  ELSE [SetPts(Apply(sum, {u}), a)
                          EXCEPT !.accumulated_pts_count = 0, !.accumulated_pts = -1]
           ELSE IF d.pts + k < a THEN SetGetDifferenceTimeout(kept)
           ELSE IF kept.pending_updates # {} THEN ProcessPendingUpdates(kept) ELSE kept
  <2> DEFINE sum0 == [d EXCEPT !.accumulated_pts_count = @ + u.cnt,
                               !.accumulated_pts = Max({@, u.pts})]
             kept0 == IF u.cnt > 0 THEN [sum0 EXCEPT !.pending_updates = @ \cup {u}] ELSE sum0
  <2>1. sum = sum0
    BY <1>1, <1>2, <1>5
  <2>2. kept = kept0
    BY <2>1, <1>9
  <2>3. AccumulateUpdate(d, u) =
          IF d.pts + u.cnt > u.pts THEN SetGetDifferenceTimeout(d)
          ELSE IF d.pts + sum0.accumulated_pts_count > sum0.accumulated_pts
            THEN SetGetDifferenceTimeout(sum0)
          ELSE IF sum0.pending_updates = {} /\ d.pts + sum0.accumulated_pts_count = sum0.accumulated_pts /\ ~sum0.pts_gap_timeout
            THEN IF u.cnt = 0 THEN sum0
                 ELSE [SetPts(Apply(sum0, {u}), sum0.accumulated_pts)
                         EXCEPT !.accumulated_pts_count = 0, !.accumulated_pts = -1]
          ELSE IF d.pts + sum0.accumulated_pts_count < sum0.accumulated_pts
            THEN SetGetDifferenceTimeout(kept0)
          ELSE IF kept0.pending_updates # {} THEN ProcessPendingUpdates(kept0) ELSE kept0
    BY DEF AccumulateUpdate
  <2> HIDE DEF sum0, kept0
  <2>4. ~(d.pts + u.cnt > u.pts) /\ ~(d.pts + k > a)
    BY <1>12, <1>13
  <2>5. sum0.accumulated_pts = a /\ sum0.accumulated_pts_count = k
    BY <2>1, <1>14
  <2> QED
    BY <2>1, <2>2, <2>3, <2>4, <2>5, Zenon
<1>16. CASE d.pts + k < a
  <2>1. ~(d.pts + k = a)
    BY <1>13, <1>16
  <2>2. e = SetGetDifferenceTimeout(kept)
    BY <2>1, <1>15, <1>16
  <2>3. Sound(e, t, N, S, R) /\ Grown(d, e, u)
    BY <2>2, <1>4, <1>10, KeepSound
  <2>4. t \in t..N
    BY UpdatesManagerAssumption
  <2> QED
    BY <2>3, <2>4
<1>17. CASE d.pts + k = a
  <2>0. k > 0 /\ K # {}
    <3>1. k > 0
      BY <1>13, <1>17
    <3>2. k = Cardinality(Cover(K))
      BY <1>11 DEF Fits
    <3>3. K = {} => k = 0
      BY <3>2, CoverNone
    <3> QED
      BY <3>1, <3>3
  <2>1. CASE sum.pending_updates = {} /\ ~sum.pts_gap_timeout
    <3>1. u.cnt # 0 /\ u.cnt > 0
      <4>1. u.cnt # 0
        BY <2>0, <2>1, <1>3, <1>14 DEF With
      <4> QED
        BY <4>1, <1>13
    <3>2. K = {u}
      BY <3>1, <2>1, <1>3, <1>14 DEF With
    <3>3. PICK g : g = Apply(sum, K)
      OBVIOUS
    <3>4. PICK h : h = SetPts(g, a)
      OBVIOUS
    <3>5. e = [h EXCEPT !.accumulated_pts_count = 0, !.accumulated_pts = -1]
      BY <3>1, <3>2, <3>3, <3>4, <2>1, <1>15, <1>17
    <3>6. IsClient(g) /\ g.pts = d.pts /\ g.pending_updates = {}
      <4>1. IsClient(g) /\ g.pts = sum.pts /\ g.pending_updates = sum.pending_updates
        BY <1>7, <3>3, ApplyIs
      <4> QED
        BY <4>1, <2>1, <1>8 DEF Summed
    <3>7. a # MaxPts
      BY <1>11, ReachedType, UpdatesManagerAssumption DEF Fits
    <3>8. Moved(g, h, a)
      BY <3>4, <3>6, <3>7, <1>13, SetPtsIs
    <3>9. IsClient(h) /\ h.pending_updates = {}
      BY <3>6, <3>8 DEF Moved
    <3>10. IsClient(e)
      BY <3>5, <3>9 DEF IsClient
    <3>11. /\ e.pts = h.pts /\ e.acks = h.acks /\ e.stored = h.stored
           /\ e.postponed_pts_updates = h.postponed_pts_updates /\ e.running = h.running
           /\ e.fatal = h.fatal /\ e.skipped = h.skipped /\ e.passed = h.passed /\ e.base = h.base
           /\ e.retry_timeout = h.retry_timeout
           /\ SameSeq(h, e) /\ e.pending_updates = h.pending_updates
           /\ e.accumulated_pts = -1 /\ e.accumulated_pts_count = 0
      BY <3>5, <3>9 DEF IsClient, Fields, SameSeq
    <3>12. StillToAsk(h, e) /\ e.pending_updates = {}
      BY <3>9, <3>11 DEF StillToAsk
    <3>13. PICK U : U = d.pending_updates
      OBVIOUS
    <3>14. Summed(d, sum, U, a, k)
      BY <3>13, <1>8
    <3>15. Cleared(h, e)
      BY <3>10, <3>11, <3>12 DEF Cleared
    <3> QED
      BY <3>3, <3>4, <3>14, <3>15, <1>4, <1>17, FillSound
  <2>2. CASE ~(sum.pending_updates = {} /\ ~sum.pts_gap_timeout)
    <3>1. e = ProcessPendingUpdates(kept)
      <4>1. ~(d.pts + k < a)
        BY <1>13, <1>17
      <4> QED
        BY <4>1, <2>0, <2>2, <1>14, <1>15
    <3>3. PICK g : g = Apply(kept, K)
      OBVIOUS
    <3>4. PICK h : h = SetPts(g, a)
      OBVIOUS
    <3>5. kept.accumulated_pts = a
      BY <1>10 DEF Summed
    <3>6. e = DropPendingUpdates(h)
      BY <3>1, <3>3, <3>4, <3>5, <1>14 DEF ProcessPendingUpdates
    <3>7. IsClient(g) /\ g.pts = d.pts
      <4>1. IsClient(g) /\ g.pts = kept.pts
        BY <1>10, <3>3, ApplyIs
      <4> QED
        BY <4>1, <1>10 DEF Summed
    <3>8. a # MaxPts
      BY <1>11, ReachedType, UpdatesManagerAssumption DEF Fits
    <3>9. Moved(g, h, a)
      BY <3>4, <3>7, <3>8, <1>13, SetPtsIs
    <3>10. IsClient(h)
      BY <3>9 DEF Moved
    <3>11. IsClient(e)
      BY <3>6, <3>10 DEF IsClient, DropPendingUpdates
    <3>12. /\ e.pts = h.pts /\ e.acks = h.acks /\ e.stored = h.stored
           /\ e.postponed_pts_updates = h.postponed_pts_updates /\ e.running = h.running
           /\ e.fatal = h.fatal /\ e.skipped = h.skipped /\ e.passed = h.passed /\ e.base = h.base
           /\ e.retry_timeout = h.retry_timeout
           /\ SameSeq(h, e) /\ e.pending_updates = {}
           /\ e.accumulated_pts = -1 /\ e.accumulated_pts_count = 0
      BY <3>6, <3>10 DEF IsClient, Fields, SameSeq, DropPendingUpdates
    <3>13. StillToAsk(h, e)
      BY <3>12 DEF StillToAsk
    <3>14. Cleared(h, e)
      BY <3>11, <3>12, <3>13 DEF Cleared
    <3> QED
      BY <3>3, <3>4, <3>14, <1>4, <1>10, <1>17, FillSound
  <2> QED
    BY <2>1, <2>2
<1> QED
  BY <1>13, <1>16, <1>17

(* A timeout more does no harm. *)
LEMMA TimeoutSound ==
  ASSUME NEW N \in 0..Len(Ends), NEW S \in Nat, NEW R \in Misfortunes, NEW t \in 0..N,
         NEW d, NEW e, NEW u, Sound(d, t, N, S, R), e = SetGetDifferenceTimeout(d)
  PROVE  Sound(e, t, N, S, R) /\ Grown(d, e, u) /\ e.asked = d.asked
<1>1. IsClient(d)
  BY DEF Sound, Body
<1>2. IsClient(e)
  BY <1>1 DEF IsClient, SetGetDifferenceTimeout
<1>3. /\ e.pending_updates = d.pending_updates /\ e.accumulated_pts = d.accumulated_pts
      /\ e.accumulated_pts_count = d.accumulated_pts_count
      /\ e.pts = d.pts /\ e.acks = d.acks /\ e.stored = d.stored
      /\ e.postponed_pts_updates = d.postponed_pts_updates
      /\ e.running = d.running /\ e.asked = d.asked /\ e.fatal = d.fatal /\ e.skipped = d.skipped
      /\ e.passed = d.passed /\ e.base = d.base /\ e.retry_timeout = d.retry_timeout
      /\ SameSeq(d, e) /\ e.pts_gap_timeout = TRUE
  BY <1>1 DEF IsClient, Fields, SetGetDifferenceTimeout, SameSeq
<1>4. Alone(e)
  BY <1>3 DEF Sound, Body, Alone, NotFatal
<1>5. Accumulated(e, N)
  BY <1>3 DEF Sound, Body, Accumulated
<1>6. Positioned(e, N, R)
  BY <1>3 DEF Sound, Body, Positioned
<1>7. Timeline(e, t)
  BY <1>3 DEF Sound, Body, Timeline
<1>8. Once(e, N, S, R)
  BY <1>3 DEF Sound, Body, Once, SameSeq
<1>9. Sequenced(e, N, S, R)
  BY <1>3 DEF Sound, Body, Sequenced, SameSeq
<1>10. Sound(e, t, N, S, R)
  BY <1>2, <1>3, <1>4, <1>5, <1>6, <1>7, <1>8, <1>9 DEF Sound, Body
<1>11. Held(e) = Held(d)
  BY <1>3 DEF Held, SameSeq
<1> QED
  BY <1>3, <1>10, <1>11 DEF Grown, StillToAsk

LEMMA GrownSame ==
  ASSUME NEW d, NEW u
  PROVE  Grown(d, d, u)
  BY DEF Grown, SameSeq, StillToAsk

(* An update that the client may get: it does not hold it. *)
Given(d, u, N) ==
  /\ u \in Updates(N) \cup Telling(N)
  /\ u.cnt > 0 => u \notin Held(d)

LEMMA GivenType ==
  ASSUME NEW N \in 0..Len(Ends), NEW d, NEW u, Given(d, u, N)
  PROVE  u.pts \in Nat /\ u.cnt \in Nat
<1>1. CASE u \in Updates(N)
  BY <1>1, UpdatesType
<1>2. CASE u \in Telling(N)
  <2>1. u.cnt = 0 /\ u.pts \in {0} \cup Reached(N)
    BY <1>2 DEF Telling
  <2> QED
    BY <2>1, ReachedType
<1> QED
  BY <1>1, <1>2 DEF Given

LEMMA PtsNumber ==
  ASSUME NEW N \in 0..Len(Ends), NEW S \in Nat, NEW R \in Misfortunes, NEW t \in 0..N,
         NEW d, Sound(d, t, N, S, R)
  PROVE  d.pts \in {NoPts, MaxPts, PtsAt(t)} /\ d.pts \in Int
<1>1. d.pts \in {NoPts, MaxPts} \cup Reached(N) /\ (Known(d.pts) => d.pts = PtsAt(t))
  BY DEF Sound, Body, Positioned
<1>2. t \in 0..Len(Ends)
  BY UpdatesManagerAssumption
<1>3. PtsAt(t) \in Nat /\ MaxPts \in Nat /\ NoPts \in Int
  BY <1>2, PtsType, UpdatesManagerAssumption DEF NoPts
<1> QED
  BY <1>1, <1>3 DEF Known

(* e is d after add_pending_update *)
Adds(d, u, e) == e = AddPendingUpdate(d, u, FALSE) \/ e = AddPendingUpdate(d, u, TRUE)

(* ... for the result of a query *)
AddsAnswer(d, u, e) == e = AddPendingUpdate(d, u, TRUE)

Postpones(d, u, e) ==
  e = [d EXCEPT !.postponed_pts_updates = d.postponed_pts_updates \cup {u}, !.fatal = FALSE]

LEMMA AddPendingSound ==
  ASSUME NEW N \in 0..Len(Ends), NEW S \in Nat, NEW R \in Misfortunes, NEW t \in 0..N,
         NEW d, NEW e, NEW u, Sound(d, t, N, S, R), d.running = "no", Given(d, u, N),
         Adds(d, u, e)
  PROVE  \E t2 \in t..N : Sound(e, t2, N, S, R) /\ Grown(d, e, u)
<1>1. u.pts \in Nat /\ u.cnt \in Nat /\ FarBehind \in Nat /\ MaxPts \in Nat
  BY GivenType, UpdatesManagerAssumption
<1>2. d.pts \in {NoPts, MaxPts, PtsAt(t)} /\ d.pts \in Int
  BY PtsNumber
<1>3. PICK f : f = IF u.pts < d.pts - FarBehind THEN SetGetDifferenceTimeout(d) ELSE d
  OBVIOUS
<1>4. e = IF u.pts <= u.cnt THEN d ELSE IF u.pts <= d.pts THEN f ELSE AccumulateUpdate(f, u)
  BY <1>3 DEF AddPendingUpdate, Adds
<1>5. t \in t..N
  BY UpdatesManagerAssumption
<1>6. CASE u.pts <= u.cnt
  BY <1>4, <1>5, <1>6, GrownSame
<1>7. CASE ~(u.pts <= u.cnt) /\ u.pts <= d.pts
  <2>1. e = f
    BY <1>4, <1>7
  <2>2. CASE f = d
    BY <2>1, <2>2, <1>5, GrownSame
  <2>3. CASE f = SetGetDifferenceTimeout(d)
    BY <2>1, <2>3, <1>5, TimeoutSound
  <2> QED
    BY <2>2, <2>3, <1>3
<1>8. CASE ~(u.pts <= u.cnt) /\ ~(u.pts <= d.pts)
  <2>1. ~(u.pts < d.pts - FarBehind) /\ u.pts >= 1 /\ u.pts > d.pts
    BY <1>1, <1>2, <1>8
  <2>2. e = AccumulateUpdate(d, u)
    BY <2>1, <1>3, <1>4, <1>8
  <2>3. After(d, u, N)
    BY <2>1 DEF After, Given
  <2>4. u.pts < MaxPts
    <3>1. u.pts \in Reached(N)
      BY <2>3, AfterType
    <3> QED
      BY <3>1, ReachedType
  <2>5. d.pts \in {NoPts, PtsAt(t)}
    BY <2>1, <2>4, <1>1, <1>2
  <2> QED
    BY <2>2, <2>3, <2>5, AccumulateSound
<1> QED
  BY <1>6, <1>7, <1>8

(* The update of a query result while the client asks. *)
LEMMA AddAnswerSound ==
  ASSUME NEW N \in 0..Len(Ends), NEW S \in Nat, NEW R \in Misfortunes, NEW t \in 0..N,
         NEW d, NEW e, NEW u, Sound(d, t, N, S, R), d.running # "no", Given(d, u, N),
         u \in Updates(N), AddsAnswer(d, u, e)
  PROVE  /\ Sound(e, t, N, S, R)
         /\ e.running = d.running /\ e.asked = d.asked /\ SameSeq(d, e) /\ e.pts = d.pts
         /\ StillToAsk(d, e) /\ Held(e) \subseteq Held(d) \cup {u}
<1>1. u.pts \in Nat /\ u.cnt \in Nat /\ FarBehind \in Nat /\ MaxPts \in Nat
  BY GivenType, UpdatesManagerAssumption
<1>2. d.pts \in Int
  BY PtsNumber
<1>3. IsClient(d)
  BY DEF Sound, Body
<1>4. CASE e = d
  BY <1>4 DEF SameSeq, StillToAsk
<1>5. CASE e = SetGetDifferenceTimeout(d) /\ e.pts = d.pts
  <2>1. Sound(e, t, N, S, R) /\ Grown(d, e, u) /\ e.asked = d.asked
    BY <1>5, TimeoutSound
  <2> QED
    BY <2>1, <1>5 DEF Grown
<1>9. u.cnt > 0 /\ u \notin Held(d)
  BY UpdatesType DEF Given
<1>6. CASE Postpones(d, u, e)
  <2>1. u.cnt > 0 /\ u \notin Held(d)
    BY <1>9
  <2>3. IsClient(e)
    BY <1>6, <1>3 DEF IsClient, Postpones
  <2>4. /\ e.pending_updates = d.pending_updates /\ e.accumulated_pts = d.accumulated_pts
        /\ e.accumulated_pts_count = d.accumulated_pts_count
        /\ e.pts = d.pts /\ e.acks = d.acks /\ e.stored = d.stored
        /\ e.postponed_pts_updates = d.postponed_pts_updates \cup {u}
        /\ e.running = d.running /\ e.asked = d.asked /\ NotFatal(e) /\ e.skipped = d.skipped
        /\ e.passed = d.passed /\ e.base = d.base /\ e.retry_timeout = d.retry_timeout
        /\ SameSeq(d, e) /\ e.pts_gap_timeout = d.pts_gap_timeout
    BY <1>6, <1>3 DEF IsClient, Fields, SameSeq, Postpones, NotFatal
  <2>5. Alone(e)
    BY <2>4 DEF Sound, Body, Alone
  <2>6. Accumulated(e, N)
    BY <2>4 DEF Sound, Body, Accumulated
  <2>7. Positioned(e, N, R)
    BY <2>4 DEF Sound, Body, Positioned
  <2>8. Timeline(e, t)
    BY <2>4 DEF Sound, Body, Timeline
  <2>13. e.postponed_updates = d.postponed_updates
    BY <2>4 DEF SameSeq
  <2>9. Once(e, N, S, R)
    <3>1. /\ d.postponed_updates \in Seq(Containers(N, S, R))
          /\ d.postponed_pts_updates \subseteq Updates(N)
          /\ d.pending_updates \cap d.postponed_pts_updates = {}
          /\ \A i \in 1..Len(d.postponed_updates) : d.postponed_updates[i].upd.cnt > 0 =>
               /\ d.postponed_updates[i].upd \notin d.pending_updates \cup d.postponed_pts_updates
               /\ \A j \in 1..Len(d.postponed_updates) :
                    d.postponed_updates[i].upd = d.postponed_updates[j].upd => i = j
      BY DEF Sound, Body, Once
    <3>2. u \notin d.pending_updates /\ \A i \in 1..Len(d.postponed_updates) : d.postponed_updates[i].upd # u
      BY <2>1 DEF Held
    <3>3. \A i \in 1..Len(d.postponed_updates) : d.postponed_updates[i].upd.cnt > 0 =>
            d.postponed_updates[i].upd \notin e.pending_updates \cup e.postponed_pts_updates
      BY <2>4, <3>1, <3>2
    <3>4. e.pending_updates \cap e.postponed_pts_updates = {} /\ e.postponed_pts_updates \subseteq Updates(N)
      BY <2>4, <3>1, <3>2
    <3> QED
      BY <2>13, <3>1, <3>3, <3>4 DEF Once
  <2>10. Sequenced(e, N, S, R)
    BY <2>4 DEF Sound, Body, Sequenced, SameSeq
  <2>11. Sound(e, t, N, S, R)
    BY <2>3, <2>4, <2>5, <2>6, <2>7, <2>8, <2>9, <2>10 DEF Sound, Body
  <2>12. Held(e) \subseteq Held(d) \cup {u}
    BY <2>4, <2>13 DEF Held
  <2> QED
    BY <2>4, <2>11, <2>12 DEF StillToAsk
<1>7. \/ e = d
      \/ e = SetGetDifferenceTimeout(d)
      \/ Postpones(d, u, e)
  <2>1. PICK f : f = IF u.pts < d.pts - FarBehind THEN SetGetDifferenceTimeout(d) ELSE d
    OBVIOUS
  <2>2. e = IF u.pts <= u.cnt THEN d ELSE IF u.pts <= d.pts THEN f
            ELSE [f EXCEPT !.postponed_pts_updates = IF u.cnt > 0 THEN @ \cup {u} ELSE @,
                           !.fatal = @ \/ ~TRUE]
    BY <2>1 DEF AddPendingUpdate, AddsAnswer
  <2>3. ~(u.pts <= d.pts) => f = d
    BY <2>1, <1>1, <1>2
  <2>4. d.fatal = FALSE
    BY DEF Sound, Body, Alone, NotFatal
  <2>5. CASE u.pts <= u.cnt
    BY <2>2, <2>5
  <2>6. CASE ~(u.pts <= u.cnt) /\ u.pts <= d.pts
    BY <2>1, <2>2, <2>6
  <2>7. CASE ~(u.pts <= u.cnt) /\ ~(u.pts <= d.pts)
    BY <2>2, <2>3, <2>4, <2>7, <1>9 DEF Postpones
  <2> QED
    BY <2>5, <2>6, <2>7
<1>8. e = SetGetDifferenceTimeout(d) => e.pts = d.pts
  BY <1>3 DEF IsClient, Fields, SetGetDifferenceTimeout
<1> QED
  BY <1>4, <1>5, <1>6, <1>7, <1>8
-----------------------------------------------------------------------------
(* MessagesManager::after_get_difference *)

LEMMA UpdatesFinite ==
  ASSUME NEW N \in 0..Len(Ends), NEW U \in SUBSET Updates(N)
  PROVE  IsFiniteSet(U)
<1>1. N \in Nat
  BY UpdatesManagerAssumption
<1> DEFINE f == [k \in 1..N |-> Update(k)]
<1>2. f \in Surjection(1..N, Updates(N))
  BY DEF Updates, Surjection
<1>3. IsFiniteSet(1..N)
  BY <1>1, FS_Interval
<1>4. IsFiniteSet(Updates(N))
  BY <1>2, <1>3, FS_Surjection
<1> QED
  BY <1>4, FS_Subset

(* e is d after updates that were postponed are taken up, from the t-th update *)
TakenUp(d, e, t, N, S, R) ==
  /\ \E t2 \in t..N : Sound(e, t2, N, S, R)
  /\ e.running = "no"
  /\ SameSeq(d, e) /\ StillToAsk(d, e)
  /\ Held(e) \subseteq Held(d)
  /\ e.pts # d.pts => Known(e.pts)

Without(d, u) == [d EXCEPT !.postponed_pts_updates = @ \ {u}]

LEMMA RemoveSound ==
  ASSUME NEW N \in 0..Len(Ends), NEW S \in Nat, NEW R \in Misfortunes, NEW t \in 0..N,
         NEW d, NEW e, NEW u, Sound(d, t, N, S, R), u \in d.postponed_pts_updates,
         e = Without(d, u)
  PROVE  /\ Sound(e, t, N, S, R) /\ Given(e, u, N) /\ Held(e) \subseteq Held(d) /\ u \in Held(d)
         /\ e.postponed_pts_updates = d.postponed_pts_updates \ {u}
         /\ SameSeq(d, e) /\ StillToAsk(d, e) /\ e.pts = d.pts /\ e.running = d.running
<1>1. IsClient(d)
  BY DEF Sound, Body
<1>2. IsClient(e)
  BY <1>1 DEF IsClient, Without
<1>3. /\ e.pending_updates = d.pending_updates /\ e.accumulated_pts = d.accumulated_pts
      /\ e.accumulated_pts_count = d.accumulated_pts_count
      /\ e.pts = d.pts /\ e.acks = d.acks /\ e.stored = d.stored
      /\ e.postponed_pts_updates = d.postponed_pts_updates \ {u}
      /\ e.running = d.running /\ e.asked = d.asked /\ e.fatal = d.fatal /\ e.skipped = d.skipped
      /\ e.passed = d.passed /\ e.base = d.base /\ e.retry_timeout = d.retry_timeout
      /\ SameSeq(d, e) /\ e.pts_gap_timeout = d.pts_gap_timeout
  BY <1>1 DEF IsClient, Fields, SameSeq, Without
<1>4. e.postponed_updates = d.postponed_updates
  BY <1>3 DEF SameSeq
<1>5. Alone(e)
  BY <1>3 DEF Sound, Body, Alone, NotFatal
<1>6. Accumulated(e, N)
  BY <1>3 DEF Sound, Body, Accumulated
<1>7. Positioned(e, N, R)
  BY <1>3 DEF Sound, Body, Positioned
<1>8. Timeline(e, t)
  BY <1>3 DEF Sound, Body, Timeline
<1>9. /\ d.postponed_updates \in Seq(Containers(N, S, R))
      /\ d.postponed_pts_updates \subseteq Updates(N)
      /\ d.pending_updates \cap d.postponed_pts_updates = {}
      /\ \A i \in 1..Len(d.postponed_updates) : d.postponed_updates[i].upd.cnt > 0 =>
           /\ d.postponed_updates[i].upd \notin d.pending_updates \cup d.postponed_pts_updates
           /\ \A j \in 1..Len(d.postponed_updates) :
                d.postponed_updates[i].upd = d.postponed_updates[j].upd => i = j
  BY DEF Sound, Body, Once
<1>10. Once(e, N, S, R)
  <2>1. e.pending_updates \cap e.postponed_pts_updates = {} /\ e.postponed_pts_updates \subseteq Updates(N)
    BY <1>3, <1>9
  <2>2. \A i \in 1..Len(d.postponed_updates) : d.postponed_updates[i].upd.cnt > 0 =>
          d.postponed_updates[i].upd \notin e.pending_updates \cup e.postponed_pts_updates
    BY <1>3, <1>9
  <2> QED
    BY <2>1, <2>2, <1>4, <1>9 DEF Once
<1>11. Sequenced(e, N, S, R)
  BY <1>3 DEF Sound, Body, Sequenced, SameSeq
<1>12. Sound(e, t, N, S, R)
  BY <1>2, <1>3, <1>5, <1>6, <1>7, <1>8, <1>10, <1>11 DEF Sound, Body
<1>13. u \in Updates(N) /\ u.cnt > 0
  BY <1>9, UpdatesType
<1>14. u \notin Held(e)
  BY <1>3, <1>4, <1>9, <1>13 DEF Held
<1>15. Held(e) \subseteq Held(d) /\ u \in Held(d)
  BY <1>3, <1>4 DEF Held
<1> QED
  BY <1>3, <1>12, <1>13, <1>14, <1>15 DEF Given, StillToAsk

LEMMA FirstPostponed ==
  ASSUME NEW N \in 0..Len(Ends), NEW U \in SUBSET Updates(N), U # {}
  PROVE  \E x \in U : \A y \in U : x.pts <= y.pts
<1>1. \A x \in U : x.pts \in Nat
  BY UpdatesType
<1>2. PICK P : P = { x.pts : x \in U }
  OBVIOUS
<1>3. P \in SUBSET Nat /\ P # {}
  BY <1>1, <1>2
<1>4. PICK p \in P : \A q \in P : p <= q
  BY <1>3, LeastNat
<1> QED
  BY <1>2, <1>4

LEMMA AddPostponedSound ==
  ASSUME NEW N \in 0..Len(Ends), NEW S \in Nat, NEW R \in Misfortunes, NEW t \in 0..N,
         NEW d, NEW e, NEW p, Sound(d, t, N, S, R), d.running = "no",
         d.postponed_pts_updates # {}, e = AddPostponedUpdate(d, p)
  PROVE  /\ TakenUp(d, e, t, N, S, R)
         /\ Cardinality(e.postponed_pts_updates) = Cardinality(d.postponed_pts_updates) - 1
<1>1. d.postponed_pts_updates \in SUBSET Updates(N)
  BY DEF Sound, Body, Once
<1>2. PICK u : u = CHOOSE x \in d.postponed_pts_updates :
                     \A y \in d.postponed_pts_updates : x.pts <= y.pts
  OBVIOUS
<1>3. u \in d.postponed_pts_updates
  BY <1>1, <1>2, FirstPostponed
<1>4. PICK f : f = Without(d, u)
  OBVIOUS
<1>5. /\ Sound(f, t, N, S, R) /\ Given(f, u, N) /\ Held(f) \subseteq Held(d) /\ u \in Held(d)
      /\ f.postponed_pts_updates = d.postponed_pts_updates \ {u}
      /\ SameSeq(d, f) /\ StillToAsk(d, f) /\ f.pts = d.pts /\ f.running = d.running
  BY <1>3, <1>4, RemoveSound
<1>6. IsFiniteSet(d.postponed_pts_updates)
  BY <1>1, UpdatesFinite
<1>7. Cardinality(f.postponed_pts_updates) = Cardinality(d.postponed_pts_updates) - 1
  BY <1>3, <1>5, <1>6, FS_RemoveElement
<1>8. e = IF u.pts <= p THEN f ELSE AddPendingUpdate(f, u, FALSE)
  <2> DEFINE u0 == CHOOSE x \in d.postponed_pts_updates :
                     \A y \in d.postponed_pts_updates : x.pts <= y.pts
  <2>1. AddPostponedUpdate(d, p) =
          IF d.postponed_pts_updates = {} THEN d
          ELSE IF u0.pts <= p THEN Without(d, u0) ELSE AddPendingUpdate(Without(d, u0), u0, FALSE)
    BY DEF AddPostponedUpdate, Without
  <2>2. u0 = u
    BY <1>2
  <2> HIDE DEF u0
  <2> QED
    BY <2>1, <2>2, <1>4, Zenon
<1>9. CASE u.pts <= p
  <2>1. e = f
    BY <1>8, <1>9
  <2>2. t \in t..N
    BY UpdatesManagerAssumption
  <2> QED
    BY <2>1, <2>2, <1>5, <1>7 DEF TakenUp
<1>10. CASE ~(u.pts <= p)
  <2>1. Adds(f, u, e)
    BY <1>8, <1>10 DEF Adds
  <2>2. \E t2 \in t..N : Sound(e, t2, N, S, R) /\ Grown(f, e, u)
    BY <2>1, <1>5, AddPendingSound
  <2>3. Grown(f, e, u) /\ \E t2 \in t..N : Sound(e, t2, N, S, R)
    BY <2>2
  <2>4. /\ e.running = "no" /\ Held(e) \subseteq Held(d)
        /\ e.postponed_pts_updates = f.postponed_pts_updates /\ SameSeq(d, e) /\ StillToAsk(d, e)
        /\ e.pts # d.pts => Known(e.pts)
    BY <2>3, <1>5, SameSeqTrans DEF Grown, StillToAsk
  <2> QED
    BY <2>3, <2>4, <1>7 DEF TakenUp
<1> QED
  BY <1>9, <1>10

LEMMA TakenUpTrans ==
  ASSUME NEW N \in 0..Len(Ends), NEW S, NEW R, NEW t \in 0..N, NEW t2 \in t..N, NEW d, NEW e, NEW f,
         TakenUp(d, e, t, N, S, R), TakenUp(e, f, t2, N, S, R)
  PROVE  TakenUp(d, f, t, N, S, R)
<1>1. PICK t3 \in t2..N : Sound(f, t3, N, S, R)
  BY DEF TakenUp
<1>2. t3 \in t..N
  BY UpdatesManagerAssumption
<1>3. SameSeq(d, f)
  BY SameSeqTrans DEF TakenUp
<1> QED
  BY <1>1, <1>2, <1>3 DEF TakenUp, StillToAsk

(* the loop of after_get_difference, and below those of                    *)
(* process_pending_seq_updates and after_get_difference of UpdatesManager: *)
(* a function of the number of its turns                                   *)
PostponedTurns(f, d, p, l) ==
  f = [i \in 0..l |-> IF i = 0 THEN d ELSE AddPostponedUpdate(f[i - 1], p)]

LEMMA PostponedLoop ==
  ASSUME NEW d, NEW p, NEW L \in Nat
  PROVE  \E f : PostponedTurns(f, d, p, L)
<1> DEFINE Is(f, l) == f = [i \in 0..l |-> IF i = 0 THEN d ELSE AddPostponedUpdate(f[i - 1], p)]
           Bad == { l \in Nat : ~\E f : Is(f, l) }
<1>1. ASSUME Bad # {} PROVE FALSE
  <2>1. PICK l \in Bad : \A k \in Bad : l <= k
    BY <1>1, LeastNat
  <2>2. l # 0
    <3> DEFINE f == [i \in 0..0 |-> d]
    <3>1. Is(f, 0)
      OBVIOUS
    <3> QED
      BY <2>1, <3>1
  <2>3. l - 1 \in Nat /\ l - 1 \notin Bad
    BY <2>1, <2>2, SMTT(30)
  <2>4. PICK f : Is(f, l - 1)
    BY <2>3
  <2>5. PICK x : x = AddPostponedUpdate(f[l - 1], p)
    OBVIOUS
  <2> DEFINE g == [i \in 0..l |-> IF i = l THEN x ELSE f[i]]
  <2>6. ASSUME NEW i \in 0..l
        PROVE  g[i] = IF i = 0 THEN d ELSE AddPostponedUpdate(g[i - 1], p)
    <3>1. CASE i = 0
      <4>1. i \in 0 .. l - 1 /\ i # l
        BY <3>1, <2>2, <2>3
      <4> QED
        BY <4>1, <3>1, <2>4
    <3>2. CASE i # 0 /\ i # l
      <4>1. i \in 0 .. l - 1 /\ i - 1 \in 0 .. l - 1 /\ i - 1 \in 0..l /\ i - 1 # l
        BY <3>2, <2>3
      <4>2. g[i] = f[i] /\ g[i - 1] = f[i - 1]
        BY <3>2, <4>1
      <4> QED
        BY <3>2, <4>1, <4>2, <2>4
    <3>3. CASE i = l
      <4>1. l - 1 \in 0..l /\ l - 1 # l
        BY <2>2, <2>3
      <4>2. g[i] = x /\ g[i - 1] = f[l - 1]
        BY <3>3, <4>1
      <4> QED
        BY <3>3, <4>2, <2>2, <2>5
    <3> QED
      BY <3>1, <3>2, <3>3
  <2>7. g = [i \in 0..l |-> g[i]]
    OBVIOUS
  <2>8. g = [i \in 0..l |-> IF i = 0 THEN d ELSE AddPostponedUpdate(g[i - 1], p)]
    BY <2>6, <2>7
  <2>9. Is(g, l)
    BY <2>8
  <2> QED
    BY <2>1, <2>9
<1>2. \E f : Is(f, L)
  BY <1>1
<1> QED
  BY <1>2 DEF PostponedTurns

LEMMA MessagesAfterSound ==
  ASSUME NEW N \in 0..Len(Ends), NEW S \in Nat, NEW R \in Misfortunes, NEW t \in 0..N,
         NEW d, NEW e, Sound(d, t, N, S, R), d.running = "no", e = MessagesAfterGetDifference(d)
  PROVE  TakenUp(d, e, t, N, S, R) /\ e.postponed_pts_updates = {}
<1>1. d.postponed_pts_updates \in SUBSET Updates(N)
  BY DEF Sound, Body, Once
<1>2. IsFiniteSet(d.postponed_pts_updates)
  BY <1>1, UpdatesFinite
<1>3. PICK L \in Nat : L = Cardinality(d.postponed_pts_updates)
  BY <1>2, FS_CardinalityType
<1>4. PICK p : p = d.pts
  OBVIOUS
<1>5. PICK f : f = [i \in 0..L |-> IF i = 0 THEN d ELSE AddPostponedUpdate(f[i - 1], p)] /\ e = f[L]
  <2> DEFINE g == CHOOSE f : f = [i \in 0..L |-> IF i = 0 THEN d ELSE AddPostponedUpdate(f[i - 1], p)]
  <2>0. \E f : f = [i \in 0..L |-> IF i = 0 THEN d ELSE AddPostponedUpdate(f[i - 1], p)]
    <3>1. \E f : PostponedTurns(f, d, p, L)
      BY PostponedLoop
    <3> QED
      BY <3>1, Zenon DEF PostponedTurns
  <2>1. g = [i \in 0..L |-> IF i = 0 THEN d ELSE AddPostponedUpdate(g[i - 1], p)]
    BY <2>0, Zenon
  <2>2. e = g[L]
    BY <1>3, <1>4, Zenon DEF MessagesAfterGetDifference
  <2> QED
    BY <2>1, <2>2, Zenon
<1> DEFINE Good(i) == TakenUp(d, f[i], t, N, S, R) /\ Cardinality(f[i].postponed_pts_updates) = L - i
           Bad == { i \in 0..L : ~Good(i) }
<1>6. ASSUME Bad # {} PROVE FALSE
  <2>1. Bad \in SUBSET Nat
    OBVIOUS
  <2>2. PICK i \in Bad : \A j \in Bad : i <= j
    BY <1>6, <2>1, LeastNat
  <2>3. CASE i = 0
    <3>1. f[i] = d
      BY <2>3, <1>5
    <3>2. t \in t..N
      BY UpdatesManagerAssumption
    <3>3. TakenUp(d, d, t, N, S, R)
      BY <3>2 DEF TakenUp, SameSeq, StillToAsk
    <3>4. L - i = L
      BY <2>3
    <3>5. Cardinality(f[i].postponed_pts_updates) = L - i
      BY <3>1, <3>4, <1>3
    <3> QED
      BY <3>1, <3>3, <3>5, <2>2
  <2>4. CASE i # 0
    <3>1. i - 1 \in 0..L /\ i - 1 < i /\ i \in 0..L /\ L - (i - 1) > 0
      BY <2>4
    <3>2. Good(i - 1)
      BY <3>1, <2>2
    <3>3. PICK g : g = f[i - 1]
      OBVIOUS
    <3>4. PICK h : h = f[i]
      OBVIOUS
    <3>5. h = AddPostponedUpdate(g, p)
      BY <3>1, <3>3, <3>4, <2>4, <1>5
    <3>6. TakenUp(d, g, t, N, S, R) /\ Cardinality(g.postponed_pts_updates) = L - (i - 1)
      BY <3>2, <3>3
    <3>7. PICK t2 \in t..N : Sound(g, t2, N, S, R)
      BY <3>6 DEF TakenUp
    <3>8. g.running = "no"
      BY <3>6 DEF TakenUp
    <3>9. g.postponed_pts_updates # {}
      <4>1. Cardinality({}) = 0
        BY FS_EmptySet
      <4>2. g.postponed_pts_updates = {} => L - (i - 1) = 0
        BY <4>1, <3>6
      <4> QED
        BY <4>2, <3>1
    <3>10. t2 \in 0..N
      BY UpdatesManagerAssumption
    <3>11. /\ TakenUp(g, h, t2, N, S, R)
           /\ Cardinality(h.postponed_pts_updates) = Cardinality(g.postponed_pts_updates) - 1
      BY <3>5, <3>7, <3>8, <3>9, <3>10, AddPostponedSound
    <3>12. TakenUp(d, h, t, N, S, R)
      BY <3>6, <3>11, TakenUpTrans
    <3>13. Cardinality(h.postponed_pts_updates) = L - i
      BY <3>1, <3>6, <3>11
    <3> QED
      BY <3>4, <3>12, <3>13, <2>2
  <2> QED
    BY <2>3, <2>4
<1>7. Good(L)
  BY <1>6
<1>8. TakenUp(d, e, t, N, S, R) /\ Cardinality(e.postponed_pts_updates) = 0
  BY <1>5, <1>7
<1>9. IsFiniteSet(e.postponed_pts_updates)
  <2>1. PICK t2 \in t..N : Sound(e, t2, N, S, R)
    BY <1>8 DEF TakenUp
  <2>2. e.postponed_pts_updates \in SUBSET Updates(N)
    BY <2>1 DEF Sound, Body, Once
  <2> QED
    BY <2>2, UpdatesFinite
<1>10. e.postponed_pts_updates = {}
  BY <1>8, <1>9, FS_EmptySet
<1> QED
  BY <1>8, <1>10
-----------------------------------------------------------------------------
(* Containers with a seq. *)

LEMMA ContainerType ==
  ASSUME NEW N, NEW S, NEW R, NEW m \in Containers(N, S, R)
  PROVE  /\ m.seq \in 0..S /\ m.upd \in Updates(N) \cup Telling(N)
         /\ m.other \in {"none", "plain", "reset"} /\ m.sort \in AllSorts
         /\ m.other = "reset" => R.resets > 0
  BY DEF Containers

(* e is d after containers are processed that it holds or is given *)
Stepped(d, e) ==
  /\ Held(e) = Held(d)
  /\ e.postponed_updates = d.postponed_updates
  /\ e.retry_timeout = d.retry_timeout
  /\ e.pending_seq_updates \subseteq d.pending_seq_updates
  /\ e.pending_seq_updates # {} => e.seq_gap_timeout = d.seq_gap_timeout
  /\ \/ e.running # "no"
     \/ /\ e.running = "no" /\ d.running = "no" /\ e.pts = d.pts
        /\ e.postponed_pts_updates = d.postponed_pts_updates

LEMMA SteppedTrans ==
  ASSUME NEW d, NEW e, NEW f, Stepped(d, e), Stepped(e, f)
  PROVE  Stepped(d, f)
  BY DEF Stepped

LEMMA SteppedWatched ==
  ASSUME NEW d, NEW e, NEW R, Stepped(d, e), Watched(d, R)
  PROVE  Watched(e, R)
<1>1. CASE e.running # "no"
  BY <1>1 DEF Watched
<1>2. CASE /\ e.running = "no" /\ d.running = "no" /\ e.pts = d.pts
  <2>1. ~Known(e.pts) => e.retry_timeout
    BY <1>2 DEF Watched, Stepped
  <2>2. e.pending_seq_updates # {} /\ R.resets = 0 => e.seq_gap_timeout \/ e.retry_timeout
    BY <1>2 DEF Watched, Stepped
  <2> QED
    BY <2>1, <2>2 DEF Watched
<1> QED
  BY <1>1, <1>2 DEF Stepped

(* seq_ is assigned the next number *)
NextSeq(e, q) == [e EXCEPT !.seq = q, !.seqs = @ \cup {q}]

LEMMA NextSeqSound ==
  ASSUME NEW N \in 0..Len(Ends), NEW S \in Nat, NEW R \in Misfortunes, NEW t \in 0..N,
         NEW d, NEW e, NEW q, Sound(d, t, N, S, R), q \in 1..S, q = d.seq + 1, e = NextSeq(d, q)
  PROVE  Sound(e, t, N, S, R) /\ Stepped(d, e) /\ e.pending_seq_updates = d.pending_seq_updates
<1>1. IsClient(d)
  BY DEF Sound, Body
<1>2. IsClient(e)
  BY <1>1 DEF IsClient, NextSeq
<1>3. /\ e.pending_updates = d.pending_updates /\ e.accumulated_pts = d.accumulated_pts
      /\ e.accumulated_pts_count = d.accumulated_pts_count
      /\ e.pts = d.pts /\ e.acks = d.acks /\ e.stored = d.stored
      /\ e.postponed_pts_updates = d.postponed_pts_updates
      /\ e.running = d.running /\ e.asked = d.asked /\ e.fatal = d.fatal /\ e.skipped = d.skipped
      /\ e.passed = d.passed /\ e.base = d.base /\ e.retry_timeout = d.retry_timeout
      /\ e.pts_gap_timeout = d.pts_gap_timeout
      /\ e.postponed_updates = d.postponed_updates
      /\ e.pending_seq_updates = d.pending_seq_updates
      /\ e.seq_gap_timeout = d.seq_gap_timeout
      /\ e.seq = q /\ e.seqs = d.seqs \cup {q}
  BY <1>1 DEF IsClient, Fields, NextSeq
<1>4. Alone(e)
  BY <1>3 DEF Sound, Body, Alone, NotFatal
<1>5. Accumulated(e, N)
  BY <1>3 DEF Sound, Body, Accumulated
<1>6. Positioned(e, N, R)
  BY <1>3 DEF Sound, Body, Positioned
<1>7. Timeline(e, t)
  BY <1>3 DEF Sound, Body, Timeline
<1>8. Once(e, N, S, R)
  <2>1. Once(d, N, S, R)
    BY DEF Sound, Body
  <2> QED
    BY <2>1, <1>3, OnceSame
<1>9. Sequenced(e, N, S, R)
  <2>1. /\ d.seq \in 0..S /\ d.seqs = 1..d.seq /\ IsFiniteSet(d.pending_seq_updates)
        /\ d.pending_seq_updates \subseteq Containers(N, S, R)
        /\ \A m \in d.pending_seq_updates : m.seq > 0
    BY DEF Sound, Body, Sequenced
  <2>2. e.seqs = 1..q
    <3>1. PICK x \in Nat : x = d.seq
      BY <2>1
    <3>2. (1..x) \cup {x + 1} = 1 .. x + 1
      OBVIOUS
    <3> QED
      BY <2>1, <3>1, <3>2, <1>3
  <2> QED
    BY <2>1, <2>2, <1>3 DEF Sequenced
<1>10. Sound(e, t, N, S, R)
  BY <1>2, <1>3, <1>4, <1>5, <1>6, <1>7, <1>8, <1>9 DEF Sound, Body
<1>11. Held(e) = Held(d)
  BY <1>3 DEF Held
<1>12. e.running # "no" \/ (e.running = "no" /\ d.running = "no")
  BY <1>3
<1> QED
  BY <1>3, <1>10, <1>11, <1>12 DEF Stepped

LEMMA ProcessSeqSound ==
  ASSUME NEW N \in 0..Len(Ends), NEW S \in Nat, NEW R \in Misfortunes, NEW t \in 0..N,
         NEW d, NEW e, NEW m, Sound(d, t, N, S, R), d.running = "no", m \in Containers(N, S, R),
         m.seq = 0 \/ m.seq = d.seq + 1, e = ProcessSeqUpdates(d, m)
  PROVE  Sound(e, t, N, S, R) /\ Stepped(d, e) /\ e.pending_seq_updates = d.pending_seq_updates
<1>1. PICK f : f = IF m.other = "reset" THEN SetPts(d, MaxPts) ELSE d
  OBVIOUS
<1>2. Sound(f, t, N, S, R) /\ Stepped(d, f) /\ f.pending_seq_updates = d.pending_seq_updates
      /\ f.seq = d.seq
  <2>1. CASE m.other = "reset"
    <3>1. f = SetPts(d, MaxPts) /\ R.resets > 0
      BY <1>1, <2>1, ContainerType
    <3>2. Body(d, t, N, S, R)
      BY DEF Sound
    <3>3. Sound(f, t, N, S, R) /\ Asks(d, f)
      BY <3>1, <3>2, ResetSound
    <3> QED
      BY <3>3 DEF Asks, Stepped, SameSeq
  <2>2. CASE m.other # "reset"
    BY <1>1, <2>2 DEF Stepped
  <2> QED
    BY <2>1, <2>2
<1>3. CASE m.seq = 0
  <2>1. e = f
    BY <1>1, <1>3 DEF ProcessSeqUpdates
  <2> QED
    BY <2>1, <1>2
<1>4. CASE m.seq # 0
  <2>1. e = NextSeq(f, m.seq)
    BY <1>1, <1>4 DEF ProcessSeqUpdates, NextSeq
  <2>2. PICK q : q = m.seq
    OBVIOUS
  <2>3. q \in 1..S /\ q = f.seq + 1 /\ e = NextSeq(f, q)
    <3>1. m.seq \in 0..S
      BY ContainerType
    <3> QED
      BY <2>1, <2>2, <3>1, <1>2, <1>4
  <2>4. Sound(e, t, N, S, R) /\ Stepped(f, e) /\ e.pending_seq_updates = f.pending_seq_updates
    BY <2>3, <1>2, NextSeqSound
  <2> QED
    BY <2>4, <1>2, SteppedTrans
<1> QED
  BY <1>3, <1>4

(* The first pending container is forgotten. *)
Forgets(e, m) == [e EXCEPT !.pending_seq_updates = @ \ {m}]

LEMMA ForgetSound ==
  ASSUME NEW N \in 0..Len(Ends), NEW S \in Nat, NEW R \in Misfortunes, NEW t \in 0..N,
         NEW d, NEW e, NEW m, Sound(d, t, N, S, R), e = Forgets(d, m)
  PROVE  /\ Sound(e, t, N, S, R) /\ Stepped(d, e) /\ e.seq = d.seq /\ e.running = d.running
         /\ e.pending_seq_updates = d.pending_seq_updates \ {m}
<1>1. IsClient(d)
  BY DEF Sound, Body
<1>2. IsClient(e)
  BY <1>1 DEF IsClient, Forgets
<1>3. /\ e.pending_updates = d.pending_updates /\ e.accumulated_pts = d.accumulated_pts
      /\ e.accumulated_pts_count = d.accumulated_pts_count
      /\ e.pts = d.pts /\ e.acks = d.acks /\ e.stored = d.stored
      /\ e.postponed_pts_updates = d.postponed_pts_updates
      /\ e.running = d.running /\ e.asked = d.asked /\ e.fatal = d.fatal /\ e.skipped = d.skipped
      /\ e.passed = d.passed /\ e.base = d.base /\ e.retry_timeout = d.retry_timeout
      /\ e.pts_gap_timeout = d.pts_gap_timeout
      /\ e.postponed_updates = d.postponed_updates
      /\ e.pending_seq_updates = d.pending_seq_updates \ {m}
      /\ e.seq_gap_timeout = d.seq_gap_timeout
      /\ e.seq = d.seq /\ e.seqs = d.seqs
  BY <1>1 DEF IsClient, Fields, Forgets
<1>4. Alone(e)
  BY <1>3 DEF Sound, Body, Alone, NotFatal
<1>5. Accumulated(e, N)
  BY <1>3 DEF Sound, Body, Accumulated
<1>6. Positioned(e, N, R)
  BY <1>3 DEF Sound, Body, Positioned
<1>7. Timeline(e, t)
  BY <1>3 DEF Sound, Body, Timeline
<1>8. Once(e, N, S, R)
  BY <1>3 DEF Sound, Body, Once
<1>9. Sequenced(e, N, S, R)
  <2>1. Sequenced(d, N, S, R)
    BY DEF Sound, Body
  <2>2. IsFiniteSet(d.pending_seq_updates \ {m})
    BY <2>1, FS_RemoveElement DEF Sequenced
  <2> QED
    BY <2>1, <2>2, <1>3 DEF Sequenced
<1>10. Sound(e, t, N, S, R)
  BY <1>2, <1>3, <1>4, <1>5, <1>6, <1>7, <1>8, <1>9 DEF Sound, Body
<1>11. Held(e) = Held(d)
  BY <1>3 DEF Held
<1>12. e.running # "no" \/ (e.running = "no" /\ d.running = "no")
  BY <1>3
<1> QED
  BY <1>3, <1>10, <1>11, <1>12 DEF Stepped

(* Nothing pending is after the seq: it is all to be dropped. *)
Drains(d) == d.running = "no" /\ \A m \in d.pending_seq_updates : m.seq <= d.seq

LEMMA FirstPending ==
  ASSUME NEW N, NEW S \in Nat, NEW R, NEW P \in SUBSET Containers(N, S, R), P # {}
  PROVE  \E x \in P : \A y \in P : x.seq <= y.seq
<1>1. \A x \in P : x.seq \in Nat
  BY ContainerType
<1>2. PICK Q : Q = { x.seq : x \in P }
  OBVIOUS
<1>3. Q \in SUBSET Nat /\ Q # {}
  BY <1>1, <1>2
<1>4. PICK p \in Q : \A q \in Q : p <= q
  BY <1>3, LeastNat
<1> QED
  BY <1>2, <1>4

LEMMA ProcessNextSound ==
  ASSUME NEW N \in 0..Len(Ends), NEW S \in Nat, NEW R \in Misfortunes, NEW t \in 0..N,
         NEW d, NEW e, Sound(d, t, N, S, R), e = ProcessNextSeqUpdates(d)
  PROVE  /\ Sound(e, t, N, S, R) /\ Stepped(d, e)
         /\ Drains(d) /\ d.pending_seq_updates # {} =>
              /\ Drains(e)
              /\ Cardinality(e.pending_seq_updates) = Cardinality(d.pending_seq_updates) - 1
<1>1. PICK m : m = CHOOSE x \in d.pending_seq_updates :
                     \A y \in d.pending_seq_updates : x.seq <= y.seq
  OBVIOUS
<1>2. PICK f : f = IF m.seq = d.seq + 1 THEN ProcessSeqUpdates(d, m) ELSE d
  OBVIOUS
<1>3. e = IF d.pending_seq_updates = {} \/ d.running # "no" \/ m.seq > d.seq + 1 THEN d
          ELSE Forgets(f, m)
  <2> DEFINE m0 == CHOOSE x \in d.pending_seq_updates :
                     \A y \in d.pending_seq_updates : x.seq <= y.seq
             f0 == IF m0.seq = d.seq + 1 THEN ProcessSeqUpdates(d, m0) ELSE d
  <2>1. ProcessNextSeqUpdates(d) =
          IF d.pending_seq_updates = {} \/ d.running # "no" \/ m0.seq > d.seq + 1 THEN d
          ELSE Forgets(f0, m0)
    BY DEF ProcessNextSeqUpdates, Forgets
  <2>2. m0 = m
    BY <1>1
  <2> HIDE DEF m0
  <2>3. f0 = f
    BY <2>2, <1>2
  <2> HIDE DEF f0
  <2> QED
    BY <2>1, <2>2, <2>3, Zenon
<1>4. Sequenced(d, N, S, R)
  BY DEF Sound, Body
<1>5. d.seq \in Nat
  BY <1>4 DEF Sequenced
<1>6. CASE d.pending_seq_updates = {} \/ d.running # "no"
  <2>1. e = d
    BY <1>3, <1>6
  <2>2. d.running # "no" \/ d.running = "no"
    OBVIOUS
  <2>3. Stepped(d, d)
    BY <2>2 DEF Stepped
  <2> QED
    BY <2>1, <2>3, <1>6 DEF Drains
<1>7. CASE d.pending_seq_updates # {} /\ d.running = "no"
  <2>1. d.pending_seq_updates \in SUBSET Containers(N, S, R) /\ IsFiniteSet(d.pending_seq_updates)
    BY <1>4 DEF Sequenced
  <2>2. m \in d.pending_seq_updates
    BY <1>1, <1>7, <2>1, FirstPending
  <2>3. m \in Containers(N, S, R) /\ m.seq \in Nat
    BY <2>1, <2>2, ContainerType
  <2>4. CASE m.seq > d.seq + 1
    <3>1. e = d
      BY <1>3, <2>4
    <3>2. Stepped(d, d)
      BY <1>7 DEF Stepped
    <3>3. ~Drains(d)
      <4>1. ~(m.seq <= d.seq)
        BY <1>5, <2>3, <2>4
      <4> QED
        BY <4>1, <2>2 DEF Drains
    <3> QED
      BY <3>1, <3>2, <3>3
  <2>5. CASE ~(m.seq > d.seq + 1)
    <3>1. e = Forgets(f, m)
      BY <1>3, <1>7, <2>5
    <3>2. CASE m.seq = d.seq + 1
      <4>1. f = ProcessSeqUpdates(d, m)
        BY <3>2, <1>2
      <4>2. Sound(f, t, N, S, R) /\ Stepped(d, f)
        BY <4>1, <3>2, <2>3, <1>7, ProcessSeqSound
      <4>3. Sound(e, t, N, S, R) /\ Stepped(f, e)
        BY <4>2, <3>1, ForgetSound
      <4>4. ~Drains(d)
        <5>1. ~(m.seq <= d.seq)
          BY <1>5, <2>3, <3>2
        <5> QED
          BY <5>1, <2>2 DEF Drains
      <4> QED
        BY <4>2, <4>3, <4>4, SteppedTrans
    <3>3. CASE m.seq # d.seq + 1
      <4>1. f = d
        BY <3>3, <1>2
      <4>2. /\ Sound(e, t, N, S, R) /\ Stepped(d, e) /\ e.seq = d.seq /\ e.running = d.running
            /\ e.pending_seq_updates = d.pending_seq_updates \ {m}
        BY <4>1, <3>1, ForgetSound
      <4>3. Cardinality(e.pending_seq_updates) = Cardinality(d.pending_seq_updates) - 1
        BY <4>2, <2>1, <2>2, FS_RemoveElement
      <4>4. Drains(d) => Drains(e)
        BY <4>2 DEF Drains
      <4> QED
        BY <4>2, <4>3, <4>4
    <3> QED
      BY <3>2, <3>3
  <2> QED
    BY <2>4, <2>5
<1> QED
  BY <1>6, <1>7

SeqTurns(f, d, l) == f = [i \in 0..l |-> IF i = 0 THEN d ELSE ProcessNextSeqUpdates(f[i - 1])]

LEMMA SeqLoop ==
  ASSUME NEW d, NEW L \in Nat
  PROVE  \E f : SeqTurns(f, d, L)
<1> DEFINE Is(f, l) == f = [i \in 0..l |-> IF i = 0 THEN d ELSE ProcessNextSeqUpdates(f[i - 1])]
           Bad == { l \in Nat : ~\E f : Is(f, l) }
<1>1. ASSUME Bad # {} PROVE FALSE
  <2>1. PICK l \in Bad : \A k \in Bad : l <= k
    BY <1>1, LeastNat
  <2>2. l # 0
    <3> DEFINE f == [i \in 0..0 |-> d]
    <3>1. Is(f, 0)
      OBVIOUS
    <3> QED
      BY <2>1, <3>1
  <2>3. l - 1 \in Nat /\ l - 1 \notin Bad
    BY <2>1, <2>2
  <2>4. PICK f : Is(f, l - 1)
    BY <2>3
  <2>5. PICK x : x = ProcessNextSeqUpdates(f[l - 1])
    OBVIOUS
  <2> DEFINE g == [i \in 0..l |-> IF i = l THEN x ELSE f[i]]
  <2>6. ASSUME NEW i \in 0..l
        PROVE  g[i] = IF i = 0 THEN d ELSE ProcessNextSeqUpdates(g[i - 1])
    <3>1. CASE i = 0
      <4>1. i \in 0 .. l - 1 /\ i # l
        BY <3>1, <2>2, <2>3
      <4> QED
        BY <4>1, <3>1, <2>4
    <3>2. CASE i # 0 /\ i # l
      <4>1. i \in 0 .. l - 1 /\ i - 1 \in 0 .. l - 1 /\ i - 1 \in 0..l /\ i - 1 # l
        BY <3>2, <2>3
      <4>2. g[i] = f[i] /\ g[i - 1] = f[i - 1]
        BY <3>2, <4>1
      <4> QED
        BY <3>2, <4>1, <4>2, <2>4
    <3>3. CASE i = l
      <4>1. l - 1 \in 0..l /\ l - 1 # l
        BY <2>2, <2>3
      <4>2. g[i] = x /\ g[i - 1] = f[l - 1]
        BY <3>3, <4>1
      <4> QED
        BY <3>3, <4>2, <2>2, <2>5
    <3> QED
      BY <3>1, <3>2, <3>3
  <2>7. g = [i \in 0..l |-> g[i]]
    OBVIOUS
  <2>8. g = [i \in 0..l |-> IF i = 0 THEN d ELSE ProcessNextSeqUpdates(g[i - 1])]
    BY <2>6, <2>7
  <2>9. Is(g, l)
    BY <2>8
  <2> QED
    BY <2>1, <2>9
<1>2. \E f : Is(f, L)
  BY <1>1
<1> QED
  BY <1>2 DEF SeqTurns

(* The timeout of a gap in seq is cancelled. *)
Closes(e) == [e EXCEPT !.seq_gap_timeout = FALSE]

LEMMA CloseSound ==
  ASSUME NEW N \in 0..Len(Ends), NEW S \in Nat, NEW R \in Misfortunes, NEW t \in 0..N,
         NEW d, NEW e, Sound(d, t, N, S, R), d.pending_seq_updates = {}, e = Closes(d)
  PROVE  Sound(e, t, N, S, R) /\ Stepped(d, e) /\ e.pending_seq_updates = {}
<1>1. IsClient(d)
  BY DEF Sound, Body
<1>2. IsClient(e)
  BY <1>1 DEF IsClient, Closes
<1>3. /\ e.pending_updates = d.pending_updates /\ e.accumulated_pts = d.accumulated_pts
      /\ e.accumulated_pts_count = d.accumulated_pts_count
      /\ e.pts = d.pts /\ e.acks = d.acks /\ e.stored = d.stored
      /\ e.postponed_pts_updates = d.postponed_pts_updates
      /\ e.running = d.running /\ e.asked = d.asked /\ e.fatal = d.fatal /\ e.skipped = d.skipped
      /\ e.passed = d.passed /\ e.base = d.base /\ e.retry_timeout = d.retry_timeout
      /\ e.pts_gap_timeout = d.pts_gap_timeout
      /\ e.postponed_updates = d.postponed_updates
      /\ e.pending_seq_updates = d.pending_seq_updates
      /\ e.seq = d.seq /\ e.seqs = d.seqs
  BY <1>1 DEF IsClient, Fields, Closes
<1>4. Alone(e)
  BY <1>3 DEF Sound, Body, Alone, NotFatal
<1>5. Accumulated(e, N)
  BY <1>3 DEF Sound, Body, Accumulated
<1>6. Positioned(e, N, R)
  BY <1>3 DEF Sound, Body, Positioned
<1>7. Timeline(e, t)
  BY <1>3 DEF Sound, Body, Timeline
<1>8. Once(e, N, S, R)
  BY <1>3, OnceSame DEF Sound, Body
<1>9. Sequenced(e, N, S, R)
  BY <1>3 DEF Sound, Body, Sequenced
<1>10. Sound(e, t, N, S, R)
  BY <1>2, <1>3, <1>4, <1>5, <1>6, <1>7, <1>8, <1>9 DEF Sound, Body
<1>11. Held(e) = Held(d)
  BY <1>3 DEF Held
<1>12. e.running # "no" \/ (e.running = "no" /\ d.running = "no")
  BY <1>3
<1> QED
  BY <1>3, <1>10, <1>11, <1>12 DEF Stepped

LEMMA ProcessPendingSeqSound ==
  ASSUME NEW N \in 0..Len(Ends), NEW S \in Nat, NEW R \in Misfortunes, NEW t \in 0..N,
         NEW d, NEW e, Sound(d, t, N, S, R), e = ProcessPendingSeqUpdates(d)
  PROVE  Sound(e, t, N, S, R) /\ Stepped(d, e) /\ (Drains(d) => e.pending_seq_updates = {})
<1>1. IsFiniteSet(d.pending_seq_updates)
  BY DEF Sound, Body, Sequenced
<1>2. PICK L \in Nat : L = Cardinality(d.pending_seq_updates)
  BY <1>1, FS_CardinalityType
<1>3. PICK f : /\ f = [i \in 0..L |-> IF i = 0 THEN d ELSE ProcessNextSeqUpdates(f[i - 1])]
               /\ e = IF f[L].pending_seq_updates = {} THEN Closes(f[L]) ELSE f[L]
  <2> DEFINE g == CHOOSE f : f = [i \in 0..L |-> IF i = 0 THEN d ELSE ProcessNextSeqUpdates(f[i - 1])]
  <2>0. \E f : f = [i \in 0..L |-> IF i = 0 THEN d ELSE ProcessNextSeqUpdates(f[i - 1])]
    <3>1. \E f : SeqTurns(f, d, L)
      BY SeqLoop
    <3> QED
      BY <3>1, Zenon DEF SeqTurns
  <2>1. g = [i \in 0..L |-> IF i = 0 THEN d ELSE ProcessNextSeqUpdates(g[i - 1])]
    BY <2>0, Zenon
  <2>2. e = IF g[L].pending_seq_updates = {} THEN Closes(g[L]) ELSE g[L]
    <3> DEFINE C == Cardinality(d.pending_seq_updates)
               g0 == CHOOSE f : f = [i \in 0..C |-> IF i = 0 THEN d ELSE ProcessNextSeqUpdates(f[i - 1])]
    <3>1. e = IF g0[C].pending_seq_updates = {} THEN Closes(g0[C]) ELSE g0[C]
      BY DEF ProcessPendingSeqUpdates, Closes
    <3>2. C = L
      BY <1>2
    <3> HIDE DEF C
    <3>3. g0 = g
      BY <3>2
    <3> HIDE DEF g0, g
    <3> QED
      BY <3>1, <3>2, <3>3
  <2> QED
    BY <2>1, <2>2, Zenon
<1> DEFINE Good(i) ==
      /\ Sound(f[i], t, N, S, R) /\ Stepped(d, f[i])
      /\ Drains(d) => Drains(f[i]) /\ Cardinality(f[i].pending_seq_updates) = L - i
           Bad == { i \in 0..L : ~Good(i) }
<1>4. ASSUME Bad # {} PROVE FALSE
  <2>1. Bad \in SUBSET Nat
    OBVIOUS
  <2>2. PICK i \in Bad : \A j \in Bad : i <= j
    BY <1>4, <2>1, LeastNat
  <2>3. CASE i = 0
    <3>1. f[i] = d
      BY <2>3, <1>3
    <3>2. d.running # "no" \/ d.running = "no"
      OBVIOUS
    <3>3. Stepped(d, d)
      BY <3>2 DEF Stepped
    <3>4. L - i = L
      BY <2>3
    <3>5. Cardinality(f[i].pending_seq_updates) = L - i
      BY <3>1, <3>4, <1>2
    <3> QED
      BY <3>1, <3>3, <3>5, <2>2
  <2>4. CASE i # 0
    <3>1. i - 1 \in 0..L /\ i - 1 < i /\ i \in 0..L /\ L - (i - 1) > 0
      BY <2>4
    <3>2. Good(i - 1)
      BY <3>1, <2>2
    <3>3. PICK g : g = f[i - 1]
      OBVIOUS
    <3>4. PICK h : h = f[i]
      OBVIOUS
    <3>5. h = ProcessNextSeqUpdates(g)
      BY <3>1, <3>3, <3>4, <2>4, <1>3
    <3>6. /\ Sound(g, t, N, S, R) /\ Stepped(d, g)
          /\ Drains(d) => Drains(g) /\ Cardinality(g.pending_seq_updates) = L - (i - 1)
      BY <3>2, <3>3
    <3>7. /\ Sound(h, t, N, S, R) /\ Stepped(g, h)
          /\ Drains(g) /\ g.pending_seq_updates # {} =>
               /\ Drains(h)
               /\ Cardinality(h.pending_seq_updates) = Cardinality(g.pending_seq_updates) - 1
      BY <3>5, <3>6, ProcessNextSound
    <3>8. Stepped(d, h)
      BY <3>6, <3>7, SteppedTrans
    <3>9. ASSUME Drains(d) PROVE Drains(h) /\ Cardinality(h.pending_seq_updates) = L - i
      <4>1. Cardinality({}) = 0
        BY FS_EmptySet
      <4>2. g.pending_seq_updates = {} => L - (i - 1) = 0
        BY <4>1, <3>6, <3>9
      <4>3. g.pending_seq_updates # {}
        BY <4>2, <3>1
      <4>4. Drains(h) /\ Cardinality(h.pending_seq_updates) = L - (i - 1) - 1
        BY <4>3, <3>6, <3>7, <3>9
      <4> QED
        BY <4>4, <3>1
    <3> QED
      BY <3>4, <3>7, <3>8, <3>9, <2>2
  <2> QED
    BY <2>3, <2>4
<1>5. Good(L)
  BY <1>4
<1>6. PICK g : g = f[L]
  OBVIOUS
<1>7. /\ Sound(g, t, N, S, R) /\ Stepped(d, g)
      /\ Drains(d) => Cardinality(g.pending_seq_updates) = 0
  BY <1>5, <1>6
<1>8. IsFiniteSet(g.pending_seq_updates)
  BY <1>7 DEF Sound, Body, Sequenced
<1>9. Drains(d) => g.pending_seq_updates = {}
  BY <1>7, <1>8, FS_EmptySet
<1>10. CASE g.pending_seq_updates = {}
  <2>1. e = Closes(g)
    BY <1>3, <1>6, <1>10
  <2>2. Sound(e, t, N, S, R) /\ Stepped(g, e) /\ e.pending_seq_updates = {}
    BY <2>1, <1>7, <1>10, CloseSound
  <2> QED
    BY <2>2, <1>7, SteppedTrans
<1>11. CASE g.pending_seq_updates # {}
  <2>1. e = g
    BY <1>3, <1>6, <1>11
  <2> QED
    BY <2>1, <1>7, <1>9, <1>11
<1> QED
  BY <1>10, <1>11
-----------------------------------------------------------------------------
(* Containers are received, and postponed while the client asks. *)

LEMMA InsertIs ==
  ASSUME NEW T, NEW q \in Seq(T), NEW m \in T, NEW i \in 1 .. Len(q) + 1, NEW r, r = InsertAt(q, i, m)
  PROVE  /\ r \in Seq(T) /\ Len(r) = Len(q) + 1
         /\ \A j \in 1..Len(r) : r[j] = IF j < i THEN q[j] ELSE IF j = i THEN m ELSE q[j - 1]
<1>1. Len(q) \in Nat /\ i \in Nat
  BY LenProperties
<1>2. PICK a : a = SubSeq(q, 1, i - 1)
  OBVIOUS
<1>3. PICK b : b = SubSeq(q, i, Len(q))
  OBVIOUS
<1>4. PICK x : x = <<m>>
  OBVIOUS
<1>5. a \in Seq(T) /\ Len(a) = i - 1 /\ \A j \in 1 .. i - 1 : a[j] = q[j]
  <2>1. \A j \in 1 .. i - 1 : q[j] \in T
    BY <1>1, ElementOfSeq
  <2>2. /\ a \in Seq(T) /\ Len(a) = (IF 1 <= i - 1 THEN i - 1 - 1 + 1 ELSE 0)
        /\ \A j \in 1 .. i - 1 - 1 + 1 : a[j] = q[1 + j - 1]
    BY <1>1, <1>2, <2>1, SubSeqProperties
  <2> QED
    BY <2>2, <1>1
<1>6. b \in Seq(T) /\ Len(b) = Len(q) - i + 1 /\ \A j \in 1 .. Len(q) - i + 1 : b[j] = q[i + j - 1]
  <2>1. \A j \in i .. Len(q) : q[j] \in T
    BY <1>1, ElementOfSeq
  <2>2. /\ b \in Seq(T) /\ Len(b) = (IF i <= Len(q) THEN Len(q) - i + 1 ELSE 0)
        /\ \A j \in 1 .. Len(q) - i + 1 : b[j] = q[i + j - 1]
    BY <1>1, <1>3, <2>1, SubSeqProperties
  <2> QED
    BY <2>2, <1>1
<1>7. x \in Seq(T) /\ Len(x) = 1 /\ x[1] = m
  BY <1>4
<1>8. PICK y : y = a \o x
  OBVIOUS
<1>9. /\ y \in Seq(T) /\ Len(y) = Len(a) + Len(x)
      /\ \A j \in 1 .. Len(a) + Len(x) : y[j] = IF j <= Len(a) THEN a[j] ELSE x[j - Len(a)]
  BY <1>5, <1>7, <1>8, ConcatProperties
<1>10. Len(y) = i /\ (\A j \in 1 .. i - 1 : y[j] = q[j]) /\ y[i] = m
  <2>1. Len(y) = i
    BY <1>1, <1>5, <1>7, <1>9
  <2>2. \A j \in 1 .. i - 1 : y[j] = q[j]
    BY <1>1, <1>5, <1>7, <1>9
  <2>3. i \in 1 .. Len(a) + Len(x) /\ ~(i <= Len(a)) /\ i - Len(a) = 1
    BY <1>1, <1>5, <1>7
  <2>4. y[i] = m
    BY <2>3, <1>7, <1>9
  <2> QED
    BY <2>1, <2>2, <2>4
<1>11. r = y \o b
  BY <1>2, <1>3, <1>4, <1>8 DEF InsertAt
<1>12. /\ r \in Seq(T) /\ Len(r) = Len(y) + Len(b)
       /\ \A j \in 1 .. Len(y) + Len(b) : r[j] = IF j <= Len(y) THEN y[j] ELSE b[j - Len(y)]
  <2>1. y \in Seq(T) /\ b \in Seq(T)
    BY <1>6, <1>9
  <2> QED
    BY <2>1, <1>11, ConcatProperties
<1>13. Len(r) = Len(q) + 1
  BY <1>1, <1>6, <1>10, <1>12
<1>14. ASSUME NEW j \in 1..Len(r)
       PROVE  r[j] = IF j < i THEN q[j] ELSE IF j = i THEN m ELSE q[j - 1]
  <2>0. j \in 1 .. Len(y) + Len(b) /\ j \in Nat
    BY <1>12
  <2>1. CASE j < i
    <3>1. j \in 1 .. i - 1 /\ j <= Len(y)
      BY <2>0, <2>1, <1>1, <1>10
    <3> QED
      BY <2>0, <2>1, <3>1, <1>10, <1>12
  <2>2. CASE j = i
    <3>1. j <= Len(y) /\ ~(j < i)
      BY <2>2, <1>1, <1>10
    <3> QED
      BY <2>0, <2>2, <3>1, <1>10, <1>12
  <2>3. CASE j > i
    <3>1. ~(j <= Len(y)) /\ j - i \in 1 .. Len(q) - i + 1 /\ i + (j - i) - 1 = j - 1 /\ ~(j < i) /\ j # i
      BY <2>0, <2>3, <1>1, <1>10, <1>13
    <3>2. r[j] = b[j - i]
      BY <2>0, <3>1, <1>10, <1>12
    <3>3. b[j - i] = q[j - 1]
      BY <3>1, <1>6
    <3> QED
      BY <3>1, <3>2, <3>3
  <2> QED
    BY <2>0, <2>1, <2>2, <2>3, <1>1
<1> QED
  BY <1>12, <1>13, <1>14

(* r is q with m somewhere *)
Inserted(r, q, m) ==
  /\ Len(r) = Len(q) + 1
  /\ \E i \in 1 .. Len(q) + 1 : \A j \in 1..Len(r) :
       r[j] = IF j < i THEN q[j] ELSE IF j = i THEN m ELSE q[j - 1]

LEMMA EmplaceIs ==
  ASSUME NEW N, NEW S \in Nat, NEW R, NEW q \in Seq(Containers(N, S, R)), NEW m \in Containers(N, S, R),
         NEW r, r = Emplace(q, m)
  PROVE  r \in Seq(Containers(N, S, R)) /\ Inserted(r, q, m)
<1>1. Len(q) \in Nat /\ m.seq \in Nat
  BY LenProperties, ContainerType
<1>2. \A j \in 1..Len(q) : q[j].seq \in Nat
  BY ContainerType, ElementOfSeq
<1> DEFINE Fit(i) == /\ \A j \in 1 .. i - 1 : q[j].seq <= m.seq
                     /\ i <= Len(q) => q[i].seq > m.seq
<1>3. \E i \in 1 .. Len(q) + 1 : Fit(i)
  <2> DEFINE Late == { i \in 1..Len(q) : q[i].seq > m.seq }
  <2>1. CASE Late = {}
    <3>1. Fit(Len(q) + 1)
      BY <2>1, <1>1, <1>2
    <3> QED
      BY <3>1, <1>1
  <2>2. CASE Late # {}
    <3>1. Late \in SUBSET Nat
      OBVIOUS
    <3>2. PICK i \in Late : \A j \in Late : i <= j
      BY <2>2, <3>1, LeastNat
    <3>3. \A j \in 1 .. i - 1 : j \in 1..Len(q) /\ j \notin Late
      BY <3>2, <1>1
    <3>4. Fit(i)
      BY <3>2, <3>3, <1>1, <1>2
    <3> QED
      BY <3>4, <1>1
  <2> QED
    BY <2>1, <2>2
<1>4. PICK i : i = CHOOSE j \in 1 .. Len(q) + 1 : Fit(j)
  OBVIOUS
<1>5. i \in 1 .. Len(q) + 1
  BY <1>3, <1>4
<1>6. r = InsertAt(q, i, m)
  <2> DEFINE i0 == CHOOSE j \in 1 .. Len(q) + 1 : Fit(j)
  <2>1. r = InsertAt(q, i0, m)
    BY Zenon DEF Emplace
  <2>2. i0 = i
    BY <1>4
  <2> HIDE DEF i0
  <2> QED
    BY <2>1, <2>2
<1>7. PICK T : T = Containers(N, S, R)
  OBVIOUS
<1>8. q \in Seq(T) /\ m \in T
  BY <1>7
<1>9. /\ r \in Seq(T) /\ Len(r) = Len(q) + 1
      /\ \A j \in 1..Len(r) : r[j] = IF j < i THEN q[j] ELSE IF j = i THEN m ELSE q[j - 1]
  BY <1>5, <1>6, <1>8, InsertIs
<1> QED
  BY <1>5, <1>7, <1>9 DEF Inserted

(* The container m is postponed. *)
Puts(d, m) == [d EXCEPT !.postponed_updates = Emplace(@, m)]

LEMMA PostponeSound ==
  ASSUME NEW N \in 0..Len(Ends), NEW S \in Nat, NEW R \in Misfortunes, NEW t \in 0..N,
         NEW d, NEW e, NEW m, Sound(d, t, N, S, R), m \in Containers(N, S, R),
         Given(d, m.upd, N), e = Puts(d, m)
  PROVE  /\ Sound(e, t, N, S, R) /\ Held(e) \subseteq Held(d) \cup {m.upd}
         /\ e.running = d.running /\ e.asked = d.asked /\ e.pts = d.pts
         /\ e.pending_seq_updates = d.pending_seq_updates
<1>1. IsClient(d) /\ Once(d, N, S, R)
  BY DEF Sound, Body
<1>2. PICK q : q = d.postponed_updates
  OBVIOUS
<1>3. PICK r : r = Emplace(q, m)
  OBVIOUS
<1>4. e = [d EXCEPT !.postponed_updates = r]
  BY <1>2, <1>3 DEF Puts
<1>5. IsClient(e)
  BY <1>1, <1>4 DEF IsClient
<1>6. /\ e.pending_updates = d.pending_updates /\ e.accumulated_pts = d.accumulated_pts
      /\ e.accumulated_pts_count = d.accumulated_pts_count
      /\ e.pts = d.pts /\ e.acks = d.acks /\ e.stored = d.stored
      /\ e.postponed_pts_updates = d.postponed_pts_updates
      /\ e.running = d.running /\ e.asked = d.asked /\ e.fatal = d.fatal /\ e.skipped = d.skipped
      /\ e.passed = d.passed /\ e.base = d.base /\ e.retry_timeout = d.retry_timeout
      /\ e.pts_gap_timeout = d.pts_gap_timeout
      /\ e.postponed_updates = r
      /\ e.pending_seq_updates = d.pending_seq_updates
      /\ e.seq = d.seq /\ e.seqs = d.seqs
  BY <1>1, <1>4 DEF IsClient, Fields
<1>7. q \in Seq(Containers(N, S, R)) /\ Len(q) \in Nat
  BY <1>1, <1>2, LenProperties DEF Once
<1>24. r \in Seq(Containers(N, S, R)) /\ Inserted(r, q, m)
  BY <1>3, <1>7, EmplaceIs
<1>8. r \in Seq(Containers(N, S, R)) /\ Len(r) = Len(q) + 1
  BY <1>24 DEF Inserted
<1>9. PICK i \in 1 .. Len(q) + 1 : \A j \in 1..Len(r) :
        r[j] = IF j < i THEN q[j] ELSE IF j = i THEN m ELSE q[j - 1]
  BY <1>24 DEF Inserted
<1>10. PICK h \in [1..Len(r) -> 0..Len(q)] :
         \A j \in 1..Len(r) : h[j] = IF j < i THEN j ELSE IF j = i THEN 0 ELSE j - 1
  <2> DEFINE g == [j \in 1..Len(r) |-> IF j < i THEN j ELSE IF j = i THEN 0 ELSE j - 1]
  <2>1. g \in [1..Len(r) -> 0..Len(q)]
    BY <1>7, <1>8
  <2> QED
    BY <2>1
<1>11. /\ \A j \in 1..Len(r) : h[j] = 0 => r[j] = m
       /\ \A j \in 1..Len(r) : h[j] # 0 => h[j] \in 1..Len(q) /\ r[j] = q[h[j]]
  BY <1>7, <1>8, <1>9, <1>10, SMTT(30)
<1>12. \A j, l \in 1..Len(r) : h[j] = h[l] => j = l
  BY <1>7, <1>8, <1>10
<1>13. m.upd.cnt > 0 => m.upd \notin Held(d)
  BY DEF Given
<1>14. \A k \in 1..Len(q) : q[k].upd \in Held(d)
  BY <1>2 DEF Held
<1>15. Once(e, N, S, R)
  <2>1. /\ d.postponed_pts_updates \subseteq Updates(N)
        /\ d.pending_updates \cap d.postponed_pts_updates = {}
        /\ \A k \in 1..Len(q) : q[k].upd.cnt > 0 =>
             /\ q[k].upd \notin d.pending_updates \cup d.postponed_pts_updates
             /\ \A l \in 1..Len(q) : q[k].upd = q[l].upd => k = l
    BY <1>1, <1>2 DEF Once
  <2>2. m.upd.cnt > 0 => m.upd \notin d.pending_updates \cup d.postponed_pts_updates
    BY <1>13 DEF Held
  <2>3. ASSUME NEW j \in 1..Len(r), r[j].upd.cnt > 0
        PROVE  /\ r[j].upd \notin d.pending_updates \cup d.postponed_pts_updates
               /\ \A l \in 1..Len(r) : r[j].upd = r[l].upd => j = l
    <3>1. CASE h[j] = 0
      <4>1. r[j] = m
        BY <3>1, <1>11
      <4>2. ASSUME NEW l \in 1..Len(r), r[j].upd = r[l].upd PROVE j = l
        <5>1. h[l] = 0
          BY <4>1, <4>2, <2>3, <1>11, <1>13, <1>14
        <5> QED
          BY <5>1, <3>1, <1>12
      <4> QED
        BY <4>1, <4>2, <2>2, <2>3
    <3>2. CASE h[j] # 0
      <4>1. h[j] \in 1..Len(q) /\ r[j] = q[h[j]]
        BY <3>2, <1>11
      <4>2. ASSUME NEW l \in 1..Len(r), r[j].upd = r[l].upd PROVE j = l
        <5>1. h[l] # 0
          BY <4>1, <4>2, <2>3, <1>11, <1>13, <1>14
        <5>2. h[l] \in 1..Len(q) /\ r[l] = q[h[l]]
          BY <5>1, <1>11
        <5>3. h[j] = h[l]
          BY <4>1, <4>2, <5>2, <2>1, <2>3
        <5> QED
          BY <5>3, <1>12
      <4> QED
        BY <4>1, <4>2, <2>1, <2>3
    <3> QED
      BY <3>1, <3>2
  <2> QED
    BY <2>1, <2>3, <1>6, <1>8 DEF Once
<1>16. Alone(e)
  BY <1>6 DEF Sound, Body, Alone, NotFatal
<1>17. Accumulated(e, N)
  BY <1>6 DEF Sound, Body, Accumulated
<1>18. Positioned(e, N, R)
  BY <1>6 DEF Sound, Body, Positioned
<1>19. Timeline(e, t)
  BY <1>6 DEF Sound, Body, Timeline
<1>20. Sequenced(e, N, S, R)
  BY <1>6 DEF Sound, Body, Sequenced
<1>21. Sound(e, t, N, S, R)
  BY <1>5, <1>6, <1>15, <1>16, <1>17, <1>18, <1>19, <1>20 DEF Sound, Body
<1>22. \A j \in 1..Len(r) : r[j].upd \in Held(d) \cup {m.upd}
  BY <1>11, <1>14
<1>23. Held(e) \subseteq Held(d) \cup {m.upd}
  <2>1. d.pending_updates \cup d.postponed_pts_updates \subseteq Held(d)
    BY DEF Held
  <2>2. Held(e) = d.pending_updates \cup d.postponed_pts_updates \cup { r[j].upd : j \in 1..Len(r) }
    BY <1>6 DEF Held
  <2>3. { r[j].upd : j \in 1..Len(r) } \subseteq Held(d) \cup {m.upd}
    BY <1>22
  <2> QED
    BY <2>1, <2>2, <2>3
<1> QED
  BY <1>6, <1>21, <1>23

(* The container m waits for those before it. *)
Pends(d, m) == [d EXCEPT !.pending_seq_updates = @ \cup {[m EXCEPT !.upd = NoUpdate]},
                         !.seq_gap_timeout = TRUE]

LEMMA PendSound ==
  ASSUME NEW N \in 0..Len(Ends), NEW S \in Nat, NEW R \in Misfortunes, NEW t \in 0..N,
         NEW d, NEW e, NEW m, Sound(d, t, N, S, R), m \in Containers(N, S, R), m.seq > d.seq,
         e = Pends(d, m)
  PROVE  /\ Sound(e, t, N, S, R) /\ Held(e) = Held(d) /\ (Watched(d, R) => Watched(e, R))
         /\ e.running = d.running /\ e.postponed_updates = d.postponed_updates
         /\ e.postponed_pts_updates = d.postponed_pts_updates /\ StillToAsk(d, e)
<1>1. IsClient(d) /\ Sequenced(d, N, S, R)
  BY DEF Sound, Body
<1>2. PICK k : k = [m EXCEPT !.upd = NoUpdate]
  OBVIOUS
<1>3. k \in Containers(N, S, R) /\ k.seq = m.seq
  <2>1. NoUpdate \in Telling(N)
    BY DEF NoUpdate, Telling
  <2> QED
    BY <2>1, <1>2 DEF Containers
<1>4. IsClient(e)
  BY <1>1 DEF IsClient, Pends
<1>5. /\ e.pending_updates = d.pending_updates /\ e.accumulated_pts = d.accumulated_pts
      /\ e.accumulated_pts_count = d.accumulated_pts_count
      /\ e.pts = d.pts /\ e.acks = d.acks /\ e.stored = d.stored
      /\ e.postponed_pts_updates = d.postponed_pts_updates
      /\ e.running = d.running /\ e.asked = d.asked /\ e.fatal = d.fatal /\ e.skipped = d.skipped
      /\ e.passed = d.passed /\ e.base = d.base /\ e.retry_timeout = d.retry_timeout
      /\ e.pts_gap_timeout = d.pts_gap_timeout
      /\ e.postponed_updates = d.postponed_updates
      /\ e.pending_seq_updates = d.pending_seq_updates \cup {k}
      /\ e.seq_gap_timeout = TRUE
      /\ e.seq = d.seq /\ e.seqs = d.seqs
  BY <1>1, <1>2 DEF IsClient, Fields, Pends
<1>6. Alone(e)
  BY <1>5 DEF Sound, Body, Alone, NotFatal
<1>7. Accumulated(e, N)
  BY <1>5 DEF Sound, Body, Accumulated
<1>8. Positioned(e, N, R)
  BY <1>5 DEF Sound, Body, Positioned
<1>9. Timeline(e, t)
  BY <1>5 DEF Sound, Body, Timeline
<1>10. Once(e, N, S, R)
  BY <1>5, OnceSame DEF Sound, Body
<1>11. Sequenced(e, N, S, R)
  <2>1. IsFiniteSet(d.pending_seq_updates \cup {k})
    BY <1>1, FS_AddElement DEF Sequenced
  <2>2. k.seq > 0
    <3>1. d.seq \in Nat /\ m.seq \in Nat
      BY <1>1, ContainerType DEF Sequenced
    <3> QED
      BY <3>1, <1>3
  <2> QED
    BY <2>1, <2>2, <1>1, <1>3, <1>5 DEF Sequenced
<1>12. Sound(e, t, N, S, R)
  BY <1>4, <1>5, <1>6, <1>7, <1>8, <1>9, <1>10, <1>11 DEF Sound, Body
<1>13. Held(e) = Held(d)
  BY <1>5 DEF Held
<1>14. Watched(d, R) => Watched(e, R)
  BY <1>5 DEF Watched
<1> QED
  BY <1>5, <1>12, <1>13, <1>14 DEF StillToAsk

(* e is d after a container with the update u *)
Received(d, e, u, t, N, S, R) ==
  /\ \E t2 \in t..N : Sound(e, t2, N, S, R)
  /\ Held(e) \subseteq Held(d) \cup {u}
  /\ Watched(d, R) => Watched(e, R)
  /\ \/ e.running # "no"
     \/ /\ e.running = "no"
        /\ e.postponed_updates = d.postponed_updates
        /\ e.postponed_pts_updates = d.postponed_pts_updates
        /\ StillToAsk(d, e)

LEMMA GrownWatched ==
  ASSUME NEW d, NEW e, NEW u, NEW R, Grown(d, e, u), Watched(d, R)
  PROVE  Watched(e, R)
<1>1. CASE e.running # "no"
  BY <1>1 DEF Watched
<1>2. CASE e.running = "no"
  <2>1. ~Known(e.pts) => e.retry_timeout
    BY <1>2 DEF Watched, Grown, StillToAsk
  <2>2. e.pending_seq_updates # {} /\ R.resets = 0 => e.seq_gap_timeout \/ e.retry_timeout
    BY <1>2 DEF Watched, Grown, StillToAsk, SameSeq
  <2> QED
    BY <2>1, <2>2 DEF Watched
<1> QED
  BY <1>1, <1>2

LEMMA OnAcceptedSound ==
  ASSUME NEW N \in 0..Len(Ends), NEW S \in Nat, NEW R \in Misfortunes, NEW t \in 0..N,
         NEW d, NEW e, NEW m, NEW u, Sound(d, t, N, S, R), d.running = "no",
         m \in Containers(N, S, R), u = m.upd, Given(d, u, N), e = OnAcceptedUpdates(d, m)
  PROVE  Received(d, e, u, t, N, S, R)
<1>1. PICK f : f = AddPendingUpdate(d, u, FALSE)
  OBVIOUS
<1>2. Adds(d, u, f)
  BY <1>1 DEF Adds
<1>3. PICK t2 \in t..N : Sound(f, t2, N, S, R) /\ Grown(d, f, u)
  BY <1>2, AddPendingSound
<1>4. t2 \in 0..N
  BY UpdatesManagerAssumption
<1>5. e = IF m.other = "none" THEN f
          ELSE IF m.seq = 0 \/ m.seq = f.seq + 1
            THEN ProcessPendingSeqUpdates(ProcessSeqUpdates(f, m))
          ELSE IF m.seq <= f.seq THEN f
          ELSE Pends(f, m)
  BY <1>1, Zenon DEF OnAcceptedUpdates, Pends
<1>6. /\ f.running = "no" /\ Held(f) \subseteq Held(d) \cup {u}
      /\ f.postponed_updates = d.postponed_updates
      /\ f.postponed_pts_updates = d.postponed_pts_updates /\ StillToAsk(d, f)
  BY <1>3 DEF Grown, SameSeq
<1>7. Watched(d, R) => Watched(f, R)
  BY <1>3, GrownWatched
<1>8. f.seq \in Nat /\ m.seq \in Nat
  <2>1. f.seq \in 0..S
    BY <1>3 DEF Sound, Body, Sequenced
  <2>2. m.seq \in 0..S
    BY ContainerType
  <2> QED
    BY <2>1, <2>2
<1>9. CASE e = f
  BY <1>3, <1>6, <1>7, <1>9 DEF Received
<1>10. CASE /\ m.other # "none" /\ (m.seq = 0 \/ m.seq = f.seq + 1)
  <2>1. PICK g : g = ProcessSeqUpdates(f, m)
    OBVIOUS
  <2>2. e = ProcessPendingSeqUpdates(g)
    BY <2>1, <1>5, <1>10
  <2>3. Sound(g, t2, N, S, R) /\ Stepped(f, g)
    BY <2>1, <1>3, <1>4, <1>6, <1>10, ProcessSeqSound
  <2>4. Sound(e, t2, N, S, R) /\ Stepped(g, e)
    BY <2>2, <2>3, <1>4, ProcessPendingSeqSound
  <2>5. Stepped(f, e)
    BY <2>3, <2>4, SteppedTrans
  <2>6. Watched(d, R) => Watched(e, R)
    BY <2>5, <1>7, SteppedWatched
  <2>7. Held(e) \subseteq Held(d) \cup {u}
    BY <2>5, <1>6 DEF Stepped
  <2>8. CASE e.running # "no"
    BY <2>4, <2>6, <2>7, <2>8 DEF Received
  <2>9. CASE e.running = "no"
    <3>1. /\ e.postponed_updates = d.postponed_updates
          /\ e.postponed_pts_updates = d.postponed_pts_updates
      BY <2>5, <2>9, <1>6 DEF Stepped
    <3>2. StillToAsk(d, e)
      BY <2>5, <1>6 DEF Stepped, StillToAsk
    <3> QED
      BY <2>4, <2>6, <2>7, <2>9, <3>1, <3>2 DEF Received
  <2> QED
    BY <2>8, <2>9
<1>11. CASE m.seq > f.seq /\ e = Pends(f, m)
  <2>1. /\ Sound(e, t2, N, S, R) /\ Held(e) = Held(f) /\ (Watched(f, R) => Watched(e, R))
        /\ e.running = f.running /\ e.postponed_updates = f.postponed_updates
        /\ e.postponed_pts_updates = f.postponed_pts_updates /\ StillToAsk(f, e)
    BY <1>3, <1>4, <1>11, PendSound
  <2>2. StillToAsk(d, e)
    BY <2>1, <1>6 DEF StillToAsk
  <2> QED
    BY <2>1, <2>2, <1>6, <1>7 DEF Received
<1>12. ~(m.seq <= f.seq) => m.seq > f.seq
  BY <1>8
<1> QED
  BY <1>5, <1>9, <1>10, <1>11, <1>12

(* A container while the client asks. *)
LEMMA OnPendingAsking ==
  ASSUME NEW N \in 0..Len(Ends), NEW S \in Nat, NEW R \in Misfortunes, NEW t \in 0..N,
         NEW d, NEW e, NEW m, Sound(d, t, N, S, R), d.running # "no", e = OnPendingUpdates(d, m)
  PROVE  e = Puts(d, m)
<1>1. d.pts = NoPts => d.stored = NoPts
  BY DEF Sound, Body, Positioned
<1>2. d.pts = NoPts => InitState(d) = d
  BY <1>1 DEF InitState
<1> QED
  BY <1>2 DEF OnPendingUpdates, Puts

LEMMA ScheduleSound ==
  ASSUME NEW N \in 0..Len(Ends), NEW S \in Nat, NEW R \in Misfortunes, NEW t \in 0..N,
         NEW d, NEW e, Sound(d, t, N, S, R), e = ScheduleGetDifference(d)
  PROVE  /\ Sound(e, t, N, S, R) /\ Held(e) = Held(d) /\ Watched(e, R)
         /\ e.running = d.running /\ e.asked = d.asked /\ e.pts = d.pts
         /\ SameSeq(d, e) /\ e.postponed_pts_updates = d.postponed_pts_updates
         /\ StillToAsk(d, e) /\ PostponedWatched(e)
<1>1. IsClient(d)
  BY DEF Sound, Body
<1>2. IsClient(e)
  BY <1>1 DEF IsClient, ScheduleGetDifference
<1>3. /\ e.pending_updates = d.pending_updates /\ e.accumulated_pts = d.accumulated_pts
      /\ e.accumulated_pts_count = d.accumulated_pts_count
      /\ e.pts = d.pts /\ e.acks = d.acks /\ e.stored = d.stored
      /\ e.postponed_pts_updates = d.postponed_pts_updates
      /\ e.running = d.running /\ e.asked = d.asked /\ e.fatal = d.fatal /\ e.skipped = d.skipped
      /\ e.passed = d.passed /\ e.base = d.base /\ e.retry_timeout = TRUE
      /\ SameSeq(d, e) /\ e.pts_gap_timeout = d.pts_gap_timeout
  BY <1>1 DEF IsClient, Fields, ScheduleGetDifference, SameSeq
<1>4. Alone(e)
  BY <1>3 DEF Sound, Body, Alone, NotFatal
<1>5. Accumulated(e, N)
  BY <1>3 DEF Sound, Body, Accumulated
<1>6. Positioned(e, N, R)
  BY <1>3 DEF Sound, Body, Positioned
<1>7. Timeline(e, t)
  BY <1>3 DEF Sound, Body, Timeline
<1>8. Once(e, N, S, R)
  BY <1>3, OnceSame DEF Sound, Body, SameSeq
<1>9. Sequenced(e, N, S, R)
  BY <1>3 DEF Sound, Body, Sequenced, SameSeq
<1>10. Sound(e, t, N, S, R)
  BY <1>2, <1>3, <1>4, <1>5, <1>6, <1>7, <1>8, <1>9 DEF Sound, Body
<1>11. Held(e) = Held(d)
  BY <1>3 DEF Held, SameSeq
<1> QED
  BY <1>3, <1>10, <1>11 DEF StillToAsk, Watched, PostponedWatched

LEMMA OnPendingSound ==
  ASSUME NEW N \in 0..Len(Ends), NEW S \in Nat, NEW R \in Misfortunes, NEW t \in 0..N,
         NEW d, NEW e, NEW m, NEW u, Sound(d, t, N, S, R), d.running = "no",
         m \in Containers(N, S, R), u = m.upd, Given(d, u, N), e = OnPendingUpdates(d, m)
  PROVE  Received(d, e, u, t, N, S, R)
<1>0. t \in t..N
  BY UpdatesManagerAssumption
<1>1. CASE d.pts = NoPts
  <2>1. PICK f : f = GetDifference(d)
    OBVIOUS
  <2>2. Sound(f, t, N, S, R) /\ Asks(d, f)
    BY <2>1, GetDifferenceSound
  <2>3. f.running # "no" /\ Held(f) = Held(d)
    BY <2>2 DEF Asks
  <2>4. e = Puts(f, m)
    BY <2>1, <2>3, <1>1 DEF OnPendingUpdates, Puts, GetDifference
  <2>5. Given(f, m.upd, N)
    BY <2>3 DEF Given
  <2>6. /\ Sound(e, t, N, S, R) /\ Held(e) \subseteq Held(f) \cup {m.upd}
        /\ e.running = f.running
    BY <2>2, <2>4, <2>5, PostponeSound
  <2>7. Watched(e, R) /\ Held(e) \subseteq Held(d) \cup {u} /\ e.running # "no"
    BY <2>3, <2>6 DEF Watched
  <2> QED
    BY <2>6, <2>7, <1>0 DEF Received
<1>2. CASE d.pts # NoPts /\ m.sort = "unknown"
  <2>1. e = GetDifference(d)
    BY <1>2 DEF OnPendingUpdates
  <2>2. Sound(e, t, N, S, R) /\ Asks(d, e)
    BY <2>1, GetDifferenceSound
  <2>3. e.running # "no" /\ Held(e) = Held(d) /\ Watched(e, R)
    BY <2>2 DEF Asks, Watched
  <2> QED
    BY <2>2, <2>3, <1>0 DEF Received
<1>3. CASE d.pts # NoPts /\ m.sort = "mixed"
  <2>1. e = ScheduleGetDifference(d)
    BY <1>3 DEF OnPendingUpdates
  <2>2. /\ Sound(e, t, N, S, R) /\ Held(e) = Held(d) /\ Watched(e, R)
        /\ e.running = d.running
        /\ SameSeq(d, e) /\ e.postponed_pts_updates = d.postponed_pts_updates
        /\ StillToAsk(d, e)
    BY <2>1, ScheduleSound
  <2> QED
    BY <2>2, <1>0 DEF Received, SameSeq
<1>4. CASE d.pts # NoPts /\ m.sort # "unknown" /\ m.sort # "mixed"
  <2>1. e = OnAcceptedUpdates(d, m)
    BY <1>4 DEF OnPendingUpdates
  <2> QED
    BY <2>1, OnAcceptedSound
<1> QED
  BY <1>1, <1>2, <1>3, <1>4

(* The first postponed container is taken up. *)
Behind(d) == [d EXCEPT !.postponed_updates = Tail(@)]

LEMMA BehindSound ==
  ASSUME NEW N \in 0..Len(Ends), NEW S \in Nat, NEW R \in Misfortunes, NEW t \in 0..N,
         NEW d, NEW e, NEW m, Sound(d, t, N, S, R), d.postponed_updates # <<>>,
         m = Head(d.postponed_updates), e = Behind(d)
  PROVE  /\ Sound(e, t, N, S, R) /\ m \in Containers(N, S, R) /\ Given(e, m.upd, N)
         /\ Held(e) \cup {m.upd} \subseteq Held(d) /\ (Watched(d, R) => Watched(e, R))
         /\ e.running = d.running
         /\ Len(e.postponed_updates) = Len(d.postponed_updates) - 1
<1>1. IsClient(d) /\ Once(d, N, S, R)
  BY DEF Sound, Body
<1>2. PICK q : q = d.postponed_updates
  OBVIOUS
<1>3. PICK r : r = Tail(q)
  OBVIOUS
<1>4. e = [d EXCEPT !.postponed_updates = r]
  BY <1>2, <1>3 DEF Behind
<1>5. IsClient(e)
  BY <1>1, <1>4 DEF IsClient
<1>6. /\ e.pending_updates = d.pending_updates /\ e.accumulated_pts = d.accumulated_pts
      /\ e.accumulated_pts_count = d.accumulated_pts_count
      /\ e.pts = d.pts /\ e.acks = d.acks /\ e.stored = d.stored
      /\ e.postponed_pts_updates = d.postponed_pts_updates
      /\ e.running = d.running /\ e.asked = d.asked /\ e.fatal = d.fatal /\ e.skipped = d.skipped
      /\ e.passed = d.passed /\ e.base = d.base /\ e.retry_timeout = d.retry_timeout
      /\ e.pts_gap_timeout = d.pts_gap_timeout
      /\ e.postponed_updates = r
      /\ e.pending_seq_updates = d.pending_seq_updates
      /\ e.seq_gap_timeout = d.seq_gap_timeout
      /\ e.seq = d.seq /\ e.seqs = d.seqs
  BY <1>1, <1>4 DEF IsClient, Fields
<1>7. q \in Seq(Containers(N, S, R)) /\ q # <<>> /\ m = Head(q)
  BY <1>1, <1>2 DEF Once
<1>8. PICK T : T = Containers(N, S, R)
  OBVIOUS
<1>9. q \in Seq(T)
  BY <1>7, <1>8
<1>10. /\ Len(q) \in Nat /\ Len(q) >= 1 /\ r \in Seq(T) /\ Len(r) = Len(q) - 1
       /\ \A j \in 1..Len(r) : j + 1 \in 1..Len(q) /\ r[j] = q[j + 1]
       /\ m = q[1] /\ 1 \in 1..Len(q)
  BY <1>3, <1>7, <1>9
<1>11. /\ d.postponed_pts_updates \subseteq Updates(N)
       /\ d.pending_updates \cap d.postponed_pts_updates = {}
       /\ \A k \in 1..Len(q) : q[k].upd.cnt > 0 =>
            /\ q[k].upd \notin d.pending_updates \cup d.postponed_pts_updates
            /\ \A l \in 1..Len(q) : q[k].upd = q[l].upd => k = l
  BY <1>1, <1>2 DEF Once
<1>12. Once(e, N, S, R)
  <2>1. ASSUME NEW j \in 1..Len(r), r[j].upd.cnt > 0
        PROVE  /\ r[j].upd \notin d.pending_updates \cup d.postponed_pts_updates
               /\ \A l \in 1..Len(r) : r[j].upd = r[l].upd => j = l
    <3>1. j + 1 \in 1..Len(q) /\ r[j] = q[j + 1]
      BY <1>10
    <3>2. ASSUME NEW l \in 1..Len(r), r[j].upd = r[l].upd PROVE j = l
      <4>1. l + 1 \in 1..Len(q) /\ r[l] = q[l + 1]
        BY <1>10
      <4>2. j + 1 = l + 1
        BY <3>1, <3>2, <4>1, <2>1, <1>11
      <4> QED
        BY <4>2, <1>10
    <3> QED
      BY <3>1, <3>2, <2>1, <1>11
  <2> QED
    BY <2>1, <1>6, <1>8, <1>10, <1>11 DEF Once
<1>13. Alone(e)
  BY <1>6 DEF Sound, Body, Alone, NotFatal
<1>14. Accumulated(e, N)
  BY <1>6 DEF Sound, Body, Accumulated
<1>15. Positioned(e, N, R)
  BY <1>6 DEF Sound, Body, Positioned
<1>16. Timeline(e, t)
  BY <1>6 DEF Sound, Body, Timeline
<1>17. Sequenced(e, N, S, R)
  BY <1>6 DEF Sound, Body, Sequenced
<1>18. Sound(e, t, N, S, R)
  BY <1>5, <1>6, <1>12, <1>13, <1>14, <1>15, <1>16, <1>17 DEF Sound, Body
<1>19. m \in Containers(N, S, R)
  BY <1>8, <1>9, <1>10, ElementOfSeq
<1>20. m.upd \in Updates(N) \cup Telling(N)
  BY <1>19, ContainerType
<1>21. ASSUME m.upd.cnt > 0 PROVE m.upd \notin Held(e)
  <2>1. m.upd \notin d.pending_updates \cup d.postponed_pts_updates
    BY <1>10, <1>11, <1>21
  <2>2. ASSUME NEW j \in 1..Len(r), r[j].upd = m.upd PROVE FALSE
    <3>1. j + 1 \in 1..Len(q) /\ r[j] = q[j + 1]
      BY <1>10
    <3>2. 1 = j + 1
      BY <3>1, <2>2, <1>10, <1>11, <1>21
    <3> QED
      BY <3>2, <1>10
  <2> QED
    BY <2>1, <2>2, <1>6 DEF Held
<1>28. \A k \in 1..Len(q) : q[k].upd \in Held(d)
  BY <1>2 DEF Held
<1>22. \A j \in 1..Len(r) : r[j].upd \in Held(d)
  BY <1>10, <1>28
<1>23. Held(e) \subseteq Held(d)
  <2>1. d.pending_updates \cup d.postponed_pts_updates \subseteq Held(d)
    BY DEF Held
  <2>2. Held(e) = d.pending_updates \cup d.postponed_pts_updates \cup { r[j].upd : j \in 1..Len(r) }
    BY <1>6 DEF Held
  <2> QED
    BY <2>1, <2>2, <1>22
<1>24. m.upd \in Held(d)
  BY <1>2, <1>10 DEF Held
<1>25. Watched(d, R) => Watched(e, R)
  BY <1>6 DEF Watched
<1>26. Given(e, m.upd, N)
  BY <1>20, <1>21 DEF Given
<1>27. Len(e.postponed_updates) = Len(d.postponed_updates) - 1
  BY <1>2, <1>6, <1>10
<1> QED
  BY <1>6, <1>18, <1>19, <1>23, <1>24, <1>25, <1>26, <1>27

(* The timeout that repeats a query is cancelled. *)
Quiet(d) == [d EXCEPT !.retry_timeout = FALSE]

(* what remains with containers is not lost when it is *)
Restored(d, R) == d.running = "no" /\ Known(d.pts) /\ (Drains(d) \/ R.resets > 0)

LEMMA QuietSound ==
  ASSUME NEW N \in 0..Len(Ends), NEW S \in Nat, NEW R \in Misfortunes, NEW t \in 0..N,
         NEW d, NEW e, Sound(d, t, N, S, R), e = Quiet(d)
  PROVE  /\ Sound(e, t, N, S, R) /\ Held(e) = Held(d)
         /\ Restored(d, R) => Restored(e, R)
<1>1. IsClient(d)
  BY DEF Sound, Body
<1>2. IsClient(e)
  BY <1>1 DEF IsClient, Quiet
<1>3. /\ e.pending_updates = d.pending_updates /\ e.accumulated_pts = d.accumulated_pts
      /\ e.accumulated_pts_count = d.accumulated_pts_count
      /\ e.pts = d.pts /\ e.acks = d.acks /\ e.stored = d.stored
      /\ e.postponed_pts_updates = d.postponed_pts_updates
      /\ e.running = d.running /\ e.asked = d.asked /\ e.fatal = d.fatal /\ e.skipped = d.skipped
      /\ e.passed = d.passed /\ e.base = d.base
      /\ SameSeq(d, e) /\ e.pts_gap_timeout = d.pts_gap_timeout
  BY <1>1 DEF IsClient, Fields, Quiet, SameSeq
<1>4. Alone(e)
  BY <1>3 DEF Sound, Body, Alone, NotFatal
<1>5. Accumulated(e, N)
  BY <1>3 DEF Sound, Body, Accumulated
<1>6. Positioned(e, N, R)
  BY <1>3 DEF Sound, Body, Positioned
<1>7. Timeline(e, t)
  BY <1>3 DEF Sound, Body, Timeline
<1>8. Once(e, N, S, R)
  BY <1>3, OnceSame DEF Sound, Body, SameSeq
<1>9. Sequenced(e, N, S, R)
  BY <1>3 DEF Sound, Body, Sequenced, SameSeq
<1>10. Sound(e, t, N, S, R)
  BY <1>2, <1>3, <1>4, <1>5, <1>6, <1>7, <1>8, <1>9 DEF Sound, Body
<1>11. Held(e) = Held(d)
  BY <1>3 DEF Held, SameSeq
<1>12. Restored(d, R) => Restored(e, R)
  BY <1>3 DEF Restored, Drains, SameSeq
<1> QED
  BY <1>10, <1>11, <1>12

(* Pending containers, once a query is answered. *)
LEMMA RestoredWatched ==
  ASSUME NEW N \in 0..Len(Ends), NEW S \in Nat, NEW R \in Misfortunes, NEW t \in 0..N,
         NEW d, NEW e, Sound(d, t, N, S, R), Restored(d, R), e = ProcessPendingSeqUpdates(d)
  PROVE  Sound(e, t, N, S, R) /\ Held(e) = Held(d) /\ Watched(e, R)
<1>1. Sound(e, t, N, S, R) /\ Stepped(d, e) /\ (Drains(d) => e.pending_seq_updates = {})
  BY ProcessPendingSeqSound
<1>2. Held(e) = Held(d)
  BY <1>1 DEF Stepped
<1>3. CASE e.running # "no"
  BY <1>1, <1>2, <1>3 DEF Watched
<1>4. CASE e.running = "no"
  <2>1. Known(e.pts)
    BY <1>1, <1>4 DEF Stepped, Restored
  <2>2. e.pending_seq_updates = {} \/ R.resets # 0
    BY <1>1 DEF Restored
  <2> QED
    BY <1>1, <1>2, <2>1, <2>2 DEF Watched
<1> QED
  BY <1>3, <1>4

(* e is d after l containers that were postponed are taken up *)
Taken(d, e, k, t, N, S, R) ==
  /\ \E t2 \in t..N : Sound(e, t2, N, S, R)
  /\ Held(e) \subseteq Held(d)
  /\ Watched(e, R)
  /\ e.running = "no" => Len(e.postponed_updates) = k

LEMMA OnPostponedSound ==
  ASSUME NEW N \in 0..Len(Ends), NEW S \in Nat, NEW R \in Misfortunes, NEW t \in 0..N,
         NEW d, NEW e, NEW f, NEW k \in Nat, k > 0, Taken(d, e, k, t, N, S, R),
         f = OnPostponedUpdates(e)
  PROVE  Taken(d, f, k - 1, t, N, S, R)
<1>1. PICK t2 \in t..N : Sound(e, t2, N, S, R)
  BY DEF Taken
<1>2. t2 \in 0..N
  BY UpdatesManagerAssumption
<1>3. CASE e.running # "no"
  <2>1. f = e
    BY <1>3 DEF OnPostponedUpdates
  <2> QED
    BY <2>1, <1>3 DEF Taken
<1>4. CASE e.running = "no"
  <2>1. Len(e.postponed_updates) = k /\ Watched(e, R) /\ Held(e) \subseteq Held(d)
    BY <1>4 DEF Taken
  <2>2. e.postponed_updates # <<>>
    BY <2>1
  <2>3. PICK m : m = Head(e.postponed_updates)
    OBVIOUS
  <2>4. PICK g : g = Behind(e)
    OBVIOUS
  <2>5. /\ Sound(g, t2, N, S, R) /\ m \in Containers(N, S, R) /\ Given(g, m.upd, N)
        /\ Held(g) \cup {m.upd} \subseteq Held(e) /\ (Watched(e, R) => Watched(g, R))
        /\ g.running = e.running
        /\ Len(g.postponed_updates) = Len(e.postponed_updates) - 1
    BY <2>2, <2>3, <2>4, <1>1, <1>2, BehindSound
  <2>6. f = OnPendingUpdates(g, m)
    BY <2>2, <2>3, <2>4, <1>4 DEF OnPostponedUpdates, Behind
  <2>7. PICK u : u = m.upd
    OBVIOUS
  <2>8. Received(g, f, u, t2, N, S, R)
    BY <2>5, <2>6, <2>7, <1>2, <1>4, OnPendingSound
  <2>9. PICK t3 \in t2..N : Sound(f, t3, N, S, R)
    BY <2>8 DEF Received
  <2>10. t3 \in t..N
    BY UpdatesManagerAssumption
  <2>11. Held(f) \subseteq Held(d)
    BY <2>1, <2>5, <2>7, <2>8 DEF Received
  <2>12. Watched(f, R)
    BY <2>1, <2>5, <2>8 DEF Received
  <2>13. f.running = "no" => f.postponed_updates = g.postponed_updates
    BY <2>8 DEF Received
  <2>14. f.running = "no" => Len(f.postponed_updates) = k - 1
    BY <2>1, <2>5, <2>13
  <2> QED
    BY <2>9, <2>10, <2>11, <2>12, <2>14 DEF Taken
<1> QED
  BY <1>3, <1>4


UpdatesTurns(f, d, l) == f = [i \in 0..l |-> IF i = 0 THEN d ELSE OnPostponedUpdates(f[i - 1])]

LEMMA UpdatesLoop ==
  ASSUME NEW d, NEW L \in Nat
  PROVE  \E f : UpdatesTurns(f, d, L)
<1> DEFINE Is(f, l) == f = [i \in 0..l |-> IF i = 0 THEN d ELSE OnPostponedUpdates(f[i - 1])]
           Bad == { l \in Nat : ~\E f : Is(f, l) }
<1>1. ASSUME Bad # {} PROVE FALSE
  <2>1. PICK l \in Bad : \A k \in Bad : l <= k
    BY <1>1, LeastNat
  <2>2. l # 0
    <3> DEFINE f == [i \in 0..0 |-> d]
    <3>1. Is(f, 0)
      OBVIOUS
    <3> QED
      BY <2>1, <3>1
  <2>3. l - 1 \in Nat /\ l - 1 \notin Bad
    BY <2>1, <2>2
  <2>4. PICK f : Is(f, l - 1)
    BY <2>3
  <2>5. PICK x : x = OnPostponedUpdates(f[l - 1])
    OBVIOUS
  <2> DEFINE g == [i \in 0..l |-> IF i = l THEN x ELSE f[i]]
  <2>6. ASSUME NEW i \in 0..l
        PROVE  g[i] = IF i = 0 THEN d ELSE OnPostponedUpdates(g[i - 1])
    <3>1. CASE i = 0
      <4>1. i \in 0 .. l - 1 /\ i # l
        BY <3>1, <2>2, <2>3
      <4> QED
        BY <4>1, <3>1, <2>4
    <3>2. CASE i # 0 /\ i # l
      <4>1. i \in 0 .. l - 1 /\ i - 1 \in 0 .. l - 1 /\ i - 1 \in 0..l /\ i - 1 # l
        BY <3>2, <2>3
      <4>2. g[i] = f[i] /\ g[i - 1] = f[i - 1]
        BY <3>2, <4>1
      <4> QED
        BY <3>2, <4>1, <4>2, <2>4
    <3>3. CASE i = l
      <4>1. l - 1 \in 0..l /\ l - 1 # l
        BY <2>2, <2>3
      <4>2. g[i] = x /\ g[i - 1] = f[l - 1]
        BY <3>3, <4>1
      <4> QED
        BY <3>3, <4>2, <2>2, <2>5
    <3> QED
      BY <3>1, <3>2, <3>3
  <2>7. g = [i \in 0..l |-> g[i]]
    OBVIOUS
  <2>8. g = [i \in 0..l |-> IF i = 0 THEN d ELSE OnPostponedUpdates(g[i - 1])]
    BY <2>6, <2>7
  <2>9. Is(g, l)
    BY <2>8
  <2> QED
    BY <2>1, <2>9
<1>2. \E f : Is(f, L)
  BY <1>1
<1> QED
  BY <1>2 DEF UpdatesTurns

(* e is d, with nothing it holds lost, and whatever it still holds watched *)
Resumed(d, e, t, N, S, R) ==
  /\ \E t2 \in t..N : Sound(e, t2, N, S, R)
  /\ Held(e) \subseteq Held(d)
  /\ Watched(e, R) /\ PostponedWatched(e)

LEMMA AfterGetDifferenceSound ==
  ASSUME NEW N \in 0..Len(Ends), NEW S \in Nat, NEW R \in Misfortunes, NEW t \in 0..N,
         NEW d, NEW e, Sound(d, t, N, S, R), Restored(d, R), e = AfterGetDifference(d)
  PROVE  Resumed(d, e, t, N, S, R)
<1>0. t \in t..N
  BY UpdatesManagerAssumption
<1>1. PICK c0 : c0 = Quiet(d)
  OBVIOUS
<1>2. Sound(c0, t, N, S, R) /\ Held(c0) = Held(d) /\ Restored(c0, R)
  BY <1>1, QuietSound
<1>3. PICK d1 : d1 = ProcessPendingSeqUpdates(c0)
  OBVIOUS
<1>4. Sound(d1, t, N, S, R) /\ Held(d1) = Held(d) /\ Watched(d1, R)
  BY <1>2, <1>3, RestoredWatched
<1>5. d1.postponed_updates \in Seq(Containers(N, S, R))
  BY <1>4 DEF Sound, Body, Once
<1>6. PICK L \in Nat : L = Len(d1.postponed_updates)
  BY <1>5, LenProperties
<1>7. PICK f : /\ f = [i \in 0..L |-> IF i = 0 THEN d1 ELSE OnPostponedUpdates(f[i - 1])]
               /\ e = IF f[L].running # "no" THEN f[L] ELSE MessagesAfterGetDifference(f[L])
  <2> DEFINE g == CHOOSE f : f = [i \in 0..L |-> IF i = 0 THEN d1 ELSE OnPostponedUpdates(f[i - 1])]
  <2>0. \E f : f = [i \in 0..L |-> IF i = 0 THEN d1 ELSE OnPostponedUpdates(f[i - 1])]
    <3>1. \E f : UpdatesTurns(f, d1, L)
      BY UpdatesLoop
    <3> QED
      BY <3>1, Zenon DEF UpdatesTurns
  <2>1. g = [i \in 0..L |-> IF i = 0 THEN d1 ELSE OnPostponedUpdates(g[i - 1])]
    BY <2>0, Zenon
  <2>2. e = IF g[L].running # "no" THEN g[L] ELSE MessagesAfterGetDifference(g[L])
    <3> DEFINE D == ProcessPendingSeqUpdates([d EXCEPT !.retry_timeout = FALSE])
               C == Len(D.postponed_updates)
               g0 == CHOOSE f : f = [i \in 0..C |-> IF i = 0 THEN D ELSE OnPostponedUpdates(f[i - 1])]
    <3>1. e = IF g0[C].running # "no" THEN g0[C] ELSE MessagesAfterGetDifference(g0[C])
      BY DEF AfterGetDifference
    <3>2. D = d1
      BY <1>1, <1>3 DEF Quiet
    <3> HIDE DEF D
    <3>3. C = L
      BY <3>2, <1>6
    <3> HIDE DEF C
    <3>4. g0 = g
      BY <3>2, <3>3
    <3> HIDE DEF g0, g
    <3> QED
      BY <3>1, <3>3, <3>4
  <2> QED
    BY <2>1, <2>2, Zenon
<1> DEFINE Good(i) == Taken(d, f[i], L - i, t, N, S, R)
           Bad == { i \in 0..L : ~Good(i) }
<1>8. ASSUME Bad # {} PROVE FALSE
  <2>1. Bad \in SUBSET Nat
    OBVIOUS
  <2>2. PICK i \in Bad : \A j \in Bad : i <= j
    BY <1>8, <2>1, LeastNat
  <2>3. CASE i = 0
    <3>1. f[i] = d1
      BY <2>3, <1>7
    <3>2. L - i = L
      BY <2>3
    <3>3. Taken(d, d1, L, t, N, S, R)
      BY <1>0, <1>4, <1>6 DEF Taken
    <3> QED
      BY <3>1, <3>2, <3>3, <2>2
  <2>4. CASE i # 0
    <3>1. i - 1 \in 0..L /\ i - 1 < i /\ i \in 0..L /\ L - (i - 1) > 0 /\ L - (i - 1) \in Nat
          /\ (L - (i - 1)) - 1 = L - i
      BY <2>4
    <3>2. Good(i - 1)
      BY <3>1, <2>2
    <3>3. PICK g : g = f[i - 1]
      OBVIOUS
    <3>4. PICK h : h = f[i]
      OBVIOUS
    <3>5. h = OnPostponedUpdates(g)
      BY <3>1, <3>3, <3>4, <2>4, <1>7
    <3>6. PICK k \in Nat : k = L - (i - 1)
      BY <3>1
    <3>7. k > 0 /\ Taken(d, g, k, t, N, S, R)
      BY <3>1, <3>2, <3>3, <3>6
    <3>8. Taken(d, h, k - 1, t, N, S, R)
      BY <3>5, <3>7, OnPostponedSound
    <3>9. Good(i)
      BY <3>1, <3>4, <3>6, <3>8
    <3> QED
      BY <3>9, <2>2
  <2> QED
    BY <2>3, <2>4
<1>9. Good(L)
  BY <1>8
<1>10. PICK g : g = f[L]
  OBVIOUS
<1>11. L - L = 0
  OBVIOUS
<1>12. Taken(d, g, 0, t, N, S, R)
  BY <1>9, <1>10, <1>11
<1>13. CASE g.running # "no"
  <2>1. e = g
    BY <1>7, <1>10, <1>13
  <2> QED
    BY <2>1, <1>12, <1>13 DEF Taken, Resumed, PostponedWatched
<1>14. CASE g.running = "no"
  <2>1. e = MessagesAfterGetDifference(g)
    BY <1>7, <1>10, <1>14
  <2>2. PICK t2 \in t..N : Sound(g, t2, N, S, R)
    BY <1>12 DEF Taken
  <2>3. t2 \in 0..N
    BY UpdatesManagerAssumption
  <2>4. TakenUp(g, e, t2, N, S, R) /\ e.postponed_pts_updates = {}
    BY <2>1, <2>2, <2>3, <1>14, MessagesAfterSound
  <2>5. PICK t3 \in t2..N : Sound(e, t3, N, S, R)
    BY <2>4 DEF TakenUp
  <2>6. t3 \in t..N
    BY UpdatesManagerAssumption
  <2>7. Held(e) \subseteq Held(d)
    BY <2>4, <1>12 DEF TakenUp, Taken
  <2>8. Watched(g, R) /\ Len(g.postponed_updates) = 0
    BY <1>12, <1>14 DEF Taken
  <2>9. g.postponed_updates = <<>>
    <3>1. g.postponed_updates \in Seq(Containers(N, S, R))
      BY <2>2 DEF Sound, Body, Once
    <3> QED
      BY <3>1, <2>8, EmptySeq
  <2>10. e.postponed_updates = <<>>
    BY <2>4, <2>9 DEF TakenUp, SameSeq
  <2>11. PostponedWatched(e)
    BY <2>4, <2>10 DEF PostponedWatched
  <2>12. Watched(e, R)
    <3>1. ~Known(e.pts) => e.retry_timeout
      BY <2>4, <2>8, <1>14 DEF TakenUp, Watched, StillToAsk
    <3>2. e.pending_seq_updates # {} /\ R.resets = 0 => e.seq_gap_timeout \/ e.retry_timeout
      BY <2>4, <2>8, <1>14 DEF TakenUp, Watched, StillToAsk, SameSeq
    <3> QED
      BY <3>1, <3>2 DEF Watched
  <2> QED
    BY <2>5, <2>6, <2>7, <2>11, <2>12 DEF Resumed
<1> QED
  BY <1>13, <1>14
-----------------------------------------------------------------------------
(* Answers of the server. *)

LEMMA NoneAfter ==
  ASSUME NEW j \in 0..Len(Ends)
  PROVE  SubSeq(Ends, j + 1, j) = <<>>
<1>1. Ends \in Seq(Nat) /\ j \in Nat
  BY UpdatesManagerAssumption
<1> QED
  BY <1>1

(* The query is answered. *)
Idle(d) == [d EXCEPT !.running = "no"]

LEMMA IdleSound ==
  ASSUME NEW N \in 0..Len(Ends), NEW S \in Nat, NEW R \in Misfortunes, NEW t \in 0..N,
         NEW d, NEW e, Sound(d, t, N, S, R), d.running # "no", e = Idle(d)
  PROVE  /\ Sound(e, t, N, S, R) /\ Held(e) = Held(d) /\ SameSeq(d, e)
         /\ e.running = "no" /\ e.pts = d.pts /\ e.asked = d.asked
         /\ e.pending_updates = {} /\ e.accumulated_pts = -1
<1>1. IsClient(d)
  BY DEF Sound, Body
<1>2. IsClient(e)
  BY <1>1 DEF IsClient, Idle
<1>3. /\ e.pending_updates = d.pending_updates /\ e.accumulated_pts = d.accumulated_pts
      /\ e.accumulated_pts_count = d.accumulated_pts_count
      /\ e.pts = d.pts /\ e.acks = d.acks /\ e.stored = d.stored
      /\ e.postponed_pts_updates = d.postponed_pts_updates
      /\ e.running = "no" /\ e.asked = d.asked /\ e.fatal = d.fatal /\ e.skipped = d.skipped
      /\ e.passed = d.passed /\ e.base = d.base
      /\ SameSeq(d, e) /\ e.pts_gap_timeout = d.pts_gap_timeout
  BY <1>1 DEF IsClient, Fields, Idle, SameSeq
<1>4. Alone(e)
  BY <1>3 DEF Sound, Body, Alone, NotFatal
<1>5. Accumulated(e, N)
  BY <1>3 DEF Sound, Body, Accumulated
<1>6. Positioned(e, N, R)
  BY <1>3 DEF Sound, Body, Positioned
<1>7. Timeline(e, t)
  BY <1>3 DEF Sound, Body, Timeline
<1>8. Once(e, N, S, R)
  BY <1>3, OnceSame DEF Sound, Body, SameSeq
<1>9. Sequenced(e, N, S, R)
  BY <1>3 DEF Sound, Body, Sequenced, SameSeq
<1>10. Sound(e, t, N, S, R)
  BY <1>2, <1>3, <1>4, <1>5, <1>6, <1>7, <1>8, <1>9 DEF Sound, Body
<1>11. Held(e) = Held(d)
  BY <1>3 DEF Held, SameSeq
<1>12. e.pending_updates = {} /\ e.accumulated_pts = -1
  BY <1>3 DEF Sound, Body, Alone
<1> QED
  BY <1>3, <1>10, <1>11, <1>12

(* the server has nothing after what the client waits with *)
Covers(d, q) == \A m \in d.pending_seq_updates : m.seq <= q

LEMMA SetSeqSound ==
  ASSUME NEW N \in 0..Len(Ends), NEW S \in Nat, NEW R \in Misfortunes, NEW t \in 0..N,
         NEW d, NEW e, NEW q \in 0..S, Sound(d, t, N, S, R), d.running = "no", Covers(d, q),
         e = SetSeq(d, q)
  PROVE  /\ Sound(e, t, N, S, R) /\ Held(e) = Held(d)
         /\ e.running = "no" /\ e.pts = d.pts /\ Drains(e)
<1>1. IsClient(d)
  BY DEF Sound, Body
<1>2. IsClient(e)
  BY <1>1 DEF IsClient, SetSeq
<1>3. /\ e.pending_updates = d.pending_updates /\ e.accumulated_pts = d.accumulated_pts
      /\ e.accumulated_pts_count = d.accumulated_pts_count
      /\ e.pts = d.pts /\ e.acks = d.acks /\ e.stored = d.stored
      /\ e.postponed_pts_updates = d.postponed_pts_updates
      /\ e.running = d.running /\ e.asked = d.asked /\ e.fatal = d.fatal /\ e.skipped = d.skipped
      /\ e.passed = d.passed /\ e.base = d.base
      /\ e.pts_gap_timeout = d.pts_gap_timeout
      /\ e.postponed_updates = d.postponed_updates
      /\ e.pending_seq_updates = d.pending_seq_updates
      /\ e.seq = q /\ e.seqs = 1..q
  BY <1>1 DEF IsClient, Fields, SetSeq
<1>4. Alone(e)
  BY <1>3 DEF Sound, Body, Alone, NotFatal
<1>5. Accumulated(e, N)
  BY <1>3 DEF Sound, Body, Accumulated
<1>6. Positioned(e, N, R)
  BY <1>3 DEF Sound, Body, Positioned
<1>7. Timeline(e, t)
  BY <1>3 DEF Sound, Body, Timeline
<1>8. Once(e, N, S, R)
  BY <1>3, OnceSame DEF Sound, Body
<1>9. Sequenced(e, N, S, R)
  BY <1>3 DEF Sound, Body, Sequenced
<1>10. Sound(e, t, N, S, R)
  BY <1>2, <1>3, <1>4, <1>5, <1>6, <1>7, <1>8, <1>9 DEF Sound, Body
<1>11. Held(e) = Held(d)
  BY <1>3 DEF Held
<1>12. Drains(e)
  BY <1>3 DEF Drains, Covers
<1> QED
  BY <1>3, <1>10, <1>11, <1>12

(* x is d with something applied *)
Applies(d, x) ==
  /\ IsClient(x)
  /\ x.pts = d.pts /\ x.acks = d.acks /\ x.stored = d.stored
  /\ x.pending_updates = d.pending_updates /\ x.accumulated_pts = d.accumulated_pts
  /\ x.accumulated_pts_count = d.accumulated_pts_count
  /\ x.postponed_pts_updates = d.postponed_pts_updates
  /\ x.running = d.running /\ x.asked = d.asked /\ x.fatal = d.fatal
  /\ SameSeq(d, x)

(* the updates after the position a, up to the position p *)
Fetched(a, p, N) == { Update(k) : k \in { k \in 1..N : a < Ends[k] /\ Ends[k] <= p } }

LEMMA FetchedIs ==
  ASSUME NEW N \in 0..Len(Ends), NEW t \in 0..N, NEW j \in t..N, NEW a, NEW p, NEW U,
         a = PtsAt(t), p = PtsAt(j), U = Fetched(a, p, N)
  PROVE  AllBetween(U, t, j)
<1>1. Len(Ends) \in Nat /\ t \in 0..Len(Ends) /\ j \in 0..Len(Ends)
  BY UpdatesManagerAssumption
<1>2. ASSUME NEW k \in 1..N
      PROVE  /\ Update(k).pts = Ends[k]
             /\ a < Ends[k] /\ Ends[k] <= p <=> k \in t + 1 .. j
  <2>1. k \in 1..Len(Ends) /\ k \in 0..Len(Ends)
    BY <1>1
  <2>2. Update(k).pts = PtsAt(k) /\ PtsAt(k) = Ends[k]
    BY <2>1, UpdateIs, PtsNext
  <2>3. PtsAt(t) < PtsAt(k) <=> t < k
    BY <2>1, <1>1, PtsInjective, PtsIncrease
  <2>4. PtsAt(k) <= PtsAt(j) <=> k <= j
    BY <2>1, <1>1, PtsInjective
  <2> QED
    BY <2>1, <2>2, <2>3, <2>4, <1>1
<1>3. PICK K : K = { k \in 1..N : a < Ends[k] /\ Ends[k] <= p }
  OBVIOUS
<1>4. K = t + 1 .. j
  <2>1. t + 1 .. j \subseteq 1..N
    BY <1>1
  <2>2. \A k \in 1..N : k \in K <=> k \in t + 1 .. j
    BY <1>2, <1>3, Zenon
  <2>3. K \subseteq 1..N
    BY <1>3
  <2> QED
    BY <2>1, <2>2, <2>3, Zenon
<1>5. U = { Update(k) : k \in t + 1 .. j }
  BY <1>3, <1>4, Zenon DEF Fetched
<1>6. \A k \in t + 1 .. j : Update(k).pts = Ends[k]
  BY <1>1, <1>2
<1>7. { u.pts : u \in U } = { Update(k).pts : k \in t + 1 .. j }
  BY <1>5, Zenon
<1>8. { Update(k).pts : k \in t + 1 .. j } = { Ends[k] : k \in t + 1 .. j }
  BY <1>6
<1> QED
  BY <1>7, <1>8 DEF AllBetween

LEMMA StartIs ==
  ASSUME NEW N \in 0..Len(Ends), NEW j \in 0..N, NEW d, NEW x, IsClient(d), d.pts = NoPts,
         x = StartAt(d, PtsAt(j))
  PROVE  Applies(d, x) /\ AppliedTo(x, j) /\ x.skipped = d.skipped
<1>0. PICK p : p = PtsAt(j)
  OBVIOUS
<1>1. x = [d EXCEPT !.base = p, !.passed = <<>>]
  BY <1>0 DEF StartAt
<1>2. IsClient(x)
  BY <1>1 DEF IsClient
<1>6. \A f \in Fields : x[f] = IF f = "passed" THEN <<>> ELSE IF f = "base" THEN p ELSE d[f]
  BY <1>1 DEF IsClient, Fields
<1>7. x.base = p /\ x.passed = <<>> /\ x.skipped = d.skipped
  BY <1>6 DEF Fields
<1>8. /\ x.pts = d.pts /\ x.acks = d.acks /\ x.stored = d.stored
      /\ x.pending_updates = d.pending_updates /\ x.accumulated_pts = d.accumulated_pts
      /\ x.accumulated_pts_count = d.accumulated_pts_count
      /\ x.postponed_pts_updates = d.postponed_pts_updates
      /\ x.running = d.running /\ x.asked = d.asked /\ x.fatal = d.fatal
  BY <1>6 DEF Fields
<1>9. SameSeq(d, x)
  BY <1>6 DEF Fields, SameSeq
<1>3. Applies(d, x) /\ x.base = p /\ x.passed = <<>> /\ x.skipped = d.skipped
  BY <1>2, <1>7, <1>8, <1>9 DEF Applies
<1>4. j \in 0..Len(Ends) /\ j \in 0..j
  BY UpdatesManagerAssumption
<1>5. SubSeq(Ends, j + 1, j) = <<>>
  BY <1>4, NoneAfter
<1> QED
  BY <1>0, <1>3, <1>4, <1>5 DEF AppliedTo

LEMMA PlaceIs ==
  ASSUME NEW t \in 0..Len(Ends), NEW d, AppliedTo(d, t)
  PROVE  Place(d) = PtsAt(t)
<1>1. Len(Ends) \in Nat /\ Ends \in Seq(Nat)
  BY UpdatesManagerAssumption
<1>2. PICK b \in 0..t : d.base = PtsAt(b) /\ d.passed = SubSeq(Ends, b + 1, t)
  BY DEF AppliedTo
<1>3. CASE b = t
  <2>1. d.passed = <<>>
    BY <1>2, <1>3, NoneAfter
  <2> QED
    BY <2>1, <1>2, <1>3 DEF Place
<1>4. CASE b # t
  <2>1. b + 1 \in 1..Len(Ends) /\ t \in 1..Len(Ends) /\ b + 1 <= t /\ t \in Nat /\ b \in Nat
    BY <1>1, <1>4
  <2>2. PICK q : q = d.passed
    OBVIOUS
  <2>3. q = SubSeq(Ends, b + 1, t)
    BY <2>2, <1>2
  <2>4. Len(q) = t - b /\ \A i \in 1..t - b : q[i] = Ends[b + i]
    BY <2>1, <2>3, <1>1
  <2>5. q # <<>> /\ q[Len(q)] = Ends[t]
    BY <2>1, <2>4
  <2>6. PtsAt(t) = Ends[t]
    BY <2>1, PtsNext
  <2> QED
    BY <2>2, <2>5, <2>6 DEF Place
<1> QED
  BY <1>3, <1>4

(* The client passes updates without applying them. *)
LEMMA SkipIs ==
  ASSUME NEW N \in 0..Len(Ends), N = n, NEW t \in 0..N, NEW j \in t..N, NEW d, NEW x,
         IsClient(d), AppliedTo(d, t), d.pts # NoPts, x = StartAt(d, PtsAt(j))
  PROVE  Applies(d, x) /\ AppliedTo(x, j)
<1>1. t \in 0..Len(Ends)
  BY UpdatesManagerAssumption
<1>2. PICK a : a = Place(d)
  OBVIOUS
<1>3. PICK p : p = PtsAt(j)
  OBVIOUS
<1>4. PICK U : U = Fetched(a, p, N)
  OBVIOUS
<1>5. AllBetween(U, t, j)
  BY <1>1, <1>2, <1>3, <1>4, PlaceIs, FetchedIs
<1>6. PICK y : y = Apply(d, U)
  OBVIOUS
<1>7. x = [y EXCEPT !.skipped = @ \cup U]
  BY <1>2, <1>3, <1>4, <1>6 DEF StartAt, Fetched
<1>8. /\ IsClient(y) /\ Extends(d, y, U)
      /\ y.pts = d.pts /\ y.acks = d.acks /\ y.stored = d.stored
      /\ y.pending_updates = d.pending_updates
      /\ y.postponed_pts_updates = d.postponed_pts_updates
      /\ y.accumulated_pts = d.accumulated_pts
      /\ y.accumulated_pts_count = d.accumulated_pts_count
      /\ y.running = d.running /\ y.asked = d.asked /\ y.fatal = d.fatal
      /\ SameSeq(d, y)
  BY <1>6, ApplyIs
<1>9. AppliedTo(y, j)
  BY <1>5, <1>8, ApplyPart
<1>10. IsClient(x)
  BY <1>7, <1>8 DEF IsClient
<1>11. /\ x.pts = y.pts /\ x.acks = y.acks /\ x.stored = y.stored
       /\ x.pending_updates = y.pending_updates
       /\ x.postponed_pts_updates = y.postponed_pts_updates
       /\ x.accumulated_pts = y.accumulated_pts
       /\ x.accumulated_pts_count = y.accumulated_pts_count
       /\ x.running = y.running /\ x.asked = y.asked /\ x.fatal = y.fatal
       /\ x.base = y.base /\ x.passed = y.passed
  BY <1>7, <1>8 DEF IsClient, Fields
<1>12. SameSeq(y, x)
  BY <1>7, <1>8 DEF IsClient, Fields, SameSeq
<1>13. AppliedTo(x, j)
  BY <1>9, <1>11 DEF AppliedTo
<1> QED
  BY <1>8, <1>10, <1>11, <1>12, <1>13, SameSeqTrans DEF Applies

(* A later position is set, after what leads to it is applied. *)
LEMMA MoveSound ==
  ASSUME NEW N \in 0..Len(Ends), NEW S \in Nat, NEW R \in Misfortunes, NEW t \in 0..N, NEW t2 \in t..N,
         NEW d, NEW x, NEW e, Sound(d, t, N, S, R), d.running = "no", d.pending_updates = {},
         d.accumulated_pts = -1, Applies(d, x), AppliedTo(x, t2), x.skipped # {} => Excused(R),
         d.pts < PtsAt(t2), e = SetPts(x, PtsAt(t2))
  PROVE  /\ Sound(e, t2, N, S, R) /\ Held(e) \subseteq Held(d) /\ SameSeq(d, e)
         /\ e.running = "no" /\ e.pts = PtsAt(t2)
<1>1. t2 \in 0..N /\ t2 \in 0..Len(Ends)
  BY UpdatesManagerAssumption
<1>2. PtsAt(t2) \in Int /\ PtsAt(t2) # MaxPts
  BY <1>1, PtsType, UpdatesManagerAssumption
<1>3. d.pts \in Int
  BY PtsNumber
<1>4. IsClient(x) /\ x.pts \in Int /\ PtsAt(t2) > x.pts
  BY <1>2, <1>3 DEF Applies
<1>5. PICK p \in Int : p = PtsAt(t2)
  BY <1>2
<1>6. Moved(x, e, p)
  BY <1>2, <1>4, <1>5, SetPtsIs
<1>7. d.accumulated_pts_count = 0
  <2>1. d.accumulated_pts_count = Cardinality(Cover({}))
    BY DEF Sound, Body, Accumulated
  <2> QED
    BY <2>1, CoverNone
<1>8. SameSeq(d, e)
  BY <1>6 DEF Moved, Applies, SameSeq
<1>9. Settled(d, e, PtsAt(t2))
  BY <1>5, <1>6, <1>7 DEF Settled, Moved, Applies, SameSeq
<1>10. AppliedTo(e, t2)
  BY <1>6 DEF Moved, AppliedTo
<1>11. Sequenced(e, N, S, R)
  BY <1>8 DEF Sound, Body, Sequenced, SameSeq
<1>12. Body(d, t, N, S, R)
  BY DEF Sound
<1>14. e.skipped # {} => Excused(R)
  BY <1>6 DEF Moved
<1>13. Sound(e, t2, N, S, R) /\ Held(e) \subseteq Held(d)
  BY <1>9, <1>10, <1>11, <1>12, <1>14, SettleSound
<1> QED
  BY <1>8, <1>9, <1>13 DEF Settled

(* e is x at the position p, from the answer to getState after a reset *)
RestoredAt(x, e, p) ==
  e = [x EXCEPT !.pts = p, !.acks = <<>>, !.last_get_difference_pts = p, !.running = "no"]

LEMMA RestoreSound ==
  ASSUME NEW N \in 0..Len(Ends), NEW S \in Nat, NEW R \in Misfortunes, NEW t \in 0..N, NEW t2 \in t..N,
         NEW d, NEW x, NEW e, Sound(d, t, N, S, R), d.running = "state", R.resets > 0,
         Applies(d, x), AppliedTo(x, t2), RestoredAt(x, e, PtsAt(t2))
  PROVE  Sound(e, t2, N, S, R) /\ Held(e) \subseteq Held(d) /\ Restored(e, R)
<1>1. t2 \in 0..N /\ t2 \in 0..Len(Ends)
  BY UpdatesManagerAssumption
<1>2. IsClient(x)
  BY DEF Applies
<1>3. PICK p : p = PtsAt(t2)
  OBVIOUS
<1>4. RestoredAt(x, e, p)
  BY <1>3
<1>5. IsClient(e)
  BY <1>2, <1>4 DEF IsClient, RestoredAt
<1>20. \A f \in Fields : e[f] = IF f = "running" THEN "no"
                               ELSE IF f = "last_get_difference_pts" THEN p
                               ELSE IF f = "acks" THEN <<>>
                               ELSE IF f = "pts" THEN p ELSE x[f]
  BY <1>2, <1>4 DEF IsClient, Fields, RestoredAt
<1>6. /\ e.stored = x.stored /\ e.pts = p /\ e.acks = <<>> /\ e.running = "no"
      /\ e.pending_updates = x.pending_updates /\ e.accumulated_pts = x.accumulated_pts
      /\ e.accumulated_pts_count = x.accumulated_pts_count
      /\ e.postponed_pts_updates = x.postponed_pts_updates /\ e.fatal = x.fatal
      /\ e.base = x.base /\ e.passed = x.passed
  BY <1>20 DEF Fields
<1>7. SameSeq(x, e)
  BY <1>20 DEF Fields, SameSeq
<1>8. SameSeq(d, e)
  BY <1>7, SameSeqTrans DEF Applies
<1>9. d.pending_updates = {} /\ d.accumulated_pts = -1
  BY DEF Sound, Body, Alone
<1>10. d.accumulated_pts_count = 0
  <2>1. d.accumulated_pts_count = Cardinality(Cover({}))
    BY <1>9 DEF Sound, Body, Accumulated
  <2> QED
    BY <2>1, CoverNone
<1>11. Settled(d, e, PtsAt(t2))
  BY <1>3, <1>5, <1>6, <1>8, <1>9, <1>10 DEF Settled, SameSeq, Applies
<1>12. AppliedTo(e, t2)
  BY <1>6 DEF AppliedTo
<1>13. Sequenced(e, N, S, R)
  BY <1>8 DEF Sound, Body, Sequenced, SameSeq
<1>14. Body(d, t, N, S, R) /\ Excused(R)
  BY DEF Sound, Excused
<1>15. Sound(e, t2, N, S, R) /\ Held(e) \subseteq Held(d)
  BY <1>11, <1>12, <1>13, <1>14, SettleSound
<1>16. PtsAt(t2) \in Reached(N)
  BY <1>1 DEF Reached
<1>17. Known(e.pts)
  BY <1>3, <1>6, <1>16, ReachedType
<1> QED
  BY <1>6, <1>15, <1>17 DEF Restored

(* e is f at the seq q, with the query answered *)
SeqAnswered(f, e, q) == e = [f EXCEPT !.seq = q, !.seqs = 1..q, !.running = "no"]

LEMMA FirstStateSound ==
  ASSUME NEW N \in 0..Len(Ends), NEW S \in Nat, NEW R \in Misfortunes, NEW t \in 0..N, NEW t2 \in t..N,
         NEW d, NEW x, NEW f, NEW e, NEW q \in 0..S, Sound(d, t, N, S, R), d.running = "state",
         d.pts = NoPts, Covers(d, q), x = StartAt(d, PtsAt(t2)), f = SetPts(x, PtsAt(t2)),
         SeqAnswered(f, e, q)
  PROVE  Sound(e, t2, N, S, R) /\ Held(e) \subseteq Held(d) /\ Restored(e, R)
<1>1. t2 \in 0..N /\ t2 \in 0..Len(Ends)
  BY UpdatesManagerAssumption
<1>2. IsClient(d)
  BY DEF Sound, Body
<1>3. PtsAt(t2) \in Nat /\ PtsAt(t2) # MaxPts /\ NoPts \in Int /\ PtsAt(t2) > NoPts
  BY <1>1, PtsType, UpdatesManagerAssumption, SMTT(30) DEF NoPts
<1>4. PICK p \in Int : p = PtsAt(t2)
  BY <1>3
<1>5. Applies(d, x) /\ AppliedTo(x, t2) /\ x.skipped = d.skipped
  BY <1>1, <1>2, StartIs
<1>6. IsClient(x) /\ x.pts \in Int /\ p > x.pts /\ p # MaxPts /\ f = SetPts(x, p)
  BY <1>3, <1>4, <1>5 DEF Applies
<1>7. Moved(x, f, p)
  BY <1>6, SetPtsIs
<1>8. IsClient(f)
  BY <1>7 DEF Moved
<1>9. IsClient(e)
  BY <1>8 DEF IsClient, SeqAnswered
<1>10. /\ e.pts = f.pts /\ e.acks = f.acks /\ e.stored = f.stored
       /\ e.pending_updates = f.pending_updates /\ e.accumulated_pts = f.accumulated_pts
       /\ e.accumulated_pts_count = f.accumulated_pts_count
       /\ e.postponed_pts_updates = f.postponed_pts_updates
       /\ e.running = "no" /\ e.fatal = f.fatal /\ e.skipped = f.skipped
       /\ e.base = f.base /\ e.passed = f.passed
       /\ e.postponed_updates = f.postponed_updates
       /\ e.pending_seq_updates = f.pending_seq_updates
       /\ e.seq = q /\ e.seqs = 1..q
  BY <1>8 DEF IsClient, Fields, SeqAnswered
<1>11. d.pending_updates = {} /\ d.accumulated_pts = -1
  BY DEF Sound, Body, Alone
<1>12. d.accumulated_pts_count = 0
  <2>1. d.accumulated_pts_count = Cardinality(Cover({}))
    BY <1>11 DEF Sound, Body, Accumulated
  <2> QED
    BY <2>1, CoverNone
<1>13. /\ f.pts = p /\ f.acks = Append(d.acks, p) /\ f.stored = d.stored
       /\ f.pending_updates = {} /\ f.accumulated_pts = -1 /\ f.accumulated_pts_count = 0
       /\ f.postponed_pts_updates = d.postponed_pts_updates /\ f.fatal = d.fatal /\ f.skipped = d.skipped
       /\ SameSeq(d, f)
  BY <1>5, <1>7, <1>11, <1>12 DEF Moved, Applies, SameSeq
<1>14. Settled(d, e, PtsAt(t2))
  BY <1>4, <1>9, <1>10, <1>13 DEF Settled, SameSeq
<1>15. AppliedTo(e, t2)
  BY <1>5, <1>7, <1>10 DEF Moved, AppliedTo
<1>16. e.pending_seq_updates = d.pending_seq_updates
  BY <1>10, <1>13 DEF SameSeq
<1>17. Sequenced(e, N, S, R)
  BY <1>10, <1>16 DEF Sound, Body, Sequenced
<1>18. Body(d, t, N, S, R)
  BY DEF Sound
<1>23. e.skipped # {} => Excused(R)
  BY <1>10, <1>13 DEF Sound, Body, Positioned
<1>19. Sound(e, t2, N, S, R) /\ Held(e) \subseteq Held(d)
  BY <1>14, <1>15, <1>17, <1>18, <1>23, SettleSound
<1>20. PtsAt(t2) \in Reached(N)
  BY <1>1 DEF Reached
<1>21. Known(e.pts)
  BY <1>4, <1>10, <1>13, <1>20, ReachedType
<1>22. Drains(e)
  BY <1>10, <1>16 DEF Drains, Covers
<1> QED
  BY <1>10, <1>19, <1>21, <1>22 DEF Restored

(* The answer to getState. *)
LEMMA StateReplySound ==
  ASSUME NEW N \in 0..Len(Ends), N = n, NEW S \in Nat, NEW R \in Misfortunes, NEW t \in 0..N, NEW t2 \in t..N,
         NEW d, NEW e, NEW r, Sound(d, t, N, S, R), d.running = "state", r.pts = PtsAt(t2),
         r.seq \in 0..S, Covers(d, r.seq), e = OnGetUpdatesState(d, r)
  PROVE  Resumed(d, e, t, N, S, R)
<1>1. d.pts \in {NoPts, MaxPts} /\ (d.pts = MaxPts => R.resets > 0)
  BY DEF Sound, Body, Positioned
<1>2. NoPts # MaxPts
  BY UpdatesManagerAssumption DEF NoPts
<1>3. PICK p : p = PtsAt(t2)
  OBVIOUS
<1>4. PICK q \in 0..S : q = r.seq
  OBVIOUS
<1>5. PICK x : x = StartAt(d, p)
  OBVIOUS
<1>6. t2 \in 0..N
  BY UpdatesManagerAssumption
<1>7. \E f : /\ Sound(f, t2, N, S, R) /\ Held(f) \subseteq Held(d) /\ Restored(f, R)
             /\ e = AfterGetDifference(f)
  <2>1. CASE d.pts = MaxPts
    <3>1. PICK f : f = [[x EXCEPT !.pts = p, !.acks = <<>>, !.last_get_difference_pts = p]
                          EXCEPT !.running = "no"]
      OBVIOUS
    <3>2. e = AfterGetDifference(f)
      BY <3>1, <2>1, <1>3, <1>5 DEF OnGetUpdatesState
    <3>3. RestoredAt(x, f, PtsAt(t2))
      BY <3>1, <1>3 DEF RestoredAt
    <3>7. IsClient(d) /\ AppliedTo(d, t) /\ d.pts # NoPts
      BY <2>1, <1>2 DEF Sound, Body, Timeline, AppliedTo
    <3>4. Applies(d, x) /\ AppliedTo(x, t2)
      BY <3>7, <1>3, <1>5, SkipIs
    <3>5. R.resets > 0
      BY <2>1, <1>1
    <3>6. Sound(f, t2, N, S, R) /\ Held(f) \subseteq Held(d) /\ Restored(f, R)
      BY <3>3, <3>4, <3>5, RestoreSound
    <3> QED
      BY <3>2, <3>6
  <2>2. CASE d.pts = NoPts
    <3>1. PICK g : g = SetPts(x, p)
      OBVIOUS
    <3>2. PICK f : f = [SetSeq(g, q) EXCEPT !.running = "no"]
      OBVIOUS
    <3>3. e = AfterGetDifference(f)
      BY <3>1, <3>2, <2>2, <1>2, <1>3, <1>4, <1>5 DEF OnGetUpdatesState
    <3>4. SeqAnswered(g, f, q)
      BY <3>2 DEF SeqAnswered, SetSeq
    <3>5. Covers(d, q) /\ x = StartAt(d, PtsAt(t2)) /\ g = SetPts(x, PtsAt(t2))
      BY <3>1, <1>3, <1>4, <1>5
    <3>6. Sound(f, t2, N, S, R) /\ Held(f) \subseteq Held(d) /\ Restored(f, R)
      BY <3>4, <3>5, <2>2, FirstStateSound
    <3> QED
      BY <3>3, <3>6
  <2> QED
    BY <2>1, <2>2, <1>1
<1>8. PICK f : /\ Sound(f, t2, N, S, R) /\ Held(f) \subseteq Held(d) /\ Restored(f, R)
               /\ e = AfterGetDifference(f)
  BY <1>7
<1>9. Resumed(f, e, t2, N, S, R)
  BY <1>6, <1>8, AfterGetDifferenceSound
<1>10. PICK t3 \in t2..N : Sound(e, t3, N, S, R)
  BY <1>9 DEF Resumed
<1>11. t3 \in t..N
  BY UpdatesManagerAssumption
<1> QED
  BY <1>8, <1>9, <1>10, <1>11 DEF Resumed

LEMMA FetchIs ==
  ASSUME NEW N \in 0..Len(Ends), NEW S \in Nat, NEW R \in Misfortunes, NEW t \in 0..N, NEW j \in t..N,
         NEW d, NEW a, NEW p, NEW x, Sound(d, t, N, S, R), a = PtsAt(t), p = PtsAt(j),
         x = Apply(d, Fetched(a, p, N))
  PROVE  Applies(d, x) /\ AppliedTo(x, j) /\ x.skipped = d.skipped
<1>1. PICK U : U = Fetched(a, p, N)
  OBVIOUS
<1>2. AllBetween(U, t, j)
  BY <1>1, FetchedIs
<1>3. IsClient(d) /\ AppliedTo(d, t)
  BY DEF Sound, Body, Timeline, AppliedTo
<1>4. /\ IsClient(x) /\ Extends(d, x, U)
      /\ x.pts = d.pts /\ x.acks = d.acks /\ x.stored = d.stored
      /\ x.pending_updates = d.pending_updates
      /\ x.postponed_pts_updates = d.postponed_pts_updates
      /\ x.accumulated_pts = d.accumulated_pts
      /\ x.accumulated_pts_count = d.accumulated_pts_count
      /\ x.running = d.running /\ x.asked = d.asked /\ x.fatal = d.fatal /\ x.skipped = d.skipped
      /\ SameSeq(d, x)
  BY <1>1, <1>3, ApplyIs
<1>5. AppliedTo(x, j)
  BY <1>2, <1>3, <1>4, ApplyPart
<1> QED
  BY <1>4, <1>5 DEF Applies

LEMMA AppliedBody ==
  ASSUME NEW N \in 0..Len(Ends), NEW S \in Nat, NEW R \in Misfortunes, NEW t \in 0..N, NEW j \in t..N,
         NEW d, NEW x, Sound(d, t, N, S, R), d.pending_updates = {}, d.accumulated_pts = -1,
         Applies(d, x), AppliedTo(x, j), x.skipped # {} => Excused(R)
  PROVE  Body(x, j, N, S, R) /\ Held(x) = Held(d)
<1>1. t \in 0..Len(Ends) /\ j \in 0..Len(Ends) /\ t <= j
  BY UpdatesManagerAssumption
<1>2. PtsAt(t) \in Nat /\ PtsAt(j) \in Nat /\ PtsAt(t) <= PtsAt(j)
  BY <1>1, PtsType, PtsInjective
<1>3. Alone(x)
  BY DEF Sound, Body, Alone, NotFatal, Applies
<1>4. Accumulated(x, N)
  BY DEF Sound, Body, Accumulated, Applies
<1>5. Positioned(x, N, R)
  BY DEF Sound, Body, Positioned, Applies
<1>6. Timeline(x, j)
  <2>1. d.stored <= PtsAt(t) /\ d.stored \in {NoPts} \cup Reached(N)
    BY DEF Sound, Body, Timeline, Positioned
  <2>2. d.stored \in Int
    BY <2>1, ReachedType DEF NoPts
  <2>3. x.stored <= PtsAt(j)
    BY <2>1, <2>2, <1>2 DEF Applies
  <2>4. ASSUME NEW i \in 1..Len(d.acks), d.acks[i] # MaxPts PROVE d.acks[i] <= PtsAt(j)
    <3>1. d.acks[i] <= PtsAt(t)
      BY <2>4 DEF Sound, Body, Timeline
    <3>2. PICK A : A = {MaxPts} \cup Reached(N)
      OBVIOUS
    <3>3. d.acks \in Seq(A)
      BY <3>2 DEF Sound, Body, Positioned
    <3>4. d.acks[i] \in A
      BY <3>3, ElementOfSeq
    <3>5. d.acks[i] \in Reached(N)
      BY <3>2, <3>4, <2>4
    <3>6. d.acks[i] \in Nat
      BY <3>5, ReachedType
    <3> QED
      BY <3>1, <3>6, <1>2
  <2>5. x.acks = d.acks
    BY DEF Applies
  <2> QED
    BY <2>3, <2>4, <2>5 DEF Timeline, AppliedTo
<1>7. Once(x, N, S, R)
  BY OnceSame DEF Sound, Body, Applies, SameSeq
<1>8. Sequenced(x, N, S, R)
  BY DEF Sound, Body, Sequenced, Applies, SameSeq
<1>9. Held(x) = Held(d)
  BY DEF Held, Applies, SameSeq
<1> QED
  BY <1>3, <1>4, <1>5, <1>6, <1>7, <1>8, <1>9 DEF Body, Applies

LEMMA ResumedAfter ==
  ASSUME NEW N \in 0..Len(Ends), NEW S \in Nat, NEW R \in Misfortunes, NEW t \in 0..N, NEW t2 \in t..N,
         NEW d, NEW f, NEW e, Sound(f, t2, N, S, R), Held(f) \subseteq Held(d), Restored(f, R),
         e = AfterGetDifference(f)
  PROVE  Resumed(d, e, t, N, S, R)
<1>1. t2 \in 0..N
  BY UpdatesManagerAssumption
<1>2. Resumed(f, e, t2, N, S, R)
  BY <1>1, AfterGetDifferenceSound
<1>3. PICK t3 \in t2..N : Sound(e, t3, N, S, R)
  BY <1>2 DEF Resumed
<1>4. t3 \in t..N
  BY UpdatesManagerAssumption
<1> QED
  BY <1>2, <1>3, <1>4 DEF Resumed

LEMMA ResumedAsking ==
  ASSUME NEW N \in 0..Len(Ends), NEW S \in Nat, NEW R \in Misfortunes, NEW t \in 0..N, NEW t2 \in t..N,
         NEW d, NEW f, NEW e, Sound(e, t2, N, S, R), Held(f) \subseteq Held(d), Asks(f, e)
  PROVE  Resumed(d, e, t, N, S, R) /\ e.running # "no"
<1>1. e.running # "no" /\ Held(e) = Held(f)
  BY DEF Asks
<1> QED
  BY <1>1 DEF Resumed, Watched, PostponedWatched

(* The updates of a difference are applied and the position is set. *)
LEMMA FilledSound ==
  ASSUME NEW N \in 0..Len(Ends), NEW S \in Nat, NEW R \in Misfortunes, NEW t \in 0..N, NEW j \in t..N,
         NEW d, NEW x, NEW e, NEW r, Sound(d, t, N, S, R), d.running = "no", d.pending_updates = {},
         d.accumulated_pts = -1, Applies(d, x), AppliedTo(x, j), x.skipped # {} => Excused(R),
         Known(d.pts), d.pts < PtsAt(j),
         r.pts = PtsAt(j), r.seq \in 0..S, Covers(d, r.seq), e = OnGetUpdatesState(x, r)
  PROVE  Sound(e, j, N, S, R) /\ Held(e) \subseteq Held(d) /\ Restored(e, R)
<1>1. PICK p : p = PtsAt(j)
  OBVIOUS
<1>2. PICK q \in 0..S : q = r.seq
  OBVIOUS
<1>3. PICK f : f = SetPts(x, p)
  OBVIOUS
<1>4. x.running = "no" /\ x.pts = d.pts
  BY DEF Applies
<1>5. d.pts # MaxPts
  BY DEF Known
<1>6. e = SetSeq(f, q)
  BY <1>1, <1>2, <1>3, <1>4, <1>5 DEF OnGetUpdatesState
<1>7. /\ Sound(f, j, N, S, R) /\ Held(f) \subseteq Held(d) /\ SameSeq(d, f)
      /\ f.running = "no" /\ f.pts = PtsAt(j)
  <2>1. f = SetPts(x, PtsAt(j))
    BY <1>1, <1>3
  <2> QED
    BY <2>1, MoveSound, SMTT(60)
<1>8. Covers(f, q)
  BY <1>2, <1>7 DEF Covers, SameSeq
<1>9. j \in 0..N
  BY UpdatesManagerAssumption
<1>10. /\ Sound(e, j, N, S, R) /\ Held(e) = Held(f)
       /\ e.running = "no" /\ e.pts = f.pts /\ Drains(e)
  BY <1>6, <1>7, <1>8, <1>9, SetSeqSound
<1>11. Known(PtsAt(j))
  <2>1. PtsAt(j) \in Reached(N)
    BY <1>9 DEF Reached
  <2> QED
    BY <2>1, ReachedType
<1> QED
  BY <1>7, <1>10, <1>11 DEF Restored

(* The answer to getDifference. *)
LEMMA DifferenceSound ==
  ASSUME NEW N \in 0..Len(Ends), N = n, NEW S \in Nat, NEW R \in Misfortunes, NEW t \in 0..N,
         NEW d0, NEW e, NEW r, Sound(d0, t, N, S, R), d0.running = "difference",
         Answering(d0, r, t, N, S, R), r.type # "none", e = OnGetDifference(d0, r)
  PROVE  Resumed(d0, e, t, N, S, R)
<1>1. t \in t..N /\ t \in 0..Len(Ends)
  BY UpdatesManagerAssumption
<1>2. PICK d : d = Idle(d0)
  OBVIOUS
<1>3. d0.running # "no" /\ d0.asked = d0.pts /\ (d0.pts = MaxPts => R.resets > 0)
  BY DEF Sound, Body, Positioned
<1>4. /\ Sound(d, t, N, S, R) /\ Held(d) = Held(d0) /\ SameSeq(d0, d)
      /\ d.running = "no" /\ d.pts = d0.pts /\ d.asked = d0.asked
      /\ d.pending_updates = {} /\ d.accumulated_pts = -1
  BY <1>2, <1>3, IdleSound
<1>5. Known(d.pts) => d.pts = PtsAt(t)
  BY <1>4 DEF Sound
<1>6. PICK x : x = Apply(d, Fetched(d.asked, r.pts, N))
  OBVIOUS
<1>7. PICK y : y = IF r.reset THEN SetPts(x, MaxPts) ELSE x
  OBVIOUS
<1>8. y = ProcessGetDifferenceUpdates(d, r)
  BY <1>6, <1>7 DEF ProcessGetDifferenceUpdates, Fetched
<1>9. r \in Replies(N, S) /\ r.seq \in 0..S /\ r.type # "state"
  BY DEF Answering, Replies
<1>10. CASE r.type = "failed"
  <2>1. e = ScheduleGetDifference(d)
    BY <1>2, <1>10 DEF OnGetDifference, Idle
  <2>2. Sound(e, t, N, S, R) /\ Held(e) = Held(d) /\ Watched(e, R) /\ PostponedWatched(e)
    BY <2>1, <1>4, ScheduleSound
  <2> QED
    BY <2>2, <1>1, <1>4 DEF Resumed
<1>11. CASE r.type = "invalid"
  <2>1. PICK f : f = ScheduleGetDifference(d)
    OBVIOUS
  <2>2. e = SetPts(f, MaxPts)
    BY <2>1, <1>2, <1>11 DEF OnGetDifference, Idle
  <2>3. Sound(f, t, N, S, R) /\ Held(f) = Held(d) /\ f.running = d.running
    BY <2>1, <1>4, ScheduleSound
  <2>4. R.resets > 0
    BY <1>3, <1>11 DEF Answering
  <2>5. Body(f, t, N, S, R) /\ f.running = "no"
    BY <2>3, <1>4 DEF Sound
  <2>6. Sound(e, t, N, S, R) /\ Asks(f, e)
    BY <2>2, <2>4, <2>5, ResetSound
  <2>7. Held(f) \subseteq Held(d0)
    BY <2>3, <1>4
  <2> QED
    BY <2>6, <2>7, <1>1, ResumedAsking
<1>12. CASE r.type = "empty"
  <2>1. PICK q \in 0..S : q = r.seq
    BY <1>9
  <2>2. PICK f : f = SetSeq(d, q)
    OBVIOUS
  <2>3. Covers(d, q)
    BY <2>1, <1>4, <1>12 DEF Covers, Answering, SameSeq
  <2>4. /\ Sound(f, t, N, S, R) /\ Held(f) = Held(d)
        /\ f.running = "no" /\ f.pts = d.pts /\ Drains(f)
    BY <2>2, <2>3, <1>4, SetSeqSound
  <2>5. Known(d.pts)
    BY <1>3, <1>4, <1>12 DEF Answering
  <2>6. e = AfterGetDifference(f)
    BY <2>1, <2>2, <2>4, <1>2, <1>12 DEF OnGetDifference, Idle
  <2>7. Restored(f, R) /\ Held(f) \subseteq Held(d0)
    BY <2>4, <2>5, <1>4 DEF Restored
  <2> QED
    BY <2>4, <2>6, <2>7, <1>1, ResumedAfter
<1>13. CASE r.type \in {"full", "slice", "tooLong"}
  <2>1. Known(d.pts) /\ d.pts < r.pts /\ r.pts \in Reached(N) /\ d.asked = d.pts
    BY <1>3, <1>4, <1>13 DEF Answering
  <2>2. PICK j \in 0..N : r.pts = PtsAt(j)
    BY <2>1 DEF Reached
  <2>3. j \in t..N
    <3>1. j \in 0..Len(Ends)
      BY UpdatesManagerAssumption
    <3>2. PtsAt(t) < PtsAt(j)
      BY <2>1, <2>2, <1>5
    <3>3. t < j
      BY <3>1, <3>2, <1>1, PtsInjective
    <3> QED
      BY <3>3, UpdatesManagerAssumption
  <2>4. d.pts < PtsAt(j) /\ d.asked = PtsAt(t)
    BY <2>1, <2>2, <1>5
  <2>5. CASE r.type = "tooLong"
    <3>1. PICK p : p = r.pts
      OBVIOUS
    <3>2. PICK z : z = StartAt(d, p)
      OBVIOUS
    <3>3. PICK f : f = SetPts(z, p)
      OBVIOUS
    <3>4. PICK g : g = GetDifference(f)
      OBVIOUS
    <3>5. e = IF g.running # "no" THEN g ELSE AfterGetDifference(g)
      BY <3>1, <3>2, <3>3, <3>4, <2>5, <1>2 DEF OnGetDifference, Idle
    <3>6. IsClient(d) /\ AppliedTo(d, t) /\ d.pts # NoPts
      BY <2>1, <1>4 DEF Sound, Body, Timeline, AppliedTo, Known
    <3>7. Applies(d, z) /\ AppliedTo(z, j)
      BY <3>1, <3>2, <3>6, <2>2, <2>3, SkipIs
    <3>13. Excused(R)
      BY <2>5 DEF Answering, Excused
    <3>8. f = SetPts(z, PtsAt(j))
      BY <3>1, <3>3, <2>2
    <3>9. Sound(f, j, N, S, R) /\ Held(f) \subseteq Held(d)
      BY <3>7, <3>8, <3>13, <2>3, <2>4, <1>4, MoveSound
    <3>10. Sound(g, j, N, S, R) /\ Asks(f, g)
      BY <3>4, <3>9, <2>2, GetDifferenceSound
    <3>11. Held(f) \subseteq Held(d0)
      BY <3>9, <1>4
    <3>12. Resumed(d0, g, t, N, S, R) /\ g.running # "no"
      BY <3>10, <3>11, <2>3, ResumedAsking
    <3> QED
      BY <3>5, <3>12
  <2>6. CASE r.type \in {"full", "slice"}
    <3>1. Applies(d, x) /\ AppliedTo(x, j) /\ x.skipped = d.skipped
      <4>1. PICK p : p = r.pts
        OBVIOUS
      <4>2. PICK a : a = d.asked
        OBVIOUS
      <4>3. x = Apply(d, Fetched(a, p, N)) /\ p = PtsAt(j) /\ a = PtsAt(t)
        BY <4>1, <4>2, <2>2, <2>4, <1>6
      <4> QED
        BY <4>3, <2>3, <1>4, FetchIs
    <3>4. x.skipped # {} => Excused(R)
      BY <3>1, <1>4 DEF Sound, Body, Positioned
    <3>2. CASE r.reset
      <4>1. y = SetPts(x, MaxPts)
        BY <3>2, <1>7
      <4>2. Body(x, j, N, S, R) /\ Held(x) = Held(d)
        BY <3>1, <3>4, <2>3, <1>4, AppliedBody
      <4>3. x.running = "no" /\ R.resets > 0
        BY <3>1, <3>2, <1>4 DEF Applies, Answering
      <4>4. Sound(y, j, N, S, R) /\ Asks(x, y)
        BY <4>1, <4>2, <4>3, <2>2, ResetSound
      <4>5. Held(x) \subseteq Held(d0)
        BY <4>2, <1>4
      <4>6. Resumed(d0, y, t, N, S, R) /\ y.running # "no"
        BY <4>4, <4>5, <2>3, ResumedAsking
      <4>7. e = y
        BY <4>6, <2>6, <1>2, <1>8 DEF OnGetDifference, Idle
      <4> QED
        BY <4>6, <4>7
    <3>3. CASE ~r.reset
      <4>1. y = x
        BY <3>3, <1>7
      <4>2. y.running = "no"
        BY <4>1, <3>1, <1>4 DEF Applies
      <4>3. PICK f : f = OnGetUpdatesState(y, r)
        OBVIOUS
      <4>4. Covers(d, r.seq)
        BY <2>6, <1>4 DEF Covers, Answering, SameSeq
      <4>5. Sound(f, j, N, S, R) /\ Held(f) \subseteq Held(d) /\ Restored(f, R)
        BY <4>1, <4>3, <4>4, <3>1, <3>4, <2>1, <2>2, <2>3, <2>4, <1>4, <1>9, FilledSound
      <4>6. f.running = "no" /\ Held(f) \subseteq Held(d0)
        BY <4>5, <1>4 DEF Restored
      <4>7. CASE r.type = "full"
        <5>1. e = AfterGetDifference(f)
          BY <4>2, <4>3, <4>6, <4>7, <1>2, <1>8 DEF OnGetDifference, Idle
        <5> QED
          BY <5>1, <4>5, <4>6, <2>3, ResumedAfter
      <4>8. CASE r.type = "slice"
        <5>1. PICK g : g = GetDifference(f)
          OBVIOUS
        <5>2. Sound(g, j, N, S, R) /\ Asks(f, g)
          BY <5>1, <4>5, <2>2, GetDifferenceSound
        <5>3. Resumed(d0, g, t, N, S, R) /\ g.running # "no"
          BY <5>2, <4>6, <2>3, ResumedAsking
        <5>4. e = g
          BY <5>1, <5>3, <4>2, <4>3, <4>8, <1>2, <1>8 DEF OnGetDifference, Idle
        <5> QED
          BY <5>3, <5>4
      <4> QED
        BY <4>7, <4>8, <2>6
    <3> QED
      BY <3>2, <3>3
  <2> QED
    BY <2>5, <2>6, <1>13
<1> QED
  BY <1>9, <1>10, <1>11, <1>12, <1>13 DEF Replies
-----------------------------------------------------------------------------
(* Timeouts, acknowledgements and restarts. *)

(* the client asks, and a reply that is on its way stays an answer *)
KeepsAsking(d, e) ==
  e.running = d.running /\ e.asked = d.asked /\ e.pending_seq_updates = d.pending_seq_updates

(* the timeout is over *)
Fires(d, x, name) ==
  /\ name \in {"pts_gap_timeout", "seq_gap_timeout", "retry_timeout"}
  /\ x = [d EXCEPT ![name] = FALSE]

LEMMA FireSound ==
  ASSUME NEW N \in 0..Len(Ends), NEW S \in Nat, NEW R \in Misfortunes, NEW t \in 0..N,
         NEW d, NEW x, NEW e, NEW name, Sound(d, t, N, S, R), Fires(d, x, name),
         e = GetDifference(x)
  PROVE  /\ Sound(e, t, N, S, R) /\ Held(e) = Held(d) /\ e.running # "no"
         /\ d.running # "no" => KeepsAsking(d, e)
<1>1. IsClient(d)
  BY DEF Sound, Body
<1>2. IsClient(x)
  BY <1>1 DEF IsClient, Fires
<1>3. /\ x.pending_updates = d.pending_updates /\ x.accumulated_pts = d.accumulated_pts
      /\ x.accumulated_pts_count = d.accumulated_pts_count
      /\ x.pts = d.pts /\ x.acks = d.acks /\ x.stored = d.stored
      /\ x.postponed_pts_updates = d.postponed_pts_updates
      /\ x.running = d.running /\ x.asked = d.asked /\ x.fatal = d.fatal /\ x.skipped = d.skipped
      /\ x.passed = d.passed /\ x.base = d.base
      /\ x.postponed_updates = d.postponed_updates
      /\ x.pending_seq_updates = d.pending_seq_updates
      /\ x.seq = d.seq /\ x.seqs = d.seqs
  BY <1>1 DEF IsClient, Fields, Fires
<1>4. NotFatal(x) /\ x.pending_updates \in SUBSET Updates(N)
  BY <1>3 DEF Sound, Body, Alone, NotFatal, Accumulated
<1>5. Positioned(x, N, R)
  BY <1>3 DEF Sound, Body, Positioned
<1>6. Timeline(x, t)
  BY <1>3 DEF Sound, Body, Timeline
<1>7. Once(x, N, S, R)
  BY <1>3, OnceSame DEF Sound, Body
<1>8. Sequenced(x, N, S, R)
  BY <1>3 DEF Sound, Body, Sequenced
<1>9. Known(x.pts) => x.pts = PtsAt(t)
  BY <1>3 DEF Sound
<1>10. Askable(x, t, N, S, R)
  BY <1>2, <1>4, <1>5, <1>6, <1>7, <1>8, <1>9 DEF Askable
<1>11. Held(x) = Held(d)
  BY <1>3 DEF Held
<1>12. CASE d.running = "no"
  <2>1. Sound(e, t, N, S, R) /\ Asks(x, e)
    BY <1>3, <1>10, <1>12, AskSound
  <2> QED
    BY <2>1, <1>11, <1>12 DEF Asks
<1>13. CASE d.running # "no"
  <2>1. d.pending_updates = {} /\ d.accumulated_pts = -1 /\ Alone(x)
    BY <1>3, <1>13 DEF Sound, Body, Alone, NotFatal
  <2>2. Accumulated(x, N)
    BY <2>1, <1>3 DEF Sound, Body, Accumulated
  <2>3. Sound(x, t, N, S, R)
    BY <2>1, <2>2, <1>2, <1>5, <1>6, <1>7, <1>8, <1>9 DEF Sound, Body
  <2>4. e = x
    BY <2>3, <1>3, <1>13, AskingAlready
  <2> QED
    BY <2>3, <2>4, <1>3, <1>11, <1>13 DEF KeepsAsking
<1> QED
  BY <1>12, <1>13

(* The first acknowledgement is handled. *)
Acked(d) ==
  [d EXCEPT !.acks = Tail(@), !.stored = IF Head(d.acks) = MaxPts THEN NoPts ELSE Head(d.acks)]

LEMMA AckSound ==
  ASSUME NEW N \in 0..Len(Ends), NEW S \in Nat, NEW R \in Misfortunes, NEW t \in 0..N,
         NEW d, NEW e, Sound(d, t, N, S, R), d.acks # <<>>, e = Acked(d)
  PROVE  /\ Sound(e, t, N, S, R) /\ Held(e) = Held(d) /\ KeepsAsking(d, e)
         /\ (Watched(d, R) => Watched(e, R)) /\ (PostponedWatched(d) => PostponedWatched(e))
<1>1. IsClient(d) /\ Positioned(d, N, R) /\ Timeline(d, t)
  BY DEF Sound, Body
<1>2. PICK A : A = {MaxPts} \cup Reached(N)
  OBVIOUS
<1>3. PICK q : q = d.acks
  OBVIOUS
<1>4. PICK h : h = IF Head(q) = MaxPts THEN NoPts ELSE Head(q)
  OBVIOUS
<1>5. PICK r : r = Tail(q)
  OBVIOUS
<1>6. e = [d EXCEPT !.acks = r, !.stored = h]
  BY <1>3, <1>4, <1>5 DEF Acked
<1>7. IsClient(e)
  BY <1>1, <1>6 DEF IsClient
<1>8. /\ e.pending_updates = d.pending_updates /\ e.accumulated_pts = d.accumulated_pts
      /\ e.accumulated_pts_count = d.accumulated_pts_count
      /\ e.pts = d.pts /\ e.acks = r /\ e.stored = h
      /\ e.postponed_pts_updates = d.postponed_pts_updates
      /\ e.running = d.running /\ e.asked = d.asked /\ e.fatal = d.fatal /\ e.skipped = d.skipped
      /\ e.passed = d.passed /\ e.base = d.base /\ e.pts_gap_timeout = d.pts_gap_timeout
      /\ e.retry_timeout = d.retry_timeout /\ SameSeq(d, e)
  BY <1>1, <1>6 DEF IsClient, Fields, SameSeq
<1>9. q \in Seq(A) /\ q # <<>> /\ d.pts # NoPts
  BY <1>1, <1>2, <1>3 DEF Positioned
<1>10. /\ Head(q) \in A /\ Head(q) = q[1] /\ 1 \in 1..Len(q) /\ r \in Seq(A)
       /\ \A i \in 1..Len(r) : r[i] = q[i + 1] /\ i + 1 \in 1..Len(q)
  BY <1>5, <1>9
<1>11. \A i \in 1..Len(q) : q[i] # MaxPts => q[i] <= PtsAt(t)
  BY <1>1, <1>3 DEF Timeline
<1>12. h \in {NoPts} \cup Reached(N) /\ h <= PtsAt(t)
  <2>1. PtsAt(t) \in Nat
    BY PtsType, UpdatesManagerAssumption
  <2>2. NoPts <= PtsAt(t)
    BY <2>1 DEF NoPts
  <2> QED
    BY <2>2, <1>2, <1>4, <1>10, <1>11
<1>13. Positioned(e, N, R)
  BY <1>1, <1>2, <1>8, <1>9, <1>10, <1>12 DEF Positioned
<1>14. Timeline(e, t)
  <2>1. \A i \in 1..Len(r) : r[i] # MaxPts => r[i] <= PtsAt(t)
    BY <1>10, <1>11
  <2> QED
    BY <2>1, <1>1, <1>8, <1>12 DEF Timeline
<1>15. Alone(e)
  BY <1>8 DEF Sound, Body, Alone, NotFatal
<1>16. Accumulated(e, N)
  BY <1>8 DEF Sound, Body, Accumulated
<1>17. Once(e, N, S, R)
  BY <1>8, OnceSame DEF Sound, Body, SameSeq
<1>18. Sequenced(e, N, S, R)
  BY <1>8 DEF Sound, Body, Sequenced, SameSeq
<1>19. Sound(e, t, N, S, R)
  BY <1>7, <1>8, <1>13, <1>14, <1>15, <1>16, <1>17, <1>18 DEF Sound, Body
<1>20. Held(e) = Held(d) /\ KeepsAsking(d, e)
  BY <1>8 DEF Held, KeepsAsking, SameSeq
<1>21. (Watched(d, R) => Watched(e, R)) /\ (PostponedWatched(d) => PostponedWatched(e))
  BY <1>8 DEF Watched, PostponedWatched, SameSeq
<1> QED
  BY <1>19, <1>20, <1>21

(* x is a client that has just started with what is saved of d *)
Restarts(d, x) ==
  /\ IsClient(x) /\ NotFatal(x)
  /\ x.pts = NoPts /\ x.acks = <<>> /\ x.stored = d.stored /\ x.running = "no"
  /\ x.pending_updates = {} /\ x.postponed_pts_updates = {}
  /\ x.postponed_updates = <<>> /\ x.pending_seq_updates = {}
  /\ x.seq = 0 /\ x.seqs = {}
  /\ x.passed = <<>> /\ x.base = FirstPts /\ x.skipped = {}

LEMMA FreshIs ==
  ASSUME NEW d, NEW x, x = Fresh(d.stored)
  PROVE  Restarts(d, x)
<1>1. IsClient(x)
  BY DEF IsClient, Fields, Fresh
<1> QED
  BY <1>1 DEF Fresh, Restarts, NotFatal

LEMMA NothingHeld ==
  ASSUME NEW N, NEW S \in Nat, NEW R, NEW d, d.pending_updates = {}, d.postponed_pts_updates = {},
         d.postponed_updates = <<>>, d.pending_seq_updates = {}, d.seq = 0, d.seqs = {}
  PROVE  /\ Once(d, N, S, R) /\ Sequenced(d, N, S, R) /\ Held(d) = {}
         /\ d.pending_updates \in SUBSET Updates(N)
<1>1. Len(<<>>) = 0 /\ 1..0 = {} /\ <<>> \in Seq(Containers(N, S, R))
  OBVIOUS
<1>2. Once(d, N, S, R)
  BY <1>1 DEF Once
<1>3. IsFiniteSet({})
  BY FS_EmptySet
<1>4. Sequenced(d, N, S, R)
  BY <1>1, <1>3 DEF Sequenced
<1>5. { d.postponed_updates[i].upd : i \in 1..Len(d.postponed_updates) } = {}
  BY <1>1
<1>6. Held(d) = {}
  BY <1>5 DEF Held
<1> QED
  BY <1>2, <1>4, <1>6

(* Nothing is passed yet. *)
LEMMA BeginsAt ==
  ASSUME NEW k \in 0..Len(Ends), NEW d, d.passed = <<>>, d.base = PtsAt(k)
  PROVE  AppliedTo(d, k)
<1>1. SubSeq(Ends, k + 1, k) = <<>> /\ k \in 0..k
  BY NoneAfter
<1> QED
  BY <1>1 DEF AppliedTo

(* Nothing is saved. *)
LEMMA AnewSound ==
  ASSUME NEW N \in 0..Len(Ends), NEW S \in Nat, NEW R \in Misfortunes,
         NEW d, NEW x, NEW e, Restarts(d, x), d.stored = NoPts, e = GetDifference(x)
  PROVE  Sound(e, 0, N, S, R) /\ Held(e) = {} /\ e.running # "no"
<1>0. 0 \in 0..N /\ 0 \in 0..Len(Ends)
  BY UpdatesManagerAssumption
<1>1. /\ Once(x, N, S, R) /\ Sequenced(x, N, S, R) /\ Held(x) = {}
      /\ x.pending_updates \in SUBSET Updates(N)
  BY NothingHeld DEF Restarts
<1>2. NoPts # MaxPts /\ ~Known(NoPts)
  BY UpdatesManagerAssumption DEF NoPts, Known
<1>3. x.acks \in Seq({MaxPts} \cup Reached(N)) /\ Len(x.acks) = 0 /\ 1..0 = {}
  BY DEF Restarts
<1>4. Positioned(x, N, R)
  BY <1>2, <1>3 DEF Positioned, Restarts
<1>5. Timeline(x, 0)
  <2>1. PtsAt(0) \in Nat
    BY <1>0, PtsType
  <2>2. x.stored <= PtsAt(0)
    BY <2>1 DEF NoPts, Restarts
  <2>3. \A i \in 1..Len(x.acks) : x.acks[i] # MaxPts => x.acks[i] <= PtsAt(0)
    BY <1>3
  <2>4. x.passed = <<>> /\ x.base = PtsAt(0)
    BY DEF Restarts, PtsAt
  <2>5. AppliedTo(x, 0)
    BY <2>4, <1>0, BeginsAt
  <2> QED
    BY <2>2, <2>3, <2>5 DEF Timeline, AppliedTo
<1>6. Askable(x, 0, N, S, R) /\ x.running = "no"
  BY <1>1, <1>2, <1>4, <1>5 DEF Askable, Restarts
<1>7. Sound(e, 0, N, S, R) /\ Asks(x, e)
  BY <1>0, <1>6, AskSound
<1> QED
  BY <1>1, <1>7 DEF Asks

(* The saved pts is the one to continue from. *)
LEMMA ContinueSound ==
  ASSUME NEW N \in 0..Len(Ends), NEW S \in Nat, NEW R \in Misfortunes, NEW k \in 0..N,
         NEW d, NEW x, NEW e, Restarts(d, x), d.stored = PtsAt(k), e = GetDifference(x)
  PROVE  Sound(e, k, N, S, R) /\ Held(e) = {} /\ e.running # "no"
<1>1. k \in 0..Len(Ends)
  BY UpdatesManagerAssumption
<1>2. PtsAt(k) \in Reached(N)
  BY DEF Reached
<1>3. PtsAt(k) \in Nat /\ Known(PtsAt(k))
  BY <1>2, ReachedType
<1>4. PICK p : p = PtsAt(k)
  OBVIOUS
<1>5. PICK y : y = [x EXCEPT !.pts = p, !.acks = <<>>, !.last_get_difference_pts = p, !.base = p]
  OBVIOUS
<1>6. p # NoPts /\ p # MaxPts /\ x.stored = p /\ x.pts = NoPts
  BY <1>3, <1>4 DEF Known, Restarts
<1>7. e = RunGetDifference(y)
  BY <1>5, <1>6 DEF GetDifference, InitState
<1>8. IsClient(x)
  BY DEF Restarts
<1>9. IsClient(y)
  BY <1>5, <1>8 DEF IsClient
<1>10. /\ y.pts = p /\ y.acks = <<>> /\ y.stored = x.stored /\ y.running = x.running
       /\ y.fatal = x.fatal /\ y.skipped = x.skipped
       /\ y.pending_updates = x.pending_updates
       /\ y.postponed_pts_updates = x.postponed_pts_updates
       /\ y.postponed_updates = x.postponed_updates
       /\ y.pending_seq_updates = x.pending_seq_updates
       /\ y.seq = x.seq /\ y.seqs = x.seqs
  BY <1>5, <1>8 DEF IsClient, Fields
<1>11. y.passed = x.passed /\ y.base = p
  BY <1>5, <1>8 DEF IsClient, Fields
<1>12. /\ Once(y, N, S, R) /\ Sequenced(y, N, S, R) /\ Held(y) = {}
       /\ y.pending_updates \in SUBSET Updates(N)
  BY <1>10, NothingHeld DEF Restarts
<1>13. y.acks \in Seq({MaxPts} \cup Reached(N)) /\ Len(y.acks) = 0 /\ 1..0 = {}
  BY <1>10
<1>14. y.running = "no" /\ y.stored = p /\ NotFatal(y) /\ y.skipped = {}
  BY <1>6, <1>10 DEF Restarts, NotFatal
<1>15. Positioned(y, N, R)
  BY <1>2, <1>4, <1>6, <1>10, <1>13, <1>14 DEF Positioned
<1>16. AppliedTo(y, k)
  <2>1. y.passed = <<>> /\ y.base = PtsAt(k)
    BY <1>4, <1>11 DEF Restarts
  <2> QED
    BY <2>1, <1>1, BeginsAt
<1>17. Timeline(y, k)
  <2>1. y.stored <= PtsAt(k)
    BY <1>3, <1>4, <1>14
  <2>2. \A i \in 1..Len(y.acks) : y.acks[i] # MaxPts => y.acks[i] <= PtsAt(k)
    BY <1>13
  <2> QED
    BY <2>1, <2>2, <1>16 DEF Timeline, AppliedTo
<1>18. Askable(y, k, N, S, R) /\ y.pts # NoPts
  BY <1>4, <1>6, <1>9, <1>10, <1>12, <1>14, <1>15, <1>17 DEF Askable
<1>19. Sound(e, k, N, S, R) /\ Asks(y, e)
  BY <1>7, <1>14, <1>18, RunGetDifferenceSound
<1> QED
  BY <1>12, <1>19 DEF Asks

LEMMA RestartSound ==
  ASSUME NEW N \in 0..Len(Ends), NEW S \in Nat, NEW R \in Misfortunes, NEW t \in 0..N,
         NEW d, NEW x, NEW e, Sound(d, t, N, S, R), Restarts(d, x), e = GetDifference(x)
  PROVE  \E k \in 0..N : Sound(e, k, N, S, R) /\ Held(e) = {} /\ e.running # "no"
<1>1. d.stored \in {NoPts} \cup Reached(N)
  BY DEF Sound, Body, Positioned
<1>2. CASE d.stored = NoPts
  <2>1. 0 \in 0..N
    BY UpdatesManagerAssumption
  <2> QED
    BY <2>1, <1>2, AnewSound
<1>3. CASE d.stored \in Reached(N)
  <2>1. PICK k \in 0..N : d.stored = PtsAt(k)
    BY <1>3 DEF Reached
  <2>2. Sound(e, k, N, S, R) /\ Held(e) = {} /\ e.running # "no"
    BY <2>1, ContinueSound
  <2> QED
    BY <2>2
<1> QED
  BY <1>1, <1>2, <1>3
-----------------------------------------------------------------------------
(* The server goes on. *)

(* from N updates, S containers and the misfortunes R to N2, S2 and R2 *)
Later(N, S, R, N2, S2, R2) ==
  /\ N \in 0..Len(Ends) /\ N2 \in N..Len(Ends)
  /\ S \in Nat /\ S2 \in Nat /\ S <= S2
  /\ R \in Misfortunes /\ R2 \in Misfortunes /\ Grows(R, R2)

LEMMA GrowsIs ==
  ASSUME NEW R \in Misfortunes, NEW R2 \in Misfortunes, Grows(R, R2)
  PROVE  /\ R.resets > 0 => R2.resets > 0
         /\ R.tooLongs > 0 => R2.tooLongs > 0
         /\ R2.resets = 0 => R.resets = 0
         /\ Excused(R) => Excused(R2)
  BY DEF Misfortunes, Grows, Excused

LEMMA LaterIs ==
  ASSUME NEW N, NEW S, NEW R, NEW N2, NEW S2, NEW R2, Later(N, S, R, N2, S2, R2)
  PROVE  /\ R.resets > 0 => R2.resets > 0
         /\ R.tooLongs > 0 => R2.tooLongs > 0
         /\ Excused(R) => Excused(R2)
  BY GrowsIs DEF Later

LEMMA Wider ==
  ASSUME NEW N, NEW S, NEW R, NEW N2, NEW S2, NEW R2, Later(N, S, R, N2, S2, R2)
  PROVE  /\ Reached(N) \subseteq Reached(N2) /\ Updates(N) \subseteq Updates(N2)
         /\ Containers(N, S, R) \subseteq Containers(N2, S2, R2)
         /\ Replies(N, S) \subseteq Replies(N2, S2)
<1>1. /\ 0..N \subseteq 0..N2 /\ 1..N \subseteq 1..N2 /\ 0..S \subseteq 0..S2
      /\ R.resets > 0 => R2.resets > 0
  BY UpdatesManagerAssumption, LaterIs DEF Later
<1>2. Reached(N) \subseteq Reached(N2)
  BY <1>1 DEF Reached
<1>3. Updates(N) \subseteq Updates(N2)
  BY <1>1 DEF Updates
<1>4. Telling(N) \subseteq Telling(N2)
  BY <1>2 DEF Telling
<1>5. Containers(N, S, R) \subseteq Containers(N2, S2, R2)
  <2> SUFFICES ASSUME NEW m \in Containers(N, S, R) PROVE m \in Containers(N2, S2, R2)
    OBVIOUS
  <2>1. m \in [seq : 0..S, upd : Updates(N) \cup Telling(N), other : {"none", "plain", "reset"},
               sort : AllSorts]
        /\ (m.other = "reset" => R.resets > 0)
    BY DEF Containers
  <2>2. m \in [seq : 0..S2, upd : Updates(N2) \cup Telling(N2), other : {"none", "plain", "reset"},
               sort : AllSorts]
    BY <2>1, <1>1, <1>3, <1>4
  <2> QED
    BY <2>1, <2>2, <1>1 DEF Containers
<1>6. Replies(N, S) \subseteq Replies(N2, S2)
  <2> SUFFICES ASSUME NEW r \in Replies(N, S) PROVE r \in Replies(N2, S2)
    OBVIOUS
  <2> QED
    BY <1>1, <1>2 DEF Replies
<1> QED
  BY <1>2, <1>3, <1>5, <1>6

LEMMA SeqWider ==
  ASSUME NEW A, NEW B, A \subseteq B, NEW q \in Seq(A)
  PROVE  q \in Seq(B)
  OBVIOUS

LEMMA SoundWider ==
  ASSUME NEW N, NEW S, NEW R, NEW N2, NEW S2, NEW R2, Later(N, S, R, N2, S2, R2),
         NEW t, NEW d, Sound(d, t, N, S, R)
  PROVE  Sound(d, t, N2, S2, R2)
<1>1. /\ Reached(N) \subseteq Reached(N2) /\ Updates(N) \subseteq Updates(N2)
      /\ Containers(N, S, R) \subseteq Containers(N2, S2, R2)
  BY Wider
<1>2. /\ 0..S \subseteq 0..S2 /\ (R.resets > 0 => R2.resets > 0)
      /\ (Excused(R) => Excused(R2))
  BY LaterIs DEF Later
<1>3. Accumulated(d, N2)
  BY <1>1 DEF Sound, Body, Accumulated
<1>4. Positioned(d, N2, R2)
  <2>1. PICK A : A = {MaxPts} \cup Reached(N)
    OBVIOUS
  <2>2. PICK B : B = {MaxPts} \cup Reached(N2)
    OBVIOUS
  <2>3. A \subseteq B /\ d.acks \in Seq(A)
    BY <2>1, <2>2, <1>1 DEF Sound, Body, Positioned
  <2>4. d.acks \in Seq(B)
    BY <2>3, SeqWider
  <2>5. d.acks \in Seq({MaxPts} \cup Reached(N2))
    BY <2>2, <2>4
  <2> QED
    BY <2>5, <1>1, <1>2 DEF Sound, Body, Positioned
<1>5. Once(d, N2, S2, R2)
  <2>1. PICK A : A = Containers(N, S, R)
    OBVIOUS
  <2>2. PICK B : B = Containers(N2, S2, R2)
    OBVIOUS
  <2>3. A \subseteq B /\ d.postponed_updates \in Seq(A)
    BY <2>1, <2>2, <1>1 DEF Sound, Body, Once
  <2>4. d.postponed_updates \in Seq(B)
    BY <2>3, SeqWider
  <2>5. d.postponed_updates \in Seq(Containers(N2, S2, R2))
    BY <2>2, <2>4
  <2> QED
    BY <2>5, <1>1 DEF Sound, Body, Once
<1>6. Sequenced(d, N2, S2, R2)
  BY <1>1, <1>2 DEF Sound, Body, Sequenced
<1> QED
  BY <1>3, <1>4, <1>5, <1>6 DEF Sound, Body

LEMMA AnsweringWider ==
  ASSUME NEW N, NEW S, NEW R, NEW N2, NEW S2, NEW R2, Later(N, S, R, N2, S2, R2),
         NEW t, NEW d, NEW r, Answering(d, r, t, N, S, R)
  PROVE  Answering(d, r, t, N2, S2, R2)
<1>1. Reached(N) \subseteq Reached(N2) /\ Replies(N, S) \subseteq Replies(N2, S2)
  BY Wider
<1>2. (R.resets > 0 => R2.resets > 0) /\ (R.tooLongs > 0 => R2.tooLongs > 0)
  BY LaterIs
<1> QED
  BY <1>1, <1>2 DEF Answering

LEMMA WatchedWider ==
  ASSUME NEW R \in Misfortunes, NEW R2 \in Misfortunes, Grows(R, R2), NEW d, Watched(d, R)
  PROVE  Watched(d, R2)
<1>1. R2.resets = 0 => R.resets = 0
  BY GrowsIs
<1> QED
  BY <1>1 DEF Watched

LEMMA FlyingWider ==
  ASSUME NEW N, NEW S, NEW R, NEW N2, NEW S2, NEW R2, Later(N, S, R, N2, S2, R2),
         NEW d, NEW ms, NEW us, Flying(d, ms, us, N, S, R)
  PROVE  Flying(d, ms, us, N2, S2, R2)
<1>1. /\ Updates(N) \subseteq Updates(N2)
      /\ Containers(N, S, R) \subseteq Containers(N2, S2, R2)
  BY Wider
<1> QED
  BY <1>1 DEF Flying

(* u is neither on its way nor held. *)
IsNew(u, d, ms, us) == u \notin Held(d) \cup us /\ \A k \in ms : k.upd # u

LEMMA FlyMore ==
  ASSUME NEW N, NEW S, NEW R, NEW d, NEW ms, NEW us, Flying(d, ms, us, N, S, R),
         NEW m \in Containers(N, S, R), m.upd.cnt > 0 => IsNew(m.upd, d, ms, us)
  PROVE  Flying(d, ms \cup {m}, us, N, S, R)
<1>1. ASSUME NEW k \in ms \cup {m}, k.upd.cnt > 0
      PROVE  /\ k.upd \notin Held(d) \cup us
             /\ \A l \in ms \cup {m} : l.upd = k.upd => l = k
  <2>1. CASE k = m
    BY <2>1, <1>1 DEF IsNew
  <2>2. CASE k \in ms
    <3>1. k.upd \notin Held(d) \cup us /\ \A l \in ms : l.upd = k.upd => l = k
      BY <2>2, <1>1 DEF Flying
    <3>2. m.upd = k.upd => m = k
      BY <2>2, <1>1 DEF IsNew
    <3> QED
      BY <3>1, <3>2
  <2> QED
    BY <2>1, <2>2
<1> QED
  BY <1>1 DEF Flying

LEMMA AnswerMore ==
  ASSUME NEW N, NEW S, NEW R, NEW d, NEW ms, NEW us, Flying(d, ms, us, N, S, R),
         NEW u \in Updates(N), IsNew(u, d, ms, us)
  PROVE  Flying(d, ms, us \cup {u}, N, S, R)
  BY DEF Flying, IsNew

LEMMA HeldType ==
  ASSUME NEW N, NEW S, NEW R, NEW t, NEW d, Sound(d, t, N, S, R)
  PROVE  Held(d) \subseteq Updates(N) \cup Telling(N)
<1>1. /\ d.pending_updates \subseteq Updates(N) /\ d.postponed_pts_updates \subseteq Updates(N)
      /\ d.postponed_updates \in Seq(Containers(N, S, R))
  BY DEF Sound, Body, Accumulated, Once
<1>2. PICK A : A = Containers(N, S, R)
  OBVIOUS
<1>3. \A i \in 1..Len(d.postponed_updates) : d.postponed_updates[i] \in A
  BY <1>1, <1>2, ElementOfSeq
<1>4. \A i \in 1..Len(d.postponed_updates) : d.postponed_updates[i].upd \in Updates(N) \cup Telling(N)
  BY <1>2, <1>3, ContainerType
<1> QED
  BY <1>1, <1>4 DEF Held

LEMMA NextIsNew ==
  ASSUME NEW N \in 0..Len(Ends), N < Len(Ends), NEW S, NEW R, NEW t, NEW d, NEW ms, NEW us,
         Sound(d, t, N, S, R), Flying(d, ms, us, N, S, R), NEW u, u = Update(N + 1)
  PROVE  u \in Updates(N + 1) /\ u.cnt > 0 /\ IsNew(u, d, ms, us)
<1>1. Len(Ends) \in Nat
  BY UpdatesManagerAssumption
<1>2. N + 1 \in 1..Len(Ends) /\ N + 1 \in 0..Len(Ends) /\ N + 1 \in 1..N + 1
  BY <1>1
<1>3. u \in Updates(N + 1)
  BY <1>2 DEF Updates
<1>4. u.pts = PtsAt(N + 1) /\ u.cnt > 0
  BY <1>2, UpdateIs
<1>5. u \notin Updates(N)
  <2> SUFFICES ASSUME u \in Updates(N) PROVE FALSE
    OBVIOUS
  <2>1. PICK k \in 1..N : u = Update(k)
    BY DEF Updates
  <2>2. k \in 1..Len(Ends) /\ k \in 0..Len(Ends) /\ k # N + 1
    BY <1>1
  <2>3. u.pts = PtsAt(k)
    BY <2>1, <2>2, UpdateIs
  <2> QED
    BY <2>2, <2>3, <1>2, <1>4, PtsInjective
<1>6. u \notin Telling(N)
  <2>1. u \in Telling(N) => u.cnt = 0
    BY DEF Telling
  <2> QED
    BY <2>1, <1>4
<1>7. u \notin Held(d)
  BY <1>5, <1>6, HeldType
<1>8. u \notin us /\ \A k \in ms : k.upd # u
  BY <1>5, <1>6, ContainerType DEF Flying
<1> QED
  BY <1>3, <1>4, <1>7, <1>8 DEF IsNew

LEMMA Bounds ==
  ASSUME NEW S \in 0..MaxSeq
  PROVE  S \in Nat /\ MaxSeq \in Nat
  BY UpdatesManagerAssumption

(* A step of the server that leaves the client and the reply alone. *)
LEMMA ServerStep ==
  ASSUME NEW d, NEW r, NEW ms, NEW us, NEW N, NEW S, NEW k, NEW R, Holds(d, r, ms, us, N, S, k, R),
         NEW ms2, NEW us2, NEW N2, NEW S2 \in 0..MaxSeq, NEW k2 \in Nat, NEW R2 \in Misfortunes,
         Later(N, S, R, N2, S2, R2), Flying(d, ms2, us2, N2, S2, R2)
  PROVE  Holds(d, r, ms2, us2, N2, S2, k2, R2)
<1>1. PICK t \in 0..N : Sound(d, t, N, S, R) /\ Answering(d, r, t, N, S, R)
  BY DEF Holds
<1>2. Sound(d, t, N2, S2, R2)
  BY <1>1, SoundWider
<1>3. Answering(d, r, t, N2, S2, R2)
  BY <1>1, AnsweringWider
<1>4. Watched(d, R) /\ PostponedWatched(d)
  BY DEF Holds
<1>5. R \in Misfortunes /\ Grows(R, R2)
  BY DEF Later
<1>6. Watched(d, R2)
  BY <1>4, <1>5, WatchedWider
<1>7. N2 \in 0..Len(Ends) /\ t \in 0..N2
  BY UpdatesManagerAssumption DEF Later
<1> QED
  BY <1>2, <1>3, <1>4, <1>6, <1>7 DEF Holds

LEMMA AnsweringNone ==
  ASSUME NEW d, NEW t, NEW N, NEW S \in Nat, NEW R
  PROVE  Answering(d, NoReply, t, N, S, R)
<1>1. NoReply \in Replies(N, S) /\ NoReply.type = "none" /\ NoReply.reset = FALSE
  BY DEF NoReply, Replies
<1> QED
  BY <1>1 DEF Answering

LEMMA AnsweringSame ==
  ASSUME NEW d, NEW e, NEW r, NEW t, NEW N, NEW S, NEW R, Answering(d, r, t, N, S, R),
         KeepsAsking(d, e)
  PROVE  Answering(e, r, t, N, S, R)
  BY DEF Answering, KeepsAsking

(* no reply is on its way to a client that does not ask *)
LEMMA NoneUnasked ==
  ASSUME NEW d, NEW r, NEW t, NEW N, NEW S, NEW R, Answering(d, r, t, N, S, R), d.running = "no"
  PROVE  r = NoReply
  BY DEF Answering

LEMMA FlyingLess ==
  ASSUME NEW N \in 0..Len(Ends), NEW S, NEW R, NEW d, NEW e, NEW ms, NEW us,
         Flying(d, ms, us, N, S, R), Held(e) \subseteq Held(d)
  PROVE  Flying(e, ms, us, N, S, R)
  BY DEF Flying

LEMMA FlyingReceived ==
  ASSUME NEW N \in 0..Len(Ends), NEW S, NEW R, NEW d, NEW e, NEW ms, NEW us, NEW m \in ms,
         Flying(d, ms, us, N, S, R), Held(e) \subseteq Held(d) \cup {m.upd}
  PROVE  Flying(e, ms \ {m}, us, N, S, R) /\ Given(d, m.upd, N)
<1>1. m \in Containers(N, S, R) /\ us \subseteq Updates(N)
  BY DEF Flying
<1>2. m.upd \in Updates(N) \cup Telling(N)
  BY <1>1, ContainerType
<1>3. m.upd \notin us
  <2>1. ASSUME m.upd \in us PROVE m.upd.cnt > 0
    <3>1. m.upd \in Updates(N)
      BY <2>1, <1>1
    <3> QED
      BY <3>1, UpdatesType
  <2> QED
    BY <2>1 DEF Flying
<1>4. us \cap Held(e) = {}
  BY <1>3 DEF Flying
<1>5. ASSUME NEW k \in ms \ {m}, k.upd.cnt > 0
      PROVE  k.upd \notin Held(e) \cup us /\ \A l \in ms \ {m} : l.upd = k.upd => l = k
  <2>1. k.upd \notin Held(d) \cup us /\ \A l \in ms : l.upd = k.upd => l = k
    BY <1>5 DEF Flying
  <2>2. k.upd # m.upd
    BY <2>1, <1>5
  <2> QED
    BY <2>1, <2>2
<1>6. Given(d, m.upd, N)
  BY <1>2 DEF Given, Flying
<1> QED
  BY <1>4, <1>5, <1>6 DEF Flying

LEMMA FlyingAnswered ==
  ASSUME NEW N \in 0..Len(Ends), NEW S, NEW R, NEW d, NEW e, NEW ms, NEW us, NEW u \in us,
         Flying(d, ms, us, N, S, R), Held(e) \subseteq Held(d) \cup {u}
  PROVE  Flying(e, ms, us \ {u}, N, S, R) /\ Given(d, u, N) /\ u \in Updates(N)
<1>1. u \in Updates(N) /\ u \notin Held(d)
  BY DEF Flying
<1>2. (us \ {u}) \cap Held(e) = {}
  BY DEF Flying
<1>3. ASSUME NEW k \in ms, k.upd.cnt > 0
      PROVE  k.upd \notin Held(e) \cup (us \ {u}) /\ \A l \in ms : l.upd = k.upd => l = k
  <2>1. k.upd \notin Held(d) \cup us /\ \A l \in ms : l.upd = k.upd => l = k
    BY <1>3 DEF Flying
  <2> QED
    BY <2>1
<1> QED
  BY <1>1, <1>2, <1>3 DEF Flying, Given
-----------------------------------------------------------------------------
(* The steps of the client. *)

LEMMA AskingWatched ==
  ASSUME NEW d, NEW R, d.running # "no"
  PROVE  Watched(d, R) /\ PostponedWatched(d)
  BY DEF Watched, PostponedWatched

LEMMA StillPostponed ==
  ASSUME NEW d, NEW e, d.running = "no", PostponedWatched(d), StillToAsk(d, e),
         e.postponed_updates = d.postponed_updates,
         e.postponed_pts_updates = d.postponed_pts_updates
  PROVE  PostponedWatched(e)
  BY DEF PostponedWatched, StillToAsk

LEMMA ReceiveContainerHolds ==
  ASSUME NEW d, NEW r, NEW ms, NEW us, NEW N, NEW S, NEW k, NEW R, Holds(d, r, ms, us, N, S, k, R),
         NEW m \in ms, NEW e, e = OnPendingUpdates(d, m)
  PROVE  Holds(e, r, ms \ {m}, us, N, S, k, R)
<1>1. /\ N \in 0..Len(Ends) /\ S \in 0..MaxSeq /\ R \in Misfortunes /\ Flying(d, ms, us, N, S, R)
      /\ Watched(d, R) /\ PostponedWatched(d)
  BY DEF Holds
<1>2. S \in Nat
  BY <1>1, Bounds
<1>3. PICK t \in 0..N : Sound(d, t, N, S, R) /\ Answering(d, r, t, N, S, R)
  BY DEF Holds
<1>4. m \in Containers(N, S, R)
  BY <1>1 DEF Flying
<1>5. Held(d) \subseteq Held(d) \cup {m.upd}
  OBVIOUS
<1>6. Given(d, m.upd, N)
  BY <1>1, <1>5, FlyingReceived
<1>7. CASE d.running # "no"
  <2>1. e = Puts(d, m)
    BY <1>1, <1>2, <1>3, <1>7, OnPendingAsking
  <2>2. /\ Sound(e, t, N, S, R) /\ Held(e) \subseteq Held(d) \cup {m.upd}
        /\ e.running = d.running /\ e.asked = d.asked
        /\ e.pending_seq_updates = d.pending_seq_updates
    BY <2>1, <1>1, <1>2, <1>3, <1>4, <1>6, PostponeSound
  <2>3. KeepsAsking(d, e)
    BY <2>2 DEF KeepsAsking
  <2>4. Answering(e, r, t, N, S, R)
    BY <2>3, <1>3, AnsweringSame
  <2>5. Watched(e, R) /\ PostponedWatched(e)
    BY <2>2, <1>7, AskingWatched
  <2>6. Flying(e, ms \ {m}, us, N, S, R)
    BY <2>2, <1>1, FlyingReceived
  <2> QED
    BY <2>2, <2>4, <2>5, <2>6 DEF Holds
<1>8. CASE d.running = "no"
  <2>1. PICK u : u = m.upd
    OBVIOUS
  <2>2. Given(d, u, N)
    BY <2>1, <1>6
  <2>3. Received(d, e, u, t, N, S, R)
    BY <2>1, <2>2, <1>1, <1>2, <1>3, <1>4, <1>8, OnPendingSound
  <2>4. PICK t2 \in t..N : Sound(e, t2, N, S, R)
    BY <2>3 DEF Received
  <2>5. t2 \in 0..N
    BY <1>1, UpdatesManagerAssumption
  <2>6. r = NoReply
    BY <1>3, <1>8, NoneUnasked
  <2>7. Answering(e, r, t2, N, S, R)
    BY <2>6, <1>2, AnsweringNone
  <2>8. Watched(e, R) /\ Held(e) \subseteq Held(d) \cup {m.upd}
    BY <2>1, <2>3, <1>1 DEF Received
  <2>9. PostponedWatched(e)
    <3>1. CASE e.running # "no"
      BY <3>1, AskingWatched
    <3>2. CASE e.running = "no"
      <4>1. /\ e.postponed_updates = d.postponed_updates
            /\ e.postponed_pts_updates = d.postponed_pts_updates
            /\ StillToAsk(d, e)
        BY <3>2, <2>3 DEF Received
      <4> QED
        BY <4>1, <1>1, <1>8, StillPostponed
    <3> QED
      BY <3>1, <3>2
  <2>10. Flying(e, ms \ {m}, us, N, S, R)
    BY <2>8, <1>1, FlyingReceived
  <2> QED
    BY <2>4, <2>5, <2>7, <2>8, <2>9, <2>10 DEF Holds
<1> QED
  BY <1>7, <1>8

(* A short update while nothing is awaited. *)
LEMMA ReceiveShortHolds ==
  ASSUME NEW d, NEW r, NEW ms, NEW us, NEW N, NEW S, NEW k, NEW R, Holds(d, r, ms, us, N, S, k, R),
         NEW m \in ms, NEW e, d.running = "no", e = OnShortUpdate(d, m)
  PROVE  Holds(e, r, ms \ {m}, us, N, S, k, R)
<1>1. /\ N \in 0..Len(Ends) /\ S \in 0..MaxSeq /\ R \in Misfortunes /\ Flying(d, ms, us, N, S, R)
      /\ Watched(d, R) /\ PostponedWatched(d)
  BY DEF Holds
<1>2. S \in Nat
  BY <1>1, Bounds
<1>3. PICK t \in 0..N : Sound(d, t, N, S, R) /\ Answering(d, r, t, N, S, R)
  BY DEF Holds
<1>4. m \in Containers(N, S, R)
  BY <1>1 DEF Flying
<1>5. PICK u : u = m.upd
  OBVIOUS
<1>6. Given(d, u, N)
  <2>1. Held(d) \subseteq Held(d) \cup {m.upd}
    OBVIOUS
  <2> QED
    BY <2>1, <1>1, <1>5, FlyingReceived
<1>7. r = NoReply
  BY <1>3, NoneUnasked
<1>8. CASE m.other = "reset"
  <2>1. e = SetPts(d, MaxPts)
    BY <1>8 DEF OnShortUpdate
  <2>2. R.resets > 0
    BY <1>4, <1>8, ContainerType
  <2>3. Body(d, t, N, S, R)
    BY <1>3 DEF Sound
  <2>4. Sound(e, t, N, S, R) /\ Asks(d, e)
    BY <2>1, <2>2, <2>3, <1>1, <1>2, ResetSound
  <2>5. e.running # "no" /\ Held(e) \subseteq Held(d) \cup {m.upd}
    BY <2>4 DEF Asks
  <2>6. Watched(e, R) /\ PostponedWatched(e)
    BY <2>5, AskingWatched
  <2>7. Flying(e, ms \ {m}, us, N, S, R)
    BY <2>5, <1>1, FlyingReceived
  <2>8. Answering(e, r, t, N, S, R)
    BY <1>2, <1>7, AnsweringNone
  <2> QED
    BY <2>4, <2>6, <2>7, <2>8 DEF Holds
<1>9. CASE m.other # "reset"
  <2>1. Adds(d, u, e)
    BY <1>5, <1>9 DEF Adds, OnShortUpdate
  <2>2. PICK t2 \in t..N : Sound(e, t2, N, S, R) /\ Grown(d, e, u)
    BY <2>1, <1>1, <1>2, <1>3, <1>6, AddPendingSound
  <2>3. t2 \in 0..N
    BY <1>1, UpdatesManagerAssumption
  <2>4. Answering(e, r, t2, N, S, R)
    BY <1>2, <1>7, AnsweringNone
  <2>5. Watched(e, R)
    BY <2>2, <1>1, GrownWatched
  <2>6. /\ e.postponed_updates = d.postponed_updates
        /\ e.postponed_pts_updates = d.postponed_pts_updates
        /\ StillToAsk(d, e) /\ Held(e) \subseteq Held(d) \cup {m.upd}
    BY <2>2, <1>5 DEF Grown, SameSeq
  <2>7. PostponedWatched(e)
    BY <2>6, <1>1, StillPostponed
  <2>8. Flying(e, ms \ {m}, us, N, S, R)
    BY <2>6, <1>1, FlyingReceived
  <2> QED
    BY <2>2, <2>3, <2>4, <2>5, <2>7, <2>8 DEF Holds
<1> QED
  BY <1>8, <1>9

LEMMA ReceiveAnswerHolds ==
  ASSUME NEW d, NEW r, NEW ms, NEW us, NEW N, NEW S, NEW k, NEW R, Holds(d, r, ms, us, N, S, k, R),
         NEW u \in us, NEW e, AddsAnswer(d, u, e)
  PROVE  Holds(e, r, ms, us \ {u}, N, S, k, R)
<1>1. /\ N \in 0..Len(Ends) /\ S \in 0..MaxSeq /\ R \in Misfortunes /\ Flying(d, ms, us, N, S, R)
      /\ Watched(d, R) /\ PostponedWatched(d)
  BY DEF Holds
<1>2. S \in Nat
  BY <1>1, Bounds
<1>3. PICK t \in 0..N : Sound(d, t, N, S, R) /\ Answering(d, r, t, N, S, R)
  BY DEF Holds
<1>4. Held(d) \subseteq Held(d) \cup {u}
  OBVIOUS
<1>5. Given(d, u, N) /\ u \in Updates(N)
  BY <1>1, <1>4, FlyingAnswered
<1>6. CASE d.running # "no"
  <2>1. /\ Sound(e, t, N, S, R)
        /\ e.running = d.running /\ e.asked = d.asked /\ SameSeq(d, e)
        /\ Held(e) \subseteq Held(d) \cup {u}
    BY <1>1, <1>2, <1>3, <1>5, <1>6, AddAnswerSound
  <2>2. KeepsAsking(d, e)
    BY <2>1 DEF KeepsAsking, SameSeq
  <2>3. Answering(e, r, t, N, S, R)
    BY <2>2, <1>3, AnsweringSame
  <2>4. Watched(e, R) /\ PostponedWatched(e)
    BY <2>1, <1>6, AskingWatched
  <2>5. Flying(e, ms, us \ {u}, N, S, R)
    BY <2>1, <1>1, FlyingAnswered
  <2> QED
    BY <2>1, <2>3, <2>4, <2>5 DEF Holds
<1>7. CASE d.running = "no"
  <2>1. Adds(d, u, e)
    BY DEF Adds, AddsAnswer
  <2>2. PICK t2 \in t..N : Sound(e, t2, N, S, R) /\ Grown(d, e, u)
    BY <2>1, <1>1, <1>2, <1>3, <1>5, <1>7, AddPendingSound
  <2>3. t2 \in 0..N
    BY <1>1, UpdatesManagerAssumption
  <2>4. r = NoReply
    BY <1>3, <1>7, NoneUnasked
  <2>5. Answering(e, r, t2, N, S, R)
    BY <2>4, <1>2, AnsweringNone
  <2>6. Watched(e, R)
    BY <2>2, <1>1, GrownWatched
  <2>7. /\ e.postponed_updates = d.postponed_updates
        /\ e.postponed_pts_updates = d.postponed_pts_updates
        /\ StillToAsk(d, e) /\ Held(e) \subseteq Held(d) \cup {u}
    BY <2>2 DEF Grown, SameSeq
  <2>8. PostponedWatched(e)
    BY <2>7, <1>1, <1>7, StillPostponed
  <2>9. Flying(e, ms, us \ {u}, N, S, R)
    BY <2>7, <1>1, FlyingAnswered
  <2> QED
    BY <2>2, <2>3, <2>5, <2>6, <2>8, <2>9 DEF Holds
<1> QED
  BY <1>6, <1>7

LEMMA ResumedHolds ==
  ASSUME NEW d, NEW r, NEW ms, NEW us, NEW N, NEW S, NEW k, NEW R, Holds(d, r, ms, us, N, S, k, R),
         NEW t \in 0..N, NEW e, Resumed(d, e, t, N, S, R)
  PROVE  Holds(e, NoReply, ms, us, N, S, k, R)
<1>1. N \in 0..Len(Ends) /\ S \in 0..MaxSeq /\ Flying(d, ms, us, N, S, R)
  BY DEF Holds
<1>2. PICK t2 \in t..N : Sound(e, t2, N, S, R)
  BY DEF Resumed
<1>3. t2 \in 0..N
  BY <1>1, UpdatesManagerAssumption
<1>4. Answering(e, NoReply, t2, N, S, R)
  BY <1>1, Bounds, AnsweringNone
<1>5. Flying(e, ms, us, N, S, R)
  BY <1>1, FlyingLess DEF Resumed
<1> QED
  BY <1>2, <1>3, <1>4, <1>5 DEF Holds, Resumed

LEMMA ReceiveReplyHolds ==
  ASSUME NEW d, NEW r, NEW ms, NEW us, NEW N, N = n, NEW S, NEW k, NEW R,
         Holds(d, r, ms, us, N, S, k, R), r # NoReply, NEW e,
         e = IF d.running = "difference" THEN OnGetDifference(d, r)
             ELSE IF r.type = "failed" THEN ScheduleGetDifference(Idle(d))
             ELSE OnGetUpdatesState(d, r)
  PROVE  Holds(e, NoReply, ms, us, N, S, k, R)
<1>1. N \in 0..Len(Ends) /\ S \in 0..MaxSeq /\ R \in Misfortunes
  BY DEF Holds
<1>2. S \in Nat
  BY <1>1, Bounds
<1>3. PICK t \in 0..N : Sound(d, t, N, S, R) /\ Answering(d, r, t, N, S, R)
  BY DEF Holds
<1>4. r.type # "none" /\ d.running # "no"
  BY <1>3 DEF Answering
<1>5. Resumed(d, e, t, N, S, R)
  <2>1. CASE d.running = "difference"
    BY <2>1, <1>1, <1>2, <1>3, <1>4, DifferenceSound
  <2>2. CASE d.running # "difference" /\ r.type = "failed"
    <3>1. PICK f : f = Idle(d)
      OBVIOUS
    <3>2. e = ScheduleGetDifference(f)
      BY <3>1, <2>2
    <3>3. Sound(f, t, N, S, R) /\ Held(f) = Held(d)
      BY <3>1, <1>1, <1>2, <1>3, <1>4, IdleSound
    <3>4. Sound(e, t, N, S, R) /\ Held(e) = Held(f) /\ Watched(e, R) /\ PostponedWatched(e)
      BY <3>2, <3>3, <1>1, <1>2, ScheduleSound
    <3>5. t \in t..N
      BY <1>1, UpdatesManagerAssumption
    <3> QED
      BY <3>3, <3>4, <3>5 DEF Resumed
  <2>3. CASE d.running # "difference" /\ r.type # "failed"
    <3>1. d.running = "state"
      BY <2>3, <1>3, <1>4 DEF Sound, Body, Alone
    <3>2. r.type = "state"
      BY <2>3, <1>3, <1>4 DEF Answering, Replies
    <3>3. PtsAt(t) <= r.pts /\ r.pts \in Reached(N) /\ r.seq \in 0..S /\ Covers(d, r.seq)
      BY <3>2, <1>3 DEF Answering, Replies, Covers
    <3>4. PICK t2 \in 0..N : r.pts = PtsAt(t2)
      BY <3>3 DEF Reached
    <3>5. t \in 0..Len(Ends) /\ t2 \in 0..Len(Ends)
      BY <1>1, UpdatesManagerAssumption
    <3>6. t <= t2
      BY <3>3, <3>4, <3>5, PtsInjective
    <3>7. t2 \in t..N
      BY <3>6, <1>1, UpdatesManagerAssumption
    <3>8. e = OnGetUpdatesState(d, r)
      BY <2>3
    <3> QED
      BY <3>1, <3>3, <3>4, <3>7, <3>8, <1>1, <1>2, <1>3, StateReplySound
  <2> QED
    BY <2>1, <2>2, <2>3
<1> QED
  BY <1>5, ResumedHolds

LEMMA AskHolds ==
  ASSUME NEW d, NEW r, NEW ms, NEW us, NEW N, NEW S, NEW k, NEW R, Holds(d, r, ms, us, N, S, k, R),
         NEW k2 \in Nat, NEW e, e = GetDifference(d)
  PROVE  Holds(e, r, ms, us, N, S, k2, R)
<1>1. N \in 0..Len(Ends) /\ S \in 0..MaxSeq /\ R \in Misfortunes /\ Flying(d, ms, us, N, S, R)
  BY DEF Holds
<1>2. S \in Nat
  BY <1>1, Bounds
<1>3. PICK t \in 0..N : Sound(d, t, N, S, R) /\ Answering(d, r, t, N, S, R)
  BY DEF Holds
<1>4. Sound(e, t, N, S, R) /\ Asks(d, e)
  BY <1>1, <1>2, <1>3, GetDifferenceSound
<1>5. e.running # "no" /\ Held(e) = Held(d)
  BY <1>4 DEF Asks
<1>6. Answering(e, r, t, N, S, R)
  <2>1. CASE d.running = "no"
    BY <2>1, <1>2, <1>3, NoneUnasked, AnsweringNone
  <2>2. CASE d.running # "no"
    BY <2>2, <1>3, AskingAlready
  <2> QED
    BY <2>1, <2>2
<1>7. Watched(e, R) /\ PostponedWatched(e)
  BY <1>5, AskingWatched
<1>8. Flying(e, ms, us, N, S, R)
  BY <1>1, <1>5, FlyingLess
<1> QED
  BY <1>1, <1>4, <1>6, <1>7, <1>8 DEF Holds

LEMMA FireHolds ==
  ASSUME NEW d, NEW r, NEW ms, NEW us, NEW N, NEW S, NEW k, NEW R, Holds(d, r, ms, us, N, S, k, R),
         NEW x, NEW name, NEW e, Fires(d, x, name), e = GetDifference(x)
  PROVE  Holds(e, r, ms, us, N, S, k, R)
<1>1. N \in 0..Len(Ends) /\ S \in 0..MaxSeq /\ R \in Misfortunes /\ Flying(d, ms, us, N, S, R)
  BY DEF Holds
<1>2. S \in Nat
  BY <1>1, Bounds
<1>3. PICK t \in 0..N : Sound(d, t, N, S, R) /\ Answering(d, r, t, N, S, R)
  BY DEF Holds
<1>4. /\ Sound(e, t, N, S, R) /\ Held(e) = Held(d) /\ e.running # "no"
      /\ d.running # "no" => KeepsAsking(d, e)
  BY <1>1, <1>2, <1>3, FireSound
<1>5. Answering(e, r, t, N, S, R)
  <2>1. CASE d.running = "no"
    BY <2>1, <1>2, <1>3, NoneUnasked, AnsweringNone
  <2>2. CASE d.running # "no"
    BY <2>2, <1>3, <1>4, AnsweringSame
  <2> QED
    BY <2>1, <2>2
<1>6. Watched(e, R) /\ PostponedWatched(e)
  BY <1>4, AskingWatched
<1>7. Flying(e, ms, us, N, S, R)
  BY <1>1, <1>4, FlyingLess
<1> QED
  BY <1>4, <1>5, <1>6, <1>7 DEF Holds

LEMMA AckHolds ==
  ASSUME NEW d, NEW r, NEW ms, NEW us, NEW N, NEW S, NEW k, NEW R, Holds(d, r, ms, us, N, S, k, R),
         NEW e, d.acks # <<>>, e = Acked(d)
  PROVE  Holds(e, r, ms, us, N, S, k, R)
<1>1. /\ N \in 0..Len(Ends) /\ S \in 0..MaxSeq /\ R \in Misfortunes /\ Flying(d, ms, us, N, S, R)
      /\ Watched(d, R) /\ PostponedWatched(d)
  BY DEF Holds
<1>2. S \in Nat
  BY <1>1, Bounds
<1>3. PICK t \in 0..N : Sound(d, t, N, S, R) /\ Answering(d, r, t, N, S, R)
  BY DEF Holds
<1>4. /\ Sound(e, t, N, S, R) /\ Held(e) = Held(d) /\ KeepsAsking(d, e)
      /\ (Watched(d, R) => Watched(e, R)) /\ (PostponedWatched(d) => PostponedWatched(e))
  BY <1>1, <1>2, <1>3, AckSound
<1>5. Answering(e, r, t, N, S, R)
  BY <1>3, <1>4, AnsweringSame
<1>6. Flying(e, ms, us, N, S, R)
  BY <1>1, <1>4, FlyingLess
<1> QED
  BY <1>1, <1>4, <1>5, <1>6 DEF Holds

LEMMA RestartHolds ==
  ASSUME NEW d, NEW r, NEW ms, NEW us, NEW N, NEW S, NEW k, NEW R, Holds(d, r, ms, us, N, S, k, R),
         NEW k2 \in Nat, NEW x, NEW e, Restarts(d, x), e = GetDifference(x)
  PROVE  Holds(e, NoReply, ms, {}, N, S, k2, R)
<1>1. N \in 0..Len(Ends) /\ S \in 0..MaxSeq /\ R \in Misfortunes /\ Flying(d, ms, us, N, S, R)
  BY DEF Holds
<1>2. S \in Nat
  BY <1>1, Bounds
<1>3. PICK t \in 0..N : Sound(d, t, N, S, R)
  BY DEF Holds
<1>4. PICK t2 \in 0..N : Sound(e, t2, N, S, R) /\ Held(e) = {} /\ e.running # "no"
  BY <1>1, <1>2, <1>3, RestartSound
<1>5. Answering(e, NoReply, t2, N, S, R)
  BY <1>2, AnsweringNone
<1>6. Watched(e, R) /\ PostponedWatched(e)
  BY <1>4, AskingWatched
<1>7. Flying(e, ms, {}, N, S, R)
  BY <1>1, <1>4 DEF Flying
<1> QED
  BY <1>1, <1>4, <1>5, <1>6, <1>7 DEF Holds
-----------------------------------------------------------------------------
(* Replies. *)

(* the reply of type ty that the server makes, with the position p *)
Replied(r, ty, p, S, b) == r = [type |-> ty, pts |-> p, seq |-> S, reset |-> b]

(* a reply that fits what the client asks *)
Fitting(d, ty, p, N) ==
  \/ ty = "failed" /\ p = 0 /\ d.running # "no"
  \/ ty = "state" /\ d.running = "state" /\ p = PtsAt(N)
  \/ ty = "invalid" /\ p = 0 /\ d.running = "difference" /\ d.asked > PtsAt(N)
  \/ ty = "empty" /\ p = 0 /\ d.running = "difference" /\ d.asked = PtsAt(N)
  \/ /\ ty \in {"full", "slice", "tooLong"}
     /\ p \in Reached(N) /\ d.running = "difference" /\ d.asked < p

LEMMA ReplyHolds ==
  ASSUME NEW d, NEW r, NEW ms, NEW us, NEW N, NEW S, NEW k, NEW R, Holds(d, r, ms, us, N, S, k, R),
         NEW k2 \in Nat, NEW R2 \in Misfortunes, Grows(R, R2), NEW ty, NEW p, NEW b \in BOOLEAN,
         b => R2.resets > 0, ty = "tooLong" => R2.tooLongs > 0,
         Fitting(d, ty, p, N), NEW r2, Replied(r2, ty, p, S, b)
  PROVE  Holds(d, r2, ms, us, N, S, k2, R2)
<1>1. /\ N \in 0..Len(Ends) /\ S \in 0..MaxSeq /\ R \in Misfortunes /\ Flying(d, ms, us, N, S, R)
      /\ Watched(d, R) /\ PostponedWatched(d)
  BY DEF Holds
<1>2. S \in Nat /\ N \in 0..N /\ N \in N..Len(Ends)
  BY <1>1, Bounds, UpdatesManagerAssumption
<1>3. Later(N, S, R, N, S, R2)
  BY <1>1, <1>2 DEF Later
<1>4. PICK t \in 0..N : Sound(d, t, N, S, R)
  BY DEF Holds
<1>5. Sound(d, t, N, S, R2)
  BY <1>3, <1>4, SoundWider
<1>6. PtsAt(t) <= PtsAt(N) /\ PtsAt(N) \in Reached(N) /\ PtsAt(N) \in Nat /\ PtsAt(N) < MaxPts
  <2>1. t \in 0..Len(Ends) /\ t <= N
    BY <1>1, UpdatesManagerAssumption
  <2>2. PtsAt(N) \in Reached(N)
    BY <1>2 DEF Reached
  <2> QED
    BY <2>1, <2>2, <1>1, PtsInjective, PtsType
<1>7. /\ r2.type = ty /\ r2.pts = p /\ r2.seq = S /\ r2.reset = b
      /\ r2 \in [type : {ty}, pts : {p}, seq : {S}, reset : BOOLEAN]
  BY DEF Replied
<1>8. \A m \in d.pending_seq_updates : m.seq <= S
  <2>1. \A m \in d.pending_seq_updates : m.seq \in 0..S
    BY <1>4, ContainerType DEF Sound, Body, Sequenced
  <2> QED
    BY <2>1, <1>2
<1>9. d.running = "difference" => d.asked \in {MaxPts} \cup Reached(N)
  BY <1>4 DEF Sound, Body, Positioned
<1>10. ASSUME NEW q \in Reached(N) PROVE Known(q) /\ q \in Nat /\ q <= PtsAt(N) /\ q < MaxPts
  <2>1. PICK j \in 0..N : q = PtsAt(j)
    BY DEF Reached
  <2>2. j \in 0..Len(Ends) /\ j <= N
    BY <1>1, UpdatesManagerAssumption
  <2>3. q <= PtsAt(N)
    BY <2>1, <2>2, <1>1, PtsInjective
  <2> QED
    BY <2>3, <1>1, ReachedType
<1>11. d.running = "difference" /\ d.asked > PtsAt(N) => d.asked = MaxPts
  <2>1. ASSUME d.asked \in Reached(N) PROVE ~(d.asked > PtsAt(N))
    BY <2>1, <1>6, <1>10
  <2> QED
    BY <2>1, <1>9
<1>12. ASSUME NEW q \in Reached(N), d.running = "difference", d.asked < q PROVE Known(d.asked)
  <2>1. MaxPts \in Nat /\ q \in Nat /\ q < MaxPts
    BY <1>10, UpdatesManagerAssumption
  <2>2. d.asked # MaxPts
    BY <2>1, <1>12
  <2> QED
    BY <2>2, <1>9, <1>10, <1>12
<1>13. Answering(d, r2, t, N, S, R2)
  <2>0. r2 \in Replies(N, S)
    <3>1. ty \in {"none", "state", "empty", "full", "slice", "tooLong", "invalid", "failed"}
      BY DEF Fitting
    <3>2. p \in {0} \cup Reached(N)
      BY <1>6 DEF Fitting
    <3> QED
      BY <3>1, <3>2, <1>2, <1>7 DEF Replies
  <2>1. CASE ty = "failed"
    BY <2>0, <2>1, <1>7 DEF Answering, Fitting
  <2>2. CASE ty = "state"
    BY <2>0, <2>2, <1>6, <1>7, <1>8 DEF Answering, Fitting
  <2>3. CASE ty = "invalid"
    BY <2>0, <2>3, <1>7, <1>11 DEF Answering, Fitting
  <2>4. CASE ty = "empty"
    <3>1. d.running = "difference" /\ Known(d.asked)
      BY <2>4, <1>6, <1>10 DEF Fitting
    <3> QED
      BY <2>0, <2>4, <3>1, <1>7, <1>8 DEF Answering
  <2>5. CASE ty \in {"full", "slice", "tooLong"}
    <3>1. d.running = "difference" /\ Known(d.asked) /\ d.asked < p /\ p \in Reached(N)
      BY <2>5, <1>12 DEF Fitting
    <3> QED
      BY <2>0, <2>5, <3>1, <1>7, <1>8 DEF Answering
  <2> QED
    BY <2>1, <2>2, <2>3, <2>4, <2>5 DEF Fitting
<1>14. Watched(d, R2)
  BY <1>1, WatchedWider
<1>15. Flying(d, ms, us, N, S, R2)
  BY <1>1, <1>3, FlyingWider
<1> QED
  BY <1>1, <1>5, <1>13, <1>14, <1>15 DEF Holds
-----------------------------------------------------------------------------
(* One lemma per action: it preserves what is regular. *)

LEMMA TroubleType ==
  ASSUME troubles \in Nat, odd \in Misfortunes, NEW k \in Nat, NEW r \in Nat, Trouble(k, r)
  PROVE  troubles' \in Nat /\ odd' \in Misfortunes /\ Grows(odd, odd') /\ (r > 0 => odd'.resets > 0)
<1>1. troubles' = troubles + k /\ odd' = [odd EXCEPT !.resets = @ + r]
  BY DEF Trouble
<1>2. odd.resets \in Nat /\ odd.tooLongs \in Nat /\ odd.shorts \in Nat
  BY DEF Misfortunes
<1>3. odd'.resets = odd.resets + r /\ odd'.tooLongs = odd.tooLongs /\ odd'.shorts = odd.shorts
  BY <1>1 DEF Misfortunes
<1>4. odd' \in Misfortunes
  BY <1>1, <1>2 DEF Misfortunes
<1> QED
  BY <1>1, <1>2, <1>3, <1>4 DEF Grows

LEMMA SameGrows ==
  ASSUME odd \in Misfortunes, odd' = odd
  PROVE  odd' \in Misfortunes /\ Grows(odd, odd')
  BY DEF Misfortunes, Grows

(* differenceTooLong *)
LEMMA TooLongType ==
  ASSUME odd \in Misfortunes, odd' = [odd EXCEPT !.tooLongs = @ + 1]
  PROVE  /\ odd' \in Misfortunes /\ Grows(odd, odd') /\ odd'.tooLongs > 0
         /\ odd'.shorts = odd.shorts
<1>1. odd.resets \in Nat /\ odd.tooLongs \in Nat /\ odd.shorts \in Nat
  BY DEF Misfortunes
<1>2. /\ odd'.resets = odd.resets /\ odd'.tooLongs = odd.tooLongs + 1
      /\ odd'.shorts = odd.shorts
  BY DEF Misfortunes
<1>3. odd' \in Misfortunes
  BY <1>1 DEF Misfortunes
<1> QED
  BY <1>1, <1>2, <1>3 DEF Grows

LEMMA TroubleWithType ==
  ASSUME troubles \in Nat, odd \in Misfortunes, NEW other, NEW sort, TroubleWith(other, sort)
  PROVE  troubles' \in Nat /\ odd' \in Misfortunes /\ Grows(odd, odd') /\ (other = "reset" => odd'.resets > 0)
<1>1. PICK r : r = IF other = "reset" THEN 1 ELSE 0
  OBVIOUS
<1>2. PICK k : k = r + (IF sort = "good" THEN 0 ELSE 1)
  OBVIOUS
<1>3. Trouble(k, r)
  BY <1>1, <1>2 DEF TroubleWith
<1>4. r \in Nat /\ k \in Nat /\ (other = "reset" => r > 0)
  BY <1>1, <1>2
<1> QED
  BY <1>3, <1>4, TroubleType

LEMMA TypeOfInv ==
  ASSUME Regular
  PROVE  /\ n \in 0..Len(Ends) /\ n \in Nat /\ Len(Ends) \in Nat
         /\ s \in 0..MaxSeq /\ s \in Nat /\ MaxSeq \in Nat /\ troubles \in Nat /\ odd \in Misfortunes
         /\ Flying(c, net, answers, n, s, odd)
         /\ \E t \in 0..n : Sound(c, t, n, s, odd)
  BY UpdatesManagerAssumption DEF Regular, Holds

LEMMA ContainerIs ==
  ASSUME NEW N, NEW S, NEW R, NEW q \in 0..S, NEW u \in Updates(N) \cup Telling(N),
         NEW other \in {"none", "plain", "reset"}, NEW sort \in AllSorts, other = "reset" => R.resets > 0,
         NEW m, m = Container(q, u, other, sort)
  PROVE  m \in Containers(N, S, R) /\ m.upd = u
<1>1. m = [seq |-> q, upd |-> u, other |-> other, sort |-> sort]
  BY DEF Container
<1> QED
  BY <1>1 DEF Containers

Fit(q, u, other, sort, N, S, R) ==
  /\ q \in 0..S /\ u \in Updates(N) \cup Telling(N)
  /\ other \in {"none", "plain", "reset"} /\ sort \in AllSorts
  /\ other = "reset" => R.resets > 0

LEMMA ContainerFits ==
  ASSUME NEW N, NEW S, NEW R, NEW q, NEW u, NEW other, NEW sort, NEW m,
         Fit(q, u, other, sort, N, S, R), m = Container(q, u, other, sort)
  PROVE  m \in Containers(N, S, R) /\ m.upd = u
  BY ContainerIs DEF Fit

LEMMA TellingIs ==
  ASSUME NEW N \in Nat, NEW u, u = NoUpdate \/ u = [pts |-> PtsAt(N), cnt |-> 0]
  PROVE  u \in Telling(N) /\ u.cnt = 0
<1>1. PtsAt(N) \in Reached(N)
  BY DEF Reached
<1> QED
  BY <1>1 DEF NoUpdate, Telling

LEMMA NewUpdateInv ==
  ASSUME Regular, NewUpdate
  PROVE  Regular'
<1>1. /\ n \in 0..Len(Ends) /\ n \in Nat /\ Len(Ends) \in Nat
      /\ s \in 0..MaxSeq /\ s \in Nat /\ troubles \in Nat /\ odd \in Misfortunes
      /\ Flying(c, net, answers, n, s, odd)
      /\ \E t \in 0..n : Sound(c, t, n, s, odd)
  BY TypeOfInv
<1>2. n < Len(Ends) /\ n' = n + 1 /\ UNCHANGED <<c, s, reply>>
  BY DEF NewUpdate
<1>3. PICK u : u = Update(n + 1)
  OBVIOUS
<1>4. u \in Updates(n + 1) /\ u.cnt > 0 /\ IsNew(u, c, net, answers)
  BY <1>1, <1>2, <1>3, NextIsNew
<1>5. SUFFICES Holds(c, reply, net', answers', n + 1, s, troubles', odd')
  BY <1>2 DEF Regular
<1>6. SUFFICES /\ troubles' \in Nat /\ odd' \in Misfortunes /\ Grows(odd, odd')
               /\ (Later(n, s, odd, n + 1, s, odd') =>
                     Flying(c, net', answers', n + 1, s, odd'))
  <2>1. Holds(c, reply, net, answers, n, s, troubles, odd)
    BY DEF Regular
  <2>2. odd' \in Misfortunes /\ Grows(odd, odd') => Later(n, s, odd, n + 1, s, odd')
    BY <1>1, <1>2 DEF Later
  <2> QED
    BY <2>1, <2>2, <1>1, <1>6, ServerStep
<1>7. CASE UNCHANGED <<net, answers, tvars>>
  <2>1. troubles' = troubles /\ odd' = odd /\ net' = net /\ answers' = answers
    BY <1>7 DEF tvars
  <2>2. Later(n, s, odd, n + 1, s, odd') => Flying(c, net', answers', n + 1, s, odd')
    BY <2>1, <1>1, FlyingWider
  <2>3. odd' \in Misfortunes /\ Grows(odd, odd')
    BY <2>1, <1>1, SameGrows
  <2> QED
    BY <2>1, <2>2, <2>3, <1>1
<1>8. CASE answers' = answers \cup {Update(n + 1)} /\ UNCHANGED <<net, tvars>>
  <2>1. troubles' = troubles /\ odd' = odd /\ net' = net /\ answers' = answers \cup {u}
    BY <1>3, <1>8 DEF tvars
  <2>2. ASSUME Later(n, s, odd, n + 1, s, odd') PROVE Flying(c, net', answers', n + 1, s, odd')
    <3>1. Flying(c, net, answers, n + 1, s, odd')
      BY <2>2, <1>1, FlyingWider
    <3>2. Flying(c, net, answers \cup {u}, n + 1, s, odd')
      BY <3>1, <1>4, AnswerMore
    <3> QED
      BY <3>2, <2>1
  <2>3. odd' \in Misfortunes /\ Grows(odd, odd')
    BY <2>1, <1>1, SameGrows
  <2> QED
    BY <2>1, <2>2, <2>3, <1>1
<1>9. ASSUME NEW sort \in AllSorts, TroubleWith("none", sort),
             net' = net \cup {Container(0, Update(n + 1), "none", sort)}, answers' = answers
      PROVE  /\ troubles' \in Nat /\ odd' \in Misfortunes /\ Grows(odd, odd')
             /\ (Later(n, s, odd, n + 1, s, odd') =>
                   Flying(c, net', answers', n + 1, s, odd'))
  <2>1. troubles' \in Nat /\ odd' \in Misfortunes /\ Grows(odd, odd')
    BY <1>1, <1>9, TroubleWithType
  <2>2. PICK m : m = Container(0, u, "none", sort)
    OBVIOUS
  <2>3. 0 \in 0..s /\ u \in Updates(n + 1) \cup Telling(n + 1)
    BY <1>1, <1>4
  <2>4. m \in Containers(n + 1, s, odd') /\ m.upd = u
    BY <2>2, <2>3, <1>9, ContainerIs
  <2>5. ASSUME Later(n, s, odd, n + 1, s, odd') PROVE Flying(c, net', answers', n + 1, s, odd')
    <3>1. Flying(c, net, answers, n + 1, s, odd')
      BY <2>5, <1>1, FlyingWider
    <3>2. Flying(c, net \cup {m}, answers, n + 1, s, odd')
      BY <3>1, <2>4, <1>4, FlyMore
    <3> QED
      BY <3>2, <2>2, <1>3, <1>9
  <2> QED
    BY <2>1, <2>5
<1> QED
  BY <1>7, <1>8, <1>9 DEF NewUpdate

(* A container that brings no update. *)
LEMMA ToldInv ==
  ASSUME Regular, NEW m, m \in Containers(n, s, odd'), m.upd.cnt = 0,
         troubles' \in Nat, odd' \in Misfortunes, Grows(odd, odd'),
         net' = net \cup {m}, UNCHANGED <<c, n, s, answers, reply>>
  PROVE  Regular'
<1>1. /\ n \in 0..Len(Ends) /\ n \in Nat /\ Len(Ends) \in Nat
      /\ s \in 0..MaxSeq /\ s \in Nat /\ troubles \in Nat /\ odd \in Misfortunes
      /\ Flying(c, net, answers, n, s, odd)
  BY TypeOfInv
<1>2. Later(n, s, odd, n, s, odd')
  BY <1>1 DEF Later
<1>3. Flying(c, net, answers, n, s, odd')
  BY <1>1, <1>2, FlyingWider
<1>4. ~(m.upd.cnt > 0)
  OBVIOUS
<1>5. Flying(c, net \cup {m}, answers, n, s, odd')
  BY <1>3, <1>4, FlyMore
<1>6. Holds(c, reply, net, answers, n, s, troubles, odd)
  BY DEF Regular
<1>7. Holds(c, reply, net \cup {m}, answers, n, s, troubles', odd')
  BY <1>1, <1>2, <1>5, <1>6, ServerStep
<1> QED
  BY <1>7 DEF Regular

LEMMA HintInv ==
  ASSUME Regular, Hint
  PROVE  Regular'
<1>1. n \in Nat /\ s \in Nat /\ troubles \in Nat /\ odd \in Misfortunes
  BY TypeOfInv
<1>2. Trouble(1, 0) /\ UNCHANGED <<c, n, s, answers, reply>>
  BY DEF Hint
<1>10. PICK sort \in {"good", "short"} :
         net' = net \cup {Container(0, [pts |-> PtsAt(n), cnt |-> 0], "none", sort)}
  BY DEF Hint
<1>3. troubles' \in Nat /\ odd' \in Misfortunes /\ Grows(odd, odd')
  BY <1>1, <1>2, TroubleType
<1>4. PICK u : u = [pts |-> PtsAt(n), cnt |-> 0]
  OBVIOUS
<1>5. PICK m : m = Container(0, u, "none", sort)
  OBVIOUS
<1>6. u \in Telling(n) /\ u.cnt = 0
  BY <1>1, <1>4, TellingIs
<1>7. 0 \in 0..s /\ u \in Updates(n) \cup Telling(n)
  BY <1>1, <1>6
<1>8. m \in Containers(n, s, odd') /\ m.upd = u
  <2>1. Fit(0, u, "none", sort, n, s, odd')
    BY <1>7, <1>10 DEF Fit, AllSorts, Sorts
  <2> QED
    BY <2>1, <1>5, ContainerFits
<1>9. net' = net \cup {m} /\ m.upd.cnt = 0
  BY <1>4, <1>5, <1>6, <1>8, <1>10
<1> QED
  BY <1>2, <1>3, <1>8, <1>9, ToldInv

LEMMA ResetInv ==
  ASSUME Regular, Reset
  PROVE  Regular'
<1>1. n \in Nat /\ s \in Nat /\ troubles \in Nat /\ odd \in Misfortunes
  BY TypeOfInv
<1>2. Trouble(1, 1) /\ UNCHANGED <<c, n, s, answers, reply>>
  BY DEF Reset
<1>10. PICK sort \in {"good", "short"} :
         net' = net \cup {Container(0, NoUpdate, "reset", sort)}
  BY DEF Reset
<1>3. troubles' \in Nat /\ odd' \in Misfortunes /\ Grows(odd, odd') /\ odd'.resets > 0
  BY <1>1, <1>2, TroubleType
<1>4. PICK u : u = NoUpdate
  OBVIOUS
<1>5. PICK m : m = Container(0, u, "reset", sort)
  OBVIOUS
<1>6. u \in Telling(n) /\ u.cnt = 0
  BY <1>1, <1>4, TellingIs
<1>7. 0 \in 0..s /\ u \in Updates(n) \cup Telling(n)
  BY <1>1, <1>6
<1>8. m \in Containers(n, s, odd') /\ m.upd = u
  <2>1. Fit(0, u, "reset", sort, n, s, odd')
    BY <1>3, <1>7, <1>10 DEF Fit, AllSorts, Sorts
  <2> QED
    BY <2>1, <1>5, ContainerFits
<1>9. net' = net \cup {m} /\ m.upd.cnt = 0
  BY <1>4, <1>5, <1>6, <1>8, <1>10
<1> QED
  BY <1>2, <1>3, <1>8, <1>9, ToldInv

LEMMA NewContainerInv ==
  ASSUME Regular, NewContainer
  PROVE  Regular'
<1>1. /\ n \in 0..Len(Ends) /\ n \in Nat /\ Len(Ends) \in Nat
      /\ s \in 0..MaxSeq /\ s \in Nat /\ MaxSeq \in Nat /\ troubles \in Nat /\ odd \in Misfortunes
      /\ Flying(c, net, answers, n, s, odd)
      /\ \E t \in 0..n : Sound(c, t, n, s, odd)
  BY TypeOfInv
<1>2. s < MaxSeq /\ s' = s + 1 /\ UNCHANGED <<c, answers, reply>>
  BY DEF NewContainer
<1>3. PICK k \in {n, n + 1}, other \in {"plain", "reset"}, sort \in Sorts :
        /\ k <= Len(Ends) /\ n' = k /\ TroubleWith(other, sort)
        /\ \/ net' = net \cup {Container(s + 1, IF k = n THEN NoUpdate ELSE Update(k), other, sort)}
           \/ net' = net
  BY DEF NewContainer
<1>4. troubles' \in Nat /\ odd' \in Misfortunes /\ Grows(odd, odd') /\ (other = "reset" => odd'.resets > 0)
  BY <1>1, <1>3, TroubleWithType
<1>5. s + 1 \in 0..MaxSeq /\ s + 1 \in 0..s + 1 /\ k \in 0..Len(Ends) /\ k \in Nat
  BY <1>1, <1>2, <1>3
<1>6. Later(n, s, odd, k, s + 1, odd')
  BY <1>1, <1>3, <1>4, <1>5 DEF Later
<1>7. Flying(c, net, answers, k, s + 1, odd')
  BY <1>1, <1>6, FlyingWider
<1>8. Holds(c, reply, net, answers, n, s, troubles, odd)
  BY DEF Regular
<1>9. SUFFICES Flying(c, net', answers, k, s + 1, odd')
  <2>1. Holds(c, reply, net', answers, k, s + 1, troubles', odd')
    BY <1>4, <1>5, <1>6, <1>8, <1>9, ServerStep
  <2> QED
    BY <2>1, <1>2, <1>3 DEF Regular
<1>10. PICK u : u = IF k = n THEN NoUpdate ELSE Update(k)
  OBVIOUS
<1>11. PICK m : m = Container(s + 1, u, other, sort)
  OBVIOUS
<1>12. u \in Updates(k) \cup Telling(k) /\ (u.cnt > 0 => IsNew(u, c, net, answers))
  <2>1. CASE k = n
    <3>1. u = NoUpdate
      BY <2>1, <1>10
    <3>2. u \in Telling(k) /\ u.cnt = 0
      BY <3>1, <1>5, TellingIs
    <3> QED
      BY <3>2
  <2>2. CASE k # n
    <3>1. k = n + 1 /\ n < Len(Ends)
      BY <2>2, <1>1, <1>3
    <3>2. u = Update(n + 1)
      BY <2>2, <3>1, <1>10
    <3>3. u \in Updates(n + 1) /\ IsNew(u, c, net, answers)
      BY <3>1, <3>2, <1>1, NextIsNew
    <3> QED
      BY <3>1, <3>3
  <2> QED
    BY <2>1, <2>2
<1>13. m \in Containers(k, s + 1, odd') /\ m.upd = u
  <2>1. Fit(s + 1, u, other, sort, k, s + 1, odd')
    BY <1>3, <1>4, <1>5, <1>12 DEF Fit, AllSorts
  <2> QED
    BY <2>1, <1>11, ContainerFits
<1>14. Flying(c, net \cup {m}, answers, k, s + 1, odd')
  BY <1>7, <1>12, <1>13, FlyMore
<1>15. net' = net \cup {m} \/ net' = net
  BY <1>3, <1>10, <1>11
<1> QED
  BY <1>7, <1>14, <1>15

(* A reply of the server that fits. *)
LEMMA RepliedInv ==
  ASSUME Regular, NEW ty, NEW p, NEW b \in BOOLEAN, Fitting(c, ty, p, n), Reply(ty, p, b),
         troubles' \in Nat, odd' \in Misfortunes, Grows(odd, odd'), b => odd'.resets > 0,
         ty = "tooLong" => odd'.tooLongs > 0,
         UNCHANGED <<c, n, s, net, answers>>
  PROVE  Regular'
<1>1. Holds(c, reply, net, answers, n, s, troubles, odd)
  BY DEF Regular
<1>2. Replied(reply', ty, p, s, b)
  BY DEF Reply, Replied
<1>3. Holds(c, reply', net, answers, n, s, troubles', odd')
  BY <1>1, <1>2, ReplyHolds
<1> QED
  BY <1>3 DEF Regular

LEMMA AnswerInv ==
  ASSUME Regular, Answer
  PROVE  Regular'
<1>1. n \in 0..Len(Ends) /\ n \in Nat /\ troubles \in Nat /\ odd \in Misfortunes
  BY TypeOfInv
<1>2. UNCHANGED <<c, n, s, net, answers>> /\ UNCHANGED tvars
  BY DEF Answer
<1>3. troubles' \in Nat /\ odd' \in Misfortunes /\ Grows(odd, odd')
  BY <1>1, <1>2, SameGrows DEF tvars
<1>4. PtsAt(n) \in Reached(n)
  BY <1>1 DEF Reached
<1>5. CASE c.running = "state" /\ Reply("state", PtsAt(n), FALSE)
  <2>1. Fitting(c, "state", PtsAt(n), n)
    BY <1>5 DEF Fitting
  <2> QED
    BY <2>1, <1>2, <1>3, <1>5, RepliedInv
<1>6. CASE c.running = "difference" /\ c.asked > PtsAt(n) /\ Reply("invalid", 0, FALSE)
  <2>1. Fitting(c, "invalid", 0, n)
    BY <1>6 DEF Fitting
  <2> QED
    BY <2>1, <1>2, <1>3, <1>6, RepliedInv
<1>7. CASE c.running = "difference" /\ c.asked = PtsAt(n) /\ Reply("empty", 0, FALSE)
  <2>1. Fitting(c, "empty", 0, n)
    BY <1>7 DEF Fitting
  <2> QED
    BY <2>1, <1>2, <1>3, <1>7, RepliedInv
<1>8. CASE c.running = "difference" /\ c.asked < PtsAt(n) /\ Reply("full", PtsAt(n), FALSE)
  <2>1. Fitting(c, "full", PtsAt(n), n)
    BY <1>4, <1>8 DEF Fitting
  <2> QED
    BY <2>1, <1>2, <1>3, <1>8, RepliedInv
<1>9. ASSUME NEW k \in 1 .. n - 1, c.running = "difference", c.asked < Ends[k],
             Reply("slice", Ends[k], FALSE)
      PROVE  Regular'
  <2>1. Ends[k] = PtsAt(k) /\ k \in 0..n
    BY <1>1, <1>9 DEF PtsAt
  <2>2. Ends[k] \in Reached(n)
    BY <2>1 DEF Reached
  <2>3. Fitting(c, "slice", Ends[k], n)
    BY <2>2, <1>9 DEF Fitting
  <2> QED
    BY <2>3, <1>2, <1>3, <1>9, RepliedInv
<1> QED
  BY <1>5, <1>6, <1>7, <1>8, <1>9 DEF Answer

LEMMA OddAnswerInv ==
  ASSUME Regular, OddAnswer
  PROVE  Regular'
<1>1. n \in 0..Len(Ends) /\ n \in Nat /\ troubles \in Nat /\ odd \in Misfortunes
  BY TypeOfInv
<1>2. UNCHANGED <<c, n, s, net, answers>> /\ c.running # "no"
  BY DEF OddAnswer
<1>3. PtsAt(n) \in Reached(n)
  BY <1>1 DEF Reached
<1>4. Trouble(1, 0) => troubles' \in Nat /\ odd' \in Misfortunes /\ Grows(odd, odd')
  BY <1>1, TroubleType
<1>5. CASE Trouble(1, 0) /\ Reply("failed", 0, FALSE)
  <2>1. Fitting(c, "failed", 0, n)
    BY <1>2 DEF Fitting
  <2> QED
    BY <2>1, <1>2, <1>4, <1>5, RepliedInv
<1>6. CASE /\ c.running = "difference" /\ c.asked < PtsAt(n)
           /\ troubles' = troubles + 1 /\ odd' = [odd EXCEPT !.tooLongs = @ + 1]
           /\ Reply("tooLong", PtsAt(n), FALSE)
  <2>1. Fitting(c, "tooLong", PtsAt(n), n)
    BY <1>3, <1>6 DEF Fitting
  <2>2. troubles' \in Nat /\ odd' \in Misfortunes /\ Grows(odd, odd') /\ odd'.tooLongs > 0
    BY <1>1, <1>6, TooLongType
  <2> QED
    BY <2>1, <2>2, <1>2, <1>6, RepliedInv
<1>7. CASE /\ c.running = "difference" /\ c.asked < PtsAt(n)
           /\ Trouble(1, 1) /\ Reply("full", PtsAt(n), TRUE)
  <2>1. troubles' \in Nat /\ odd' \in Misfortunes /\ Grows(odd, odd') /\ odd'.resets > 0
    BY <1>1, <1>7, TroubleType
  <2>2. Fitting(c, "full", PtsAt(n), n)
    BY <1>3, <1>7 DEF Fitting
  <2> QED
    BY <2>1, <2>2, <1>2, <1>7, RepliedInv
<1> QED
  BY <1>5, <1>6, <1>7 DEF OddAnswer

LEMMA ReceivePendingInv ==
  ASSUME Regular, NEW m \in net, ReceiveContainer(m), m.sort # "short"
  PROVE  Regular'
<1>1. Holds(c, reply, net, answers, n, s, troubles, odd)
  BY DEF Regular
<1>2. PICK e : e = OnPendingUpdates(c, m)
  OBVIOUS
<1>3. Holds(e, reply, net \ {m}, answers, n, s, troubles, odd)
  BY <1>1, <1>2, ReceiveContainerHolds
<1>4. c' = e /\ net' = net \ {m} /\ UNCHANGED <<n, s, answers, reply, troubles, odd>>
  BY <1>2 DEF ReceiveContainer, tvars
<1> QED
  BY <1>3, <1>4 DEF Regular

LEMMA ReceiveShortInv ==
  ASSUME Regular, NEW m \in net, ReceiveContainer(m), m.sort = "short", c.running = "no"
  PROVE  Regular'
<1>1. Holds(c, reply, net, answers, n, s, troubles, odd)
  BY DEF Regular
<1>2. PICK e : e = OnShortUpdate(c, m)
  OBVIOUS
<1>3. Holds(e, reply, net \ {m}, answers, n, s, troubles, odd)
  BY <1>1, <1>2, ReceiveShortHolds
<1>4. c' = e /\ net' = net \ {m} /\ UNCHANGED <<n, s, answers, reply, troubles, odd>>
  BY <1>2 DEF ReceiveContainer
<1> QED
  BY <1>3, <1>4 DEF Regular

(* An early short update is counted. *)
LEMMA EarlyShort ==
  ASSUME odd \in Misfortunes, NEW m, ReceiveContainer(m), m.sort = "short", c.running # "no"
  PROVE  odd' \in Misfortunes /\ odd'.shorts > 0
<1>1. odd' = [odd EXCEPT !.shorts = @ + 1]
  BY DEF ReceiveContainer
<1> QED
  BY <1>1 DEF Misfortunes

LEMMA ReceiveContainerInv ==
  ASSUME Regular, odd \in Misfortunes, NEW m \in net, ReceiveContainer(m), NoEarlyShort'
  PROVE  Regular'
<1>1. CASE m.sort # "short"
  BY <1>1, ReceivePendingInv
<1>2. CASE m.sort = "short" /\ c.running = "no"
  BY <1>2, ReceiveShortInv
<1>3. CASE m.sort = "short" /\ c.running # "no"
  <2>1. odd'.shorts > 0 /\ odd'.shorts = 0
    BY <1>3, EarlyShort DEF NoEarlyShort
  <2> QED
    BY <2>1
<1> QED
  BY <1>1, <1>2, <1>3

LEMMA ReceiveAnswerInv ==
  ASSUME Regular, NEW u \in answers, ReceiveAnswer(u)
  PROVE  Regular'
<1>1. Holds(c, reply, net, answers, n, s, troubles, odd)
  BY DEF Regular
<1>2. PICK e : AddsAnswer(c, u, e)
  BY DEF AddsAnswer
<1>3. Holds(e, reply, net, answers \ {u}, n, s, troubles, odd)
  BY <1>1, <1>2, ReceiveAnswerHolds
<1>4. c' = e /\ answers' = answers \ {u} /\ UNCHANGED <<n, s, net, reply, troubles, odd>>
  BY <1>2 DEF ReceiveAnswer, AddsAnswer, tvars
<1> QED
  BY <1>3, <1>4 DEF Regular

LEMMA ReceiveReplyInv ==
  ASSUME Regular, ReceiveReply
  PROVE  Regular'
<1>1. Holds(c, reply, net, answers, n, s, troubles, odd)
  BY DEF Regular
<1>2. PICK e : e = IF c.running = "difference" THEN OnGetDifference(c, reply)
                   ELSE IF reply.type = "failed" THEN ScheduleGetDifference(Idle(c))
                   ELSE OnGetUpdatesState(c, reply)
  OBVIOUS
<1>3. reply # NoReply
  BY DEF ReceiveReply
<1>4. Holds(e, NoReply, net, answers, n, s, troubles, odd)
  BY <1>1, <1>2, <1>3, ReceiveReplyHolds
<1>5. c' = e /\ reply' = NoReply /\ UNCHANGED <<n, s, net, answers, troubles, odd>>
  BY <1>2 DEF ReceiveReply, Idle, tvars
<1> QED
  BY <1>4, <1>5 DEF Regular

LEMMA PlainTrouble ==
  ASSUME troubles \in Nat, odd \in Misfortunes, Trouble(1, 0)
  PROVE  troubles' \in Nat /\ odd' = odd
<1>1. troubles' = troubles + 1 /\ odd' = [odd EXCEPT !.resets = @ + 0]
  BY DEF Trouble
<1> QED
  BY <1>1 DEF Misfortunes

LEMMA AskDifferenceInv ==
  ASSUME Regular, AskDifference
  PROVE  Regular'
<1>1. Holds(c, reply, net, answers, n, s, troubles, odd) /\ troubles \in Nat /\ odd \in Misfortunes
  BY TypeOfInv DEF Regular
<1>2. troubles' \in Nat /\ odd' = odd
  BY <1>1, PlainTrouble DEF AskDifference
<1>3. PICK e : e = GetDifference(c)
  OBVIOUS
<1>4. Holds(e, reply, net, answers, n, s, troubles', odd)
  BY <1>1, <1>2, <1>3, AskHolds
<1>5. c' = e /\ UNCHANGED <<n, s, net, answers, reply>>
  BY <1>3 DEF AskDifference
<1> QED
  BY <1>2, <1>4, <1>5 DEF Regular

LEMMA TimeoutsInv ==
  ASSUME Regular, Timeouts
  PROVE  Regular'
<1>1. Holds(c, reply, net, answers, n, s, troubles, odd)
  BY DEF Regular
<1>2. PICK name \in {"pts_gap_timeout", "seq_gap_timeout", "retry_timeout"} : Timeout(name)
  BY DEF Timeouts
<1>3. PICK x : x = [c EXCEPT ![name] = FALSE]
  OBVIOUS
<1>4. PICK e : e = GetDifference(x)
  OBVIOUS
<1>5. Fires(c, x, name)
  BY <1>3 DEF Fires
<1>6. Holds(e, reply, net, answers, n, s, troubles, odd)
  BY <1>1, <1>4, <1>5, FireHolds
<1>7. c' = e /\ UNCHANGED <<n, s, net, answers, reply, troubles, odd>>
  BY <1>2, <1>3, <1>4 DEF Timeout, tvars
<1> QED
  BY <1>6, <1>7 DEF Regular

LEMMA OnPtsAckInv ==
  ASSUME Regular, OnPtsAck
  PROVE  Regular'
<1>1. Holds(c, reply, net, answers, n, s, troubles, odd)
  BY DEF Regular
<1>2. PICK e : e = Acked(c)
  OBVIOUS
<1>3. c.acks # <<>>
  BY DEF OnPtsAck
<1>4. Holds(e, reply, net, answers, n, s, troubles, odd)
  BY <1>1, <1>2, <1>3, AckHolds
<1>5. c' = e /\ UNCHANGED <<n, s, net, answers, reply, troubles, odd>>
  BY <1>2 DEF OnPtsAck, Acked, tvars
<1> QED
  BY <1>4, <1>5 DEF Regular

LEMMA RestartInv ==
  ASSUME Regular, Restart
  PROVE  Regular'
<1>1. Holds(c, reply, net, answers, n, s, troubles, odd) /\ troubles \in Nat /\ odd \in Misfortunes
  BY TypeOfInv DEF Regular
<1>2. troubles' \in Nat /\ odd' = odd
  BY <1>1, PlainTrouble DEF Restart
<1>3. PICK x : x = Fresh(c.stored)
  OBVIOUS
<1>4. PICK e : e = GetDifference(x)
  OBVIOUS
<1>5. Restarts(c, x)
  BY <1>3, FreshIs
<1>6. Holds(e, NoReply, net, {}, n, s, troubles', odd)
  BY <1>1, <1>2, <1>4, <1>5, RestartHolds
<1>7. c' = e /\ answers' = {} /\ reply' = NoReply /\ UNCHANGED <<n, s, net>>
  BY <1>3, <1>4 DEF Restart
<1> QED
  BY <1>2, <1>6, <1>7 DEF Regular

(* The client starts with nothing saved. *)
LEMMA InitInv ==
  ASSUME Init
  PROVE  IInv
<1>1. PICK x : x = Fresh(NoPts)
  OBVIOUS
<1>2. PICK e : e = GetDifference(x)
  OBVIOUS
<1>3. x.stored = NoPts
  BY <1>1 DEF Fresh
<1>4. x = Fresh(x.stored)
  BY <1>1, <1>3
<1>5. Restarts(x, x)
  BY <1>3, <1>4, FreshIs
<1>6. Ends \in Seq(Nat) /\ Len(Ends) \in Nat /\ MaxSeq \in Nat
  BY UpdatesManagerAssumption, LenProperties
<1>7. 0 \in 0..Len(Ends) /\ 0 \in 0..MaxSeq /\ 0 \in 0..0 /\ 0 \in Nat
  BY <1>6
<1>8. PICK R : R = [resets |-> 0, tooLongs |-> 0, shorts |-> 0]
  OBVIOUS
<1>9. R \in Misfortunes
  BY <1>8 DEF Misfortunes
<1>10. Sound(e, 0, 0, 0, R) /\ Held(e) = {} /\ e.running # "no"
  BY <1>2, <1>3, <1>5, <1>7, <1>9, AnewSound
<1>11. Answering(e, NoReply, 0, 0, 0, R)
  BY <1>7, AnsweringNone
<1>12. Watched(e, R) /\ PostponedWatched(e)
  BY <1>10, AskingWatched
<1>13. Flying(e, {}, {}, 0, 0, R)
  BY DEF Flying
<1>14. Holds(e, NoReply, {}, {}, 0, 0, 0, R)
  BY <1>7, <1>9, <1>10, <1>11, <1>12, <1>13 DEF Holds
<1>15. /\ c = e /\ reply = NoReply /\ net = {} /\ answers = {} /\ n = 0 /\ s = 0
       /\ troubles = 0 /\ odd = R
  BY <1>1, <1>2, <1>8 DEF Init
<1> QED
  BY <1>9, <1>14, <1>15 DEF IInv, Regular

(* What is counted never becomes less. *)
LEMMA OddGrows ==
  ASSUME odd \in Misfortunes, [Next]_vars
  PROVE  odd' \in Misfortunes /\ (NoEarlyShort' => NoEarlyShort)
<1>1. ASSUME NEW k, NEW r \in Nat, Trouble(k, r)
      PROVE  odd' \in Misfortunes /\ odd'.shorts = odd.shorts
  <2>1. odd' = [odd EXCEPT !.resets = @ + r]
    BY <1>1 DEF Trouble
  <2> QED
    BY <2>1 DEF Misfortunes
<1>2. ASSUME NEW other, NEW sort, TroubleWith(other, sort)
      PROVE  odd' \in Misfortunes /\ odd'.shorts = odd.shorts
  <2>1. PICK r : r = IF other = "reset" THEN 1 ELSE 0
    OBVIOUS
  <2>2. PICK k : k = r + (IF sort = "good" THEN 0 ELSE 1)
    OBVIOUS
  <2>3. Trouble(k, r) /\ r \in Nat
    BY <2>1, <2>2, <1>2 DEF TroubleWith
  <2> QED
    BY <2>3, <1>1
<1>3. CASE odd' = odd
  BY <1>3 DEF NoEarlyShort
<1>4. CASE odd' \in Misfortunes /\ odd'.shorts = odd.shorts
  BY <1>4 DEF NoEarlyShort
<1>5. CASE odd' = [odd EXCEPT !.shorts = @ + 1]
  <2>1. odd' \in Misfortunes /\ odd'.shorts > 0
    BY <1>5 DEF Misfortunes
  <2> QED
    BY <2>1 DEF NoEarlyShort
<1>6. CASE UNCHANGED vars
  BY <1>3, <1>6 DEF vars, tvars
<1>7. CASE NewUpdate
  BY <1>2, <1>3, <1>4, <1>7 DEF NewUpdate, tvars
<1>8. CASE Hint
  BY <1>1, <1>4, <1>8 DEF Hint
<1>9. CASE NewContainer
  BY <1>2, <1>4, <1>9 DEF NewContainer
<1>10. CASE Reset
  BY <1>1, <1>4, <1>10 DEF Reset
<1>11. CASE Answer
  BY <1>3, <1>11 DEF Answer, tvars
<1>12. CASE OddAnswer
  <2>1. CASE Trouble(1, 0) \/ Trouble(1, 1)
    BY <2>1, <1>1, <1>4
  <2>2. CASE odd' = [odd EXCEPT !.tooLongs = @ + 1]
    BY <2>2, <1>4, TooLongType
  <2> QED
    BY <2>1, <2>2, <1>12 DEF OddAnswer
<1>13. CASE \E m \in net : ReceiveContainer(m)
  BY <1>3, <1>5, <1>13 DEF ReceiveContainer
<1>14. CASE \E u \in answers : ReceiveAnswer(u)
  BY <1>3, <1>14 DEF ReceiveAnswer, tvars
<1>15. CASE ReceiveReply
  BY <1>3, <1>15 DEF ReceiveReply, tvars
<1>16. CASE AskDifference
  BY <1>1, <1>4, <1>16 DEF AskDifference
<1>17. CASE Timeouts
  BY <1>3, <1>17 DEF Timeouts, Timeout, tvars
<1>18. CASE OnPtsAck
  BY <1>3, <1>18 DEF OnPtsAck, tvars
<1>19. CASE Restart
  BY <1>1, <1>4, <1>19 DEF Restart
<1> QED
  BY <1>6, <1>7, <1>8, <1>9, <1>10, <1>11, <1>12, <1>13, <1>14, <1>15, <1>16, <1>17, <1>18, <1>19
  DEF Next

LEMMA NextInv ==
  ASSUME IInv, [Next]_vars
  PROVE  IInv'
<1>15. odd \in Misfortunes /\ odd' \in Misfortunes /\ (NoEarlyShort' => NoEarlyShort)
  BY OddGrows DEF IInv
<1> SUFFICES ASSUME NoEarlyShort' PROVE Regular'
  BY <1>15 DEF IInv
<1>16. Regular
  BY <1>15 DEF IInv
<1>1. CASE UNCHANGED vars
  BY <1>1, <1>16 DEF vars, tvars, Regular
<1>2. CASE NewUpdate
  BY <1>2, <1>16, NewUpdateInv
<1>3. CASE Hint
  BY <1>3, <1>16, HintInv
<1>4. CASE NewContainer
  BY <1>4, <1>16, NewContainerInv
<1>5. CASE Reset
  BY <1>5, <1>16, ResetInv
<1>6. CASE Answer
  BY <1>6, <1>16, AnswerInv
<1>7. CASE OddAnswer
  BY <1>7, <1>16, OddAnswerInv
<1>8. CASE \E m \in net : ReceiveContainer(m)
  BY <1>8, <1>15, <1>16, ReceiveContainerInv
<1>9. CASE \E u \in answers : ReceiveAnswer(u)
  BY <1>9, <1>16, ReceiveAnswerInv
<1>10. CASE ReceiveReply
  BY <1>10, <1>16, ReceiveReplyInv
<1>11. CASE AskDifference
  BY <1>11, <1>16, AskDifferenceInv
<1>12. CASE Timeouts
  BY <1>12, <1>16, TimeoutsInv
<1>13. CASE OnPtsAck
  BY <1>13, <1>16, OnPtsAckInv
<1>14. CASE Restart
  BY <1>14, <1>16, RestartInv
<1> QED
  BY <1>1, <1>2, <1>3, <1>4, <1>5, <1>6, <1>7, <1>8, <1>9, <1>10, <1>11, <1>12, <1>13, <1>14
  DEF Next

LEMMA Inductive == Spec => []IInv
<1>1. Init => IInv
  BY InitInv
<1>2. IInv /\ [Next]_vars => IInv'
  BY NextInv
<1> QED
  BY <1>1, <1>2, PTL DEF Spec
-----------------------------------------------------------------------------
(* What the invariant says. *)

LEMMA ReachedRange ==
  ASSUME NEW N \in 0..Len(Ends)
  PROVE  /\ Reached(N) \subseteq {FirstPts} \cup Range(Ends)
         /\ Updates(N) \subseteq PtsUpdates
<1>1. Len(Ends) \in Nat /\ DOMAIN Ends = 1..Len(Ends)
  BY UpdatesManagerAssumption, LenProperties
<1>2. ASSUME NEW k \in 0..N PROVE PtsAt(k) \in {FirstPts} \cup Range(Ends)
  <2>1. k = 0 \/ k \in DOMAIN Ends
    BY <1>1
  <2> QED
    BY <2>1 DEF PtsAt, Range
<1>3. 1..N \subseteq DOMAIN Ends
  BY <1>1
<1> QED
  BY <1>2, <1>3 DEF Reached, Updates, PtsUpdates

LEMMA InvType ==
  ASSUME Regular
  PROVE  TypeOK
<1>1. PICK t \in 0..n : Sound(c, t, n, s, odd) /\ Answering(c, reply, t, n, s, odd)
  BY DEF Regular, Holds
<1>2. n \in 0..Len(Ends) /\ s \in Nat
  BY TypeOfInv
<1>3. PICK A : A = {FirstPts} \cup Range(Ends)
  OBVIOUS
<1>4. Reached(n) \subseteq A /\ Updates(n) \subseteq PtsUpdates
  BY <1>2, <1>3, ReachedRange
<1>5. c.pts \in {NoPts, MaxPts} \cup A /\ c.stored \in {NoPts} \cup A
  BY <1>1, <1>4 DEF Sound, Body, Positioned
<1>6. Range(c.acks) \subseteq {MaxPts} \cup A
  <2>1. PICK B : B = {MaxPts} \cup Reached(n)
    OBVIOUS
  <2>2. c.acks \in Seq(B)
    BY <2>1, <1>1 DEF Sound, Body, Positioned
  <2>3. \A i \in DOMAIN c.acks : c.acks[i] \in B
    BY <2>2, ElementOfSeq, LenProperties
  <2> QED
    BY <2>1, <2>3, <1>4 DEF Range
<1>7. c.pending_updates \subseteq PtsUpdates /\ c.postponed_pts_updates \subseteq PtsUpdates
  BY <1>1, <1>4 DEF Sound, Body, Accumulated, Once
<1>8. c.accumulated_pts \in {-1} \cup A
  BY <1>1, <1>4 DEF Sound, Body, Accumulated
<1>9. c.accumulated_pts_count \in Nat
  <2>1. c.pending_updates \subseteq Updates(n)
    BY <1>1 DEF Sound, Body, Accumulated
  <2>2. c.accumulated_pts_count = Cardinality(Cover(c.pending_updates))
    BY <1>1 DEF Sound, Body, Accumulated
  <2>3. IsFiniteSet(Cover(c.pending_updates))
    BY <2>1, <1>2, CoverFinite
  <2> QED
    BY <2>2, <2>3, FS_CardinalityType
<1>10. c.running \in {"no", "state", "difference"}
  BY <1>1 DEF Sound, Body, Alone
<1>11. c.seq \in 0..s /\ \A m \in c.pending_seq_updates : m.seq \in 1..s
  <2>1. c.seq \in 0..s
    BY <1>1 DEF Sound, Body, Sequenced
  <2>2. \A m \in c.pending_seq_updates : m.seq \in 0..s /\ m.seq > 0
    BY <1>1, ContainerType DEF Sound, Body, Sequenced
  <2> QED
    BY <2>1, <2>2, <1>2
<1>12. reply # NoReply => c.running # "no"
  BY <1>1 DEF Answering
<1> QED
  BY <1>3, <1>5, <1>6, <1>7, <1>8, <1>9, <1>10, <1>11, <1>12 DEF TypeOK

LEMMA InvApplied ==
  ASSUME Regular
  PROVE  PtsIsApplied
<1> SUFFICES ASSUME Known(c.pts)
             PROVE  /\ c.passed = Between(c.base, c.pts) /\ c.stored <= c.pts
                    /\ c.skipped # {} => odd.resets > 0 \/ odd.tooLongs > 0
  BY DEF PtsIsApplied
<1>1. PICK t \in 0..n : Sound(c, t, n, s, odd)
  BY TypeOfInv
<1>2. c.pts = PtsAt(t) /\ Timeline(c, t)
  BY <1>1 DEF Sound, Body
<1>3. PICK b \in 0..t : c.base = PtsAt(b) /\ c.passed = SubSeq(Ends, b + 1, t)
  BY <1>2 DEF Timeline
<1>4. n \in 0..Len(Ends) /\ Len(Ends) \in Nat
  BY TypeOfInv
<1>5. b \in 0..Len(Ends) /\ t \in 0..Len(Ends)
  BY <1>4
<1>6. Between(PtsAt(b), PtsAt(t)) = SubSeq(Ends, b + 1, t)
  BY <1>5, BetweenIs
<1>7. c.skipped # {} => odd.resets > 0 \/ odd.tooLongs > 0
  BY <1>1 DEF Sound, Body, Positioned, Excused
<1> QED
  BY <1>2, <1>3, <1>6, <1>7 DEF Timeline

LEMMA InvAlone ==
  ASSUME Regular
  PROVE  DifferenceAlone
<1>1. PICK t \in 0..n : Sound(c, t, n, s, odd)
  BY TypeOfInv
<1>2. Alone(c)
  BY <1>1 DEF Sound, Body
<1> QED
  BY <1>2 DEF Alone, NotFatal, DifferenceAlone

LEMMA InvWatched ==
  ASSUME Regular
  PROVE  GapIsWatched
<1>1. PICK t \in 0..n : Sound(c, t, n, s, odd)
  BY TypeOfInv
<1>2. Accumulated(c, n)
  BY <1>1 DEF Sound, Body
<1>3. n \in 0..Len(Ends) /\ Len(Ends) \in Nat
  BY TypeOfInv
<1>4. c.pending_updates # {} => c.accumulated_pts # -1
  <2> SUFFICES ASSUME NEW u \in c.pending_updates PROVE c.accumulated_pts # -1
    OBVIOUS
  <2>1. u \in Updates(n) /\ u.pts <= c.accumulated_pts
    BY <1>2 DEF Accumulated
  <2>2. PICK k \in 1..n : u = Update(k)
    BY <2>1 DEF Updates
  <2>3. k \in 1..Len(Ends)
    BY <1>3
  <2>4. u.pts = PtsAt(k) /\ PtsAt(k) \in Nat
    BY <2>2, <2>3, <1>3, UpdateIs, PtsType
  <2> QED
    BY <2>1, <2>4
<1>5. c.accumulated_pts # -1 => c.pts_gap_timeout
  BY <1>2 DEF Accumulated
<1>6. Watched(c, odd) /\ PostponedWatched(c)
  BY DEF Regular, Holds
<1> QED
  BY <1>4, <1>5, <1>6 DEF GapIsWatched, Watched, PostponedWatched

LEMMA InvSeq ==
  ASSUME Regular
  PROVE  SeqInOrder
<1>1. PICK t \in 0..n : Sound(c, t, n, s, odd)
  BY TypeOfInv
<1> QED
  BY <1>1 DEF Sound, Body, Sequenced, SeqInOrder

(* Types, as long as no short update has come early: what the client keeps *)
(* are positions, updates and containers that the server has made, and a   *)
(* reply is on its way only to a client that waits for one.                *)
THEOREM TypeCorrect == Spec => [](NoEarlyShort => TypeOK)
<1>1. IInv => (NoEarlyShort => TypeOK)
  BY InvType DEF IInv
<1> QED
  BY <1>1, Inductive, PTL

(* No update is skipped or applied twice while the process runs            *)
(* (add_pending_update, on_get_difference, set_pts): at every known pts    *)
(* the client has passed exactly the updates up to it since the position   *)
(* it started from, in order, for every sequence of updates, in whatever   *)
(* order they come and however many are lost; without a reset of the pts   *)
(* and differenceTooLong it has given all of them to their handlers; and   *)
(* what it saved is not ahead of that.  The server has its part in it: no  *)
(* pts in an updateShort while an answer is awaited.                       *)
THEOREM AppliedOnce == Spec => []PtsIsApplied
<1>1. IInv => PtsIsApplied
  <2>1. CASE NoEarlyShort
    BY <2>1, InvApplied DEF IInv
  <2>2. CASE ~NoEarlyShort
    BY <2>2 DEF PtsIsApplied
  <2> QED
    BY <2>1, <2>2
<1> QED
  BY <1>1, Inductive, PTL

(* The CHECKs of add_pending_update do not fail if the server sends no pts *)
(* in an updateShort while an answer is awaited: no update is pending and  *)
(* no pts accumulated while a difference is awaited, and meanwhile only    *)
(* query results reach it, whatever else comes.                            *)
THEOREM ChecksHold == Spec => []DifferenceAlone
<1>1. IInv => DifferenceAlone
  <2>1. CASE NoEarlyShort
    BY <2>1, InvAlone DEF IInv
  <2>2. CASE ~NoEarlyShort
    BY <2>2 DEF DifferenceAlone
  <2> QED
    BY <2>1, <2>2
<1> QED
  BY <1>1, Inductive, PTL

(* No gap is forgotten, again if the server sends no pts and no            *)
(* updatePtsChanged in an updateShort while an answer is awaited: updates  *)
(* that wait for others, postponed updates, an unknown pts and, without a  *)
(* reset of the pts, containers that wait for others have a timeout set or *)
(* a query under way (fill_gap, after_get_difference,                      *)
(* set_get_difference_timeout).                                            *)
THEOREM GapsAreWatched == Spec => []GapIsWatched
<1>1. IInv => GapIsWatched
  <2>1. CASE NoEarlyShort
    BY <2>1, InvWatched DEF IInv
  <2>2. CASE ~NoEarlyShort
    BY <2>2 DEF GapIsWatched
  <2> QED
    BY <2>1, <2>2
<1> QED
  BY <1>1, Inductive, PTL

(* Containers are processed in the order of their seq without a hole       *)
(* (on_pending_updates, process_pending_seq_updates), as long as no short  *)
(* update has come early.                                                  *)
THEOREM ContainersInOrder == Spec => [](NoEarlyShort => SeqInOrder)
<1>1. IInv => (NoEarlyShort => SeqInOrder)
  BY InvSeq DEF IInv
<1> QED
  BY <1>1, Inductive, PTL
=============================================================================
