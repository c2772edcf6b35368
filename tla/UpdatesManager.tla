--------------------------- MODULE UpdatesManager ---------------------------
(***************************************************************************)
(* td/telegram/UpdatesManager.cpp, with the pts part of                    *)
(* td/telegram/MessagesManager.cpp: how a client keeps its copy of the     *)
(* account complete although updates are lost, delayed and reordered.      *)
(*                                                                         *)
(* Every update of the common message box carries a position pts and the   *)
(* number pts_count of positions it covers.  Updates that leave a gap wait *)
(* in pending_updates_ until the gap is closed, or until a timeout asks    *)
(* the server for the difference.  While a difference is awaited           *)
(* everything is postponed.  Containers with other updates carry a number  *)
(* seq of their own, with gaps and a timeout of their own.  The pts is     *)
(* saved, and a restarted client continues from the saved one.             *)
(*                                                                         *)
(* The server and the network are external: each update is sent at most    *)
(* once (the MTProto layer drops repeated messages) and may be lost or     *)
(* overtaken.  The client is authorized.  The handlers of the client are   *)
(* operators on a record c of its state; they run to completion, as the    *)
(* handlers of an actor do.                                                *)
(*                                                                         *)
(* Two things limit what can be said.  An updateShort is handled at once,  *)
(* also while a difference is awaited; the code relies on the server not   *)
(* to send a pts that way then (see OnShortUpdate).  And the pts is saved  *)
(* when the handlers have run, before the messages are in the database     *)
(* (TODO, MessagesManager.cpp:5412 and 6395): what of them a crash leaves  *)
(* is not modelled, the history of a client begins anew with the process.  *)
(***************************************************************************)
EXTENDS Integers, Sequences, FiniteSets, FiniteSetsExt, SequencesExt

CONSTANTS
  FirstPts,     \* the server's pts before the first update
  Ends,         \* the pts of the server's updates, in order
  MaxPts,       \* numeric_limits<int32>::max(), `the pts is to be restored'
  FarBehind,    \* the constant 19999 of add_pending_update
  Drop,         \* the constant 399999 of set_pts
  ForcedDiff,   \* FORCED_GET_DIFFERENCE_PTS_DIFF
  MaxSeq,       \* bound: containers with a seq
  MaxTroubles   \* bound: hints, containers that cannot be accepted, resets of the
                \* pts, failures, restarts and other reasons to ask, together

ASSUME UpdatesManagerAssumption ==
  /\ FirstPts \in Nat \ {0} /\ MaxPts \in Nat /\ FirstPts < MaxPts
  /\ Ends \in Seq(Nat)
  /\ \A k \in DOMAIN Ends : Ends[k] \in Nat /\ Ends[k] > (IF k = 1 THEN FirstPts ELSE Ends[k - 1])
  /\ \A k \in DOMAIN Ends : Ends[k] + FarBehind < MaxPts /\ Ends[k] + Drop < MaxPts
  /\ {FarBehind, Drop, ForcedDiff, MaxSeq, MaxTroubles} \subseteq Nat

VARIABLES
  c,       \* the client
  n, s,    \* the server: updates and containers so far
  net,     \* containers under way to the client
  answers, \* query results that carry an update, under way to the client
  reply,   \* the answer to getState or getDifference, under way to the client
  troubles, \* how many there have been
  odd       \* how many of them were resets of the pts and differenceTooLong, and
            \* how many updates came in an updateShort while an answer was awaited

tvars == <<troubles, odd>>
vars == <<c, n, s, net, answers, reply, tvars>>

NoPts == -1

PtsAt(k) == IF k = 0 THEN FirstPts ELSE Ends[k]

(* the k-th update of the server *)
Update(k) == [pts |-> PtsAt(k), cnt |-> PtsAt(k) - PtsAt(k - 1)]

NoUpdate == [pts |-> 0, cnt |-> 0]

NoReply == [type |-> "none", pts |-> 0, seq |-> 0, reset |-> FALSE]

(* a client that has just started, with what it saved *)
Fresh(stored) ==
  [ pts |-> NoPts, acks |-> <<>>, stored |-> stored,
    pending_updates |-> {}, postponed_pts_updates |-> {},
    accumulated_pts |-> -1, accumulated_pts_count |-> 0, pts_gap_timeout |-> FALSE,
    seq |-> 0, postponed_updates |-> <<>>, pending_seq_updates |-> {},
    seq_gap_timeout |-> FALSE, retry_timeout |-> FALSE,
    running |-> "no", asked |-> 0, last_get_difference_pts |-> 0,
    passed |-> <<>>, skipped |-> {}, base |-> FirstPts, seqs |-> {}, fatal |-> FALSE ]
-----------------------------------------------------------------------------
(* Positions.  PtsManager saves what is acknowledged, and forgets          *)
(* acknowledgements from before its init (see PtsManager.tla); here every  *)
(* promise is set at once, so that they come in order.                     *)

(* a set of numbers in increasing order *)
Increasing(P) ==
  CHOOSE q \in [1..Cardinality(P) -> P] : \A i, j \in 1..Cardinality(P) : i < j => q[i] < q[j]

(* history: the updates us are applied to the client's data, in order; base *)
(* is where it began                                                        *)
Apply(d, us) == [d EXCEPT !.passed = @ \o Increasing({ u.pts : u \in us })]

AddPts(d, p) == [d EXCEPT !.pts = p, !.acks = Append(@, p)]

(* no timeout is set *)
ScheduleGetDifference_Never(d) == d

ScheduleGetDifference(d) == [d EXCEPT !.retry_timeout = TRUE]

(* MessagesManager.cpp:6399-6404 *)
DropPendingUpdates(d) ==
  [d EXCEPT !.accumulated_pts = -1, !.accumulated_pts_count = 0,
            !.pending_updates = {}, !.pts_gap_timeout = FALSE]

(* MessagesManager.cpp:7555-7565: pending updates are kept for afterwards *)
BeforeGetDifference(d) ==
  DropPendingUpdates([d EXCEPT !.postponed_pts_updates = @ \cup d.pending_updates])

GetUpdatesState(d) == [BeforeGetDifference(d) EXCEPT !.running = "state"]

(* the part of get_difference for a known pts *)
RunGetDifference(d) ==
  IF d.running # "no" THEN d
  ELSE [BeforeGetDifference(d) EXCEPT !.running = "difference", !.asked = d.pts,
                                      !.last_get_difference_pts = d.pts]

InitState(d) ==
  IF d.stored = NoPts
    THEN IF d.running # "no" THEN d ELSE GetUpdatesState(d)
    ELSE RunGetDifference(
           [d EXCEPT !.pts = d.stored, !.acks = <<>>, !.last_get_difference_pts = d.stored,
                     !.base = d.stored])

GetDifference(d) == IF d.pts = NoPts THEN InitState(d) ELSE RunGetDifference(d)

SetPts(d, p) ==
  IF p = MaxPts
    THEN InitState([AddPts(d, MaxPts) EXCEPT !.stored = NoPts])
    ELSE IF p > d.pts \/ (0 < p /\ p < d.pts - Drop)
      THEN IF d.last_get_difference_pts + ForcedDiff < p
             THEN ScheduleGetDifference([AddPts(d, p) EXCEPT !.last_get_difference_pts = p])
             ELSE AddPts(d, p)
      ELSE d
-----------------------------------------------------------------------------
(* MessagesManager: gaps in pts *)

(* MessagesManager.cpp:6248-6255 *)
SetGetDifferenceTimeout(d) == [d EXCEPT !.pts_gap_timeout = TRUE]

(* MessagesManager.cpp:6389-6397 *)
ProcessPendingUpdates(d) ==
  DropPendingUpdates(SetPts(Apply(d, d.pending_updates), d.accumulated_pts))

(* an update after a gap is applied at once if none is pending *)
AccumulateUpdate_GapIgnored(d, u) ==
  LET sum == [d EXCEPT !.accumulated_pts_count = @ + u.cnt, !.accumulated_pts = Max({@, u.pts})]
  IN IF d.pts + u.cnt > u.pts THEN SetGetDifferenceTimeout(d)
     ELSE IF u.cnt = 0 THEN sum
     ELSE [SetPts(Apply(sum, {u}), sum.accumulated_pts)
             EXCEPT !.accumulated_pts_count = 0, !.accumulated_pts = -1]

(* MessagesManager.cpp:5381-5432: an update after the pts while no         *)
(* difference is awaited                                                   *)
AccumulateUpdate(d, u) ==
  LET sum == [d EXCEPT !.accumulated_pts_count = @ + u.cnt, !.accumulated_pts = Max({@, u.pts})]
      kept == IF u.cnt > 0 THEN [sum EXCEPT !.pending_updates = @ \cup {u}] ELSE sum
      covered == d.pts + sum.accumulated_pts_count
  IN IF d.pts + u.cnt > u.pts THEN SetGetDifferenceTimeout(d)
     ELSE IF covered > sum.accumulated_pts THEN SetGetDifferenceTimeout(sum)
     ELSE IF sum.pending_updates = {} /\ covered = sum.accumulated_pts /\ ~sum.pts_gap_timeout
       THEN IF u.cnt = 0 THEN sum
            ELSE [SetPts(Apply(sum, {u}), sum.accumulated_pts)
                    EXCEPT !.accumulated_pts_count = 0, !.accumulated_pts = -1]
     ELSE IF covered < sum.accumulated_pts THEN SetGetDifferenceTimeout(kept)
     ELSE IF kept.pending_updates # {} THEN ProcessPendingUpdates(kept) ELSE kept

(***************************************************************************)
(* MessagesManager::add_pending_update (MessagesManager.cpp:5272-5380);    *)
(* what an old update does to the messages waiting for it                  *)
(* (skip_old_pending_update) is left out.  Only an update of a query       *)
(* result may come while a difference is awaited, all others are postponed *)
(* by UpdatesManager: the CHECK of line 5374.                              *)
(***************************************************************************)
AddPendingUpdate(d, u, isAnswer) ==
  LET e == IF u.pts < d.pts - FarBehind THEN SetGetDifferenceTimeout(d) ELSE d
  IN IF u.pts <= u.cnt THEN d
     ELSE IF u.pts <= d.pts THEN e
     ELSE IF d.running # "no"
       THEN [e EXCEPT !.postponed_pts_updates = IF u.cnt > 0 THEN @ \cup {u} ELSE @,
                      !.fatal = @ \/ ~isAnswer]
     ELSE AccumulateUpdate(e, u)

(* the first postponed update, if it is not older than old_pts *)
AddPostponedUpdate(d, old_pts) ==
  LET u == CHOOSE x \in d.postponed_pts_updates :
             \A y \in d.postponed_pts_updates : x.pts <= y.pts
      e == [d EXCEPT !.postponed_pts_updates = @ \ {u}]
  IN IF d.postponed_pts_updates = {} THEN d
     ELSE IF u.pts <= old_pts THEN e ELSE AddPendingUpdate(e, u, FALSE)

(* MessagesManager.cpp:7567-7586 *)
MessagesAfterGetDifference(d) ==
  LET count == Cardinality(d.postponed_pts_updates)
      after[i \in 0..count] == IF i = 0 THEN d ELSE AddPostponedUpdate(after[i - 1], d.pts)
  IN after[count]
-----------------------------------------------------------------------------
(* UpdatesManager: containers and seq *)

(* insertion into a multimap by seq_begin *)
Emplace(q, m) ==
  LET i == CHOOSE i \in 1 .. Len(q) + 1 :
             /\ \A j \in 1 .. i - 1 : q[j].seq <= m.seq
             /\ i <= Len(q) => q[i].seq > m.seq
  IN InsertAt(q, i, m)

(* process_updates sets the pts for updatePtsChanged last; then seq_ *)
ProcessSeqUpdates(d, m) ==
  LET e == IF m.other = "reset" THEN SetPts(d, MaxPts) ELSE d
  IN IF m.seq = 0 THEN e ELSE [e EXCEPT !.seq = m.seq, !.seqs = @ \cup {m.seq}]

(* pending containers are processed without looking for a gap *)
ProcessPendingSeqUpdates_GapIgnored(d) ==
  LET Step(e, m) == [ProcessSeqUpdates(e, m) EXCEPT !.pending_seq_updates = @ \ {m}]
  IN FoldLeft(Step, d, SetToSortSeq(d.pending_seq_updates, LAMBDA m, k : m.seq < k.seq))

(* the first pending container, if nothing is missing before it *)
ProcessNextSeqUpdates(d) ==
  LET m == CHOOSE x \in d.pending_seq_updates :
             \A y \in d.pending_seq_updates : x.seq <= y.seq
      e == IF m.seq = d.seq + 1 THEN ProcessSeqUpdates(d, m) ELSE d
  IN IF d.pending_seq_updates = {} \/ d.running # "no" \/ m.seq > d.seq + 1 THEN d
     ELSE [e EXCEPT !.pending_seq_updates = @ \ {m}]

ProcessPendingSeqUpdates(d) ==
  LET count == Cardinality(d.pending_seq_updates)
      after[i \in 0..count] == IF i = 0 THEN d ELSE ProcessNextSeqUpdates(after[i - 1])
      e == after[count]
  IN IF e.pending_seq_updates = {} THEN [e EXCEPT !.seq_gap_timeout = FALSE] ELSE e

(* a gap in seq sets no timeout *)
OnAcceptedUpdates_NoTimeout(d, m) ==
  LET e == AddPendingUpdate(d, m.upd, FALSE)
      rest == [m EXCEPT !.upd = NoUpdate]
  IN IF m.other = "none" THEN e
     ELSE IF m.seq = 0 \/ m.seq = e.seq + 1
       THEN ProcessPendingSeqUpdates(ProcessSeqUpdates(e, m))
     ELSE IF m.seq <= e.seq THEN e
     ELSE [e EXCEPT !.pending_seq_updates = @ \cup {rest}]

(* on_pending_updates behind its checks; add_pending_update never starts a *)
(* difference, so the second postponement does not happen                  *)
OnAcceptedUpdates(d, m) ==
  LET e == AddPendingUpdate(d, m.upd, FALSE)
      rest == [m EXCEPT !.upd = NoUpdate]
  IN IF m.other = "none" THEN e
     ELSE IF m.seq = 0 \/ m.seq = e.seq + 1
       THEN ProcessPendingSeqUpdates(ProcessSeqUpdates(e, m))
     ELSE IF m.seq <= e.seq THEN e
     ELSE [e EXCEPT !.pending_seq_updates = @ \cup {rest}, !.seq_gap_timeout = TRUE]

(* updates that come during a difference are processed at once *)
OnPendingUpdates_NotPostponed(d, m) == OnAcceptedUpdates(d, m)

OnPendingUpdates(d, m) ==
  LET e == IF d.pts = NoPts THEN InitState(d) ELSE d
  IN IF e.running # "no" THEN [e EXCEPT !.postponed_updates = Emplace(@, m)]
     ELSE IF m.sort = "unknown" THEN GetDifference(e)
     ELSE IF m.sort = "mixed" THEN ScheduleGetDifference(e)
     ELSE OnAcceptedUpdates(e, m)

(* the first postponed container *)
OnPostponedUpdates(d) ==
  IF d.running # "no" \/ d.postponed_updates = <<>> THEN d
  ELSE OnPendingUpdates([d EXCEPT !.postponed_updates = Tail(@)], Head(d.postponed_updates))

AfterGetDifference(d) ==
  LET d1 == ProcessPendingSeqUpdates([d EXCEPT !.retry_timeout = FALSE])
      count == Len(d1.postponed_updates)
      after[i \in 0..count] == IF i = 0 THEN d1 ELSE OnPostponedUpdates(after[i - 1])
  IN IF after[count].running # "no" THEN after[count]
     ELSE MessagesAfterGetDifference(after[count])
-----------------------------------------------------------------------------
(* Answers of the server *)

(* history: how far the client has come *)
Place(d) == IF d.passed = <<>> THEN d.base ELSE d.passed[Len(d.passed)]

(* history: the client takes its data to be as of p.  This is where it     *)
(* begins, or it passes updates without applying them.                     *)
StartAt(d, p) ==
  LET us == { Update(k) : k \in { k \in 1..n : Place(d) < Ends[k] /\ Ends[k] <= p } }
  IN IF d.pts = NoPts THEN [d EXCEPT !.base = p, !.passed = <<>>]
     ELSE [Apply(d, us) EXCEPT !.skipped = @ \cup us]

(* seq_ is assigned: what the server has up to q is known *)
SetSeq(d, q) == [d EXCEPT !.seq = q, !.seqs = 1..q]

OnGetUpdatesState(d, r) ==
  LET e == IF d.running = "state" THEN StartAt(d, r.pts) ELSE d
      f == IF d.pts = MaxPts
             THEN [e EXCEPT !.pts = r.pts, !.acks = <<>>, !.last_get_difference_pts = r.pts]
             ELSE SetSeq(SetPts(e, r.pts), r.seq)
  IN IF d.running # "no" THEN AfterGetDifference([f EXCEPT !.running = "no"]) ELSE f

(* the updates of a difference are applied; they may contain updatePtsChanged *)
ProcessGetDifferenceUpdates(d, r) ==
  LET e == Apply(d, { Update(k) : k \in { k \in 1..n : d.asked < Ends[k] /\ Ends[k] <= r.pts } })
  IN IF r.reset THEN SetPts(e, MaxPts) ELSE e

OnGetDifference(d0, r) ==
  LET d == [d0 EXCEPT !.running = "no"]
      e == ProcessGetDifferenceUpdates(d, r)
      g == CASE r.type = "empty"   -> SetSeq(d, r.seq)
             [] r.type = "full"    -> IF e.running # "no" THEN e ELSE OnGetUpdatesState(e, r)
             [] r.type = "slice"   -> IF e.running # "no" THEN e
                                      ELSE GetDifference(OnGetUpdatesState(e, r))
             [] r.type = "tooLong" -> GetDifference(SetPts(StartAt(d, r.pts), r.pts))
  IN CASE r.type = "failed"  -> ScheduleGetDifference(d)
       [] r.type = "invalid" -> SetPts(ScheduleGetDifference(d), MaxPts)
       [] OTHER -> IF g.running # "no" THEN g ELSE AfterGetDifference(g)
-----------------------------------------------------------------------------
(* The server and the network *)

(* What the server sends.  A container of updatesCombined may have a range *)
(* of numbers, seq_start..seq; here it has one, so the `Strange updates'   *)
(* of a range that has begun already do not come.  An updateShort is one   *)
(* update without a number.                                                *)
Container(seq, upd, other, sort) == [seq |-> seq, upd |-> upd, other |-> other, sort |-> sort]

(* k troubles, r of them resets of the pts *)
Trouble(k, r) ==
  /\ troubles + k <= MaxTroubles
  /\ troubles' = troubles + k
  /\ odd' = [odd EXCEPT !.resets = @ + r]

(* the trouble with a container *)
TroubleWith(other, sort) ==
  LET r == IF other = "reset" THEN 1 ELSE 0
  IN Trouble(r + (IF sort = "good" THEN 0 ELSE 1), r)

(* for on_pending_updates: a container may name an unknown user, or mix    *)
(* updates that it may not                                                 *)
Sorts == {"good", "unknown", "mixed"}

(* or it is an updateShort *)
AllSorts == Sorts \cup {"short"}

(* an update, sent in a container without seq, as part of an answer, or lost *)
NewUpdate ==
  /\ n < Len(Ends)
  /\ n' = n + 1
  /\ \/ /\ \E sort \in AllSorts :
             /\ TroubleWith("none", sort)
             /\ net' = net \cup {Container(0, Update(n + 1), "none", sort)}
        /\ UNCHANGED answers
     \/ answers' = answers \cup {Update(n + 1)} /\ UNCHANGED <<net, tvars>>
     \/ UNCHANGED <<net, answers, tvars>>
  /\ UNCHANGED <<c, s, reply>>

(* an update that tells the pts without changing it, such as updateWebPage *)
Hint ==
  /\ Trouble(1, 0)
  /\ \E sort \in {"good", "short"} :
       net' = net \cup {Container(0, [pts |-> PtsAt(n), cnt |-> 0], "none", sort)}
  /\ UNCHANGED <<c, n, s, answers, reply>>

(* a container with a seq, with or without an update, sent or lost *)
NewContainer ==
  /\ s < MaxSeq
  /\ s' = s + 1
  /\ \E k \in {n, n + 1}, other \in {"plain", "reset"}, sort \in Sorts :
       /\ k <= Len(Ends)
       /\ n' = k
       /\ TroubleWith(other, sort)
       /\ LET m == Container(s + 1, IF k = n THEN NoUpdate ELSE Update(k), other, sort)
          IN net' = net \cup {m} \/ net' = net
  /\ UNCHANGED <<c, answers, reply>>

(* updatePtsChanged without a seq *)
Reset ==
  /\ Trouble(1, 1)
  /\ \E sort \in {"good", "short"} :
       net' = net \cup {Container(0, NoUpdate, "reset", sort)}
  /\ UNCHANGED <<c, n, s, answers, reply>>

Reply(type, pts, reset) == reply' = [type |-> type, pts |-> pts, seq |-> s, reset |-> reset]

(* the server answers from its state of this moment *)
Answer ==
  /\ c.running # "no" /\ reply = NoReply
  /\ \/ c.running = "state" /\ Reply("state", PtsAt(n), FALSE) /\ UNCHANGED tvars
     \/ /\ c.running = "difference"
        /\ UNCHANGED tvars
        /\ \/ c.asked > PtsAt(n) /\ Reply("invalid", 0, FALSE)
           \/ c.asked = PtsAt(n) /\ Reply("empty", 0, FALSE)
           \/ c.asked < PtsAt(n) /\ Reply("full", PtsAt(n), FALSE)
           \/ \E k \in 1 .. n - 1 : c.asked < Ends[k] /\ Reply("slice", Ends[k], FALSE)
  /\ UNCHANGED <<c, n, s, net, answers>>

(* answers that need not come *)
OddAnswer ==
  /\ c.running # "no" /\ reply = NoReply
  /\ \/ Trouble(1, 0) /\ Reply("failed", 0, FALSE)
     \/ /\ c.running = "difference" /\ c.asked < PtsAt(n)
        /\ troubles < MaxTroubles /\ troubles' = troubles + 1
        /\ odd' = [odd EXCEPT !.tooLongs = @ + 1]
        /\ Reply("tooLong", PtsAt(n), FALSE)
     \/ /\ c.running = "difference" /\ c.asked < PtsAt(n)
        /\ Trouble(1, 1) /\ Reply("full", PtsAt(n), TRUE)
  /\ UNCHANGED <<c, n, s, net, answers>>
-----------------------------------------------------------------------------
(* The client's steps *)

(* an updateShort: its update is handled at once, whatever is awaited *)
OnShortUpdate(d, m) ==
  IF m.other = "reset" THEN SetPts(d, MaxPts) ELSE AddPendingUpdate(d, m.upd, FALSE)

(* on_get_updates; an updateShort that is not acceptable is an AskDifference *)
ReceiveContainer(m) ==
  /\ net' = net \ {m}
  /\ IF m.sort = "short"
       THEN /\ c' = OnShortUpdate(c, m)
            /\ odd' = IF c.running = "no" THEN odd ELSE [odd EXCEPT !.shorts = @ + 1]
       ELSE c' = OnPendingUpdates(c, m) /\ UNCHANGED odd
  /\ UNCHANGED <<n, s, answers, reply, troubles>>

ReceiveAnswer(u) ==
  /\ answers' = answers \ {u}
  /\ c' = AddPendingUpdate(c, u, TRUE)
  /\ UNCHANGED <<n, s, net, reply, tvars>>

ReceiveReply ==
  /\ reply # NoReply
  /\ reply' = NoReply
  /\ c' = IF c.running = "difference" THEN OnGetDifference(c, reply)
          ELSE IF reply.type = "failed" THEN ScheduleGetDifference([c EXCEPT !.running = "no"])
          ELSE OnGetUpdatesState(c, reply)
  /\ UNCHANGED <<n, s, net, answers, tvars>>

(* updatesTooLong, a short update that is not acceptable, a pong that is    *)
(* ahead, a query that asks for it                                          *)
AskDifference ==
  /\ Trouble(1, 0)
  /\ c' = GetDifference(c)
  /\ UNCHANGED <<n, s, net, answers, reply>>

(* a timeout that asks for nothing *)
Timeout_NoQuery(name) ==
  /\ c[name]
  /\ c' = [c EXCEPT ![name] = FALSE]
  /\ UNCHANGED <<n, s, net, answers, reply, tvars>>

(* fill_gap *)
Timeout(name) ==
  /\ c[name]
  /\ c' = GetDifference([c EXCEPT ![name] = FALSE])
  /\ UNCHANGED <<n, s, net, answers, reply, tvars>>

OnPtsAck ==
  /\ c.acks # <<>>
  /\ c' = [c EXCEPT !.acks = Tail(@),
                    !.stored = IF Head(c.acks) = MaxPts THEN NoPts ELSE Head(c.acks)]
  /\ UNCHANGED <<n, s, net, answers, reply, tvars>>

(* the process stops and starts again with the saved pts: Td::init asks    *)
(* for the difference                                                      *)
Restart ==
  /\ Trouble(1, 0)
  /\ c' = GetDifference(Fresh(c.stored))
  /\ answers' = {} /\ reply' = NoReply
  /\ UNCHANGED <<n, s, net>>

Init ==
  /\ c = GetDifference(Fresh(NoPts))
  /\ n = 0 /\ s = 0
  /\ net = {} /\ answers = {} /\ reply = NoReply
  /\ troubles = 0 /\ odd = [resets |-> 0, tooLongs |-> 0, shorts |-> 0]

Timeouts == \E name \in {"pts_gap_timeout", "seq_gap_timeout", "retry_timeout"} : Timeout(name)

Next ==
  \/ NewUpdate \/ Hint \/ NewContainer \/ Reset
  \/ Answer \/ OddAnswer
  \/ \E m \in net : ReceiveContainer(m)
  \/ \E u \in answers : ReceiveAnswer(u)
  \/ ReceiveReply \/ AskDifference \/ Timeouts \/ OnPtsAck \/ Restart

Spec == Init /\ [][Next]_vars

(* the server answers, timeouts fire and the actor handles its messages *)
Progress == Answer \/ ReceiveReply \/ Timeouts \/ OnPtsAck

(* ENABLED Progress *)
CanProgress ==
  \/ c.running # "no" \/ c.acks # <<>>
  \/ c.pts_gap_timeout \/ c.seq_gap_timeout \/ c.retry_timeout

(* WF_vars(Progress) *)
Fairness == []<>(~CanProgress) \/ []<><<Progress>>_vars

FairSpec == Spec /\ Fairness
-----------------------------------------------------------------------------
(* the pts is a position, not a mark *)
Known(p) == p \notin {NoPts, MaxPts}

(* everything the client has received and not yet applied *)
Waiting ==
  { u.pts : u \in c.pending_updates \cup c.postponed_pts_updates }
    \cup { c.postponed_updates[i].upd.pts : i \in DOMAIN c.postponed_updates }

(* the updates after b, up to p *)
Between(b, p) ==
  LET upTo(x) == Cardinality({ k \in DOMAIN Ends : Ends[k] <= x })
  IN SubSeq(Ends, upTo(b) + 1, upTo(p))

PtsUpdates == { Update(k) : k \in DOMAIN Ends }

(***************************************************************************)
(* Types.                                                                  *)
(***************************************************************************)
TypeOK ==
  /\ c.pts \in {NoPts, MaxPts, FirstPts} \cup Range(Ends)
  /\ c.stored \in {NoPts, FirstPts} \cup Range(Ends)
  /\ Range(c.acks) \subseteq {MaxPts, FirstPts} \cup Range(Ends)
  /\ c.pending_updates \subseteq PtsUpdates /\ c.postponed_pts_updates \subseteq PtsUpdates
  /\ c.accumulated_pts \in {-1, FirstPts} \cup Range(Ends) /\ c.accumulated_pts_count \in Nat
  /\ c.running \in {"no", "state", "difference"}
  /\ c.seq \in 0..s
  /\ \A m \in c.pending_seq_updates : m.seq \in 1..s
  /\ reply # NoReply => c.running # "no"

(* No updateShort has brought a pts, or updatePtsChanged, while the answer *)
(* to getState or getDifference was awaited.  This is the server's part:   *)
(* on_get_updates (UpdatesManager.cpp:703-716) does not look at            *)
(* running_get_difference_.                                                *)
NoEarlyShort == odd.shorts = 0

(***************************************************************************)
(* As long as the process runs no update is skipped or applied twice:      *)
(* whenever the pts is known, the updates passed since the position the    *)
(* client started from, the saved one or that of its first getState, are   *)
(* exactly those up to the pts, in order.  Lost, late and reordered        *)
(* updates, differences in several slices and postponed updates included.  *)
(* All of them were given to their handlers, unless the server has reset   *)
(* the pts or has answered differenceTooLong (TODO, UpdatesManager.cpp:    *)
(* 1069): then the client goes on at the server's pts without those before *)
(* it.  The saved pts is not ahead of what the handlers have had; whether  *)
(* they have stored it is not said (TODO, MessagesManager.cpp:5412, 6395). *)
(***************************************************************************)
PtsIsApplied ==
  Known(c.pts) /\ NoEarlyShort =>
    /\ c.passed = Between(c.base, c.pts)
    /\ c.skipped # {} => odd.resets > 0 \/ odd.tooLongs > 0
    /\ c.stored <= c.pts

(***************************************************************************)
(* The CHECKs of add_pending_update: the updates of a difference, forced   *)
(* to be applied, find nothing pending and no accumulated pts (5333), and  *)
(* while a difference is awaited only query results get there (5374).  The *)
(* server has its part in it: a pts that comes in an updateShort meanwhile *)
(* fails the CHECK of line 5374.                                           *)
(***************************************************************************)
DifferenceAlone ==
  NoEarlyShort =>
    /\ c.running # "no" => c.pending_updates = {} /\ c.accumulated_pts = -1
    /\ ~c.fatal

(***************************************************************************)
(* A gap is always watched: updates that wait for earlier ones have a      *)
(* timeout set, and postponed updates and an unknown pts a query under way *)
(* or a timeout that will repeat it.  For the seq this is so as long as    *)
(* the server did not reset the pts: the query that restores the pts       *)
(* leaves seq_ alone.  The server has its part in it: an updatePtsChanged  *)
(* in an updateShort while a difference is awaited, which is then answered *)
(* with differenceEmpty, leaves the pts unknown and nobody asking for it.  *)
(***************************************************************************)
GapIsWatched ==
  NoEarlyShort =>
    /\ c.pending_updates # {} \/ c.accumulated_pts # -1 => c.pts_gap_timeout
    /\ \/ c.postponed_updates # <<>> \/ c.postponed_pts_updates # {} \/ ~Known(c.pts)
       => c.running # "no" \/ c.retry_timeout
    /\ c.pending_seq_updates # {} /\ odd.resets = 0
       => c.seq_gap_timeout \/ c.running # "no" \/ c.retry_timeout

(***************************************************************************)
(* Containers are processed in the order of their seq, none is skipped     *)
(* unless a difference covers it.                                          *)
(***************************************************************************)
SeqInOrder == c.seqs = 1..c.seq

(***************************************************************************)
(* Every gap is filled: an update that waits is reached by the pts, even   *)
(* if the client is restarted in between and the update forgotten, again   *)
(* unless the server sends a pts in an updateShort at the wrong time.      *)
(***************************************************************************)
GapIsFilled ==
  \A k \in DOMAIN Ends :
    Ends[k] \in Waiting ~> (Known(c.pts) /\ c.pts >= Ends[k]) \/ ~NoEarlyShort

(***************************************************************************)
(* Every container that waits for an earlier one is processed or covered   *)
(* by a difference, again unless the server reset the pts.                 *)
(***************************************************************************)
SeqGapIsFilled ==
  \A q \in 1..MaxSeq :
    (\E m \in c.pending_seq_updates : m.seq = q)
      ~> (odd.resets > 0 \/ \A m \in c.pending_seq_updates : m.seq # q)

=============================================================================
