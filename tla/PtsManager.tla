----------------------------- MODULE PtsManager -----------------------------
(***************************************************************************)
(* td/telegram/PtsManager.h with tdutils/td/utils/ChangesProcessor.h: the  *)
(* bookkeeping that decides which pts (or qts) may be saved.               *)
(*                                                                         *)
(* add_pts() hands out a token and is followed, sooner or later and in any *)
(* order, by the acknowledgement finish(token): SecretChatActor sends it   *)
(* when the message is in the binlog, UpdatesManager at once.  init()      *)
(* forgets all changes while acknowledgements for them may still be on     *)
(* their way.  Tokens are positions in an array that is compacted under    *)
(* them, and the subtraction token - offset_ is unsigned.                  *)
(***************************************************************************)
EXTENDS Integers, Sequences

CONSTANTS
  Pts,         \* the positions a change may carry besides 0, `not a checkpoint'
  MaxId,       \* bound: the largest token handed out
  MaxInits,    \* bound: calls of init() after the constructor's
  CompactMin,  \* the constant 5 of try_compactify
  Wrap         \* 2^64, the number of values of size_t

ASSUME PtsAssumption ==
  /\ Pts \subseteq Nat \ {0}
  /\ MaxId \in Nat /\ MaxInits \in Nat /\ CompactMin \in Nat
  /\ Wrap \in Nat /\ Wrap > 2 * MaxId + 2

VARIABLES
  db_pts, mem_pts,             \* db_pts_, mem_pts_
  data_array, offset, ready_i, \* the ChangesProcessor state_helper_
  acks,                        \* tokens whose acknowledgement will still come
  inits,                       \* how often init() was called
  first, changes, finished, base  \* history: the changes since the last init()

pvars == <<db_pts, mem_pts, data_array, offset, ready_i>>
hvars == <<first, changes, finished, base>>
ptsVars == <<pvars, acks, inits, hvars>>

Position == Pts \cup {0}

Change == [pts : Position, ready : BOOLEAN]

(* the constructor of UpdatesManager calls init(-1) *)
PtsInit ==
  /\ db_pts = -1 /\ mem_pts = -1
  /\ data_array = <<>> /\ offset = 1 /\ ready_i = 0
  /\ acks = {} /\ inits = 0
  /\ first = 1 /\ changes = <<>> /\ finished = {} /\ base = -1

(* clear() that does not advance offset_ over the forgotten changes *)
Clear_OffsetKept == data_array' = <<>> /\ offset' = offset /\ ready_i' = 0

Clear ==
  /\ offset' = offset + Len(data_array)
  /\ ready_i' = 0
  /\ data_array' = <<>>

InitPts(p) ==
  /\ inits < MaxInits
  /\ inits' = inits + 1
  /\ db_pts' = p /\ mem_pts' = p
  /\ Clear
  /\ first' = offset + Len(data_array)
  /\ changes' = <<>> /\ finished' = {} /\ base' = p
  /\ UNCHANGED acks

AddPts(p) ==
  LET token == offset + Len(data_array)
  IN /\ token <= MaxId
     /\ mem_pts' = IF p # 0 THEN p ELSE mem_pts
     /\ data_array' = Append(data_array, [pts |-> p, ready |-> FALSE])
     /\ acks' = acks \cup {token}
     /\ changes' = Append(changes, p)
     /\ UNCHANGED <<db_pts, offset, ready_i, inits, first, finished, base>>

(* the subtraction of two unsigned numbers *)
Pos(token) == IF token >= offset THEN token - offset ELSE token - offset + Wrap

(* ready_i_ after the loop: the first change from i on that is not ready *)
ReadyEnd(d, i) ==
  CHOOSE e \in i..Len(d) :
    /\ \A k \in i + 1 .. e : d[k].ready
    /\ e < Len(d) => ~d[e + 1].ready

(* db_pts_ after func() ran for the changes i + 1 .. e *)
Checkpoint(d, i, e) ==
  LET carry == { k \in i + 1 .. e : d[k].pts # 0 }
  IN IF carry = {} THEN db_pts ELSE d[CHOOSE k \in carry : \A j \in carry : j <= k].pts

(* the erased changes are not added to offset_ *)
TryCompactify_OffsetKept(d, e) ==
  IF e > CompactMin /\ e * 2 > Len(d)
    THEN data_array' = SubSeq(d, e + 1, Len(d)) /\ offset' = offset /\ ready_i' = 0
    ELSE data_array' = d /\ offset' = offset /\ ready_i' = e

TryCompactify(d, e) ==
  IF e > CompactMin /\ e * 2 > Len(d)
    THEN data_array' = SubSeq(d, e + 1, Len(d)) /\ offset' = offset + e /\ ready_i' = 0
    ELSE data_array' = d /\ offset' = offset /\ ready_i' = e

(* the part of finish() after its early return *)
FinishAt(pos) ==
  LET d == [data_array EXCEPT ![pos + 1].ready = TRUE]
      e == ReadyEnd(d, ready_i)
  IN db_pts' = Checkpoint(d, ready_i, e) /\ TryCompactify(d, e)

(* Each token is acknowledged once, when its promise is set or destroyed. *)
Finish(token) ==
  /\ token \in acks
  /\ acks' = acks \ {token}
  /\ IF Pos(token) >= Len(data_array)
       THEN UNCHANGED <<db_pts, data_array, offset, ready_i>>
       ELSE FinishAt(Pos(token))
  /\ finished' = IF token >= first THEN finished \cup {token - first + 1} ELSE finished
  /\ UNCHANGED <<mem_pts, inits, first, changes, base>>

PtsNext ==
  \/ \E p \in Pts \cup {-1, 0} : InitPts(p)
  \/ \E p \in Position : AddPts(p)
  \/ \E token \in acks : Finish(token)

PtsSpec == PtsInit /\ [][PtsNext]_ptsVars
-----------------------------------------------------------------------------
(* The history variables are the abstract state; db_pts_ is what is saved. *)
Abstract == INSTANCE Checkpoints WITH saved <- db_pts

(***************************************************************************)
(* Implementation: db_pts_ is always the newest checkpoint with no         *)
(* unfinished change in front of it, and an acknowledgement that arrives   *)
(* after init() changes nothing.  A restart from db_pts_ therefore never   *)
(* skips a change that was not stored.                                     *)
(***************************************************************************)
SavesWhatIsFinished == Abstract!Spec

(***************************************************************************)
(* Types; every acknowledged token is the token of a change (finished is   *)
(* within changes).  -1 is the position before the first init(), 0 the qts *)
(* of an account without secret chats.                                     *)
(***************************************************************************)
PtsTypeOK ==
  /\ db_pts \in Pts \cup {-1, 0} /\ mem_pts \in Pts \cup {-1, 0} /\ base \in Pts \cup {-1, 0}
  /\ data_array \in Seq(Change)
  /\ offset \in Nat /\ ready_i \in Nat /\ first \in Nat /\ inits \in Nat
  /\ acks \subseteq 1..MaxId
  /\ changes \in Seq(Position)
  /\ finished \subseteq 1..Len(changes)

(***************************************************************************)
(* The array: it holds the changes from offset_ on, marks exactly the      *)
(* finished ones, everything erased was finished, and ready_i_ is the end  *)
(* of the finished prefix.  Every token still to come finds its own change *)
(* or none.                                                                *)
(***************************************************************************)
ArrayInv ==
  LET erased == offset - first
  IN /\ 1 <= first /\ first <= offset
     /\ offset + Len(data_array) <= MaxId + 1
     /\ Len(changes) = erased + Len(data_array)
     /\ 1..erased \subseteq finished
     /\ \A i \in 1..Len(data_array) :
          /\ data_array[i].pts = changes[erased + i]
          /\ data_array[i].ready <=> erased + i \in finished
     /\ ready_i <= Len(data_array)
     /\ \A i \in 1..ready_i : data_array[i].ready
     /\ ready_i < Len(data_array) => ~data_array[ready_i + 1].ready
     /\ \A token \in acks : token < offset + Len(data_array)

=============================================================================
