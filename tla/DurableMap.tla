------------------------------ MODULE DurableMap ------------------------------
(***************************************************************************)
(* What the binary log promises to its clients: a map from event           *)
(* identifiers to events that survives crashes up to the last completed    *)
(* sync, and comes back as it was after some update not older than that.   *)
(* Binlog.tla implements this.                                             *)
(***************************************************************************)
EXTENDS Integers, Sequences

CONSTANTS Ids, Vals

VARIABLES
  maps,     \* the map after each update, the current one last
  durable,  \* the position in maps that a restart cannot go behind
  doomed    \* a destruction of the log has begun and not been completed

vars == <<maps, durable, doomed>>

EmptyMap == [i \in {} |-> 0]

Current == maps[Len(maps)]

Put(m, i, v) == [j \in DOMAIN m \cup {i} |-> IF j = i THEN v ELSE m[j]]

Remove(m, i) == [j \in DOMAIN m \ {i} |-> m[j]]

Init == maps = <<EmptyMap>> /\ durable = 1 /\ doomed = FALSE

(* An identifier is bound or rebound, or a bound one is erased. *)
Update ==
  /\ \/ \E i \in Ids, v \in Vals : maps' = Append(maps, Put(Current, i, v))
     \/ \E i \in DOMAIN Current : maps' = Append(maps, Remove(Current, i))
  /\ UNCHANGED <<durable, doomed>>

(* Everything up to the current map is made durable. *)
Sync == durable' = Len(maps) /\ UNCHANGED <<maps, doomed>>

(* A restart loses a suffix of the updates, never a durable one. *)
Recover ==
  /\ \E k \in durable .. Len(maps) : maps' = SubSeq(maps, 1, k)
  /\ UNCHANGED <<durable, doomed>>

(* The log is being destroyed, which nothing but its completion ends. *)
Doom == doomed' = TRUE /\ UNCHANGED <<maps, durable>>

Destroyed ==
  doomed /\ ~doomed' /\ maps' = <<EmptyMap>> /\ durable' = 1

Next == Update \/ Sync \/ Recover \/ Doom \/ Destroyed

Spec == Init /\ [][Next]_vars
=============================================================================
