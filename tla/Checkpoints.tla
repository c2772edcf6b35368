---------------------------- MODULE Checkpoints ----------------------------
(***************************************************************************)
(* What a manager of persistent positions promises, whatever it keeps:     *)
(* changes are begun in order, some of them carrying a position to be      *)
(* saved, and are completed in any order; the saved position is always the *)
(* newest one before which nothing is incomplete.  PtsManager.tla          *)
(* implements this.                                                        *)
(***************************************************************************)
EXTENDS Integers, Sequences

CONSTANT Pts   \* the positions; 0 marks a change that carries none

VARIABLES
  changes,    \* the positions of the changes since the last reset, in order
  finished,   \* the indices of the completed ones
  base,       \* the position given by the last reset
  saved       \* the position it is safe to restart from

vars == <<changes, finished, base, saved>>

(* the changes that carry a position with everything up to them completed *)
Reached(ch, fin) == { k \in DOMAIN ch : ch[k] # 0 /\ 1..k \subseteq fin }

(* s is the position to restart from *)
IsNewest(s, ch, fin, b) ==
  \/ Reached(ch, fin) = {} /\ s = b
  \/ \E k \in Reached(ch, fin) : s = ch[k] /\ \A j \in Reached(ch, fin) : j <= k

Init ==
  /\ changes = <<>>
  /\ finished = {}
  /\ base = -1
  /\ saved = -1

Begin(p) ==
  /\ changes' = Append(changes, p)
  /\ UNCHANGED <<finished, base, saved>>

Complete(k) ==
  /\ finished' = finished \cup {k}
  /\ saved' \in Pts \cup {-1, 0}
  /\ IsNewest(saved', changes, finished', base)
  /\ UNCHANGED <<changes, base>>

Reset(p) ==
  /\ changes' = <<>>
  /\ finished' = {}
  /\ base' = p
  /\ saved' = p

Next ==
  \/ \E p \in Pts \cup {0} : Begin(p)
  \/ \E k \in 1..Len(changes) : Complete(k)
  \/ \E p \in Pts \cup {-1, 0} : Reset(p)

Spec == Init /\ [][Next]_vars
=============================================================================
