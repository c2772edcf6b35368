---------------------------- MODULE MCSavedValues ----------------------------
(* Model checking instance of the two modules that decide what a client     *)
(* finds saved when it starts again: BinlogKeyValue, with two threads and   *)
(* two keys that share a prefix, and PtsManager, with six tokens and one    *)
(* reset, and compactions above one finished change instead of five.  They  *)
(* do not share state: a behaviour is one of either module, while the other *)
(* stays as it began.                                                       *)
EXTENDS BinlogKeyValue, PtsManager, TLC

CONSTANTS a, b

VARIABLE module   \* the one that takes the steps

MCKeys == {a, b}
MCKeyGroups == {{a, b}}

Symmetry == Permutations(Threads) \cup Permutations(Vals) \cup Permutations({a, b})

EitherInit == Init /\ PtsInit /\ module \in {"BinlogKeyValue", "PtsManager"}

EitherNext ==
  \/ module = "BinlogKeyValue" /\ Next /\ UNCHANGED <<ptsVars, module>>
  \/ module = "PtsManager" /\ PtsNext /\ UNCHANGED <<vars, module>>

EitherSpec == EitherInit /\ [][EitherNext]_<<vars, ptsVars, module>>
=============================================================================
