------------------------------- MODULE MCBinlog -------------------------------
(* Model checking instances of Binlog: a log that may be encrypted, with     *)
(* power losses and kills, and, while it is not encrypted, reindexes that    *)
(* cannot open their file.                                                   *)
EXTENDS Binlog, TLC

Symmetry == Permutations(Vals) \cup Permutations(Keys)

PlainOnly == {<<NoKey, NoKey>>}
Always == (Keys \cup {NoKey}) \X (Keys \cup {NoKey})
=============================================================================
