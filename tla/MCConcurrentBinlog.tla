-------------------------- MODULE MCConcurrentBinlog --------------------------
(* A model checking instance of ConcurrentBinlog: two clients, so that a    *)
(* number can overtake another one, and enough numbers for a hole to be     *)
(* filled while a sync waits for it.                                        *)
EXTENDS ConcurrentBinlog
=============================================================================
