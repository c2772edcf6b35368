------------------------- MODULE MCSequenceDispatcher -------------------------
(* Small sequences, with in-flight and shrink limits small enough to be    *)
(* reached by three or four queries.                                       *)
EXTENDS SequenceDispatcher
=============================================================================
