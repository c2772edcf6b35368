-------------------------- MODULE MCUpdatesManager --------------------------
(* Model checking instance of UpdatesManager: an update that covers two      *)
(* positions and one that covers one.                                        *)
EXTENDS UpdatesManager

TwoEnds == <<3, 4>>
=============================================================================
