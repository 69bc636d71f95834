--------------------------- MODULE MCSystemStart ---------------------------
(* Instance of SystemStart for TLC: two workers with a queue of one tick,  *)
(* and a logger whose queue holds one line, so that every thread that logs *)
(* is blocked on it in some behaviour.                                     *)
EXTENDS SystemStart
=============================================================================
