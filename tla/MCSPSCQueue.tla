---------------------------- MODULE MCSPSCQueue ----------------------------
(* SPSCQueue on a small ring: two different ticks are enough to tell a      *)
(* reordering or an overwrite, three slots plus the slack let each index    *)
(* wrap while the other lags by any distance.                               *)
EXTENDS SPSCQueue
=============================================================================
