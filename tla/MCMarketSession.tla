-------------------------- MODULE MCMarketSession --------------------------
(* Instance of MarketSession for TLC: the contracts are interchangeable     *)
(* model values.                                                           *)
EXTENDS MarketSession
=============================================================================
