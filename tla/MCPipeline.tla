----------------------------- MODULE MCPipeline -----------------------------
(***************************************************************************)
(* Three contracts on three cores.  The third entry of the list repeats    *)
(* c1, so c1 and c3 share the first worker, c2 has the second, and the     *)
(* third has the detector that nobody uses.  c1 has packets that pass or   *)
(* not according to what came before, and tolerates a second of disorder;  *)
(* c1 and c3 would disturb each other if they shared a detector; cx is not *)
(* subscribed.                                                             *)
(***************************************************************************)
EXTENDS Pipeline

MCContractList == <<"c1", "c2", "c1", "c3">>
MCExchange == {"SHFE"}
MCPacket == {"early", "bad", "late", "late2", "early3", "other"}

MCInstrumentID ==
    [early |-> "c1", bad |-> "c1", late |-> "c1",
     late2 |-> "c2", early3 |-> "c3", other |-> "cx"]

Flat(p) == [i \in Levels |-> p]

Depth(second, price) ==
    [exchange |-> "SHFE", colons |-> TRUE,
     hour |-> 9, minute |-> 0, second |-> second, milli |-> 0,
     tradingDay |-> 0, actionDay |-> 0,
     last_price |-> price, limit_up |-> 0, limit_down |-> 0, volume |-> 1,
     bid_price |-> Flat(0), ask_price |-> Flat(0),
     bid_volume |-> Flat(1), ask_volume |-> Flat(1)]

\* "bad" has an invalid price: it is refused, and its timestamp is kept.  It is
\* within the tolerance of "late", and "early" of it, but "early" not of "late".
MCMarketData ==
    [early |-> Depth(1, 10), bad |-> Depth(2, -1), late |-> Depth(3, 10),
     late2 |-> Depth(2, 10), early3 |-> Depth(1, 10),
     other |-> Depth(1, 10)]

MCRules ==
    [c \in {"c1", "c2", "c3"} |->
        [enable_exchange_check |-> TRUE, enable_timestamp_check |-> TRUE,
         enable_price_check |-> TRUE, enable_volume_check |-> TRUE,
         enable_abnormal_packet_check |-> TRUE,
         timestamp_base |-> "TradingDay", max_disorder_tolerance_ms |-> 1000,
         allow_same_ms_data |-> TRUE, check_bid_ask_levels |-> 5,
         max_invert_spread_tick |-> 0, tick_size |-> 1,
         limit_price_tolerance_ratio |-> 1, skip_zero_limit_price |-> TRUE,
         exchange_whitelist |-> {}]]
=============================================================================
