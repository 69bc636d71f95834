-------------------------- MODULE MCUnitProcessor --------------------------
(***************************************************************************)
(* Rules and ticks for UnitProcessor.  The clock readings sit around the   *)
(* places where decimal packing and real time part: the end of a minute,   *)
(* of an hour, of a day, and the night session that already carries the    *)
(* next trading day.  The volumes of the books are those the benchmarks    *)
(* give them (test/processortest.h); Pipeline has the ticks that the       *)
(* dispatcher builds.                                                      *)
(***************************************************************************)
EXTENDS UnitProcessor

MCExchange == {"SHFE", "DCE"}

Flat(p) == [i \in Levels |-> p]
Book(a, b, c) == [i \in Levels |-> IF i = 1 THEN a ELSE IF i = 2 THEN b ELSE c]

\* A good book, and clock readings to put on it.
BaseTick ==
    [exchange |-> "SHFE", colons |-> TRUE,
     hour |-> 9, minute |-> 0, second |-> 0, milli |-> 0,
     tradingDay |-> 1, actionDay |-> 1,
     last_price |-> 10, limit_up |-> 12, limit_down |-> 8, volume |-> 1,
     bid_price |-> Book(10, 9, 8), ask_price |-> Book(11, 12, 13),
     bid_volume |-> Flat(1), ask_volume |-> Flat(1)]

Clock(h, m, s, ms) == [hour |-> h, minute |-> m, second |-> s, milli |-> ms]
On(trading, action) == [tradingDay |-> trading, actionDay |-> action]

With(tick, change) ==
    [f \in DOMAIN tick |-> IF f \in DOMAIN change THEN change[f] ELSE tick[f]]

DayReadings ==
    {Clock(9, 0, 59, 990), Clock(9, 0, 59, 997), Clock(9, 1, 0, 0), Clock(9, 1, 0, 6),
     Clock(9, 59, 59, 999), Clock(10, 0, 0, 2), Clock(9, 1, 0, 11)}

TimedTicks ==
    {With(BaseTick, c) : c \in DayReadings}
      \cup {With(With(BaseTick, Clock(23, 59, 59, 998)), On(1, 0)),
            With(With(BaseTick, Clock(0, 0, 0, 1)), On(1, 1)),
            With(With(BaseTick, Clock(21, 0, 0, 0)), On(1, 0))}

\* One tick that fails each rule in turn, some of them with a later clock.
OddTicks ==
    {With(With(BaseTick, c), [exchange |-> "DCE"]) : c \in {Clock(9, 1, 0, 6), Clock(11, 0, 0, 0)}}
      \cup {With(BaseTick, change) : change \in
              {[colons |-> FALSE], [hour |-> 24], [milli |-> 1000], [tradingDay |-> -1],
               [last_price |-> -1], [last_price |-> 14], [limit_up |-> 0],
               [bid_price |-> Book(9, 10, 8)], [bid_price |-> Book(9, 8, 10)],
               [bid_price |-> Book(9, 0, 10)], [bid_price |-> Book(12, 9, 8)],
               [ask_price |-> Book(11, 12, 11)], [bid_price |-> Book(13, 9, 8)],
               [volume |-> -1], [ask_volume |-> Flat(-1)]}}
      \cup {With(With(BaseTick, Clock(11, 0, 0, 0)), [last_price |-> -1]),
            With(BaseTick, [last_price |-> 0, volume |-> 0, limit_up |-> 0,
                            bid_price |-> Flat(0), ask_price |-> Flat(0),
                            bid_volume |-> Flat(0), ask_volume |-> Flat(0)])}

MCTicks == TimedTicks \cup OddTicks

BaseConfig ==
    [enable_exchange_check |-> TRUE, enable_timestamp_check |-> TRUE,
     enable_price_check |-> TRUE, enable_volume_check |-> TRUE,
     enable_abnormal_packet_check |-> TRUE,
     timestamp_base |-> "TradingDay", max_disorder_tolerance_ms |-> 10,
     allow_same_ms_data |-> TRUE, check_bid_ask_levels |-> 3,
     max_invert_spread_tick |-> 1, tick_size |-> 1,
     limit_price_tolerance_ratio |-> 1, skip_zero_limit_price |-> TRUE,
     exchange_whitelist |-> {"SHFE"}]

MCConfigs ==
    {With(BaseConfig, change) : change \in
       {[timestamp_base |-> b] : b \in {"TradingDay", "ActionDay"}}
         \cup {[allow_same_ms_data |-> FALSE], [exchange_whitelist |-> {}],
               [max_disorder_tolerance_ms |-> 0], [check_bid_ask_levels |-> 1], [check_bid_ask_levels |-> 5],
               [skip_zero_limit_price |-> FALSE],
               [enable_exchange_check |-> FALSE], [enable_timestamp_check |-> FALSE],
               [enable_price_check |-> FALSE], [enable_volume_check |-> FALSE],
               [enable_abnormal_packet_check |-> FALSE]}}
=============================================================================
