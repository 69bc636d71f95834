----------------------------- MODULE TickRules -----------------------------
(***************************************************************************)
(* The validation rules of UnitProcessor.h, as functions of the rules in   *)
(* force (a SpecialConfig), the last accepted timestamp, and a tick.       *)
(*                                                                         *)
(* Prices are whole numbers; a negative one stands for everything          *)
(* isInvalidPrice refuses (NaN, infinities, negative numbers, DBL_MAX).    *)
(* A day is counted from some day before all of them, and is negative if   *)
(* its text is not a number; "colons" says whether update_time has its     *)
(* colons in place; limit_price_tolerance_ratio is in parts of RatioUnit.  *)
(***************************************************************************)
EXTENDS Integers

CONSTANT Exchange   \* the exchange identifiers a tick may carry

MaxLevels == 5      \* MAX_BID_ASK_LEVELS
RatioUnit == 10000

Levels == 1 .. MaxLevels
Ladder == [Levels -> Int]

\* TickData, the same fields of the API's depth data, and the part of
\* SpecialConfig that validate reads.
TickData ==
    [exchange : Exchange, colons : BOOLEAN,
     hour : Int, minute : Int, second : Int, milli : Int,
     tradingDay : Int, actionDay : Int,
     last_price : Int, limit_up : Int, limit_down : Int, volume : Int,
     bid_price : Ladder, ask_price : Ladder,
     bid_volume : Ladder, ask_volume : Ladder]

\* The tick built from the API's depth data: its constructor copies every field
\* but the volumes of the book, which keep their default.
TickDataFrom(data) ==
    [data EXCEPT !.bid_volume = [i \in Levels |-> 0], !.ask_volume = [i \in Levels |-> 0]]

\* What goes out: every field of the tick that the protobuf message has.
fillProtoData(tick) ==
    [f \in {"last_price", "limit_up", "limit_down", "bid_price", "ask_price", "volume",
            "milli", "bid_volume", "ask_volume", "exchange", "colons", "hour", "minute",
            "second", "actionDay", "tradingDay"} |-> tick[f]]

SpecialConfig ==
    [enable_exchange_check : BOOLEAN, enable_timestamp_check : BOOLEAN,
     enable_price_check : BOOLEAN, enable_volume_check : BOOLEAN,
     enable_abnormal_packet_check : BOOLEAN,
     timestamp_base : {"TradingDay", "ActionDay"},
     max_disorder_tolerance_ms : Int, allow_same_ms_data : BOOLEAN,
     check_bid_ask_levels : Int, max_invert_spread_tick : Int,
     tick_size : Int, limit_price_tolerance_ratio : Int,
     skip_zero_limit_price : BOOLEAN, exchange_whitelist : SUBSET Exchange]
-----------------------------------------------------------------------------
(* The exchange white list: an empty one lets every exchange pass. *)

CheckWhiteList(cfg, tick) ==
    \/ cfg.exchange_whitelist = {}
    \/ tick.exchange \in cfg.exchange_whitelist
-----------------------------------------------------------------------------
(* The timestamp. *)

BaseDay(cfg, tick) ==
    IF cfg.timestamp_base = "TradingDay" THEN tick.tradingDay ELSE tick.actionDay

WellFormed(cfg, tick) ==
    /\ tick.colons
    /\ tick.hour \in 0 .. 23 /\ tick.minute \in 0 .. 59 /\ tick.second \in 0 .. 59
    /\ tick.milli \in 0 .. 999
    /\ BaseDay(cfg, tick) >= 0

\* Mutant of Packed: the weight of a minute has lost a zero.
PackedShortMinute(day, hour, minute, second, milli) ==
    1000000000 * day + 10000000 * hour + 10000 * minute + 1000 * second + milli

\* The fields side by side as decimal digits, YYYYMMDDhhmmsslll.
Packed(day, hour, minute, second, milli) ==
    1000000000 * day + 10000000 * hour + 100000 * minute + 1000 * second + milli

CombineTimestamp(cfg, tick) ==
    IF WellFormed(cfg, tick)
    THEN Packed(BaseDay(cfg, tick), tick.hour, tick.minute, tick.second, tick.milli)
    ELSE -1

\* Mutant of CheckTimestampNew: a late tick is refused, however little late.
CheckTimestampStrict(cfg, last, ts) == ts >= last

\* The verdict on timestamp ts after the kept timestamp last.  Without
\* allow_same_ms_data a repeated timestamp passes as well, as one not late.
CheckTimestampNew(cfg, last, ts) ==
    /\ ts >= 0
    /\ \/ ts = last /\ cfg.allow_same_ms_data
       \/ ts >= last
       \/ last - ts <= cfg.max_disorder_tolerance_ms

\* Mutant of KeptTimestamp: a slightly late tick pulls the mark back.
KeptTimestampDrifting(cfg, last, ts) ==
    IF CheckTimestampNew(cfg, last, ts) THEN ts ELSE last

\* The timestamp kept after the check: only a later one replaces it.
KeptTimestamp(cfg, last, ts) ==
    IF ts < 0 \/ (ts = last /\ cfg.allow_same_ms_data) \/ ts < last
    THEN last ELSE ts
-----------------------------------------------------------------------------
(* Prices, volumes, empty packets. *)

IsInvalidPrice(p) == p < 0

LimitsApply(cfg, tick) ==
    \/ ~cfg.skip_zero_limit_price
    \/ tick.limit_up > 0 /\ tick.limit_down > 0

WithinLimits(cfg, tick) ==
    LET tolerance == tick.limit_up * cfg.limit_price_tolerance_ratio
    IN  /\ tick.last_price * RatioUnit >= tick.limit_down * RatioUnit - tolerance
        /\ tick.last_price * RatioUnit <= tick.limit_up * RatioUnit + tolerance

\* A level without an order is zero or an invalid price, and is skipped.
Quoted(p) == ~IsInvalidPrice(p) /\ p # 0

\* How many levels are checked: no more than there are.
checkLevels(cfg) ==
    IF cfg.check_bid_ask_levels < MaxLevels THEN cfg.check_bid_ask_levels ELSE MaxLevels

\* Mutant of Adjacent: the last checked level is left out.
AdjacentShort(cfg, i) == i \in 2 .. checkLevels(cfg) - 1

\* The checked levels that have a better neighbour.
Adjacent(cfg, i) == i \in 2 .. checkLevels(cfg)

CheckPriceValidity(cfg, tick) ==
    /\ ~IsInvalidPrice(tick.last_price)
    /\ ~IsInvalidPrice(tick.limit_up)
    /\ ~IsInvalidPrice(tick.limit_down)
    /\ LimitsApply(cfg, tick) => WithinLimits(cfg, tick)
    /\ \A i \in Levels :
          Adjacent(cfg, i) =>
             /\ (Quoted(tick.bid_price[i]) /\ Quoted(tick.bid_price[i - 1]))
                   => tick.bid_price[i] <= tick.bid_price[i - 1]
             /\ (Quoted(tick.ask_price[i]) /\ Quoted(tick.ask_price[i - 1]))
                   => tick.ask_price[i] >= tick.ask_price[i - 1]
    /\ (Quoted(tick.bid_price[1]) /\ Quoted(tick.ask_price[1]))
          => tick.bid_price[1] - tick.ask_price[1]
               <= cfg.max_invert_spread_tick * cfg.tick_size

CheckVolumeValidity(cfg, tick) ==
    /\ tick.volume >= 0
    /\ \A i \in 1 .. checkLevels(cfg) :
          tick.bid_volume[i] >= 0 /\ tick.ask_volume[i] >= 0

CheckAbnormalPacket(tick) ==
    ~ /\ tick.last_price = 0 /\ tick.volume = 0
      /\ tick.bid_price[1] = 0 /\ tick.ask_price[1] = 0
      /\ tick.bid_volume[1] = 0 /\ tick.ask_volume[1] = 0
-----------------------------------------------------------------------------
(* validate(): the checks in their order, each behind its switch. *)

\* Mutant of TimestampChecked: the timestamp is checked before the white list.
TimestampCheckedFirst(cfg, tick) == cfg.enable_timestamp_check

\* Whether validate gets as far as the timestamp check on this tick.
TimestampChecked(cfg, tick) ==
    /\ cfg.enable_exchange_check => CheckWhiteList(cfg, tick)
    /\ cfg.enable_timestamp_check

\* What validate returns.
Validate(cfg, last, tick) ==
    /\ cfg.enable_exchange_check => CheckWhiteList(cfg, tick)
    /\ cfg.enable_timestamp_check
          => CheckTimestampNew(cfg, last, CombineTimestamp(cfg, tick))
    /\ cfg.enable_price_check => CheckPriceValidity(cfg, tick)
    /\ cfg.enable_volume_check => CheckVolumeValidity(cfg, tick)
    /\ cfg.enable_abnormal_packet_check => CheckAbnormalPacket(tick)

\* What validate leaves in m_lastTimestamp: the timestamp is kept as soon as
\* its own check passes, whatever the later checks say of the tick.
ValidateKeeps(cfg, last, tick) ==
    IF TimestampChecked(cfg, tick)
    THEN KeptTimestamp(cfg, last, CombineTimestamp(cfg, tick))
    ELSE last
-----------------------------------------------------------------------------
(* The time that the code compares in packed form, for properties to speak of. *)

\* The moment a reading stands for, in milliseconds.
Millis(day, hour, minute, second, milli) ==
    (((day * 24 + hour) * 60 + minute) * 60 + second) * 1000 + milli

Moment(cfg, tick) ==
    Millis(BaseDay(cfg, tick), tick.hour, tick.minute, tick.second, tick.milli)
=============================================================================
