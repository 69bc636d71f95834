-------------------------- MODULE TickRulesProofs --------------------------
(***************************************************************************)
(* What the checks of UnitProcessor.h come to, for every tick and every    *)
(* set of rules: the lemmas that the proofs about one detector and about   *)
(* the pipeline share, and some consequences of the code worth knowing.    *)
(***************************************************************************)
EXTENDS TickRules, TLAPS

\* The ranges of the fields of a clock reading.
Hour == 0 .. 23
Sixty == 0 .. 59
Milli == 0 .. 999

\* Timestamp ts and moment ms stand for the same reading of the clock.
Stands(ts, ms) ==
    \E d \in Nat, h \in Hour, m \in Sixty, s \in Sixty, l \in Milli :
        ts = Packed(d, h, m, s, l) /\ ms = Millis(d, h, m, s, l)
-----------------------------------------------------------------------------
(* Arithmetic of the packing. *)

LEMMA ReadingType ==
    ASSUME NEW d \in Nat, NEW h \in Hour, NEW m \in Sixty,
           NEW s \in Sixty, NEW l \in Milli
    PROVE  Packed(d, h, m, s, l) \in Nat /\ Millis(d, h, m, s, l) \in Nat
  BY SMT DEF Packed, Millis, Hour, Sixty, Milli

LEMMA StandsType ==
    ASSUME NEW ts, NEW ms, Stands(ts, ms)
    PROVE  ts \in Nat /\ ms \in Nat
<1> PICK d \in Nat, h \in Hour, m \in Sixty, s \in Sixty, l \in Milli :
        ts = Packed(d, h, m, s, l) /\ ms = Millis(d, h, m, s, l)
  BY Zenon DEF Stands
<1> QED
  BY Zenon, ReadingType

\* A later day packs higher, whatever the time.
LEMMA DayOrder ==
    ASSUME NEW d \in Nat, NEW h \in Hour, NEW m \in Sixty,
           NEW s \in Sixty, NEW l \in Milli,
           NEW e \in Nat, NEW i \in Hour, NEW n \in Sixty,
           NEW t \in Sixty, NEW k \in Milli,
           Packed(d, h, m, s, l) <= Packed(e, i, n, t, k)
    PROVE  d <= e
<1> SUFFICES ASSUME e + 1 <= d PROVE FALSE
  BY SMT
<1>1. Packed(d, h, m, s, l) \in Int /\ Packed(e, i, n, t, k) \in Int
  BY SMT DEF Packed, Hour, Sixty, Milli
<1>2. Packed(d, h, m, s, l) >= 1000000000 * d
  BY SMT DEF Packed, Hour, Sixty, Milli
<1>3. Packed(e, i, n, t, k) < 1000000000 * e + 1000000000
  BY SMT DEF Packed, Hour, Sixty, Milli
<1> QED
  BY SMT, <1>1, <1>2, <1>3

\* On one day, a later hour does.
LEMMA HourOrder ==
    ASSUME NEW d \in Nat, NEW h \in Hour, NEW m \in Sixty,
           NEW s \in Sixty, NEW l \in Milli,
           NEW e \in Nat, NEW i \in Hour, NEW n \in Sixty,
           NEW t \in Sixty, NEW k \in Milli,
           Packed(d, h, m, s, l) <= Packed(e, i, n, t, k), d = e
    PROVE  h <= i
<1> SUFFICES ASSUME i + 1 <= h PROVE FALSE
  BY SMT DEF Hour
<1>1. Packed(d, h, m, s, l) \in Int /\ Packed(e, i, n, t, k) \in Int
  BY SMT DEF Packed, Hour, Sixty, Milli
<1>2. Packed(d, h, m, s, l) >= 1000000000 * d + 10000000 * h
  BY SMT DEF Packed, Hour, Sixty, Milli
<1>3. Packed(e, i, n, t, k) < 1000000000 * e + 10000000 * i + 10000000
  BY SMT DEF Packed, Hour, Sixty, Milli
<1> QED
  BY SMT, <1>1, <1>2, <1>3 DEF Hour

\* The packed form and the milliseconds order readings alike, and a packed
\* difference is never smaller than the difference in milliseconds: each
\* carry (a day, an hour, a minute) adds more to the one than to the other.
LEMMA DifferenceBound ==
    ASSUME NEW d \in Nat, NEW h \in Hour, NEW m \in Sixty,
           NEW s \in Sixty, NEW l \in Milli,
           NEW e \in Nat, NEW i \in Hour, NEW n \in Sixty,
           NEW t \in Sixty, NEW k \in Milli,
           Packed(d, h, m, s, l) <= Packed(e, i, n, t, k)
    PROVE  Millis(e, i, n, t, k) - Millis(d, h, m, s, l)
             <= Packed(e, i, n, t, k) - Packed(d, h, m, s, l)
<1>1. d <= e
  BY Zenon, DayOrder
<1>2. ASSUME d = e PROVE h <= i
  BY Zenon, <1>2, HourOrder
<1>3. CASE d < e
  BY SMT, <1>3 DEF Packed, Millis, Hour, Sixty, Milli
<1>4. CASE d = e /\ h < i
  BY SMT, <1>4 DEF Packed, Millis, Hour, Sixty, Milli
<1>5. CASE d = e /\ h = i
  BY SMTT(30), <1>5 DEF Packed, Millis, Hour, Sixty, Milli
<1> QED
  BY SMT, <1>1, <1>2, <1>3, <1>4, <1>5 DEF Hour

LEMMA EarlierFirst ==
    ASSUME NEW d \in Nat, NEW h \in Hour, NEW m \in Sixty,
           NEW s \in Sixty, NEW l \in Milli,
           NEW e \in Nat, NEW i \in Hour, NEW n \in Sixty,
           NEW t \in Sixty, NEW k \in Milli,
           Packed(d, h, m, s, l) < Packed(e, i, n, t, k)
    PROVE  Millis(d, h, m, s, l) < Millis(e, i, n, t, k)
<1>0. Packed(d, h, m, s, l) <= Packed(e, i, n, t, k)
  <2>1. Packed(d, h, m, s, l) \in Nat /\ Packed(e, i, n, t, k) \in Nat
    BY Zenon, ReadingType
  <2> QED
    BY SMT, <2>1
<1>1. d <= e
  BY Zenon, <1>0, DayOrder
<1>2. ASSUME d = e PROVE h <= i
  BY Zenon, <1>0, <1>2, HourOrder
<1>3. CASE d < e
  BY SMT, <1>3 DEF Packed, Millis, Hour, Sixty, Milli
<1>4. CASE d = e /\ h < i
  BY SMT, <1>4 DEF Packed, Millis, Hour, Sixty, Milli
<1>5. CASE d = e /\ h = i
  BY SMT, <1>5 DEF Packed, Millis, Hour, Sixty, Milli
<1> QED
  BY SMT, <1>1, <1>2, <1>3, <1>4, <1>5 DEF Hour

LEMMA SameReading ==
    ASSUME NEW d \in Nat, NEW h \in Hour, NEW m \in Sixty,
           NEW s \in Sixty, NEW l \in Milli,
           NEW e \in Nat, NEW i \in Hour, NEW n \in Sixty,
           NEW t \in Sixty, NEW k \in Milli,
           Packed(d, h, m, s, l) = Packed(e, i, n, t, k)
    PROVE  Millis(d, h, m, s, l) = Millis(e, i, n, t, k)
<1>1. d = e
  <2>1. Packed(d, h, m, s, l) \in Nat
    BY Zenon, ReadingType
  <2>2. /\ Packed(d, h, m, s, l) <= Packed(e, i, n, t, k)
        /\ Packed(e, i, n, t, k) <= Packed(d, h, m, s, l)
    BY SMT, <2>1
  <2>3. d <= e /\ e <= d
    BY Zenon, <2>2, DayOrder
  <2> QED
    BY SMT, <2>3
<1>2. h = i
  <2>1. Packed(d, h, m, s, l) \in Nat
    BY Zenon, ReadingType
  <2>2. /\ Packed(d, h, m, s, l) <= Packed(e, i, n, t, k)
        /\ Packed(e, i, n, t, k) <= Packed(d, h, m, s, l)
    BY SMT, <2>1
  <2>3. h <= i /\ i <= h
    BY Zenon, <1>1, <2>2, HourOrder
  <2> QED
    BY SMT, <2>3 DEF Hour
<1>3. 100000 * m + 1000 * s + l = 100000 * n + 1000 * t + k
  BY SMT, <1>1, <1>2 DEF Packed, Hour, Sixty, Milli
<1>4. m = n
  <2>1. 1000 * s + l < 100000 /\ 1000 * t + k < 100000
    BY SMT DEF Sixty, Milli
  <2>2. ASSUME m + 1 <= n PROVE FALSE
    BY SMTT(30), <1>3, <2>1, <2>2 DEF Sixty, Milli
  <2>3. ASSUME n + 1 <= m PROVE FALSE
    BY SMTT(30), <1>3, <2>1, <2>3 DEF Sixty, Milli
  <2> QED
    BY SMT, <2>2, <2>3 DEF Sixty
<1> QED
  BY SMT, <1>1, <1>2, <1>4 DEF Packed, Millis, Hour, Sixty, Milli

LEMMA PackedOrder ==
    ASSUME NEW ts, NEW ms, Stands(ts, ms), NEW tt, NEW mt, Stands(tt, mt)
    PROVE  /\ (ts <= tt) <=> (ms <= mt)
           /\ (ts <= tt) => (mt - ms <= tt - ts)
<1> PICK d \in Nat, h \in Hour, m \in Sixty, s \in Sixty, l \in Milli :
        ts = Packed(d, h, m, s, l) /\ ms = Millis(d, h, m, s, l)
  BY Zenon DEF Stands
<1> PICK e \in Nat, i \in Hour, n \in Sixty, t \in Sixty, k \in Milli :
        tt = Packed(e, i, n, t, k) /\ mt = Millis(e, i, n, t, k)
  BY Zenon DEF Stands
<1>1. /\ Packed(d, h, m, s, l) \in Nat /\ Packed(e, i, n, t, k) \in Nat
      /\ Millis(d, h, m, s, l) \in Nat /\ Millis(e, i, n, t, k) \in Nat
  BY Zenon, ReadingType
<1>2. (ts <= tt) => (mt - ms <= tt - ts)
  BY Zenon, DifferenceBound
<1>3. (ts < tt) => (ms < mt)
  BY Zenon, EarlierFirst
<1>4. (tt < ts) => (mt < ms)
  BY Zenon, EarlierFirst
<1>5. ASSUME ts = tt PROVE ms = mt
  <2>1. Packed(d, h, m, s, l) = Packed(e, i, n, t, k)
    BY Zenon, <1>5
  <2>2. Millis(d, h, m, s, l) = Millis(e, i, n, t, k)
    BY SMT, <2>1, SameReading
  <2> QED
    BY Zenon, <2>2
<1> QED
  BY SMT, <1>1, <1>2, <1>3, <1>4, <1>5

\* Within a minute the two differences are the same.
LEMMA ReadingInMinute ==
    ASSUME NEW d \in Nat, NEW h \in Hour, NEW m \in Sixty,
           NEW s \in Sixty, NEW l \in Milli,
           NEW e \in Nat, NEW i \in Hour, NEW n \in Sixty,
           NEW t \in Sixty, NEW k \in Milli,
           Millis(d, h, m, s, l) \in
             Millis(e, i, n, t, k) - (1000 * t + k)
               .. Millis(e, i, n, t, k) - (1000 * t + k) + 59999
    PROVE  Packed(e, i, n, t, k) - Packed(d, h, m, s, l)
             = Millis(e, i, n, t, k) - Millis(d, h, m, s, l)
<1>1. 1440 * d + 60 * h + m = 1440 * e + 60 * i + n
  BY SMT DEF Millis, Hour, Sixty, Milli
<1>2. d = e
  BY SMT, <1>1 DEF Hour, Sixty
<1>3. h = i /\ m = n
  BY SMT, <1>1, <1>2 DEF Hour, Sixty
<1> QED
  BY SMT, <1>2, <1>3 DEF Packed, Millis, Hour, Sixty, Milli
-----------------------------------------------------------------------------
(* What the packing does to a tick. *)

LEMMA TickFields ==
    ASSUME NEW cfg, NEW tick \in TickData, WellFormed(cfg, tick)
    PROVE  /\ BaseDay(cfg, tick) \in Nat
           /\ tick.hour \in Hour /\ tick.minute \in Sixty
           /\ tick.second \in Sixty /\ tick.milli \in Milli
  BY SMT DEF TickData, WellFormed, BaseDay, Hour, Sixty, Milli

LEMMA TickStands ==
    ASSUME NEW cfg, NEW tick \in TickData, WellFormed(cfg, tick)
    PROVE  Stands(CombineTimestamp(cfg, tick), Moment(cfg, tick))
  BY SMT, TickFields DEF CombineTimestamp, Moment, Stands
-----------------------------------------------------------------------------
(* The timestamp check. *)

\* The timestamp check in plain arithmetic.
LEMMA CheckArithmetic ==
    ASSUME NEW cfg \in SpecialConfig, NEW mark \in Nat, NEW ts \in Nat
    PROVE  /\ CheckTimestampNew(cfg, mark, ts) <=>
                 (ts >= mark \/ mark - ts <= cfg.max_disorder_tolerance_ms)
           /\ KeptTimestamp(cfg, mark, ts) = IF ts > mark THEN ts ELSE mark
<1>1. cfg.allow_same_ms_data \in BOOLEAN /\ cfg.max_disorder_tolerance_ms \in Int
  BY SMT DEF SpecialConfig
<1> QED
  BY SMT, <1>1 DEF CheckTimestampNew, KeptTimestamp

\* A kept timestamp stays a natural number, whatever tick comes.
LEMMA KeepsNat ==
    ASSUME NEW cfg \in SpecialConfig, NEW tick \in TickData, NEW last \in Nat
    PROVE  ValidateKeeps(cfg, last, tick) \in Nat
<1>1. BaseDay(cfg, tick) \in Int
  BY DEF BaseDay, TickData
<1>2. tick.hour \in Int /\ tick.minute \in Int /\ tick.second \in Int /\ tick.milli \in Int
  BY DEF TickData
<1>3. CombineTimestamp(cfg, tick) \in Int
  BY SMT, <1>1, <1>2 DEF CombineTimestamp, Packed
<1> DEFINE ts == CombineTimestamp(cfg, tick)
<1>4. KeptTimestamp(cfg, last, ts) \in Nat
  <2> HIDE DEF ts
  <2>1. ts \in Int
    BY <1>3 DEF ts
  <2>2. ts < 0 \/ ts \in Nat
    BY <2>1
  <2> QED
    BY Zenon, <2>2 DEF KeptTimestamp
<1> QED
  BY Zenon, <1>4 DEF ValidateKeeps
\* The kept timestamp never goes back.
LEMMA MarkRises ==
    ASSUME NEW cfg \in SpecialConfig, NEW tick \in TickData, NEW last \in Nat
    PROVE  last <= ValidateKeeps(cfg, last, tick)
<1> DEFINE ts == CombineTimestamp(cfg, tick)
<1>1. ts = -1 \/ ts \in Nat
  BY TickFields, ReadingType DEF CombineTimestamp
<1>2. last <= KeptTimestamp(cfg, last, ts)
  <2> HIDE DEF ts
  <2> QED
    BY SMT, <1>1 DEF KeptTimestamp
<1> QED
  BY <1>2 DEF ValidateKeeps

\* What a tick that was let through has to do with the timestamp kept before
\* and after it.
LEMMA PassedTimestamp ==
    ASSUME NEW cfg \in SpecialConfig, NEW tick \in TickData, NEW last \in Nat,
           cfg.enable_timestamp_check, Validate(cfg, last, tick)
    PROVE  /\ WellFormed(cfg, tick)
           /\ CombineTimestamp(cfg, tick) \in Nat
           /\ CombineTimestamp(cfg, tick) <= ValidateKeeps(cfg, last, tick)
           /\ \/ last <= CombineTimestamp(cfg, tick)
              \/ last - CombineTimestamp(cfg, tick) <= cfg.max_disorder_tolerance_ms
<1> DEFINE ts == CombineTimestamp(cfg, tick)
<1>1. CheckTimestampNew(cfg, last, ts) /\ TimestampChecked(cfg, tick)
  BY Zenon DEF Validate, TimestampChecked
<1>2. WellFormed(cfg, tick)
  <2> SUFFICES ASSUME ~WellFormed(cfg, tick) PROVE FALSE
    OBVIOUS
  <2>1. ts = -1
    BY DEF CombineTimestamp
  <2> QED
    BY SMT, <1>1, <2>1 DEF CheckTimestampNew
<1>3. ts \in Nat
  BY Zenon, <1>2, TickStands, StandsType
<1>4. ValidateKeeps(cfg, last, tick) = KeptTimestamp(cfg, last, ts)
  BY Zenon, <1>1 DEF ValidateKeeps
<1> HIDE DEF ts
<1>5. /\ ts >= last \/ last - ts <= cfg.max_disorder_tolerance_ms
      /\ KeptTimestamp(cfg, last, ts) = IF ts > last THEN ts ELSE last
  BY Zenon, <1>1, <1>3, CheckArithmetic
<1>6. ts <= KeptTimestamp(cfg, last, ts)
  BY SMT, <1>3, <1>5
<1>7. last <= ts \/ last - ts <= cfg.max_disorder_tolerance_ms
  BY SMT, <1>3, <1>5
<1> QED
  BY <1>2, <1>3, <1>4, <1>6, <1>7 DEF ts

\* A tick that the check lets pass after another has been kept is late by no
\* more than the tolerance, in real milliseconds.
LEMMA LateInMillis ==
    ASSUME NEW cfg \in SpecialConfig,
           NEW newer \in TickData, WellFormed(cfg, newer),
           NEW tick \in TickData, WellFormed(cfg, tick),
           NEW mark \in Nat, CombineTimestamp(cfg, newer) <= mark,
           \/ mark <= CombineTimestamp(cfg, tick)
           \/ mark - CombineTimestamp(cfg, tick) <= cfg.max_disorder_tolerance_ms,
           Moment(cfg, newer) - Moment(cfg, tick) > 0
    PROVE  Moment(cfg, newer) - Moment(cfg, tick) <= cfg.max_disorder_tolerance_ms
<1> DEFINE ts == CombineTimestamp(cfg, tick)
           tt == CombineTimestamp(cfg, newer)
           ms == Moment(cfg, tick)
           mt == Moment(cfg, newer)
<1>1. Stands(ts, ms) /\ Stands(tt, mt)
  BY Zenon, TickStands
<1>2. ts \in Nat /\ tt \in Nat /\ ms \in Nat /\ mt \in Nat
  BY Zenon, <1>1, StandsType
<1>3. /\ (tt <= ts) <=> (mt <= ms)
      /\ (ts <= tt) => (mt - ms <= tt - ts)
  BY Zenon, <1>1, PackedOrder
<1>4. cfg.max_disorder_tolerance_ms \in Int
  BY SMT DEF SpecialConfig
<1> HIDE DEF ts, tt, ms, mt
<1>5. mt - ms > 0 => mt - ms <= cfg.max_disorder_tolerance_ms
  BY SMT, <1>2, <1>3, <1>4 DEF ts, tt
<1> QED
  BY <1>5 DEF ms, mt
-----------------------------------------------------------------------------
(* Consequences for every tick. *)

\* Of the rules, only the base of the day has a part in reading the clock.
LEMMA SameDaySameReading ==
    ASSUME NEW cfg, NEW other, NEW tick, BaseDay(other, tick) = BaseDay(cfg, tick)
    PROVE  CombineTimestamp(other, tick) = CombineTimestamp(cfg, tick)
<1>1. WellFormed(other, tick) <=> WellFormed(cfg, tick)
  BY SMT DEF WellFormed
<1> QED
  BY Zenon, <1>1 DEF CombineTimestamp

\* allow_same_ms_data decides nothing: with it or without, validate returns the
\* same and keeps the same (UnitProcessor.h:231-249, against README.md:59).
THEOREM SameMsDecidesNothing ==
    ASSUME NEW cfg \in SpecialConfig, NEW b \in BOOLEAN,
           NEW tick \in TickData, NEW last \in Nat
    PROVE  /\ Validate([cfg EXCEPT !.allow_same_ms_data = b], last, tick)
                = Validate(cfg, last, tick)
           /\ ValidateKeeps([cfg EXCEPT !.allow_same_ms_data = b], last, tick)
                = ValidateKeeps(cfg, last, tick)
<1> DEFINE other == [cfg EXCEPT !.allow_same_ms_data = b]
           ts == CombineTimestamp(cfg, tick)
<1>1. /\ other.max_disorder_tolerance_ms = cfg.max_disorder_tolerance_ms
      /\ other \in SpecialConfig
      /\ CheckWhiteList(other, tick) = CheckWhiteList(cfg, tick)
      /\ BaseDay(other, tick) = BaseDay(cfg, tick)
      /\ CheckPriceValidity(other, tick) = CheckPriceValidity(cfg, tick)
      /\ CheckVolumeValidity(other, tick) = CheckVolumeValidity(cfg, tick)
      /\ other.enable_exchange_check = cfg.enable_exchange_check
      /\ other.enable_timestamp_check = cfg.enable_timestamp_check
      /\ other.enable_price_check = cfg.enable_price_check
      /\ other.enable_volume_check = cfg.enable_volume_check
      /\ other.enable_abnormal_packet_check = cfg.enable_abnormal_packet_check
  BY DEF SpecialConfig, CheckWhiteList, BaseDay, CheckPriceValidity, LimitsApply,
         WithinLimits, Adjacent, checkLevels, CheckVolumeValidity
<1>2. CombineTimestamp(other, tick) = ts
  <2> HIDE DEF other
  <2> QED
    BY Zenon, <1>1, SameDaySameReading
<1>3. ts = -1 \/ ts \in Nat
  BY TickFields, ReadingType DEF CombineTimestamp
<1> HIDE DEF other, ts
<1>4. /\ CheckTimestampNew(other, last, ts) = CheckTimestampNew(cfg, last, ts)
      /\ KeptTimestamp(other, last, ts) = KeptTimestamp(cfg, last, ts)
  <2>1. CASE ts = -1
    BY SMT, <2>1 DEF CheckTimestampNew, KeptTimestamp
  <2>2. CASE ts \in Nat
    <3>1. /\ CheckTimestampNew(cfg, last, ts) <=>
               (ts >= last \/ last - ts <= cfg.max_disorder_tolerance_ms)
          /\ KeptTimestamp(cfg, last, ts) = IF ts > last THEN ts ELSE last
      BY Zenon, <2>2, CheckArithmetic
    <3>2. /\ CheckTimestampNew(other, last, ts) <=>
               (ts >= last \/ last - ts <= cfg.max_disorder_tolerance_ms)
          /\ KeptTimestamp(other, last, ts) = IF ts > last THEN ts ELSE last
      BY Zenon, <1>1, <2>2, CheckArithmetic
    <3>3. /\ CheckTimestampNew(cfg, last, ts) \in BOOLEAN
          /\ CheckTimestampNew(other, last, ts) \in BOOLEAN
      BY Zenon DEF CheckTimestampNew
    <3>4. CheckTimestampNew(other, last, ts) <=> CheckTimestampNew(cfg, last, ts)
      BY Zenon, <3>1, <3>2
    <3>5. CheckTimestampNew(other, last, ts) = CheckTimestampNew(cfg, last, ts)
      BY <3>3, <3>4
    <3>6. KeptTimestamp(other, last, ts) = KeptTimestamp(cfg, last, ts)
      BY SMT, <3>1, <3>2
    <3> QED
      BY Zenon, <3>5, <3>6
  <2> QED
    BY Zenon, <1>3, <2>1, <2>2
<1>5. /\ Validate(other, last, tick) = Validate(cfg, last, tick)
      /\ ValidateKeeps(other, last, tick) = ValidateKeeps(cfg, last, tick)
  BY Zenon, <1>1, <1>2, <1>4 DEF Validate, ValidateKeeps, TimestampChecked, ts
<1> QED
  BY <1>5 DEF other

\* A minute in milliseconds, and how much more it is in packed digits.
MinuteMs == 60000
Excess == 40000

\* The number of a minute.
MinuteNo(d, h, m) == (d * 24 + h) * 60 + m

LEMMA MinuteNumber ==
    ASSUME NEW d \in Nat, NEW h \in Hour, NEW m \in Sixty,
           NEW s \in Sixty, NEW l \in Milli
    PROVE  Millis(d, h, m, s, l) \div MinuteMs = MinuteNo(d, h, m)
<1> DEFINE a == MinuteNo(d, h, m)
           b == 1000 * s + l
<1>1. a \in Nat
  BY SMT DEF Hour, Sixty, MinuteNo
<1>2. b \in Int /\ 0 <= b /\ b < MinuteMs
  BY SMT DEF Sixty, Milli, MinuteMs
<1>3. Millis(d, h, m, s, l) = MinuteMs * a + b
  BY SMT DEF Millis, Hour, Sixty, Milli, MinuteMs, MinuteNo
<1> HIDE DEF a, b
<1>4. (MinuteMs * a + b) \div MinuteMs = a
  BY SMT, <1>1, <1>2 DEF MinuteMs
<1> QED
  BY Zenon, <1>3, <1>4 DEF a

\* From one minute to another, packed digits are further apart than
\* milliseconds, by the excess of one minute at least.
LEMMA MinuteGap ==
    ASSUME NEW d \in Nat, NEW h \in Hour, NEW m \in Sixty,
           NEW s \in Sixty, NEW l \in Milli,
           NEW e \in Nat, NEW i \in Hour, NEW n \in Sixty,
           NEW t \in Sixty, NEW k \in Milli,
           Millis(d, h, m, s, l) \div MinuteMs < Millis(e, i, n, t, k) \div MinuteMs
    PROVE  /\ Millis(d, h, m, s, l) < Millis(e, i, n, t, k)
           /\ Packed(e, i, n, t, k) - Packed(d, h, m, s, l)
                >= Millis(e, i, n, t, k) - Millis(d, h, m, s, l) + Excess
<1>1. MinuteNo(d, h, m) < MinuteNo(e, i, n)
  <2>1. Millis(d, h, m, s, l) \div MinuteMs = MinuteNo(d, h, m)
    BY Zenon, MinuteNumber
  <2>2. Millis(e, i, n, t, k) \div MinuteMs = MinuteNo(e, i, n)
    BY SMT, MinuteNumber
  <2> QED
    BY Zenon, <2>1, <2>2
<1>2. Millis(d, h, m, s, l) < Millis(e, i, n, t, k)
  BY SMT, <1>1 DEF Millis, Hour, Sixty, Milli, MinuteNo
<1>3. \/ d < e
      \/ d = e /\ h < i
      \/ d = e /\ h = i /\ m < n
  BY SMT, <1>1 DEF Hour, Sixty, MinuteNo
<1>4. Packed(e, i, n, t, k) - Packed(d, h, m, s, l)
        >= Millis(e, i, n, t, k) - Millis(d, h, m, s, l) + Excess
  BY SMT, <1>3 DEF Packed, Millis, Hour, Sixty, Milli, Excess
<1> QED
  BY Zenon, <1>2, <1>4

\* No disorder is tolerated from one minute to the next, unless the tolerance is
\* above 40 000: after a tick of a later minute, however little later, a tick
\* is refused (UnitProcessor.h:237, against README.md:58; the default is 10).
THEOREM MinutesAreBarriers ==
    ASSUME NEW cfg \in SpecialConfig, cfg.max_disorder_tolerance_ms <= Excess,
           NEW newer \in TickData, WellFormed(cfg, newer),
           NEW tick \in TickData, WellFormed(cfg, tick),
           Moment(cfg, tick) \div MinuteMs < Moment(cfg, newer) \div MinuteMs
    PROVE  ~CheckTimestampNew(cfg, CombineTimestamp(cfg, newer), CombineTimestamp(cfg, tick))
<1> DEFINE ts == CombineTimestamp(cfg, tick)
           tt == CombineTimestamp(cfg, newer)
           ms == Moment(cfg, tick)
           mt == Moment(cfg, newer)
<1>1. Stands(ts, ms) /\ Stands(tt, mt)
  BY Zenon, TickStands
<1>2. ts \in Nat /\ tt \in Nat /\ ms \in Nat /\ mt \in Nat
  BY Zenon, <1>1, StandsType
<1>3. cfg.max_disorder_tolerance_ms \in Int
  BY SMT DEF SpecialConfig
<1>4. ms \div MinuteMs < mt \div MinuteMs
  OBVIOUS
<1> HIDE DEF ts, tt, ms, mt
<1>5. ms < mt /\ tt - ts >= mt - ms + Excess
  <2>1. PICK d \in Nat, h \in Hour, m \in Sixty, s \in Sixty, l \in Milli :
           ts = Packed(d, h, m, s, l) /\ ms = Millis(d, h, m, s, l)
    BY Zenon, <1>1 DEF Stands
  <2>2. PICK e \in Nat, i \in Hour, n \in Sixty, t \in Sixty, k \in Milli :
           tt = Packed(e, i, n, t, k) /\ mt = Millis(e, i, n, t, k)
    BY Zenon, <1>1 DEF Stands
  <2> QED
    BY Zenon, <1>4, <2>1, <2>2, MinuteGap
<1>6. CheckTimestampNew(cfg, tt, ts) <=>
        (ts >= tt \/ tt - ts <= cfg.max_disorder_tolerance_ms)
  BY Zenon, <1>2, CheckArithmetic
<1>7. ~CheckTimestampNew(cfg, tt, ts)
  BY SMT, <1>2, <1>3, <1>5, <1>6 DEF Excess
<1> QED
  BY Zenon, <1>7 DEF ts, tt

\* A tick that the dispatcher builds has a book without volumes: zeros go out,
\* and of the volume checks only that of the total can refuse it
\* (TickData.h:33-49, UnitProcessor.h:322-345, against README.md:108-109).
THEOREM DispatchedBooksAreEmpty ==
    ASSUME NEW data \in TickData, NEW cfg \in SpecialConfig
    PROVE  /\ fillProtoData(TickDataFrom(data)).bid_volume = [i \in Levels |-> 0]
           /\ fillProtoData(TickDataFrom(data)).ask_volume = [i \in Levels |-> 0]
           /\ CheckVolumeValidity(cfg, TickDataFrom(data)) <=> data.volume >= 0
<1> DEFINE zeros == [i \in Levels |-> 0]
           tick == TickDataFrom(data)
<1>1. tick.bid_volume = zeros /\ tick.ask_volume = zeros /\ tick.volume = data.volume
  BY DEF TickDataFrom, TickData
<1>2. \A i \in 1 .. checkLevels(cfg) : i \in Levels
  BY SMT DEF checkLevels, Levels, MaxLevels, SpecialConfig
<1>3. \A i \in 1 .. checkLevels(cfg) : zeros[i] = 0
  BY <1>2
<1> HIDE DEF zeros, tick
<1>4. CheckVolumeValidity(cfg, tick) <=> data.volume >= 0
  BY SMT, <1>1, <1>3 DEF CheckVolumeValidity
<1>5. fillProtoData(tick).bid_volume = zeros /\ fillProtoData(tick).ask_volume = zeros
  BY <1>1 DEF fillProtoData
<1> QED
  BY <1>4, <1>5 DEF zeros, tick
-----------------------------------------------------------------------------
(* The book. *)

\* Comparing neighbours sorts a ladder of at most five levels.
LEMMA SortedLadder ==
    ASSUME NEW f \in Ladder, NEW n \in Levels,
           \A i \in 2 .. n : f[i] <= f[i - 1]
    PROVE  \A i, j \in 1 .. n : i <= j => f[j] <= f[i]
<1>1. /\ n \in 1 .. 5
      /\ f[1] \in Int /\ f[2] \in Int /\ f[3] \in Int /\ f[4] \in Int /\ f[5] \in Int
  BY SMT DEF Ladder, Levels, MaxLevels
<1>2. /\ (n >= 2) => (f[2] <= f[1])
      /\ (n >= 3) => (f[3] <= f[2])
      /\ (n >= 4) => (f[4] <= f[3])
      /\ (n >= 5) => (f[5] <= f[4])
  <2>1. (n >= 2) => (f[2] <= f[2 - 1])
    BY SMT, <1>1
  <2>2. (n >= 3) => (f[3] <= f[3 - 1])
    BY SMT, <1>1
  <2>3. (n >= 4) => (f[4] <= f[4 - 1])
    BY SMT, <1>1
  <2>4. (n >= 5) => (f[5] <= f[5 - 1])
    BY SMT, <1>1
  <2> QED
    BY SMT, <2>1, <2>2, <2>3, <2>4
<1> SUFFICES ASSUME NEW i \in 1 .. n, NEW j \in 1 .. n, i <= j
             PROVE  f[j] <= f[i]
  OBVIOUS
<1>3. i \in {1, 2, 3, 4, 5} /\ j \in {1, 2, 3, 4, 5}
  BY SMT, <1>1
<1> QED
  BY SMT, <1>1, <1>2, <1>3

\* The same of a ladder that rises.
LEMMA SortedRising ==
    ASSUME NEW f \in Ladder, NEW n \in Levels,
           \A i \in 2 .. n : f[i] >= f[i - 1]
    PROVE  \A i, j \in 1 .. n : i <= j => f[i] <= f[j]
<1> DEFINE g == [i \in Levels |-> 0 - f[i]]
<1>1. g \in Ladder
  BY SMT DEF Ladder
<1>2. \A i \in 1 .. n : g[i] = 0 - f[i] /\ f[i] \in Int
  BY SMT DEF Ladder, Levels, MaxLevels
<1>3. \A i \in 2 .. n : i \in 1 .. n /\ i - 1 \in 1 .. n
  BY SMT DEF Levels, MaxLevels
<1> HIDE DEF g
<1>4. \A i \in 2 .. n : g[i] <= g[i - 1]
  BY SMT, <1>2, <1>3
<1>5. \A i, j \in 1 .. n : i <= j => g[j] <= g[i]
  BY SMT, <1>1, <1>4, SortedLadder
<1> QED
  BY SMT, <1>2, <1>5
=============================================================================
