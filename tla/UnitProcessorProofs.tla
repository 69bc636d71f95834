------------------------ MODULE UnitProcessorProofs ------------------------
(***************************************************************************)
(* Proofs about UnitProcessor, for every set of rules and of ticks.        *)
(*                                                                         *)
(* The timestamp rules compare decimal-packed readings, the properties     *)
(* speak of milliseconds.  What joins them is arithmetic (PackedOrder: the *)
(* packing keeps the order and never shrinks a difference) and the         *)
(* invariant Mark: m_lastTimestamp is the packed form of the very reading  *)
(* that newest counts in milliseconds.                                     *)
(***************************************************************************)
EXTENDS UnitProcessor, TickRulesProofs

\* The mark and the history agree.
Mark == (m_lastTimestamp = 0 /\ newest = -1) \/ Stands(m_lastTimestamp, newest)

\* What holds of the previous verdict.
Verdict == StalenessBounded /\ InOrderPasses /\ MildDisorderPasses

IInv == TypeOK /\ Mark /\ Verdict
-----------------------------------------------------------------------------
(* What the packing does to a tick, beside the history. *)

LEMMA TickInMinute ==
    ASSUME NEW cfg, NEW tick \in TickData, WellFormed(cfg, tick),
           NEW ts, NEW ms, Stands(ts, ms), ms \in MinuteSpan(cfg, tick)
    PROVE  CombineTimestamp(cfg, tick) - ts = Moment(cfg, tick) - ms
<1> PICK d \in Nat, h \in Hour, m \in Sixty, s \in Sixty, l \in Milli :
        ts = Packed(d, h, m, s, l) /\ ms = Millis(d, h, m, s, l)
  BY Zenon DEF Stands
<1> PICK e \in Nat, i \in Hour, n \in Sixty, t \in Sixty, k \in Milli :
        /\ CombineTimestamp(cfg, tick) = Packed(e, i, n, t, k)
        /\ Moment(cfg, tick) = Millis(e, i, n, t, k)
        /\ t = tick.second /\ k = tick.milli
  BY Zenon, TickFields DEF CombineTimestamp, Moment
<1>1. Millis(d, h, m, s, l) \in
        Millis(e, i, n, t, k) - (1000 * t + k)
          .. Millis(e, i, n, t, k) - (1000 * t + k) + 59999
  BY SMT DEF MinuteSpan
<1>2. Packed(e, i, n, t, k) - Packed(d, h, m, s, l)
        = Millis(e, i, n, t, k) - Millis(d, h, m, s, l)
  BY SMT, <1>1, ReadingInMinute
<1> QED
  BY Zenon, <1>2
-----------------------------------------------------------------------------
(* The invariant. *)

LEMMA ConfigType ==
    ASSUME NEW cfg \in Configs
    PROVE  /\ cfg \in SpecialConfig
           /\ cfg.max_disorder_tolerance_ms \in Int
           /\ cfg.allow_same_ms_data \in BOOLEAN
           /\ cfg.enable_timestamp_check \in BOOLEAN
           /\ cfg.enable_exchange_check \in BOOLEAN
  BY SMT, ConfigsAssumption DEF SpecialConfig

LEMMA InitStep == Init => IInv
<1> SUFFICES ASSUME Init PROVE IInv
  OBVIOUS
<1>1. TypeOK
  BY SMT DEF Init, TypeOK
<1>2. Mark
  BY SMT DEF Init, Mark
<1>3. Verdict
  BY SMT DEF Init, Verdict, StalenessBounded, InOrderPasses, MildDisorderPasses,
     Dated, NoRecord
<1> QED
  BY <1>1, <1>2, <1>3 DEF IInv

\* What the check says and does to the mark, in milliseconds.
LEMMA CheckInMillis ==
    ASSUME NEW cfg \in Configs, NEW tick \in Ticks, WellFormed(cfg, tick),
           NEW mark \in Nat, NEW new \in Nat, Stands(mark, new),
           NEW ts, ts = CombineTimestamp(cfg, tick),
           NEW now, now = Moment(cfg, tick),
           NEW tol, tol = cfg.max_disorder_tolerance_ms
    PROVE  /\ now \in Nat /\ ts \in Nat /\ tol \in Int
           /\ (new <= now) => CheckTimestampNew(cfg, mark, ts)
           /\ (CheckTimestampNew(cfg, mark, ts) /\ new > now) => (new - now <= tol)
           /\ (new \in MinuteSpan(cfg, tick) /\ new - now <= tol)
                 => CheckTimestampNew(cfg, mark, ts)
           /\ (now > new) => Stands(KeptTimestamp(cfg, mark, ts), now)
           /\ ~(now > new) => (KeptTimestamp(cfg, mark, ts) = mark)
<1>1. tick \in TickData
  BY SMT, TicksAssumption
<1>2. Stands(ts, now)
  BY Zenon, <1>1, TickStands
<1>3. ts \in Nat /\ now \in Nat
  BY Zenon, <1>2, StandsType
<1>4. tol \in Int
  BY Zenon, ConfigType
<1>5. /\ CheckTimestampNew(cfg, mark, ts) <=> (ts >= mark \/ mark - ts <= tol)
      /\ KeptTimestamp(cfg, mark, ts) = IF ts > mark THEN ts ELSE mark
  BY Zenon, <1>3, ConfigType, CheckArithmetic
<1>6. /\ (ts <= mark) <=> (now <= new)
      /\ (ts <= mark) => (new - now <= mark - ts)
      /\ (mark <= ts) <=> (new <= now)
  BY Zenon, <1>2, PackedOrder
<1>7. ASSUME new \in MinuteSpan(cfg, tick)
      PROVE  ts - mark = now - new
  <2>1. CombineTimestamp(cfg, tick) - mark = Moment(cfg, tick) - new
    BY SMT, <1>1, <1>7, TickInMinute
  <2> QED
    BY Zenon, <2>1
<1>8. (now > new) => Stands(KeptTimestamp(cfg, mark, ts), now)
  <2>1. (now > new) => (ts > mark)
    BY SMT, <1>3, <1>6
  <2> QED
    BY Zenon, <1>2, <1>5, <2>1
<1>9. ~(now > new) => (KeptTimestamp(cfg, mark, ts) = mark)
  BY SMT, <1>3, <1>5, <1>6
<1>10. /\ (new <= now) => CheckTimestampNew(cfg, mark, ts)
       /\ (CheckTimestampNew(cfg, mark, ts) /\ new > now) => (new - now <= tol)
  BY SMT, <1>3, <1>4, <1>5, <1>6
<1>11. (new \in MinuteSpan(cfg, tick) /\ new - now <= tol)
          => CheckTimestampNew(cfg, mark, ts)
  BY SMT, <1>3, <1>4, <1>5, <1>7
<1> QED
  BY Zenon, <1>3, <1>4, <1>8, <1>9, <1>10, <1>11

\* The first tick that is stamped passes and sets the mark.
LEMMA FirstCheck ==
    ASSUME NEW cfg \in Configs, NEW tick \in Ticks, WellFormed(cfg, tick)
    PROVE  /\ Moment(cfg, tick) \in Nat
           /\ CheckTimestampNew(cfg, 0, CombineTimestamp(cfg, tick))
           /\ Stands(KeptTimestamp(cfg, 0, CombineTimestamp(cfg, tick)), Moment(cfg, tick))
<1>1. tick \in TickData
  BY SMT, TicksAssumption
<1>2. Stands(CombineTimestamp(cfg, tick), Moment(cfg, tick))
  BY Zenon, <1>1, TickStands
<1>3. CombineTimestamp(cfg, tick) \in Nat /\ Moment(cfg, tick) \in Nat
  BY Zenon, <1>2, StandsType
<1> DEFINE ts == CombineTimestamp(cfg, tick)
<1>4. /\ CheckTimestampNew(cfg, 0, ts)
             <=> (ts >= 0 \/ 0 - ts <= cfg.max_disorder_tolerance_ms)
      /\ KeptTimestamp(cfg, 0, ts) = IF ts > 0 THEN ts ELSE 0
  <2>1. cfg \in SpecialConfig /\ 0 \in Nat
    BY SMT, ConfigType
  <2> QED
    BY Zenon, <1>3, <2>1, CheckArithmetic
<1>5. ts >= 0 /\ KeptTimestamp(cfg, 0, ts) = ts
  <2> HIDE DEF ts
  <2> QED
    BY SMT, <1>3, <1>4 DEF ts
<1> QED
  BY Zenon, <1>2, <1>3, <1>4, <1>5

\* One validate.
LEMMA ValidateStep ==
    ASSUME IInv, NEW tick \in Ticks, validate(tick)
    PROVE  IInv'
<1> DEFINE now == Moment(m_config, tick)
           ts  == CombineTimestamp(m_config, tick)
<1>1. /\ m_config' = m_config /\ m_config \in Configs
      /\ m_lastTimestamp \in Nat /\ newest \in Nat \cup {-1}
  BY SMT DEF validate, IInv, TypeOK
<1>2. /\ last'.ran /\ last'.tick = tick /\ last'.newest = newest
      /\ last'.stamped = Stamped(tick)
      /\ last'.ok = Validate(m_config, m_lastTimestamp, tick)
      /\ Stamped(tick) \in BOOLEAN
      /\ Validate(m_config, m_lastTimestamp, tick) \in BOOLEAN
      /\ last' \in [ran : {TRUE}, tick : Ticks, newest : Nat \cup {-1},
                    stamped : BOOLEAN, ok : BOOLEAN]
  BY <1>1, Zenon DEF validate, Stamped, Validate
<1>3. /\ m_lastTimestamp' = ValidateKeeps(m_config, m_lastTimestamp, tick)
      /\ newest' = IF Stamped(tick) /\ now > newest THEN now ELSE newest
  BY Zenon DEF validate
<1>4. Validate(m_config, m_lastTimestamp, tick) /\ TimestampChecked(m_config, tick)
         => Stamped(tick)
  BY Zenon DEF Validate, TimestampChecked, Stamped
<1> DEFINE check == CheckTimestampNew(m_config, m_lastTimestamp, ts)
           tol == m_config.max_disorder_tolerance_ms
           span == MinuteSpan(m_config, tick)
           ok == Validate(m_config, m_lastTimestamp, tick)
           checked == TimestampChecked(m_config, tick)
<1>5. Stamped(tick) <=> checked /\ check
  BY Zenon DEF Stamped
\* The verdict, once its parts are known.
<1>6. ASSUME ok /\ checked /\ newest - now > 0 => newest - now <= tol,
             checked /\ WellFormed(m_config, tick) /\ newest - now <= 0 => check,
             checked /\ WellFormed(m_config, tick) /\ newest \in span
                /\ newest - now <= tol => check
      PROVE  Verdict'
  <2>1. StalenessBounded'
    BY <1>1, <1>2, <1>6 DEF StalenessBounded, Lag
  <2>2. InOrderPasses'
    BY <1>1, <1>2, <1>5, <1>6 DEF InOrderPasses, Lag, Dated
  <2>3. MildDisorderPasses'
    BY <1>1, <1>2, <1>5, <1>6 DEF MildDisorderPasses, Lag, Dated
  <2> QED
    BY <2>1, <2>2, <2>3 DEF Verdict
\* The state, once its parts are known.
<1>7. ASSUME m_lastTimestamp' \in Nat, newest' \in Nat \cup {-1}
      PROVE  TypeOK'
  BY <1>1, <1>2, <1>7 DEF TypeOK
<1>8. CASE ~checked
  <2>1. m_lastTimestamp' = m_lastTimestamp /\ newest' = newest
    BY Zenon, <1>3, <1>5, <1>8 DEF ValidateKeeps
  <2>2. Mark'
    BY Zenon, <2>1 DEF Mark, IInv
  <2>3. TypeOK'
    BY <1>1, <1>7, <2>1
  <2>4. Verdict'
    BY <1>6, <1>8
  <2> QED
    BY <2>2, <2>3, <2>4 DEF IInv
<1>9. CASE checked /\ ~WellFormed(m_config, tick)
  <2>1. ts = -1
    BY Zenon, <1>9 DEF CombineTimestamp
  <2>2. ~check /\ KeptTimestamp(m_config, m_lastTimestamp, ts) = m_lastTimestamp
    BY SMT, <2>1 DEF CheckTimestampNew, KeptTimestamp
  <2>3. m_lastTimestamp' = m_lastTimestamp /\ newest' = newest
    BY Zenon, <1>3, <1>5, <1>9, <2>2 DEF ValidateKeeps
  <2>4. Mark'
    BY Zenon, <2>3 DEF Mark, IInv
  <2>5. TypeOK'
    BY <1>1, <1>7, <2>3
  <2>6. ~ok
    BY Zenon, <1>4, <1>5, <1>9, <2>2
  <2>7. Verdict'
    BY <1>6, <1>9, <2>6
  <2> QED
    BY <2>4, <2>5, <2>7 DEF IInv
<1>10. CASE checked /\ WellFormed(m_config, tick)
  <2>1. m_lastTimestamp' = KeptTimestamp(m_config, m_lastTimestamp, ts)
    BY Zenon, <1>3, <1>10 DEF ValidateKeeps
  <2>2. CASE m_lastTimestamp = 0 /\ newest = -1
    <3>1. now \in Nat /\ check /\ Stands(m_lastTimestamp', now)
      BY Zenon, <1>1, <1>10, <2>1, <2>2, FirstCheck
    <3>2. now > newest
      BY SMT, <2>2, <3>1
    <3>3. newest' = now
      BY Zenon, <1>3, <1>5, <1>10, <3>1, <3>2
    <3>4. Mark' /\ m_lastTimestamp' \in Nat
      BY Zenon, <3>1, <3>3, StandsType DEF Mark
    <3>5. TypeOK'
      BY <1>7, <3>1, <3>3, <3>4
    <3>6. ~(newest - now > 0)
      BY SMT, <2>2, <3>1
    <3>7. Verdict'
      BY <1>6, <3>1, <3>6
    <3> QED
      BY <3>4, <3>5, <3>7 DEF IInv
  <2>3. CASE Stands(m_lastTimestamp, newest)
    <3>1. newest \in Nat
      BY Zenon, <2>3, StandsType
    <3>2. /\ now \in Nat /\ ts \in Nat /\ tol \in Int
          /\ (newest <= now) => check
          /\ (check /\ newest > now) => (newest - now <= tol)
          /\ (newest \in span /\ newest - now <= tol) => check
          /\ (now > newest) => Stands(m_lastTimestamp', now)
          /\ ~(now > newest) => (m_lastTimestamp' = m_lastTimestamp)
      BY SMT, <1>1, <1>10, <2>1, <2>3, <3>1, CheckInMillis
    <3>3. CASE now > newest
      <4>1. check
        BY SMT, <3>1, <3>2, <3>3
      <4>2. newest' = now
        BY Zenon, <1>3, <1>5, <1>10, <3>3, <4>1
      <4>3. Mark' /\ m_lastTimestamp' \in Nat
        BY Zenon, <3>2, <3>3, <4>2, StandsType DEF Mark
      <4>4. TypeOK'
        BY <1>7, <3>2, <4>2, <4>3
      <4>5. ~(newest - now > 0)
        BY SMT, <3>1, <3>2, <3>3
      <4>6. Verdict'
        BY <1>6, <4>1, <4>5
      <4> QED
        BY <4>3, <4>4, <4>6 DEF IInv
    <3>4. CASE ~(now > newest)
      <4>1. m_lastTimestamp' = m_lastTimestamp /\ newest' = newest
        BY Zenon, <1>3, <3>2, <3>4
      <4>2. Mark'
        BY Zenon, <4>1, <2>3 DEF Mark
      <4>3. TypeOK'
        BY <1>1, <1>7, <4>1
      <4>4. (newest - now > 0) => (newest > now)
        BY SMT, <3>1, <3>2
      <4>5. (newest - now <= 0) => (newest <= now)
        BY SMT, <3>1, <3>2
      <4>6. Verdict'
        BY <1>4, <1>5, <1>6, <3>2, <4>4, <4>5
      <4> QED
        BY <4>2, <4>3, <4>6 DEF IInv
    <3> QED
      BY <3>3, <3>4
  <2> QED
    BY <2>2, <2>3 DEF IInv, Mark
<1> QED
  BY <1>8, <1>9, <1>10

LEMMA ResetStep ==
    ASSUME IInv, reset
    PROVE  IInv'
<1>1. TypeOK'
  BY SMT DEF IInv, TypeOK, reset
<1>2. Mark'
  BY SMT DEF Mark, reset
<1>3. Verdict'
  BY SMT DEF Verdict, StalenessBounded, InOrderPasses, MildDisorderPasses,
     Dated, NoRecord, reset
<1> QED
  BY <1>1, <1>2, <1>3 DEF IInv

LEMMA IInvNext ==
    ASSUME IInv, [Next]_vars
    PROVE  IInv'
<1>1. CASE \E tick \in Ticks : validate(tick)
  BY <1>1, ValidateStep
<1>2. CASE reset
  BY <1>2, ResetStep
<1>3. CASE UNCHANGED vars
  BY Zenon, <1>3 DEF vars, IInv, TypeOK, Mark, Verdict, StalenessBounded,
     InOrderPasses, MildDisorderPasses, Dated, Lag
<1> QED
  BY <1>1, <1>2, <1>3 DEF Next

THEOREM Invariance == Spec => []IInv
<1>1. Init => IInv
  BY InitStep
<1>2. IInv /\ [Next]_vars => IInv'
  BY IInvNext
<1> QED
  BY <1>1, <1>2, PTL DEF Spec
-----------------------------------------------------------------------------
(* The theorems. *)

\* The detector's state keeps its shape, for every tick that may arrive.
THEOREM TypeCorrect == Spec => []TypeOK
<1>1. IInv => TypeOK
  BY DEF IInv
<1> QED
  BY <1>1, Invariance, PTL

\* No forwarded tick is later than the tolerance, in real milliseconds, though
\* the code compares decimal-packed timestamps.
THEOREM ForwardedIsFresh == Spec => []StalenessBounded
<1>1. IInv => StalenessBounded
  BY DEF IInv, Verdict
<1> QED
  BY <1>1, Invariance, PTL

\* The timestamp check never refuses a tick for being in order.
THEOREM InOrderIsAccepted == Spec => []InOrderPasses
<1>1. IInv => InOrderPasses
  BY DEF IInv, Verdict
<1> QED
  BY <1>1, Invariance, PTL

\* Within a minute the configured tolerance is exact.
THEOREM MildDisorderIsAccepted == Spec => []MildDisorderPasses
<1>1. IInv => MildDisorderPasses
  BY DEF IInv, Verdict
<1> QED
  BY <1>1, Invariance, PTL

\* A tick of an exchange that is not listed cannot touch the mark.
THEOREM StrangersAreIgnored == Spec => StrangersLeaveNoTrace
<1>1. ASSUME TypeOK, Next,
             last'.ran, m_config.enable_exchange_check,
             m_config.exchange_whitelist # {},
             last'.tick.exchange \notin m_config.exchange_whitelist
      PROVE  ~last'.ok /\ UNCHANGED <<m_lastTimestamp, newest>>
  <2>1. CASE reset
    BY SMT, <1>1, <2>1 DEF reset, NoRecord
  <2>2. ASSUME NEW tick \in Ticks, validate(tick)
        PROVE  ~last'.ok /\ UNCHANGED <<m_lastTimestamp, newest>>
    <3>1. /\ last'.tick = tick
          /\ last'.ok = Validate(m_config, m_lastTimestamp, tick)
      BY Zenon, <2>2 DEF validate
    <3>2. ~CheckWhiteList(m_config, tick)
      BY Zenon, <1>1, <3>1 DEF CheckWhiteList
    <3>3. ~TimestampChecked(m_config, tick)
      BY Zenon, <1>1, <3>2 DEF TimestampChecked
    <3>4. ~Validate(m_config, m_lastTimestamp, tick)
      BY Zenon, <1>1, <3>2 DEF Validate
    <3>5. m_lastTimestamp' = m_lastTimestamp /\ newest' = newest
      BY Zenon, <2>2, <3>3 DEF validate, ValidateKeeps, Stamped
    <3> QED
      BY Zenon, <3>1, <3>4, <3>5
  <2> QED
    BY Zenon, <1>1, <2>1, <2>2 DEF Next
<1>2. TypeOK /\ [Next]_vars =>
        [ ( /\ last'.ran
            /\ m_config.enable_exchange_check
            /\ m_config.exchange_whitelist # {}
            /\ last'.tick.exchange \notin m_config.exchange_whitelist )
          => (~last'.ok /\ UNCHANGED <<m_lastTimestamp, newest>>) ]_vars
  BY Zenon, <1>1
<1> QED
  BY <1>2, TypeCorrect, PTL DEF Spec, StrangersLeaveNoTrace
-----------------------------------------------------------------------------
(* The book. *)

\* A book that passes and has no hole is sorted and not crossed.
LEMMA PassedBookIsSorted ==
    ASSUME NEW cfg \in Configs, NEW t \in Ticks, CheckPriceValidity(cfg, t),
           \A i \in 1 .. checkLevels(cfg) :
              Quoted(t.bid_price[i]) /\ Quoted(t.ask_price[i])
    PROVE  \A i, j \in 1 .. checkLevels(cfg) :
              /\ i <= j => /\ t.bid_price[i] >= t.bid_price[j]
                           /\ t.ask_price[i] <= t.ask_price[j]
              /\ t.bid_price[i] - t.ask_price[j]
                    <= cfg.max_invert_spread_tick * cfg.tick_size
<1> DEFINE n == checkLevels(cfg)
           most == cfg.max_invert_spread_tick * cfg.tick_size
<1>0. n \in Int /\ n <= 5 /\ most \in Int
  BY SMT, ConfigsAssumption DEF SpecialConfig, MaxLevels, checkLevels
<1> SUFFICES ASSUME 1 <= n PROVE \A i, j \in 1 .. n :
         /\ i <= j => t.bid_price[i] >= t.bid_price[j] /\ t.ask_price[i] <= t.ask_price[j]
         /\ t.bid_price[i] - t.ask_price[j] <= most
  <2> HIDE DEF n, most
  <2>1. ~(1 <= n) => 1 .. n = {}
    BY SMT, <1>0
  <2> QED
    BY <2>1 DEF n, most
<1>1. n \in Levels /\ n \in 1 .. 5 /\ most \in Int
  BY SMT, <1>0 DEF Levels, MaxLevels
<1>2. t.bid_price \in Ladder /\ t.ask_price \in Ladder
  BY SMT, TicksAssumption DEF TickData
<1>3. \A i \in 2 .. n : i \in Levels /\ i \in 1 .. n /\ i - 1 \in 1 .. n
  BY SMT, <1>1 DEF Levels, MaxLevels
<1>4. \A i \in 2 .. n : /\ t.bid_price[i] <= t.bid_price[i - 1]
                        /\ t.ask_price[i] >= t.ask_price[i - 1]
  BY SMT, <1>3 DEF CheckPriceValidity, Adjacent
<1>5. t.bid_price[1] - t.ask_price[1] <= most
  <2>1. 1 \in 1 .. n
    BY SMT, <1>1
  <2> QED
    BY SMT, <2>1 DEF CheckPriceValidity
<1> HIDE DEF n, most
<1>6. \A i, j \in 1 .. n : i <= j => t.bid_price[j] <= t.bid_price[i]
  BY SMT, <1>1, <1>2, <1>4, SortedLadder
<1>7. \A i, j \in 1 .. n : i <= j => t.ask_price[i] <= t.ask_price[j]
  BY SMT, <1>1, <1>2, <1>4, SortedRising
<1>8. \A i \in 1 .. n : t.bid_price[i] \in Int /\ t.ask_price[i] \in Int
  BY SMT, <1>1, <1>2 DEF Ladder, Levels, MaxLevels
<1>9. \A i \in 1 .. n : 1 \in 1 .. n /\ 1 <= i
  BY SMT, <1>1
<1>10. \A i, j \in 1 .. n : t.bid_price[i] - t.ask_price[j] <= most
  <2> TAKE i, j \in 1 .. n
  <2>1. t.bid_price[i] <= t.bid_price[1] /\ t.ask_price[1] <= t.ask_price[j]
    BY SMT, <1>6, <1>7, <1>9
  <2> QED
    BY SMT, <1>1, <1>5, <1>8, <1>9, <2>1
<1>11. \A i, j \in 1 .. n :
         /\ i <= j => t.bid_price[i] >= t.bid_price[j] /\ t.ask_price[i] <= t.ask_price[j]
         /\ t.bid_price[i] - t.ask_price[j] <= most
  BY SMT, <1>6, <1>7, <1>8, <1>10
<1> QED
  BY SMT, <1>11

\* Every forwarded book without a hole is sorted as a whole and not crossed
\* by more than the tolerance, at every pair of checked levels.
THEOREM ForwardedBookIsSorted == Spec => []SortedBook
<1> DEFINE Passed ==
      (last.ran /\ last.ok /\ m_config.enable_price_check)
          => CheckPriceValidity(m_config, last.tick)
<1>1. Init => Passed
  BY SMT DEF Init, NoRecord
<1>2. TypeOK /\ Passed /\ [Next]_vars => Passed'
  <2> SUFFICES ASSUME TypeOK, Passed, [Next]_vars PROVE Passed'
    OBVIOUS
  <2>1. ASSUME NEW tick \in Ticks, validate(tick) PROVE Passed'
    <3>1. /\ last'.tick = tick /\ m_config' = m_config
          /\ last'.ok = Validate(m_config, m_lastTimestamp, tick)
      BY Zenon, <2>1 DEF validate
    <3>2. Validate(m_config, m_lastTimestamp, tick) /\ m_config.enable_price_check
             => CheckPriceValidity(m_config, tick)
      BY Zenon DEF Validate
    <3> QED
      BY Zenon, <3>1, <3>2
  <2>2. CASE reset
    BY SMT, <2>2 DEF reset, NoRecord
  <2>3. CASE UNCHANGED vars
    BY Zenon, <2>3 DEF vars
  <2> QED
    BY Zenon, <2>1, <2>2, <2>3 DEF Next
<1>3. TypeOK /\ Passed => SortedBook
  <2> SUFFICES ASSUME TypeOK, Passed, last.ran, last.ok, m_config.enable_price_check
               PROVE  SortedBook
    BY Zenon DEF SortedBook
  <2>1. m_config \in Configs /\ last.tick \in Ticks
    <3>1. NoRecord.ran = FALSE
      BY Zenon DEF NoRecord
    <3>2. last # NoRecord
      BY Zenon, <3>1
    <3>3. last \in [ran : {TRUE}, tick : Ticks, newest : Nat \cup {-1},
                    stamped : BOOLEAN, ok : BOOLEAN]
      BY Zenon, <3>2 DEF TypeOK
    <3> QED
      BY Zenon, <3>3 DEF TypeOK
  <2>2. CheckPriceValidity(m_config, last.tick)
    BY Zenon
  <2> QED
    BY Zenon, <2>1, <2>2, PassedBookIsSorted DEF SortedBook
<1> QED
  BY <1>1, <1>2, <1>3, TypeCorrect, PTL DEF Spec
=============================================================================
