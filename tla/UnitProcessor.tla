--------------------------- MODULE UnitProcessor ---------------------------
(***************************************************************************)
(* One UnitProcessor (DataHandler/UnitProcessor.h): the detector of one    *)
(* contract.  It keeps the newest timestamp it has accepted, and decides   *)
(* tick by tick what is forwarded.  The rules themselves are in TickRules; *)
(* here they run over sequences of ticks, in any order.                    *)
(***************************************************************************)
EXTENDS TickRules

CONSTANTS
    Configs,   \* the rules a contract may be configured with
    Ticks      \* the ticks that may arrive for the contract

ASSUME ConfigsAssumption == Configs \subseteq SpecialConfig
ASSUME TicksAssumption == Ticks \subseteq TickData

VARIABLES
    m_config,
    m_lastTimestamp,
    newest,    \* history: milliseconds of the latest tick whose timestamp was
               \* accepted, in the days of timestamp_base; -1 if none
    last       \* history: the previous validate: its tick, what newest was,
               \* what the timestamp check and validate returned

vars == <<m_config, m_lastTimestamp, newest, last>>

NoRecord == [ran |-> FALSE]

Init ==
    /\ m_config \in Configs
    /\ m_lastTimestamp = 0
    /\ newest = -1
    /\ last = NoRecord

\* Whether the timestamp check, run on this tick now, lets it pass.
Stamped(tick) ==
    /\ TimestampChecked(m_config, tick)
    /\ CheckTimestampNew(m_config, m_lastTimestamp, CombineTimestamp(m_config, tick))

\* validate(tick), as the worker calls it.
validate(tick) ==
    LET now == Moment(m_config, tick)
    IN  /\ m_lastTimestamp' = ValidateKeeps(m_config, m_lastTimestamp, tick)
        /\ newest' = IF Stamped(tick) /\ now > newest THEN now ELSE newest
        /\ last' = [ran |-> TRUE, tick |-> tick, newest |-> newest,
                    stamped |-> Stamped(tick),
                    ok |-> Validate(m_config, m_lastTimestamp, tick)]
        /\ UNCHANGED m_config

\* Mutant of reset: "no timestamp yet" is kept as -1.
resetToMinusOne ==
    /\ m_lastTimestamp' = -1
    /\ newest' = -1
    /\ last' = NoRecord
    /\ UNCHANGED m_config

\* reset(): part of the class, though nothing in the program calls it.
reset ==
    /\ m_lastTimestamp' = 0
    /\ newest' = -1
    /\ last' = NoRecord
    /\ UNCHANGED m_config

Next == (\E tick \in Ticks : validate(tick)) \/ reset

Spec == Init /\ [][Next]_vars
-----------------------------------------------------------------------------
\* The detector's state keeps its shape.
TypeOK ==
    /\ m_config \in Configs
    /\ m_lastTimestamp \in Nat
    /\ newest \in Nat \cup {-1}
    /\ \/ last = NoRecord
       \/ last \in [ran : {TRUE}, tick : Ticks, newest : Nat \cup {-1},
                    stamped : BOOLEAN, ok : BOOLEAN]

\* The previous tick went through the timestamp check and had a readable time.
Dated ==
    /\ last.ran
    /\ TimestampChecked(m_config, last.tick)
    /\ WellFormed(m_config, last.tick)

\* How late the previous tick was, behind the newest accepted one.
Lag == last.newest - Moment(m_config, last.tick)

\* No forwarded tick is later than the tolerance allows, in real milliseconds
\* and however many slightly late ticks came before it: a late tick that is
\* let through does not move the mark, so lateness does not add up.
StalenessBounded ==
    (last.ran /\ last.ok /\ TimestampChecked(m_config, last.tick) /\ Lag > 0)
        => Lag <= m_config.max_disorder_tolerance_ms

\* A tick that is not older than everything accepted before it passes the
\* timestamp check: packing the fields as decimal digits keeps their order.
InOrderPasses ==
    (Dated /\ Lag <= 0) => last.stamped

\* The milliseconds of the minute that a tick falls in.
MinuteSpan(cfg, tick) ==
    LET start == Moment(cfg, tick) - (1000 * tick.second + tick.milli)
    IN  start .. start + 59999

\* A tick that is late by no more than the tolerance passes, as long as it
\* falls in the same minute as the newest one.
MildDisorderPasses ==
    ( /\ Dated
      /\ last.newest \in MinuteSpan(m_config, last.tick)
      /\ Lag <= m_config.max_disorder_tolerance_ms )
        => last.stamped

\* A tick of an exchange off the white list leaves no trace: it cannot move
\* the mark that later ticks are measured by.
StrangersLeaveNoTrace ==
    [][ ( /\ last'.ran
          /\ m_config.enable_exchange_check
          /\ m_config.exchange_whitelist # {}
          /\ last'.tick.exchange \notin m_config.exchange_whitelist )
        => (~last'.ok /\ UNCHANGED <<m_lastTimestamp, newest>>) ]_vars

\* A forwarded book that has an order at every checked level is sorted as a
\* whole, best level first, although the code compares neighbours only; and
\* then no checked bid crosses any checked ask by more than the tolerance.
SortedBook ==
    LET t == last.tick
        L == 1 .. checkLevels(m_config)
    IN  ( /\ last.ran /\ last.ok /\ m_config.enable_price_check
          /\ \A i \in L : Quoted(t.bid_price[i]) /\ Quoted(t.ask_price[i]) )
        => \A i, j \in L :
              /\ i <= j => /\ t.bid_price[i] >= t.bid_price[j]
                           /\ t.ask_price[i] <= t.ask_price[j]
              /\ t.bid_price[i] - t.ask_price[j]
                    <= m_config.max_invert_spread_tick * m_config.tick_size
-----------------------------------------------------------------------------
(* What the README says and the code does not do. *)

\* README.md:59: allow_same_ms_data, "whether ticks of the same millisecond
\* are allowed".
SameMsRefused ==
    (Dated /\ ~m_config.allow_same_ms_data /\ Lag = 0) => ~last.ok

\* README.md:58: max_disorder_tolerance_ms, "the largest number of
\* milliseconds of disorder that is tolerated".
ToleranceIsMilliseconds ==
    (Dated /\ Lag <= m_config.max_disorder_tolerance_ms) => last.stamped

\* README.md:49: enable_timestamp_check, "whether the check of timestamp
\* validity and disorder is on".  A second tick that is not older on the
\* calendar than the first is not disordered.
Calendar(tick) ==
    Millis(tick.actionDay, tick.hour, tick.minute, tick.second, tick.milli)

CalendarOrderPasses ==
    [][ ( /\ Dated /\ last.stamped /\ last.newest = -1
          /\ Dated' /\ Calendar(last.tick) <= Calendar(last'.tick) )
        => last'.stamped ]_vars
=============================================================================
