----------------------------- MODULE Scheduling -----------------------------
(***************************************************************************)
(* The recurring schedule of scheduling.py: which date is relevant for a   *)
(* local date, whether its cycle is due, and the identity of the cycle.    *)
(*                                                                         *)
(* A date is its proleptic ordinal (Python's date.toordinal), so dates     *)
(* compare and subtract as integers.  A configuration is a record; the     *)
(* fields read here are                                                    *)
(*   params    the hashed settings no other field stands for (version,     *)
(*             exchange, quote currency, timezone, percentage, basis)      *)
(*   symbols   the allowlist, each symbol named by its position in it      *)
(*   end       end_date, or NoDate                                         *)
(*   interval  "daily", "weekly" or "monthly"                              *)
(***************************************************************************)
EXTENDS Integers

NoDate == -1
Intervals == {"daily", "weekly", "monthly"}

MinOf(a, b) == IF a < b THEN a ELSE b

-----------------------------------------------------------------------------
(* The Gregorian calendar: Python's datetime and calendar modules.         *)

IsLeap(year) == (year % 4 = 0 /\ year % 100 # 0) \/ year % 400 = 0

MonthLength(year, month) ==
    CASE month = 2 -> IF IsLeap(year) THEN 29 ELSE 28
      [] month \in {4, 6, 9, 11} -> 30
      [] OTHER -> 31

DaysBeforeYear(year) ==
    365 * (year - 1) + (year - 1) \div 4 - (year - 1) \div 100 + (year - 1) \div 400

DaysBeforeMonth(year, month) ==
    <<0, 31, 59, 90, 120, 151, 181, 212, 243, 273, 304, 334>>[month]
      + IF month > 2 /\ IsLeap(year) THEN 1 ELSE 0

Ordinal(year, month, day) ==
    DaysBeforeYear(year) + DaysBeforeMonth(year, month) + day

\* 400 years have 146097 days, so a year is told from its days but for one.
YearOf(n) ==
    LET elapsed == (400 * n) \div 146097
    IN  CHOOSE year \in elapsed .. elapsed + 2 :
            DaysBeforeYear(year) < n /\ n <= DaysBeforeYear(year + 1)

MonthOf(n) ==
    LET year == YearOf(n)
        nth  == n - DaysBeforeYear(year)
    IN  CHOOSE month \in 1..12 :
            /\ DaysBeforeMonth(year, month) < nth
            /\ nth <= DaysBeforeMonth(year, month) + MonthLength(year, month)

DayOfMonth(n) == n - DaysBeforeYear(YearOf(n)) - DaysBeforeMonth(YearOf(n), MonthOf(n))

-----------------------------------------------------------------------------
(* The recurrence.                                                         *)

\* Faulty variant: the day of the month is not clamped to the month's length.
AddMonthsUnclamped(start, months) ==
    LET absolute == YearOf(start) * 12 + MonthOf(start) - 1 + months
        year     == absolute \div 12
        month    == (absolute % 12) + 1
    IN  Ordinal(year, month, DayOfMonth(start))

AddMonths(start, months) ==
    LET absolute == YearOf(start) * 12 + MonthOf(start) - 1 + months
        year     == absolute \div 12
        month    == (absolute % 12) + 1
    IN  Ordinal(year, month, MinOf(DayOfMonth(start), MonthLength(year, month)))

\* Faulty variant: this month's date, passed or not.
ThisMonthsDate(start, current) ==
    AddMonths(start, (YearOf(current) - YearOf(start)) * 12 + MonthOf(current) - MonthOf(start))

LatestMonthlyDate(start, current) ==
    LET offset    == (YearOf(current) - YearOf(start)) * 12 + MonthOf(current) - MonthOf(start)
        candidate == AddMonths(start, offset)
    IN  IF candidate > current THEN AddMonths(start, offset - 1) ELSE candidate

\* Faulty variant: end_date is ignored.
EndlessScheduleDate(config, start, date) ==
    IF date < start THEN start
    ELSE CASE config.interval = "daily"  -> date
           [] config.interval = "weekly" -> start + ((date - start) \div 7) * 7
           [] OTHER                      -> LatestMonthlyDate(start, date)

RelevantScheduleDate(config, start, date) ==
    LET effective == IF config.end = NoDate THEN date ELSE MinOf(date, config.end)
    IN  IF date < start THEN start
        ELSE CASE config.interval = "daily"  -> effective
               [] config.interval = "weekly" -> start + ((effective - start) \div 7) * 7
               [] OTHER                      -> LatestMonthlyDate(start, effective)

\* evaluate_cycle: the activation date replaces start_date, so `start` is the
\* activation date.  The one missed_cycle_policy asks for manual approval of
\* every missed cycle, and no command gives it.
CycleStatus(config, start, date) ==
    LET scheduled == RelevantScheduleDate(config, start, date)
    IN  CASE date < scheduled -> "not_due"
          [] date = scheduled -> "due"
          [] OTHER            -> "missed"

\* cycle_id: a digest of the settings that identify a cycle, which is
\* one-to-one on them for every purpose of the program.
CycleId(config, start, scheduled) ==
    [settings  |-> <<config.params, config.symbols, config.end, config.interval>>,
     start     |-> start,
     scheduled |-> scheduled]

EvaluatedCycle(config, start, date) ==
    CycleId(config, start, RelevantScheduleDate(config, start, date))
=============================================================================
