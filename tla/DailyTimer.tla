----------------------------- MODULE DailyTimer -----------------------------
(***************************************************************************)
(* The schedule as the daily timer meets it: evaluate_cycle of             *)
(* scheduling.py is asked once a day, from the activation date on.         *)
(***************************************************************************)
EXTENDS Scheduling

CONSTANTS
    Schedules,   \* configurations, as Scheduling reads them
    Starts,      \* activation dates
    Span         \* days the timer runs for: a bound on the clock

ASSUME TimerAssumption ==
    /\ \A config \in Schedules : config.interval \in Intervals /\ config.end \in Int
    /\ Starts \subseteq Nat \ {0}
    /\ Span \in Nat

VARIABLES config, start, date

timerVars == <<config, start, date>>

TimerInit ==
    /\ config \in Schedules
    /\ start \in Starts
    /\ date = start

Tick ==
    /\ date < start + Span
    /\ date' = date + 1
    /\ UNCHANGED <<config, start>>

TimerSpec == TimerInit /\ [][Tick]_timerVars

-----------------------------------------------------------------------------
(* The schedule, told without computing it.                                *)

\* A date of the recurrence: every day; every seventh; the day of the month the
\* schedule started on, or the last of a month too short to have it.
Recurs(day) ==
    CASE config.interval = "daily"  -> TRUE
      [] config.interval = "weekly" -> (day - start) % 7 = 0
      [] OTHER -> DayOfMonth(day) = MinOf(DayOfMonth(start), MonthLength(YearOf(day), MonthOf(day)))

Scheduled == RelevantScheduleDate(config, start, date)
Status == CycleStatus(config, start, date)

\* A cycle is due on the dates of the recurrence up to the end date, and on no
\* other: the arithmetic of _relevant_schedule_date neither drifts over short
\* months and leap years nor runs on after the end.
DueOnItsDates ==
    Status = "due" <=> Recurs(date) /\ (config.end = NoDate \/ date <= config.end)

\* The timer meets each cycle on its day: the relevant date changes only to the
\* day that has come, so a run a day finds no cycle missed that it did not
\* first find due.
NoCycleSkipped == [][Scheduled' # Scheduled => Status' = "due"]_timerVars
=============================================================================
