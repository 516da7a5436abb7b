-------------------------- MODULE DailyTimerProofs --------------------------
(***************************************************************************)
(* Proofs about DailyTimer, for every interval, activation date, end date  *)
(* and clock.                                                              *)
(***************************************************************************)
EXTENDS DailyTimer, CalendarProofs

TimerInv ==
    /\ config \in Schedules
    /\ start \in Nat \ {0}
    /\ date \in Nat
    /\ start <= date



\* The configuration and the activation date are among those given, and the date
\* is not before the activation.
LEMMA TimerInvariant == TimerSpec => []TimerInv
<1>1. TimerInit => TimerInv
  BY TimerAssumption DEF TimerInit, TimerInv
<1>2. TimerInv /\ [Tick]_timerVars => TimerInv'
  BY TimerAssumption DEF TimerInv, Tick, timerVars
<1> QED
  BY <1>1, <1>2, PTL DEF TimerSpec

\* The last day of the recurrence up to a day, seven days apart from the start.
LEMMA WeekStart ==
    ASSUME NEW first \in Int, NEW day \in Int
    PROVE  LET week == first + ((day - first) \div 7) * 7
           IN  /\ week \in Int
               /\ week <= day /\ day < week + 7
               /\ week = day <=> (day - first) % 7 = 0
<1>1. PICK n : n = day - first /\ n \in Int
  OBVIOUS
<1>2. n = 7 * (n \div 7) + (n % 7) /\ n % 7 \in 0..6 /\ n \div 7 \in Int
  BY <1>1
<1> QED
  BY <1>1, <1>2

\* The week turns on the day it starts with.
LEMMA WeekTurns ==
    ASSUME NEW first \in Int, NEW day \in Int
    PROVE  LET week == first + ((day - first) \div 7) * 7
               next == first + ((day + 1 - first) \div 7) * 7
           IN  next # week => next = day + 1
<1>1. PICK n : n = day - first /\ n \in Int
  OBVIOUS
<1>2. /\ n = 7 * (n \div 7) + (n % 7) /\ n % 7 \in 0..6 /\ n \div 7 \in Int
      /\ n + 1 = 7 * ((n + 1) \div 7) + ((n + 1) % 7) /\ (n + 1) % 7 \in 0..6
      /\ (n + 1) \div 7 \in Int
  BY <1>1
<1>3. (n + 1) \div 7 # n \div 7 => (n + 1) % 7 = 0
  BY <1>1, <1>2
<1>4. day + 1 - first = n + 1
  BY <1>1
<1> QED
  BY <1>1, <1>2, <1>3, <1>4

\* The dates of a schedule are as DueOnItsDates tells them.
LEMMA DayStatus ==
    ASSUME TimerInv
    PROVE  DueOnItsDates
<1>1. /\ config.end \in Int /\ date \in Int /\ start \in Int /\ NoDate = -1
      /\ config.interval \in {"daily", "weekly", "monthly"}
  BY TimerAssumption DEF TimerInv, NoDate, Intervals
<1>2. ~(date < start)
  BY DEF TimerInv
<1>3. PICK effective \in Int :
          /\ effective = IF config.end = NoDate THEN date ELSE MinOf(date, config.end)
          /\ effective <= date
          /\ effective = date <=> (config.end = NoDate \/ date <= config.end)
  BY <1>1 DEF MinOf
<1>4. CASE config.interval = "daily"
  <2>1. Scheduled = effective
    BY <1>2, <1>3, <1>4 DEF Scheduled, RelevantScheduleDate
  <2>2. Status = "due" <=> date = effective
    BY <1>1, <1>3, <2>1 DEF Status, Scheduled, CycleStatus
  <2> QED
    BY <1>3, <1>4, <2>2 DEF DueOnItsDates, Recurs
<1>5. CASE config.interval = "weekly"
  <2>1. Scheduled = start + ((effective - start) \div 7) * 7
    BY <1>2, <1>3, <1>5 DEF Scheduled, RelevantScheduleDate
  <2>2. /\ Scheduled \in Int /\ Scheduled <= effective
        /\ Scheduled = effective <=> (effective - start) % 7 = 0
    BY <1>1, <1>3, <2>1, WeekStart
  <2>3. Status = "due" <=> date = Scheduled
    BY <1>1, <2>2 DEF Status, Scheduled, CycleStatus
  <2>4. Recurs(date) <=> (date - start) % 7 = 0
    BY <1>5 DEF Recurs
  <2> QED
    BY <1>1, <1>3, <2>2, <2>3, <2>4 DEF DueOnItsDates
<1>6. CASE config.interval = "monthly"
  <2>1. Scheduled = LatestMonthlyDate(start, effective)
    BY <1>2, <1>3, <1>6 DEF Scheduled, RelevantScheduleDate
  <2>2. /\ Scheduled \in Int /\ Scheduled <= effective
        /\ Scheduled = effective
             <=> DayOfMonth(effective)
                   = MinOf(DayOfMonth(start), MonthLength(YearOf(effective), MonthOf(effective)))
    BY <1>1, <1>3, <2>1, MonthStart
  <2>3. Status = "due" <=> date = Scheduled
    BY <1>1, <2>2 DEF Status, Scheduled, CycleStatus
  <2>4. Recurs(date)
          <=> DayOfMonth(date)
                = MinOf(DayOfMonth(start), MonthLength(YearOf(date), MonthOf(date)))
    BY <1>6 DEF Recurs
  <2>5. CASE effective = date
    BY <1>3, <2>2, <2>3, <2>4, <2>5 DEF DueOnItsDates
  <2>6. CASE effective < date
    BY <1>1, <1>3, <2>2, <2>3, <2>6 DEF DueOnItsDates
  <2> QED
    BY <1>1, <1>3, <2>5, <2>6
<1> QED
  BY <1>1, <1>4, <1>5, <1>6

\* From one day to the next a relevant date either stays or is the new day.
LEMMA DayTurns ==
    ASSUME TimerInv, Tick
    PROVE  Scheduled' # Scheduled => Status' = "due"
<1>1. /\ config.end \in Int /\ date \in Int /\ start \in Int
      /\ config' = config /\ start' = start /\ date' = date + 1
      /\ ~(date < start) /\ ~(date + 1 < start)
      /\ config.interval \in {"daily", "weekly", "monthly"}
  BY TimerAssumption DEF TimerInv, Tick, Intervals
<1>2. PICK cfg, first, day : cfg = config /\ first = start /\ day = date
  OBVIOUS
<1>3. Scheduled = RelevantScheduleDate(cfg, first, day)
  BY <1>2 DEF Scheduled
<1>4. Scheduled' = RelevantScheduleDate(cfg, first, day + 1)
  BY <1>1, <1>2 DEF Scheduled
<1>5. Status' = CycleStatus(cfg, first, day + 1)
  BY <1>1, <1>2 DEF Status
<1>6. SUFFICES ASSUME RelevantScheduleDate(cfg, first, day + 1) # RelevantScheduleDate(cfg, first, day)
               PROVE  RelevantScheduleDate(cfg, first, day + 1) = day + 1
  BY <1>1, <1>2, <1>3, <1>4, <1>5 DEF CycleStatus
<1>7. PICK now \in Int, then \in Int :
          /\ now = IF cfg.end = NoDate THEN day ELSE MinOf(day, cfg.end)
          /\ then = IF cfg.end = NoDate THEN day + 1 ELSE MinOf(day + 1, cfg.end)
          /\ then = now \/ (now = day /\ then = day + 1)
  BY <1>1, <1>2 DEF MinOf
<1>8. CASE cfg.interval = "daily"
  BY <1>1, <1>2, <1>6, <1>7, <1>8 DEF RelevantScheduleDate
<1>9. CASE cfg.interval = "weekly"
  <2>1. /\ RelevantScheduleDate(cfg, first, day) = first + ((now - first) \div 7) * 7
        /\ RelevantScheduleDate(cfg, first, day + 1) = first + ((then - first) \div 7) * 7
    BY <1>1, <1>2, <1>7, <1>9 DEF RelevantScheduleDate
  <2>2. now = day /\ then = day + 1
    BY <1>6, <1>7, <2>1
  <2> QED
    BY <1>1, <1>2, <1>6, <2>1, <2>2, WeekTurns
<1>10. CASE cfg.interval = "monthly"
  <2>1. /\ RelevantScheduleDate(cfg, first, day) = LatestMonthlyDate(first, now)
        /\ RelevantScheduleDate(cfg, first, day + 1) = LatestMonthlyDate(first, then)
    BY <1>1, <1>2, <1>7, <1>10 DEF RelevantScheduleDate
  <2>2. now = day /\ then = day + 1
    BY <1>6, <1>7, <2>1
  <2> QED
    BY <1>1, <1>2, <1>6, <2>1, <2>2, MonthTurns
<1> QED
  BY <1>1, <1>2, <1>8, <1>9, <1>10

\* A schedule is due on its dates, up to the end date and on no other, whatever
\* its interval, its activation date, its end and the day: monthly dates do not
\* drift over short months, leap years and turns of centuries.
THEOREM CyclesAreDue == TimerSpec => []DueOnItsDates
<1>1. TimerInv => DueOnItsDates
  BY DayStatus
<1> QED
  BY <1>1, TimerInvariant, PTL

\* A timer that runs every day finds each cycle due, and none missed that it has
\* not found due before.
THEOREM CyclesAreNotSkipped == TimerSpec => NoCycleSkipped
<1>1. TimerInv /\ [Tick]_timerVars
          => [Scheduled' # Scheduled => Status' = "due"]_timerVars
  BY DayTurns
<1> QED
  BY <1>1, TimerInvariant, PTL DEF TimerSpec, NoCycleSkipped
=============================================================================
