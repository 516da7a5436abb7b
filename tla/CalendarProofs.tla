--------------------------- MODULE CalendarProofs ---------------------------
(***************************************************************************)
(* Proofs about the Gregorian calendar of Scheduling: every ordinal is a   *)
(* day of one month of one year, and months follow one another without a   *)
(* gap, so that the monthly recurrence can be reasoned about.              *)
(***************************************************************************)
EXTENDS Scheduling, TLAPS

-----------------------------------------------------------------------------
(* Years.                                                                  *)

LeapDay(year) == IF IsLeap(year) THEN 1 ELSE 0

InYear(n, year) == DaysBeforeYear(year) < n /\ n <= DaysBeforeYear(year + 1)

LEMMA LeapDayTyped == ASSUME NEW year \in Int PROVE LeapDay(year) \in 0..1
  BY DEF LeapDay

\* How far whole years may be from their mean length of 146097 days in 400.
LEMMA YearsMeasured ==
    ASSUME NEW year \in Int
    PROVE  /\ DaysBeforeYear(year) \in Int
           /\ 400 * DaysBeforeYear(year) <= 146097 * (year - 1) + 396
           /\ 400 * DaysBeforeYear(year) >= 146097 * (year - 1) - 699
<1>1. PICK y \in Int : y = year - 1
  OBVIOUS
<1>2. /\ y = 4 * (y \div 4) + (y % 4) /\ y % 4 \in 0..3 /\ y \div 4 \in Int
      /\ y = 100 * (y \div 100) + (y % 100) /\ y % 100 \in 0..99 /\ y \div 100 \in Int
      /\ y = 400 * (y \div 400) + (y % 400) /\ y % 400 \in 0..399 /\ y \div 400 \in Int
  OBVIOUS
<1>3. DaysBeforeYear(year) = 365 * y + y \div 4 - y \div 100 + y \div 400
  BY <1>1 DEF DaysBeforeYear
<1> QED
  BY <1>1, <1>2, <1>3

\* A year has 365 days, and one more in a leap year.
LEMMA YearLength ==
    ASSUME NEW year \in Int
    PROVE  DaysBeforeYear(year + 1) = DaysBeforeYear(year) + 365 + LeapDay(year)
<1>1. PICK y \in Int : y = year - 1
  OBVIOUS
<1>2. /\ year \div 4 = y \div 4 + IF year % 4 = 0 THEN 1 ELSE 0
      /\ year \div 100 = y \div 100 + IF year % 100 = 0 THEN 1 ELSE 0
      /\ year \div 400 = y \div 400 + IF year % 400 = 0 THEN 1 ELSE 0
      /\ y \div 4 \in Int /\ y \div 100 \in Int /\ y \div 400 \in Int
  BY <1>1
<1>3. /\ year % 100 = 0 => year % 4 = 0
      /\ year % 400 = 0 => year % 100 = 0
  OBVIOUS
<1>4. DaysBeforeYear(year) = 365 * y + y \div 4 - y \div 100 + y \div 400
  BY <1>1 DEF DaysBeforeYear
<1>5. DaysBeforeYear(year + 1) = 365 * year + year \div 4 - year \div 100 + year \div 400
  BY DEF DaysBeforeYear
<1> QED
  BY <1>1, <1>2, <1>3, <1>4, <1>5 DEF LeapDay, IsLeap

\* Of two years the earlier one is over before the later one begins.
LEMMA YearsOrdered ==
    ASSUME NEW a \in Int, NEW b \in Int, a < b
    PROVE  DaysBeforeYear(a + 1) <= DaysBeforeYear(b)
<1>1. CASE a + 1 = b
  BY <1>1, YearsMeasured
<1>2. CASE a + 1 < b
  <2>1. /\ DaysBeforeYear(a + 1) \in Int /\ DaysBeforeYear(b) \in Int
        /\ 400 * DaysBeforeYear(a + 1) <= 146097 * (a + 1 - 1) + 396
        /\ 400 * DaysBeforeYear(b) >= 146097 * (b - 1) - 699
    BY YearsMeasured
  <2> QED
    BY <1>2, <2>1
<1> QED
  BY <1>1, <1>2

\* YearOf finds the year of a day, and there is no other.
LEMMA YearFound ==
    ASSUME NEW n \in Int
    PROVE  /\ YearOf(n) \in Int /\ InYear(n, YearOf(n))
           /\ \A year \in Int : InYear(n, year) => year = YearOf(n)
<1>1. PICK e \in Int : e = (400 * n) \div 146097
  OBVIOUS
<1>2. 146097 * e <= 400 * n /\ 400 * n < 146097 * (e + 1)
  <2>1. PICK m \in Int : m = 400 * n
    OBVIOUS
  <2>2. m = 146097 * (m \div 146097) + (m % 146097)
    OBVIOUS
  <2>3. 0 <= m % 146097 /\ m % 146097 < 146097
    OBVIOUS
  <2>4. e = m \div 146097
    BY <1>1, <2>1
  <2> QED
    BY <2>1, <2>2, <2>3, <2>4
<1>3. /\ DaysBeforeYear(e) \in Int /\ 400 * DaysBeforeYear(e) <= 146097 * (e - 1) + 396
      /\ DaysBeforeYear(e + 3) \in Int
      /\ 400 * DaysBeforeYear(e + 3) >= 146097 * (e + 3 - 1) - 699
      /\ DaysBeforeYear(e + 1) \in Int /\ DaysBeforeYear(e + 2) \in Int
  BY YearsMeasured
<1>4. DaysBeforeYear(e) < n /\ n <= DaysBeforeYear(e + 3)
  BY <1>2, <1>3
<1>5. \E year \in e .. e + 2 : InYear(n, year)
  <2>1. InYear(n, e) \/ InYear(n, e + 1) \/ InYear(n, e + 2)
    BY <1>3, <1>4 DEF InYear
  <2> QED
    BY <2>1
<1>6. YearOf(n) = CHOOSE year \in e .. e + 2 : InYear(n, year)
  BY <1>1 DEF YearOf, InYear
<1>7. YearOf(n) \in e .. e + 2 /\ InYear(n, YearOf(n))
  BY <1>5, <1>6
<1>8. ASSUME NEW year \in Int, InYear(n, year)
      PROVE  year = YearOf(n)
  <2>1. ~(year < YearOf(n))
    BY <1>7, <1>8, YearsOrdered, YearsMeasured DEF InYear
  <2>2. ~(YearOf(n) < year)
    BY <1>7, <1>8, YearsOrdered, YearsMeasured DEF InYear
  <2> QED
    BY <1>7, <2>1, <2>2
<1> QED
  BY <1>7, <1>8

-----------------------------------------------------------------------------
(* Months.                                                                 *)

InMonth(nth, year, month) ==
    /\ DaysBeforeMonth(year, month) < nth
    /\ nth <= DaysBeforeMonth(year, month) + MonthLength(year, month)

\* The lengths of the months.
LEMMA MonthTyped ==
    ASSUME NEW year \in Int, NEW month \in 1..12
    PROVE  /\ MonthLength(year, month) \in 28..31
           /\ DaysBeforeMonth(year, month) \in 0..335
  BY DEF MonthLength, DaysBeforeMonth, IsLeap

\* Months follow one another without a gap, and fill the year.
LEMMA MonthsFollow ==
    ASSUME NEW year \in Int
    PROVE  /\ DaysBeforeMonth(year, 1) = 0
           /\ DaysBeforeMonth(year, 12) + MonthLength(year, 12) = 365 + LeapDay(year)
           /\ \A month \in 1..11 : DaysBeforeMonth(year, month + 1)
                                     = DaysBeforeMonth(year, month) + MonthLength(year, month)
  BY DEF MonthLength, DaysBeforeMonth, LeapDay

\* Of two months of a year the earlier one is over before the later one begins.
LEMMA MonthsInOrder ==
    ASSUME NEW year \in Int, NEW a \in 1..12, NEW b \in 1..12, a < b
    PROVE  DaysBeforeMonth(year, a) + MonthLength(year, a) <= DaysBeforeMonth(year, b)
<1>1. CASE IsLeap(year)
  BY <1>1 DEF MonthLength, DaysBeforeMonth
<1>2. CASE ~IsLeap(year)
  BY <1>2 DEF MonthLength, DaysBeforeMonth
<1> QED
  BY <1>1, <1>2

\* Each day of a year lies in one of its months.
LEMMA MonthExists ==
    ASSUME NEW year \in Int, NEW nth \in 1 .. 365 + LeapDay(year)
    PROVE  \E month \in 1..12 : InMonth(nth, year, month)
<1> DEFINE Before(month) == DaysBeforeMonth(year, month)
<1>1. Before(1) = 0 /\ Before(12) + MonthLength(year, 12) = 365 + LeapDay(year)
  BY MonthsFollow
<1>2. \A month \in 1..11 : Before(month + 1) = Before(month) + MonthLength(year, month)
  BY MonthsFollow
<1>3. ASSUME NEW month \in 1..12
      PROVE  Before(month) \in Int /\ MonthLength(year, month) \in Int
  <2>1. MonthLength(year, month) \in 28..31 /\ Before(month) \in 0..335
    BY MonthTyped
  <2> QED
    BY <2>1
<1>4. ASSUME \A month \in 1..12 : ~InMonth(nth, year, month)
      PROVE  FALSE
  <2> HIDE DEF Before
  <2>1. \A month \in 1..12 : ~(Before(month) < nth /\ nth <= Before(month) + MonthLength(year, month))
    BY <1>4 DEF InMonth, Before
  <2>2. ASSUME NEW month \in 1..11, Before(month) < nth
        PROVE  Before(month + 1) < nth
    BY <1>2, <1>3, <2>1, <2>2
  <2>3. Before(1) < nth
    BY <1>1
  <2>4. Before(4) < nth
    BY <2>2, <2>3
  <2>5. Before(8) < nth
    BY <2>2, <2>4
  <2>6. Before(12) < nth
    BY <2>2, <2>5
  <2>7. LeapDay(year) \in 0..1
    BY LeapDayTyped
  <2> QED
    BY <1>1, <1>3, <2>1, <2>6, <2>7
<1> QED
  BY <1>4

\* A day is the day it says of the month and the year it says.
LEMMA DayFound ==
    ASSUME NEW n \in Int
    PROVE  /\ YearOf(n) \in Int /\ MonthOf(n) \in 1..12
           /\ DayOfMonth(n) \in 1 .. MonthLength(YearOf(n), MonthOf(n))
           /\ n = Ordinal(YearOf(n), MonthOf(n), DayOfMonth(n))
<1>1. PICK year \in Int : year = YearOf(n)
  BY YearFound
<1>2. PICK nth \in Int : nth = n - DaysBeforeYear(year)
  BY YearsMeasured
<1>3. nth \in 1 .. 365 + LeapDay(year)
  <2>1. DaysBeforeYear(year) < n /\ n <= DaysBeforeYear(year + 1)
    BY <1>1, YearFound DEF InYear
  <2>2. DaysBeforeYear(year + 1) = DaysBeforeYear(year) + 365 + LeapDay(year)
    BY YearLength
  <2>3. DaysBeforeYear(year) \in Int /\ LeapDay(year) \in Int
    BY YearsMeasured, LeapDayTyped
  <2> QED
    BY <1>2, <2>1, <2>2, <2>3
<1>4. MonthOf(n) = CHOOSE month \in 1..12 : InMonth(nth, year, month)
  BY <1>1, <1>2 DEF MonthOf, InMonth
<1>5. MonthOf(n) \in 1..12 /\ InMonth(nth, year, MonthOf(n))
  BY <1>3, <1>4, MonthExists
<1>6. DaysBeforeMonth(year, MonthOf(n)) \in Int /\ MonthLength(year, MonthOf(n)) \in Int
  <2>1. DaysBeforeMonth(year, MonthOf(n)) \in 0..335 /\ MonthLength(year, MonthOf(n)) \in 28..31
    BY <1>5, MonthTyped
  <2> QED
    BY <2>1
<1>7. DayOfMonth(n) = nth - DaysBeforeMonth(year, MonthOf(n))
  BY <1>1, <1>2 DEF DayOfMonth
<1>8. n = Ordinal(year, MonthOf(n), DayOfMonth(n))
  BY <1>2, <1>6, <1>7, YearsMeasured DEF Ordinal
<1> QED
  BY <1>1, <1>5, <1>6, <1>7, <1>8 DEF InMonth

-----------------------------------------------------------------------------
(* Months without their years: month a is month a % 12 + 1 of year a \div  *)
(* 12, as _add_months counts them.                                         *)

DaysBefore(a) == DaysBeforeYear(a \div 12) + DaysBeforeMonth(a \div 12, (a % 12) + 1)
LengthOf(a) == MonthLength(a \div 12, (a % 12) + 1)
AbsoluteMonth(n) == YearOf(n) * 12 + MonthOf(n) - 1

LEMMA MonthMeasured ==
    ASSUME NEW a \in Int
    PROVE  /\ DaysBefore(a) \in Int /\ LengthOf(a) \in 28..31
           /\ a = 12 * (a \div 12) + (a % 12) /\ a \div 12 \in Int /\ a % 12 \in 0..11
           /\ (a % 12) + 1 \in 1..12
<1>1. a = 12 * (a \div 12) + (a % 12) /\ a \div 12 \in Int /\ a % 12 \in 0..11
  OBVIOUS
<1>2. (a % 12) + 1 \in 1..12
  BY <1>1
<1>3. LengthOf(a) \in 28..31 /\ DaysBeforeMonth(a \div 12, (a % 12) + 1) \in 0..335
  BY <1>1, <1>2, MonthTyped DEF LengthOf
<1>4. DaysBeforeYear(a \div 12) \in Int
  BY <1>1, YearsMeasured
<1>5. DaysBefore(a) \in Int
  BY <1>3, <1>4 DEF DaysBefore
<1> QED
  BY <1>1, <1>2, <1>3, <1>5

\* A month begins where the one before it ends, at the turn of a year too.
LEMMA MonthBegins ==
    ASSUME NEW a \in Int
    PROVE  DaysBefore(a + 1) = DaysBefore(a) + LengthOf(a)
<1>1. PICK year \in Int, month \in 1..12 : year = a \div 12 /\ month = (a % 12) + 1
  BY MonthMeasured
<1>2. DaysBefore(a) = DaysBeforeYear(year) + DaysBeforeMonth(year, month)
  BY <1>1 DEF DaysBefore
<1>3. LengthOf(a) = MonthLength(year, month)
  BY <1>1 DEF LengthOf
<1>4. a = 12 * year + (month - 1)
  BY <1>1, MonthMeasured
<1>5. DaysBeforeYear(year) \in Int /\ DaysBeforeYear(year + 1) \in Int
  BY YearsMeasured
<1>6. DaysBeforeMonth(year, month) \in Int /\ MonthLength(year, month) \in Int
  <2>1. DaysBeforeMonth(year, month) \in 0..335 /\ MonthLength(year, month) \in 28..31
    BY MonthTyped
  <2> QED
    BY <2>1
<1>7. CASE month \in 1..11
  <2>1. (a + 1) \div 12 = year /\ (a + 1) % 12 = month
    BY <1>4, <1>7
  <2>2. DaysBefore(a + 1) = DaysBeforeYear(year) + DaysBeforeMonth(year, month + 1)
    BY <2>1 DEF DaysBefore
  <2>3. DaysBeforeMonth(year, month + 1) = DaysBeforeMonth(year, month) + MonthLength(year, month)
    BY <1>7, MonthsFollow
  <2> QED
    BY <1>2, <1>3, <1>5, <1>6, <2>2, <2>3
<1>8. CASE month = 12
  <2>1. (a + 1) \div 12 = year + 1 /\ (a + 1) % 12 = 0
    BY <1>4, <1>8
  <2>2. DaysBefore(a + 1) = DaysBeforeYear(year + 1) + DaysBeforeMonth(year + 1, 1)
    BY <2>1 DEF DaysBefore
  <2>3. DaysBeforeMonth(year + 1, 1) = 0
    BY MonthsFollow
  <2>4. DaysBeforeMonth(year, month) + MonthLength(year, month) = 365 + LeapDay(year)
    BY <1>8, MonthsFollow
  <2>5. DaysBeforeYear(year + 1) = DaysBeforeYear(year) + 365 + LeapDay(year)
    BY YearLength
  <2>6. LeapDay(year) \in Int
    BY LeapDayTyped
  <2> QED
    BY <1>2, <1>3, <1>5, <1>6, <2>2, <2>3, <2>4, <2>5, <2>6
<1> QED
  BY <1>7, <1>8

\* Of two months the earlier one is over before the later one begins.
LEMMA MonthsOrdered ==
    ASSUME NEW a \in Int, NEW b \in Int, a < b
    PROVE  DaysBefore(a) + LengthOf(a) <= DaysBefore(b)
<1>1. PICK year \in Int, month \in 1..12 : year = a \div 12 /\ month = (a % 12) + 1
  BY MonthMeasured
<1>2. PICK later \in Int, other \in 1..12 : later = b \div 12 /\ other = (b % 12) + 1
  BY MonthMeasured
<1>3. /\ DaysBefore(a) = DaysBeforeYear(year) + DaysBeforeMonth(year, month)
      /\ DaysBefore(b) = DaysBeforeYear(later) + DaysBeforeMonth(later, other)
      /\ LengthOf(a) = MonthLength(year, month)
  BY <1>1, <1>2 DEF DaysBefore, LengthOf
<1>4. a = 12 * year + (month - 1) /\ b = 12 * later + (other - 1)
  BY <1>1, <1>2, MonthMeasured
<1>5. DaysBeforeYear(year) \in Int /\ DaysBeforeYear(later) \in Int
  BY YearsMeasured
<1>6. /\ DaysBeforeMonth(year, month) \in Int /\ MonthLength(year, month) \in Int
      /\ DaysBeforeMonth(later, other) \in Int /\ DaysBeforeMonth(later, other) >= 0
  <2>1. DaysBeforeMonth(year, month) \in 0..335 /\ MonthLength(year, month) \in 28..31
    BY MonthTyped
  <2>2. DaysBeforeMonth(later, other) \in 0..335
    BY MonthTyped
  <2> QED
    BY <2>1, <2>2
<1>7. CASE year = later
  <2>1. month < other
    BY <1>4, <1>7
  <2>2. DaysBeforeMonth(year, month) + MonthLength(year, month) <= DaysBeforeMonth(year, other)
    BY <2>1, MonthsInOrder
  <2> QED
    BY <1>3, <1>5, <1>6, <1>7, <2>2
<1>8. CASE year # later
  <2>1. year < later
    BY <1>4, <1>8
  <2>2. DaysBeforeYear(year + 1) <= DaysBeforeYear(later)
    BY <2>1, YearsOrdered
  <2>3. DaysBeforeYear(year + 1) = DaysBeforeYear(year) + 365 + LeapDay(year)
    BY YearLength
  <2>4. DaysBeforeMonth(year, month) + MonthLength(year, month) <= 365 + LeapDay(year)
    <3>1. DaysBeforeMonth(year, 12) + MonthLength(year, 12) = 365 + LeapDay(year)
      BY MonthsFollow
    <3>2. CASE month = 12
      BY <1>6, <3>1, <3>2, LeapDayTyped
    <3>3. CASE month < 12
      <4>1. DaysBeforeMonth(year, month) + MonthLength(year, month) <= DaysBeforeMonth(year, 12)
        BY <3>3, MonthsInOrder
      <4>2. DaysBeforeMonth(year, 12) \in 0..335 /\ MonthLength(year, 12) \in 28..31
        BY MonthTyped
      <4>3. LeapDay(year) \in 0..1
        BY LeapDayTyped
      <4> QED
        BY <1>6, <3>1, <4>1, <4>2, <4>3
    <3> QED
      BY <3>2, <3>3
  <2>5. LeapDay(year) \in Int
    BY LeapDayTyped
  <2> QED
    BY <1>3, <1>5, <1>6, <2>2, <2>3, <2>4, <2>5
<1> QED
  BY <1>7, <1>8

\* The absolute month of a day is the one it lies in.
LEMMA DayInMonth ==
    ASSUME NEW n \in Int
    PROVE  /\ AbsoluteMonth(n) \in Int
           /\ AbsoluteMonth(n) \div 12 = YearOf(n) /\ (AbsoluteMonth(n) % 12) + 1 = MonthOf(n)
           /\ LengthOf(AbsoluteMonth(n)) = MonthLength(YearOf(n), MonthOf(n))
           /\ DayOfMonth(n) \in 1 .. LengthOf(AbsoluteMonth(n))
           /\ n = DaysBefore(AbsoluteMonth(n)) + DayOfMonth(n)
<1>1. PICK year \in Int, month \in 1..12 : year = YearOf(n) /\ month = MonthOf(n)
  BY DayFound
<1>2. PICK a \in Int : a = year * 12 + month - 1
  OBVIOUS
<1>3. a = AbsoluteMonth(n)
  BY <1>1, <1>2 DEF AbsoluteMonth
<1>4. a \div 12 = year /\ (a % 12) + 1 = month
  BY <1>2
<1>5. DaysBefore(a) = DaysBeforeYear(year) + DaysBeforeMonth(year, month)
  BY <1>4 DEF DaysBefore
<1>6. LengthOf(a) = MonthLength(year, month)
  BY <1>4 DEF LengthOf
<1>7. DayOfMonth(n) \in 1 .. MonthLength(year, month) /\ n = Ordinal(year, month, DayOfMonth(n))
  BY <1>1, DayFound
<1> QED
  BY <1>1, <1>3, <1>4, <1>5, <1>6, <1>7 DEF Ordinal

\* No other month has the day.
LEMMA MonthFound ==
    ASSUME NEW n \in Int, NEW a \in Int, DaysBefore(a) < n, n <= DaysBefore(a) + LengthOf(a)
    PROVE  a = AbsoluteMonth(n)
<1>1. PICK b \in Int : b = AbsoluteMonth(n)
  BY DayInMonth
<1>2. LengthOf(b) \in Int /\ DaysBefore(b) \in Int /\ DaysBefore(a) \in Int /\ LengthOf(a) \in Int
  BY MonthMeasured
<1>3. DayOfMonth(n) \in 1 .. LengthOf(b) /\ n = DaysBefore(b) + DayOfMonth(n)
  BY <1>1, DayInMonth
<1>4. DaysBefore(b) < n /\ n <= DaysBefore(b) + LengthOf(b)
  BY <1>2, <1>3
<1>5. ~(a < b)
  BY <1>2, <1>4, MonthsOrdered
<1>6. ~(b < a)
  BY <1>2, <1>4, MonthsOrdered
<1> QED
  BY <1>1, <1>5, <1>6

\* The calendar is one: each date of it, a year, a month and a day that the month
\* has, is one ordinal, and each ordinal is one date.
THEOREM OrdinalsAreDates ==
    /\ \A n \in Int : /\ YearOf(n) \in Int /\ MonthOf(n) \in 1..12
                      /\ DayOfMonth(n) \in 1 .. MonthLength(YearOf(n), MonthOf(n))
                      /\ Ordinal(YearOf(n), MonthOf(n), DayOfMonth(n)) = n
    /\ \A year \in Int, month \in 1..12 : \A day \in 1 .. MonthLength(year, month) :
           LET n == Ordinal(year, month, day)
           IN  YearOf(n) = year /\ MonthOf(n) = month /\ DayOfMonth(n) = day
<1>1. ASSUME NEW year \in Int, NEW month \in 1..12, NEW day \in 1 .. MonthLength(year, month),
             NEW n, n = Ordinal(year, month, day)
      PROVE  YearOf(n) = year /\ MonthOf(n) = month /\ DayOfMonth(n) = day
  <2>1. PICK a \in Int : a = year * 12 + month - 1
    OBVIOUS
  <2>2. a \div 12 = year /\ (a % 12) + 1 = month
    BY <2>1
  <2>3. DaysBefore(a) = DaysBeforeYear(year) + DaysBeforeMonth(year, month)
    BY <2>2 DEF DaysBefore
  <2>4. LengthOf(a) = MonthLength(year, month) /\ LengthOf(a) \in 28..31 /\ DaysBefore(a) \in Int
    BY <2>2, MonthMeasured DEF LengthOf
  <2>5. n = DaysBefore(a) + day
    BY <1>1, <2>3 DEF Ordinal
  <2>6. n \in Int /\ DaysBefore(a) < n /\ n <= DaysBefore(a) + LengthOf(a)
    BY <2>4, <2>5
  <2>7. a = AbsoluteMonth(n)
    BY <2>6, MonthFound
  <2>8. YearOf(n) = year /\ MonthOf(n) = month
    BY <2>2, <2>6, <2>7, DayInMonth
  <2>9. DayOfMonth(n) \in 1 .. LengthOf(a) /\ n = DaysBefore(a) + DayOfMonth(n)
    BY <2>6, <2>7, DayInMonth
  <2> QED
    BY <2>4, <2>5, <2>8, <2>9
<1> QED
  BY <1>1, DayFound

-----------------------------------------------------------------------------
(* The monthly recurrence.                                                 *)

\* The date of a month: the day of the month of the start, or the last day.
DateOf(start, a) == DaysBefore(a) + MinOf(DayOfMonth(start), LengthOf(a))

LEMMA DateInMonth ==
    ASSUME NEW start \in Int, NEW a \in Int
    PROVE  /\ DateOf(start, a) \in Int
           /\ DaysBefore(a) < DateOf(start, a)
           /\ DateOf(start, a) <= DaysBefore(a) + LengthOf(a)
<1>1. DayOfMonth(start) \in 1 .. LengthOf(AbsoluteMonth(start))
  BY DayInMonth
<1>2. AbsoluteMonth(start) \in Int
  BY DayInMonth
<1>3. LengthOf(AbsoluteMonth(start)) \in 28..31
  BY <1>2, MonthMeasured
<1>4. DayOfMonth(start) \in Int /\ DayOfMonth(start) >= 1
  BY <1>1, <1>3
<1>5. DaysBefore(a) \in Int /\ LengthOf(a) \in 28..31
  BY MonthMeasured
<1> QED
  BY <1>4, <1>5 DEF DateOf, MinOf

\* What _add_months computes.
LEMMA MonthsAdded ==
    ASSUME NEW start \in Int, NEW months \in Int
    PROVE  AddMonths(start, months) = DateOf(start, AbsoluteMonth(start) + months)
<1>1. PICK a : a = AbsoluteMonth(start) + months
  OBVIOUS
<1>2. AddMonths(start, months)
        = Ordinal(a \div 12, (a % 12) + 1,
                  MinOf(DayOfMonth(start), MonthLength(a \div 12, (a % 12) + 1)))
  BY <1>1 DEF AddMonths, AbsoluteMonth
<1> QED
  BY <1>1, <1>2 DEF Ordinal, DateOf, DaysBefore, LengthOf

\* What _latest_monthly_date computes: this month's date, or the one before.
LEMMA LatestDate ==
    ASSUME NEW start \in Int, NEW n \in Int
    PROVE  LatestMonthlyDate(start, n) = IF DateOf(start, AbsoluteMonth(n)) > n
                                         THEN DateOf(start, AbsoluteMonth(n) - 1)
                                         ELSE DateOf(start, AbsoluteMonth(n))
<1>1. PICK offset : offset = (YearOf(n) - YearOf(start)) * 12 + MonthOf(n) - MonthOf(start)
  OBVIOUS
<1>2. /\ YearOf(n) \in Int /\ YearOf(start) \in Int
      /\ MonthOf(n) \in 1..12 /\ MonthOf(start) \in 1..12
  BY DayFound
<1>3. /\ offset \in Int /\ offset - 1 \in Int
      /\ AbsoluteMonth(start) + offset = AbsoluteMonth(n)
      /\ AbsoluteMonth(start) + (offset - 1) = AbsoluteMonth(n) - 1
  BY <1>1, <1>2 DEF AbsoluteMonth
<1>4. /\ AddMonths(start, offset) = DateOf(start, AbsoluteMonth(n))
      /\ AddMonths(start, offset - 1) = DateOf(start, AbsoluteMonth(n) - 1)
  BY <1>3, MonthsAdded
<1> QED
  BY <1>1, <1>4 DEF LatestMonthlyDate

\* A day's latest date is not after it, and is the day itself on a date of the
\* recurrence and on no other day.
LEMMA MonthStart ==
    ASSUME NEW start \in Int, NEW n \in Int
    PROVE  /\ LatestMonthlyDate(start, n) \in Int
           /\ LatestMonthlyDate(start, n) <= n
           /\ LatestMonthlyDate(start, n) = n
                <=> DayOfMonth(n) = MinOf(DayOfMonth(start), MonthLength(YearOf(n), MonthOf(n)))
<1>1. PICK a \in Int : a = AbsoluteMonth(n)
  BY DayInMonth
<1>2. /\ DayOfMonth(n) \in 1 .. LengthOf(a) /\ n = DaysBefore(a) + DayOfMonth(n)
      /\ LengthOf(a) = MonthLength(YearOf(n), MonthOf(n))
  BY <1>1, DayInMonth
<1>3. LengthOf(a) \in Int /\ DaysBefore(a) \in Int
  BY MonthMeasured
<1>4. DateOf(start, a) \in Int /\ DateOf(start, a - 1) \in Int
  BY DateInMonth
<1>5. DateOf(start, a - 1) <= DaysBefore(a)
  <2>1. PICK b \in Int : b = a - 1
    OBVIOUS
  <2>2. DateOf(start, b) <= DaysBefore(b) + LengthOf(b)
    BY DateInMonth
  <2>3. DaysBefore(b + 1) = DaysBefore(b) + LengthOf(b) /\ b + 1 = a
    BY <2>1, MonthBegins
  <2> QED
    BY <2>1, <2>2, <2>3
<1>6. DateOf(start, a) = n <=> DayOfMonth(n) = MinOf(DayOfMonth(start), LengthOf(a))
  <2>1. PICK day : day = MinOf(DayOfMonth(start), LengthOf(a))
    OBVIOUS
  <2>2. DateOf(start, a) = DaysBefore(a) + day
    BY <2>1 DEF DateOf
  <2>3. day \in Int
    <3>1. DayOfMonth(start) \in 1 .. LengthOf(AbsoluteMonth(start)) /\ AbsoluteMonth(start) \in Int
      BY DayInMonth
    <3> QED
      BY <1>3, <2>1, <3>1 DEF MinOf
  <2> QED
    BY <1>2, <1>3, <2>1, <2>2, <2>3
<1>7. LatestMonthlyDate(start, n)
        = IF DateOf(start, a) > n THEN DateOf(start, a - 1) ELSE DateOf(start, a)
  BY <1>1, LatestDate
<1> QED
  BY <1>2, <1>3, <1>4, <1>5, <1>6, <1>7

\* The latest date turns on the day it is.
LEMMA MonthTurns ==
    ASSUME NEW start \in Int, NEW n \in Int,
           LatestMonthlyDate(start, n + 1) # LatestMonthlyDate(start, n)
    PROVE  LatestMonthlyDate(start, n + 1) = n + 1
<1>1. PICK a \in Int : a = AbsoluteMonth(n)
  BY DayInMonth
<1>2. DayOfMonth(n) \in 1 .. LengthOf(a) /\ n = DaysBefore(a) + DayOfMonth(n)
  BY <1>1, DayInMonth
<1>3. /\ LengthOf(a) \in Int /\ DaysBefore(a) \in Int
      /\ LengthOf(a + 1) \in 28..31 /\ DaysBefore(a + 1) \in Int
      /\ DaysBefore(a + 1) = DaysBefore(a) + LengthOf(a)
  BY MonthMeasured, MonthBegins
<1>4. /\ DateOf(start, a) \in Int /\ DateOf(start, a) <= DaysBefore(a) + LengthOf(a)
      /\ DateOf(start, a + 1) \in Int /\ DateOf(start, a - 1) \in Int
  <2>1. a + 1 \in Int /\ a - 1 \in Int
    OBVIOUS
  <2> QED
    BY <2>1, DateInMonth
<1>5. LatestMonthlyDate(start, n)
        = IF DateOf(start, a) > n THEN DateOf(start, a - 1) ELSE DateOf(start, a)
  BY <1>1, LatestDate
<1>6. CASE n + 1 <= DaysBefore(a) + LengthOf(a)
  <2>1. AbsoluteMonth(n + 1) = a
    BY <1>2, <1>3, <1>6, MonthFound
  <2>2. LatestMonthlyDate(start, n + 1)
          = IF DateOf(start, a) > n + 1 THEN DateOf(start, a - 1) ELSE DateOf(start, a)
    BY <2>1, LatestDate
  <2> QED
    BY <1>4, <1>5, <2>2
<1>7. CASE n = DaysBefore(a) + LengthOf(a)
  <2>1. AbsoluteMonth(n + 1) = a + 1
    BY <1>3, <1>7, MonthFound
  <2>2. LatestMonthlyDate(start, n + 1)
          = IF DateOf(start, a + 1) > n + 1 THEN DateOf(start, a + 1 - 1) ELSE DateOf(start, a + 1)
    BY <2>1, LatestDate
  <2>3. LatestMonthlyDate(start, n) = DateOf(start, a)
    BY <1>4, <1>5, <1>7
  <2>4. DaysBefore(a + 1) < DateOf(start, a + 1)
    BY DateInMonth
  <2>5. a + 1 - 1 = a
    OBVIOUS
  <2> QED
    BY <1>3, <1>4, <1>7, <2>2, <2>3, <2>4, <2>5
<1> QED
  BY <1>2, <1>3, <1>6, <1>7
=============================================================================
