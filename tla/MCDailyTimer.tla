---------------------------- MODULE MCDailyTimer ----------------------------
(***************************************************************************)
(* A timer that starts at the turn of a year before a leap year, and at    *)
(* the turn of a century that has no leap day, under each interval, with   *)
(* and without an end.                                                     *)
(***************************************************************************)
EXTENDS DailyTimer

MCStarts ==
    {Ordinal(2027, 12, 31), Ordinal(2028, 1, 30), Ordinal(2099, 12, 31)}

\* No end; an end that falls within the months the timer runs for, between two
\* dates; an end before the activation.
MCEnds == {NoDate, Ordinal(2028, 3, 7), Ordinal(2027, 12, 1)}

MCSchedules ==
    {[params |-> "p1", symbols |-> {1}, interval |-> interval, end |-> end] :
        interval \in Intervals, end \in MCEnds}
=============================================================================
