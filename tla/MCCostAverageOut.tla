-------------------------- MODULE MCCostAverageOut --------------------------
(***************************************************************************)
(* Small instances of CostAverageOut.                                      *)
(***************************************************************************)
EXTENDS CostAverageOut, TLC

\* A daily schedule without an end, activated by a date the clock starts at;
\* live trading on, no confirmation asked for.
Daily(symbols) ==
    [params |-> "p1", symbols |-> symbols, end |-> NoDate, interval |-> "daily",
     activation |-> "date", activates |-> 1,
     live |-> TRUE, kill |-> FALSE, confirmFirst |-> FALSE]

\* A weekly schedule of two dates, activated by the price or on day 8;
\* the first sell is to be confirmed.
Weekly(symbols) ==
    [Daily(symbols) EXCEPT !.interval = "weekly", !.end = 8, !.activation = "date_or_price",
                           !.activates = 8, !.confirmFirst = TRUE]

MCOneSymbol == {Daily({1})}
MCTwoSymbols == {Daily({1, 2})}
MCWeekly == {Weekly({1}), [Weekly({1}) EXCEPT !.kill = TRUE]}

MCTwoDays == 1..2
MCTwoWeeks == {1, 8}
MCLookback == {7}

\* Two invocations at a time, of the timer and of the operator.
MCRuns == [p \in Procs |-> {"live", "dry"}]
MCRunAndReconcile ==
    LET timer == CHOOSE p \in Procs : TRUE
    IN  [p \in Procs |-> IF p = timer THEN {"live"} ELSE {"reconcile"}]
MCTimerOnly == [p \in Procs |-> {"live"}]
MCAll == [p \in Procs |-> {"live", "dry", "reconcile"}]

MCSymmetry == Permutations(Procs)
=============================================================================
