----------------------------- MODULE MCSelldown -----------------------------
(***************************************************************************)
(* Small instances of Selldown.                                            *)
(***************************************************************************)
EXTENDS Selldown

\* Half of the balance a day, the least sell worth one lot at a bid of 1.
Half(basis, reserve) ==
    [percent |-> 50, basis |-> basis, maxSpread |-> 5000, maxSell |-> 300,
     minRemaining |-> reserve]

MCSettings == {Half("initial_snapshot", 0), Half("current_balance", 120)}
MCMarket == [minAmount |-> 100, minCost |-> 100]

\* A quote of 1, one of 2, and one too wide.
MCQuotes == {[bid |-> 1, ask |-> 1], [bid |-> 2, ask |-> 3], [bid |-> 1, ask |-> 3]}

MCAccounts == {[s \in Symbols |-> IF s = 1 THEN [available |-> 3, total |-> 4]
                                  ELSE [available |-> 2, total |-> 2]]}

\* The timer beside an operator; a run for any date beside snapshots; two
\* snapshots beside each other; back-fills beside snapshots, and two of them
\* beside each other.
MCShifts ==
    LET timer == CHOOSE p \in Procs : TRUE
        Shift(first, second, days, events) ==
            [commands |-> [p \in Procs |-> IF p = timer THEN first ELSE second],
             days |-> days, events |-> events]
    IN  {Shift({"live"}, {"reconcile", "snapshot"}, 2, 4),
         Shift({"live_at"}, {"snapshot"}, 2, 2),
         Shift({"reconcile", "snapshot"}, {"snapshot"}, 1, 4),
         Shift({"backfill"}, {"snapshot"}, 3, 1),
         Shift({"backfill"}, {"backfill", "snapshot"}, 2, 1)}
MCTimerOnly == {[commands |-> [p \in Procs |-> {"live"}], days |-> 1, events |-> 2]}

\* Back-fills of today, of all days, and of all days cut off after one candle.
MCRanges == {[days |-> 1, limit |-> NoLimit], [days |-> 3, limit |-> NoLimit],
             [days |-> 3, limit |-> 1]}

\* A limit that one sell keeps and two do not.
MCCapped == {[Half("current_balance", 0) EXCEPT !.maxSell = 200]}
=============================================================================
