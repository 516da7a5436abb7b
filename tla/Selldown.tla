------------------------------ MODULE Selldown ------------------------------
(***************************************************************************)
(* What the program does to the holdings, and what it comes to know of     *)
(* them: live runs plan with real quantities and sell, while the operator  *)
(* reconciles, takes snapshots and back-fills prices, and the owner of the *)
(* account moves coins.                                                    *)
(*                                                                         *)
(* CostAverageOut has the orders, their rows and the gates; here the gates *)
(* are passed, an order executes at once or is rejected, and every day is  *)
(* a scheduled date.  In return, balances, quotes and quantities are what  *)
(* they are in the code, where CostAverageOut leaves the plan open.        *)
(*                                                                         *)
(* Instants are natural numbers: the clock is read at even ones, and those *)
(* that are given with --at are odd, since nobody hits a reading of the    *)
(* clock to the microsecond.                                               *)
(***************************************************************************)
EXTENDS Planner, Portfolio, FiniteSets

CONSTANTS
    Symbols,    \* the allowlist, each symbol named by its position in it
    Settings,   \* the settings config.yaml may have
    Market,     \* limits of the exchange
    Quotes,     \* the bid and ask a ticker may have
    Accounts,   \* what the account may hold at first
    Procs,      \* the invocations that may overlap
    Shifts,     \* [commands, days, events]: who may run which commands, and bounds:
                \* the days, and the readings of the clock and moves of the owner
    Given,      \* the instants --at may be given
    Ranges,     \* [days, limit]: the options back-fills are run with
    Moved       \* bound: the assets the owner of the account moves

\* A live run with --at is a command of its own here.
Commands == {"live", "live_at", "reconcile", "snapshot", "backfill"}

ASSUME SelldownAssumption ==
    /\ Symbols \subseteq Nat \ {0} /\ Symbols # {}
    /\ \A s \in Settings : ValidSettings(s)
    /\ Market \in [minAmount : Nat, minCost : Nat]
    /\ Quotes \subseteq [bid : Nat, ask : Nat]
    /\ Accounts \subseteq [Symbols -> [available : Nat, total : Nat]]
    /\ \A held \in Accounts, s \in Symbols : held[s].available <= held[s].total
    /\ Shifts \subseteq [commands : [Procs -> SUBSET Commands],
                         days : Nat \ {0}, events : Nat \ {0}]
    /\ Given \subseteq Nat /\ \A at \in Given : at % 2 = 1
    /\ Ranges \subseteq [days : Nat \ {0}, limit : Nat]
    /\ Moved \subseteq Symbols

VARIABLES
    today,      \* the local date, counted from the activation
    clock,      \* the instant the clock was last read at
    account,    \* [available, total] of each asset at the exchange
    moves,
    settings,   \* config.yaml
    shift,      \* one of Shifts
    created,    \* dates with a cycle in the ledger
    pc,
    job,
    sold,       \* history: lots the program has sold
    peak,       \* history: the most that was available at any time
    changed,    \* history: `clock` when the asset's balance last changed
    snapped,    \* history: what the latest snapshot of an asset saw of it, and when
    provisional \* history: days with candles of a back-fill that had begun before
                \* they were over, and since then of none that began later

worldVars == <<today, clock, account, moves, settings, shift>>
tableVars == <<balances, candles, created>>
historyVars == <<sold, peak, changed, snapped, provisional>>
vars == <<worldVars, tableVars, pc, job, historyVars>>

NoJob ==
    [at     |-> 0,      \* evaluated_at, or observed_at of a reconciliation
     day    |-> 0,      \* its date
     seen   |-> << >>,  \* fetched balances
     plan   |-> << >>,  \* the sell plan: an item for each symbol
     todo   |-> {},     \* what is still to be sold, or to be fetched
     since  |-> 0,      \* of a back-fill: its first day, and its limit
     limit  |-> NoLimit,
     prices |-> {}]     \* fetched candles

Init ==
    /\ today = 1
    /\ clock = 0
    /\ account \in Accounts
    /\ moves = 0
    /\ settings \in Settings
    /\ shift \in Shifts
    /\ balances = << >> /\ candles = {} /\ created = {}
    /\ pc = [p \in Procs |-> "idle"]
    /\ job = [p \in Procs |-> NoJob]
    /\ sold = [s \in Symbols |-> 0]
    /\ peak = [s \in Symbols |-> account[s].available]
    /\ changed = [s \in Symbols |-> 0]
    /\ snapped = << >>
    /\ provisional = {}

Continue(p, label, locals) ==
    /\ pc' = [pc EXCEPT ![p] = label]
    /\ job' = [job EXCEPT ![p] = locals]

End(p) == Continue(p, "idle", NoJob)

MoreEvents == clock + 2 * moves < 2 * shift.events

\* datetime.now: no two readings are equal.
ReadClock ==
    /\ MoreEvents
    /\ clock' = clock + 2
    /\ UNCHANGED <<today, account, moves, settings, shift>>

Least(S) == CHOOSE x \in S : \A y \in S : x <= y

\* The balance of an asset changes, for good reasons or by the owner's hand.
SetBalance(s, available, total) ==
    /\ account' = [account EXCEPT ![s] = [available |-> available, total |-> total]]
    /\ peak' = [peak EXCEPT ![s] = IF available > @ THEN available ELSE @]
    /\ changed' = [changed EXCEPT ![s] = clock]

-----------------------------------------------------------------------------
(* The live run, from preview_plan on.                                     *)

StartLive(p) ==
    /\ "live" \in shift.commands[p] /\ pc[p] = "idle"
    /\ ReadClock
    /\ Continue(p, "balances", [NoJob EXCEPT !.at = clock', !.day = today])
    /\ UNCHANGED <<tableVars, historyVars>>

\* --at: any instant on any date, as long as one before the last reading of the
\* clock is on no later date than today.
StartLiveAt(p) ==
    /\ "live_at" \in shift.commands[p] /\ pc[p] = "idle"
    /\ \E at \in Given, day \in 1..shift.days :
           /\ at < clock => day <= today
           /\ Continue(p, "balances", [NoJob EXCEPT !.at = at, !.day = day])
    /\ UNCHANGED <<worldVars, tableVars, historyVars>>

ReadBalances(p) ==
    /\ pc[p] = "balances"
    /\ Continue(p, "plan", [job[p] EXCEPT !.seen = FetchBalances(account)])
    /\ UNCHANGED <<worldVars, tableVars, historyVars>>

BalanceOf(amounts, s) == IF s \in DOMAIN amounts THEN amounts[s] ELSE NoBalance

\* The initial balances the planner is given.
InitialBalances == LatestBalances({"initial_snapshot"})

SellPlan(p, quotes) ==
    [s \in Symbols |-> PlanItem(settings, BalanceOf(job[p].seen, s),
                                BalanceOf(InitialBalances, s), Market, quotes[s])]

PlannedItems(plan) == {s \in DOMAIN plan : plan[s].status = "planned"}

\* The rest of preview_plan: the tickers, the initial balances, the plan.  One
\* blocked item, or a plan without a planned one, ends the run.
MakePlan(p) ==
    /\ pc[p] = "plan"
    /\ \E quotes \in [Symbols -> Quotes] :
           LET plan == SellPlan(p, quotes)
           IN  IF PlannedItems(plan) = {} \/ \E s \in Symbols : plan[s].status = "blocked"
               THEN End(p)
               ELSE Continue(p, "create", [job[p] EXCEPT !.plan = plan, !.todo = PlannedItems(plan)])
    /\ UNCHANGED <<worldVars, tableVars, historyVars>>

\* create_cycle_with_orders succeeds for a date that has no cycle yet.
MayCreate(day) == day \notin created

CreateCycle(p) ==
    /\ pc[p] = "create"
    /\ IF MayCreate(job[p].day)
       THEN /\ created' = created \union {job[p].day}
            /\ Continue(p, "submit", job[p])
       ELSE End(p) /\ UNCHANGED created
    /\ UNCHANGED <<worldVars, balances, candles, historyVars>>

\* ccxt truncates an amount to the precision of the market.
Truncated(quantity) == quantity \div Lot

\* submit_market_sell_order for the next item; a rejection ends the run.
Submit(p) ==
    LET s    == Least(job[p].todo)
        lots == Truncated(job[p].plan[s].quantity)
        rest == job[p].todo \ {s}
    IN  /\ pc[p] = "submit"
        /\ \/ /\ 0 < lots /\ lots <= account[s].available
              /\ SetBalance(s, account[s].available - lots, account[s].total - lots)
              /\ sold' = [sold EXCEPT ![s] = @ + lots]
              /\ Continue(p, IF rest = {} THEN "fetch" ELSE "submit", [job[p] EXCEPT !.todo = rest])
           \/ /\ End(p)
              /\ UNCHANGED <<account, sold, peak, changed>>
        /\ UNCHANGED <<today, clock, moves, settings, shift, tableVars, snapped, provisional>>

-----------------------------------------------------------------------------
(* reconcile: as a command, and at the end of a live run, whose            *)
(* evaluated_at it takes for its own.                                      *)

\* Faulty variant: the reconciliation is given no observed_at.
StartUnstamped(p) ==
    /\ "reconcile" \in shift.commands[p] /\ pc[p] = "idle"
    /\ Continue(p, "fetch", NoJob)
    /\ UNCHANGED <<worldVars, tableVars, historyVars>>

StartReconcile(p) ==
    /\ "reconcile" \in shift.commands[p] /\ pc[p] = "idle"
    /\ ReadClock
    /\ Continue(p, "fetch", [NoJob EXCEPT !.at = clock', !.day = today])
    /\ UNCHANGED <<tableVars, historyVars>>

FetchAccount(p) ==
    /\ pc[p] = "fetch"
    /\ Continue(p, "record", [job[p] EXCEPT !.seen = FetchBalances(account), !.plan = << >>])
    /\ UNCHANGED <<worldVars, tableVars, historyVars>>

\* Faulty variant: observed_at is read when the balances are written.
RecordLate(p) ==
    /\ pc[p] = "record"
    /\ ReadClock
    /\ RecordBalances(clock', job[p].seen, "reconciliation")
    /\ End(p)
    /\ UNCHANGED <<candles, created, historyVars>>

Record(p) ==
    /\ pc[p] = "record"
    /\ RecordBalances(job[p].at, job[p].seen, "reconciliation")
    /\ End(p)
    /\ UNCHANGED <<worldVars, candles, created, historyVars>>

-----------------------------------------------------------------------------
(* snapshot-balances: observed_at is read after the balances were fetched. *)

Snapshot(p) ==
    /\ "snapshot" \in shift.commands[p] /\ pc[p] = "idle"
    /\ Continue(p, "stamp", [NoJob EXCEPT !.seen = FetchBalances(account)])
    /\ UNCHANGED <<worldVars, tableVars, historyVars>>

StampSnapshot(p) ==
    /\ pc[p] = "stamp"
    /\ ReadClock
    /\ Continue(p, "snapshot", [job[p] EXCEPT !.at = clock'])
    /\ UNCHANGED <<tableVars, historyVars>>

\* An asset that a snapshot with a later stamp has seen already.
SeenLater(s, at) == s \in DOMAIN snapped /\ snapped[s].at > at

RecordSnapshot(p) ==
    LET at   == job[p].at
        seen == job[p].seen
    IN  /\ pc[p] = "snapshot"
        /\ RecordBalances(at, seen, "initial_snapshot")
        /\ snapped' = [s \in DOMAIN snapped \union DOMAIN seen |->
                          IF s \in DOMAIN seen /\ ~SeenLater(s, at)
                          THEN [at |-> at, amount |-> seen[s]] ELSE snapped[s]]
        /\ End(p)
        /\ UNCHANGED <<worldVars, candles, created, sold, peak, changed, provisional>>

-----------------------------------------------------------------------------
(* backfill-prices, with its --days and --limit.                           *)

StartBackfill(p) ==
    /\ "backfill" \in shift.commands[p] /\ pc[p] = "idle"
    /\ \E range \in Ranges :
           Continue(p, "candles", [NoJob EXCEPT !.day = today, !.todo = Symbols,
                                                !.since = DefaultSince(range.days, today),
                                                !.limit = range.limit])
    /\ UNCHANGED <<worldVars, tableVars, historyVars>>

Covers(j, day) == InRange(j.since, j.limit, day)

\* The provisional days once run j has stored these candles.
StillProvisional(j, fetched) ==
    {day \in provisional \union {candle[2] : candle \in fetched} :
        day >= j.day \/ ~Covers(j, day)}

\* Faulty variant: the candles of a symbol are stored as they are fetched.
StoreEachSymbol(p) ==
    LET s == Least(job[p].todo)
    IN  /\ pc[p] = "candles"
        /\ \E last \in {today - 1, today} :
               LET fetched == FetchOhlcv(s, job[p].since, job[p].limit, last)
               IN  /\ RecordPriceCandles(fetched)
                   /\ provisional' = StillProvisional(job[p], fetched)
        /\ IF job[p].todo = {s} THEN End(p)
           ELSE Continue(p, "candles", [job[p] EXCEPT !.todo = @ \ {s}])
        /\ UNCHANGED <<worldVars, balances, created, sold, peak, changed, snapped>>

\* The exchange has a candle of today from the symbol's first trade on.
FetchCandles(p) ==
    LET s == Least(job[p].todo)
    IN  /\ pc[p] = "candles"
        /\ \E last \in {today - 1, today} :
               Continue(p, IF job[p].todo = {s} THEN "store" ELSE "candles",
                        [job[p] EXCEPT !.todo = @ \ {s},
                                       !.prices = @ \union FetchOhlcv(s, job[p].since,
                                                                      job[p].limit, last)])
        /\ UNCHANGED <<worldVars, tableVars, historyVars>>

StoreCandles(p) ==
    /\ pc[p] = "store"
    /\ RecordPriceCandles(job[p].prices)
    /\ provisional' = StillProvisional(job[p], job[p].prices)
    /\ End(p)
    /\ UNCHANGED <<worldVars, balances, created, sold, peak, changed, snapped>>

-----------------------------------------------------------------------------
(* The world.                                                              *)

\* A call raises, or the process is killed.
Stop(p) ==
    /\ pc[p] # "idle"
    /\ End(p)
    /\ UNCHANGED <<worldVars, tableVars, historyVars>>

\* The owner deposits or withdraws a lot, or locks or frees one with an order
\* of his own.
MoveCoins(s) ==
    LET a == account[s].available
        t == account[s].total
    IN  /\ MoreEvents
        /\ moves' = moves + 1
        /\ \/ SetBalance(s, a + 1, t + 1)
           \/ a > 0 /\ SetBalance(s, a - 1, t - 1)
           \/ a > 0 /\ SetBalance(s, a - 1, t)
           \/ a < t /\ SetBalance(s, a + 1, t)
        /\ UNCHANGED <<today, clock, settings, shift, tableVars, pc, job, sold, snapped, provisional>>

Tomorrow ==
    /\ today < shift.days
    /\ today' = today + 1
    /\ UNCHANGED <<clock, account, moves, settings, shift, tableVars, pc, job, historyVars>>

LiveStep(p) == ReadBalances(p) \/ MakePlan(p) \/ CreateCycle(p) \/ Submit(p)
ReconcileStep(p) == FetchAccount(p) \/ Record(p)
BackfillStep(p) == FetchCandles(p) \/ StoreCandles(p)

Next ==
    \/ \E p \in Procs :
           \/ StartLive(p) \/ StartLiveAt(p) \/ LiveStep(p)
           \/ StartReconcile(p) \/ ReconcileStep(p)
           \/ Snapshot(p) \/ StampSnapshot(p) \/ RecordSnapshot(p)
           \/ StartBackfill(p) \/ BackfillStep(p)
           \/ Stop(p)
    \/ \E s \in Moved : MoveCoins(s)
    \/ Tomorrow

Spec == Init /\ [][Next]_vars

-----------------------------------------------------------------------------
(* Types.                                                                  *)

Amounts == [available : Nat, total : Nat]
Instants == (1 .. 2 * shift.events) \union Given
Dates == 1..shift.days
Labels == {"idle", "balances", "plan", "create", "submit", "fetch", "record", "stamp",
           "snapshot", "candles", "store"}
Items == [status : {"planned", "skipped", "blocked"}, quantity : Nat, bid : Nat]

IsAmounts(f) == DOMAIN f \subseteq Symbols /\ \A s \in DOMAIN f : f[s] \in Amounts

IsJob(j) ==
    /\ j = [at |-> j.at, day |-> j.day, seen |-> j.seen, plan |-> j.plan,
            todo |-> j.todo, since |-> j.since, limit |-> j.limit, prices |-> j.prices]
    /\ j.at \in Instants \union {0}
    /\ j.day \in Dates \union {0}
    /\ IsAmounts(j.seen)
    /\ DOMAIN j.plan \subseteq Symbols
    /\ \A s \in DOMAIN j.plan : j.plan[s] \in Items
    /\ j.todo \subseteq Symbols
    /\ j.since \in Int /\ j.limit \in Nat
    /\ j.prices \subseteq Symbols \X Dates

\* Every variable stays within its type: no balance becomes negative, and each
\* row of the table is stamped with an instant a command has read.
TypeOK ==
    /\ today \in Dates
    /\ clock \in 0 .. 2 * shift.events /\ clock % 2 = 0
    /\ account \in [Symbols -> Amounts]
    /\ moves \in 0..shift.events
    /\ settings \in Settings /\ shift \in Shifts
    /\ DOMAIN balances \subseteq Symbols \X ((1..clock) \union Given)
    /\ \A key \in DOMAIN balances :
           balances[key].amount \in Amounts /\ balances[key].source \in Sources
    /\ candles \subseteq Symbols \X Dates
    /\ created \subseteq Dates
    /\ pc \in [Procs -> Labels]
    /\ job = [p \in Procs |-> job[p]] /\ \A p \in Procs : IsJob(job[p])
    /\ sold \in [Symbols -> Nat] /\ peak \in [Symbols -> Nat]
    /\ changed \in [Symbols -> 0..clock]
    /\ DOMAIN snapped \subseteq Symbols
    /\ \A s \in DOMAIN snapped : snapped[s] \in [at : 1..clock, amount : Amounts]
    /\ provisional \subseteq Dates

-----------------------------------------------------------------------------
(* Safety.                                                                 *)

\* Holdings are averaged out and not dumped: each scheduled date that has a
\* cycle sells at most its percentage of the most that was ever available,
\* whatever the snapshots, deposits, crashes and overlapping runs, and after the
\* exchange has cut each quantity to its lots.  It is the dates that count:
\* with --at a run may sell for a date still to come.
OnSchedule ==
    \A s \in Symbols :
        sold[s] * Lot <= Cardinality(created) * settings.percent * peak[s]

\* The balances the planner takes its percentage of are, for each asset, what
\* the snapshot-balances with the latest stamp saw of it, in whatever order the
\* snapshots are written: reconciliations write to the same table, before,
\* between and after, and never replace them.
BasisIsSnapshot ==
    InitialBalances = [s \in DOMAIN snapped |-> snapped[s].amount]

\* A reconciliation's row that is stamped later than the last change of an
\* asset and is the one shown shows what the account holds: observed_at is read
\* before anything is fetched, so a row never claims to be newer than it is.
\* The instants --at was given are no readings of the clock and left out.
StampedBeforeFetched ==
    \A key \in LatestKeys(Sources) :
        /\ balances[key].source = "reconciliation"
        /\ key[2] > changed[key[1]] /\ key[2] \notin Given
        => balances[key].amount = account[key[1]]

\* A day of the portfolio history lacks the price of an asset that has a balance
\* only while all its prices may still come: it was back-filled before it was
\* over, and no later back-fill has reached it.  Errors and crashes between two
\* symbols, midnights, overlaps and short ranges leave no other hole.
FinishedDaysPriced ==
    \A day \in HistoryDays \ provisional :
        MissingPrices(Symbols, day) \intersect DOMAIN LatestBalances(Sources) = {}

\* The value a cycle sells, as it was estimated, is within the limit the
\* settings give for a cycle.
PlanValue(plan) ==
    LET Value[S \in SUBSET DOMAIN plan] ==
            IF S = {} THEN 0
            ELSE LET s == Least(S) IN ItemValue(plan[s]) + Value[S \ {s}]
    IN  Value[PlannedItems(plan)]

CycleWithinCap ==
    \A p \in Procs : pc[p] = "submit" => PlanValue(job[p].plan) <= settings.maxSell

-----------------------------------------------------------------------------
(* Action properties.                                                      *)

\* A sell leaves the reserve of the symbol at the bid its run planned with, or
\* the account has lost coins between the run's look at it and the sell.
ReserveKept ==
    [][\A p \in Procs, s \in Symbols :
           /\ pc[p] = "submit" /\ job'[p] # job[p]
           /\ sold'[s] > sold[s]
           /\ account[s].available >= job[p].seen[s].available
           => account'[s].available * Lot * job[p].plan[s].bid >= settings.minRemaining]_vars
=============================================================================
