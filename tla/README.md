# A verification development of cost-average-out

cost-average-out sells a fixed percentage of the operator's coins on Kraken on a
daily, weekly or monthly schedule. It is a command-line program without a daemon:
a systemd timer starts `run-once` once a day, the operator runs other commands by
hand, and everything that lasts is in a SQLite ledger and on the exchange. What can
go wrong is selling twice, selling too much, selling without a record, and staying
blocked for ever; these TLA+ modules state that precisely, TLC checks it on small
instances, and TLAPS proves every safety property of the passing runs for all of them,
some of them under conditions that section 5 names.

## 1. The system

| Component | State it keeps | Operations | What makes it correct |
|---|---|---|---|
| live cycle, `cycle.py` `live_run_once` | locals of one invocation | gates, plan, create cycle, submit each item, register, reconcile, finish | no item sold twice; the ledger knows before the exchange; a cycle is completed only when settled |
| dry run, `cycle.py` `dry_run_once` | locals | plan; `--persist-simulation` writes a cycle | never sells, nor lets another run sell that cycle |
| activation, `activation.py` | `activation_state`, one row | evaluate date or price, store once | all runs agree on one start date |
| schedule, `scheduling.py` | none | relevant date, status, cycle id | due on the dates of the recurrence, none passed over |
| reconciliation, `reconciliation.py` | locals | fetch open, closed, fills; write; judge | what it calls resolved is final on the exchange; it comes to resolve every row |
| ledger, `ledger.py` | tables of cycles, planned orders, exchange orders, fills, activation, balances, candles, events | one transaction per method | UNIQUE cycle id and client order id |
| exchange adapter, `exchange.py` | none | fetch, submit, normalise, classify errors | an order that may have been accepted is never taken for one that was not |
| planner, `planner.py` | none | `build_sell_plan`: quantity, minima, cap, reserve | the percentage of the right balance, within what is available; reserve and cap kept |
| balances, `ledger.py`, `snapshot-balances` | the `balances` table | snapshot, rows of a reconciliation, latest rows per source | the basis of the planner is the latest snapshot; no row claims to be newer than its data |
| portfolio, `portfolio.py` | the `price_candles` table | back-fill, history | only days back-filled before they were over lack the price of a symbol |
| configuration, `config.py` | `config.yaml` | load and validate | read once per invocation |
| notifications, presentation, deployment | none | output | read by nothing |

The commands share nothing but the ledger, the exchange account and config.yaml. Two
may overlap: nothing in the program or its systemd units locks the ledger for a whole
run. A ledger method is one SQLite transaction, an exchange call one HTTP request, and
a run makes many of each one after another; between any two of them another command,
the exchange, midnight or the operator's editor may act, and the process may die.
Submissions time out with the order accepted, on its way, or lost.

## 2. The modules

| Module | Models | How it corresponds to the code |
|---|---|---|
| `Scheduling` | `scheduling.py` | one operator per function; dates are ordinals, as `date.toordinal` numbers them |
| `DailyTimer` | `evaluate_cycle` asked once a day | one clock; for the properties of the calendar |
| `Exchange` | the orders at Kraken, and what the adapter fetches | `orders`, by exchange id; `NormalizeOrder` is `_normalize_order` |
| `Ledger` | the tables of cycles, orders, fills and the activation | one operator per transaction, each to be one conjunct of a step |
| `Reconciliation` | `reconcile()`, and the processes | `pc[p]` is the call process p makes next, `job[p]` its locals |
| `Cycle` | `live_run_once`, `dry_run_once`, `evaluate_activation` | one action per exchange call, transaction or decision between them |
| `CostAverageOut` | the whole: commands, exchange, clock, operator | `Next`, fairness, all properties |
| `SellOnce` | the abstract promise | offers of a cycle made once, each placed at most once |
| `Planner` | `build_sell_plan` | `PlanItem` is one turn of its loop; the first failing check decides |
| `Balances` | `record_balances`, `latest_balances`, `fetch_balances` | a row for each asset and `observed_at`; queries are operators |
| `Portfolio` | `portfolio.py`, `fetch_ohlcv`, the `price_candles` table | candles are pairs of symbol and day |
| `Selldown` | live run, reconcile, snapshot and back-fill over real quantities, with the owner's own moves | one action per exchange call, transaction or decision |
| `MCCostAverageOut`, `MCDailyTimer`, `MCSelldown` | instances for TLC | configurations, days, who runs what |
| `CostAverageOutProofs`, `OrderProofs` | theorems about `CostAverageOut` | section 5: cycles and submissions; records and what they know |
| `CalendarProofs`, `DailyTimerProofs` | theorems about `Scheduling` and `DailyTimer` | section 5: calendar; schedule |
| `SelldownProofs` | theorems about `Selldown` | section 5 |

There are two compositions, each of them abstract where the other is detailed.

`CostAverageOut` is about orders and their records. It extends `Cycle`, which extends `Reconciliation`,
`Ledger`, `Exchange` and `Scheduling` in turn, and instantiates `SellOnce` with the
mapping `Offered` (planned orders of cycles that are no simulation) and `Placed` (keys of
the orders on the exchange).

`Selldown` is about amounts. It extends `Planner`, `Portfolio` and, through it, `Balances`.
Its live runs have passed the gates, an order executes at once or is rejected, and every day
is a date of the schedule; the planner, the balances and the two commands that write them
are as in the code. Of the cycles table it keeps the dates (`created`), because UNIQUE cycle
ids are what limits a day to one sell of a symbol.

A process stands for one invocation after another. Its labels follow the code:

    live:  activate -> record_activation -> gate -> preview -> create -> mark_executing
             -> submit -> register -> mark_submitted -> (submit | fetch_open ...)
             -> ... -> summarise -> finish_completed | finish_partial
           submit -> timeout -> timeout_planned -> timeout_cycle     (ExchangeTimeoutError)
           submit -> rejected -> rejected_cycle                      (ExchangeError)
    dry:   dry -> simulate
    both:  fetch_open -> fetch_recent -> fetch_fills -> record -> summarise

and in `Selldown`:

    live:       balances -> plan -> create -> submit -> (submit | fetch)
    reconcile:  fetch -> record           snapshot:  stamp -> snapshot
    back-fill:  candles -> (candles | store)

Definitions marked "Faulty variant" are what a plausible bug would make of the definition
below them. Nothing in the specifications uses them; each property has one under which
TLC finds it violated, so that each says something of the code.

### Abstractions

In `CostAverageOut`:

- Cycle id and client order id are digests (64 and 56 bits) of their inputs; the model
  uses the inputs, so collisions are left out. A cycle is its settings, its activation date
  and its scheduled date, an order's key its cycle and symbol.
- Instants are local dates. Time zones, and fills within a day, are not told apart; a
  lookback is counted in days.
- A sell plan is any choice of the statuses planned, skipped and blocked for its
  symbols. Which of them the planner gives depends on balances, the initial snapshot,
  prices and market limits, and on none of the tables of this module.
- Quantities, prices, balances, the event log, notifications and output are left out. A
  fill is its order and its day.
- The adapter fetches orders symbol by symbol; the model fetches all symbols in one
  step. An order has one symbol and is never seen by two of those requests.
- `submitting`, the default status of a row in `ledger.py`, is not a status of the
  model: no caller registers an order without a status.
- A database error ends the run with the transaction rolled back, which is what `Crash`
  does before that step.
- `--at` is in the model as `EvaluationDays`: a run may evaluate any of the days.
- Fetched orders have the client order id they were submitted with, as the exchange returns it. An order without
  one is the owner's; it is in nobody's ledger, so `_find_exchange_order`, which then looks for its exchange id
  alone (`ledger.py:900`), finds nothing. Such orders are left out.
- The price trigger is met or not, as the exchange has it; a failing price fetch counts
  as not met, in the code too.

In `Selldown`:

- A balance is a number of lots, the step the exchange trades a symbol in, and a quantity a
  number of hundredths of a lot: decimals of the code are exact for the percentages in use,
  and so are these. What ccxt does to a quantity before it is sent (`Truncated`) is modelled
  from how `exchange.py` uses it.
- An instant is a natural number. The clock is read at even ones, each reading later than the one before, and `--at`
  gives odd ones (`Given`), past or future: nobody hits a reading of the clock to the microsecond. A run with `--at`
  (`StartLiveAt`) evaluates any date that fits its instant: an instant before the last reading of the
  clock has no date after today.
- `snapshot-balances` fetches, reads the clock and writes in three steps, so that two snapshots may be written in the
  reverse order of their stamps.
- The settings are read by each run and stay the same; `ValidSettings` is what
  `config.py` accepts of the schedule and of the limits, of percentages the whole ones.
- The basis is the latest initial snapshot of each asset, whenever it was taken; snapshots may
  be taken again, with coins deposited in between.
- Of a candle only its presence counts. The exchange has one of each symbol for every day that is over; that of today is
  there from the symbol's first trade on. A back-fill requests the days its `--days` and `--limit` cover. A symbol stands for its base asset: `config.py`
  accepts each base asset once.
- The owner may deposit, withdraw, lock and free coins between any two steps.

## 3. Runs

All instances are in `MCCostAverageOut`, `MCDailyTimer` and `MCSelldown`; each `.cfg` names its bounds.

| Run | Instance | Checks | Shows |
|---|---|---|---|
| `Overlap` | two processes, each live or dry; one symbol; two days; `--at` | `TypeOK`, `NoDoubleSell`, `NoDateSoldTwice`, `SimulationNeverSells`, `SellsOnce` | overlapping runs never sell twice |
| `Operator` | timer's live run of two symbols, operator's reconcile; one day | `LedgerBeforeExchange`, `OrdersTracked`, `ResolvedIsFinal`, `CompletedIsSettled`, `FillsWithOrders` | ledger and exchange agree through timeouts, rejections, failing reads |
| `Single` | one process, any command; two weekly dates; kill switch edited; price activation | `FirstSellConfirmed`, `BlockedWhileUnresolved`, `ResolvedStays` | the gates hold over any history, with crashes, lost requests and late errors |
| `Recovery` | live run and reconcile; one day; fairness | `BlockIsLifted` | no row stays unresolved for ever |
| `Timer` | three starts, three ends, each interval; 100 days | `DueOnItsDates`, `NoCycleSkipped` | the calendar |
| `Holdings` | two symbols and two processes in five shifts: live run beside reconcile and snapshot; live run with `--at` beside snapshots; snapshots and a reconciliation beside snapshots; back-fills over three days beside snapshots; two back-fills beside each other | `TypeOK`, `OnSchedule`, `BasisIsSnapshot`, `StampedBeforeFetched`, `FinishedDaysPriced`, `ReserveKept` | quantities follow the schedule and the snapshot, tables are not staler than they say, and prices that are missing may still come |
| `CrashUntracked` | one process, one order, a crash | `OrdersTracked` | violated: section 4 |
| `LateErrorUntracked` | one process, one order, an error after acceptance | `OrdersTracked` | violated |
| `OrphanIgnored` | one process, two days, a crash | `BlockIsHeeded` | violated |
| `TimerNeverReconciles` | live runs alone, two days; fairness | `BlockIsLifted` | violated |
| `LostStaysUnknown` | live run and reconcile, a lost request; fairness | `BlockIsLifted` | violated |
| `CycleCap` | one live run of two symbols | `CycleWithinCap` | violated |

Why the bounds are enough. Two processes are what an interleaving between a check and
its use needs, and three would repeat the pairs; the properties of `Overlap` and `Operator` are
proved for any number. `Single` has one process because two of its three properties are about
commands that do not overlap. Two symbols are what a loop needs to fail between two items; two
days, to have a cycle after a cycle and a date evaluated late. `Single` uses days 1 and 8
so that the weekly schedule, its end date, a lookback of seven days and activation before or on its
date all occur. `Overlap` has no crash: a process that stops taking steps while the
other one goes on is among its behaviours, and of a crash it lacks only that the stopped
process starts anew, which the theorems of section 5 cover: they hold for any faults. `Timer` starts on 31
December 2027, 30 January 2028 and 31 December 2099: months of 28, 29, 30 and 31 days, a
leap day and a century without one come within the 100 days of `Span`. Deadlock checking
is off there and in `CycleCap` alone, because in both the clock stops at its bound and nothing
can follow.

`Holdings` has a shift for each pair of commands whose overlap matters, with bounds of its own
(`MCShifts`); together they have 2.3 million states. A shift's `events` bounds the readings of the clock and the moves
of the owner together. Four of them are enough for a live run on either side of a snapshot, a deposit between
two snapshots, a move between what a run fetched and what it sells or records, and two snapshots with a reconciliation
that are written in any order. `Given` has the instant 3, which lies between the first two readings of the clock: a run
given it is ahead of the first and behind the second. With `--at` a run of day 1 may sell for day 2, and both dates are sold on one day. Back-fills
have three days and three ranges (`MCRanges`): today alone, everything, and everything cut off after one
candle. Midnight between two symbols on the first day and a back-fill of today alone on the third one leave a hole
in the middle of the history, and one that reaches back heals it. Only the first asset is moved by the owner; the second one changes by
sells alone. Half of the three available lots of the first is a quantity the exchange cuts, and one of its lots is
locked from the start. Quotes are a bid of 1, one of 2 and one with too wide a spread; settings differ in basis
and reserve.

The ends of `Timer` include one before the activation: such a schedule is due on no date. The
faults of each run are chosen so that their combinations stay small; all of `FaultKinds`
occur in some passing run. `lost`, `late_error` and crashes are kept out of `Operator` and
`lost` out of `Recovery`, because `OrdersTracked` and `BlockIsLifted` fail with them;
that is what the violation runs show.

Symmetry is used in `Overlap` only: its processes run the same commands, and its properties
are safety properties.

Fairness (`FairSpec`). A running process goes on until it ends, and a command that is
run regularly is started again: the timer is `Persistent` and daily, and the operator is
told to reconcile until nothing is unresolved. Reads and transactions that are retried for
ever succeed once (strong fairness on the steps of `reconcile()`): nothing in the code
makes them fail for ever. The exchange accepts a request that is on its way and
ends each open market order. `TimerNeverReconciles` assumes the same fairness of a
deployment where nobody runs `reconcile`.

## 4. Where code and documents differ

1. `OrdersTracked` fails when the process dies between submission and registration
   (`cycle.py:265` to `301`): no row, no unknown state, no block. `docs/safety.md:20` asks
   for one. The cycle itself is not sold again, by `NoDoubleSell`.
2. It fails in the same way when an accepted submission ends in an error other than a
   timeout (`cycle.py:291`, `exchange.py:352`), which `docs/exchange-adapters.md:93`
   takes for a rejection before acceptance.
3. `BlockIsHeeded` fails: `reconcile` reports the order of 1 or 2 as blocking, and the next
   live run sells (`cycle.py:115`). `docs/exchange-adapters.md:67` says it blocks.
4. `BlockIsLifted` fails where only the timer runs: a live run reconciles after
   it has submitted and never before (`cycle.py:247`, `317`), unlike the flow of
   `docs/operations.md:14`.
5. `BlockIsLifted` fails for a request that never reached the exchange: no reconciliation
   resolves its row (`reconciliation.py:50`), while `docs/operations.md:307` has the operator
   wait for that.

6. `CycleWithinCap` fails: `planner.py:198` compares `max_sell_value_per_cycle` with the value
   of each symbol, so that a cycle may sell as many times the limit as it has symbols.
   `docs/safety.md:14` has it as a limit per cycle, and so does its name; lines 27-30 of that document
   have it among the checks of each symbol, as the code does.

## 5. Proofs

`CostAverageOutProofs` proves for all values of the constants (any number of processes,
configurations, symbols, days; any faults), from the assumptions the modules name:

- `Invariance`: `Spec => []IInv`;
- `TypeCorrect`, `NeverSoldTwice`, `LedgerFirst`, `SimulationsNeverSell`: `TypeOK`,
  `NoDoubleSell`, `LedgerBeforeExchange` and `SimulationNeverSells`;
- `ImplementsSellOnce`: `Spec => SellsOnce`, the refinement of `SellOnce`.

Assumptions: days are naturals; outcomes, plan statuses and faults are among those the
modules name; lookbacks are positive; symbols are positive naturals; a process runs known
commands. TLC evaluates them on every run.

The argument. `NoDoubleSell` is not inductive: that the next order is new does not
follow from the orders there are. `IInv` adds what a run knows of its cycle:

- `LocalsSet`: locals that a label needs have been set;
- `CyclesOwned`: a run that has created its cycle has it in the ledger, it is no
  simulation, and no other run executes it (the UNIQUE cycle id, for `CreateConflicts`
  refuses a second creation and no cycle is ever deleted);
- `ItemsPlanned`: what it has still to submit is planned and has no order; the item in
  its hand is one the cycle offers and will not come again;
- `OrdersOffered`: every order belongs to a cycle of the ledger and was planned.

A lemma for each action shows `GoodStep`: `IInv` is kept and the step is a step of `SellOnce`
or changes nothing of it. Most actions are covered by `LedgerStep` (a step of one process
that adds no cycle and no order), and three carry the argument: `NewCycleStep`,
`SubmitNextStep` and `ItemStatusStep`.

`OrderProofs` builds on `IInv` and proves what remains of the safety properties of `Overlap`, `Operator` and
`Single`, from the same assumptions unless one is named:

| Theorem | Property | Layer |
|---|---|---|
| `DatesSoldOnce` | `NoDateSoldTwice` | `Activated` |
| `ResolvedIsEnded` | `ResolvedIsFinal` | `Knowledge` |
| `FillsCome` | `FillsWithOrders` | `Knowledge` |
| `CompletedMeansSettled` | `CompletedIsSettled` | `Progress` |
| `FirstSellIsConfirmed` | `FirstSellConfirmed` | `Confirmed` |
| `EveryOrderTracked` | `OrdersTracked` | itself, over `Progress` |
| `UnresolvedBlocks` | `BlockedWhileUnresolved` | `Fresh` |
| `ResolvedForGood` | `ResolvedStays` | `Fresh` |

Each layer is an invariant over those before it, and says what one of the properties leaves open:

- `Activated`, over `IInv`: whoever carries an activation date carries the one of the ledger, and every cycle with an
  order starts on it. `NoDateSoldTwice` by itself allows a run that is about to sell with another date.
- `Knowledge`, over `IInv`: a row, a response and a fetched status that says "ended" are true of the order they
  name, whenever they were read, for an ended order stays as it is (`OrdersKept`). A reconciliation that is
  about to record has the fills of all orders it found ended, because it fetched them later.
- `Progress`, over `Knowledge`: in a run's cycle each item the plan does not skip is still to be submitted, in the
  run's hand, or submitted with a row that names its order, and what is still to be submitted has no row; a
  completed cycle is settled, and stays so since rows are never deleted and keep their orders (`RowsKept`).
- `Confirmed`, over `Progress`: a run past its gates was confirmed or comes after a completed cycle,
  and completed cycles stay completed.
- `Fresh`, over `ResolvedIsFinal`: a run that is about to create a cycle has nothing unresolved beside it, and what
  it fetched is not older than a resolved row.

`EveryOrderTracked` assumes that `Faults` has neither `crash` nor `late_error`: the runs `CrashUntracked` and
`LateErrorUntracked` show that with either one it is false. It rests on `NoRegisterConflict`: no other row has the
exchange order or the client order id that a run registers, so that its registration is never refused.
`Fresh` assumes a single process (`\A p, q \in Procs : p = q`), which is what "do not overlap" means; it allows crashes,
restarts, and requests that arrive after their run has ended. Section 6 says how two processes break its two properties.

The steps of `Next` are sorted once (`StepKinds`, `RunSteps`) into what comes before a cycle (`EarlyMove`), a run in its cycle
(`CarriesOn`), a submission (`SubmitsItem`) and the world outside, so that each layer has one case
for every kind and not for every action.

`CalendarProofs` proves of the Gregorian calendar, over all integers: years are told from days
correctly (`YearFound`, from bounds on the distance of whole years from their mean length), months follow
without a gap, so that dates and ordinals are one to one (`OrdinalsAreDates`); and what `_add_months` and
`_latest_monthly_date` compute (`MonthStart`, `MonthTurns`).

`DailyTimerProofs` proves `CyclesAreDue` and `CyclesAreNotSkipped`, the two properties of the run `Timer`, for every interval,
activation date, end date, day and span: for weeks with arithmetic on division by seven, for months
with the calendar.

`SelldownProofs` proves, for any number of symbols, runs, settings, quotes and days and any
bound on events:

- `PlannedWithinLimits`: what `build_sell_plan` marks as planned is within the available balance,
  the share of the basis, the cap and the reserve it is given;
- `TypeCorrect`, `SoldOnSchedule`, `ReserveIsKept`, `BasisHolds`, `RowsNotNewerThanData` and
  `HistoryPriced`: every property of the run `Holdings`;
- `SoldInTime`: where no run is given `--at` (`WithoutAt`), the first d days sell at most d times the percentage.
  `SoldOnSchedule` counts the scheduled dates that have a cycle, and needs no such condition.

Assumptions (`SelldownAssumption`): the allowlist is not empty and its symbols are naturals, for they are
positions in it; settings are those `config.py` accepts; instants
given with `--at` are no readings of the clock; amounts, quotes and limits are naturals;
and of each asset no more is available than there is in total, at first.

The argument is in layers, each an inductive invariant that may use the ones it names:

- `Base`: types, the locals a label needs, and `PartOfTotal`. A sell takes no more than is available at the
  exchange when it executes, whatever the plan was based on.
- `Stamped`, over `Base`: a row's instant, if it is a reading of the clock, is from before its fetch, so if the asset has
  not changed since, the row is what the account holds; the same of what a run has fetched and not yet recorded.
- `Basis`, over `Base`: of each asset a snapshot has seen, the table has the row of the snapshot with the latest stamp
  (`RowsOfSnapped`), and no other row of a snapshot is later. It needs that no run about to record has the instant of
  a snapshot's row or of a snapshot still to be written (`Reserved`), for rows of one asset and instant replace each other.
- `Schedule`, over `Base` and `Basis`: what runs have seen is within the peak, so each plan is within its share
  of it; a run that submits has a date of its own (UNIQUE cycle ids); and what was sold is within the shares of
  the dates whose cycle has no more to sell of the symbol (`Accounted`). `OnSchedule` alone is not inductive: it does not say
  that the next sell belongs to a date not yet counted.
- `Dated`, over `Base`: without `--at` no run and no cycle is of a date after today, which turns dates into days for
  `SoldInTime`.
- `PlansKeepReserve`, over `Base`: a plan leaves the reserve of what its run has seen, and only gets shorter.
- `Priced`, over `Base`: a day that is not provisional has candles of all symbols or of none (`AllOrNone`), and a back-fill has
  a candle of each day in its range that was over when it began, for every symbol it has fetched (`FetchesAligned`).

Model-checked only: liveness (`BlockIsLifted` under `FairSpec` in the run `Recovery`), which TLAPS cannot prove. The properties of
the violation runs are false of the code.

## 6. Limits and plan

Properties hold as stated, and no further: `NoDateSoldTwice` is for one set of settings
(editing the percentage or the end date makes a new cycle of a date already sold);
`BlockedWhileUnresolved` is for runs that do not overlap (two runs of different cycles may both
pass the gate before either has an order); `ResolvedStays` is for commands that do not overlap (two reconciliations may record an
older view last; the row is put right by the next one). `CompletedIsSettled` says nothing of cycles
that stay partial, unknown or executing: no command ever changes their status again.
`OnSchedule` counts scheduled dates that have a cycle. `run-once --live --at` with a date still to come sells
that date's cycle today (`cli.py:348`, `scheduling.py:41`), beside today's own, so that on the day itself more than the percentage leaves;
only without `--at` are dates days (`SoldInTime`).
`BasisIsSnapshot` is about assets a snapshot saw; an asset of which nothing was held then has
no initial balance, and since its item is blocked, and one blocked item blocks the plan, nothing is
sold until a snapshot sees it. Of two snapshots that overlap the later stamp decides, and not the later fetch.
`StampedBeforeFetched` is about rows of reconciliations that read the clock: a snapshot
reads the clock after it has fetched and may outdate a later observation, and a live run that was given a future instant
stamps its closing reconciliation with it, which hides later rows until then.
`FinishedDaysPriced` leaves out provisional days: a back-fill that midnight divides, or one that runs before each symbol has
traded, stores today's candles of some symbols only, and the hole stays until a back-fill whose `--days` and `--limit` reach
that day runs after it is over. With a short `--days` that may be never.
An asset that was sold completely is absent from what is fetched, so its latest row keeps its last balance.
These are listed as hazards.

Order of work:

1. Core, done: schedule, exchange, ledger, reconciliation, cycle, their composition; the runs
   above; the inductive invariant, `SellOnce`, and the days of daily and weekly schedules.
2. Amounts, done: `Planner`, `Balances`, `Portfolio`, their composition `Selldown`, and theorems of all
   its properties but `CycleWithinCap`, which the code does not keep.
3. Theorems about the orders and the calendar, done: every safety property of the passing runs, each with its own
   strengthening.
4. Open: that the sells of `Selldown` implement `SellOnce` as well, which would tie the two compositions together.

Not modelled: notifications, presentation, read-only commands, installation scripts, schema
migrations and the parsing of config.yaml. They change no state that a run depends on.

## 7. Running it

    tlc -workers 2 -config Overlap.cfg MCCostAverageOut
    tlc -workers 2 -config Timer.cfg MCDailyTimer
    tlc -workers 2 -config Holdings.cfg MCSelldown
    tlapm CostAverageOutProofs.tla
    tlapm OrderProofs.tla
    tlapm CalendarProofs.tla
    tlapm DailyTimerProofs.tla
    tlapm SelldownProofs.tla
