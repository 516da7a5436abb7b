--------------------------- MODULE SelldownProofs ---------------------------
(***************************************************************************)
(* Proofs about Selldown, for every choice of its constants.               *)
(***************************************************************************)
EXTENDS Selldown, FiniteSetTheorems, WellFoundedInduction, TLAPS

\* The next symbol of a loop exists: a nonempty set of symbols, which are
\* positions in the allowlist, has a least element.
LEMMA LeastSymbol ==
    ASSUME NEW S, S \subseteq Symbols, S # {}
    PROVE  Least(S) \in S
<1>1. S \subseteq Nat
  BY SelldownAssumption
<1>2. PICK x \in S : \A y \in S : ~ (<<y, x>> \in OpToRel(<, Nat))
  BY <1>1, NatLessThanWellFounded, WFMin
<1>3. \A y \in S : ~ (y < x)
  BY <1>1, <1>2 DEF OpToRel
<1>4. \A y \in S : x <= y
  BY <1>1, <1>3
<1> QED
  BY <1>4 DEF Least

-----------------------------------------------------------------------------
(* The planner.                                                            *)

\* A planned item sells something, no more than is available and no more than
\* its share of the basis; its value is within the limit; what it leaves is
\* worth the reserve.
WithinLimits(item, st, held, snapshot) ==
    /\ held # NoBalance /\ BasisBalance(st, held, snapshot) # NoBalance
    /\ item.quantity > 0
    /\ item.quantity <= held.available * Lot
    /\ item.quantity <= BasisBalance(st, held, snapshot).available * st.percent
    /\ item.quantity * item.bid <= st.maxSell
    /\ (held.available * Lot - item.quantity) * item.bid >= st.minRemaining

\* What build_sell_plan marks as planned keeps every limit it is given,
\* whatever the balances, the market and the quote are (planner.py).
THEOREM PlannedWithinLimits ==
    ASSUME NEW st, ValidSettings(st),
           NEW held \in Amounts \union {NoBalance}, NEW snapshot \in Amounts \union {NoBalance},
           NEW market, NEW quote \in [bid : Nat, ask : Nat]
    PROVE  LET item == PlanItem(st, held, snapshot, market, quote)
           IN  /\ item \in Items
               /\ item.status = "planned" => WithinLimits(item, st, held, snapshot)
<1> DEFINE item == PlanItem(st, held, snapshot, market, quote)
           basis == BasisBalance(st, held, snapshot)
           quantity == Quantity(st, held, snapshot)
<1>1. CASE ItemStatus(st, held, snapshot, market, quote) # "planned"
  <2>1. ItemStatus(st, held, snapshot, market, quote) \in {"skipped", "blocked"}
    BY <1>1 DEF ItemStatus
  <2> QED
    BY <1>1, <2>1 DEF PlanItem, Items
<1>2. CASE ItemStatus(st, held, snapshot, market, quote) = "planned"
  <2>1. /\ held # NoBalance /\ basis # NoBalance
        /\ ~ NothingToSell(st, held, snapshot)
        /\ ~ AboveCap(st, quantity, quote.bid)
        /\ ~ BelowReserve(st, held, quantity, quote.bid)
    BY <1>2 DEF ItemStatus
  <2>2. held \in Amounts /\ basis \in Amounts
    BY <2>1 DEF BasisBalance
  <2>3. item = [status |-> "planned", quantity |-> quantity, bid |-> quote.bid]
    BY <1>2 DEF PlanItem
  <2>4. st.percent \in Nat /\ st.maxSell \in Nat /\ st.minRemaining \in Nat
    BY DEF ValidSettings, ValidShare, ValidLimits
  <2>5. basis.available * st.percent \in Nat /\ held.available * Lot \in Nat
    BY <2>2, <2>4 DEF Amounts, Lot
  <2>6. /\ quantity \in Nat
        /\ quantity <= held.available * Lot
        /\ quantity <= basis.available * st.percent
    BY <2>5 DEF Quantity, Smaller
  <2>7. quantity > 0
    BY <2>1, <2>6 DEF NothingToSell
  <2>8. quantity * quote.bid \in Int /\ (held.available * Lot - quantity) * quote.bid \in Int
    BY <2>2, <2>6 DEF Amounts, Lot
  <2>9. /\ quantity * quote.bid <= st.maxSell
        /\ (held.available * Lot - quantity) * quote.bid >= st.minRemaining
    BY <2>1, <2>4, <2>8 DEF AboveCap, BelowReserve
  <2> QED
    BY <2>1, <2>3, <2>6, <2>7, <2>9 DEF WithinLimits, Items
<1> QED
  BY <1>1, <1>2

-----------------------------------------------------------------------------
(* What a run knows: types, and locals that its label needs.               *)

TimedLabels == {"balances", "plan", "create", "submit", "fetch", "record"}
LiveLabels == {"balances", "plan", "create", "submit"}
SellLabels == {"create", "submit"}
BackfillLabels == {"candles", "store"}

\* The instants a command may have for its own: those of the clock so far, and
\* those of --at.
Reached(now) == (1..now) \union Given

\* The least a run that goes on to `label` has to have in its locals.
LocalsAt(label, j, now, date) ==
    /\ label \in TimedLabels => j.at \in Reached(now)
    /\ label = "snapshot" => j.at \in 1..now
    /\ label \in LiveLabels => j.day > 0
    /\ label \in SellLabels =>
           /\ j.todo # {}
           /\ \A s \in j.todo : s \in DOMAIN j.plan /\ j.plan[s].status = "planned"
    /\ label \in BackfillLabels => j.day > 0 /\ j.day <= date
    /\ label = "candles" => j.todo # {}

JobsTyped ==
    /\ pc \in [Procs -> Labels]
    /\ job = [p \in Procs |-> job[p]]
    /\ \A p \in Procs : IsJob(job[p])

LocalsSet == \A p \in Procs : LocalsAt(pc[p], job[p], clock, today)

\* What is available is a part of the total.
PartOfTotal == \A s \in Symbols : account[s].available <= account[s].total

Base ==
    /\ TypeOK
    /\ clock + 2 * moves <= 2 * shift.events
    /\ LocalsSet
    /\ PartOfTotal

\* The constants' assumption, in the parts the proofs use.
LEMMA Parameters ==
    /\ Symbols # {}
    /\ \A st \in Settings : ValidSettings(st)
    /\ \A sh \in Shifts : sh.days \in Nat /\ sh.days > 0 /\ sh.events \in Nat
    /\ Quotes \subseteq [bid : Nat, ask : Nat]
    /\ \A at \in Given : at \in Nat /\ at > 0 /\ at % 2 = 1
    /\ \A range \in Ranges : range.days \in Nat /\ range.limit \in Nat
<1>1. \A at \in Given : at \in Nat /\ at % 2 = 1
  BY SelldownAssumption
<1>2. \A at \in Nat : at % 2 = 1 => at > 0
  OBVIOUS
<1> QED
  BY <1>1, <1>2, SelldownAssumption

\* The clock is even and leaves room for the moves to come; so does its next
\* reading.
LEMMA ClockTyped ==
    ASSUME Base
    PROVE  /\ clock \in Nat /\ moves \in Nat /\ shift.events \in Nat
           /\ clock % 2 = 0 /\ (clock + 2) % 2 = 0
           /\ today \in Nat /\ today > 0 /\ today \in Dates /\ shift.days \in Nat
           /\ MoreEvents => clock + 2 + 2 * moves <= 2 * shift.events
<1>1. /\ clock \in Nat /\ moves \in Nat /\ shift.events \in Nat /\ clock % 2 = 0
      /\ today \in Nat /\ today > 0 /\ today \in Dates /\ shift.days \in Nat
  BY Parameters DEF Base, TypeOK, Dates
<1> QED
  BY <1>1 DEF MoreEvents

\* A run that goes on to a label with what it needs leaves all runs typed and
\* with what they need, if neither clock runs backwards.
LEMMA RunGoesOn ==
    ASSUME Base, NEW p \in Procs, NEW label \in Labels, NEW locals,
           Continue(p, label, locals), IsJob(locals), LocalsAt(label, locals, clock', today),
           clock' \in Nat, clock' >= clock, UNCHANGED <<today, shift>>
    PROVE  JobsTyped' /\ LocalsSet'
<1>1. \A q \in Procs : /\ pc'[q] = IF q = p THEN label ELSE pc[q]
                       /\ job'[q] = IF q = p THEN locals ELSE job[q]
  BY DEF Continue, Base, TypeOK
<1>2. \A j : IsJob(j) => IsJob(j)'
  BY DEF IsJob, Dates, Instants
<1>3. \A q \in Procs : IsJob(job'[q])
  BY <1>1 DEF Base, TypeOK
<1>4. JobsTyped'
  BY <1>2, <1>3 DEF JobsTyped, Continue, Base, TypeOK
<1>5. \A q \in Procs : LocalsAt(pc[q], job[q], clock, today) => LocalsAt(pc[q], job[q], clock, today)' \/ q = p
  <2> SUFFICES ASSUME NEW q \in Procs, q # p
               PROVE  LocalsAt(pc[q], job[q], clock, today) => LocalsAt(pc[q], job[q], clock, today)'
    OBVIOUS
  <2>1. pc'[q] = pc[q] /\ job'[q] = job[q]
    BY <1>1
  <2>2. 1..clock \subseteq 1..clock'
    BY ClockTyped
  <2> QED
    BY <2>1, <2>2 DEF LocalsAt, Reached
<1>6. LocalsSet'
  BY <1>1, <1>5 DEF LocalsSet, Base
<1> QED
  BY <1>4, <1>6

\* Nothing is wrong with the locals of a run that has ended.
LEMMA NoJobTyped ==
    ASSUME Base, clock' \in Nat, UNCHANGED <<today, shift>>
    PROVE  IsJob(NoJob) /\ LocalsAt("idle", NoJob, clock', today)
  BY DEF IsJob, NoJob, NoLimit, LocalsAt, TimedLabels, LiveLabels, SellLabels,
         BackfillLabels, IsAmounts

\* A run that ends leaves all runs typed.
LEMMA RunEnds ==
    ASSUME Base, NEW p \in Procs, End(p),
           clock' \in Nat, clock' >= clock, UNCHANGED <<today, shift>>
    PROVE  JobsTyped' /\ LocalsSet'
  BY NoJobTyped, RunGoesOn DEF End, Labels

-----------------------------------------------------------------------------
(* Types: one lemma for each action.                                       *)

BalancesTyped ==
    /\ DOMAIN balances \subseteq Symbols \X Reached(clock)
    /\ \A key \in DOMAIN balances :
           balances[key].amount \in Amounts /\ balances[key].source \in Sources

SnappedTyped ==
    /\ DOMAIN snapped \subseteq Symbols
    /\ \A s \in DOMAIN snapped : snapped[s] \in [at : 1..clock, amount : Amounts]

\* What a step of a run that moves no coins has to keep.
LEMMA RunStep ==
    ASSUME Base, NEW p \in Procs, NEW label \in Labels, NEW locals,
           Continue(p, label, locals), IsJob(locals), LocalsAt(label, locals, clock', today),
           clock' = clock \/ ReadClock,
           UNCHANGED <<today, account, moves, settings, shift, sold, peak, changed>>,
           BalancesTyped', SnappedTyped',
           candles' \subseteq Symbols \X Dates, created' \subseteq Dates,
           provisional' \subseteq Dates
    PROVE  Base'
<1>1. /\ clock' \in Nat /\ clock' % 2 = 0 /\ clock' >= clock
      /\ clock' + 2 * moves <= 2 * shift.events
  BY ClockTyped DEF Base, ReadClock
<1>2. clock' \in 0 .. 2 * shift.events /\ 0..clock \subseteq 0..clock'
  BY <1>1, ClockTyped
<1>3. JobsTyped' /\ LocalsSet'
  BY <1>1, RunGoesOn
<1>4. changed' \in [Symbols -> 0..clock']
  BY <1>2 DEF Base, TypeOK
<1>5. TypeOK'
  BY <1>1, <1>2, <1>3, <1>4
  DEF Base, TypeOK, JobsTyped, BalancesTyped, SnappedTyped, Dates, Reached
<1> QED
  BY <1>1, <1>3, <1>5 DEF Base, PartOfTotal

\* A step that reads the clock or not, and writes no balances.
LEMMA BalancesStay ==
    ASSUME Base, clock' = clock \/ ReadClock, UNCHANGED balances
    PROVE  BalancesTyped'
<1>1. 1..clock \subseteq 1..clock'
  BY ClockTyped DEF ReadClock
<1> QED
  BY <1>1 DEF BalancesTyped, Reached, Base, TypeOK

\* ... or no snapshot.
LEMMA SnappedStays ==
    ASSUME Base, clock' = clock \/ ReadClock, UNCHANGED snapped
    PROVE  SnappedTyped'
<1>1. 1..clock \subseteq 1..clock'
  BY ClockTyped DEF ReadClock
<1> QED
  BY <1>1 DEF SnappedTyped, Base, TypeOK

\* A step that writes balances it has typed amounts of, under an instant it may
\* have for its own.
LEMMA BalancesRecorded ==
    ASSUME Base, UNCHANGED clock,
           NEW observed \in Reached(clock), NEW seen, IsAmounts(seen), NEW source \in Sources,
           RecordBalances(observed, seen, source)
    PROVE  BalancesTyped'
<1> DEFINE new == (DOMAIN seen) \X {observed}
<1>3. DOMAIN balances' = DOMAIN balances \union new
  BY DEF RecordBalances
<1>4. new \subseteq Symbols \X Reached(clock)
  BY DEF IsAmounts
<1>5. DOMAIN balances' \subseteq Symbols \X Reached(clock')
  BY <1>3, <1>4 DEF Base, TypeOK, Reached
<1>6. ASSUME NEW key \in DOMAIN balances'
      PROVE  balances'[key].amount \in Amounts /\ balances'[key].source \in Sources
  <2>1. CASE key \in new
    <3>1. balances'[key] = [amount |-> seen[key[1]], source |-> source]
      BY <2>1 DEF RecordBalances
    <3>2. key[1] \in DOMAIN seen
      BY <2>1
    <3> QED
      BY <3>1, <3>2 DEF IsAmounts
  <2>2. CASE key \notin new
    <3>1. key \in DOMAIN balances /\ balances'[key] = balances[key]
      BY <2>2, <1>3 DEF RecordBalances
    <3> QED
      BY <3>1 DEF Base, TypeOK
  <2> QED
    BY <2>1, <2>2
<1> QED
  BY <1>5, <1>6 DEF BalancesTyped

\* fetch_balances gives amounts of symbols.
LEMMA FetchTyped ==
    ASSUME Base
    PROVE  IsAmounts(FetchBalances(account))
  BY DEF IsAmounts, FetchBalances, Base, TypeOK

\* The locals of a command that has just read the clock.
LEMMA StartTyped ==
    ASSUME Base, clock' = clock \/ ReadClock, NEW label \in {"balances", "fetch"},
           NEW at \in Instants, at \in Reached(clock'), NEW day \in Dates,
           NEW j, j = [NoJob EXCEPT !.at = at, !.day = day]
    PROVE  IsJob(j) /\ LocalsAt(label, j, clock', today)
<1>1. /\ j = [at |-> j.at, day |-> j.day, seen |-> j.seen, plan |-> j.plan,
              todo |-> j.todo, since |-> j.since, limit |-> j.limit, prices |-> j.prices]
      /\ j.at = at /\ j.day = day /\ j.since = 0 /\ j.limit = 0
      /\ j.seen = << >> /\ j.plan = << >> /\ j.todo = {} /\ j.prices = {}
  BY DEF NoJob, NoLimit
<1>2. IsJob(j)
  BY <1>1 DEF IsJob, IsAmounts
<1>3. day > 0
  BY ClockTyped DEF Dates
<1>4. LocalsAt(label, j, clock', today)
  BY <1>1, <1>3 DEF LocalsAt, TimedLabels, SellLabels, BackfillLabels
<1> QED
  BY <1>2, <1>4

\* A reading of the clock is an instant.
LEMMA ReadingTyped ==
    ASSUME Base, ReadClock
    PROVE  clock' \in Instants /\ clock' \in 1..clock' /\ clock' \in Reached(clock')
<1>1. clock' \in 1 .. 2 * shift.events /\ clock' \in 1..clock'
  BY ClockTyped DEF ReadClock
<1> QED
  BY <1>1 DEF Instants, Reached

\* A command starts with an instant and a date.
LEMMA StartStep ==
    ASSUME Base, clock' = clock \/ ReadClock, NEW label \in {"balances", "fetch"},
           NEW at \in Instants, at \in Reached(clock'), NEW day \in Dates,
           NEW p \in Procs, Continue(p, label, [NoJob EXCEPT !.at = at, !.day = day]),
           UNCHANGED <<today, account, moves, settings, shift, tableVars, historyVars>>
    PROVE  Base'
<1>1. PICK j : j = [NoJob EXCEPT !.at = at, !.day = day]
  OBVIOUS
<1>2. IsJob(j) /\ LocalsAt(label, j, clock', today)
  BY <1>1, StartTyped
<1>3. BalancesTyped' /\ SnappedTyped'
  BY BalancesStay, SnappedStays DEF tableVars, historyVars
<1>4. candles' \subseteq Symbols \X Dates /\ created' \subseteq Dates /\ provisional' \subseteq Dates
  BY DEF tableVars, historyVars, Base, TypeOK
<1> QED
  BY <1>1, <1>2, <1>3, <1>4, RunStep DEF tableVars, historyVars, Labels

\* Typing is kept when a live run starts.
LEMMA StartLiveBase ==
    ASSUME Base, NEW p \in Procs, StartLive(p)
    PROVE  Base'
<1>1. /\ ReadClock /\ UNCHANGED <<today, account, moves, settings, shift>>
      /\ UNCHANGED <<tableVars, historyVars>>
      /\ Continue(p, "balances", [NoJob EXCEPT !.at = clock', !.day = today])
  BY DEF StartLive, ReadClock
<1> QED
  BY <1>1, ReadingTyped, ClockTyped, StartStep

\* ... when one with --at starts,
LEMMA StartLiveAtBase ==
    ASSUME Base, NEW p \in Procs, StartLiveAt(p)
    PROVE  Base'
<1>1. PICK at \in Given, day \in 1..shift.days :
          Continue(p, "balances", [NoJob EXCEPT !.at = at, !.day = day])
  BY DEF StartLiveAt
<1>2. at \in Instants /\ at \in Reached(clock') /\ day \in Dates
  BY DEF Instants, Reached, Dates
<1>3. clock' = clock /\ UNCHANGED <<today, account, moves, settings, shift, tableVars, historyVars>>
  BY DEF StartLiveAt, worldVars
<1> QED
  BY <1>1, <1>2, <1>3, StartStep

\* ... when a reconciliation starts,
LEMMA StartReconcileBase ==
    ASSUME Base, NEW p \in Procs, StartReconcile(p)
    PROVE  Base'
<1>1. /\ ReadClock /\ UNCHANGED <<today, account, moves, settings, shift>>
      /\ UNCHANGED <<tableVars, historyVars>>
      /\ Continue(p, "fetch", [NoJob EXCEPT !.at = clock', !.day = today])
  BY DEF StartReconcile, ReadClock
<1> QED
  BY <1>1, ReadingTyped, ClockTyped, StartStep

\* A step of a run that changes its locals alone.
LEMMA LocalStep ==
    ASSUME Base, NEW p \in Procs, NEW label \in Labels, NEW j,
           Continue(p, label, j), IsJob(j), LocalsAt(label, j, clock, today),
           UNCHANGED <<worldVars, tableVars, historyVars>>
    PROVE  Base'
<1>1. clock' = clock /\ BalancesTyped' /\ SnappedTyped'
  BY BalancesStay, SnappedStays DEF worldVars, tableVars, historyVars
<1>2. candles' \subseteq Symbols \X Dates /\ created' \subseteq Dates /\ provisional' \subseteq Dates
  BY DEF tableVars, historyVars, Base, TypeOK
<1> QED
  BY <1>1, <1>2, RunStep DEF worldVars, tableVars, historyVars

\* The same for one that ends.
LEMMA EndStep ==
    ASSUME Base, NEW p \in Procs, End(p), UNCHANGED <<worldVars, tableVars, historyVars>>
    PROVE  Base'
<1>1. clock \in Nat /\ clock' = clock /\ UNCHANGED <<today, shift>>
  BY ClockTyped DEF worldVars
<1>2. IsJob(NoJob) /\ LocalsAt("idle", NoJob, clock, today)
  BY <1>1, NoJobTyped
<1> QED
  BY <1>2, LocalStep DEF End, Labels

\* The locals of a run are typed and meet what its label needs.
LEMMA KnownLocals ==
    ASSUME Base, NEW p \in Procs
    PROVE  /\ IsJob(job[p]) /\ LocalsAt(pc[p], job[p], clock, today)
           /\ job[p].at \in Nat /\ job[p].day \in Nat /\ clock \in Nat /\ today \in Nat
           /\ job[p].since \in Int /\ job[p].limit \in Nat
<1>1. IsJob(job[p]) /\ LocalsAt(pc[p], job[p], clock, today)
  BY DEF Base, LocalsSet, TypeOK
<1>2. \A at \in Instants : at \in Nat
  BY ClockTyped, Parameters DEF Instants
<1>3. \A day \in Dates : day \in Nat
  BY ClockTyped DEF Dates
<1> QED
  BY <1>1, <1>2, <1>3, ClockTyped DEF IsJob

\* Typing is kept when a run reads the balances it plans with,
LEMMA ReadBalancesBase ==
    ASSUME Base, NEW p \in Procs, ReadBalances(p)
    PROVE  Base'
<1>1. PICK seen : seen = FetchBalances(account)
  OBVIOUS
<1>2. PICK j : j = [job[p] EXCEPT !.seen = seen]
  OBVIOUS
<1>3. IsAmounts(seen) /\ IsJob(job[p])
  BY <1>1, FetchTyped, KnownLocals
<1>4. /\ IsJob(j) /\ j.at = job[p].at /\ j.day = job[p].day
      /\ j.plan = job[p].plan /\ j.todo = job[p].todo
  BY <1>2, <1>3 DEF IsJob
<1>5. LocalsAt("plan", j, clock, today)
  BY <1>4, KnownLocals
  DEF ReadBalances, LocalsAt, TimedLabels, LiveLabels, SellLabels, BackfillLabels
<1> QED
  BY <1>1, <1>2, <1>4, <1>5, LocalStep DEF ReadBalances, Labels

\* ... when a run fetches the account,
LEMMA FetchAccountBase ==
    ASSUME Base, NEW p \in Procs, FetchAccount(p)
    PROVE  Base'
<1>1. PICK seen : seen = FetchBalances(account)
  OBVIOUS
<1>2. PICK plan, j : plan = << >> /\ j = [job[p] EXCEPT !.seen = seen, !.plan = plan]
  OBVIOUS
<1>3. IsAmounts(seen) /\ IsJob(job[p]) /\ DOMAIN plan = {}
  BY <1>1, <1>2, FetchTyped, KnownLocals
<1>4. IsJob(j) /\ j.at = job[p].at /\ j.day = job[p].day
  BY <1>2, <1>3 DEF IsJob
<1>5. LocalsAt("record", j, clock, today)
  BY <1>4, KnownLocals
  DEF FetchAccount, LocalsAt, TimedLabels, LiveLabels, SellLabels, BackfillLabels
<1> QED
  BY <1>1, <1>2, <1>4, <1>5, LocalStep DEF FetchAccount, Labels

\* ... when a snapshot starts,
LEMMA SnapshotBase ==
    ASSUME Base, NEW p \in Procs, Snapshot(p)
    PROVE  Base'
<1>1. PICK j : j = [NoJob EXCEPT !.seen = FetchBalances(account)]
  OBVIOUS
<1>2. /\ j = [at |-> j.at, day |-> j.day, seen |-> j.seen, plan |-> j.plan,
              todo |-> j.todo, since |-> j.since, limit |-> j.limit, prices |-> j.prices]
      /\ j.at = 0 /\ j.day = 0 /\ j.seen = FetchBalances(account)
      /\ j.plan = << >> /\ j.todo = {} /\ j.since = 0 /\ j.limit = 0 /\ j.prices = {}
  BY <1>1 DEF NoJob, NoLimit
<1>3. IsJob(j)
  BY <1>2, FetchTyped DEF IsJob
<1>4. LocalsAt("stamp", j, clock, today)
  BY DEF LocalsAt, TimedLabels, LiveLabels, SellLabels, BackfillLabels
<1> QED
  BY <1>1, <1>3, <1>4, LocalStep DEF Snapshot, Labels

\* ... when it reads the clock,
LEMMA StampSnapshotBase ==
    ASSUME Base, NEW p \in Procs, StampSnapshot(p)
    PROVE  Base'
<1>1. PICK at : at = clock'
  OBVIOUS
<1>2. PICK j : j = [job[p] EXCEPT !.at = at]
  OBVIOUS
<1>3. /\ ReadClock /\ UNCHANGED <<today, account, moves, settings, shift, tableVars, historyVars>>
      /\ Continue(p, "snapshot", j)
  BY <1>1, <1>2 DEF StampSnapshot, ReadClock
<1>4. IsJob(j) /\ j.at \in 1..clock'
  <2>1. at \in Instants /\ at \in 1..clock'
    BY <1>1, <1>3, ReadingTyped
  <2>2. IsJob(job[p])
    BY KnownLocals
  <2> QED
    BY <1>2, <2>1, <2>2 DEF IsJob
<1>5. LocalsAt("snapshot", j, clock', today)
  BY <1>4 DEF LocalsAt, TimedLabels, LiveLabels, SellLabels, BackfillLabels
<1>6. BalancesTyped' /\ SnappedTyped'
  BY <1>3, BalancesStay, SnappedStays DEF tableVars, historyVars
<1>7. candles' \subseteq Symbols \X Dates /\ created' \subseteq Dates /\ provisional' \subseteq Dates
  BY <1>3 DEF tableVars, historyVars, Base, TypeOK
<1> QED
  BY <1>3, <1>4, <1>5, <1>6, <1>7, RunStep DEF tableVars, historyVars, Labels

\* ... when a back-fill starts,
LEMMA StartBackfillBase ==
    ASSUME Base, NEW p \in Procs, StartBackfill(p)
    PROVE  Base'
<1>1. PICK range \in Ranges :
          Continue(p, "candles", [NoJob EXCEPT !.day = today, !.todo = Symbols,
                                               !.since = DefaultSince(range.days, today),
                                               !.limit = range.limit])
  BY DEF StartBackfill
<1>2. PICK since, limit :
          /\ since = DefaultSince(range.days, today) /\ since \in Int
          /\ limit = range.limit /\ limit \in Nat
  BY ClockTyped, Parameters DEF DefaultSince
<1>3. PICK j : j = [NoJob EXCEPT !.day = today, !.todo = Symbols, !.since = since, !.limit = limit]
  OBVIOUS
<1>4. /\ j = [at |-> j.at, day |-> j.day, seen |-> j.seen, plan |-> j.plan,
              todo |-> j.todo, since |-> j.since, limit |-> j.limit, prices |-> j.prices]
      /\ j.at = 0 /\ j.day = today /\ j.seen = << >> /\ j.since = since /\ j.limit = limit
      /\ j.plan = << >> /\ j.todo = Symbols /\ j.prices = {}
  BY <1>3 DEF NoJob
<1>5. IsJob(j)
  BY <1>2, <1>4, ClockTyped DEF IsJob, IsAmounts
<1>6. LocalsAt("candles", j, clock, today)
  BY <1>4, ClockTyped, Parameters DEF LocalsAt, TimedLabels, LiveLabels, SellLabels
<1>7. Continue(p, "candles", j)
  BY <1>1, <1>2, <1>3
<1>8. UNCHANGED <<worldVars, tableVars, historyVars>>
  BY DEF StartBackfill
<1>9. "candles" \in Labels
  BY DEF Labels
<1> QED
  BY <1>5, <1>6, <1>7, <1>8, <1>9, LocalStep

\* ... and when a run is cut off.
LEMMA StopBase ==
    ASSUME Base, NEW p \in Procs, Stop(p)
    PROVE  Base'
  BY EndStep DEF Stop

\* What fetch_ohlcv fetches is of days that have begun.
LEMMA CandlesTyped ==
    ASSUME Base, NEW s \in Symbols, NEW since, NEW limit, NEW last \in {today - 1, today}
    PROVE  FetchOhlcv(s, since, limit, last) \subseteq Symbols \X Dates
<1>1. 1..last \subseteq Dates
  BY ClockTyped DEF Dates
<1> QED
  BY <1>1 DEF FetchOhlcv

\* Typing is kept when a back-fill fetches a symbol's candles,
LEMMA FetchCandlesBase ==
    ASSUME Base, NEW p \in Procs, FetchCandles(p)
    PROVE  Base'
<1>1. PICK s : s = Least(job[p].todo)
  OBVIOUS
<1>2. s \in job[p].todo /\ s \in Symbols
  BY <1>1, KnownLocals, LeastSymbol DEF FetchCandles, LocalsAt, IsJob
<1>3. PICK fetched :
          /\ \E last \in {today - 1, today} :
                 fetched = FetchOhlcv(s, job[p].since, job[p].limit, last)
          /\ Continue(p, IF job[p].todo = {s} THEN "store" ELSE "candles",
                      [job[p] EXCEPT !.todo = @ \ {s}, !.prices = @ \union fetched])
  BY <1>1 DEF FetchCandles
<1>4. PICK todo, prices : todo = job[p].todo \ {s} /\ prices = job[p].prices \union fetched
  OBVIOUS
<1>5. PICK j : j = [job[p] EXCEPT !.todo = todo, !.prices = prices]
  OBVIOUS
<1>6. PICK label : label = IF job[p].todo = {s} THEN "store" ELSE "candles"
  OBVIOUS
<1>7. Continue(p, label, j)
  BY <1>3, <1>4, <1>5, <1>6
<1>8. todo \subseteq Symbols /\ prices \subseteq Symbols \X Dates /\ IsJob(job[p])
  BY <1>2, <1>3, <1>4, KnownLocals, CandlesTyped DEF IsJob
<1>9. /\ IsJob(j) /\ j.at = job[p].at /\ j.day = job[p].day /\ j.todo = todo
  BY <1>5, <1>8 DEF IsJob
<1>10. label = "candles" => j.todo # {}
  BY <1>2, <1>4, <1>6, <1>9
<1>11. LocalsAt(label, j, clock, today)
  BY <1>6, <1>9, <1>10, KnownLocals
  DEF FetchCandles, LocalsAt, TimedLabels, LiveLabels, SellLabels, BackfillLabels
<1> QED
  BY <1>6, <1>7, <1>9, <1>11, LocalStep DEF FetchCandles, Labels

\* ... when it stores all it fetched,
LEMMA StoreCandlesBase ==
    ASSUME Base, NEW p \in Procs, StoreCandles(p)
    PROVE  Base'
<1>1. IsJob(NoJob) /\ LocalsAt("idle", NoJob, clock', today) /\ clock' = clock
  BY NoJobTyped, KnownLocals DEF StoreCandles, worldVars
<1>2. job[p].prices \subseteq Symbols \X Dates
  BY KnownLocals DEF IsJob
<1>3. candles' \subseteq Symbols \X Dates
  BY <1>2 DEF StoreCandles, RecordPriceCandles, Base, TypeOK
<1>4. provisional' \subseteq Dates
  BY <1>2 DEF StoreCandles, StillProvisional, Base, TypeOK
<1>5. BalancesTyped' /\ SnappedTyped'
  BY <1>1, BalancesStay, SnappedStays DEF StoreCandles
<1>6. created' \subseteq Dates
  BY DEF StoreCandles, Base, TypeOK
<1> QED
  BY <1>1, <1>3, <1>4, <1>5, <1>6, RunStep DEF StoreCandles, End, Labels, worldVars

\* ... and when a run creates its cycle.
LEMMA CreateCycleBase ==
    ASSUME Base, NEW p \in Procs, CreateCycle(p)
    PROVE  Base'
<1>1. CASE MayCreate(job[p].day)
  <2>1. Continue(p, "submit", job[p]) /\ created' = created \union {job[p].day}
    BY <1>1 DEF CreateCycle
  <2>2. IsJob(job[p]) /\ LocalsAt("submit", job[p], clock', today) /\ clock' = clock
    BY KnownLocals
    DEF CreateCycle, LocalsAt, TimedLabels, LiveLabels, SellLabels, BackfillLabels, worldVars
  <2>3. created' \subseteq Dates
    BY <2>1, KnownLocals DEF CreateCycle, LocalsAt, LiveLabels, IsJob, Base, TypeOK
  <2>4. BalancesTyped' /\ SnappedTyped'
    BY <2>2, BalancesStay, SnappedStays DEF CreateCycle, historyVars
  <2>5. candles' \subseteq Symbols \X Dates /\ provisional' \subseteq Dates
    BY DEF CreateCycle, historyVars, Base, TypeOK
  <2> QED
    BY <2>1, <2>2, <2>3, <2>4, <2>5, RunStep DEF CreateCycle, Labels, worldVars, historyVars
<1>2. CASE ~MayCreate(job[p].day)
  BY <1>2, EndStep DEF CreateCycle, tableVars
<1> QED
  BY <1>1, <1>2

\* The latest rows of a query are amounts of symbols.
LEMMA LatestTyped ==
    ASSUME Base, NEW sources
    PROVE  IsAmounts(LatestBalances(sources))
<1>1. LatestKeys(sources) \subseteq DOMAIN balances
  BY DEF LatestKeys
<1>2. DOMAIN LatestBalances(sources) = {key[1] : key \in LatestKeys(sources)}
  BY DEF LatestBalances
<1>3. ASSUME NEW s \in DOMAIN LatestBalances(sources)
      PROVE  s \in Symbols /\ LatestBalances(sources)[s] \in Amounts
  <2>1. PICK key \in LatestKeys(sources) : key[1] = s
    BY <1>2, <1>3
  <2>2. PICK k : k = CHOOSE other \in LatestKeys(sources) : other[1] = s
    OBVIOUS
  <2>3. k \in LatestKeys(sources)
    BY <2>1, <2>2
  <2>4. LatestBalances(sources)[s] = balances[k].amount
    BY <1>2, <1>3, <2>2 DEF LatestBalances
  <2> QED
    BY <1>1, <2>1, <2>3, <2>4 DEF Base, TypeOK
<1> QED
  BY <1>3 DEF IsAmounts

\* A plan has an item for each symbol, and each planned one is within limits.
LEMMA PlanTyped ==
    ASSUME Base, NEW p \in Procs, NEW quotes \in [Symbols -> Quotes],
           NEW plan, plan = SellPlan(p, quotes)
    PROVE  /\ DOMAIN plan = Symbols
           /\ \A s \in Symbols :
                  /\ plan[s] \in Items
                  /\ plan[s].status = "planned"
                         => WithinLimits(plan[s], settings, BalanceOf(job[p].seen, s),
                                         BalanceOf(InitialBalances, s))
<1>1. DOMAIN plan = Symbols
  BY DEF SellPlan
<1>2. ASSUME NEW s \in Symbols
      PROVE  /\ plan[s] \in Items
             /\ plan[s].status = "planned"
                    => WithinLimits(plan[s], settings, BalanceOf(job[p].seen, s),
                                    BalanceOf(InitialBalances, s))
  <2>1. ValidSettings(settings) /\ quotes[s] \in [bid : Nat, ask : Nat]
    BY Parameters DEF Base, TypeOK
  <2>2. IsAmounts(job[p].seen) /\ IsAmounts(InitialBalances)
    BY KnownLocals, LatestTyped DEF InitialBalances, IsJob
  <2>3. /\ BalanceOf(job[p].seen, s) \in Amounts \union {NoBalance}
        /\ BalanceOf(InitialBalances, s) \in Amounts \union {NoBalance}
    BY <2>2 DEF IsAmounts, BalanceOf
  <2>4. plan[s] = PlanItem(settings, BalanceOf(job[p].seen, s),
                           BalanceOf(InitialBalances, s), Market, quotes[s])
    BY DEF SellPlan
  <2> QED
    BY <2>1, <2>3, <2>4, PlannedWithinLimits
<1> QED
  BY <1>1, <1>2

\* Typing is kept when a run plans.
LEMMA MakePlanBase ==
    ASSUME Base, NEW p \in Procs, MakePlan(p)
    PROVE  Base'
<1>1. PICK quotes \in [Symbols -> Quotes] :
          LET plan == SellPlan(p, quotes)
          IN  \/ End(p)
              \/ /\ PlannedItems(plan) # {}
                 /\ Continue(p, "create", [job[p] EXCEPT !.plan = plan, !.todo = PlannedItems(plan)])
  BY DEF MakePlan
<1>2. PICK plan : plan = SellPlan(p, quotes)
  OBVIOUS
<1>3. PICK todo : todo = PlannedItems(plan)
  OBVIOUS
<1>4. CASE End(p)
  BY <1>4, EndStep DEF MakePlan
<1>5. CASE todo # {} /\ Continue(p, "create", [job[p] EXCEPT !.plan = plan, !.todo = todo])
  <2>1. PICK j : j = [job[p] EXCEPT !.plan = plan, !.todo = todo]
    OBVIOUS
  <2>2. DOMAIN plan = Symbols /\ \A s \in Symbols : plan[s] \in Items
    BY <1>2, PlanTyped
  <2>3. todo \subseteq Symbols /\ \A s \in todo : plan[s].status = "planned"
    BY <1>3, <2>2 DEF PlannedItems
  <2>4. IsJob(job[p])
    BY KnownLocals
  <2>5. /\ IsJob(j) /\ j.at = job[p].at /\ j.day = job[p].day
        /\ j.plan = plan /\ j.todo = todo
    BY <2>1, <2>2, <2>3, <2>4 DEF IsJob
  <2>6. job[p].day > 0
    BY KnownLocals DEF MakePlan, LocalsAt, LiveLabels
  <2>7. LocalsAt("create", j, clock, today)
    BY <1>5, <2>2, <2>3, <2>5, <2>6, KnownLocals
    DEF MakePlan, LocalsAt, TimedLabels, LiveLabels, SellLabels, BackfillLabels
  <2> QED
    BY <1>5, <2>1, <2>5, <2>7, LocalStep DEF MakePlan, Labels
<1> QED
  BY <1>1, <1>2, <1>3, <1>4, <1>5

\* Coins move: an asset gets amounts of which the available one is a part of
\* the total.
LEMMA CoinsMoved ==
    ASSUME Base, NEW s \in Symbols, NEW available \in Nat, NEW total \in Nat,
           available <= total, SetBalance(s, available, total)
    PROVE  /\ account' \in [Symbols -> Amounts] /\ PartOfTotal'
           /\ peak' \in [Symbols -> Nat]
           /\ changed' \in [Symbols -> 0..clock]
<1>1. clock \in 0..clock
  BY ClockTyped
<1> QED
  BY <1>1 DEF SetBalance, Base, TypeOK, PartOfTotal, Amounts

\* What the exchange makes of a quantity is a number of lots within it.
LEMMA CutDown ==
    ASSUME NEW quantity \in Nat
    PROVE  Truncated(quantity) \in Nat /\ Truncated(quantity) * Lot <= quantity
  BY DEF Truncated, Lot

\* The item a run is about to sell is one it has planned.
LEMMA ItemInHand ==
    ASSUME Base, NEW p \in Procs, pc[p] = "submit", NEW s, s = Least(job[p].todo)
    PROVE  /\ s \in Symbols /\ s \in job[p].todo
           /\ s \in DOMAIN job[p].plan /\ job[p].plan[s] \in Items
           /\ job[p].plan[s].status = "planned"
<1>1. s \in job[p].todo
  BY KnownLocals, LeastSymbol DEF LocalsAt, SellLabels, IsJob
<1> QED
  BY <1>1, KnownLocals DEF LocalsAt, SellLabels, IsJob

\* A submission either ends the run with everything else as it was, or sells
\* lots of the next item that are available.
LEMMA SubmitCases ==
    ASSUME Base, NEW p \in Procs, Submit(p)
    PROVE  \/ End(p) /\ UNCHANGED <<worldVars, tableVars, historyVars>>
           \/ \E s \in job[p].todo, lots \in Nat, label \in {"fetch", "submit"} : \E j :
                  /\ s = Least(job[p].todo) /\ s \in Symbols
                  /\ lots = Truncated(job[p].plan[s].quantity)
                  /\ 0 < lots /\ lots <= account[s].available
                  /\ SetBalance(s, account[s].available - lots, account[s].total - lots)
                  /\ sold' = [sold EXCEPT ![s] = @ + lots]
                  /\ IsJob(j) /\ Continue(p, label, j)
                  /\ j.at = job[p].at /\ j.day = job[p].day /\ j.seen = job[p].seen
                  /\ j.plan = job[p].plan /\ j.todo = job[p].todo \ {s}
                  /\ label = "submit" => j.todo # {}
                  /\ UNCHANGED <<today, clock, moves, settings, shift, tableVars,
                                 snapped, provisional>>
<1>1. PICK s : s = Least(job[p].todo)
  OBVIOUS
<1>2. pc[p] = "submit"
  BY DEF Submit
<1>3. /\ s \in Symbols /\ s \in job[p].todo /\ job[p].plan[s].quantity \in Nat
  BY <1>1, <1>2, ItemInHand DEF Items
<1>4. PICK lots \in Nat : lots = Truncated(job[p].plan[s].quantity)
  BY <1>3, CutDown
<1>5. PICK todo, label : /\ todo = job[p].todo \ {s}
                         /\ label = IF todo = {} THEN "fetch" ELSE "submit"
  OBVIOUS
<1>6. PICK j : j = [job[p] EXCEPT !.todo = todo]
  OBVIOUS
<1>7. \/ End(p) /\ UNCHANGED <<worldVars, tableVars, historyVars>>
      \/ /\ 0 < lots /\ lots <= account[s].available
         /\ SetBalance(s, account[s].available - lots, account[s].total - lots)
         /\ sold' = [sold EXCEPT ![s] = @ + lots]
         /\ Continue(p, label, j)
         /\ UNCHANGED <<today, clock, moves, settings, shift, tableVars, snapped, provisional>>
  BY <1>1, <1>4, <1>5, <1>6 DEF Submit, worldVars, historyVars
<1>8. IsJob(job[p])
  BY KnownLocals
<1>9. todo \subseteq Symbols
  BY <1>5, <1>8 DEF IsJob
<1>10. /\ IsJob(j)
       /\ j.at = job[p].at /\ j.day = job[p].day /\ j.seen = job[p].seen
       /\ j.plan = job[p].plan /\ j.todo = todo
  BY <1>6, <1>8, <1>9 DEF IsJob
<1> QED
  BY <1>1, <1>3, <1>4, <1>5, <1>7, <1>10

\* Typing is kept by a submission, whichever way it goes.
LEMMA SubmitBase ==
    ASSUME Base, NEW p \in Procs, Submit(p)
    PROVE  Base'
<1>1. CASE End(p) /\ UNCHANGED <<worldVars, tableVars, historyVars>>
  BY <1>1, EndStep
<1>2. ASSUME NEW s \in job[p].todo, NEW lots \in Nat, NEW label \in {"fetch", "submit"}, NEW j,
             /\ s = Least(job[p].todo) /\ s \in Symbols
             /\ lots = Truncated(job[p].plan[s].quantity)
             /\ 0 < lots /\ lots <= account[s].available
             /\ SetBalance(s, account[s].available - lots, account[s].total - lots)
             /\ sold' = [sold EXCEPT ![s] = @ + lots]
             /\ IsJob(j) /\ Continue(p, label, j)
             /\ j.at = job[p].at /\ j.day = job[p].day /\ j.seen = job[p].seen
             /\ j.plan = job[p].plan /\ j.todo = job[p].todo \ {s}
             /\ label = "submit" => j.todo # {}
             /\ UNCHANGED <<today, clock, moves, settings, shift, tableVars, snapped, provisional>>
      PROVE  Base'
  <2>1. pc[p] = "submit"
    BY DEF Submit
  <2>2. account[s].available \in Nat /\ account[s].total \in Nat
    BY <1>2 DEF Base, TypeOK, Amounts
  <2>3. account[s].available <= account[s].total
    BY <1>2 DEF Base, PartOfTotal
  <2>4. /\ account[s].available - lots \in Nat /\ account[s].total - lots \in Nat
        /\ account[s].available - lots <= account[s].total - lots
    <3>1. lots \in Nat /\ lots <= account[s].available
      BY <1>2
    <3> QED
      BY <2>2, <2>3, <3>1
  <2>5. /\ account' \in [Symbols -> Amounts] /\ PartOfTotal'
        /\ peak' \in [Symbols -> Nat] /\ changed' \in [Symbols -> 0..clock]
    BY <1>2, <2>4, CoinsMoved
  <2>6. LocalsAt(label, j, clock', today)
    BY <1>2, <2>1, KnownLocals
    DEF LocalsAt, TimedLabels, LiveLabels, SellLabels, BackfillLabels
  <2>7. label \in Labels /\ clock' = clock /\ clock \in Nat
    BY <1>2, KnownLocals DEF Labels
  <2>8. JobsTyped' /\ LocalsSet'
    BY <1>2, <2>6, <2>7, RunGoesOn
  <2>9. sold' \in [Symbols -> Nat]
    BY <1>2 DEF Base, TypeOK
  <2>10. UNCHANGED <<balances, candles, created>>
    BY <1>2 DEF tableVars
  <2>11. TypeOK'
    BY <1>2, <2>5, <2>8, <2>9, <2>10 DEF Base, TypeOK, JobsTyped, Dates
  <2> QED
    BY <1>2, <2>5, <2>8, <2>11 DEF Base
<1> QED
  BY <1>1, <1>2, SubmitCases

\* Typing is kept when the owner moves coins,
LEMMA MoveCoinsBase ==
    ASSUME Base, NEW s \in Moved, MoveCoins(s)
    PROVE  Base'
<1>1. s \in Symbols
  BY SelldownAssumption
<1>2. account[s].available \in Nat /\ account[s].total \in Nat
  BY <1>1 DEF Base, TypeOK, Amounts
<1>3. account[s].available <= account[s].total
  BY <1>1 DEF Base, PartOfTotal
<1>4. PICK available \in Nat, total \in Nat :
          available <= total /\ SetBalance(s, available, total)
  BY <1>2, <1>3 DEF MoveCoins
<1>5. /\ account' \in [Symbols -> Amounts] /\ PartOfTotal'
      /\ peak' \in [Symbols -> Nat] /\ changed' \in [Symbols -> 0..clock]
  BY <1>1, <1>4, CoinsMoved
<1>6. /\ UNCHANGED <<today, clock, settings, shift, balances, candles, created, pc, job, sold,
                     snapped, provisional>>
      /\ MoreEvents /\ moves' = moves + 1
  BY DEF MoveCoins, tableVars
<1>7. moves' \in 0..shift.events /\ clock' + 2 * moves' <= 2 * shift.events
  BY <1>6, ClockTyped
<1>8. LocalsSet'
  BY <1>6 DEF Base, LocalsSet, LocalsAt
<1>9. TypeOK'
  BY <1>5, <1>6, <1>7 DEF Base, TypeOK, Dates, IsAmounts, IsJob, Instants
<1> QED
  BY <1>5, <1>6, <1>7, <1>8, <1>9 DEF Base

\* ... when the day ends,
LEMMA TomorrowBase ==
    ASSUME Base, Tomorrow
    PROVE  Base'
<1>1. /\ today' = today + 1 /\ today < shift.days
      /\ UNCHANGED <<clock, account, moves, settings, shift, balances, candles, created,
                     pc, job, sold, peak, changed, snapped, provisional>>
  BY DEF Tomorrow, tableVars, historyVars
<1>2. today' \in Dates'
  BY <1>1, ClockTyped DEF Dates
<1>3. LocalsSet'
  <2> SUFFICES ASSUME NEW p \in Procs PROVE LocalsAt(pc[p], job[p], clock, today)'
    BY DEF LocalsSet
  <2> QED
    BY <1>1, KnownLocals DEF LocalsAt
<1>4. TypeOK'
  BY <1>1, <1>2 DEF Base, TypeOK, Dates, IsAmounts, IsJob, Instants
<1> QED
  BY <1>1, <1>3, <1>4 DEF Base, PartOfTotal

\* ... when a run records the balances it fetched,
LEMMA RecordBase ==
    ASSUME Base, NEW p \in Procs, Record(p)
    PROVE  Base'
<1>1. clock' = clock
  BY DEF Record, worldVars
<1>2. IsJob(NoJob) /\ LocalsAt("idle", NoJob, clock', today)
  BY <1>1, NoJobTyped, KnownLocals DEF Record, worldVars
<1>3. job[p].at \in Reached(clock) /\ IsAmounts(job[p].seen)
  BY KnownLocals DEF Record, LocalsAt, TimedLabels, IsJob
<1>4. BalancesTyped' /\ SnappedTyped'
  BY <1>1, <1>3, BalancesRecorded, SnappedStays DEF Record, Sources, historyVars
<1>5. candles' \subseteq Symbols \X Dates /\ created' \subseteq Dates /\ provisional' \subseteq Dates
  BY DEF Record, historyVars, Base, TypeOK
<1> QED
  BY <1>1, <1>2, <1>4, <1>5, RunStep DEF Record, End, Labels, worldVars, historyVars

\* ... and when a snapshot does.
LEMMA RecordSnapshotBase ==
    ASSUME Base, NEW p \in Procs, RecordSnapshot(p)
    PROVE  Base'
<1>1. UNCHANGED <<today, clock, account, moves, settings, shift>>
  BY DEF RecordSnapshot, worldVars
<1>2. IsJob(NoJob) /\ LocalsAt("idle", NoJob, clock', today)
  BY <1>1, NoJobTyped, KnownLocals
<1>3. job[p].at \in 1..clock /\ IsAmounts(job[p].seen)
  BY KnownLocals DEF RecordSnapshot, LocalsAt, IsJob
<1>4. BalancesTyped'
  BY <1>1, <1>3, BalancesRecorded DEF RecordSnapshot, Sources, Reached
<1>5. SnappedTyped'
  <2>1. PICK at, seen : at = job[p].at /\ seen = job[p].seen
    OBVIOUS
  <2>2. snapped' = [s \in DOMAIN snapped \union DOMAIN seen |->
                       IF s \in DOMAIN seen /\ ~SeenLater(s, at)
                       THEN [at |-> at, amount |-> seen[s]] ELSE snapped[s]]
    BY <2>1 DEF RecordSnapshot
  <2>3. \A s \in DOMAIN seen : s \in Symbols /\ seen[s] \in Amounts
    BY <1>3, <2>1 DEF IsAmounts
  <2>4. \A s \in DOMAIN snapped :
            s \in Symbols /\ snapped[s] \in [at : 1..clock, amount : Amounts]
    BY DEF Base, TypeOK
  <2>5. ASSUME NEW s \in DOMAIN snapped'
        PROVE  s \in Symbols /\ snapped'[s] \in [at : 1..clock, amount : Amounts]
    <3>1. CASE s \in DOMAIN seen /\ ~SeenLater(s, at)
      BY <1>3, <2>1, <2>2, <2>3, <3>1
    <3>2. CASE ~(s \in DOMAIN seen /\ ~SeenLater(s, at))
      <4>1. s \in DOMAIN snapped /\ snapped'[s] = snapped[s]
        BY <2>2, <2>5, <3>2 DEF SeenLater
      <4> QED
        BY <2>4, <4>1
    <3> QED
      BY <3>1, <3>2
  <2> QED
    BY <1>1, <2>5 DEF SnappedTyped
<1>6. candles' \subseteq Symbols \X Dates /\ created' \subseteq Dates /\ provisional' \subseteq Dates
  BY DEF RecordSnapshot, Base, TypeOK
<1> QED
  BY <1>1, <1>2, <1>4, <1>5, <1>6, RunStep DEF RecordSnapshot, End, Labels

\* The initial state, and a step that changes nothing.
LEMMA InitBase == Init => Base
<1> SUFFICES ASSUME Init PROVE Base
  OBVIOUS
<1>1. /\ settings \in Settings /\ shift \in Shifts /\ shift.days \in Nat /\ shift.days > 0
      /\ clock = 0 /\ moves = 0 /\ today = 1 /\ shift.events \in Nat
  BY Parameters DEF Init
<1>2. IsJob(NoJob) /\ LocalsAt("idle", NoJob, clock, today)
  BY DEF IsJob, NoJob, NoLimit, LocalsAt, TimedLabels, LiveLabels, SellLabels,
         BackfillLabels, IsAmounts
<1>3. pc \in [Procs -> Labels] /\ job = [p \in Procs |-> job[p]] /\ LocalsSet
      /\ \A p \in Procs : IsJob(job[p])
  BY <1>2 DEF Init, Labels, LocalsSet
<1>4. account \in [Symbols -> Amounts] /\ PartOfTotal /\ peak \in [Symbols -> Nat]
  BY SelldownAssumption DEF Init, Amounts, PartOfTotal
<1>5. DOMAIN balances = {} /\ DOMAIN snapped = {}
  BY DEF Init
<1>6. clock \in 0 .. 2 * shift.events /\ clock % 2 = 0 /\ moves \in 0..shift.events
      /\ clock + 2 * moves <= 2 * shift.events /\ today \in Dates
  BY <1>1 DEF Dates
<1>7. changed \in [Symbols -> 0..clock]
  BY <1>1 DEF Init
<1> QED
  BY <1>1, <1>3, <1>4, <1>5, <1>6, <1>7 DEF Init, Base, TypeOK

\* Every step keeps Base.
LEMMA BaseStep == Base /\ [Next]_vars => Base'
<1> SUFFICES ASSUME Base, [Next]_vars PROVE Base'
  OBVIOUS
<1>1. CASE UNCHANGED vars
  BY <1>1 DEF vars, worldVars, tableVars, historyVars, Base, TypeOK, LocalsSet, LocalsAt,
              PartOfTotal, IsJob, IsAmounts, Dates, Instants
<1>2. ASSUME NEW p \in Procs, LiveStep(p) \/ ReconcileStep(p) \/ BackfillStep(p)
      PROVE  Base'
  BY <1>2, ReadBalancesBase, MakePlanBase, CreateCycleBase, SubmitBase, FetchAccountBase,
     RecordBase, FetchCandlesBase, StoreCandlesBase DEF LiveStep, ReconcileStep, BackfillStep
<1>3. ASSUME NEW p \in Procs,
             \/ StartLive(p) \/ StartLiveAt(p) \/ StartReconcile(p) \/ Snapshot(p)
             \/ StampSnapshot(p) \/ RecordSnapshot(p) \/ StartBackfill(p) \/ Stop(p)
      PROVE  Base'
  BY <1>3, StartLiveBase, StartLiveAtBase, StartReconcileBase, SnapshotBase,
     StampSnapshotBase, RecordSnapshotBase, StartBackfillBase, StopBase
<1>4. CASE \E s \in Moved : MoveCoins(s)
  BY <1>4, MoveCoinsBase
<1>5. CASE Tomorrow
  BY <1>5, TomorrowBase
<1> QED
  BY <1>1, <1>2, <1>3, <1>4, <1>5 DEF Next

\* Typing is an invariant.
LEMMA BaseHolds == Spec => []Base
<1> QED
  BY InitBase, BaseStep, PTL DEF Spec

\* Types are kept for any number of symbols, runs and days: no sell, whatever
\* the plan rests on, makes a balance negative.
THEOREM TypeCorrect == Spec => []TypeOK
<1>1. Base => TypeOK
  BY DEF Base
<1> QED
  BY <1>1, BaseHolds, PTL

-----------------------------------------------------------------------------
(* What a row of a reconciliation shows.                                   *)

\* Rows of reconciliations, and what a run is about to record, are what the
\* account holds of every asset that has not changed since their instant, if it
\* is one of the clock.
RowsStamped ==
    \A key \in DOMAIN balances :
        /\ balances[key].source = "reconciliation"
        /\ key[2] > changed[key[1]] /\ key[2] \notin Given
        => balances[key].amount = account[key[1]]

FetchStamped(p) ==
    pc[p] = "record" /\ job[p].at \notin Given =>
        \A s \in DOMAIN job[p].seen :
            job[p].at > changed[s] => job[p].seen[s] = account[s]

Stamped == RowsStamped /\ \A p \in Procs : FetchStamped(p)

\* A run goes on with no coins moved and nothing recorded.
LEMMA StampedGoesOn ==
    ASSUME Base, Stamped, NEW p \in Procs, NEW label, NEW j, Continue(p, label, j),
           label = "record" /\ j.at \notin Given =>
               \A s \in DOMAIN j.seen : j.at > changed[s] => j.seen[s] = account[s],
           UNCHANGED <<account, changed, balances>>
    PROVE  Stamped'
<1>1. \A q \in Procs : /\ pc'[q] = IF q = p THEN label ELSE pc[q]
                       /\ job'[q] = IF q = p THEN j ELSE job[q]
  BY DEF Continue, Base, TypeOK
<1>2. FetchStamped(p)'
  BY <1>1 DEF FetchStamped
<1>3. \A q \in Procs : q # p => FetchStamped(q)'
  BY <1>1 DEF FetchStamped, Stamped
<1> QED
  BY <1>2, <1>3 DEF Stamped, RowsStamped

\* The same for a run that ends.
LEMMA StampedEnd ==
    ASSUME Base, Stamped, NEW p \in Procs, End(p), UNCHANGED <<account, changed, balances>>
    PROVE  Stamped'
  BY StampedGoesOn DEF End

\* When coins of an asset move, no row and no run is later.
LEMMA StampedMoved ==
    ASSUME Base, Stamped, NEW s \in Symbols, NEW available, NEW total,
           SetBalance(s, available, total), UNCHANGED balances
    PROVE  /\ RowsStamped'
           /\ \A q \in Procs : pc'[q] = pc[q] /\ job'[q] = job[q] => FetchStamped(q)'
<1>1. \A a \in Symbols : /\ changed'[a] = IF a = s THEN clock ELSE changed[a]
                         /\ a # s => account'[a] = account[a]
  BY DEF SetBalance, Base, TypeOK
<1>2. clock \in Nat
  BY ClockTyped
<1>3. \A key \in DOMAIN balances :
          key[1] \in Symbols /\ (key[2] \notin Given => key[2] \in Int /\ key[2] <= clock)
  BY <1>2 DEF Base, TypeOK
<1>4. RowsStamped'
  BY <1>1, <1>2, <1>3 DEF Stamped, RowsStamped
<1>5. ASSUME NEW q \in Procs, pc'[q] = pc[q], job'[q] = job[q]
      PROVE  FetchStamped(q)'
  <2>1. DOMAIN job[q].seen \subseteq Symbols /\ job[q].at \in Nat
    BY KnownLocals DEF IsJob, IsAmounts
  <2>2. ASSUME pc[q] = "record", job[q].at \notin Given, NEW a \in DOMAIN job[q].seen,
               job[q].at > changed'[a]
        PROVE  job[q].seen[a] = account'[a]
    <3>0. job[q].at <= clock
      BY <1>2, <2>2, KnownLocals DEF LocalsAt, TimedLabels, Reached
    <3>1. a \in Symbols /\ a # s
      BY <1>1, <1>2, <2>1, <2>2, <3>0
    <3>2. job[q].at > changed[a] /\ account'[a] = account[a]
      BY <1>1, <2>2, <3>1
    <3> QED
      BY <2>2, <3>2 DEF Stamped, FetchStamped
  <2> QED
    BY <1>5, <2>2 DEF FetchStamped
<1> QED
  BY <1>4, <1>5

\* A sale changes its symbol after every row and every fetch was stamped.
LEMMA SubmitStamped ==
    ASSUME Base, Stamped, NEW p \in Procs, Submit(p)
    PROVE  Stamped'
<1>1. CASE End(p) /\ UNCHANGED <<worldVars, tableVars, historyVars>>
  BY <1>1, StampedEnd DEF worldVars, tableVars, historyVars
<1>2. ASSUME NEW s \in Symbols, NEW lots, NEW label \in {"fetch", "submit"}, NEW j,
             SetBalance(s, account[s].available - lots, account[s].total - lots),
             Continue(p, label, j), UNCHANGED balances
      PROVE  Stamped'
  <2>1. \A q \in Procs : /\ pc'[q] = IF q = p THEN label ELSE pc[q]
                         /\ job'[q] = IF q = p THEN j ELSE job[q]
    BY <1>2 DEF Continue, Base, TypeOK
  <2>2. FetchStamped(p)'
    BY <1>2, <2>1 DEF FetchStamped
  <2>3. RowsStamped' /\ \A q \in Procs : q # p => FetchStamped(q)'
    BY <1>2, <2>1, StampedMoved
  <2> QED
    BY <2>2, <2>3 DEF Stamped
<1> QED
  BY <1>1, <1>2, SubmitCases DEF tableVars

\* The rows a run adds carry an instant at which the account was as they say,
LEMMA RecordStamped ==
    ASSUME Base, Stamped, NEW p \in Procs, Record(p)
    PROVE  Stamped'
<1>1. /\ RecordBalances(job[p].at, job[p].seen, "reconciliation")
      /\ UNCHANGED <<account, changed>> /\ pc[p] = "record"
  BY DEF Record, worldVars, historyVars
<1>2. ASSUME NEW key \in DOMAIN balances', balances'[key].source = "reconciliation",
             key[2] > changed[key[1]], key[2] \notin Given
      PROVE  balances'[key].amount = account[key[1]]
  <2>1. CASE key \in (DOMAIN job[p].seen) \X {job[p].at}
    <3>1. balances'[key] = [amount |-> job[p].seen[key[1]], source |-> "reconciliation"]
      BY <1>1, <2>1 DEF RecordBalances
    <3>2. key[1] \in DOMAIN job[p].seen /\ key[2] = job[p].at
      BY <2>1
    <3> QED
      BY <1>1, <1>2, <3>1, <3>2 DEF Stamped, FetchStamped
  <2>2. CASE key \notin (DOMAIN job[p].seen) \X {job[p].at}
    <3>1. key \in DOMAIN balances /\ balances'[key] = balances[key]
      BY <1>1, <1>2, <2>2 DEF RecordBalances
    <3> QED
      BY <1>2, <3>1 DEF Stamped, RowsStamped
  <2> QED
    BY <2>1, <2>2
<1>3. RowsStamped'
  BY <1>1, <1>2 DEF RowsStamped
<1>4. \A q \in Procs : pc'[q] = "record" => pc[q] = "record" /\ job'[q] = job[q]
  BY DEF Record, End, Continue, Base, TypeOK
<1>5. \A q \in Procs : FetchStamped(q)'
  BY <1>1, <1>4 DEF Stamped, FetchStamped
<1> QED
  BY <1>3, <1>5 DEF Stamped

\* ... and so do those a snapshot adds.
LEMMA RecordSnapshotStamped ==
    ASSUME Base, Stamped, NEW p \in Procs, RecordSnapshot(p)
    PROVE  Stamped'
<1>1. /\ RecordBalances(job[p].at, job[p].seen, "initial_snapshot")
      /\ UNCHANGED <<account, changed>>
  BY DEF RecordSnapshot, worldVars
<1>2. ASSUME NEW key \in DOMAIN balances', balances'[key].source = "reconciliation"
      PROVE  key \in DOMAIN balances /\ balances'[key] = balances[key]
  BY <1>1, <1>2 DEF RecordBalances
<1>3. RowsStamped'
  BY <1>1, <1>2 DEF Stamped, RowsStamped
<1>4. \A q \in Procs : pc'[q] = "record" => pc[q] = "record" /\ job'[q] = job[q]
  BY DEF RecordSnapshot, End, Continue, Base, TypeOK
<1>5. \A q \in Procs : FetchStamped(q)'
  BY <1>1, <1>4 DEF Stamped, FetchStamped
<1> QED
  BY <1>3, <1>5 DEF Stamped

\* A fetch reads the account after the instant its rows will carry.
LEMMA FetchAccountStamped ==
    ASSUME Base, Stamped, NEW p \in Procs, FetchAccount(p)
    PROVE  Stamped'
<1>1. PICK j : j = [job[p] EXCEPT !.seen = FetchBalances(account), !.plan = << >>]
  OBVIOUS
<1>2. IsJob(job[p]) /\ Continue(p, "record", j)
  BY <1>1, KnownLocals DEF FetchAccount
<1>3. PICK seen : seen = FetchBalances(account)
  OBVIOUS
<1>4. j.seen = seen
  BY <1>1, <1>2, <1>3 DEF IsJob
<1>5. \A s \in DOMAIN seen : seen[s] = account[s]
  BY <1>3 DEF FetchBalances
<1> QED
  BY <1>2, <1>4, <1>5, StampedGoesOn DEF FetchAccount, worldVars, tableVars, historyVars

\* The other steps of runs: they move no coins, record no balances and do not
\* go on to record any.
OtherStep(p) ==
    \/ StartLive(p) \/ StartLiveAt(p) \/ ReadBalances(p) \/ MakePlan(p) \/ CreateCycle(p)
    \/ StartReconcile(p) \/ Snapshot(p) \/ StampSnapshot(p)
    \/ StartBackfill(p) \/ FetchCandles(p) \/ StoreCandles(p) \/ Stop(p)

\* The other steps leave the account and the rows alone.
LEMMA OtherStepQuiet ==
    ASSUME NEW p \in Procs, OtherStep(p)
    PROVE  /\ UNCHANGED <<account, changed, balances, peak, sold, snapped, today, settings, shift>>
           /\ \E label, j : Continue(p, label, j) /\ label # "record"
<1>1. UNCHANGED <<account, changed, balances, peak, sold, snapped, today, settings, shift>>
  BY DEF OtherStep, StartLive, StartLiveAt, ReadBalances, MakePlan, CreateCycle, StartReconcile,
         Snapshot, StampSnapshot, StartBackfill, FetchCandles, StoreCandles, Stop, ReadClock,
         worldVars, tableVars, historyVars
<1>2. \E label, j : Continue(p, label, j) /\ label # "record"
  <2>1. CASE \/ StartLive(p) \/ ReadBalances(p) \/ StartReconcile(p)
             \/ Snapshot(p) \/ StampSnapshot(p)
    BY <2>1 DEF StartLive, ReadBalances, StartReconcile, Snapshot, StampSnapshot
  <2>6. CASE StartLiveAt(p)
    BY <2>6 DEF StartLiveAt
  <2>7. CASE StartBackfill(p)
    BY <2>7 DEF StartBackfill
  <2>2. CASE MakePlan(p)
    BY <2>2 DEF MakePlan, End
  <2>3. CASE CreateCycle(p)
    BY <2>3 DEF CreateCycle, End
  <2>4. CASE FetchCandles(p)
    BY <2>4 DEF FetchCandles
  <2>5. CASE StoreCandles(p) \/ Stop(p)
    BY <2>5 DEF StoreCandles, Stop, End
  <2> QED
    BY <2>1, <2>2, <2>3, <2>4, <2>5, <2>6, <2>7 DEF OtherStep
<1> QED
  BY <1>1, <1>2

\* Every step is one of these.
LEMMA StepKinds ==
    ASSUME Next
    PROVE  \/ \E p \in Procs : \/ OtherStep(p) \/ Submit(p) \/ FetchAccount(p) \/ Record(p)
                               \/ RecordSnapshot(p)
           \/ \E s \in Moved : MoveCoins(s)
           \/ Tomorrow
  BY DEF Next, LiveStep, ReconcileStep, BackfillStep, OtherStep

\* No step gives a row an instant later than what it says.
LEMMA StampedStep == Base /\ Stamped /\ [Next]_vars => Stamped'
<1> SUFFICES ASSUME Base, Stamped, [Next]_vars PROVE Stamped'
  OBVIOUS
<1>1. CASE UNCHANGED <<account, changed, balances, pc, job>>
  BY <1>1 DEF Stamped, RowsStamped, FetchStamped
<1>2. ASSUME NEW p \in Procs, OtherStep(p) PROVE Stamped'
  BY <1>2, OtherStepQuiet, StampedGoesOn
<1>3. ASSUME NEW s \in Moved, MoveCoins(s) PROVE Stamped'
  <2>1. s \in Symbols /\ UNCHANGED <<balances, pc, job>>
    BY <1>3, SelldownAssumption DEF MoveCoins, tableVars
  <2>2. \E available, total : SetBalance(s, available, total)
    BY <1>3 DEF MoveCoins
  <2> QED
    BY <2>1, <2>2, StampedMoved DEF Stamped
<1> QED
  BY <1>1, <1>2, <1>3, StepKinds, SubmitStamped, FetchAccountStamped, RecordStamped,
     RecordSnapshotStamped
  DEF vars, worldVars, tableVars, historyVars, Tomorrow

\* A reconciliation's row that is stamped later than the last change of its
\* asset is what the account holds, for any number of overlapping runs and
\* whatever moves coins between their fetch and their record; stamps that --at
\* was given are left out.
THEOREM RowsNotNewerThanData == Spec => []StampedBeforeFetched
<1>1. Init => Stamped
  BY DEF Init, Stamped, RowsStamped, FetchStamped
<1>2. Stamped => StampedBeforeFetched
  BY DEF Stamped, RowsStamped, StampedBeforeFetched, LatestKeys
<1> QED
  BY <1>1, <1>2, StampedStep, BaseHolds, PTL DEF Spec

-----------------------------------------------------------------------------
(* The basis of the planner.                                               *)

Initial == {"initial_snapshot"}

IsSnapshotRow(key) == key \in DOMAIN balances /\ balances[key].source = "initial_snapshot"

\* An instant that only snapshots have: --at gives none of the even ones, and no
\* run will record a reconciliation under it.
Reserved(at) ==
    at % 2 = 0 /\ \A p \in Procs : pc[p] \in TimedLabels => job[p].at # at

\* `snapped` names the latest snapshot row of each asset, and what is in it.
RowsOfSnapped ==
    /\ \A key \in DOMAIN balances :
           IsSnapshotRow(key) => /\ Reserved(key[2]) /\ key[1] \in DOMAIN snapped
                                 /\ key[2] <= snapped[key[1]].at
    /\ \A s \in DOMAIN snapped :
           LET key == <<s, snapped[s].at>>
           IN  IsSnapshotRow(key) /\ balances[key].amount = snapped[s].amount

Basis ==
    /\ RowsOfSnapped
    /\ \A p \in Procs : pc[p] = "snapshot" => Reserved(job[p].at)

\* The latest row of an asset is one row, and a query returns its amount.
LEMMA LatestRow ==
    ASSUME Base, NEW sources, NEW key \in LatestKeys(sources)
    PROVE  /\ \A k \in LatestKeys(sources) : k[1] = key[1] => k = key
           /\ LatestBalances(sources)[key[1]] = balances[key].amount
<1>1. ASSUME NEW k \in LatestKeys(sources), k[1] = key[1]
      PROVE  k = key
  <2>1. k \in Symbols \X Reached(clock) /\ key \in Symbols \X Reached(clock)
    BY DEF LatestKeys, Base, TypeOK, Reached
  <2>2. k[2] <= key[2] /\ key[2] <= k[2]
    BY <1>1 DEF LatestKeys
  <2>3. \A at \in Reached(clock) : at \in Nat
    BY ClockTyped, Parameters DEF Reached
  <2>4. k[2] = key[2]
    BY <2>1, <2>2, <2>3
  <2> QED
    BY <1>1, <2>1, <2>4
<1>2. PICK k : k = CHOOSE other \in LatestKeys(sources) : other[1] = key[1]
  OBVIOUS
<1>3. k \in LatestKeys(sources) /\ k[1] = key[1]
  BY <1>2
<1>4. LatestBalances(sources)[key[1]] = balances[k].amount
  BY <1>2 DEF LatestBalances
<1> QED
  BY <1>1, <1>3, <1>4

\* Then the initial balances are those in `snapped`.
LEMMA BasisShown ==
    ASSUME Base, RowsOfSnapped
    PROVE  BasisIsSnapshot
<1>1. ASSUME NEW s \in DOMAIN snapped
      PROVE  <<s, snapped[s].at>> \in LatestKeys(Initial)
  <2>1. PICK key : key = <<s, snapped[s].at>>
    OBVIOUS
  <2>2. key \in DOMAIN balances /\ balances[key].source \in Initial
    BY <2>1 DEF RowsOfSnapped, IsSnapshotRow, Initial
  <2>3. ASSUME NEW other \in DOMAIN balances, balances[other].source \in Initial, other[1] = key[1]
        PROVE  other[2] <= key[2]
    BY <2>1, <2>3 DEF RowsOfSnapped, IsSnapshotRow, Initial
  <2> QED
    BY <2>1, <2>2, <2>3 DEF LatestKeys
<1>2. \A key \in LatestKeys(Initial) : key[1] \in DOMAIN snapped
  BY DEF LatestKeys, RowsOfSnapped, IsSnapshotRow, Initial
<1>3. DOMAIN InitialBalances = DOMAIN snapped
  <2>1. DOMAIN InitialBalances = {key[1] : key \in LatestKeys(Initial)}
    BY DEF InitialBalances, LatestBalances, Initial
  <2>2. ASSUME NEW s \in DOMAIN snapped PROVE s \in {key[1] : key \in LatestKeys(Initial)}
    <3>1. PICK key \in LatestKeys(Initial) : key[1] = s
      BY <1>1
    <3> QED
      BY <3>1
  <2> QED
    BY <1>2, <2>1, <2>2
<1>4. ASSUME NEW s \in DOMAIN snapped
      PROVE  InitialBalances[s] = snapped[s].amount
  <2>1. PICK key \in LatestKeys(Initial) : key = <<s, snapped[s].at>> /\ key[1] = s
    BY <1>1
  <2>2. InitialBalances[s] = balances[key].amount
    BY <2>1, LatestRow DEF InitialBalances, Initial
  <2> QED
    BY <2>1, <2>2 DEF RowsOfSnapped
<1>5. InitialBalances = [s \in DOMAIN InitialBalances |-> InitialBalances[s]]
  BY DEF InitialBalances, LatestBalances
<1> QED
  BY <1>3, <1>4, <1>5 DEF BasisIsSnapshot

\* What a run may have for its instant as it goes on: the one it has, the new
\* reading of the clock, or one that was given.
Carries(p, label, at) ==
    /\ label \in TimedLabels =>
           \/ pc[p] \in TimedLabels /\ at = job[p].at
           \/ at = clock' /\ clock' = clock + 2
           \/ at \in Given
    /\ label = "snapshot" => at = clock' /\ clock' = clock + 2

\* The next reading of the clock is reserved to whoever reads it.
LEMMA NextReading ==
    ASSUME Base
    PROVE  Reserved(clock + 2)
<1>1. clock \in Nat /\ (clock + 2) % 2 = 0
  BY ClockTyped
<1>2. ASSUME NEW at \in Reached(clock) PROVE at # clock + 2
  BY <1>1, Parameters DEF Reached
<1> QED
  BY <1>1, <1>2, KnownLocals DEF Reserved, LocalsAt

\* An instant stays reserved while runs start, go on or end.
LEMMA ReservedStays ==
    ASSUME Base, NEW p \in Procs, NEW label, NEW j, Continue(p, label, j),
           Carries(p, label, j.at), NEW at \in 1..clock, Reserved(at)
    PROVE  Reserved(at)'
<1>1. \A q \in Procs : /\ pc'[q] = IF q = p THEN label ELSE pc[q]
                       /\ job'[q] = IF q = p THEN j ELSE job[q]
  BY DEF Continue, Base, TypeOK
<1>2. label \in TimedLabels => j.at # at
  BY ClockTyped, Parameters DEF Carries, Reserved
<1> QED
  BY <1>1, <1>2 DEF Reserved

\* A step of a run that records nothing.
LEMMA BasisGoesOn ==
    ASSUME Base, Basis, NEW p \in Procs, NEW label, NEW j, Continue(p, label, j),
           Carries(p, label, j.at), UNCHANGED <<balances, snapped>>
    PROVE  Basis'
<1>1. \A q \in Procs : /\ pc'[q] = IF q = p THEN label ELSE pc[q]
                       /\ job'[q] = IF q = p THEN j ELSE job[q]
  BY DEF Continue, Base, TypeOK
<1>2. ASSUME NEW key \in DOMAIN balances, IsSnapshotRow(key)
      PROVE  Reserved(key[2])'
  <2>1. key[2] \in 1..clock /\ Reserved(key[2])
    <3>1. Reserved(key[2]) /\ key[2] \in Reached(clock)
      BY <1>2 DEF Basis, RowsOfSnapped, Base, TypeOK, Reached
    <3> QED
      BY <3>1, Parameters DEF Reserved, Reached
  <2> QED
    BY <2>1, ReservedStays
<1>3. RowsOfSnapped'
  BY <1>2 DEF Basis, RowsOfSnapped, IsSnapshotRow
<1>4. ASSUME NEW q \in Procs, pc'[q] = "snapshot"
      PROVE  Reserved(job[q].at)'
  <2>1. CASE q = p
    <3>1. job'[q].at = clock + 2 /\ label = "snapshot"
      BY <1>1, <1>4, <2>1 DEF Carries
    <3>2. \A r \in Procs : pc'[r] \in TimedLabels => pc[r] = pc'[r] /\ job'[r] = job[r]
      BY <1>1, <3>1 DEF TimedLabels
    <3> QED
      BY <3>1, <3>2, NextReading DEF Reserved
  <2>2. CASE q # p
    <3>1. pc[q] = "snapshot" /\ job'[q] = job[q]
      BY <1>1, <1>4, <2>2
    <3>2. job[q].at \in 1..clock /\ Reserved(job[q].at)
      BY <3>1, KnownLocals DEF LocalsAt, Basis
    <3> QED
      BY <3>1, <3>2, ReservedStays
  <2> QED
    BY <2>1, <2>2
<1> QED
  BY <1>3, <1>4 DEF Basis

\* The same for a run that ends.
LEMMA ReservedAtEnd ==
    ASSUME Base, Basis, NEW p \in Procs, End(p)
    PROVE  /\ \A at : Reserved(at) => Reserved(at)'
           /\ \A q \in Procs : pc'[q] = "snapshot" => Reserved(job[q].at)'
<1>1. \A q \in Procs : /\ pc'[q] = IF q = p THEN "idle" ELSE pc[q]
                       /\ q # p => job'[q] = job[q]
  BY DEF End, Continue, Base, TypeOK
<1>2. ASSUME NEW at, Reserved(at)
      PROVE  Reserved(at)'
  BY <1>1, <1>2 DEF Reserved, TimedLabels
<1>3. \A q \in Procs : pc'[q] = "snapshot" => Reserved(job[q].at)'
  BY <1>1, <1>2 DEF Basis, Reserved
<1> QED
  BY <1>2, <1>3

\* A reconciliation's rows replace none of a snapshot.
LEMMA RecordBasis ==
    ASSUME Base, Basis, NEW p \in Procs, Record(p)
    PROVE  Basis'
<1>1. PICK new : new = (DOMAIN job[p].seen) \X {job[p].at}
  OBVIOUS
<1>2. pc[p] = "record" /\ snapped' = snapped /\ End(p)
  BY DEF Record, historyVars
<1>3. /\ DOMAIN balances' = DOMAIN balances \union new
      /\ \A key \in new : balances'[key].source = "reconciliation"
      /\ \A key \in DOMAIN balances \ new : balances'[key] = balances[key]
  BY <1>1 DEF Record, RecordBalances
<1>4. ASSUME NEW key, IsSnapshotRow(key)
      PROVE  key \notin new
  <2>1. Reserved(key[2])
    BY <1>4 DEF Basis, RowsOfSnapped, IsSnapshotRow
  <2>2. key[2] # job[p].at
    BY <1>2, <2>1 DEF Reserved, TimedLabels
  <2> QED
    BY <1>1, <2>2
<1>5. \A key : /\ IsSnapshotRow(key)' <=> IsSnapshotRow(key)
               /\ IsSnapshotRow(key) => balances'[key] = balances[key]
  BY <1>3, <1>4 DEF IsSnapshotRow
<1>6. \A at : Reserved(at) => Reserved(at)'
  BY <1>2, ReservedAtEnd
<1>7. \A key \in DOMAIN balances' :
          IsSnapshotRow(key)' => /\ Reserved(key[2])' /\ key[1] \in DOMAIN snapped'
                                 /\ key[2] <= snapped'[key[1]].at
  BY <1>2, <1>5, <1>6 DEF Basis, RowsOfSnapped, IsSnapshotRow
<1>8. ASSUME NEW s \in DOMAIN snapped', NEW key, key = <<s, snapped'[s].at>>
      PROVE  IsSnapshotRow(key)' /\ balances'[key].amount = snapped'[s].amount
  BY <1>2, <1>5, <1>8 DEF Basis, RowsOfSnapped
<1>9. RowsOfSnapped'
  BY <1>7, <1>8 DEF RowsOfSnapped
<1> QED
  BY <1>2, <1>9, ReservedAtEnd DEF Basis

\* What is known of an asset is what the snapshot with the latest instant saw,
\* whichever is written last.
LEMMA RecordSnapshotBasis ==
    ASSUME Base, Basis, NEW p \in Procs, RecordSnapshot(p)
    PROVE  Basis'
<1>1. PICK seen, at : seen = job[p].seen /\ at = job[p].at
  OBVIOUS
<1>2. PICK new : new = (DOMAIN seen) \X {at}
  OBVIOUS
<1>3. pc[p] = "snapshot" /\ End(p)
  BY DEF RecordSnapshot
<1>4. at \in 1..clock /\ Reserved(at) /\ clock \in Nat
  BY <1>1, <1>3, KnownLocals DEF LocalsAt, Basis
<1>5. /\ DOMAIN balances' = DOMAIN balances \union new
      /\ \A key \in new : balances'[key] = [amount |-> seen[key[1]], source |-> "initial_snapshot"]
      /\ \A key \in DOMAIN balances \ new : balances'[key] = balances[key]
  BY <1>1, <1>2 DEF RecordSnapshot, RecordBalances
<1>6. /\ DOMAIN snapped' = DOMAIN snapped \union DOMAIN seen
      /\ \A s \in DOMAIN seen :
             ~SeenLater(s, at) => snapped'[s].at = at /\ snapped'[s].amount = seen[s]
      /\ \A s \in DOMAIN snapped :
             s \notin DOMAIN seen \/ SeenLater(s, at) => snapped'[s] = snapped[s]
  <2>1. snapped' = [s \in DOMAIN snapped \union DOMAIN seen |->
                       IF s \in DOMAIN seen /\ ~SeenLater(s, at)
                       THEN [at |-> at, amount |-> seen[s]] ELSE snapped[s]]
    BY <1>1 DEF RecordSnapshot
  <2>2. ASSUME NEW s \in DOMAIN seen, ~SeenLater(s, at)
        PROVE  snapped'[s].at = at /\ snapped'[s].amount = seen[s]
    <3>1. snapped'[s] = [at |-> at, amount |-> seen[s]]
      BY <2>1, <2>2
    <3> QED
      BY <3>1
  <2>3. ASSUME NEW s \in DOMAIN snapped, s \notin DOMAIN seen \/ SeenLater(s, at)
        PROVE  snapped'[s] = snapped[s]
    BY <2>1, <2>3
  <2> QED
    BY <2>1, <2>2, <2>3
<1>7. /\ \A key \in new : key[1] \in DOMAIN seen /\ key[2] = at
      /\ \A s \in DOMAIN seen : <<s, at>> \in new
  BY <1>2
<1>8. \A at_ : Reserved(at_) => Reserved(at_)'
  BY <1>3, ReservedAtEnd
<1>9. \A s \in DOMAIN snapped : snapped[s].at \in Nat
  BY <1>4 DEF Base, TypeOK
<1>10. \A s \in DOMAIN snapped : s \in DOMAIN snapped' /\ snapped'[s].at >= snapped[s].at
  BY <1>4, <1>6, <1>9 DEF SeenLater
<1>11. \A s \in DOMAIN seen : s \in DOMAIN snapped' /\ snapped'[s].at >= at
  BY <1>4, <1>6, <1>9 DEF SeenLater
<1>12. ASSUME NEW key \in DOMAIN balances', IsSnapshotRow(key)'
       PROVE  /\ Reserved(key[2])' /\ key[1] \in DOMAIN snapped'
              /\ key[2] <= snapped'[key[1]].at
  <2>1. CASE key \in new
    BY <1>4, <1>7, <1>8, <1>11, <2>1
  <2>2. CASE key \notin new
    <3>1. IsSnapshotRow(key)
      BY <1>5, <1>12, <2>2 DEF IsSnapshotRow
    <3>2. /\ Reserved(key[2]) /\ key[1] \in DOMAIN snapped /\ key[2] <= snapped[key[1]].at
      BY <3>1 DEF Basis, RowsOfSnapped, IsSnapshotRow
    <3>3. key[2] \in Nat
      <4>1. key \in Symbols \X Reached(clock)
        BY <3>1 DEF IsSnapshotRow, Base, TypeOK, Reached
      <4> QED
        BY <4>1, Parameters DEF Reached
    <3>4. snapped'[key[1]].at >= snapped[key[1]].at /\ snapped'[key[1]].at \in Nat
      BY <1>4, <1>6, <1>9, <1>10, <3>2 DEF SeenLater
    <3> QED
      BY <1>8, <1>9, <1>10, <3>2, <3>3, <3>4
  <2> QED
    BY <2>1, <2>2
<1>13. ASSUME NEW s \in DOMAIN snapped', NEW key, key = <<s, snapped'[s].at>>
       PROVE  IsSnapshotRow(key)' /\ balances'[key].amount = snapped'[s].amount
  <2>1. CASE s \in DOMAIN seen /\ ~SeenLater(s, at)
    <3>1. snapped'[s].amount = seen[s] /\ key \in new /\ key[1] = s
      BY <1>6, <1>7, <1>13, <2>1
    <3> QED
      BY <1>5, <3>1 DEF IsSnapshotRow
  <2>2. CASE ~(s \in DOMAIN seen /\ ~SeenLater(s, at))
    <3>1. snapped'[s] = snapped[s] /\ s \in DOMAIN snapped
      BY <1>6, <1>13, <2>2 DEF SeenLater
    <3>2. IsSnapshotRow(key) /\ balances[key].amount = snapped[s].amount
      BY <1>13, <3>1 DEF Basis, RowsOfSnapped
    <3>3. key \notin new
      BY <1>4, <1>7, <1>9, <1>13, <2>2, <3>1 DEF SeenLater
    <3> QED
      BY <1>5, <3>1, <3>2, <3>3 DEF IsSnapshotRow
  <2> QED
    BY <2>1, <2>2
<1>14. RowsOfSnapped'
  BY <1>12, <1>13 DEF RowsOfSnapped
<1> QED
  BY <1>3, <1>14, ReservedAtEnd DEF Basis

\* Every run keeps its instant as long as it may record, or has just got it.
LEMMA InstantKept ==
    ASSUME Base, NEW p \in Procs, OtherStep(p) \/ FetchAccount(p)
    PROVE  \E label, j : Continue(p, label, j) /\ Carries(p, label, j.at)
<1>0. IsJob(job[p])
  BY KnownLocals
<1>1. CASE StartLive(p) \/ StartReconcile(p)
  <2>1. PICK j : j = [NoJob EXCEPT !.at = clock', !.day = today]
    OBVIOUS
  <2>2. j.at = clock' /\ clock' = clock + 2
    BY <1>1, <2>1 DEF NoJob, StartLive, StartReconcile, ReadClock
  <2>3. \A label \in TimedLabels : Carries(p, label, j.at)
    BY <2>2 DEF Carries, TimedLabels
  <2> QED
    BY <1>1, <2>1, <2>3 DEF StartLive, StartReconcile, TimedLabels
<1>2. CASE StartLiveAt(p)
  <2>1. PICK at \in Given, day \in 1..shift.days :
            Continue(p, "balances", [NoJob EXCEPT !.at = at, !.day = day])
    BY <1>2 DEF StartLiveAt
  <2>2. PICK j : j = [NoJob EXCEPT !.at = at, !.day = day]
    OBVIOUS
  <2>3. j.at = at
    BY <2>2 DEF NoJob
  <2>4. Carries(p, "balances", j.at)
    BY <2>1, <2>3 DEF Carries
  <2> QED
    BY <2>1, <2>2, <2>4
<1>3. CASE ReadBalances(p)
  <2>1. PICK seen : seen = FetchBalances(account)
    OBVIOUS
  <2>2. PICK j : j = [job[p] EXCEPT !.seen = seen]
    OBVIOUS
  <2>3. j.at = job[p].at
    BY <1>0, <2>2 DEF IsJob
  <2>4. Carries(p, "plan", j.at)
    BY <1>3, <2>3 DEF ReadBalances, TimedLabels, Carries
  <2> QED
    BY <1>3, <2>1, <2>2, <2>4 DEF ReadBalances
<1>4. CASE FetchAccount(p)
  <2>1. PICK seen : seen = FetchBalances(account)
    OBVIOUS
  <2>2. PICK j : j = [job[p] EXCEPT !.seen = seen, !.plan = << >>]
    OBVIOUS
  <2>3. j.at = job[p].at
    BY <1>0, <2>2 DEF IsJob
  <2>4. Carries(p, "record", j.at)
    BY <1>4, <2>3 DEF FetchAccount, TimedLabels, Carries
  <2> QED
    BY <1>4, <2>1, <2>2, <2>4 DEF FetchAccount
<1>5. CASE MakePlan(p)
  <2>1. CASE End(p)
    BY <2>1 DEF End, TimedLabels, Carries
  <2>2. CASE ~End(p)
    <3>1. PICK plan, todo : Continue(p, "create", [job[p] EXCEPT !.plan = plan, !.todo = todo])
      BY <1>5, <2>2 DEF MakePlan
    <3>2. PICK j : j = [job[p] EXCEPT !.plan = plan, !.todo = todo]
      OBVIOUS
    <3>3. j.at = job[p].at
      BY <1>0, <3>2 DEF IsJob
    <3>4. Carries(p, "create", j.at)
      BY <1>5, <3>3 DEF MakePlan, TimedLabels, Carries
    <3> QED
      BY <3>1, <3>2, <3>4
  <2> QED
    BY <2>1, <2>2
<1>6. CASE CreateCycle(p)
  BY <1>6 DEF CreateCycle, End, TimedLabels, Carries
<1>7. CASE StampSnapshot(p)
  <2>1. PICK j : j = [job[p] EXCEPT !.at = clock']
    OBVIOUS
  <2>2. j.at = clock' /\ clock' = clock + 2
    BY <1>0, <1>7, <2>1 DEF IsJob, StampSnapshot, ReadClock
  <2>3. Carries(p, "snapshot", j.at)
    BY <2>2 DEF Carries, TimedLabels
  <2> QED
    BY <1>7, <2>1, <2>3 DEF StampSnapshot
<1>8. CASE Snapshot(p) \/ FetchCandles(p)
  BY <1>8 DEF Snapshot, FetchCandles, TimedLabels, Carries
<1>9. CASE StartBackfill(p)
  BY <1>9 DEF StartBackfill, TimedLabels, Carries
<1>10. CASE StoreCandles(p) \/ Stop(p)
  BY <1>10 DEF StoreCandles, Stop, End, TimedLabels, Carries
<1> QED
  BY <1>1, <1>2, <1>3, <1>4, <1>5, <1>6, <1>7, <1>8, <1>9, <1>10 DEF OtherStep

\* A submission records nothing.
LEMMA SubmitBasis ==
    ASSUME Base, Basis, NEW p \in Procs, Submit(p)
    PROVE  Basis'
<1>1. pc[p] = "submit" /\ UNCHANGED <<balances, snapped>>
  BY DEF Submit, tableVars
<1>2. CASE End(p)
  BY <1>1, <1>2, BasisGoesOn DEF End, TimedLabels, Carries
<1>3. ASSUME NEW label \in {"fetch", "submit"}, NEW j, Continue(p, label, j), j.at = job[p].at
      PROVE  Basis'
  BY <1>1, <1>3, BasisGoesOn DEF TimedLabels, Carries
<1> QED
  BY <1>2, <1>3, SubmitCases

\* The initial balances stay those of the latest snapshot, whatever the step.
LEMMA BasisStep == Base /\ Basis /\ [Next]_vars => Basis'
<1> SUFFICES ASSUME Base, Basis, [Next]_vars PROVE Basis'
  OBVIOUS
<1>1. CASE UNCHANGED <<balances, snapped, pc, job>>
  BY <1>1 DEF Basis, RowsOfSnapped, IsSnapshotRow, Reserved
<1>2. ASSUME NEW p \in Procs, OtherStep(p) \/ FetchAccount(p) PROVE Basis'
  <2>1. UNCHANGED <<balances, snapped>>
    BY <1>2, OtherStepQuiet DEF FetchAccount, tableVars, historyVars
  <2> QED
    BY <1>2, <2>1, InstantKept, BasisGoesOn
<1> QED
  BY <1>1, <1>2, StepKinds, SubmitBasis, RecordBasis, RecordSnapshotBasis
  DEF vars, worldVars, tableVars, historyVars, Tomorrow, MoveCoins

\* At first there are no snapshots.
LEMMA InitBasis == Init => Basis
<1> SUFFICES ASSUME Init PROVE Basis
  OBVIOUS
<1>1. DOMAIN balances = {} /\ DOMAIN snapped = {} /\ \A p \in Procs : pc[p] = "idle"
  BY DEF Init
<1> QED
  BY <1>1 DEF Basis, RowsOfSnapped

\* The initial balances the planner is given are what the snapshot with the
\* latest stamp saw, for any number of reconciliations and snapshots that overlap
\* and in whatever order they are written.
THEOREM BasisHolds == Spec => []BasisIsSnapshot
<1>1. Base /\ Basis => BasisIsSnapshot
  BY BasisShown DEF Basis
<1> QED
  BY <1>1, InitBasis, BasisStep, BaseHolds, PTL DEF Spec

-----------------------------------------------------------------------------
(* The schedule.                                                           *)

\* What one day may sell of a symbol, in hundredths of a lot.
Share(s) == settings.percent * peak[s]

\* The days that have a cycle which will not sell the symbol any more.
Pending(s) == {job[p].day : p \in {q \in Procs : pc[q] = "submit" /\ s \in job[q].todo}}
SoldDays(s) == created \ Pending(s)

SeenWithinPeak(j) == \A s \in DOMAIN j.seen : j.seen[s].available <= peak[s]
PlanWithinShare(j) == \A s \in j.todo : j.plan[s].quantity <= Share(s)

WithinPeak ==
    /\ \A s \in Symbols : account[s].available <= peak[s]
    /\ \A s \in DOMAIN snapped : snapped[s].amount.available <= peak[s]
    /\ \A p \in Procs : SeenWithinPeak(job[p])

PlansWithinShare == \A p \in Procs : pc[p] \in SellLabels => PlanWithinShare(job[p])

\* A run that submits has a day of its own.
DaysOwned ==
    \A p \in Procs : pc[p] = "submit" =>
        /\ job[p].day \in created
        /\ \A q \in Procs : pc[q] = "submit" /\ q # p => job[q].day # job[p].day

\* What was sold is within the shares of the days that have sold.
Accounted == \A s \in Symbols : sold[s] * Lot <= Cardinality(SoldDays(s)) * Share(s)

Schedule == WithinPeak /\ PlansWithinShare /\ DaysOwned /\ Accounted

\* Multiplication by naturals keeps the order.
LEMMA ProductGrows ==
    ASSUME NEW a \in Nat, NEW b \in Nat, NEW c \in Nat, NEW d \in Nat, a <= c, b <= d
    PROVE  a * b <= c * d /\ a * b \in Nat
<1>1. a * b <= c * b
  OBVIOUS
<1>2. c * b <= c * d
  OBVIOUS
<1> QED
  BY <1>1, <1>2

\* One more of a number adds it once.
LEMMA ProductSteps ==
    ASSUME NEW a \in Nat, NEW b \in Nat
    PROVE  (a + 1) * b = a * b + b /\ a * b \in Nat
  OBVIOUS

\* More of a number is no less.
LEMMA ProductMonotone ==
    ASSUME NEW a \in Int, NEW b \in Int, NEW c \in Nat, a <= b
    PROVE  a * c <= b * c /\ a * c \in Int /\ b * c \in Int
  OBVIOUS

\* A product of three is the same either way.
LEMMA ProductsAssociate ==
    ASSUME NEW a \in Nat, NEW b \in Nat, NEW c \in Nat
    PROVE  a * (b * c) = a * b * c
  OBVIOUS

\* Shares are natural numbers.
LEMMA ShareTyped ==
    ASSUME Base, NEW s \in Symbols
    PROVE  Share(s) \in Nat /\ settings.percent \in Nat /\ peak[s] \in Nat /\ sold[s] \in Nat
<1>1. settings.percent \in Nat /\ peak[s] \in Nat /\ sold[s] \in Nat
  BY Parameters DEF Base, TypeOK, ValidSettings, ValidShare, ValidLimits
<1> QED
  BY <1>1 DEF Share

\* The days that have sold are finitely many, and no more than those with a cycle.
LEMMA SoldDaysCounted ==
    ASSUME Base, NEW s
    PROVE  /\ IsFiniteSet(created) /\ IsFiniteSet(SoldDays(s))
           /\ Cardinality(SoldDays(s)) \in Nat /\ Cardinality(created) \in Nat
           /\ Cardinality(SoldDays(s)) <= Cardinality(created)
<1>1. shift.days \in Nat
  BY ClockTyped
<1>2. IsFiniteSet(1..shift.days)
  BY <1>1, FS_Interval
<1>3. created \subseteq 1..shift.days
  BY DEF Base, TypeOK, Dates
<1>4. SoldDays(s) \subseteq created
  BY DEF SoldDays
<1> QED
  BY <1>2, <1>3, <1>4, FS_Subset, FS_CardinalityType

\* An account of one symbol after a step that sells nothing of it.
LEMMA AccountGrows ==
    ASSUME Base, Schedule, NEW s \in Symbols, NEW after, IsFiniteSet(after),
           SoldDays(s) \subseteq after,
           sold'[s] = sold[s], settings' = settings, peak'[s] \in Nat, peak'[s] >= peak[s]
    PROVE  sold'[s] * Lot <= Cardinality(after) * Share(s)'
<1>1. sold[s] * Lot <= Cardinality(SoldDays(s)) * Share(s)
  BY DEF Schedule, Accounted
<1>2. /\ Cardinality(SoldDays(s)) \in Nat /\ Cardinality(after) \in Nat
      /\ Cardinality(SoldDays(s)) <= Cardinality(after)
  BY SoldDaysCounted, FS_Subset, FS_CardinalityType DEF Schedule
<1>3. /\ Share(s) \in Nat /\ Share(s)' \in Nat /\ Share(s) <= Share(s)'
      /\ sold[s] * Lot \in Nat
  <2>1. settings.percent \in Nat /\ peak[s] \in Nat /\ sold[s] \in Nat
    BY ShareTyped
  <2>2. /\ settings.percent * peak[s] <= settings.percent * peak'[s]
        /\ settings.percent * peak[s] \in Nat /\ settings.percent * peak'[s] \in Nat
    BY <2>1, ProductGrows
  <2> QED
    BY <2>1, <2>2 DEF Share, Lot
<1>4. /\ Cardinality(SoldDays(s)) * Share(s) <= Cardinality(after) * Share(s)'
      /\ Cardinality(SoldDays(s)) * Share(s) \in Nat /\ Cardinality(after) * Share(s)' \in Nat
  BY <1>2, <1>3, ProductGrows
<1> QED
  BY <1>1, <1>3, <1>4

\* A run goes on, creates no cycle and sells nothing; what it submitted before
\* is no longer pending.
LEMMA ScheduleGoesOn ==
    ASSUME Base, Schedule, NEW p \in Procs, NEW label, NEW j, Continue(p, label, j),
           label # "submit", SeenWithinPeak(j), label = "create" => PlanWithinShare(j),
           \A s \in DOMAIN snapped' : snapped'[s].amount.available <= peak[s],
           UNCHANGED <<account, peak, sold, created, settings>>
    PROVE  Schedule'
<1>1. \A q \in Procs : /\ pc'[q] = IF q = p THEN label ELSE pc[q]
                       /\ job'[q] = IF q = p THEN j ELSE job[q]
  BY DEF Continue, Base, TypeOK
<1>2. WithinPeak'
  BY <1>1 DEF Schedule, WithinPeak, SeenWithinPeak
<1>3. PlansWithinShare'
  BY <1>1 DEF Schedule, PlansWithinShare, PlanWithinShare, Share, SellLabels
<1>4. DaysOwned'
  BY <1>1 DEF Schedule, DaysOwned
<1>5. ASSUME NEW s \in Symbols
      PROVE  sold'[s] * Lot <= Cardinality(SoldDays(s)') * Share(s)'
  <2>1. SoldDays(s) \subseteq SoldDays(s)' /\ SoldDays(s)' \subseteq created
    BY <1>1 DEF SoldDays, Pending
  <2>2. IsFiniteSet(SoldDays(s)')
    BY <2>1, SoldDaysCounted, FS_Subset DEF Schedule
  <2>3. peak'[s] \in Nat /\ peak'[s] >= peak[s]
    BY ShareTyped
  <2> QED
    BY <2>1, <2>2, <2>3, AccountGrows
<1> QED
  BY <1>2, <1>3, <1>4, <1>5 DEF Schedule, Accounted

\* What fetch_balances gives was available at one time.
LEMMA FetchWithinPeak ==
    ASSUME Base, Schedule, NEW j, j.seen = FetchBalances(account)
    PROVE  SeenWithinPeak(j)
<1>1. DOMAIN j.seen \subseteq Symbols /\ \A s \in DOMAIN j.seen : j.seen[s] = account[s]
  BY DEF FetchBalances, Base, TypeOK
<1> QED
  BY <1>1 DEF SeenWithinPeak, Schedule, WithinPeak

\* A process that does nothing has seen nothing.
LEMMA NoJobWithinPeak == SeenWithinPeak(NoJob)
  BY DEF SeenWithinPeak, NoJob

\* A plan keeps within the shares.
LEMMA MakePlanSchedule ==
    ASSUME Base, Basis, Schedule, NEW p \in Procs, MakePlan(p)
    PROVE  Schedule'
<1>1. PICK quotes \in [Symbols -> Quotes] :
          LET plan == SellPlan(p, quotes)
          IN  \/ End(p)
              \/ Continue(p, "create", [job[p] EXCEPT !.plan = plan, !.todo = PlannedItems(plan)])
  BY DEF MakePlan
<1>2. PICK plan : plan = SellPlan(p, quotes)
  OBVIOUS
<1>3. PICK todo : todo = PlannedItems(plan)
  OBVIOUS
<1>4. /\ UNCHANGED <<account, peak, sold, created, settings, snapped>>
      /\ \A s \in DOMAIN snapped : snapped[s].amount.available <= peak[s]
  BY DEF MakePlan, worldVars, tableVars, historyVars, Schedule, WithinPeak
<1>5. CASE End(p)
  BY <1>4, <1>5, ScheduleGoesOn, NoJobWithinPeak DEF End
<1>6. CASE Continue(p, "create", [job[p] EXCEPT !.plan = plan, !.todo = todo])
  <2>1. PICK j : j = [job[p] EXCEPT !.plan = plan, !.todo = todo]
    OBVIOUS
  <2>2. j.seen = job[p].seen /\ j.plan = plan /\ j.todo = todo
    BY <2>1, KnownLocals DEF IsJob
  <2>3. SeenWithinPeak(j)
    BY <2>2 DEF SeenWithinPeak, Schedule, WithinPeak
  <2>4. ASSUME NEW s \in todo
        PROVE  plan[s].quantity <= Share(s)
    <3>1. s \in Symbols /\ plan[s] \in Items /\ plan[s].status = "planned"
      BY <1>2, <1>3, PlanTyped DEF PlannedItems
    <3> DEFINE held == BalanceOf(job[p].seen, s)
               initial == BalanceOf(InitialBalances, s)
               basis == BasisBalance(settings, held, initial)
    <3>2. WithinLimits(plan[s], settings, held, initial)
      BY <1>2, <3>1, PlanTyped
    <3>3. basis.available \in Nat /\ basis.available <= peak[s]
      <4>1. CASE settings.basis = "initial_snapshot"
        <5>1. basis = initial /\ initial # NoBalance
          BY <3>2, <4>1 DEF BasisBalance, WithinLimits
        <5>2. s \in DOMAIN snapped /\ initial = snapped[s].amount
          BY <5>1, BasisShown DEF BalanceOf, Basis, BasisIsSnapshot
        <5>3. snapped[s].amount.available \in Nat
          BY <5>2 DEF Base, TypeOK, Amounts
        <5> QED
          BY <1>4, <5>1, <5>2, <5>3
      <4>2. CASE settings.basis # "initial_snapshot"
        <5>1. basis = held /\ held # NoBalance
          BY <3>2, <4>2 DEF BasisBalance, WithinLimits
        <5>2. s \in DOMAIN job[p].seen /\ held = job[p].seen[s]
          BY <5>1 DEF BalanceOf
        <5>3. IsAmounts(job[p].seen) /\ SeenWithinPeak(job[p])
          BY KnownLocals DEF IsJob, Schedule, WithinPeak
        <5> QED
          BY <5>1, <5>2, <5>3 DEF SeenWithinPeak, IsAmounts, Amounts
      <4> QED
        BY <4>1, <4>2
    <3>4. settings.percent \in Nat /\ peak[s] \in Nat
      BY <3>1, ShareTyped
    <3>5. /\ basis.available * settings.percent <= peak[s] * settings.percent
          /\ basis.available * settings.percent \in Nat
      BY <3>3, <3>4, ProductGrows
    <3>6. plan[s].quantity \in Nat /\ plan[s].quantity <= basis.available * settings.percent
      BY <3>1, <3>2 DEF WithinLimits, Items
    <3>7. Share(s) = peak[s] * settings.percent
      BY <3>4 DEF Share
    <3> QED
      BY <3>4, <3>5, <3>6, <3>7
  <2>5. PlanWithinShare(j)
    BY <2>2, <2>4 DEF PlanWithinShare
  <2> QED
    BY <1>4, <1>6, <2>1, <2>3, <2>5, ScheduleGoesOn
<1> QED
  BY <1>1, <1>2, <1>3, <1>5, <1>6

\* A new cycle is of a day that has none, and its items are pending.
LEMMA CreateCycleSchedule ==
    ASSUME Base, Schedule, NEW p \in Procs, CreateCycle(p)
    PROVE  Schedule'
<1>1. /\ UNCHANGED <<account, peak, sold, settings, snapped>>
      /\ \A s \in DOMAIN snapped : snapped[s].amount.available <= peak[s]
      /\ pc[p] = "create"
  BY DEF CreateCycle, worldVars, historyVars, Schedule, WithinPeak
<1>2. CASE ~MayCreate(job[p].day)
  BY <1>1, <1>2, ScheduleGoesOn, NoJobWithinPeak DEF CreateCycle, End
<1>3. CASE MayCreate(job[p].day)
  <2>1. /\ created' = created \union {job[p].day} /\ job[p].day \notin created
        /\ job' = job
        /\ \A q \in Procs : pc'[q] = IF q = p THEN "submit" ELSE pc[q]
    <3>1. Continue(p, "submit", job[p]) /\ created' = created \union {job[p].day}
      BY <1>3 DEF CreateCycle
    <3> QED
      BY <1>3, <3>1 DEF Continue, MayCreate, Base, TypeOK
  <2>3. WithinPeak' /\ PlansWithinShare'
    BY <1>1, <2>1 DEF Schedule, WithinPeak, SeenWithinPeak, PlansWithinShare, PlanWithinShare,
                      Share, SellLabels
  <2>4. DaysOwned'
    BY <1>1, <2>1 DEF Schedule, DaysOwned
  <2>5. ASSUME NEW s \in Symbols
        PROVE  sold'[s] * Lot <= Cardinality(SoldDays(s)') * Share(s)'
    <3>1. SoldDays(s) \subseteq SoldDays(s)'
      BY <1>1, <2>1 DEF SoldDays, Pending
    <3>2. SoldDays(s)' \subseteq created \union {job[p].day}
      BY <2>1 DEF SoldDays
    <3>3. IsFiniteSet(SoldDays(s)')
      BY <3>2, SoldDaysCounted, FS_AddElement, FS_Subset DEF Schedule
    <3>4. peak'[s] \in Nat /\ peak'[s] >= peak[s]
      BY <1>1, ShareTyped
    <3> QED
      BY <1>1, <3>1, <3>3, <3>4, AccountGrows
  <2> QED
    BY <2>3, <2>4, <2>5 DEF Schedule, Accounted
<1> QED
  BY <1>2, <1>3

\* What any movement of coins does to balances and peaks.
LEMMA PeakGrows ==
    ASSUME Base, Schedule, NEW s \in Symbols, NEW available \in Nat, NEW total,
           SetBalance(s, available, total), UNCHANGED <<settings, snapped>>
    PROVE  /\ \A a \in Symbols : /\ peak'[a] \in Nat /\ peak'[a] >= peak[a]
                                 /\ Share(a)' >= Share(a) /\ Share(a)' \in Nat
                                 /\ account'[a].available <= peak'[a]
           /\ \A a \in DOMAIN snapped : snapped[a].amount.available <= peak'[a]
           /\ \A j : IsJob(j) /\ SeenWithinPeak(j) => SeenWithinPeak(j)'
<1>1. \A a \in Symbols : /\ peak'[a] \in Nat /\ peak'[a] >= peak[a] /\ peak[a] \in Nat
                         /\ account'[a].available <= peak'[a]
  <2>1. \A a \in Symbols : peak[a] \in Nat /\ account[a].available <= peak[a]
    BY DEF Base, TypeOK, Schedule, WithinPeak
  <2> QED
    BY <2>1 DEF SetBalance, Base, TypeOK
<1>2. ASSUME NEW a \in Symbols
      PROVE  Share(a)' >= Share(a) /\ Share(a)' \in Nat
  <2>1. settings.percent \in Nat
    BY <1>2, ShareTyped
  <2> QED
    BY <1>1, <2>1, ProductGrows DEF Share
<1>3. \A a \in DOMAIN snapped : snapped[a].amount.available <= peak'[a]
  <2>1. \A a \in DOMAIN snapped : a \in Symbols /\ snapped[a].amount.available \in Nat
    BY DEF Base, TypeOK, Amounts
  <2> QED
    BY <1>1, <2>1 DEF Schedule, WithinPeak
<1>4. ASSUME NEW j, IsJob(j), SeenWithinPeak(j)
      PROVE  \A a \in DOMAIN j.seen : j.seen[a].available <= peak'[a]
  <2>1. \A a \in DOMAIN j.seen : a \in Symbols /\ j.seen[a].available \in Nat
    BY <1>4 DEF IsJob, IsAmounts, Amounts
  <2> QED
    BY <1>1, <1>4, <2>1 DEF SeenWithinPeak
<1> QED
  BY <1>1, <1>2, <1>3, <1>4 DEF SeenWithinPeak

\* Coins that arrive only raise the most there was to see.
LEMMA MoveCoinsSchedule ==
    ASSUME Base, Schedule, NEW s \in Moved, MoveCoins(s)
    PROVE  Schedule'
<1>1. s \in Symbols
  BY SelldownAssumption
<1>2. account[s].available \in Nat /\ account[s].total \in Nat
  BY <1>1 DEF Base, TypeOK, Amounts
<1>3. PICK available, total : available \in Nat /\ SetBalance(s, available, total)
  BY <1>2 DEF MoveCoins
<1>4. UNCHANGED <<settings, created, pc, job, sold, snapped>>
  BY DEF MoveCoins, tableVars
<1>5. /\ \A a \in Symbols : /\ peak'[a] \in Nat /\ peak'[a] >= peak[a]
                            /\ Share(a)' >= Share(a) /\ Share(a)' \in Nat
                            /\ account'[a].available <= peak'[a]
      /\ \A a \in DOMAIN snapped : snapped[a].amount.available <= peak'[a]
      /\ \A j : IsJob(j) /\ SeenWithinPeak(j) => SeenWithinPeak(j)'
  BY <1>1, <1>3, <1>4, PeakGrows
<1>6. \A q \in Procs : IsJob(job[q])
  BY KnownLocals
<1>7. WithinPeak'
  BY <1>4, <1>5, <1>6 DEF Schedule, WithinPeak, SeenWithinPeak
<1>8. ASSUME NEW q \in Procs, pc[q] \in SellLabels, NEW a \in job[q].todo
      PROVE  job[q].plan[a].quantity <= Share(a)'
  <2>1. a \in Symbols /\ job[q].plan[a].quantity \in Nat
    BY <1>6, <1>8, KnownLocals DEF IsJob, Items, LocalsAt
  <2>2. job[q].plan[a].quantity <= Share(a) /\ Share(a) \in Nat
    BY <1>8, <2>1, ShareTyped DEF Schedule, PlansWithinShare, PlanWithinShare
  <2> QED
    BY <1>5, <2>1, <2>2
<1>9. PlansWithinShare'
  BY <1>4, <1>8 DEF PlansWithinShare, PlanWithinShare, SellLabels
<1>10. DaysOwned'
  BY <1>4 DEF Schedule, DaysOwned
<1>11. ASSUME NEW a \in Symbols
       PROVE  sold'[a] * Lot <= Cardinality(SoldDays(a)') * Share(a)'
  <2>1. SoldDays(a)' = SoldDays(a)
    BY <1>4 DEF SoldDays, Pending
  <2>2. IsFiniteSet(SoldDays(a)) /\ sold'[a] = sold[a] /\ settings' = settings
    BY <1>4, SoldDaysCounted DEF Schedule
  <2>3. sold'[a] * Lot <= Cardinality(SoldDays(a)) * Share(a)'
    BY <1>5, <2>2, AccountGrows
  <2> QED
    BY <2>1, <2>3
<1> QED
  BY <1>7, <1>9, <1>10, <1>11 DEF Schedule, Accounted

\* A sell is within the share of its day, which is pending no more.
LEMMA SubmitSchedule ==
    ASSUME Base, Schedule, NEW p \in Procs, Submit(p)
    PROVE  Schedule'
<1>1. pc[p] = "submit"
  BY DEF Submit
<1>2. CASE End(p) /\ UNCHANGED <<worldVars, tableVars, historyVars>>
  <2>1. /\ UNCHANGED <<account, peak, sold, created, settings, snapped>>
        /\ \A a \in DOMAIN snapped : snapped[a].amount.available <= peak[a]
    BY <1>2 DEF worldVars, tableVars, historyVars, Schedule, WithinPeak
  <2> QED
    BY <1>2, <2>1, ScheduleGoesOn, NoJobWithinPeak DEF End
<1>3. ASSUME NEW s \in job[p].todo, NEW lots \in Nat, NEW label \in {"fetch", "submit"}, NEW j,
             s \in Symbols, lots = Truncated(job[p].plan[s].quantity),
             lots <= account[s].available,
             SetBalance(s, account[s].available - lots, account[s].total - lots),
             sold' = [sold EXCEPT ![s] = @ + lots],
             Continue(p, label, j),
             j.day = job[p].day, j.seen = job[p].seen, j.plan = job[p].plan,
             j.todo = job[p].todo \ {s},
             UNCHANGED <<settings, created, snapped>>
      PROVE  Schedule'
  <2>1. \A q \in Procs : /\ pc'[q] = IF q = p THEN label ELSE pc[q]
                         /\ job'[q] = IF q = p THEN j ELSE job[q]
    BY <1>3 DEF Continue, Base, TypeOK
  <2>2. \A q \in Procs : /\ job'[q].day = job[q].day /\ job'[q].seen = job[q].seen
                         /\ job'[q].plan = job[q].plan /\ job'[q].todo \subseteq job[q].todo
                         /\ pc'[q] = "submit" => pc[q] = "submit"
                         /\ pc'[q] \in SellLabels => pc[q] \in SellLabels
                         /\ q # p => job'[q].todo = job[q].todo /\ pc'[q] = pc[q]
    BY <1>1, <1>3, <2>1 DEF SellLabels
  <2>3. account[s].available - lots \in Nat
    <3>1. account[s].available \in Nat /\ lots \in Nat /\ lots <= account[s].available
      BY <1>3 DEF Base, TypeOK, Amounts
    <3> QED
      BY <3>1
  <2>4. /\ \A a \in Symbols : /\ peak'[a] \in Nat /\ peak'[a] >= peak[a]
                              /\ Share(a)' >= Share(a) /\ Share(a)' \in Nat
                              /\ account'[a].available <= peak'[a]
        /\ \A a \in DOMAIN snapped : snapped[a].amount.available <= peak'[a]
        /\ \A k : IsJob(k) /\ SeenWithinPeak(k) => SeenWithinPeak(k)'
    BY <1>3, <2>3, PeakGrows
  <2>5. WithinPeak'
    <3>1. ASSUME NEW q \in Procs
          PROVE  SeenWithinPeak(job[q])'
      <4>1. SeenWithinPeak(job[q]) /\ IsJob(job[q])
        BY KnownLocals DEF Schedule, WithinPeak
      <4>2. \A a \in DOMAIN job[q].seen : job[q].seen[a].available <= peak'[a]
        BY <2>4, <4>1 DEF SeenWithinPeak
      <4> QED
        BY <2>2, <4>2 DEF SeenWithinPeak
    <3> QED
      BY <1>3, <2>4, <3>1 DEF WithinPeak
  <2>6. PlansWithinShare'
    <3>1. ASSUME NEW q \in Procs, pc'[q] \in SellLabels, NEW a \in job'[q].todo
          PROVE  job'[q].plan[a].quantity <= Share(a)'
      <4>1. pc[q] \in SellLabels /\ a \in job[q].todo /\ job'[q].plan = job[q].plan
        BY <2>2, <3>1
      <4>2. a \in Symbols /\ job[q].plan[a].quantity \in Nat
        BY <4>1, KnownLocals DEF IsJob, Items, LocalsAt
      <4>3. job[q].plan[a].quantity <= Share(a) /\ Share(a) \in Nat
        BY <4>1, <4>2, ShareTyped DEF Schedule, PlansWithinShare, PlanWithinShare
      <4> QED
        BY <2>4, <4>1, <4>2, <4>3
    <3> QED
      BY <3>1 DEF PlansWithinShare, PlanWithinShare, SellLabels
  <2>7. DaysOwned'
    BY <1>3, <2>2 DEF Schedule, DaysOwned
  <2>8. \A a \in Symbols : Pending(a)' \subseteq Pending(a)
    BY <2>2 DEF Pending
  <2>9. ASSUME NEW a \in Symbols
        PROVE  SoldDays(a) \subseteq SoldDays(a)' /\ IsFiniteSet(SoldDays(a)')
    <3>1. SoldDays(a) \subseteq SoldDays(a)' /\ SoldDays(a)' \subseteq created
      BY <1>3, <2>8 DEF SoldDays
    <3> QED
      BY <3>1, SoldDaysCounted, FS_Subset DEF Schedule
  <2>10. ASSUME NEW a \in Symbols, a # s
         PROVE  sold'[a] * Lot <= Cardinality(SoldDays(a)') * Share(a)'
    <3>1. sold'[a] = sold[a]
      BY <1>3, <2>10 DEF Base, TypeOK
    <3> QED
      BY <1>3, <2>4, <2>9, <3>1, AccountGrows
  <2>11. sold'[s] * Lot <= Cardinality(SoldDays(s)') * Share(s)'
    <3> DEFINE day == job[p].day
               before == Cardinality(SoldDays(s))
               after == Cardinality(SoldDays(s)')
    <3>1. day \in Pending(s) /\ day \in created
      BY <1>1, <1>3 DEF Pending, Schedule, DaysOwned
    <3>2. day \notin Pending(s)'
      BY <1>1, <1>3, <2>1, <2>2 DEF Pending, Schedule, DaysOwned
    <3>3. SoldDays(s) \union {day} \subseteq SoldDays(s)' /\ day \notin SoldDays(s)
      BY <1>3, <2>9, <3>1, <3>2 DEF SoldDays
    <3>4. before \in Nat /\ after \in Nat /\ before + 1 <= after
      <4>1. IsFiniteSet(SoldDays(s)) /\ before \in Nat
        BY SoldDaysCounted DEF Schedule
      <4>2. Cardinality(SoldDays(s) \union {day}) = before + 1
        BY <3>3, <4>1, FS_AddElement
      <4>3. IsFiniteSet(SoldDays(s)')
        BY <1>3, <2>9
      <4> QED
        BY <3>3, <4>1, <4>2, <4>3, FS_Subset, FS_CardinalityType
    <3>5. lots * Lot <= Share(s) /\ lots * Lot \in Nat
      <4>1. job[p].plan[s].quantity \in Nat
        BY <1>1, <1>3, KnownLocals DEF IsJob, Items, LocalsAt, SellLabels
      <4>2. job[p].plan[s].quantity <= Share(s) /\ Share(s) \in Nat
        BY <1>1, <1>3, ShareTyped DEF Schedule, PlansWithinShare, PlanWithinShare, SellLabels
      <4>3. lots * Lot <= job[p].plan[s].quantity /\ lots * Lot \in Nat
        BY <1>3, <4>1, CutDown DEF Lot
      <4> QED
        BY <4>1, <4>2, <4>3
    <3>6. sold'[s] = sold[s] + lots /\ sold[s] \in Nat /\ Share(s) \in Nat
      BY <1>3, ShareTyped DEF Base, TypeOK
    <3>7. sold[s] * Lot <= before * Share(s)
      BY <1>3 DEF Schedule, Accounted
    <3>8. before * Share(s) \in Nat /\ (before + 1) * Share(s) = before * Share(s) + Share(s)
      BY <3>4, <3>6, ProductSteps
    <3>9. sold'[s] * Lot <= (before + 1) * Share(s)
      <4>1. sold'[s] * Lot = sold[s] * Lot + lots * Lot
        BY <1>3, <3>6 DEF Lot
      <4> QED
        BY <3>5, <3>6, <3>7, <3>8, <4>1 DEF Lot
    <3>10. (before + 1) * Share(s) <= after * Share(s)' /\ after * Share(s)' \in Nat
      BY <1>3, <2>4, <3>4, <3>6, ProductGrows
    <3>11. sold'[s] * Lot \in Nat /\ (before + 1) * Share(s) \in Nat
      BY <1>3, <3>4, <3>6 DEF Lot
    <3> QED
      BY <3>9, <3>10, <3>11
  <2> QED
    BY <2>5, <2>6, <2>7, <2>10, <2>11 DEF Schedule, Accounted
<1> QED
  BY <1>2, <1>3, SubmitCases DEF tableVars

\* The steps of runs that neither plan nor create nor sell.
LEMMA QuietSchedule ==
    ASSUME Base, Schedule, NEW p \in Procs,
           \/ StartLive(p) \/ StartLiveAt(p) \/ ReadBalances(p)
           \/ StartReconcile(p) \/ FetchAccount(p) \/ Record(p)
           \/ Snapshot(p) \/ StampSnapshot(p) \/ RecordSnapshot(p)
           \/ StartBackfill(p) \/ FetchCandles(p) \/ StoreCandles(p) \/ Stop(p)
    PROVE  Schedule'
<1>0. IsJob(job[p]) /\ SeenWithinPeak(job[p])
  BY KnownLocals DEF Schedule, WithinPeak
<1>1. UNCHANGED <<account, peak, sold, created, settings>>
  BY DEF StartLive, StartLiveAt, ReadBalances, StartReconcile, FetchAccount, Record,
         Snapshot, StampSnapshot, RecordSnapshot, StartBackfill, FetchCandles, StoreCandles,
         Stop, ReadClock, worldVars, tableVars, historyVars
<1>2. \A s \in DOMAIN snapped : snapped[s].amount.available <= peak[s]
  BY DEF Schedule, WithinPeak
<1>3. ASSUME NEW label, NEW j, Continue(p, label, j), label \notin SellLabels, SeenWithinPeak(j),
             snapped' = snapped
      PROVE  Schedule'
  BY <1>1, <1>2, <1>3, ScheduleGoesOn DEF SellLabels
<1>4. CASE StartLive(p) \/ StartReconcile(p)
  <2>1. PICK j : j = [NoJob EXCEPT !.at = clock', !.day = today]
    OBVIOUS
  <2>2. SeenWithinPeak(j)
    BY <2>1 DEF NoJob, SeenWithinPeak
  <2> QED
    BY <1>3, <1>4, <2>1, <2>2 DEF StartLive, StartReconcile, historyVars, SellLabels
<1>12. CASE StartLiveAt(p)
  <2>1. PICK at \in Given, day \in 1..shift.days :
            Continue(p, "balances", [NoJob EXCEPT !.at = at, !.day = day])
    BY <1>12 DEF StartLiveAt
  <2>2. PICK j : j = [NoJob EXCEPT !.at = at, !.day = day]
    OBVIOUS
  <2>3. SeenWithinPeak(j)
    BY <2>2 DEF NoJob, SeenWithinPeak
  <2>4. snapped' = snapped /\ "balances" \notin SellLabels
    BY <1>12 DEF StartLiveAt, historyVars, SellLabels
  <2> QED
    BY <1>3, <2>1, <2>2, <2>3, <2>4
<1>13. CASE StampSnapshot(p)
  <2>1. PICK at : at = clock'
    OBVIOUS
  <2>2. PICK j : j = [job[p] EXCEPT !.at = at]
    OBVIOUS
  <2>3. j.seen = job[p].seen
    BY <1>0, <2>2 DEF IsJob
  <2>4. SeenWithinPeak(j)
    BY <1>0, <2>3 DEF SeenWithinPeak
  <2> QED
    BY <1>3, <1>13, <2>1, <2>2, <2>4 DEF StampSnapshot, historyVars, SellLabels
<1>5. CASE ReadBalances(p)
  <2>1. PICK seen : seen = FetchBalances(account)
    OBVIOUS
  <2>2. PICK j : j = [job[p] EXCEPT !.seen = seen]
    OBVIOUS
  <2>3. j.seen = FetchBalances(account)
    BY <1>0, <2>1, <2>2 DEF IsJob
  <2>4. SeenWithinPeak(j)
    BY <2>3, FetchWithinPeak
  <2> QED
    BY <1>3, <1>5, <2>1, <2>2, <2>4 DEF ReadBalances, historyVars, SellLabels
<1>6. CASE FetchAccount(p)
  <2>1. PICK seen : seen = FetchBalances(account)
    OBVIOUS
  <2>2. PICK j : j = [job[p] EXCEPT !.seen = seen, !.plan = << >>]
    OBVIOUS
  <2>3. j.seen = FetchBalances(account)
    BY <1>0, <2>1, <2>2 DEF IsJob
  <2>4. SeenWithinPeak(j)
    BY <2>3, FetchWithinPeak
  <2> QED
    BY <1>3, <1>6, <2>1, <2>2, <2>4 DEF FetchAccount, historyVars, SellLabels
<1>7. CASE Snapshot(p)
  <2>1. PICK seen : seen = FetchBalances(account)
    OBVIOUS
  <2>2. PICK j : j = [NoJob EXCEPT !.seen = seen]
    OBVIOUS
  <2>3. j.seen = FetchBalances(account)
    BY <2>1, <2>2 DEF NoJob
  <2>4. SeenWithinPeak(j)
    BY <2>3, FetchWithinPeak
  <2> QED
    BY <1>3, <1>7, <2>1, <2>2, <2>4 DEF Snapshot, historyVars, SellLabels
<1>8. CASE StartBackfill(p)
  <2>1. PICK since, limit :
            Continue(p, "candles", [NoJob EXCEPT !.day = today, !.todo = Symbols,
                                                 !.since = since, !.limit = limit])
    BY <1>8 DEF StartBackfill
  <2>2. PICK j : j = [NoJob EXCEPT !.day = today, !.todo = Symbols,
                                   !.since = since, !.limit = limit]
    OBVIOUS
  <2>3. SeenWithinPeak(j)
    BY <2>2 DEF NoJob, SeenWithinPeak
  <2>4. snapped' = snapped /\ "candles" \notin SellLabels
    BY <1>8 DEF StartBackfill, historyVars, SellLabels
  <2> QED
    BY <1>3, <2>1, <2>2, <2>3, <2>4
<1>9. CASE FetchCandles(p)
  <2>1. PICK label \in BackfillLabels : \E todo, prices :
            Continue(p, label, [job[p] EXCEPT !.todo = todo, !.prices = prices])
    BY <1>9 DEF FetchCandles, BackfillLabels
  <2>2. PICK todo, prices :
            Continue(p, label, [job[p] EXCEPT !.todo = todo, !.prices = prices])
    BY <2>1
  <2>3. PICK j : j = [job[p] EXCEPT !.todo = todo, !.prices = prices]
    OBVIOUS
  <2>5. j.seen = job[p].seen
    BY <1>0, <2>3 DEF IsJob
  <2>6. SeenWithinPeak(j)
    BY <1>0, <2>5 DEF SeenWithinPeak
  <2>7. snapped' = snapped /\ label \notin SellLabels
    BY <1>9, <2>1 DEF FetchCandles, historyVars, BackfillLabels, SellLabels
  <2> QED
    BY <1>3, <2>2, <2>3, <2>6, <2>7
<1>10. CASE Record(p) \/ StoreCandles(p) \/ Stop(p)
  BY <1>3, <1>10, NoJobWithinPeak DEF Record, StoreCandles, Stop, End, historyVars, SellLabels
<1>11. CASE RecordSnapshot(p)
  <2>1. PICK at, seen : at = job[p].at /\ seen = job[p].seen
    OBVIOUS
  <2>2. snapped' = [s \in DOMAIN snapped \union DOMAIN seen |->
                       IF s \in DOMAIN seen /\ ~SeenLater(s, at)
                       THEN [at |-> at, amount |-> seen[s]] ELSE snapped[s]]
    BY <1>11, <2>1 DEF RecordSnapshot
  <2>3. ASSUME NEW s \in DOMAIN snapped'
        PROVE  snapped'[s].amount.available <= peak[s]
    <3>1. CASE s \in DOMAIN seen /\ ~SeenLater(s, at)
      <4>1. snapped'[s] = [at |-> at, amount |-> seen[s]]
        BY <2>2, <3>1
      <4> QED
        BY <1>0, <2>1, <3>1, <4>1 DEF SeenWithinPeak
    <3>2. CASE ~(s \in DOMAIN seen /\ ~SeenLater(s, at))
      <4>1. snapped'[s] = snapped[s] /\ s \in DOMAIN snapped
        BY <2>2, <2>3, <3>2 DEF SeenLater
      <4> QED
        BY <1>2, <4>1
    <3> QED
      BY <3>1, <3>2
  <2> QED
    BY <1>1, <1>11, <2>3, ScheduleGoesOn, NoJobWithinPeak DEF RecordSnapshot, End
<1> QED
  BY <1>4, <1>5, <1>6, <1>7, <1>8, <1>9, <1>10, <1>11, <1>12, <1>13

\* No step sells beyond the schedule.
LEMMA ScheduleStep == Base /\ Basis /\ Schedule /\ [Next]_vars => Schedule'
<1> SUFFICES ASSUME Base, Basis, Schedule, [Next]_vars PROVE Schedule'
  OBVIOUS
<1>1. CASE UNCHANGED vars
  BY <1>1 DEF vars, worldVars, tableVars, historyVars, Schedule, WithinPeak, SeenWithinPeak,
              PlansWithinShare, PlanWithinShare, Share, DaysOwned, Accounted, SoldDays, Pending
<1>2. CASE Tomorrow
  <2>1. UNCHANGED <<account, settings, created, pc, job, sold, peak, snapped>>
    BY <1>2 DEF Tomorrow, tableVars, historyVars
  <2>3. WithinPeak' /\ PlansWithinShare' /\ Accounted'
    BY <2>1 DEF Schedule, WithinPeak, SeenWithinPeak, PlansWithinShare, PlanWithinShare, Share,
                Accounted, SoldDays, Pending
  <2>4. DaysOwned'
    BY <2>1 DEF Schedule, DaysOwned
  <2> QED
    BY <2>3, <2>4 DEF Schedule
<1>3. CASE \E s \in Moved : MoveCoins(s)
  BY <1>3, MoveCoinsSchedule
<1>4. ASSUME NEW p \in Procs, OtherStep(p) PROVE Schedule'
  BY <1>4, QuietSchedule, MakePlanSchedule, CreateCycleSchedule DEF OtherStep
<1>5. ASSUME NEW p \in Procs,
             Submit(p) \/ FetchAccount(p) \/ Record(p) \/ RecordSnapshot(p)
      PROVE  Schedule'
  BY <1>5, QuietSchedule, SubmitSchedule
<1> QED
  BY <1>1, <1>2, <1>3, <1>4, <1>5, StepKinds

\* At first nothing is sold.
LEMMA InitSchedule == Init => Schedule
<1> SUFFICES ASSUME Init PROVE Schedule
  OBVIOUS
<1>1. Base
  BY InitBase
<1>2. WithinPeak /\ PlansWithinShare /\ DaysOwned
  <2>1. \A s \in Symbols : account[s].available \in Nat /\ peak[s] = account[s].available
    BY <1>1 DEF Init, Base, TypeOK, Amounts
  <2>2. DOMAIN snapped = {} /\ created = {} /\ \A p \in Procs : pc[p] = "idle" /\ job[p] = NoJob
    BY DEF Init
  <2> QED
    BY <2>1, <2>2, NoJobWithinPeak DEF WithinPeak, PlansWithinShare, DaysOwned, SellLabels
<1>3. Accounted
  <2> SUFFICES ASSUME NEW s \in Symbols
               PROVE  sold[s] * Lot <= Cardinality(SoldDays(s)) * Share(s)
    BY DEF Accounted
  <2>1. sold[s] = 0 /\ SoldDays(s) = {}
    BY DEF Init, SoldDays
  <2>2. Cardinality(SoldDays(s)) \in Nat /\ Share(s) \in Nat
    BY <1>1, <1>2, SoldDaysCounted, ShareTyped
  <2>3. Cardinality(SoldDays(s)) * Share(s) \in Nat
    BY <2>2, ProductSteps
  <2> QED
    BY <2>1, <2>3 DEF Lot
<1> QED
  BY <1>2, <1>3 DEF Schedule

\* What is sold is within the shares of the dates that have a cycle.
LEMMA SoldWithinShares ==
    ASSUME Base, Schedule, NEW s \in Symbols, NEW days \in Nat, Cardinality(created) <= days
    PROVE  sold[s] * Lot <= days * settings.percent * peak[s]
<1>1. sold[s] * Lot <= Cardinality(SoldDays(s)) * Share(s)
  BY DEF Schedule, Accounted
<1>2. /\ Cardinality(SoldDays(s)) \in Nat /\ Cardinality(SoldDays(s)) <= days
      /\ Share(s) \in Nat /\ sold[s] * Lot \in Nat
      /\ settings.percent \in Nat /\ peak[s] \in Nat
  BY SoldDaysCounted, ShareTyped DEF Lot
<1>3. Cardinality(SoldDays(s)) * Share(s) <= days * Share(s)
  BY <1>2, ProductGrows
<1>4. days * Share(s) = days * settings.percent * peak[s]
  BY <1>2, ProductsAssociate DEF Share
<1>5. Cardinality(SoldDays(s)) * Share(s) \in Nat /\ days * Share(s) \in Nat
  BY <1>2, ProductSteps
<1> QED
  BY <1>1, <1>2, <1>3, <1>4, <1>5

\* With cycles for d scheduled dates the program has sold no more of a symbol
\* than d times the percentage of the most that was ever available of it, for
\* any number of overlapping and failing runs, with and without --at, and for
\* any snapshots, deposits and days.
THEOREM SoldOnSchedule == Spec => []OnSchedule
<1>1. Base /\ Schedule => OnSchedule
  <2> SUFFICES ASSUME Base, Schedule, NEW s \in Symbols
               PROVE  sold[s] * Lot <= Cardinality(created) * settings.percent * peak[s]
    BY DEF OnSchedule
  <2>1. Cardinality(created) \in Nat /\ Cardinality(created) <= Cardinality(created)
    BY SoldDaysCounted
  <2> QED
    BY <2>1, SoldWithinShares
<1> QED
  BY <1>1, InitBasis, BasisStep, InitSchedule, ScheduleStep, BaseHolds, PTL DEF Spec

\* In the first d days no more than d percentages are sold.
InTime == \A s \in Symbols : sold[s] * Lot <= today * settings.percent * peak[s]

WithoutAt == \A sh \in Shifts, p \in Procs : "live_at" \notin sh.commands[p]

\* Then no run is for a date to come.
Dated ==
    /\ created \subseteq 1..today
    /\ \A p \in Procs : pc[p] \in LiveLabels => job[p].day <= today

\* A run keeps its date, or starts on today's.
LEMMA DatedStep == WithoutAt /\ Base /\ Dated /\ [Next]_vars => Dated'
<1> SUFFICES ASSUME WithoutAt, Base, Dated, [Next]_vars PROVE Dated'
  OBVIOUS
<1>0. today \in Nat /\ \A p \in Procs : job[p].day \in Nat
  BY ClockTyped, KnownLocals
<1>1. ASSUME NEW p \in Procs, NEW label, NEW j, Continue(p, label, j),
             label \in LiveLabels => \/ j.day = today
                                     \/ pc[p] \in LiveLabels /\ j.day = job[p].day,
             created' \subseteq 1..today, UNCHANGED today
      PROVE  Dated'
  <2>1. \A q \in Procs : /\ pc'[q] = IF q = p THEN label ELSE pc[q]
                         /\ job'[q] = IF q = p THEN j ELSE job[q]
    BY <1>1 DEF Continue, Base, TypeOK
  <2> QED
    BY <1>0, <1>1, <2>1 DEF Dated
<1>2. CASE UNCHANGED <<today, created, pc, job>>
  BY <1>2 DEF Dated
<1>3. CASE Tomorrow
  BY <1>0, <1>3 DEF Tomorrow, tableVars, Dated
<1>4. ASSUME NEW p \in Procs, StartLiveAt(p)
      PROVE  FALSE
  BY <1>4 DEF StartLiveAt, WithoutAt, Base, TypeOK
<1>5. ASSUME NEW p \in Procs, StartLive(p)
      PROVE  Dated'
  <2>1. PICK at : at = clock'
    OBVIOUS
  <2>2. PICK j : j = [NoJob EXCEPT !.at = at, !.day = today]
    OBVIOUS
  <2>3. j.day = today
    BY <2>2 DEF NoJob
  <2> QED
    BY <1>1, <1>5, <2>1, <2>2, <2>3 DEF StartLive, ReadClock, tableVars, Dated
<1>6. ASSUME NEW p \in Procs, ReadBalances(p)
      PROVE  Dated'
  <2>1. PICK seen : seen = FetchBalances(account)
    OBVIOUS
  <2>2. PICK j : j = [job[p] EXCEPT !.seen = seen]
    OBVIOUS
  <2>3. j.day = job[p].day
    BY <2>2, KnownLocals DEF IsJob
  <2> QED
    BY <1>1, <1>6, <2>1, <2>2, <2>3 DEF ReadBalances, worldVars, tableVars, Dated, LiveLabels
<1>7. ASSUME NEW p \in Procs, NEW label, NEW j, Continue(p, label, j), label \notin LiveLabels,
             UNCHANGED <<today, created>>
      PROVE  Dated'
  BY <1>1, <1>7 DEF Dated
<1>8. ASSUME NEW p \in Procs, MakePlan(p)
      PROVE  Dated'
  <2>1. UNCHANGED <<today, created>> /\ pc[p] = "plan"
    BY <1>8 DEF MakePlan, worldVars, tableVars
  <2>2. CASE End(p)
    BY <1>7, <2>1, <2>2 DEF End, LiveLabels
  <2>3. CASE ~End(p)
    <3>1. PICK plan, todo : Continue(p, "create", [job[p] EXCEPT !.plan = plan, !.todo = todo])
      BY <1>8, <2>3 DEF MakePlan
    <3>2. PICK j : j = [job[p] EXCEPT !.plan = plan, !.todo = todo]
      OBVIOUS
    <3>3. j.day = job[p].day
      BY <3>2, KnownLocals DEF IsJob
    <3> QED
      BY <1>1, <2>1, <3>1, <3>2, <3>3 DEF Dated, LiveLabels
  <2> QED
    BY <2>2, <2>3
<1>9. ASSUME NEW p \in Procs, CreateCycle(p)
      PROVE  Dated'
  <2>1. pc[p] = "create" /\ today' = today
    BY <1>9 DEF CreateCycle, worldVars
  <2>2. job[p].day \in 1..today
    BY <1>0, <2>1, KnownLocals DEF Dated, LocalsAt, LiveLabels
  <2>3. CASE MayCreate(job[p].day)
    BY <1>1, <1>9, <2>1, <2>2, <2>3 DEF CreateCycle, Dated, LiveLabels
  <2>4. CASE ~MayCreate(job[p].day)
    BY <1>7, <1>9, <2>1, <2>4 DEF CreateCycle, End, LiveLabels
  <2> QED
    BY <2>3, <2>4
<1>10. ASSUME NEW p \in Procs, Submit(p)
       PROVE  Dated'
  <2>1. pc[p] = "submit" /\ UNCHANGED <<today, created>>
    BY <1>10 DEF Submit, tableVars
  <2>2. CASE End(p)
    BY <1>7, <2>1, <2>2 DEF End, LiveLabels
  <2>3. ASSUME NEW label, NEW j, Continue(p, label, j), j.day = job[p].day
        PROVE  Dated'
    BY <1>1, <2>1, <2>3 DEF Dated, LiveLabels
  <2> QED
    BY <1>10, <2>2, <2>3, SubmitCases
<1>11. ASSUME NEW p \in Procs,
              \/ StartReconcile(p) \/ FetchAccount(p) \/ Record(p)
              \/ Snapshot(p) \/ StampSnapshot(p) \/ RecordSnapshot(p)
              \/ FetchCandles(p) \/ StoreCandles(p) \/ Stop(p)
       PROVE  Dated'
  <2>1. UNCHANGED <<today, created>>
    BY <1>11 DEF StartReconcile, FetchAccount, Record, Snapshot, StampSnapshot, RecordSnapshot,
                 FetchCandles, StoreCandles, Stop, ReadClock, worldVars, tableVars
  <2>2. CASE StartReconcile(p) \/ FetchAccount(p) \/ Snapshot(p) \/ StampSnapshot(p)
    BY <1>7, <2>1, <2>2 DEF StartReconcile, FetchAccount, Snapshot, StampSnapshot, LiveLabels
  <2>3. CASE FetchCandles(p)
    BY <1>7, <2>1, <2>3 DEF FetchCandles, LiveLabels
  <2>4. CASE Record(p) \/ RecordSnapshot(p) \/ StoreCandles(p) \/ Stop(p)
    BY <1>7, <2>1, <2>4 DEF Record, RecordSnapshot, StoreCandles, Stop, End, LiveLabels
  <2> QED
    BY <1>11, <2>2, <2>3, <2>4
<1>12. ASSUME NEW p \in Procs, StartBackfill(p)
       PROVE  Dated'
  BY <1>7, <1>12 DEF StartBackfill, worldVars, tableVars, LiveLabels
<1> QED
  BY <1>2, <1>3, <1>4, <1>5, <1>6, <1>8, <1>9, <1>10, <1>11, <1>12, StepKinds
  DEF OtherStep, MoveCoins, vars, worldVars, tableVars

\* Where nobody uses --at, the first d days sell no more of a symbol than d
\* times the percentage of the most that was ever available of it.
THEOREM SoldInTime ==
    ASSUME WithoutAt
    PROVE  Spec => []InTime
<1>1. Base /\ Schedule /\ Dated => InTime
  <2> SUFFICES ASSUME Base, Schedule, Dated, NEW s \in Symbols
               PROVE  sold[s] * Lot <= today * settings.percent * peak[s]
    BY DEF InTime
  <2>1. today \in Nat /\ 1 <= today
    BY ClockTyped
  <2>2. IsFiniteSet(1..today) /\ Cardinality(1..today) = today
    BY <2>1, FS_Interval
  <2>3. Cardinality(created) <= today
    BY <2>2, FS_Subset DEF Dated
  <2> QED
    BY <2>1, <2>3, SoldWithinShares
<1>2. Init => Dated
  BY DEF Init, Dated, LiveLabels
<1>3. Base /\ Dated /\ [Next]_vars => Dated'
  BY DatedStep
<1> QED
  BY <1>1, <1>2, <1>3, InitBasis, BasisStep, InitSchedule, ScheduleStep, BaseHolds, PTL DEF Spec

-----------------------------------------------------------------------------
(* The reserve.                                                            *)

\* What a run has still to sell leaves the reserve of what it has seen.
LeavesReserve(j, s) ==
    /\ s \in DOMAIN j.seen
    /\ (j.seen[s].available * Lot - j.plan[s].quantity) * j.plan[s].bid >= settings.minRemaining

PlansKeepReserve ==
    \A p \in Procs : pc[p] \in SellLabels => \A s \in job[p].todo : LeavesReserve(job[p], s)

\* A run that has a plan keeps it, and has fewer and fewer items to sell.
Narrowed(q) ==
    /\ pc[q] \in SellLabels
    /\ job'[q].seen = job[q].seen /\ job'[q].plan = job[q].plan
    /\ job'[q].todo \subseteq job[q].todo

\* Only MakePlan writes a plan; every other step narrows what is left of it.
LEMMA PlansNarrow ==
    ASSUME Base, [Next]_vars, NEW q \in Procs, pc'[q] \in SellLabels, ~MakePlan(q)
    PROVE  Narrowed(q)
<1>1. CASE pc'[q] = pc[q] /\ job'[q] = job[q]
  BY <1>1 DEF Narrowed
<1>2. ASSUME NEW p \in Procs, NEW label, NEW j, Continue(p, label, j), label \notin SellLabels
      PROVE  Narrowed(q)
  <2>1. q # p
    BY <1>2 DEF Continue, Base, TypeOK
  <2> QED
    BY <1>1, <1>2, <2>1 DEF Continue, Base, TypeOK
<1>3. ASSUME NEW p \in Procs, p # q, NEW label, NEW j, Continue(p, label, j)
      PROVE  Narrowed(q)
  BY <1>1, <1>3 DEF Continue, Base, TypeOK
<1>4. ASSUME NEW p \in Procs, CreateCycle(p)
      PROVE  Narrowed(q)
  <2>1. CASE End(p)
    BY <1>2, <2>1 DEF End, SellLabels
  <2>2. CASE Continue(p, "submit", job[p]) /\ p = q
    BY <1>4, <2>2 DEF CreateCycle, Continue, Narrowed, SellLabels, Base, TypeOK
  <2>3. CASE Continue(p, "submit", job[p]) /\ p # q
    BY <1>3, <2>3
  <2> QED
    BY <1>4, <2>1, <2>2, <2>3 DEF CreateCycle
<1>5. ASSUME NEW p \in Procs, Submit(p)
      PROVE  Narrowed(q)
  <2>1. CASE End(p)
    BY <1>2, <2>1 DEF End, SellLabels
  <2>2. ASSUME NEW label, NEW j, Continue(p, label, j), j.seen = job[p].seen,
               j.plan = job[p].plan, j.todo \subseteq job[p].todo
        PROVE  Narrowed(q)
    <3>1. CASE p = q
      BY <1>5, <2>2, <3>1 DEF Submit, Continue, Narrowed, SellLabels, Base, TypeOK
    <3> QED
      BY <1>3, <2>2, <3>1
  <2> QED
    BY <1>5, <2>1, <2>2, SubmitCases
<1>6. ASSUME NEW p \in Procs, MakePlan(p)
      PROVE  Narrowed(q)
  <2>1. p # q
    BY <1>6
  <2>2. \E label, j : Continue(p, label, j)
    BY <1>6 DEF MakePlan, End
  <2> QED
    BY <1>3, <2>1, <2>2
<1>7. ASSUME NEW p \in Procs,
             StartLive(p) \/ ReadBalances(p) \/ StartReconcile(p) \/ FetchAccount(p)
      PROVE  Narrowed(q)
  BY <1>2, <1>7 DEF StartLive, ReadBalances, StartReconcile, FetchAccount, SellLabels
<1>8. ASSUME NEW p \in Procs,
             Record(p) \/ Snapshot(p) \/ StampSnapshot(p) \/ RecordSnapshot(p)
      PROVE  Narrowed(q)
  BY <1>2, <1>8 DEF Record, Snapshot, StampSnapshot, RecordSnapshot, End, SellLabels
<1>11. ASSUME NEW p \in Procs, StartLiveAt(p) \/ StartBackfill(p)
       PROVE  Narrowed(q)
  <2>1. CASE StartLiveAt(p)
    BY <1>2, <2>1 DEF StartLiveAt, SellLabels
  <2>2. CASE StartBackfill(p)
    BY <1>2, <2>2 DEF StartBackfill, SellLabels
  <2> QED
    BY <1>11, <2>1, <2>2
<1>9. ASSUME NEW p \in Procs, FetchCandles(p) \/ StoreCandles(p) \/ Stop(p)
      PROVE  Narrowed(q)
  <2>1. CASE FetchCandles(p)
    BY <1>2, <2>1 DEF FetchCandles, SellLabels
  <2> QED
    BY <1>2, <1>9, <2>1 DEF StoreCandles, Stop, End, SellLabels
<1>10. CASE UNCHANGED <<pc, job>>
  BY <1>1, <1>10
<1> QED
  BY <1>4, <1>5, <1>6, <1>7, <1>8, <1>9, <1>10, <1>11, StepKinds
  DEF OtherStep, vars, Tomorrow, MoveCoins

\* The settings do not change.
LEMMA SettingsStay ==
    ASSUME [Next]_vars
    PROVE  settings' = settings
<1>1. ASSUME NEW p \in Procs, OtherStep(p) PROVE settings' = settings
  BY <1>1, OtherStepQuiet
<1> QED
  BY <1>1, StepKinds
  DEF Submit, FetchAccount, Record, RecordSnapshot, ReadClock, MoveCoins, Tomorrow,
      vars, worldVars

\* Every plan leaves the reserve until its last item is sold.
LEMMA ReserveStep == Base /\ PlansKeepReserve /\ [Next]_vars => PlansKeepReserve'
<1> SUFFICES ASSUME Base, PlansKeepReserve, [Next]_vars,
                    NEW q \in Procs, pc'[q] \in SellLabels, NEW s \in job'[q].todo
             PROVE  LeavesReserve(job[q], s)'
  BY DEF PlansKeepReserve, SellLabels
<1>1. settings' = settings
  BY SettingsStay
<1>2. CASE ~MakePlan(q)
  <2>1. Narrowed(q)
    BY <1>2, PlansNarrow
  <2> QED
    BY <1>1, <2>1 DEF Narrowed, PlansKeepReserve, LeavesReserve
<1>3. CASE MakePlan(q)
  <2>1. PICK quotes \in [Symbols -> Quotes] :
            LET plan == SellPlan(q, quotes)
            IN  \/ End(q)
                \/ Continue(q, "create", [job[q] EXCEPT !.plan = plan, !.todo = PlannedItems(plan)])
    BY <1>3 DEF MakePlan
  <2>2. ~End(q)
    BY DEF End, Continue, SellLabels, Base, TypeOK
  <2>3. PICK plan : plan = SellPlan(q, quotes)
    OBVIOUS
  <2>4. PICK todo : todo = PlannedItems(plan)
    OBVIOUS
  <2>5. PICK j : j = [job[q] EXCEPT !.plan = plan, !.todo = todo]
    OBVIOUS
  <2>6. job'[q] = j
    BY <2>1, <2>2, <2>3, <2>4, <2>5 DEF Continue, Base, TypeOK
  <2>7. j.seen = job[q].seen /\ j.plan = plan /\ j.todo = todo
    BY <2>5, KnownLocals DEF IsJob
  <2>8. s \in Symbols /\ plan[s].status = "planned"
    BY <2>3, <2>4, <2>6, <2>7, PlanTyped DEF PlannedItems
  <2>9. WithinLimits(plan[s], settings, BalanceOf(job[q].seen, s), BalanceOf(InitialBalances, s))
    BY <2>3, <2>8, PlanTyped
  <2>10. /\ s \in DOMAIN job[q].seen
         /\ (job[q].seen[s].available * Lot - plan[s].quantity) * plan[s].bid >= settings.minRemaining
    BY <2>9 DEF WithinLimits, BalanceOf
  <2> QED
    BY <1>1, <2>6, <2>7, <2>10 DEF LeavesReserve
<1> QED
  BY <1>2, <1>3

\* Only a submission sells, and only for its own run.
LEMMA OnlySubmitSells ==
    ASSUME Base, [Next]_vars, NEW p \in Procs, job'[p] # job[p], sold' # sold
    PROVE  Submit(p)
<1>1. PICK q \in Procs : Submit(q)
  <2>1. ASSUME NEW q \in Procs, OtherStep(q) PROVE sold' = sold
    BY <2>1, OtherStepQuiet
  <2> QED
    BY <2>1, StepKinds
    DEF FetchAccount, Record, RecordSnapshot, MoveCoins, Tomorrow, vars, historyVars
<1>2. \E label, j : Continue(q, label, j)
  BY <1>1, SubmitCases DEF End
<1>3. p = q
  BY <1>2 DEF Continue, Base, TypeOK
<1> QED
  BY <1>1, <1>3

\* A sell leaves the reserve of its symbol, at the bid its run planned with,
\* unless the account lost coins after the run had looked at it.
THEOREM ReserveIsKept == Spec => ReserveKept
<1>1. ASSUME Base, PlansKeepReserve, [Next]_vars, NEW p \in Procs, NEW s \in Symbols,
             pc[p] = "submit", job'[p] # job[p], sold'[s] > sold[s],
             account[s].available >= job[p].seen[s].available
      PROVE  account'[s].available * Lot * job[p].plan[s].bid >= settings.minRemaining
  <2>1. Submit(p) /\ sold' # sold
    <3>1. sold[s] \in Nat
      BY <1>1 DEF Base, TypeOK
    <3>2. sold' # sold
      BY <1>1, <3>1
    <3> QED
      BY <1>1, <3>2, OnlySubmitSells
  <2>2. PICK i \in job[p].todo, lots \in Nat :
            /\ i \in Symbols /\ lots = Truncated(job[p].plan[i].quantity)
            /\ lots <= account[i].available
            /\ SetBalance(i, account[i].available - lots, account[i].total - lots)
            /\ sold' = [sold EXCEPT ![i] = @ + lots]
    BY <1>1, <2>1, SubmitCases DEF historyVars
  <2>3. i = s
    <3>1. sold[s] \in Nat
      BY <1>1 DEF Base, TypeOK
    <3>2. i # s => sold'[s] = sold[s]
      BY <1>1, <2>2 DEF Base, TypeOK
    <3> QED
      BY <1>1, <3>1, <3>2
  <2>4. /\ s \in job[p].todo /\ LeavesReserve(job[p], s) /\ s \in DOMAIN job[p].seen
        /\ job[p].plan[s].quantity \in Nat /\ job[p].plan[s].bid \in Nat
        /\ job[p].seen[s].available \in Nat /\ account[s].available \in Nat
    <3>1. s \in job[p].todo /\ LeavesReserve(job[p], s) /\ s \in DOMAIN job[p].seen
      BY <1>1, <2>2, <2>3 DEF PlansKeepReserve, LeavesReserve, SellLabels
    <3>2. job[p].plan[s] \in Items
      BY <1>1, <3>1, KnownLocals DEF IsJob, LocalsAt, SellLabels
    <3>3. job[p].seen[s] \in Amounts /\ account[s] \in Amounts
      <4>1. IsAmounts(job[p].seen)
        BY <1>1, KnownLocals DEF IsJob
      <4> QED
        BY <1>1, <3>1, <4>1 DEF IsAmounts, Base, TypeOK
    <3> QED
      BY <3>1, <3>2, <3>3 DEF Items, Amounts
  <2>5. account'[s].available = account[s].available - lots
    BY <1>1, <2>2, <2>3 DEF SetBalance, Base, TypeOK
  <2>6. lots * Lot <= job[p].plan[s].quantity
    BY <2>2, <2>3, <2>4, CutDown
  <2>7. settings.minRemaining \in Nat
    BY <1>1, Parameters DEF Base, TypeOK, ValidSettings, ValidShare, ValidLimits
  <2> DEFINE left == job[p].seen[s].available * Lot - job[p].plan[s].quantity
             kept == account'[s].available * Lot
  <2>8. left \in Int /\ kept \in Int /\ left <= kept
    BY <1>1, <2>2, <2>4, <2>5, <2>6 DEF Lot
  <2>9. left * job[p].plan[s].bid <= kept * job[p].plan[s].bid
    BY <2>4, <2>8, ProductMonotone
  <2>10. left * job[p].plan[s].bid >= settings.minRemaining
    BY <2>4 DEF LeavesReserve
  <2>11. left * job[p].plan[s].bid \in Int /\ kept * job[p].plan[s].bid \in Int
    BY <2>4, <2>8, ProductMonotone
  <2> QED
    BY <2>7, <2>9, <2>10, <2>11
<1>2. Base /\ PlansKeepReserve /\ [Next]_vars
          => [\A p \in Procs, s \in Symbols :
                  /\ pc[p] = "submit" /\ job'[p] # job[p]
                  /\ sold'[s] > sold[s]
                  /\ account[s].available >= job[p].seen[s].available
                  => account'[s].available * Lot * job[p].plan[s].bid >= settings.minRemaining]_vars
  BY <1>1
<1>3. Init => PlansKeepReserve
  BY DEF Init, PlansKeepReserve, SellLabels
<1> QED
  BY <1>2, <1>3, ReserveStep, BaseHolds, PTL DEF Spec, ReserveKept

-----------------------------------------------------------------------------
(* The price cache.                                                        *)

\* A day has a candle of every symbol, or of none.
AllOrNone(prices, day) == \A s, t \in Symbols : <<s, day>> \in prices => <<t, day>> \in prices

\* Of the days that were over when it began, a back-fill has a candle of each one
\* in its range, for every symbol it has fetched.
FetchesAligned(j) ==
    \A s \in Symbols \ j.todo, day \in Dates :
        day < j.day /\ Covers(j, day) => <<s, day>> \in j.prices

Priced ==
    /\ \A day \in Dates \ provisional : AllOrNone(candles, day)
    /\ \A p \in Procs : /\ pc[p] \in BackfillLabels => FetchesAligned(job[p])
                        /\ pc[p] = "store" => job[p].todo = {}

\* A run goes on and stores nothing.
LEMMA PricedGoesOn ==
    ASSUME Base, Priced, NEW p \in Procs, NEW label, NEW j, Continue(p, label, j),
           label \in BackfillLabels => FetchesAligned(j),
           label = "store" => j.todo = {},
           UNCHANGED <<shift, candles, provisional>>
    PROVE  Priced'
<1>1. \A q \in Procs : /\ pc'[q] = IF q = p THEN label ELSE pc[q]
                       /\ job'[q] = IF q = p THEN j ELSE job[q]
  BY DEF Continue, Base, TypeOK
<1>2. ASSUME NEW q \in Procs
      PROVE  /\ pc'[q] \in BackfillLabels => FetchesAligned(job[q])'
             /\ pc'[q] = "store" => job'[q].todo = {}
  BY <1>1 DEF Priced, FetchesAligned, Dates, Covers
<1>3. \A day \in Dates' \ provisional' : AllOrNone(candles, day)'
  BY DEF Priced, AllOrNone, Dates
<1> QED
  BY <1>2, <1>3 DEF Priced

\* A back-fill starts with nothing fetched.
LEMMA StartBackfillPriced ==
    ASSUME Base, Priced, NEW p \in Procs, StartBackfill(p)
    PROVE  Priced'
<1>1. PICK since, limit :
          Continue(p, "candles", [NoJob EXCEPT !.day = today, !.todo = Symbols,
                                               !.since = since, !.limit = limit])
  BY DEF StartBackfill
<1>2. PICK j : j = [NoJob EXCEPT !.day = today, !.todo = Symbols,
                                 !.since = since, !.limit = limit]
  OBVIOUS
<1>3. j.todo = Symbols
  BY <1>2 DEF NoJob
<1>4. FetchesAligned(j)
  BY <1>3 DEF FetchesAligned
<1>5. UNCHANGED <<shift, candles, provisional>>
  BY DEF StartBackfill, worldVars, tableVars, historyVars
<1> QED
  BY <1>1, <1>2, <1>4, <1>5, PricedGoesOn

\* A fetch returns a candle of every day in its range that is over, whichever
\* day it is by then.
LEMMA FetchCandlesPriced ==
    ASSUME Base, Priced, NEW p \in Procs, FetchCandles(p)
    PROVE  Priced'
<1>1. PICK last \in {today - 1, today} :
          LET s == Least(job[p].todo)
          IN  Continue(p, IF job[p].todo = {s} THEN "store" ELSE "candles",
                       [job[p] EXCEPT !.todo = @ \ {s},
                                      !.prices = @ \union FetchOhlcv(s, job[p].since,
                                                                     job[p].limit, last)])
  BY DEF FetchCandles
<1>2. PICK s, fetched :
          /\ s = Least(job[p].todo)
          /\ fetched = FetchOhlcv(s, job[p].since, job[p].limit, last)
  OBVIOUS
<1>3. PICK label, todo, prices :
          /\ label = IF job[p].todo = {s} THEN "store" ELSE "candles"
          /\ todo = job[p].todo \ {s}
          /\ prices = job[p].prices \union fetched
  OBVIOUS
<1>4. PICK j : j = [job[p] EXCEPT !.todo = todo, !.prices = prices]
  OBVIOUS
<1>5. Continue(p, label, j)
  BY <1>1, <1>2, <1>3, <1>4
<1>6. /\ IsJob(job[p]) /\ job[p].day \in Nat /\ today \in Nat /\ job[p].day <= today
      /\ job[p].since \in Int /\ job[p].limit \in Nat
  BY KnownLocals DEF FetchCandles, LocalsAt, BackfillLabels
<1>7. /\ j.day = job[p].day /\ j.todo = todo /\ j.prices = prices
      /\ j.since = job[p].since /\ j.limit = job[p].limit
  BY <1>4, <1>6 DEF IsJob
<1>8. ASSUME NEW a \in Symbols \ j.todo, NEW day \in Dates, day < j.day, Covers(j, day)
      PROVE  <<a, day>> \in j.prices
  <2>1. CASE a = s
    <3>1. day \in Nat /\ day >= 1 /\ day <= last
      BY <1>6, <1>7, <1>8, ClockTyped DEF Dates
    <3>2. InRange(job[p].since, job[p].limit, day)
      BY <1>7, <1>8 DEF Covers
    <3>3. day \in 1..last
      BY <1>6, <3>1
    <3>4. <<s, day>> \in fetched
      BY <1>2, <3>2, <3>3 DEF FetchOhlcv
    <3> QED
      BY <1>3, <1>7, <2>1, <3>4
  <2>2. CASE a # s
    <3>1. a \in Symbols \ job[p].todo
      BY <1>3, <1>7, <1>8, <2>2
    <3>2. day < job[p].day /\ Covers(job[p], day)
      BY <1>7, <1>8 DEF Covers
    <3>3. FetchesAligned(job[p])
      BY DEF FetchCandles, Priced, BackfillLabels
    <3> QED
      BY <1>3, <1>7, <3>1, <3>2, <3>3 DEF FetchesAligned
  <2> QED
    BY <2>1, <2>2
<1>9. FetchesAligned(j) /\ (label = "store" => j.todo = {})
  BY <1>3, <1>7, <1>8 DEF FetchesAligned
<1>10. UNCHANGED <<shift, candles, provisional>>
  BY DEF FetchCandles, worldVars, tableVars, historyVars
<1> QED
  BY <1>5, <1>9, <1>10, PricedGoesOn

\* A day that is no longer provisional has all the candles stored, or none.
LEMMA StoreCandlesPriced ==
    ASSUME Base, Priced, NEW p \in Procs, StoreCandles(p)
    PROVE  Priced'
<1>1. /\ candles' = candles \union job[p].prices
      /\ provisional' = StillProvisional(job[p], job[p].prices)
      /\ shift' = shift /\ End(p) /\ pc[p] = "store"
  BY DEF StoreCandles, RecordPriceCandles, worldVars
<1>2. FetchesAligned(job[p]) /\ job[p].todo = {} /\ job[p].prices \subseteq Symbols \X Dates
  BY <1>1, KnownLocals DEF Priced, BackfillLabels, IsJob
<1>3. ASSUME NEW day \in Dates, day \notin provisional',
             NEW s \in Symbols, NEW t \in Symbols, <<s, day>> \in candles'
      PROVE  <<t, day>> \in candles'
  <2>1. CASE day \notin provisional /\ \A candle \in job[p].prices : candle[2] # day
    <3>1. <<s, day>> \in candles
      BY <1>1, <1>3, <2>1
    <3> QED
      BY <1>1, <2>1, <3>1 DEF Priced, AllOrNone
  <2>2. CASE day \in provisional \/ \E candle \in job[p].prices : candle[2] = day
    <3>1. ~(day >= job[p].day \/ ~Covers(job[p], day))
      BY <1>1, <1>3, <2>2 DEF StillProvisional
    <3>2. day < job[p].day /\ Covers(job[p], day)
      BY <3>1, ClockTyped, KnownLocals DEF Dates
    <3> QED
      BY <1>1, <1>2, <3>2 DEF FetchesAligned
  <2> QED
    BY <2>1, <2>2
<1>4. \A day \in Dates' \ provisional' : AllOrNone(candles, day)'
  BY <1>1, <1>3 DEF AllOrNone, Dates
<1>5. \A q \in Procs : /\ pc'[q] = IF q = p THEN "idle" ELSE pc[q]
                       /\ q # p => job'[q] = job[q]
  BY <1>1 DEF End, Continue, Base, TypeOK
<1>6. ASSUME NEW q \in Procs
      PROVE  /\ pc'[q] \in BackfillLabels => FetchesAligned(job[q])'
             /\ pc'[q] = "store" => job'[q].todo = {}
  <2>1. CASE q = p
    BY <1>5, <2>1 DEF BackfillLabels
  <2>2. CASE q # p
    BY <1>1, <1>5, <2>2 DEF Priced, FetchesAligned, Dates, Covers
  <2> QED
    BY <2>1, <2>2
<1> QED
  BY <1>4, <1>6 DEF Priced

\* The other steps of runs store nothing and fetch no candles.
LEMMA OthersPriced ==
    ASSUME Base, Priced, NEW p \in Procs,
           \/ StartLive(p) \/ StartLiveAt(p) \/ LiveStep(p)
           \/ StartReconcile(p) \/ ReconcileStep(p)
           \/ Snapshot(p) \/ StampSnapshot(p) \/ RecordSnapshot(p) \/ Stop(p)
    PROVE  Priced'
<1>1. ASSUME NEW label, NEW j, Continue(p, label, j), label \notin BackfillLabels,
             UNCHANGED <<shift, candles, provisional>>
      PROVE  Priced'
  BY <1>1, PricedGoesOn DEF BackfillLabels
<1>2. UNCHANGED <<shift, candles, provisional>>
  BY DEF StartLive, StartLiveAt, LiveStep, ReadBalances, MakePlan, CreateCycle, Submit,
         StartReconcile, ReconcileStep, FetchAccount, Record, Snapshot, StampSnapshot,
         RecordSnapshot, Stop, ReadClock, worldVars, tableVars, historyVars
<1>3. CASE StartLive(p) \/ ReadBalances(p) \/ StartReconcile(p) \/ FetchAccount(p)
           \/ Snapshot(p) \/ StampSnapshot(p)
  BY <1>1, <1>2, <1>3 DEF StartLive, ReadBalances, StartReconcile, FetchAccount, Snapshot,
                          StampSnapshot, BackfillLabels
<1>4. CASE StartLiveAt(p)
  <2>1. \E j : Continue(p, "balances", j)
    BY <1>4 DEF StartLiveAt
  <2> QED
    BY <1>1, <1>2, <2>1 DEF BackfillLabels
<1>5. CASE Record(p) \/ RecordSnapshot(p) \/ Stop(p)
  BY <1>1, <1>2, <1>5 DEF Record, RecordSnapshot, Stop, End, BackfillLabels
<1>6. CASE MakePlan(p)
  <2>1. PICK label \in {"idle", "create"} : \E j : Continue(p, label, j)
    BY <1>6 DEF MakePlan, End
  <2> QED
    BY <1>1, <1>2, <2>1 DEF BackfillLabels
<1>7. CASE CreateCycle(p)
  BY <1>1, <1>2, <1>7 DEF CreateCycle, End, BackfillLabels
<1>8. CASE Submit(p)
  BY <1>1, <1>2, <1>8, SubmitCases DEF End, BackfillLabels
<1> QED
  BY <1>3, <1>4, <1>5, <1>6, <1>7, <1>8 DEF LiveStep, ReconcileStep

\* No step leaves a hole on a day that is not provisional.
LEMMA PricedStep == Base /\ Priced /\ [Next]_vars => Priced'
<1> SUFFICES ASSUME Base, Priced, [Next]_vars PROVE Priced'
  OBVIOUS
<1>1. CASE UNCHANGED <<shift, candles, provisional, pc, job>>
  BY <1>1 DEF Priced, AllOrNone, FetchesAligned, Dates, Covers
<1>2. CASE \/ UNCHANGED vars \/ Tomorrow
           \/ \E s \in Moved : MoveCoins(s)
  BY <1>1, <1>2 DEF vars, worldVars, tableVars, historyVars, Tomorrow, MoveCoins
<1> QED
  BY <1>2, OthersPriced, StartBackfillPriced, FetchCandlesPriced, StoreCandlesPriced
  DEF Next, BackfillStep

\* On a day of the portfolio history that is not provisional no asset with a
\* balance lacks its price, for any number of back-fills that overlap, fail or
\* are interrupted, and whatever ranges they have.
THEOREM HistoryPriced == Spec => []FinishedDaysPriced
<1>1. Base /\ Priced => FinishedDaysPriced
  <2> SUFFICES ASSUME Base, Priced, NEW day \in HistoryDays \ provisional,
                      NEW s \in MissingPrices(Symbols, day),
                      s \in DOMAIN LatestBalances(Sources)
               PROVE  FALSE
    BY DEF FinishedDaysPriced
  <2>1. PICK candle \in candles : candle[2] = day
    BY DEF HistoryDays
  <2>2. PICK first \in Symbols : <<first, day>> \in candles
    <3>1. candle[1] \in Symbols /\ candle = <<candle[1], candle[2]>>
      BY <2>1 DEF Base, TypeOK
    <3> QED
      BY <2>1, <3>1
  <2>3. s \in Symbols /\ s \notin DOMAIN HistoryRow(Symbols, day)
    BY DEF MissingPrices
  <2>4. <<s, day>> \notin candles
    BY <2>3 DEF HistoryRow
  <2>5. day \in Dates
    BY <2>1 DEF Base, TypeOK
  <2> QED
    BY <2>2, <2>3, <2>4, <2>5 DEF Priced, AllOrNone
<1>2. Init => Priced
  BY DEF Init, Priced, AllOrNone, BackfillLabels
<1> QED
  BY <1>1, <1>2, PricedStep, BaseHolds, PTL DEF Spec
=============================================================================
