------------------------ MODULE CostAverageOutProofs ------------------------
(***************************************************************************)
(* Proofs about CostAverageOut, for every choice of its constants.         *)
(***************************************************************************)
EXTENDS CostAverageOut, WellFoundedInduction, SequenceTheorems, TLAPS

\* The next item of a submission loop exists: a nonempty set of symbols, which
\* are positions in the allowlist, has a least element.
LEMMA LeastItem ==
    ASSUME NEW S, S \subseteq Symbols, S # {}
    PROVE  Least(S) \in S
<1>1. S \subseteq Nat
  BY SymbolsAssumption DEF Symbols
<1>2. PICK x \in S : \A y \in S : ~ (<<y, x>> \in OpToRel(<, Nat))
  BY <1>1, NatLessThanWellFounded, WFMin
<1>3. \A y \in S : ~ (y < x)
  BY <1>1, <1>2 DEF OpToRel
<1>4. \A y \in S : x <= y
  BY <1>1, <1>3
<1> QED
  BY <1>4 DEF Least

\* The locals of a process that is not running have their type, meet what the
\* label "idle" asks of them and execute no cycle.
LEMMA NoJobTyped == IsJob(NoJob) /\ LocalsAt("idle", NoJob) /\ ~ExecutingAt("idle", NoJob)
<1>1. IsJob(NoJob)
  BY DEF IsJob, NoJob, Rows, OrderStatuses, UnresolvedStatuses, NoOid, NoDay, NoDate, NoSymbol
<1> QED
  BY <1>1 DEF LocalsAt, ExecutingAt, SellLabels, LoopLabels, ReconcileLabels

-----------------------------------------------------------------------------
(* Types: what one operation keeps.                                        *)

\* A process that goes on to a label with locals of their type leaves the
\* control state typed, if the exchange only gains orders.
LEMMA ProcessesStay ==
    ASSUME ProcessesTyped, NEW p \in Procs, NEW label \in Labels, NEW locals,
           Continue(p, label, locals), IsJob(locals), Oids \subseteq Oids',
           reported' \in BOOLEAN, config' = config
    PROVE  ProcessesTyped'
  BY DEF ProcessesTyped, Continue, Goto, IsJob

\* The same for a process that ends, or goes on with its locals unchanged.
LEMMA ProcessesEnd ==
    ASSUME ProcessesTyped, NEW p \in Procs, End(p), Oids \subseteq Oids',
           reported' \in BOOLEAN, config' = config
    PROVE  ProcessesTyped'
  BY NoJobTyped, ProcessesStay DEF End, Labels

\* The same for a process that goes on to a label with its locals unchanged.
LEMMA ProcessesGoOn ==
    ASSUME ProcessesTyped, NEW p \in Procs, NEW label \in Labels,
           Goto(p, label), UNCHANGED job, Oids \subseteq Oids',
           reported' \in BOOLEAN, config' = config
    PROVE  ProcessesTyped'
  BY DEF ProcessesTyped, Goto, IsJob

\* create_cycle_with_orders keeps the ledger typed and adds its one cycle.
LEMMA CreateTyped ==
    ASSUME LedgerTyped, NEW cycle \in CycleIds, NEW plan,
           DOMAIN plan \subseteq Symbols,
           \A symbol \in DOMAIN plan : plan[symbol] \in PlanStatuses,
           CreateCycleWithOrders(cycle, plan)
    PROVE  LedgerTyped' /\ DOMAIN cycles' = DOMAIN cycles \union {cycle}
  BY CycleAssumption DEF LedgerTyped, CreateCycleWithOrders, Put, CycleStates, PlannedStates

\* set_cycle_status keeps the ledger typed and its cycles the same.
LEMMA CycleStatusTyped ==
    ASSUME LedgerTyped, NEW cycle \in DOMAIN cycles, NEW status \in CycleStates,
           SetCycleStatus(cycle, status)
    PROVE  LedgerTyped' /\ DOMAIN cycles' = DOMAIN cycles
  BY DEF LedgerTyped, SetCycleStatus

\* update_planned_order_status keeps the ledger typed and its cycles the same.
LEMMA PlannedStatusTyped ==
    ASSUME LedgerTyped, NEW cycle \in DOMAIN cycles, NEW symbol, NEW status \in PlannedStates,
           UpdatePlannedOrderStatus(cycle, symbol, status)
    PROVE  LedgerTyped' /\ DOMAIN cycles' = DOMAIN cycles
  BY DEF LedgerTyped, UpdatePlannedOrderStatus

\* register_exchange_order keeps the ledger typed and its cycles the same.
LEMMA RegisterTyped ==
    ASSUME LedgerTyped, NEW key \in SellKeys, NEW oid \in Nat, NEW status \in OrderStatuses,
           RegisterExchangeOrder(key, oid, status)
    PROVE  LedgerTyped' /\ DOMAIN cycles' = DOMAIN cycles
  BY DEF LedgerTyped, RegisterExchangeOrder, Put, Rows

\* record_activation keeps the ledger typed.
LEMMA ActivationTyped ==
    ASSUME LedgerTyped, NEW date \in Days, RecordActivation(date)
    PROVE  LedgerTyped' /\ DOMAIN cycles' = DOMAIN cycles /\ activation' \in Days
  BY DEF LedgerTyped, RecordActivation

\* Recording keeps the ledger typed: a matched row takes the id and the status
\* of an order that was seen.
LEMMA ReconciliationTyped ==
    ASSUME LedgerTyped, NEW seen, NEW trades,
           DOMAIN seen \subseteq Nat,
           \A oid \in DOMAIN seen : seen[oid] \in OrderStatuses,
           trades \subseteq Nat \X Days,
           RecordReconciliation(seen, trades)
    PROVE  LedgerTyped' /\ DOMAIN cycles' = DOMAIN cycles /\ DOMAIN rows' = DOMAIN rows
<1>1. ASSUME NEW key \in DOMAIN rows
      PROVE  ReconciledRows(seen)[key] \in Rows
  <2> DEFINE found == {oid \in DOMAIN seen : FindExchangeOrder(key, oid)}
  <2>1. CASE found = {}
    BY <2>1, <1>1 DEF ReconciledRows, LedgerTyped
  <2>2. CASE found # {}
    <3>1. PICK oid \in found : ReconciledRows(seen)[key] = [oid |-> oid, status |-> seen[oid]]
      BY <2>2, <1>1 DEF ReconciledRows
    <3> QED
      BY <3>1 DEF Rows
  <2> QED
    BY <2>1, <2>2
<1>2. rows' = ReconciledRows(seen) /\ DOMAIN rows' = DOMAIN rows
  BY DEF RecordReconciliation, ReconciledRows
<1>3. fills' \subseteq Nat \X Days
  BY DEF RecordReconciliation, RecordedFills, LedgerTyped
<1> QED
  BY <1>1, <1>2, <1>3 DEF RecordReconciliation, LedgerTyped

-----------------------------------------------------------------------------
(* Steps that leave cycles, planned orders and order keys as they are.     *)

\* What a process may become without touching another's cycle: it executes only
\* the cycle it executed, with no more to submit, and the same item in hand.
Narrows(p, label, locals) ==
    ExecutingAt(label, locals) =>
        /\ Executing(p)
        /\ locals.cycle = job[p].cycle
        /\ locals.todo \subseteq job[p].todo
        /\ label \in LoopLabels => pc[p] \in LoopLabels /\ locals.item = job[p].item

Rest == LocalsSet /\ CyclesOwned /\ ItemsPlanned /\ OrdersOffered /\ NoDoubleSell

SameKeys == Oids' = Oids /\ \A oid \in Oids : orders'[oid].key = orders[oid].key

\* A step of the abstract specification, or none.
SellsStep == [Once!OnceNext]_(Once!onceVars)

\* What is proved of every step.
GoodStep == TypeOK' /\ Rest' /\ SellsStep

\* A step that changes no plan, no set of cycles and no order's key is a stutter
\* of SellOnce.
LEMMA SameSells ==
    ASSUME SameKeys, planned' = planned, simulated' = simulated, DOMAIN cycles' = DOMAIN cycles
    PROVE  SellsStep
<1>1. Placed' = Placed
  BY DEF Placed, SameKeys
<1>2. Offered' = Offered
  BY DEF Offered, Offers
<1> QED
  BY <1>1, <1>2 DEF SellsStep, Once!onceVars

\* The rest of the invariant survives a step that adds no cycle and no order, if
\* the process that takes it comes to execute no cycle it did not execute before.
LEMMA RestStays ==
    ASSUME TypeOK, Rest, NEW p \in Procs, NEW label \in Labels, NEW locals,
           Continue(p, label, locals), LocalsAt(label, locals), Narrows(p, label, locals),
           SameKeys, planned' = planned, simulated' = simulated, DOMAIN cycles' = DOMAIN cycles
    PROVE  Rest' /\ SellsStep
<1>1. /\ pc'[p] = label /\ job'[p] = locals
      /\ \A q \in Procs \ {p} : pc'[q] = pc[q] /\ job'[q] = job[q]
  BY DEF TypeOK, ProcessesTyped, Continue, Goto
<1>2. LocalsSet'
  BY <1>1 DEF Rest, LocalsSet, LocalsAt, PlannedItems
<1>3. /\ \A q \in Procs \ {p} : Executing(q)' = Executing(q)
      /\ Executing(p)' = ExecutingAt(label, locals)
  BY <1>1 DEF Executing, ExecutingAt
<1>4. CyclesOwned'
  BY <1>1, <1>3 DEF Rest, CyclesOwned, Narrows
<1>5. \A cycle : Offers(cycle)' = Offers(cycle)
  BY DEF Offers
<1>6. ItemsPlanned'
  <2> SUFFICES ASSUME NEW q \in Procs, Executing(q)'
               PROVE  /\ \A symbol \in job'[q].todo :
                             /\ symbol \in DOMAIN planned[job'[q].cycle]
                             /\ planned[job'[q].cycle][symbol] = "planned"
                             /\ \A oid \in Oids : orders[oid].key # <<job'[q].cycle, symbol>>
                      /\ pc'[q] \in LoopLabels =>
                             /\ job'[q].item \in Offers(job'[q].cycle)
                             /\ job'[q].item \notin job'[q].todo
    BY <1>5 DEF ItemsPlanned, SameKeys
  <2>1. /\ Executing(q) /\ job'[q].cycle = job[q].cycle /\ job'[q].todo \subseteq job[q].todo
        /\ pc'[q] \in LoopLabels => pc[q] \in LoopLabels /\ job'[q].item = job[q].item
    BY <1>1, <1>3 DEF Narrows
  <2> QED
    BY <2>1 DEF Rest, ItemsPlanned
<1>7. OrdersOffered'
  BY <1>5 DEF Rest, OrdersOffered, SameKeys
<1>8. NoDoubleSell'
  BY DEF Rest, NoDoubleSell, SameKeys
<1> QED
  BY <1>2, <1>4, <1>6, <1>7, <1>8, SameSells DEF Rest

\* A step of one process that at most writes rows, fills, activation or the
\* status of a cycle that is there.
LEMMA LedgerStep ==
    ASSUME TypeOK, Rest, NEW p \in Procs, NEW label \in Labels, NEW locals,
           Continue(p, label, locals), IsJob(locals), LocalsAt(label, locals),
           Narrows(p, label, locals), reported' \in BOOLEAN,
           LedgerTyped', planned' = planned, DOMAIN cycles' = DOMAIN cycles,
           UNCHANGED <<exchangeVars, config, simulated>>
    PROVE  GoodStep
<1>1. SameKeys
  BY DEF SameKeys, Oids, exchangeVars
<1>2. ProcessesTyped'
  BY <1>1, ProcessesStay DEF SameKeys, TypeOK
<1>3. TypeOK'
  BY <1>2 DEF TypeOK, ExchangeTyped, exchangeVars
<1> QED
  BY <1>1, <1>3, RestStays DEF GoodStep

\* A step of one process that only changes its own locals.
LEMMA LocalStep ==
    ASSUME TypeOK, Rest, NEW p \in Procs, NEW label \in Labels, NEW locals,
           Continue(p, label, locals), IsJob(locals), LocalsAt(label, locals),
           Narrows(p, label, locals), reported' \in BOOLEAN,
           UNCHANGED <<exchangeVars, ledgerVars, config, simulated>>
    PROVE  GoodStep
<1>1. LedgerTyped' /\ planned' = planned /\ DOMAIN cycles' = DOMAIN cycles
  BY DEF TypeOK, LedgerTyped, ledgerVars
<1> QED
  BY <1>1, LedgerStep

\* A process may end anywhere: what it leaves in the ledger is a state the other
\* processes already had to live with.
LEMMA EndStep ==
    ASSUME TypeOK, Rest, NEW p \in Procs, End(p), reported' \in BOOLEAN,
           LedgerTyped', planned' = planned, DOMAIN cycles' = DOMAIN cycles,
           UNCHANGED <<exchangeVars, config, simulated>>
    PROVE  GoodStep
  BY NoJobTyped, LedgerStep DEF End, Labels, Narrows

\* A step that leaves the ledger alone leaves it typed.
LEMMA LedgerKept ==
    ASSUME LedgerTyped, UNCHANGED ledgerVars
    PROVE  LedgerTyped' /\ planned' = planned /\ DOMAIN cycles' = DOMAIN cycles
  BY DEF LedgerTyped, ledgerVars

-----------------------------------------------------------------------------
(* The steps of a run before it has created its cycle.                     *)

\* A program starts: a live run, a dry run or a reconciliation.
LEMMA StartStep ==
    ASSUME TypeOK, Rest, NEW p \in Procs, Start(p)
    PROVE  GoodStep
<1>1. /\ reported' \in BOOLEAN
      /\ UNCHANGED <<exchangeVars, ledgerVars, config, simulated>>
  BY DEF Start, StartLive, StartDry, StartReconcile, TypeOK, ProcessesTyped
<1>2. config \in Configs /\ today \in Days /\ EvaluationDays \subseteq Days
  BY DEF TypeOK, ProcessesTyped, ExchangeTyped, EvaluationDays
<1>3. CASE StartLive(p)
  <2>1. PICK day \in EvaluationDays, confirm \in Confirmations :
            Continue(p, "activate", [NoJob EXCEPT !.cfg = config, !.day = day, !.confirm = confirm])
    BY <1>3 DEF StartLive
  <2>2. PICK j : j = [NoJob EXCEPT !.cfg = config, !.day = day, !.confirm = confirm]
    OBVIOUS
  <2>3. IsJob(j) /\ j.cfg = config /\ j.day = day
    BY <1>2, <2>2, NoJobTyped, CycleAssumption DEF IsJob, NoJob
  <2>4. "activate" \in Labels /\ LocalsAt("activate", j) /\ Narrows(p, "activate", j)
    BY <1>2, <2>3 DEF Labels, LocalsAt, Narrows, ExecutingAt, SellLabels, LoopLabels,
                      ReconcileLabels
  <2> QED
    BY <1>1, <2>1, <2>2, <2>3, <2>4, LocalStep
<1>4. CASE StartDry(p)
  <2>1. PICK day \in EvaluationDays :
            Continue(p, "dry", [NoJob EXCEPT !.cfg = config, !.day = day])
    BY <1>4 DEF StartDry
  <2>2. PICK j : j = [NoJob EXCEPT !.cfg = config, !.day = day]
    OBVIOUS
  <2>3. IsJob(j) /\ j.cfg = config /\ j.day = day
    BY <1>2, <2>2, NoJobTyped DEF IsJob, NoJob
  <2>4. "dry" \in Labels /\ LocalsAt("dry", j) /\ Narrows(p, "dry", j)
    BY <1>2, <2>3 DEF Labels, LocalsAt, Narrows, ExecutingAt, SellLabels, LoopLabels,
                      ReconcileLabels
  <2> QED
    BY <1>1, <2>1, <2>2, <2>3, <2>4, LocalStep
<1>5. CASE StartReconcile(p)
  <2>1. PICK lookback \in Lookbacks :
            Continue(p, "fetch_open",
                     [NoJob EXCEPT !.cfg = config, !.day = today, !.since = today - lookback])
    BY <1>5 DEF StartReconcile
  <2>2. today - lookback \in Int
    BY <1>2, ExchangeAssumption, LookbacksAssumption
  <2>3. PICK j : j = [NoJob EXCEPT !.cfg = config, !.day = today, !.since = today - lookback]
    OBVIOUS
  <2>4. IsJob(j) /\ j.cfg = config /\ j.day = today /\ j.cycle = NoCycle
    BY <1>2, <2>2, <2>3, NoJobTyped DEF IsJob, NoJob
  <2>5. "fetch_open" \in Labels /\ LocalsAt("fetch_open", j) /\ Narrows(p, "fetch_open", j)
    BY <1>2, <2>4 DEF Labels, LocalsAt, Narrows, ExecutingAt, SellLabels, LoopLabels,
                      ReconcileLabels
  <2> QED
    BY <1>1, <2>1, <2>3, <2>4, <2>5, LocalStep
<1> QED
  BY <1>3, <1>4, <1>5 DEF Start

\* No run executes a cycle at these labels.
EarlyLabels == {"activate", "record_activation", "gate", "preview", "create", "dry", "simulate"}

\* A step of a run that has no cycle yet, to a label where it still has none.
LEMMA EarlyStep ==
    ASSUME TypeOK, Rest, NEW p \in Procs, NEW label \in EarlyLabels, NEW locals,
           Continue(p, label, locals), IsJob(locals), LocalsAt(label, locals),
           reported' \in BOOLEAN, LedgerTyped', planned' = planned, DOMAIN cycles' = DOMAIN cycles,
           UNCHANGED <<exchangeVars, config, simulated>>
    PROVE  GoodStep
<1>1. label \in Labels /\ Narrows(p, label, locals)
  BY DEF EarlyLabels, Labels, Narrows, ExecutingAt, SellLabels, LoopLabels, ReconcileLabels
<1> QED
  BY <1>1, LedgerStep

\* The locals of a running process.
LEMMA RunningJob ==
    ASSUME TypeOK, Rest, NEW p \in Procs, pc[p] # "idle"
    PROVE  IsJob(job[p]) /\ job[p].cfg \in Configs /\ job[p].day \in Days
  BY DEF TypeOK, ProcessesTyped, Rest, LocalsSet, LocalsAt

\* A run reads the stored activation or evaluates the condition.
LEMMA ActivateStep ==
    ASSUME TypeOK, Rest, NEW p \in Procs, Activate(p)
    PROVE  GoodStep
<1>1. /\ reported' \in BOOLEAN
      /\ LedgerTyped' /\ planned' = planned /\ DOMAIN cycles' = DOMAIN cycles
      /\ UNCHANGED <<exchangeVars, config, simulated>>
  BY LedgerKept DEF Activate, TypeOK, ProcessesTyped
<1>2. IsJob(job[p]) /\ job[p].cfg \in Configs /\ job[p].day \in Days
  BY RunningJob DEF Activate
<1>3. CASE activation # NotActivated
  <2>1. PICK j : j = [job[p] EXCEPT !.start = activation]
    OBVIOUS
  <2>2. activation \in Days /\ Continue(p, "gate", j)
    BY <1>3, <2>1 DEF Activate, TypeOK, LedgerTyped
  <2>3. IsJob(j) /\ j.cfg = job[p].cfg /\ j.day = job[p].day /\ j.start \in Days
    BY <1>2, <2>1, <2>2 DEF IsJob
  <2>4. "gate" \in EarlyLabels /\ LocalsAt("gate", j)
    BY <1>2, <2>3 DEF EarlyLabels, LocalsAt
  <2> QED
    BY <1>1, <2>2, <2>3, <2>4, EarlyStep
<1>4. CASE Continue(p, "record_activation", job[p])
  <2>1. PICK j : j = job[p]
    OBVIOUS
  <2>2. "record_activation" \in EarlyLabels /\ LocalsAt("record_activation", j)
    BY <1>2, <2>1 DEF EarlyLabels, LocalsAt
  <2> QED
    BY <1>1, <1>2, <1>4, <2>1, <2>2, EarlyStep
<1>5. CASE End(p)
  BY <1>1, <1>5, EndStep
<1> QED
  BY <1>3, <1>4, <1>5 DEF Activate

\* A run stores its activation and reads back the one that stands.
LEMMA PersistActivationStep ==
    ASSUME TypeOK, Rest, NEW p \in Procs, PersistActivation(p)
    PROVE  GoodStep
<1>1. IsJob(job[p]) /\ job[p].cfg \in Configs /\ job[p].day \in Days
  BY RunningJob DEF PersistActivation
<1>2. LedgerTyped' /\ DOMAIN cycles' = DOMAIN cycles /\ activation' \in Days
  BY <1>1, ActivationTyped DEF PersistActivation, TypeOK
<1>3. /\ reported' \in BOOLEAN /\ planned' = planned
      /\ UNCHANGED <<exchangeVars, config, simulated>>
  BY DEF PersistActivation, RecordActivation, TypeOK, ProcessesTyped
<1>4. PICK j : j = [job[p] EXCEPT !.start = activation']
  OBVIOUS
<1>5. IsJob(j) /\ j.cfg = job[p].cfg /\ j.day = job[p].day /\ j.start \in Days
  BY <1>1, <1>2, <1>4 DEF IsJob
<1>6. "gate" \in EarlyLabels /\ LocalsAt("gate", j)
  BY <1>1, <1>5 DEF EarlyLabels, LocalsAt
<1>7. Continue(p, "gate", j)
  BY <1>4 DEF PersistActivation
<1> QED
  BY <1>2, <1>3, <1>5, <1>6, <1>7, EarlyStep

\* A run passes the gates of live trading or ends.
LEMMA PassGatesStep ==
    ASSUME TypeOK, Rest, NEW p \in Procs, PassGates(p)
    PROVE  GoodStep
<1>1. /\ reported' \in BOOLEAN
      /\ LedgerTyped' /\ planned' = planned /\ DOMAIN cycles' = DOMAIN cycles
      /\ UNCHANGED <<exchangeVars, config, simulated>>
  BY LedgerKept DEF PassGates, TypeOK, ProcessesTyped
<1>2. /\ IsJob(job[p]) /\ job[p].cfg \in Configs /\ job[p].day \in Days
      /\ job[p].start \in Days
  BY RunningJob DEF PassGates, Rest, LocalsSet, LocalsAt
<1>3. PICK cycle : cycle = EvaluatedCycle(job[p].cfg, job[p].start, job[p].day)
  OBVIOUS
<1>4. cycle \in CycleIds
  BY <1>2, <1>3 DEF CycleIds
<1>5. CASE Continue(p, "preview", [job[p] EXCEPT !.cycle = cycle])
  <2>1. PICK j : j = [job[p] EXCEPT !.cycle = cycle]
    OBVIOUS
  <2>2. IsJob(j) /\ j.cfg = job[p].cfg /\ j.day = job[p].day /\ j.cycle = cycle
    BY <1>2, <1>4, <2>1 DEF IsJob
  <2>3. "preview" \in EarlyLabels /\ LocalsAt("preview", j)
    BY <1>2, <1>4, <2>2 DEF EarlyLabels, LocalsAt
  <2> QED
    BY <1>1, <1>5, <2>1, <2>2, <2>3, EarlyStep
<1>6. CASE End(p)
  BY <1>1, <1>6, EndStep
<1> QED
  BY <1>3, <1>5, <1>6 DEF PassGates

\* A run whose plan may execute goes on with it.
LEMMA PreviewStep ==
    ASSUME TypeOK, Rest, NEW p \in Procs, Preview(p)
    PROVE  GoodStep
<1>1. /\ reported' \in BOOLEAN
      /\ LedgerTyped' /\ planned' = planned /\ DOMAIN cycles' = DOMAIN cycles
      /\ UNCHANGED <<exchangeVars, config, simulated>>
  BY LedgerKept DEF Preview, TypeOK, ProcessesTyped
<1>2. /\ IsJob(job[p]) /\ job[p].cfg \in Configs /\ job[p].day \in Days
      /\ job[p].cycle \in CycleIds
  BY RunningJob DEF Preview, Rest, LocalsSet, LocalsAt
<1>3. PICK plan \in SellPlans(job[p].cfg) :
          IF MayExecute(plan)
          THEN Continue(p, "create", [job[p] EXCEPT !.plan = plan])
          ELSE End(p)
  BY DEF Preview
<1>4. CASE MayExecute(plan)
  <2>1. PICK j : j = [job[p] EXCEPT !.plan = plan]
    OBVIOUS
  <2>2. /\ DOMAIN plan \subseteq Symbols
        /\ \A symbol \in DOMAIN plan : plan[symbol] \in PlanStatuses
    BY <1>2 DEF SellPlans, Symbols
  <2>3. /\ IsJob(j) /\ j.cfg = job[p].cfg /\ j.day = job[p].day /\ j.cycle = job[p].cycle
        /\ j.plan = plan
    BY <1>2, <2>1, <2>2 DEF IsJob
  <2>4. "create" \in EarlyLabels /\ LocalsAt("create", j)
    BY <1>2, <1>4, <2>3 DEF EarlyLabels, LocalsAt, MayExecute
  <2> QED
    BY <1>1, <1>3, <1>4, <2>1, <2>3, <2>4, EarlyStep
<1>5. CASE ~MayExecute(plan)
  BY <1>1, <1>3, <1>5, EndStep
<1> QED
  BY <1>4, <1>5

\* A dry run plans the cycle that is due.
LEMMA DryPreviewStep ==
    ASSUME TypeOK, Rest, NEW p \in Procs, DryPreview(p)
    PROVE  GoodStep
<1>1. /\ reported' \in BOOLEAN
      /\ LedgerTyped' /\ planned' = planned /\ DOMAIN cycles' = DOMAIN cycles
      /\ UNCHANGED <<exchangeVars, config, simulated>>
  BY LedgerKept DEF DryPreview, TypeOK, ProcessesTyped
<1>2. IsJob(job[p]) /\ job[p].cfg \in Configs /\ job[p].day \in Days
  BY RunningJob DEF DryPreview
<1>3. CASE End(p)
  BY <1>1, <1>3, EndStep
<1>4. CASE \E start \in Days, plan \in SellPlans(job[p].cfg) :
             Continue(p, "simulate", [job[p] EXCEPT
                 !.plan = plan, !.cycle = EvaluatedCycle(job[p].cfg, start, job[p].day)])
  <2>1. PICK start \in Days, plan \in SellPlans(job[p].cfg) :
             Continue(p, "simulate", [job[p] EXCEPT
                 !.plan = plan, !.cycle = EvaluatedCycle(job[p].cfg, start, job[p].day)])
    BY <1>4
  <2>2. PICK cycle : cycle = EvaluatedCycle(job[p].cfg, start, job[p].day)
    OBVIOUS
  <2>3. PICK j : j = [job[p] EXCEPT !.plan = plan, !.cycle = cycle]
    OBVIOUS
  <2>4. /\ cycle \in CycleIds /\ DOMAIN plan \subseteq Symbols
        /\ \A symbol \in DOMAIN plan : plan[symbol] \in PlanStatuses
    BY <1>2, <2>2 DEF CycleIds, SellPlans, Symbols
  <2>5. IsJob(j) /\ j.cfg = job[p].cfg /\ j.day = job[p].day /\ j.cycle = cycle
    BY <1>2, <2>3, <2>4 DEF IsJob
  <2>6. "simulate" \in EarlyLabels /\ LocalsAt("simulate", j)
    BY <1>2, <2>4, <2>5 DEF EarlyLabels, LocalsAt
  <2>7. Continue(p, "simulate", j)
    BY <2>1, <2>2, <2>3
  <2> QED
    BY <1>1, <2>5, <2>6, <2>7, EarlyStep
<1>5. CASE activation # NotActivated
  BY <1>3, <1>4, <1>5 DEF DryPreview, TypeOK, LedgerTyped
<1>6. CASE activation = NotActivated
  BY <1>2, <1>3, <1>4, <1>6 DEF DryPreview
<1> QED
  BY <1>5, <1>6

-----------------------------------------------------------------------------
(* reconcile().                                                            *)

\* A run that goes on reconciling executes the cycle it executed, if any.
LEMMA ReconcilingStep ==
    ASSUME TypeOK, Rest, NEW p \in Procs, NEW label \in ReconcileLabels, NEW locals,
           pc[p] \in ReconcileLabels, Continue(p, label, locals), IsJob(locals),
           locals.cfg = job[p].cfg, locals.day = job[p].day,
           locals.cycle = job[p].cycle, locals.todo = job[p].todo,
           reported' \in BOOLEAN, LedgerTyped', planned' = planned, DOMAIN cycles' = DOMAIN cycles,
           UNCHANGED <<exchangeVars, config, simulated>>
    PROVE  GoodStep
<1>1. job[p].cfg \in Configs /\ job[p].day \in Days
  BY RunningJob DEF ReconcileLabels
<1>2. label \in Labels /\ LocalsAt(label, locals)
  BY <1>1 DEF Labels, ReconcileLabels, LocalsAt
<1>3. label \notin SellLabels
  BY DEF ReconcileLabels, SellLabels, LoopLabels
<1>4. label \notin LoopLabels
  BY DEF ReconcileLabels, LoopLabels
<1>5. Narrows(p, label, locals)
  BY <1>3, <1>4 DEF Narrows, Executing, ExecutingAt
<1> QED
  BY <1>2, <1>5, LedgerStep

\* reconcile() fetches the open orders.
LEMMA FetchOpenStep ==
    ASSUME TypeOK, Rest, NEW p \in Procs, FetchOpen(p), UNCHANGED simulated
    PROVE  GoodStep
<1>1. /\ reported' \in BOOLEAN
      /\ LedgerTyped' /\ planned' = planned /\ DOMAIN cycles' = DOMAIN cycles
      /\ UNCHANGED <<exchangeVars, config, simulated>>
  BY LedgerKept DEF FetchOpen, TypeOK, ProcessesTyped
<1>2. PICK seen : seen = FetchOpenOrders(job[p].cfg.symbols)
  OBVIOUS
<1>3. DOMAIN seen \subseteq Oids /\ \A oid \in DOMAIN seen : seen[oid] \in OrderStatuses
  BY <1>2 DEF FetchOpenOrders, NormalizeOrder, OrderStatuses, UnresolvedStatuses, FinalStatuses
<1>4. PICK j : j = [job[p] EXCEPT !.seen = seen]
  OBVIOUS
<1>5. IsJob(job[p])
  BY RunningJob DEF FetchOpen
<1>6. /\ IsJob(j) /\ j.cfg = job[p].cfg /\ j.day = job[p].day
      /\ j.cycle = job[p].cycle /\ j.todo = job[p].todo
  BY <1>3, <1>4, <1>5 DEF IsJob
<1>7. /\ Continue(p, "fetch_recent", j)
      /\ pc[p] \in ReconcileLabels /\ "fetch_recent" \in ReconcileLabels
  BY <1>2, <1>4 DEF FetchOpen, ReconcileLabels
<1> QED
  BY <1>1, <1>6, <1>7, ReconcilingStep

\* reconcile() fetches the orders closed recently.
LEMMA FetchRecentStep ==
    ASSUME TypeOK, Rest, NEW p \in Procs, FetchRecent(p), UNCHANGED simulated
    PROVE  GoodStep
<1>1. /\ reported' \in BOOLEAN
      /\ LedgerTyped' /\ planned' = planned /\ DOMAIN cycles' = DOMAIN cycles
      /\ UNCHANGED <<exchangeVars, config, simulated>>
  BY LedgerKept DEF FetchRecent, TypeOK, ProcessesTyped
<1>2. IsJob(job[p])
  BY RunningJob DEF FetchRecent
<1>3. PICK recent : recent = FetchRecentOrders(job[p].cfg.symbols, job[p].since)
  OBVIOUS
<1>4. DOMAIN recent \subseteq Oids /\ \A oid \in DOMAIN recent : recent[oid] \in OrderStatuses
  BY <1>3 DEF FetchRecentOrders, NormalizeOrder, OrderStatuses, UnresolvedStatuses, FinalStatuses
<1>5. PICK seen : seen = Deduplicate(job[p].seen, recent)
  OBVIOUS
<1>6. DOMAIN seen \subseteq Oids /\ \A oid \in DOMAIN seen : seen[oid] \in OrderStatuses
  BY <1>2, <1>4, <1>5 DEF Deduplicate, IsJob
<1>7. PICK j : j = [job[p] EXCEPT !.seen = seen]
  OBVIOUS
<1>8. /\ IsJob(j) /\ j.cfg = job[p].cfg /\ j.day = job[p].day
      /\ j.cycle = job[p].cycle /\ j.todo = job[p].todo
  BY <1>2, <1>6, <1>7 DEF IsJob
<1>9. /\ Continue(p, "fetch_fills", j)
      /\ pc[p] \in ReconcileLabels /\ "fetch_fills" \in ReconcileLabels
  BY <1>3, <1>5, <1>7 DEF FetchRecent, ReconcileLabels
<1> QED
  BY <1>1, <1>8, <1>9, ReconcilingStep

\* reconcile() fetches the fills.
LEMMA FetchFillsStep ==
    ASSUME TypeOK, Rest, NEW p \in Procs, FetchFills(p), UNCHANGED simulated
    PROVE  GoodStep
<1>1. /\ reported' \in BOOLEAN
      /\ LedgerTyped' /\ planned' = planned /\ DOMAIN cycles' = DOMAIN cycles
      /\ UNCHANGED <<exchangeVars, config, simulated>>
  BY LedgerKept DEF FetchFills, TypeOK, ProcessesTyped
<1>2. IsJob(job[p])
  BY RunningJob DEF FetchFills
<1>3. PICK trades : trades = FetchRecentFills(job[p].cfg.symbols, job[p].since)
  OBVIOUS
<1>4. trades \subseteq Oids \X Days
  BY <1>3 DEF FetchRecentFills
<1>5. PICK j : j = [job[p] EXCEPT !.trades = trades]
  OBVIOUS
<1>6. /\ IsJob(j) /\ j.cfg = job[p].cfg /\ j.day = job[p].day
      /\ j.cycle = job[p].cycle /\ j.todo = job[p].todo
  BY <1>2, <1>4, <1>5 DEF IsJob
<1>7. /\ Continue(p, "record", j)
      /\ pc[p] \in ReconcileLabels /\ "record" \in ReconcileLabels
  BY <1>3, <1>5 DEF FetchFills, ReconcileLabels
<1> QED
  BY <1>1, <1>6, <1>7, ReconcilingStep

\* reconcile() records what it fetched.
LEMMA RecordStep ==
    ASSUME TypeOK, Rest, NEW p \in Procs, Record(p), UNCHANGED simulated
    PROVE  GoodStep
<1>1. IsJob(job[p])
  BY RunningJob DEF Record
<1>2. Oids \subseteq Nat
  BY DEF TypeOK, ExchangeTyped, Oids
<1>3. LedgerTyped' /\ DOMAIN cycles' = DOMAIN cycles
  BY <1>1, <1>2, ReconciliationTyped DEF Record, IsJob, TypeOK
<1>4. /\ reported' \in BOOLEAN /\ planned' = planned
      /\ UNCHANGED <<exchangeVars, config, simulated>>
  BY DEF Record, RecordReconciliation, TypeOK, ProcessesTyped
<1>5. PICK j : j = [job[p] EXCEPT !.trades = {}]
  OBVIOUS
<1>6. /\ IsJob(j) /\ j.cfg = job[p].cfg /\ j.day = job[p].day
      /\ j.cycle = job[p].cycle /\ j.todo = job[p].todo
  BY <1>1, <1>5 DEF IsJob
<1>7. /\ Continue(p, "summarise", j)
      /\ pc[p] \in ReconcileLabels /\ "summarise" \in ReconcileLabels
  BY <1>5 DEF Record, ReconcileLabels
<1> QED
  BY <1>3, <1>4, <1>6, <1>7, ReconcilingStep

\* reconcile() ends, and a run goes on to finish its cycle.
LEMMA SummariseStep ==
    ASSUME TypeOK, Rest, NEW p \in Procs, Summarise(p), UNCHANGED simulated
    PROVE  GoodStep
<1>1. /\ LedgerTyped' /\ planned' = planned /\ DOMAIN cycles' = DOMAIN cycles
      /\ UNCHANGED <<exchangeVars, config, simulated>>
  BY LedgerKept DEF Summarise, TypeOK
<1>2. reported' \in BOOLEAN
  BY DEF Summarise, ExecutionBlocked
<1>3. CASE job[p].cycle = NoCycle
  BY <1>1, <1>2, <1>3, EndStep DEF Summarise
<1>4. CASE job[p].cycle # NoCycle
  <2>1. PICK j : j = [job[p] EXCEPT !.seen = << >>]
    OBVIOUS
  <2>2. IsJob(job[p]) /\ job[p].cfg \in Configs /\ job[p].day \in Days
    BY RunningJob DEF Summarise
  <2>3. /\ IsJob(j) /\ j.cfg = job[p].cfg /\ j.day = job[p].day
        /\ j.cycle = job[p].cycle /\ j.todo = job[p].todo
    BY <2>1, <2>2 DEF IsJob
  <2>4. PICK label \in {"finish_partial", "finish_completed"} : Continue(p, label, j)
    BY <1>4, <2>1 DEF Summarise
  <2>5. label \in Labels /\ LocalsAt(label, j) /\ label \notin LoopLabels
    BY <2>2, <2>3 DEF Labels, SellLabels, LoopLabels, LocalsAt
  <2>6. Executing(p)
    BY <1>4 DEF Summarise, Executing, ExecutingAt, ReconcileLabels
  <2>7. Narrows(p, label, j)
    BY <2>3, <2>5, <2>6 DEF Narrows
  <2> QED
    BY <1>1, <1>2, <2>3, <2>4, <2>5, <2>7, LedgerStep
<1> QED
  BY <1>3, <1>4

\* Every step of reconcile().
LEMMA ReconcileStepStep ==
    ASSUME TypeOK, Rest, NEW p \in Procs, ReconcileStep(p), UNCHANGED simulated
    PROVE  GoodStep
  BY FetchOpenStep, FetchRecentStep, FetchFillsStep, RecordStep, SummariseStep DEF ReconcileStep

-----------------------------------------------------------------------------
(* Steps of a run that has created its cycle.                              *)

\* A run that has created its cycle has it in the ledger.
LEMMA OwnCycle ==
    ASSUME TypeOK, Rest, NEW p \in Procs, Executing(p)
    PROVE  job[p].cycle \in DOMAIN cycles /\ job[p].cycle \in CycleIds
  BY DEF TypeOK, LedgerTyped, Rest, CyclesOwned

\* A step to a label of the submission loop, or to its start, with the same locals.
LEMMA LoopStep ==
    ASSUME TypeOK, Rest, NEW p \in Procs, NEW label \in Labels,
           Executing(p), pc[p] # "idle", Goto(p, label), UNCHANGED job,
           label \in {"submit"} \union LoopLabels, label = "submit" => job[p].todo # {},
           label \in LoopLabels => pc[p] \in LoopLabels,
           reported' \in BOOLEAN, LedgerTyped', planned' = planned, DOMAIN cycles' = DOMAIN cycles,
           UNCHANGED <<exchangeVars, config, simulated>>
    PROVE  GoodStep
<1>1. PICK j : j = job[p]
  OBVIOUS
<1>2. Continue(p, label, j)
  BY <1>1 DEF Continue, TypeOK, ProcessesTyped
<1>3. IsJob(j) /\ job[p].cfg \in Configs /\ job[p].day \in Days
  BY <1>1, RunningJob
<1>4. LocalsAt(label, j)
  BY <1>1, <1>3 DEF LocalsAt, SellLabels, LoopLabels
<1>5. Narrows(p, label, j)
  BY <1>1 DEF Narrows
<1> QED
  BY <1>2, <1>3, <1>4, <1>5, LedgerStep

\* The row of the order in hand is written, or the run ends on a conflict.
LEMMA RegisterRowStep ==
    ASSUME TypeOK, Rest, NEW p \in Procs, NEW label \in LoopLabels,
           NEW oid, oid \in Nat, NEW status, status \in OrderStatuses,
           pc[p] \in LoopLabels, RegisterRow(p, label, oid, status)
    PROVE  GoodStep
<1>1. /\ reported' \in BOOLEAN
      /\ UNCHANGED <<exchangeVars, config, simulated>>
  BY DEF RegisterRow, TypeOK, ProcessesTyped
<1>2. CASE RegisterConflicts(Key(p), oid)
  <2>1. End(p) /\ LedgerTyped' /\ planned' = planned /\ DOMAIN cycles' = DOMAIN cycles
    BY <1>2, LedgerKept DEF RegisterRow, TypeOK
  <2> QED
    BY <1>1, <2>1, EndStep
<1>3. CASE ~RegisterConflicts(Key(p), oid)
  <2>1. Executing(p) /\ pc[p] # "idle" /\ label \in Labels /\ label # "submit"
    BY DEF Executing, ExecutingAt, SellLabels, LoopLabels, Labels
  <2>2. PICK key : key = Key(p)
    OBVIOUS
  <2>3. key \in SellKeys
    BY <2>1, <2>2, OwnCycle DEF Key, SellKeys, Rest, ItemsPlanned, Offers, TypeOK, LedgerTyped
  <2>4. RegisterExchangeOrder(key, oid, status) /\ Goto(p, label) /\ UNCHANGED job
    BY <1>3, <2>2 DEF RegisterRow
  <2>5. LedgerTyped' /\ DOMAIN cycles' = DOMAIN cycles /\ planned' = planned
    BY <2>3, <2>4, RegisterTyped DEF TypeOK, RegisterExchangeOrder
  <2> QED
    BY <1>1, <2>1, <2>4, <2>5, LoopStep
<1> QED
  BY <1>2, <1>3

\* The cycle is marked as executing before its first item is submitted.
LEMMA MarkExecutingStep ==
    ASSUME TypeOK, Rest, NEW p \in Procs, MarkExecuting(p)
    PROVE  GoodStep
<1>1. Executing(p) /\ "submit" \in Labels /\ "submit" \notin LoopLabels
  BY DEF MarkExecuting, Executing, ExecutingAt, SellLabels, LoopLabels, Labels
<1>2. LedgerTyped' /\ DOMAIN cycles' = DOMAIN cycles
  BY <1>1, OwnCycle, CycleStatusTyped DEF MarkExecuting, TypeOK, CycleStates
<1>3. /\ reported' \in BOOLEAN /\ planned' = planned
      /\ UNCHANGED <<exchangeVars, config, simulated>>
  BY DEF MarkExecuting, SetCycleStatus, TypeOK, ProcessesTyped
<1>4. pc[p] # "idle" /\ Goto(p, "submit") /\ UNCHANGED job /\ job[p].todo # {}
  BY DEF MarkExecuting, Rest, LocalsSet, LocalsAt
<1> QED
  BY <1>1, <1>2, <1>3, <1>4, LoopStep

\* A run sets the final status of its cycle and ends.
LEMMA EndCycleStep ==
    ASSUME TypeOK, Rest, NEW p \in Procs, NEW from \in SellLabels, NEW status \in CycleStates,
           EndCycle(p, from, status)
    PROVE  GoodStep
<1>1. Executing(p)
  BY DEF EndCycle, Executing, ExecutingAt
<1>2. LedgerTyped' /\ DOMAIN cycles' = DOMAIN cycles
  BY <1>1, OwnCycle, CycleStatusTyped DEF EndCycle, TypeOK
<1>3. /\ reported' \in BOOLEAN /\ planned' = planned
      /\ UNCHANGED <<exchangeVars, config, simulated>>
  BY DEF EndCycle, SetCycleStatus, TypeOK, ProcessesTyped
<1>4. End(p)
  BY DEF EndCycle
<1> QED
  BY <1>2, <1>3, <1>4, EndStep

\* A process dies, or one of its reads fails.
LEMMA CrashStep ==
    ASSUME TypeOK, Rest, NEW p \in Procs, Crash(p) \/ FetchFails(p)
    PROVE  GoodStep
<1>1. /\ reported' \in BOOLEAN /\ End(p)
      /\ LedgerTyped' /\ planned' = planned /\ DOMAIN cycles' = DOMAIN cycles
      /\ UNCHANGED <<exchangeVars, config, simulated>>
  BY LedgerKept DEF Crash, FetchFails, TypeOK, ProcessesTyped
<1> QED
  BY <1>1, EndStep

-----------------------------------------------------------------------------
(* The submission of an order.                                             *)

\* The next item of a run at "submit" is one of those left.
LEMMA NextItem ==
    ASSUME TypeOK, Rest, NEW p \in Procs, pc[p] = "submit"
    PROVE  Item(p) \in job[p].todo
  BY LeastItem DEF Item, TypeOK, ProcessesTyped, IsJob, Rest, LocalsSet, LocalsAt

\* The keys of a sequence of orders with one more order.
LEMMA PlacedAppend ==
    ASSUME NEW s \in Seq(Orders), NEW order \in Orders
    PROVE  [i \in DOMAIN Append(s, order) |-> Append(s, order)[i].key]
             = Append([i \in DOMAIN s |-> s[i].key], order.key)
<1> DEFINE keys == [i \in DOMAIN s |-> s[i].key]
           more == [i \in DOMAIN Append(s, order) |-> Append(s, order)[i].key]
<1>1. /\ Len(s) \in Nat /\ DOMAIN s = 1 .. Len(s)
      /\ DOMAIN Append(s, order) = 1 .. Len(s) + 1
      /\ \A i \in 1 .. Len(s) : Append(s, order)[i] = s[i]
      /\ Append(s, order)[Len(s) + 1] = order
  BY AppendProperties
<1>2. \A i \in 1 .. Len(s) : s[i].key \in SellKeys
  <2>1. \A i \in 1 .. Len(s) : s[i] \in Orders
    BY <1>1
  <2> QED
    BY <2>1 DEF Orders
<1>3. order.key \in SellKeys
  BY DEF Orders
<1>4. keys \in Seq(SellKeys) /\ Len(keys) = Len(s)
  BY <1>1, <1>2
<1>5. more \in Seq(SellKeys) /\ Len(more) = Len(s) + 1
  BY <1>1, <1>2, <1>3
<1>6. /\ Append(keys, order.key) \in Seq(SellKeys)
      /\ Len(Append(keys, order.key)) = Len(s) + 1
      /\ \A i \in 1 .. Len(s) : Append(keys, order.key)[i] = keys[i]
      /\ Append(keys, order.key)[Len(s) + 1] = order.key
  BY <1>3, <1>4, AppendProperties
<1>7. \A i \in 1 .. Len(s) + 1 : more[i] = Append(keys, order.key)[i]
  BY <1>1, <1>6
<1> QED
  BY <1>5, <1>6, <1>7, SeqEqual

\* One more order, for the next item of the run that submits it, or none: no
\* other run has that cycle, and the item had no order.
LEMMA SubmitNextStep ==
    ASSUME TypeOK, Rest, NEW p \in Procs,
           NEW label \in {"register", "timeout", "rejected"}, NEW reply, reply \in Rows,
           SubmitNext(p, label, reply), NEW order, order \in Orders,
           order.key = <<job[p].cycle, Item(p)>>,
           orders' = orders \/ orders' = Append(orders, order)
    PROVE  GoodStep
<1>1. /\ pc[p] = "submit"
      /\ reported' = reported /\ config' = config /\ today' = today /\ simulated' = simulated
      /\ cycles' = cycles /\ planned' = planned /\ UNCHANGED ledgerVars
  BY DEF SubmitNext, ledgerVars
<1>2. PICK item : item = Item(p)
  OBVIOUS
<1>3. PICK j : j = [job[p] EXCEPT !.item = item, !.todo = @ \ {item}, !.reply = reply]
  OBVIOUS
<1>4. Continue(p, label, j)
  BY <1>2, <1>3 DEF SubmitNext
<1>5. item \in job[p].todo
  BY <1>1, <1>2, NextItem
<1>6. IsJob(job[p]) /\ job[p].cfg \in Configs /\ job[p].day \in Days
  BY <1>1, RunningJob
<1>7. /\ IsJob(j) /\ j.cfg = job[p].cfg /\ j.day = job[p].day /\ j.cycle = job[p].cycle
      /\ j.item = item /\ j.todo = job[p].todo \ {item}
  BY <1>3, <1>5, <1>6 DEF IsJob
<1>8. /\ Executing(p) /\ label \in Labels /\ label \in LoopLabels /\ LocalsAt(label, j)
      /\ ExecutingAt(label, j)
  BY <1>1, <1>6, <1>7
     DEF Executing, ExecutingAt, SellLabels, LoopLabels, Labels, LocalsAt
<1>9. \/ Oids' = Oids /\ orders' = orders
      \/ /\ Oids' = Oids \union {Len(orders) + 1} /\ Len(orders) + 1 \notin Oids
         /\ \A oid \in Oids : orders'[oid] = orders[oid]
         /\ orders'[Len(orders) + 1] = order
  <2>1. CASE orders' = orders
    BY <2>1 DEF Oids
  <2>2. CASE orders' = Append(orders, order)
    <3>1. orders \in Seq(Orders)
      BY DEF TypeOK, ExchangeTyped
    <3>2. Len(orders) \in Nat /\ DOMAIN orders = 1 .. Len(orders)
      BY <3>1
    <3>3. orders' \in Seq(Orders) /\ Len(orders') = Len(orders) + 1
      BY <2>2, <3>1
    <3>4. DOMAIN orders' = 1 .. Len(orders) + 1
      BY <3>3
    <3>5. \A oid \in 1 .. Len(orders) : orders'[oid] = orders[oid]
      BY <2>2, <3>1
    <3>6. orders'[Len(orders) + 1] = order
      BY <2>2, <3>1
    <3>7. \A n \in Nat : 1 .. n + 1 = (1 .. n) \union {n + 1} /\ n + 1 \notin 1 .. n
      OBVIOUS
    <3>8. /\ Oids = 1 .. Len(orders) /\ Oids' = 1 .. Len(orders) + 1
      BY <3>2, <3>4 DEF Oids
    <3> QED
      BY <3>2, <3>5, <3>6, <3>7, <3>8
  <2> QED
    BY <2>1, <2>2
<1>10. TypeOK'
  <2>1. ExchangeTyped'
    BY <1>1 DEF TypeOK, ExchangeTyped
  <2>2. Oids \subseteq Oids' /\ reported' \in BOOLEAN
    BY <1>1, <1>9 DEF TypeOK, ProcessesTyped
  <2>3. ProcessesTyped'
    BY <1>1, <1>4, <1>7, <1>8, <2>2, ProcessesStay DEF TypeOK
  <2>4. LedgerTyped'
    BY <1>1, LedgerKept DEF TypeOK
  <2> QED
    BY <1>1, <2>1, <2>3, <2>4 DEF TypeOK
<1>11. /\ pc'[p] = label /\ job'[p] = j
       /\ \A q \in Procs \ {p} : pc'[q] = pc[q] /\ job'[q] = job[q]
  BY <1>4 DEF TypeOK, ProcessesTyped, Continue, Goto
<1>12. /\ \A q \in Procs \ {p} : Executing(q)' = Executing(q)
       /\ Executing(p)'
  BY <1>8, <1>11 DEF Executing, ExecutingAt
<1>13. \A cycle : Offers(cycle)' = Offers(cycle)
  BY <1>1 DEF Offers
<1>14. /\ job[p].cycle \in DOMAIN cycles \ simulated
       /\ item \in Offers(job[p].cycle)
       /\ \A oid \in Oids : orders[oid].key # order.key
  BY <1>2, <1>5, <1>8 DEF Rest, CyclesOwned, ItemsPlanned, Offers
<1>15. LocalsSet'
  BY <1>8, <1>11 DEF Rest, LocalsSet, LocalsAt, PlannedItems
<1>16. CyclesOwned'
  BY <1>1, <1>7, <1>8, <1>11, <1>12 DEF Rest, CyclesOwned
<1>17. OrdersOffered'
  <2>1. \A oid \in Oids : /\ orders[oid].key[1] \in DOMAIN cycles \ simulated
                          /\ orders[oid].key[2] \in Offers(orders[oid].key[1])
    BY DEF Rest, OrdersOffered
  <2>2. order.key[1] \in DOMAIN cycles \ simulated /\ order.key[2] \in Offers(order.key[1])
    BY <1>2, <1>14
  <2>3. \A oid \in Oids' : orders'[oid] = order \/ (oid \in Oids /\ orders'[oid] = orders[oid])
    BY <1>9
  <2> QED
    BY <1>1, <1>13, <2>1, <2>2, <2>3 DEF OrdersOffered
<1>18. NoDoubleSell'
  BY <1>9, <1>14 DEF Rest, NoDoubleSell
<1>19. ItemsPlanned'
  <2> SUFFICES ASSUME NEW q \in Procs, Executing(q)'
               PROVE  /\ \A symbol \in job'[q].todo :
                             /\ symbol \in DOMAIN planned[job'[q].cycle]
                             /\ planned[job'[q].cycle][symbol] = "planned"
                             /\ \A oid \in Oids' : orders'[oid].key # <<job'[q].cycle, symbol>>
                      /\ pc'[q] \in LoopLabels =>
                             /\ job'[q].item \in Offers(job'[q].cycle)
                             /\ job'[q].item \notin job'[q].todo
    BY <1>1, <1>13 DEF ItemsPlanned
  <2>1. \A oid \in Oids' : orders'[oid] = order \/ (oid \in Oids /\ orders'[oid] = orders[oid])
    BY <1>9
  <2>2. CASE q = p
    <3>1. \A symbol \in j.todo : order.key # <<j.cycle, symbol>>
      BY <1>2, <1>7
    <3> QED
      BY <1>7, <1>8, <1>11, <1>14, <2>1, <2>2, <3>1 DEF Rest, ItemsPlanned
  <2>3. CASE q # p
    <3>1. Executing(q) /\ job[q].cycle # job[p].cycle /\ job'[q] = job[q] /\ pc'[q] = pc[q]
      BY <1>8, <1>11, <1>12, <2>3 DEF Rest, CyclesOwned
    <3> QED
      BY <2>1, <3>1 DEF Rest, ItemsPlanned
  <2> QED
    BY <2>2, <2>3
<1>20. SellsStep
  <2>1. Offered' = Offered
    BY <1>1, <1>13 DEF Offered, Offers
  <2>2. CASE orders' = orders
    BY <2>1, <2>2 DEF SellsStep, Once!onceVars, Placed, Oids
  <2>3. CASE orders' = Append(orders, order)
    <3>1. orders \in Seq(Orders) /\ orders' \in Seq(Orders)
      BY <1>10 DEF TypeOK, ExchangeTyped
    <3>2. order.key \in Offered
      BY <1>2, <1>14 DEF Offered
    <3>3. \A i \in DOMAIN Placed : Placed[i] # order.key
      BY <1>14 DEF Placed
    <3>4. Placed' = Append(Placed, order.key)
      BY <2>3, <3>1, PlacedAppend DEF Placed, Oids
    <3> QED
      BY <2>1, <3>2, <3>3, <3>4 DEF SellsStep, Once!OnceNext, Once!Place
  <2> QED
    BY <2>2, <2>3
<1> QED
  BY <1>10, <1>15, <1>16, <1>17, <1>18, <1>19, <1>20 DEF Rest, GoodStep

\* The order a submission creates has its type and the key of the next item.
LEMMA NewOrderTyped ==
    ASSUME TypeOK, Rest, NEW p \in Procs, pc[p] = "submit",
           NEW state \in ExchangeStates
    PROVE  NewOrder(p, state) \in Orders /\ NewOrder(p, state).key = <<job[p].cycle, Item(p)>>
<1>1. today \in Days
  BY DEF TypeOK, ExchangeTyped
<1>2. Item(p) \in Symbols
  BY NextItem, RunningJob DEF IsJob
<1>3. Executing(p)
  BY DEF Executing, ExecutingAt, SellLabels
<1>4. <<job[p].cycle, Item(p)>> \in SellKeys
  BY <1>2, <1>3, OwnCycle DEF SellKeys
<1>5. PICK key : key = <<job[p].cycle, Item(p)>>
  OBVIOUS
<1>6. /\ (IF state = "closed" THEN {today} ELSE {}) \in SUBSET Days
      /\ (IF state \in ExchangeFinal THEN today ELSE NoDay) \in Days \union {NoDay}
  BY <1>1
<1> QED
  BY <1>4, <1>5, <1>6 DEF NewOrder, NewOrders, Orders

\* So has every order the exchange may answer a submission with.
LEMMA AcceptedTyped ==
    ASSUME TypeOK, Rest, NEW p \in Procs, pc[p] = "submit", NEW order \in Accepted(p)
    PROVE  order \in Orders /\ order.key = <<job[p].cycle, Item(p)>>
  BY NewOrderTyped DEF Accepted, ExchangeStates

\* The three outcomes of a submission: an answer, a timeout, another error.
LEMMA SubmitStep ==
    ASSUME TypeOK, Rest, NEW p \in Procs, Submit(p) \/ SubmitTimesOut(p) \/ SubmitRaises(p)
    PROVE  GoodStep
<1>1. pc[p] = "submit"
  BY DEF Submit, SubmitTimesOut, SubmitRaises, SubmitNext
<1>2. NoJob.reply \in Rows
  BY NoJobTyped DEF IsJob
<1>3. PICK open : /\ open = NewOrder(p, "open") /\ open \in Orders
                  /\ open.key = <<job[p].cycle, Item(p)>>
  BY <1>1, NewOrderTyped DEF ExchangeStates
<1>4. CASE Submit(p)
  <2>1. PICK order, status :
            /\ order \in Accepted(p)
            /\ status \in {NormalizeOrder(order), "unknown"}
            /\ SubmitNext(p, "register", [oid |-> Len(orders) + 1, status |-> status])
            /\ orders' = Append(orders, order)
    BY <1>4 DEF Submit
  <2>2. PICK reply : reply = [oid |-> Len(orders) + 1, status |-> status]
    OBVIOUS
  <2>3. status \in OrderStatuses
    BY <2>1 DEF NormalizeOrder, OrderStatuses, UnresolvedStatuses, FinalStatuses
  <2>4. Len(orders) + 1 \in Nat
    BY DEF TypeOK, ExchangeTyped
  <2>5. reply \in Rows
    BY <2>2, <2>3, <2>4 DEF Rows
  <2> QED
    BY <1>1, <2>1, <2>2, <2>5, AcceptedTyped, SubmitNextStep
<1>5. CASE SubmitTimesOut(p)
  <2>1. PICK reply : reply = NoJob.reply
    OBVIOUS
  <2>2. SubmitNext(p, "timeout", reply) /\ reply \in Rows
    BY <1>2, <1>5, <2>1 DEF SubmitTimesOut
  <2>3. CASE \E order \in Accepted(p) : orders' = Append(orders, order)
    BY <1>1, <2>2, <2>3, AcceptedTyped, SubmitNextStep
  <2>4. CASE orders' = Append(orders, NewOrder(p, "in_flight"))
    <3>1. PICK order : order = NewOrder(p, "in_flight")
      OBVIOUS
    <3>2. order \in Orders /\ order.key = <<job[p].cycle, Item(p)>>
      BY <1>1, <3>1, NewOrderTyped DEF ExchangeStates
    <3> QED
      BY <2>2, <2>4, <3>1, <3>2, SubmitNextStep
  <2>5. CASE UNCHANGED orders
    BY <1>3, <2>2, <2>5, SubmitNextStep
  <2> QED
    BY <1>5, <2>3, <2>4, <2>5 DEF SubmitTimesOut
<1>6. CASE SubmitRaises(p)
  <2>1. PICK reply : reply = NoJob.reply
    OBVIOUS
  <2>2. SubmitNext(p, "rejected", reply) /\ reply \in Rows
    BY <1>2, <1>6, <2>1 DEF SubmitRaises
  <2>3. CASE \E order \in Accepted(p) : orders' = Append(orders, order)
    BY <1>1, <2>2, <2>3, AcceptedTyped, SubmitNextStep
  <2>4. CASE UNCHANGED orders
    BY <1>3, <2>2, <2>4, SubmitNextStep
  <2> QED
    BY <1>6, <2>3, <2>4 DEF SubmitRaises
<1> QED
  BY <1>4, <1>5, <1>6

-----------------------------------------------------------------------------
(* The item in hand is marked submitted or failed.                         *)

\* The item stays one its cycle offers, and it is not among those left.
LEMMA ItemStatusStep ==
    ASSUME TypeOK, Rest, NEW p \in Procs, pc[p] \in LoopLabels,
           NEW status \in {"submitted", "failed"},
           UpdatePlannedOrderStatus(job[p].cycle, job[p].item, status),
           NEW label \in Labels, NEW locals, Continue(p, label, locals), IsJob(locals),
           LocalsAt(label, locals), Narrows(p, label, locals),
           reported' \in BOOLEAN, UNCHANGED <<exchangeVars, config, simulated>>
    PROVE  GoodStep
<1>1. /\ SameKeys /\ Oids' = Oids /\ orders' = orders /\ today' = today
      /\ config' = config /\ simulated' = simulated
  BY DEF SameKeys, Oids, exchangeVars
<1>2. Executing(p)
  BY DEF Executing, ExecutingAt, SellLabels
<1>3. PICK cycle, item : cycle = job[p].cycle /\ item = job[p].item
  OBVIOUS
<1>4. /\ cycle \in DOMAIN cycles /\ cycle \in DOMAIN planned /\ cycle \notin simulated
      /\ item \in Offers(cycle) /\ item \notin job[p].todo
  BY <1>2, <1>3 DEF Rest, CyclesOwned, ItemsPlanned, TypeOK, LedgerTyped
<1>5. planned' = [planned EXCEPT ![cycle][item] = status]
  BY <1>3 DEF UpdatePlannedOrderStatus
<1>6. LedgerTyped' /\ DOMAIN cycles' = DOMAIN cycles
  BY <1>3, <1>4, PlannedStatusTyped DEF TypeOK, PlannedStates
<1>7. ProcessesTyped'
  BY <1>1, ProcessesStay DEF TypeOK
<1>8. TypeOK'
  BY <1>1, <1>6, <1>7 DEF TypeOK, ExchangeTyped
<1>9. \A c \in DOMAIN planned : DOMAIN planned'[c] = DOMAIN planned[c]
  BY <1>5
<1>10. \A c \in DOMAIN planned : \A symbol \in DOMAIN planned[c] :
           <<c, symbol>> # <<cycle, item>> => planned'[c][symbol] = planned[c][symbol]
  BY <1>5
<1>11. planned'[cycle][item] = status
  BY <1>4, <1>5 DEF Offers
<1>12. \A c \in DOMAIN planned : Offers(c)' = Offers(c)
  BY <1>4, <1>9, <1>10, <1>11 DEF Offers
<1>13. /\ pc'[p] = label /\ job'[p] = locals
       /\ \A q \in Procs \ {p} : pc'[q] = pc[q] /\ job'[q] = job[q]
  BY DEF TypeOK, ProcessesTyped, Continue, Goto
<1>14. /\ \A q \in Procs \ {p} : Executing(q)' = Executing(q)
       /\ Executing(p)' = ExecutingAt(label, locals)
  BY <1>13 DEF Executing, ExecutingAt
<1>15. LocalsSet'
  BY <1>13 DEF Rest, LocalsSet, LocalsAt, PlannedItems
<1>16. CyclesOwned'
  BY <1>1, <1>6, <1>13, <1>14 DEF Rest, CyclesOwned, Narrows
<1>17. OrdersOffered'
  BY <1>1, <1>6, <1>12 DEF Rest, OrdersOffered, TypeOK, LedgerTyped
<1>18. NoDoubleSell'
  BY <1>1 DEF Rest, NoDoubleSell
<1>19. ItemsPlanned'
  <2> SUFFICES ASSUME NEW q \in Procs, Executing(q)'
               PROVE  /\ \A symbol \in job'[q].todo :
                             /\ symbol \in DOMAIN planned'[job'[q].cycle]
                             /\ planned'[job'[q].cycle][symbol] = "planned"
                             /\ \A oid \in Oids : orders[oid].key # <<job'[q].cycle, symbol>>
                      /\ pc'[q] \in LoopLabels =>
                             /\ job'[q].item \in (Offers(job[q].cycle))'
                             /\ job'[q].item \notin job'[q].todo
    BY <1>1 DEF ItemsPlanned
  <2>1. /\ Executing(q) /\ job'[q].cycle = job[q].cycle /\ job'[q].todo \subseteq job[q].todo
        /\ pc'[q] \in LoopLabels => pc[q] \in LoopLabels /\ job'[q].item = job[q].item
    BY <1>13, <1>14 DEF Narrows
  <2>2. PICK c : c = job[q].cycle
    OBVIOUS
  <2>3. c \in DOMAIN planned /\ (q # p => c # cycle)
    BY <1>2, <1>3, <2>1, <2>2 DEF Rest, CyclesOwned, TypeOK, LedgerTyped
  <2>4. \A symbol \in job[q].todo : <<c, symbol>> # <<cycle, item>>
    BY <1>4, <2>3
  <2>5. \A symbol \in job[q].todo :
            /\ symbol \in DOMAIN planned[c] /\ planned[c][symbol] = "planned"
            /\ \A oid \in Oids : orders[oid].key # <<c, symbol>>
    BY <2>1, <2>2 DEF Rest, ItemsPlanned
  <2>6. pc'[q] \in LoopLabels => job[q].item \in Offers(c) /\ job[q].item \notin job[q].todo
    BY <2>1, <2>2 DEF Rest, ItemsPlanned
  <2>7. Offers(c)' = Offers(c)
    BY <1>12, <2>3
  <2> QED
    BY <1>9, <1>10, <2>1, <2>2, <2>3, <2>4, <2>5, <2>6, <2>7 DEF Offers
<1>20. SellsStep
  <2>1. Placed' = Placed
    BY <1>1 DEF Placed
  <2>2. Offered' = Offered
    BY <1>1, <1>6, <1>12 DEF Offered, TypeOK, LedgerTyped
  <2> QED
    BY <2>1, <2>2 DEF SellsStep, Once!onceVars
<1> QED
  BY <1>8, <1>15, <1>16, <1>17, <1>18, <1>19, <1>20 DEF Rest, GoodStep

\* The item in hand is marked failed.
LEMMA FailItemStep ==
    ASSUME TypeOK, Rest, NEW p \in Procs, NEW from \in LoopLabels, NEW to \in LoopLabels,
           FailItem(p, from, to)
    PROVE  GoodStep
<1>1. /\ pc[p] = from /\ pc[p] # "idle" /\ reported' \in BOOLEAN
      /\ UNCHANGED <<exchangeVars, config, simulated>>
      /\ UpdatePlannedOrderStatus(job[p].cycle, job[p].item, "failed")
  BY DEF FailItem, TypeOK, ProcessesTyped, LoopLabels
<1>2. PICK j : j = job[p]
  OBVIOUS
<1>3. Continue(p, to, j)
  BY <1>2 DEF FailItem, Continue, TypeOK, ProcessesTyped
<1>4. IsJob(j) /\ job[p].cfg \in Configs /\ job[p].day \in Days
  BY <1>1, <1>2, RunningJob
<1>5. to \in Labels /\ LocalsAt(to, j)
  BY <1>2, <1>4 DEF Labels, SellLabels, LoopLabels, LocalsAt
<1>6. Narrows(p, to, j)
  BY <1>1, <1>2 DEF Narrows, Executing, ExecutingAt, SellLabels
<1> QED
  BY <1>1, <1>3, <1>4, <1>5, <1>6, ItemStatusStep

\* The item in hand is marked submitted, and the run goes on to the next one or
\* to its reconciliation.
LEMMA MarkSubmittedStep ==
    ASSUME TypeOK, Rest, NEW p \in Procs, MarkSubmitted(p)
    PROVE  GoodStep
<1>1. /\ pc[p] = "mark_submitted" /\ pc[p] \in LoopLabels /\ reported' \in BOOLEAN
      /\ UNCHANGED <<exchangeVars, config, simulated>>
      /\ UpdatePlannedOrderStatus(job[p].cycle, job[p].item, "submitted")
  BY DEF MarkSubmitted, TypeOK, ProcessesTyped, LoopLabels
<1>2. IsJob(job[p]) /\ job[p].cfg \in Configs /\ job[p].day \in Days /\ NoJob.reply \in Rows
  BY <1>1, RunningJob, NoJobTyped DEF IsJob
<1>3. Executing(p)
  BY <1>1 DEF Executing, ExecutingAt, SellLabels
<1>4. CASE job[p].todo # {}
  <2>1. PICK j : j = [job[p] EXCEPT !.item = NoSymbol, !.reply = NoJob.reply]
    OBVIOUS
  <2>2. /\ IsJob(j) /\ j.cfg = job[p].cfg /\ j.day = job[p].day /\ j.cycle = job[p].cycle
        /\ j.todo = job[p].todo
    BY <1>2, <2>1 DEF IsJob
  <2>3. Continue(p, "submit", j)
    BY <1>4, <2>1, <2>2 DEF MarkSubmitted
  <2>4. "submit" \in Labels /\ LocalsAt("submit", j)
    BY <1>2, <1>4, <2>2 DEF Labels, SellLabels, LocalsAt
  <2>5. Narrows(p, "submit", j)
    BY <1>3, <2>2 DEF Narrows, LoopLabels
  <2> QED
    BY <1>1, <2>2, <2>3, <2>4, <2>5, ItemStatusStep
<1>5. CASE job[p].todo = {}
  <2>1. PICK k : k = [job[p] EXCEPT !.item = NoSymbol, !.reply = NoJob.reply]
    OBVIOUS
  <2>2. IsJob(k) /\ k.day = job[p].day /\ k.cfg = job[p].cfg /\ k.cycle = job[p].cycle
        /\ k.todo = job[p].todo
    BY <1>2, <2>1 DEF IsJob
  <2>3. k.day - DefaultLookback \in Int
    <3>1. PICK day \in Days : day = k.day
      BY <1>2, <2>2
    <3>2. day - 7 \in Int
      BY ExchangeAssumption
    <3> QED
      BY <3>1, <3>2 DEF DefaultLookback
  <2>4. PICK j : j = [k EXCEPT !.since = k.day - DefaultLookback]
    OBVIOUS
  <2>5. /\ IsJob(j) /\ j.cfg = job[p].cfg /\ j.day = job[p].day /\ j.cycle = job[p].cycle
        /\ j.todo = job[p].todo
    BY <2>2, <2>3, <2>4 DEF IsJob
  <2>6. Continue(p, "fetch_open", j)
    BY <1>5, <2>1, <2>2, <2>4 DEF MarkSubmitted
  <2>7. "fetch_open" \in Labels /\ LocalsAt("fetch_open", j)
    BY <1>2, <2>5 DEF Labels, ReconcileLabels, LocalsAt
  <2>8. Narrows(p, "fetch_open", j)
    BY <1>3, <2>5 DEF Narrows, LoopLabels
  <2> QED
    BY <1>1, <2>5, <2>6, <2>7, <2>8, ItemStatusStep
<1> QED
  BY <1>4, <1>5

-----------------------------------------------------------------------------
(* A cycle enters the ledger.                                              *)

\* A cycle that is new to the ledger is no other run's and has no orders; the
\* run that wrote it executes it, or has simulated it and ends.
LEMMA NewCycleStep ==
    ASSUME TypeOK, Rest, NEW p \in Procs, NEW cycle \in CycleIds, cycle \notin DOMAIN cycles,
           NEW plan, DOMAIN plan \subseteq Symbols,
           \A symbol \in DOMAIN plan : plan[symbol] \in PlanStatuses,
           CreateCycleWithOrders(cycle, plan),
           NEW label \in Labels \ LoopLabels, NEW locals,
           Continue(p, label, locals), IsJob(locals), LocalsAt(label, locals),
           \/ /\ ExecutingAt(label, locals) /\ simulated' = simulated
              /\ locals.cycle = cycle
              /\ locals.todo = PlannedItems(plan) /\ PlannedItems(plan) # {}
           \/ ~ExecutingAt(label, locals) /\ simulated' = simulated \union {cycle},
           reported' \in BOOLEAN, UNCHANGED <<exchangeVars, config>>
    PROVE  GoodStep
<1>1. Oids' = Oids /\ orders' = orders /\ today' = today /\ config' = config
  BY DEF Oids, exchangeVars
<1>2. LedgerTyped' /\ DOMAIN cycles' = DOMAIN cycles \union {cycle}
  BY CreateTyped DEF TypeOK
<1>3. ProcessesTyped'
  BY <1>1, ProcessesStay DEF TypeOK
<1>4. TypeOK'
  BY <1>1, <1>2, <1>3 DEF TypeOK, ExchangeTyped
<1>5. /\ planned'[cycle] = plan
      /\ \A c \in DOMAIN cycles : c # cycle /\ planned'[c] = planned[c]
  BY DEF CreateCycleWithOrders, Put, TypeOK, LedgerTyped
<1>6. \A c \in DOMAIN cycles : Offers(c)' = Offers(c)
  BY <1>5 DEF Offers
<1>7. /\ pc'[p] = label /\ job'[p] = locals
      /\ \A q \in Procs \ {p} : pc'[q] = pc[q] /\ job'[q] = job[q]
  BY DEF TypeOK, ProcessesTyped, Continue, Goto
<1>8. /\ \A q \in Procs \ {p} : Executing(q)' = Executing(q)
      /\ Executing(p)' = ExecutingAt(label, locals)
  BY <1>7 DEF Executing, ExecutingAt
<1>9. \A q \in Procs : Executing(q) => job[q].cycle \in DOMAIN cycles \ simulated
  BY DEF Rest, CyclesOwned
<1>10. cycle \notin simulated
  BY DEF TypeOK
<1>11. \A oid \in Oids : /\ orders[oid].key[1] \in DOMAIN cycles \ simulated
                         /\ orders[oid].key[2] \in Offers(orders[oid].key[1])
  BY DEF Rest, OrdersOffered
<1>12. LocalsSet'
  BY <1>7 DEF Rest, LocalsSet, LocalsAt, PlannedItems
<1>13. CyclesOwned'
  <2>1. \A q \in Procs : Executing(q)' => job'[q].cycle \in DOMAIN cycles' \ simulated'
    BY <1>2, <1>5, <1>7, <1>8, <1>9, <1>10
  <2>2. \A q \in Procs \ {p} : Executing(q)' => job'[q].cycle # cycle
    BY <1>5, <1>7, <1>8, <1>9
  <2> QED
    BY <1>7, <1>8, <2>1, <2>2 DEF Rest, CyclesOwned
<1>14. OrdersOffered'
  BY <1>1, <1>2, <1>5, <1>6, <1>11 DEF OrdersOffered
<1>15. NoDoubleSell'
  BY <1>1 DEF Rest, NoDoubleSell
<1>16. ItemsPlanned'
  <2> SUFFICES ASSUME NEW q \in Procs, Executing(q)'
               PROVE  /\ \A symbol \in job'[q].todo :
                             /\ symbol \in DOMAIN planned'[job'[q].cycle]
                             /\ planned'[job'[q].cycle][symbol] = "planned"
                             /\ \A oid \in Oids : orders[oid].key # <<job'[q].cycle, symbol>>
                      /\ pc'[q] \in LoopLabels =>
                             /\ job'[q].item \in (Offers(job[q].cycle))'
                             /\ job'[q].item \notin job'[q].todo
    BY <1>1 DEF ItemsPlanned
  <2>1. CASE q = p
    <3>1. job'[q].cycle = cycle /\ job'[q].todo = PlannedItems(plan) /\ pc'[q] \notin LoopLabels
      BY <1>7, <1>8, <2>1
    <3>2. \A symbol : \A oid \in Oids : orders[oid].key # <<cycle, symbol>>
      BY <1>5, <1>11
    <3> QED
      BY <1>5, <3>1, <3>2 DEF PlannedItems
  <2>2. CASE q # p
    <3>1. Executing(q) /\ job'[q] = job[q] /\ pc'[q] = pc[q]
      BY <1>7, <1>8, <2>2
    <3>2. job[q].cycle \in DOMAIN cycles
      BY <1>9, <3>1
    <3>3. planned'[job[q].cycle] = planned[job[q].cycle]
      BY <1>5, <3>2
    <3> QED
      BY <3>1, <3>3 DEF Rest, ItemsPlanned, Offers
  <2> QED
    BY <2>1, <2>2
<1>17. SellsStep
  <2>1. Placed' = Placed
    BY <1>1 DEF Placed
  <2>2. \A sell \in Offered : sell[1] \in DOMAIN cycles
    BY DEF Offered
  <2>3. CASE simulated' = simulated \union {cycle}
    <3>1. DOMAIN cycles' \ simulated' = DOMAIN cycles \ simulated
      BY <1>2, <2>3
    <3>2. Offered' = Offered
      BY <1>6, <3>1 DEF Offered
    <3> QED
      BY <2>1, <3>2 DEF SellsStep, Once!onceVars
  <2>4. CASE simulated' = simulated /\ PlannedItems(plan) # {}
    <3>1. DOMAIN cycles' \ simulated' = (DOMAIN cycles \ simulated) \union {cycle}
      BY <1>2, <1>10, <2>4
    <3>2. (Offers(cycle))' = PlannedItems(plan)
      BY <1>5, CycleAssumption DEF Offers, PlannedItems
    <3>3. Offered' = Offered \union ({cycle} \X PlannedItems(plan))
      BY <1>6, <3>1, <3>2 DEF Offered
    <3>4. Offered' \ Offered = {cycle} \X PlannedItems(plan)
      BY <2>2, <3>3
    <3>5. \A sell, other \in Offered' \ Offered : sell[1] = other[1]
      BY <3>4
    <3>6. \A sell \in Offered' \ Offered, other \in Offered : sell[1] # other[1]
      BY <2>2, <3>4
    <3>7. Offered' \ Offered # {} /\ Offered \subseteq Offered'
      <4>1. PICK symbol : symbol \in PlannedItems(plan)
        BY <2>4
      <4>2. <<cycle, symbol>> \in Offered' \ Offered
        BY <3>4, <4>1
      <4> QED
        BY <3>3, <4>2
    <3> QED
      BY <2>1, <3>5, <3>6, <3>7 DEF SellsStep, Once!OnceNext, Once!OpenCycle
  <2> QED
    BY <2>3, <2>4
<1> QED
  BY <1>4, <1>12, <1>13, <1>14, <1>15, <1>16, <1>17 DEF Rest, GoodStep

\* A live run creates its cycle, or ends on a conflict of its cycle id.
LEMMA CreateCycleStep ==
    ASSUME TypeOK, Rest, NEW p \in Procs, CreateCycle(p)
    PROVE  GoodStep
<1>1. /\ pc[p] = "create" /\ reported' \in BOOLEAN /\ simulated' = simulated
      /\ UNCHANGED <<exchangeVars, config>>
  BY DEF CreateCycle, TypeOK, ProcessesTyped
<1>2. CASE CreateConflicts(job[p].cycle)
  <2>1. End(p) /\ LedgerTyped' /\ planned' = planned /\ DOMAIN cycles' = DOMAIN cycles
    BY <1>2, LedgerKept DEF CreateCycle, TypeOK
  <2> QED
    BY <1>1, <2>1, EndStep
<1>3. CASE ~CreateConflicts(job[p].cycle)
  <2>1. PICK cycle, plan : cycle = job[p].cycle /\ plan = job[p].plan
    OBVIOUS
  <2>2. /\ IsJob(job[p]) /\ job[p].cfg \in Configs /\ job[p].day \in Days
        /\ cycle \in CycleIds /\ PlannedItems(plan) # {}
    BY <1>1, <2>1, RunningJob DEF Rest, LocalsSet, LocalsAt
  <2>3. /\ cycle \notin DOMAIN cycles
        /\ DOMAIN plan \subseteq Symbols
        /\ \A symbol \in DOMAIN plan : plan[symbol] \in PlanStatuses
    BY <1>3, <2>1, <2>2 DEF CreateConflicts, IsJob
  <2>4. PICK todo : todo = PlannedItems(plan)
    OBVIOUS
  <2>5. todo \subseteq Symbols
    BY <2>3, <2>4 DEF PlannedItems
  <2>6. PICK none : none = << >>
    OBVIOUS
  <2>7. \A x : x \notin DOMAIN none
    BY <2>6
  <2>8. PICK j : j = [job[p] EXCEPT !.todo = todo, !.plan = none]
    OBVIOUS
  <2>9. /\ IsJob(j) /\ j.cfg = job[p].cfg /\ j.day = job[p].day /\ j.cycle = cycle
        /\ j.todo = todo
    BY <2>1, <2>2, <2>5, <2>7, <2>8 DEF IsJob
  <2>10. CreateCycleWithOrders(cycle, plan) /\ Continue(p, "mark_executing", j)
    BY <1>3, <2>1, <2>4, <2>6, <2>8 DEF CreateCycle
  <2>11. /\ "mark_executing" \in Labels \ LoopLabels
         /\ LocalsAt("mark_executing", j)
         /\ ExecutingAt("mark_executing", j)
    BY <2>2, <2>4, <2>9 DEF Labels, SellLabels, LoopLabels, LocalsAt, ExecutingAt
  <2> QED
    BY <1>1, <2>2, <2>3, <2>4, <2>9, <2>10, <2>11, NewCycleStep
<1> QED
  BY <1>2, <1>3

\* A dry run writes its simulated cycle, or finds it there.
LEMMA PersistSimulationStep ==
    ASSUME TypeOK, Rest, NEW p \in Procs, PersistSimulation(p)
    PROVE  GoodStep
<1>1. /\ pc[p] = "simulate" /\ reported' \in BOOLEAN /\ End(p)
      /\ UNCHANGED <<exchangeVars, config>>
  BY DEF PersistSimulation, TypeOK, ProcessesTyped
<1>2. CASE CreateConflicts(job[p].cycle)
  <2>1. /\ LedgerTyped' /\ planned' = planned /\ DOMAIN cycles' = DOMAIN cycles
        /\ simulated' = simulated
    BY <1>2, LedgerKept DEF PersistSimulation, TypeOK
  <2> QED
    BY <1>1, <2>1, EndStep
<1>3. CASE ~CreateConflicts(job[p].cycle)
  <2>1. PICK cycle, plan : cycle = job[p].cycle /\ plan = job[p].plan
    OBVIOUS
  <2>2. IsJob(job[p]) /\ cycle \in CycleIds
    BY <1>1, <2>1, RunningJob DEF Rest, LocalsSet, LocalsAt
  <2>3. /\ cycle \notin DOMAIN cycles
        /\ DOMAIN plan \subseteq Symbols
        /\ \A symbol \in DOMAIN plan : plan[symbol] \in PlanStatuses
    BY <1>3, <2>1, <2>2 DEF CreateConflicts, IsJob
  <2>4. CreateCycleWithOrders(cycle, plan) /\ simulated' = simulated \union {cycle}
    BY <1>3, <2>1 DEF PersistSimulation
  <2>5. PICK j : j = NoJob
    OBVIOUS
  <2>6. /\ Continue(p, "idle", j) /\ IsJob(j) /\ LocalsAt("idle", j) /\ ~ExecutingAt("idle", j)
        /\ "idle" \in Labels \ LoopLabels
    BY <1>1, <2>5, NoJobTyped DEF End, Labels, LoopLabels
  <2> QED
    BY <1>1, <2>2, <2>3, <2>4, <2>6, NewCycleStep
<1> QED
  BY <1>2, <1>3

-----------------------------------------------------------------------------
(* The exchange, the clock and the operator.                               *)

\* What none of the programs does leaves the keys of the orders as they are.
LEMMA EnvironmentStep ==
    ASSUME TypeOK, Rest, SameKeys, ExchangeTyped', config' \in Configs,
           UNCHANGED <<ledgerVars, pc, job, reported, simulated>>
    PROVE  GoodStep
<1>1. /\ pc' = pc /\ job' = job /\ reported' = reported /\ simulated' = simulated
      /\ cycles' = cycles /\ planned' = planned /\ UNCHANGED ledgerVars
  BY DEF ledgerVars
<1>2. LedgerTyped'
  BY <1>1, LedgerKept DEF TypeOK
<1>3. ProcessesTyped'
  BY <1>1 DEF TypeOK, ProcessesTyped, IsJob, SameKeys
<1>4. TypeOK'
  BY <1>1, <1>2, <1>3 DEF TypeOK
<1>5. /\ \A cycle : Offers(cycle)' = Offers(cycle)
      /\ \A p \in Procs : Executing(p)' = Executing(p)
  BY <1>1 DEF Offers, Executing, ExecutingAt
<1>6. LocalsSet'
  BY <1>1 DEF Rest, LocalsSet, LocalsAt, PlannedItems
<1>7. CyclesOwned'
  BY <1>1, <1>5 DEF Rest, CyclesOwned
<1>8. ItemsPlanned'
  BY <1>1, <1>5 DEF Rest, ItemsPlanned, SameKeys
<1>9. OrdersOffered'
  BY <1>1, <1>5 DEF Rest, OrdersOffered, SameKeys
<1>10. NoDoubleSell'
  BY DEF Rest, NoDoubleSell, SameKeys
<1> QED
  BY <1>1, <1>4, <1>6, <1>7, <1>8, <1>9, <1>10, SameSells DEF Rest, GoodStep

\* An order that changes on the exchange keeps its key and its type.
LEMMA OrderChanges ==
    ASSUME TypeOK, NEW oid \in Oids, NEW order \in Orders, order.key = orders[oid].key,
           orders' = [orders EXCEPT ![oid] = order], UNCHANGED today
    PROVE  SameKeys /\ ExchangeTyped'
<1>1. orders \in Seq(Orders) /\ oid \in DOMAIN orders /\ today \in Days
  BY DEF TypeOK, ExchangeTyped, Oids
<1>2. orders' \in Seq(Orders)
  BY <1>1
<1>3. Oids' = Oids /\ \A o \in Oids : orders'[o].key = orders[o].key
  BY <1>1 DEF Oids
<1> QED
  BY <1>1, <1>2, <1>3 DEF SameKeys, ExchangeTyped

\* An order arrives at the exchange, is filled or is closed.
LEMMA ExchangeStepStep ==
    ASSUME TypeOK, Rest, NEW oid \in Oids, ExchangeStep(oid)
    PROVE  GoodStep
<1>1. /\ UNCHANGED <<ledgerVars, pc, job, reported, simulated>>
      /\ config' \in Configs
  BY DEF ExchangeStep, processVars, TypeOK, ProcessesTyped
<1>2. /\ orders[oid] \in Orders /\ today \in Days
  BY DEF TypeOK, ExchangeTyped, Oids
<1>3. SameKeys /\ ExchangeTyped'
  <2>1. PICK order : order = orders[oid]
    OBVIOUS
  <2>2. CASE Arrive(oid)
    <3>1. PICK new : new = [order EXCEPT !.state = "open"]
      OBVIOUS
    <3>2. new \in Orders /\ new.key = orders[oid].key
      BY <1>2, <2>1, <3>1 DEF Orders, ExchangeStates
    <3>3. orders' = [orders EXCEPT ![oid] = new] /\ UNCHANGED today
      BY <2>1, <2>2, <3>1 DEF Arrive
    <3> QED
      BY <3>2, <3>3, OrderChanges
  <2>3. CASE PartialFill(oid)
    <3>1. PICK new : new = [order EXCEPT !.fills = @ \union {today}]
      OBVIOUS
    <3>2. new \in Orders /\ new.key = orders[oid].key
      BY <1>2, <2>1, <3>1 DEF Orders
    <3>3. orders' = [orders EXCEPT ![oid] = new] /\ UNCHANGED today
      BY <2>1, <2>3, <3>1 DEF PartialFill
    <3> QED
      BY <3>2, <3>3, OrderChanges
  <2>4. ASSUME NEW outcome \in Outcomes, Close(oid, outcome)
        PROVE  SameKeys /\ ExchangeTyped'
    <3>1. PICK new : new = [order EXCEPT
                 !.state  = outcome,
                 !.fills  = IF outcome = "closed" THEN @ \union {today} ELSE @,
                 !.closed = today]
      OBVIOUS
    <3>2. new \in Orders /\ new.key = orders[oid].key
      BY <1>2, <2>1, <2>4, <3>1 DEF Orders, Close, ExchangeStates
    <3>3. orders' = [orders EXCEPT ![oid] = new] /\ UNCHANGED today
      BY <2>1, <2>4, <3>1 DEF Close
    <3> QED
      BY <3>2, <3>3, OrderChanges
  <2> QED
    BY <2>2, <2>3, <2>4 DEF ExchangeStep
<1> QED
  BY <1>1, <1>3, EnvironmentStep

\* The next day comes.
LEMMA TomorrowStep ==
    ASSUME TypeOK, Rest, Tomorrow
    PROVE  GoodStep
<1>1. /\ UNCHANGED <<ledgerVars, pc, job, reported, simulated>>
      /\ config' \in Configs
  BY DEF Tomorrow, processVars, TypeOK, ProcessesTyped
<1>2. SameKeys /\ ExchangeTyped'
  BY DEF Tomorrow, NextDay, SameKeys, Oids, TypeOK, ExchangeTyped
<1> QED
  BY <1>1, <1>2, EnvironmentStep

\* The operator edits config.yaml.
LEMMA EditConfigStep ==
    ASSUME TypeOK, Rest, EditConfig
    PROVE  GoodStep
<1>1. /\ UNCHANGED <<ledgerVars, pc, job, reported, simulated>>
      /\ config' \in Configs
  BY DEF EditConfig
<1>2. SameKeys /\ ExchangeTyped'
  BY DEF EditConfig, exchangeVars, SameKeys, Oids, TypeOK, ExchangeTyped
<1> QED
  BY <1>1, <1>2, EnvironmentStep

\* A step that changes nothing.
LEMMA Stuttering ==
    ASSUME TypeOK, Rest, UNCHANGED vars
    PROVE  GoodStep
<1>1. /\ UNCHANGED <<ledgerVars, pc, job, reported, simulated>>
      /\ UNCHANGED exchangeVars /\ config' \in Configs
  BY DEF vars, processVars, TypeOK, ProcessesTyped
<1>2. SameKeys /\ ExchangeTyped'
  BY <1>1 DEF exchangeVars, SameKeys, Oids, TypeOK, ExchangeTyped
<1> QED
  BY <1>1, <1>2, EnvironmentStep

-----------------------------------------------------------------------------
(* The inductive invariant.                                                *)

\* The inductive invariant holds in the initial states: nothing is in the ledger
\* or on the exchange and no program runs.
LEMMA InitIInv == Init => IInv
<1> SUFFICES ASSUME Init PROVE IInv
  OBVIOUS
<1>1. /\ pc = [p \in Procs |-> "idle"] /\ job = [p \in Procs |-> NoJob]
      /\ orders = << >> /\ Oids = {} /\ cycles = << >> /\ planned = << >> /\ rows = << >>
      /\ fills = {} /\ activation = NotActivated /\ simulated = {} /\ today \in Days
      /\ config \in Configs /\ reported = FALSE
  BY DEF Init, LedgerInit, Oids
<1>2. ExchangeTyped
  BY <1>1 DEF ExchangeTyped
<1>3. LedgerTyped
  BY <1>1 DEF LedgerTyped
<1>4. ProcessesTyped
  BY <1>1, NoJobTyped DEF ProcessesTyped, Labels
<1>5. TypeOK
  BY <1>1, <1>2, <1>3, <1>4 DEF TypeOK
<1>6. \A p \in Procs : LocalsAt(pc[p], job[p]) /\ ~Executing(p)
  BY <1>1, NoJobTyped DEF Executing
<1> QED
  BY <1>1, <1>5, <1>6
     DEF IInv, LocalsSet, CyclesOwned, ItemsPlanned, OrdersOffered, NoDoubleSell

\* Every step of the system is a good one, by cases on the action.
LEMMA NextStep == IInv /\ [Next]_vars => GoodStep
<1> SUFFICES ASSUME TypeOK, Rest, [Next]_vars PROVE GoodStep
  BY DEF IInv, Rest
<1>1. ASSUME NEW p \in Procs, LiveStep(p)
      PROVE  GoodStep
  <2>1. CASE Activate(p)
    BY <2>1, ActivateStep
  <2>2. CASE PersistActivation(p)
    BY <2>2, PersistActivationStep
  <2>3. CASE PassGates(p)
    BY <2>3, PassGatesStep
  <2>4. CASE Preview(p)
    BY <2>4, PreviewStep
  <2>5. CASE CreateCycle(p)
    BY <2>5, CreateCycleStep
  <2>6. CASE MarkExecuting(p)
    BY <2>6, MarkExecutingStep
  <2>7. CASE Submit(p) \/ SubmitTimesOut(p) \/ SubmitRaises(p)
    BY <2>7, SubmitStep
  <2>8. CASE Register(p)
    <3>1. PICK oid, status : oid = job[p].reply.oid /\ status = job[p].reply.status
      OBVIOUS
    <3>2. oid \in Nat /\ status \in OrderStatuses
      BY <2>8, <3>1, RunningJob DEF Register, IsJob, Rows
    <3>3. RegisterRow(p, "mark_submitted", oid, status)
      BY <2>8, <3>1 DEF Register
    <3> QED
      BY <2>8, <3>2, <3>3, RegisterRowStep DEF Register, LoopLabels
  <2>9. CASE MarkSubmitted(p)
    BY <2>9, MarkSubmittedStep
  <2>10. CASE RegisterTimeout(p)
    <3>1. PICK oid : oid = NoOid
      OBVIOUS
    <3>2. RegisterRow(p, "timeout_planned", oid, "unknown") /\ oid \in Nat
      BY <2>10, <3>1 DEF RegisterTimeout, NoOid
    <3> QED
      BY <2>10, <3>2, RegisterRowStep
         DEF RegisterTimeout, LoopLabels, OrderStatuses, UnresolvedStatuses
  <2>11. CASE \/ FailItem(p, "timeout_planned", "timeout_cycle")
              \/ FailItem(p, "rejected", "rejected_cycle")
    BY <2>11, FailItemStep DEF LoopLabels
  <2>12. CASE \/ EndCycle(p, "timeout_cycle", "unknown")
              \/ EndCycle(p, "rejected_cycle", "failed")
              \/ Finish(p)
    BY <2>12, EndCycleStep DEF Finish, SellLabels, LoopLabels, CycleStates
  <2> QED
    BY <1>1, <2>1, <2>2, <2>3, <2>4, <2>5, <2>6, <2>7, <2>8, <2>9, <2>10, <2>11, <2>12
       DEF LiveStep, TimeoutStep, RejectStep
<1>2. ASSUME NEW p \in Procs, Start(p) \/ Step(p) \/ Crash(p) \/ FetchFails(p)
      PROVE  GoodStep
  BY <1>1, <1>2, StartStep, DryPreviewStep, PersistSimulationStep, ReconcileStepStep, CrashStep
     DEF Step, DryStep
<1> QED
  BY <1>2, ExchangeStepStep, TomorrowStep, EditConfigStep, Stuttering DEF Next

\* Every step of the system keeps the inductive invariant: a cycle that is
\* executing is in the ledger and is one run's only, what is left of it to
\* submit has no order, and every order was offered by its cycle.
THEOREM Invariance == Spec => []IInv
<1>1. IInv /\ [Next]_vars => IInv'
  BY NextStep DEF GoodStep, IInv, Rest
<1> QED
  BY <1>1, InitIInv, PTL DEF Spec

\* Type correctness.
THEOREM TypeCorrect == Spec => []TypeOK
<1>1. IInv => TypeOK
  BY DEF IInv
<1> QED
  BY <1>1, Invariance, PTL

\* A cycle sells a symbol at most once, for any number of overlapping runs,
\* crashes, timeouts and edits of the configuration.
THEOREM NeverSoldTwice == Spec => []NoDoubleSell
<1>1. IInv => NoDoubleSell
  BY DEF IInv
<1> QED
  BY <1>1, Invariance, PTL

\* Every order on the exchange is an item that its cycle, in the ledger since
\* before, planned to sell.
THEOREM LedgerFirst == Spec => []LedgerBeforeExchange
<1>1. IInv => LedgerBeforeExchange
  BY DEF IInv, OrdersOffered, LedgerBeforeExchange
<1> QED
  BY <1>1, Invariance, PTL

\* A cycle that a dry run wrote never sells.
THEOREM SimulationsNeverSell == Spec => []SimulationNeverSells
<1>1. IInv => SimulationNeverSells
  BY DEF IInv, OrdersOffered, SimulationNeverSells
<1> QED
  BY <1>1, Invariance, PTL

\* The system implements SellOnce: whatever the programs, the exchange and the
\* operator do, a cycle opens once with all its sells, and each step that puts
\* an order on the exchange places a sell that was offered and not placed.
THEOREM ImplementsSellOnce == Spec => SellsOnce
<1>1. Init => Once!OnceInit
  <2> SUFFICES ASSUME Init PROVE Offered = {} /\ Placed = << >>
    BY DEF Once!OnceInit
  <2>1. orders = << >> /\ cycles = << >>
    BY DEF Init, LedgerInit
  <2>2. \A cycle : cycle \notin DOMAIN cycles
    BY <2>1
  <2>3. Offered = {}
    BY <2>2 DEF Offered
  <2>4. Placed = << >>
    BY <2>1 DEF Placed, Oids
  <2> QED
    BY <2>3, <2>4
<1>2. IInv /\ [Next]_vars => [Once!OnceNext]_(Once!onceVars)
  BY NextStep DEF GoodStep, SellsStep
<1> QED
  BY <1>1, <1>2, Invariance, PTL DEF Spec, SellsOnce, Once!OnceSpec
=============================================================================
