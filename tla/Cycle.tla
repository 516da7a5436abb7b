------------------------------- MODULE Cycle --------------------------------
(***************************************************************************)
(* run-once of cycle.py: live_run_once, which sells, and dry_run_once,     *)
(* which may write a simulated cycle.                                      *)
(*                                                                         *)
(* The sell plan is abstracted to the status of each item.  Which of them  *)
(* the planner gives depends on balances, the initial snapshot, prices and *)
(* market limits (module Planner), and never on the tables modelled here,  *)
(* so a plan is any choice of PlanStatuses.                                *)
(***************************************************************************)
EXTENDS Reconciliation

CONSTANTS
    PlanStatuses,   \* statuses the planner may give an item
    Faults,         \* what may go wrong, of FaultKinds
    Confirmations,  \* whether --confirm-first-live-sell is passed, of BOOLEAN
    EvaluateAt      \* whether the operator may pass --at

FaultKinds == {
    "crash",        \* the process dies between two steps
    "fetch_error",  \* a read from the exchange raises ExchangeError
    "reject",       \* the exchange rejects an order
    "timeout",      \* a submission times out, the order having been accepted
    "in_flight",    \* a submission times out, and the exchange accepts it later
    "lost",         \* a submission times out and never reaches the exchange
    "late_error"}   \* a submission is accepted and then raises another error

ASSUME CycleAssumption ==
    /\ PlanStatuses \subseteq {"planned", "skipped", "blocked"}
    /\ Faults \subseteq FaultKinds
    /\ Confirmations \subseteq BOOLEAN
    /\ EvaluateAt \in BOOLEAN

VARIABLE simulated   \* cycles a dry run wrote: history, read by no action

vars == <<exchangeVars, ledgerVars, processVars, simulated>>

EvaluationDays == IF EvaluateAt THEN Days ELSE {today}

Least(S) == CHOOSE x \in S : \A y \in S : x <= y

\* Faulty variant: skipped and blocked items are sold too.
AllItems(plan) == DOMAIN plan

PlannedItems(plan) == {symbol \in DOMAIN plan : plan[symbol] = "planned"}

SellPlans(cfg) == [cfg.symbols -> PlanStatuses]

-----------------------------------------------------------------------------
(* evaluate_activation.                                                    *)

\* The condition's outcomes on a date: the price trigger is met or not, or its
\* price cannot be fetched, as the exchange has it.
ActivationMet(cfg, day) ==
    CASE day >= cfg.activates            -> {TRUE}
      [] cfg.activation = "date"          -> {FALSE}
      [] cfg.activation = "date_or_price" -> BOOLEAN

\* A run starts with the configuration as it is; evaluated_at is now, or --at.
StartLive(p) ==
    /\ pc[p] = "idle"
    /\ \E day \in EvaluationDays, confirm \in Confirmations :
           Continue(p, "activate", [NoJob EXCEPT !.cfg = config, !.day = day, !.confirm = confirm])
    /\ UNCHANGED <<exchangeVars, ledgerVars, config, reported, simulated>>

\* A stored activation wins; otherwise the condition is evaluated.
Activate(p) ==
    /\ pc[p] = "activate"
    /\ IF activation # NotActivated
       THEN Continue(p, "gate", [job[p] EXCEPT !.start = activation])
       ELSE \E met \in ActivationMet(job[p].cfg, job[p].day) :
                IF met THEN Continue(p, "record_activation", job[p]) ELSE End(p)
    /\ UNCHANGED <<exchangeVars, ledgerVars, config, reported, simulated>>

\* _activate with persist, and the stored row read back.
PersistActivation(p) ==
    /\ pc[p] = "record_activation"
    /\ RecordActivation(job[p].day)
    /\ Continue(p, "gate", [job[p] EXCEPT !.start = activation'])
    /\ UNCHANGED <<exchangeVars, config, reported, simulated>>

-----------------------------------------------------------------------------
(* live_run_once.                                                          *)

\* Faulty variant: the first sell needs no confirmation.
UnconfirmedGates(cfg, confirm, start, day) ==
    /\ cfg.live
    /\ ~cfg.kill
    /\ CycleStatus(cfg, start, day) = "due"

Gates(cfg, confirm, start, day) ==
    /\ cfg.live
    /\ ~cfg.kill
    /\ ~(cfg.confirmFirst /\ ~confirm /\ CompletedCycles = {})
    /\ CycleStatus(cfg, start, day) = "due"

PassGates(p) ==
    /\ pc[p] = "gate"
    /\ LET j == job[p]
       IN  IF Gates(j.cfg, j.confirm, j.start, j.day)
           THEN Continue(p, "preview",
                         [j EXCEPT !.cycle = EvaluatedCycle(j.cfg, j.start, j.day)])
           ELSE End(p)
    /\ UNCHANGED <<exchangeVars, ledgerVars, config, reported, simulated>>

\* Faulty variant: unresolved orders do not block.
PlanMayExecute(plan) ==
    /\ \A symbol \in DOMAIN plan : plan[symbol] # "blocked"
    /\ PlannedItems(plan) # {}

\* preview_plan: blocked items and unresolved rows block; a plan without a
\* planned item is refused.
MayExecute(plan) ==
    /\ \A symbol \in DOMAIN plan : plan[symbol] # "blocked"
    /\ UnresolvedRows = {}
    /\ PlannedItems(plan) # {}

Preview(p) ==
    /\ pc[p] = "preview"
    /\ \E plan \in SellPlans(job[p].cfg) :
           IF MayExecute(plan)
           THEN Continue(p, "create", [job[p] EXCEPT !.plan = plan])
           ELSE End(p)
    /\ UNCHANGED <<exchangeVars, ledgerVars, config, reported, simulated>>

\* The cycle id decides between two runs of the same cycle.
CreateCycle(p) ==
    /\ pc[p] = "create"
    /\ IF CreateConflicts(job[p].cycle)
       THEN /\ End(p)
            /\ UNCHANGED ledgerVars
       ELSE /\ CreateCycleWithOrders(job[p].cycle, job[p].plan)
            /\ Continue(p, "mark_executing",
                        [job[p] EXCEPT !.todo = PlannedItems(job[p].plan), !.plan = << >>])
    /\ UNCHANGED <<exchangeVars, config, reported, simulated>>

MarkExecuting(p) ==
    /\ pc[p] = "mark_executing"
    /\ SetCycleStatus(job[p].cycle, "executing")
    /\ Goto(p, "submit")
    /\ UNCHANGED <<exchangeVars, config, job, reported, simulated>>

-----------------------------------------------------------------------------
(* The submission loop: one item at a time, in the order of the plan.      *)

Item(p) == Least(job[p].todo)
Key(p) == <<job[p].cycle, job[p].item>>

\* submit_market_sell_order for the next item, ending in `reply` or an error
\* that the handler at `label` takes up.
SubmitNext(p, label, reply) ==
    /\ pc[p] = "submit"
    /\ Continue(p, label, [job[p] EXCEPT !.item = Item(p), !.todo = @ \ {Item(p)}, !.reply = reply])
    /\ UNCHANGED <<today, ledgerVars, config, reported, simulated>>

NewOrder(p, state) == NewOrders(<<job[p].cycle, Item(p)>>)[state]
Accepted(p) == {NewOrder(p, state) : state \in {"open"} \union (Outcomes \intersect ExchangeFinal)}

\* The response may lack a status, which is then unknown.
Submit(p) ==
    /\ pc[p] = "submit"
    /\ \E order \in Accepted(p) : \E status \in {NormalizeOrder(order), "unknown"} :
           /\ SubmitNext(p, "register", [oid |-> Len(orders) + 1, status |-> status])
           /\ orders' = Append(orders, order)

SubmitTimesOut(p) ==
    /\ SubmitNext(p, "timeout", NoJob.reply)
    /\ \/ "timeout" \in Faults /\ \E order \in Accepted(p) : orders' = Append(orders, order)
       \/ "in_flight" \in Faults /\ orders' = Append(orders, NewOrder(p, "in_flight"))
       \/ "lost" \in Faults /\ UNCHANGED orders

SubmitRaises(p) ==
    /\ SubmitNext(p, "rejected", NoJob.reply)
    /\ \/ "reject" \in Faults /\ UNCHANGED orders
       \/ "late_error" \in Faults /\ \E order \in Accepted(p) : orders' = Append(orders, order)

\* Register the row of the submitted order, or fail with LedgerConflictError.
RegisterRow(p, label, oid, status) ==
    /\ IF RegisterConflicts(Key(p), oid)
       THEN End(p) /\ UNCHANGED ledgerVars
       ELSE RegisterExchangeOrder(Key(p), oid, status) /\ Goto(p, label) /\ UNCHANGED job
    /\ UNCHANGED <<exchangeVars, config, reported, simulated>>

Register(p) ==
    /\ pc[p] = "register"
    /\ RegisterRow(p, "mark_submitted", job[p].reply.oid, job[p].reply.status)

\* After the last item the run reconciles, looking back from evaluated_at.
MarkSubmitted(p) ==
    /\ pc[p] = "mark_submitted"
    /\ UpdatePlannedOrderStatus(job[p].cycle, job[p].item, "submitted")
    /\ LET j == [job[p] EXCEPT !.item = NoSymbol, !.reply = NoJob.reply]
       IN  IF j.todo # {}
           THEN Continue(p, "submit", j)
           ELSE Continue(p, "fetch_open", [j EXCEPT !.since = j.day - DefaultLookback])
    /\ UNCHANGED <<exchangeVars, config, reported, simulated>>

\* Faulty variant: a timeout is handled like a rejection, without a row.
ForgetTimeout(p) ==
    /\ pc[p] = "timeout"
    /\ Goto(p, "timeout_planned")
    /\ UNCHANGED <<exchangeVars, ledgerVars, config, job, reported, simulated>>

\* ExchangeTimeoutError: a row of unknown status, the item failed, the cycle
\* unknown, in three transactions; then the error ends the run.
RegisterTimeout(p) ==
    /\ pc[p] = "timeout"
    /\ RegisterRow(p, "timeout_planned", NoOid, "unknown")

\* ExchangeError: the item failed and the cycle failed, in two transactions.
FailItem(p, from, to) ==
    /\ pc[p] = from
    /\ UpdatePlannedOrderStatus(job[p].cycle, job[p].item, "failed")
    /\ Goto(p, to)
    /\ UNCHANGED <<exchangeVars, config, job, reported, simulated>>

EndCycle(p, from, status) ==
    /\ pc[p] = from
    /\ SetCycleStatus(job[p].cycle, status)
    /\ End(p)
    /\ UNCHANGED <<exchangeVars, config, reported, simulated>>

TimeoutStep(p) ==
    \/ RegisterTimeout(p)
    \/ FailItem(p, "timeout_planned", "timeout_cycle")
    \/ EndCycle(p, "timeout_cycle", "unknown")

\* Faulty variant: the loop goes on after a rejected item.
SkipRejected(p) ==
    FailItem(p, "rejected", IF job[p].todo = {} THEN "fetch_open" ELSE "submit")

RejectStep(p) ==
    \/ FailItem(p, "rejected", "rejected_cycle")
    \/ EndCycle(p, "rejected_cycle", "failed")

Finish(p) ==
    \/ EndCycle(p, "finish_partial", "partial")
    \/ EndCycle(p, "finish_completed", "completed")

LiveStep(p) ==
    \/ Activate(p) \/ PersistActivation(p) \/ PassGates(p) \/ Preview(p)
    \/ CreateCycle(p) \/ MarkExecuting(p)
    \/ Submit(p) \/ SubmitTimesOut(p) \/ SubmitRaises(p)
    \/ Register(p) \/ MarkSubmitted(p)
    \/ TimeoutStep(p) \/ RejectStep(p) \/ Finish(p)

-----------------------------------------------------------------------------
(* dry_run_once.                                                           *)

\* Without --persist-simulation a dry run changes nothing, and takes no step
\* here.  With it, it evaluates activation without storing it and, if the
\* cycle is due, goes on to write the plan, a blocked one too.
StartDry(p) ==
    /\ pc[p] = "idle"
    /\ \E day \in EvaluationDays :
           Continue(p, "dry", [NoJob EXCEPT !.cfg = config, !.day = day])
    /\ UNCHANGED <<exchangeVars, ledgerVars, config, reported, simulated>>

DryPreview(p) ==
    LET j == job[p]
        Simulate(start) ==
            IF CycleStatus(j.cfg, start, j.day) = "due"
            THEN \E plan \in SellPlans(j.cfg) :
                     Continue(p, "simulate", [j EXCEPT !.plan = plan,
                                                       !.cycle = EvaluatedCycle(j.cfg, start, j.day)])
            ELSE End(p)
    IN  /\ pc[p] = "dry"
        /\ IF activation # NotActivated
           THEN Simulate(activation)
           ELSE \E met \in ActivationMet(j.cfg, j.day) : IF met THEN Simulate(j.day) ELSE End(p)
        /\ UNCHANGED <<exchangeVars, ledgerVars, config, reported, simulated>>

PersistSimulation(p) ==
    /\ pc[p] = "simulate"
    /\ IF CreateConflicts(job[p].cycle)
       THEN UNCHANGED <<ledgerVars, simulated>>
       ELSE /\ CreateCycleWithOrders(job[p].cycle, job[p].plan)
            /\ simulated' = simulated \union {job[p].cycle}
    /\ End(p)
    /\ UNCHANGED <<exchangeVars, config, reported>>

DryStep(p) == DryPreview(p) \/ PersistSimulation(p)

-----------------------------------------------------------------------------
(* Failures of a process.                                                  *)

\* The process is killed, or a transaction raises (a locked database, a full
\* disk): either way it ends where it stands.
Crash(p) ==
    /\ "crash" \in Faults
    /\ pc[p] # "idle"
    /\ End(p)
    /\ UNCHANGED <<exchangeVars, ledgerVars, config, reported, simulated>>

\* A read raises ExchangeError.
FetchFails(p) ==
    /\ "fetch_error" \in Faults
    /\ pc[p] \in {"preview", "dry", "fetch_open", "fetch_recent", "fetch_fills"}
    /\ End(p)
    /\ UNCHANGED <<exchangeVars, ledgerVars, config, reported, simulated>>
=============================================================================
