--------------------------- MODULE CostAverageOut ---------------------------
(***************************************************************************)
(* The whole system: the timer and the operator run the commands of the    *)
(* program on one ledger and one exchange account, while the exchange      *)
(* works, days pass and the operator edits config.yaml.                    *)
(***************************************************************************)
EXTENDS Cycle

CONSTANT Commands   \* the commands each process may run

\* What config.py accepts: an allowlist that is not empty, a known interval, and
\* an activation date whether or not a price may activate the schedule first.
ValidConfig(cfg) ==
    /\ cfg.symbols # {}
    /\ cfg.interval \in Intervals
    /\ cfg.end \in Nat \union {NoDate}
    /\ cfg.activation \in {"date", "date_or_price"}
    /\ cfg.activates \in Nat
    /\ {cfg.live, cfg.kill, cfg.confirmFirst} \subseteq BOOLEAN

ASSUME ConfigsAssumption == \A cfg \in Configs : ValidConfig(cfg)
ASSUME SymbolsAssumption == \A cfg \in Configs : cfg.symbols \subseteq Nat \ {NoSymbol}
ASSUME CommandsAssumption == Commands \in [Procs -> SUBSET {"live", "dry", "reconcile"}]

Init ==
    /\ today \in Days /\ \A day \in Days : today <= day
    /\ orders = << >>
    /\ LedgerInit
    /\ config \in Configs
    /\ pc = [p \in Procs |-> "idle"]
    /\ job = [p \in Procs |-> NoJob]
    /\ reported = FALSE
    /\ simulated = {}

Start(p) ==
    \/ "live" \in Commands[p] /\ StartLive(p)
    \/ "dry" \in Commands[p] /\ StartDry(p)
    \/ "reconcile" \in Commands[p] /\ StartReconcile(p) /\ UNCHANGED simulated

Step(p) ==
    \/ LiveStep(p)
    \/ DryStep(p)
    \/ ReconcileStep(p) /\ UNCHANGED simulated

ExchangeStep(oid) ==
    /\ Arrive(oid) \/ PartialFill(oid) \/ \E outcome \in Outcomes : Close(oid, outcome)
    /\ UNCHANGED <<ledgerVars, processVars, simulated>>

Tomorrow == NextDay /\ UNCHANGED <<ledgerVars, processVars, simulated>>

EditConfig ==
    /\ config' \in Configs \ {config}
    /\ UNCHANGED <<exchangeVars, ledgerVars, pc, job, reported, simulated>>

Next ==
    \/ \E p \in Procs : Start(p) \/ Step(p) \/ Crash(p) \/ FetchFails(p)
    \/ \E oid \in Oids : ExchangeStep(oid)
    \/ Tomorrow
    \/ EditConfig

Spec == Init /\ [][Next]_vars

\* Fairness.  A running process goes on until it ends; the timer and the
\* operator keep starting the commands they run; a read or a transaction that
\* keeps being tried is not failed for ever (strong fairness); the exchange
\* delivers a request on its way and ends every open order.
Fairness ==
    /\ \A p \in Procs :
           /\ WF_vars(Start(p))
           /\ WF_vars(Step(p))
           /\ SF_vars(FetchOpen(p) /\ UNCHANGED simulated)
           /\ SF_vars(FetchRecent(p) /\ UNCHANGED simulated)
           /\ SF_vars(FetchFills(p) /\ UNCHANGED simulated)
           /\ SF_vars(Record(p) /\ UNCHANGED simulated)
    /\ WF_vars(\E oid \in Oids : Arrive(oid) /\ UNCHANGED <<ledgerVars, processVars, simulated>>)
    /\ WF_vars(\E oid \in Oids : \E outcome \in Outcomes :
                   Close(oid, outcome) /\ UNCHANGED <<ledgerVars, processVars, simulated>>)

FairSpec == Spec /\ Fairness

-----------------------------------------------------------------------------
(* Types.                                                                  *)

Symbols == UNION {cfg.symbols : cfg \in Configs}
CycleIds == {EvaluatedCycle(cfg, start, day) : cfg \in Configs, start \in Days, day \in Days}
SellKeys == CycleIds \X Symbols

Orders ==
    [key : SellKeys, state : ExchangeStates, fills : SUBSET Days, closed : Days \union {NoDay}]
Rows == [oid : Nat, status : OrderStatuses]

LoopLabels == {"register", "mark_submitted", "timeout", "timeout_planned", "timeout_cycle",
               "rejected", "rejected_cycle"}
SellLabels == {"mark_executing", "submit", "finish_partial", "finish_completed"} \union LoopLabels
ReconcileLabels == {"fetch_open", "fetch_recent", "fetch_fills", "record", "summarise"}
Labels ==
    {"idle", "activate", "record_activation", "gate", "preview", "create", "dry", "simulate"}
      \union SellLabels \union ReconcileLabels

IsJob(j) ==
    /\ j = [cfg |-> j.cfg, day |-> j.day, confirm |-> j.confirm, start |-> j.start,
            cycle |-> j.cycle, plan |-> j.plan, todo |-> j.todo, item |-> j.item,
            reply |-> j.reply, since |-> j.since, seen |-> j.seen, trades |-> j.trades]
    /\ j.cfg \in Configs \union {NoConfig}
    /\ j.day \in Days \union {NoDay}
    /\ j.confirm \in BOOLEAN
    /\ j.start \in Days \union {NoDate}
    /\ j.cycle \in CycleIds \union {NoCycle}
    /\ DOMAIN j.plan \subseteq Symbols
    /\ \A symbol \in DOMAIN j.plan : j.plan[symbol] \in PlanStatuses
    /\ j.todo \subseteq Symbols
    /\ j.item \in Symbols \union {NoSymbol}
    /\ j.reply \in Rows
    /\ j.since \in Int
    /\ DOMAIN j.seen \subseteq Oids
    /\ \A oid \in DOMAIN j.seen : j.seen[oid] \in OrderStatuses
    /\ j.trades \subseteq Oids \X Days

ExchangeTyped ==
    /\ today \in Days
    /\ orders \in Seq(Orders)

LedgerTyped ==
    /\ DOMAIN cycles \subseteq CycleIds
    /\ \A cycle \in DOMAIN cycles : cycles[cycle] \in CycleStates
    /\ DOMAIN planned = DOMAIN cycles
    /\ \A cycle \in DOMAIN planned :
           /\ DOMAIN planned[cycle] \subseteq Symbols
           /\ \A symbol \in DOMAIN planned[cycle] : planned[cycle][symbol] \in PlannedStates
    /\ DOMAIN rows \subseteq SellKeys
    /\ \A key \in DOMAIN rows : rows[key] \in Rows
    /\ fills \subseteq Nat \X Days
    /\ activation \in Days \union {NotActivated}

ProcessesTyped ==
    /\ config \in Configs
    /\ pc \in [Procs -> Labels]
    /\ job = [p \in Procs |-> job[p]]
    /\ \A p \in Procs : IsJob(job[p])
    /\ reported \in BOOLEAN

\* Every variable stays within its type, whatever the programs do; the tables
\* cycles and planned_orders have the same cycles, being written together.
TypeOK ==
    /\ ExchangeTyped
    /\ LedgerTyped
    /\ ProcessesTyped
    /\ simulated \subseteq DOMAIN cycles

-----------------------------------------------------------------------------
(* Safety.                                                                 *)

\* No item of a cycle is on the exchange twice: whatever overlaps, crashes or
\* is retried, one cycle sells one symbol at most once (cycle.py's loop under
\* the ledger's UNIQUE cycle id).
NoDoubleSell ==
    \A o1, o2 \in Oids : orders[o1].key = orders[o2].key => o1 = o2

\* The symbols a cycle sells: the planner neither skipped nor blocked them.
Offers(cycle) ==
    {symbol \in DOMAIN planned[cycle] : planned[cycle][symbol] \notin {"skipped", "blocked"}}

\* The ledger knows of a sell before the exchange does: every order on the
\* exchange is an item its cycle had planned to sell.
LedgerBeforeExchange ==
    \A oid \in Oids :
        /\ orders[oid].key[1] \in DOMAIN cycles
        /\ orders[oid].key[2] \in Offers(orders[oid].key[1])

\* A cycle is marked completed only when each item it planned to sell has been
\* submitted, has a row that names its order, and is final on the exchange.
CompletedIsSettled ==
    \A cycle \in CompletedCycles : \A symbol \in DOMAIN planned[cycle] :
        planned[cycle][symbol] # "skipped" =>
            LET key == <<cycle, symbol>>
            IN  /\ planned[cycle][symbol] = "submitted"
                /\ key \in DOMAIN rows
                /\ rows[key].oid \in Oids
                /\ orders[rows[key].oid].key = key
                /\ Final(rows[key].oid)

\* A row the ledger counts as resolved names an order that is final on the
\* exchange, so an order that can still trade always blocks further runs.
ResolvedIsFinal ==
    \A key \in DOMAIN rows \ UnresolvedRows :
        rows[key].oid \in Oids /\ orders[rows[key].oid].key = key /\ Final(rows[key].oid)

\* A cycle a dry run wrote never puts an order on the exchange.
SimulationNeverSells ==
    \A oid \in Oids : orders[oid].key[1] \notin simulated

\* Under one set of settings a scheduled date sells a symbol at most once, also
\* when runs activate the schedule at the same time: cycle ids differ by the
\* activation date, so this rests on the activation being stored once.
NoDateSoldTwice ==
    \A o1, o2 \in Oids :
        LET c1 == orders[o1].key[1]
            c2 == orders[o2].key[1]
        IN  /\ c1.settings = c2.settings
            /\ c1.scheduled = c2.scheduled
            /\ orders[o1].key[2] = orders[o2].key[2]
            => o1 = o2

\* An order is on the exchange without a row only while the run that submitted
\* it has still to write that row.
InHand(key) ==
    \E p \in Procs : pc[p] \in {"register", "timeout"} /\ Key(p) = key

OrdersTracked ==
    \A oid \in Oids : orders[oid].key \in DOMAIN rows \/ InHand(orders[oid].key)

-----------------------------------------------------------------------------
(* Action properties.                                                      *)

OrderSubmitted == Len(orders') > Len(orders)

\* While a configuration asks for it, no order is submitted before a cycle has
\* completed unless the run that submits it was started with the confirmation.
FirstSellConfirmed ==
    [][OrderSubmitted => \E p \in Procs :
           /\ pc[p] = "submit" /\ pc'[p] # "submit"
           /\ job[p].cfg.confirmFirst => job[p].confirm \/ CompletedCycles # {}]_vars

\* No cycle is opened for execution while a row is unresolved, as long as no two
\* commands overlap: the gate reads the rows some steps before the cycle is
\* created, and an overlapping run may leave an unresolved row in between.
BlockedWhileUnresolved ==
    [][UnresolvedRows # {} => DOMAIN cycles' \ DOMAIN cycles \subseteq simulated']_vars

\* Once the ledger has an order as resolved it never counts as unresolved again,
\* as long as no two commands overlap: of two reconciliations the one that has
\* fetched first may write last, and a row goes back to what it saw.
ResolvedStays ==
    [][\A key \in DOMAIN rows \ UnresolvedRows : rows'[key].status = rows[key].status]_vars

\* A reconciliation that finds an order final has fetched every fill of it
\* that its lookback covers: orders are fetched before fills.
FillsWithOrders ==
    [][\A key \in UnresolvedRows, p \in Procs :
           /\ pc[p] = "record" /\ pc'[p] = "summarise"
           /\ rows'[key].status \in FinalStatuses
           => \A day \in orders[rows'[key].oid].fills :
                  day >= job[p].since => <<rows'[key].oid, day>> \in fills']_vars

\* While the last reconciliation reported execution as blocked, no order is
\* submitted.
BlockIsHeeded == [][reported => ~OrderSubmitted]_vars

-----------------------------------------------------------------------------
(* The inductive invariant behind NoDoubleSell and SellsOnce.              *)

\* A process at this label with these locals has created its cycle and not
\* ended yet.
ExecutingAt(label, j) ==
    \/ label \in SellLabels
    \/ label \in ReconcileLabels /\ j.cycle # NoCycle

Executing(p) == ExecutingAt(pc[p], job[p])

\* The locals a process has set by the time it reaches a label.
LocalsAt(label, j) ==
    /\ label # "idle" => j.cfg \in Configs /\ j.day \in Days
    /\ label = "gate" => j.start \in Days
    /\ label \in {"preview", "create", "simulate"} => j.cycle \in CycleIds
    /\ label = "create" => PlannedItems(j.plan) # {}
    /\ label \in {"mark_executing", "submit"} => j.todo # {}

LocalsSet == \A p \in Procs : LocalsAt(pc[p], job[p])

\* A running cycle is in the ledger, is no simulation, and has one run only.
CyclesOwned ==
    /\ \A p \in Procs : Executing(p) => job[p].cycle \in DOMAIN cycles \ simulated
    /\ \A p, q \in Procs : Executing(p) /\ Executing(q) /\ p # q => job[p].cycle # job[q].cycle

\* What is left to submit is planned and has no order; what is being submitted
\* is planned.
ItemsPlanned ==
    \A p \in Procs : Executing(p) =>
        /\ \A symbol \in job[p].todo :
               /\ symbol \in DOMAIN planned[job[p].cycle]
               /\ planned[job[p].cycle][symbol] = "planned"
               /\ \A oid \in Oids : orders[oid].key # <<job[p].cycle, symbol>>
        /\ pc[p] \in LoopLabels =>
               /\ job[p].item \in Offers(job[p].cycle)
               /\ job[p].item \notin job[p].todo

\* Every order was offered by a cycle in the ledger.
OrdersOffered ==
    \A oid \in Oids :
        /\ orders[oid].key[1] \in DOMAIN cycles \ simulated
        /\ orders[oid].key[2] \in Offers(orders[oid].key[1])

IInv == TypeOK /\ LocalsSet /\ CyclesOwned /\ ItemsPlanned /\ OrdersOffered /\ NoDoubleSell

-----------------------------------------------------------------------------
(* Liveness, under FairSpec.                                               *)

\* Whatever a submission ended in, further runs do not stay blocked for ever:
\* reconciliation comes to resolve every row.
BlockIsLifted == UnresolvedRows # {} ~> UnresolvedRows = {}

-----------------------------------------------------------------------------
(* The abstract promise: a cycle offers the items it planned to sell.      *)

Offered ==
    UNION {{cycle} \X Offers(cycle) : cycle \in DOMAIN cycles \ simulated}

Placed == [oid \in Oids |-> orders[oid].key]

Once == INSTANCE SellOnce WITH offered <- Offered, placed <- Placed

SellsOnce == Once!OnceSpec
=============================================================================
