--------------------------- MODULE Reconciliation ---------------------------
(***************************************************************************)
(* The programs that share the ledger and the exchange, and reconcile()    *)
(* of reconciliation.py, which two of them run: `reconcile` as a command   *)
(* and `run-once --live` as the last part of a cycle.                      *)
(*                                                                         *)
(* A process p stands for one invocation of the command-line program after *)
(* another: pc[p] is the call it makes next, job[p] holds its locals.      *)
(* Every exchange call and every ledger transaction is one step, so other  *)
(* processes, the exchange and the operator act between any two of them.   *)
(* A process that ends, by return, error or crash, forgets its locals.     *)
(***************************************************************************)
EXTENDS Ledger

CONSTANTS
    Procs,       \* the invocations that may overlap: the timer's, the operator's
    Configs,     \* the contents config.yaml may have
    Lookbacks,   \* --lookback-days, as the operator gives it
    NoConfig     \* the config of a process that is not running

ASSUME LookbacksAssumption == Lookbacks \subseteq Nat \ {0}

VARIABLES
    config,      \* config.yaml as it is now
    pc,
    job,
    reported     \* execution_blocked of the latest reconciliation to finish

processVars == <<config, pc, job, reported>>

DefaultLookback == 7
NoCycle == [settings |-> << >>, start |-> NoDate, scheduled |-> NoDate]
NoSymbol == 0

NoJob ==
    [cfg     |-> NoConfig,   \* config.yaml as loaded at the start
     day     |-> NoDay,      \* local date of evaluated_at
     confirm |-> FALSE,      \* --confirm-first-live-sell
     start   |-> NoDate,     \* the activation date the schedule starts on
     cycle   |-> NoCycle,    \* the cycle being executed
     plan    |-> << >>,      \* status of each item of the sell plan
     todo    |-> {},         \* planned items not submitted yet
     item    |-> NoSymbol,   \* the item being submitted
     reply   |-> [oid |-> NoOid, status |-> "unknown"],
     since   |-> NoDay,      \* start of the reconciliation's lookback
     seen    |-> << >>,      \* fetched order statuses by exchange order id
     trades  |-> {}]         \* fetched fills

Goto(p, label) == pc' = [pc EXCEPT ![p] = label]

\* A step that changes p's locals to `locals` and continues at `label`.
Continue(p, label, locals) ==
    /\ Goto(p, label)
    /\ job' = [job EXCEPT ![p] = locals]

\* A return, an error that propagates to the command line, or a crash.
End(p) == Continue(p, "idle", NoJob)

-----------------------------------------------------------------------------

\* cli.reconcile: the command observes the account now.
StartReconcile(p) ==
    /\ pc[p] = "idle"
    /\ \E lookback \in Lookbacks :
           Continue(p, "fetch_open",
                    [NoJob EXCEPT !.cfg = config, !.day = today, !.since = today - lookback])
    /\ UNCHANGED <<exchangeVars, ledgerVars, config, reported>>

FetchOpen(p) ==
    /\ pc[p] = "fetch_open"
    /\ Continue(p, "fetch_recent",
                [job[p] EXCEPT !.seen = FetchOpenOrders(job[p].cfg.symbols)])
    /\ UNCHANGED <<exchangeVars, ledgerVars, config, reported>>

\* _deduplicate_orders: of two observations of an order the recent one, which
\* comes later in the list, is kept.
Deduplicate(open, recent) ==
    [oid \in DOMAIN open \union DOMAIN recent |->
        IF oid \in DOMAIN recent THEN recent[oid] ELSE open[oid]]

FetchRecent(p) ==
    /\ pc[p] = "fetch_recent"
    /\ Continue(p, "fetch_fills",
                [job[p] EXCEPT !.seen =
                    Deduplicate(@, FetchRecentOrders(job[p].cfg.symbols, job[p].since))])
    /\ UNCHANGED <<exchangeVars, ledgerVars, config, reported>>

FetchFills(p) ==
    /\ pc[p] = "fetch_fills"
    /\ Continue(p, "record",
                [job[p] EXCEPT !.trades = FetchRecentFills(job[p].cfg.symbols, job[p].since)])
    /\ UNCHANGED <<exchangeVars, ledgerVars, config, reported>>

Record(p) ==
    /\ pc[p] = "record"
    /\ RecordReconciliation(job[p].seen, job[p].trades)
    /\ Continue(p, "summarise", [job[p] EXCEPT !.trades = {}])
    /\ UNCHANGED <<exchangeVars, config, reported>>

\* execution_blocked: an order fetched as unresolved, every order here being
\* the app's own, or a row that is unresolved when the summary is read.
ExecutionBlocked(seen) ==
    \/ \E oid \in DOMAIN seen : seen[oid] \in UnresolvedStatuses
    \/ UnresolvedRows # {}

\* The end of reconcile(): the command prints the result; a live run goes on
\* to set the status of its cycle.
Summarise(p) ==
    /\ pc[p] = "summarise"
    /\ reported' = ExecutionBlocked(job[p].seen)
    /\ IF job[p].cycle = NoCycle
       THEN End(p)
       ELSE Continue(p, IF reported' THEN "finish_partial" ELSE "finish_completed",
                     [job[p] EXCEPT !.seen = << >>])
    /\ UNCHANGED <<exchangeVars, ledgerVars, config>>

ReconcileStep(p) ==
    \/ FetchOpen(p) \/ FetchRecent(p) \/ FetchFills(p) \/ Record(p) \/ Summarise(p)
=============================================================================
