------------------------------- MODULE Ledger -------------------------------
(***************************************************************************)
(* The SQLite ledger of ledger.py: the tables the execution of a cycle     *)
(* reads and writes, and the operations on them.  Each operation is one    *)
(* transaction, so it is one action here; a program that makes two calls   *)
(* takes two steps, and may die between them.                              *)
(*                                                                         *)
(*   cycles      status of each cycle, by cycle id (UNIQUE)                *)
(*   planned     status of each planned order, by cycle id and symbol      *)
(*   rows        exchange_orders by client order id (UNIQUE), which is the *)
(*               pair <<cycle, symbol>>: its status and exchange order id  *)
(*   fills       pairs <<exchange order id, day>>                          *)
(*   activation  the activated_at date of the single activation_state row  *)
(*                                                                         *)
(* Left out: the event log, which nothing reads.  Balances and candles     *)
(* are in Balances and Portfolio: the planner and the reports read them.    *)
(***************************************************************************)
EXTENDS Exchange

NotActivated == -1

CycleStates == {"planned", "executing", "partial", "completed", "failed", "unknown"}
PlannedStates == {"planned", "skipped", "blocked", "submitted", "failed"}

VARIABLES cycles, planned, rows, fills, activation

ledgerVars == <<cycles, planned, rows, fills, activation>>

LedgerInit ==
    /\ cycles = << >>
    /\ planned = << >>
    /\ rows = << >>
    /\ fills = {}
    /\ activation = NotActivated

\* f with its value at x set to y, x being in its domain or not.
Put(f, x, y) == [z \in DOMAIN f \union {x} |-> IF z = x THEN y ELSE f[z]]

-----------------------------------------------------------------------------
(* Queries: summary().                                                     *)

UnresolvedRows == {key \in DOMAIN rows : rows[key].status \in UnresolvedStatuses}

CompletedCycles == {cycle \in DOMAIN cycles : cycles[cycle] = "completed"}

-----------------------------------------------------------------------------
(* Transactions.                                                           *)

\* Faulty variant: a cycle that has not begun to execute is taken up again.
ConflictsOnceStarted(cycle) == cycle \in DOMAIN cycles /\ cycles[cycle] # "planned"

\* create_cycle_with_orders raises LedgerConflictError for a known cycle id.
CreateConflicts(cycle) == cycle \in DOMAIN cycles

\* Faulty variant: the planned orders are left to a later transaction.
CreateCycleOnly(cycle, plan) ==
    /\ cycles' = Put(cycles, cycle, "planned")
    /\ UNCHANGED <<planned, rows, fills, activation>>

CreateCycleWithOrders(cycle, plan) ==
    /\ cycles' = Put(cycles, cycle, "planned")
    /\ planned' = Put(planned, cycle, plan)
    /\ UNCHANGED <<rows, fills, activation>>

SetCycleStatus(cycle, status) ==
    /\ cycles' = [cycles EXCEPT ![cycle] = status]
    /\ UNCHANGED <<planned, rows, fills, activation>>

UpdatePlannedOrderStatus(cycle, symbol, status) ==
    /\ planned' = [planned EXCEPT ![cycle][symbol] = status]
    /\ UNCHANGED <<cycles, rows, fills, activation>>

\* register_exchange_order, for a pair with no row and an exchange order id no
\* row holds: RegisterConflicts is the violation of either UNIQUE constraint.
RegisterConflicts(key, oid) ==
    key \in DOMAIN rows \/ \E k \in DOMAIN rows : oid # NoOid /\ rows[k].oid = oid

RegisterExchangeOrder(key, oid, status) ==
    /\ rows' = Put(rows, key, [oid |-> oid, status |-> status])
    /\ UNCHANGED <<cycles, planned, fills, activation>>

\* Faulty variant: activation is replaced instead of kept.
OverwriteActivation(date) ==
    /\ activation' = date
    /\ UNCHANGED <<cycles, planned, rows, fills>>

\* record_activation: INSERT OR IGNORE, so the first activation stands.
RecordActivation(date) ==
    /\ activation' = IF activation = NotActivated THEN date ELSE activation
    /\ UNCHANGED <<cycles, planned, rows, fills>>

-----------------------------------------------------------------------------
(* record_reconciliation, given the observed statuses by exchange order id *)
(* and the observed fills.                                                 *)

\* Faulty variant: an order is looked up by its exchange order id only.
FindByOidOnly(key, oid) == rows[key].oid = oid

\* _find_exchange_order: by exchange order id or by client order id.
FindExchangeOrder(key, oid) == rows[key].oid = oid \/ orders[oid].key = key

ReconciledRows(seen) ==
    [key \in DOMAIN rows |->
        LET found == {oid \in DOMAIN seen : FindExchangeOrder(key, oid)}
        IN  IF found = {} THEN rows[key]
            ELSE LET oid == CHOOSE o \in found : TRUE
                 IN  [oid |-> oid, status |-> seen[oid]]]

\* Fills are recorded for orders whose exchange id is known after the update.
RecordedFills(seen, trades) ==
    {fill \in trades : \E key \in DOMAIN rows : ReconciledRows(seen)[key].oid = fill[1]}

\* Faulty variant: fills are matched before the orders are updated.
FillsBeforeOrders(seen, trades) ==
    /\ rows' = ReconciledRows(seen)
    /\ fills' = fills \union {fill \in trades : \E key \in DOMAIN rows : rows[key].oid = fill[1]}
    /\ UNCHANGED <<cycles, planned, activation>>

RecordReconciliation(seen, trades) ==
    /\ rows' = ReconciledRows(seen)
    /\ fills' = fills \union RecordedFills(seen, trades)
    /\ UNCHANGED <<cycles, planned, activation>>
=============================================================================
