----------------------------- MODULE OrderProofs -----------------------------
(***************************************************************************)
(* Proofs about the orders of CostAverageOut and what the ledger comes to  *)
(* know of them, for every choice of its constants.                        *)
(***************************************************************************)
EXTENDS CostAverageOutProofs

-----------------------------------------------------------------------------
(* What a step may change.                                                 *)

\* Orders stay on the exchange with their keys, and one that is final stays as
\* it is.
OrdersKept ==
    /\ Oids \subseteq Oids'
    /\ \A oid \in Oids : /\ orders'[oid].key = orders[oid].key
                         /\ Final(oid) => orders'[oid] = orders[oid]

\* A submission, whatever becomes of it.
Submits(p) == Submit(p) \/ SubmitTimesOut(p) \/ SubmitRaises(p)

\* The next order of a submission is new on the exchange.
LEMMA OrderAppended ==
    ASSUME TypeOK, NEW order, order \in Orders, orders' = Append(orders, order)
    PROVE  /\ Oids' = Oids \union {Len(orders) + 1} /\ Len(orders) + 1 \notin Oids
           /\ \A oid \in Oids : orders'[oid] = orders[oid]
           /\ orders'[Len(orders) + 1] = order
<1>1. orders \in Seq(Orders)
  BY DEF TypeOK, ExchangeTyped
<1>2. Len(orders) \in Nat /\ DOMAIN orders = 1 .. Len(orders)
  BY <1>1
<1>3. orders' \in Seq(Orders) /\ Len(orders') = Len(orders) + 1
  BY <1>1
<1>4. DOMAIN orders' = 1 .. Len(orders) + 1
  BY <1>3
<1>5. \A oid \in 1 .. Len(orders) : orders'[oid] = orders[oid]
  BY <1>1
<1>6. orders'[Len(orders) + 1] = order
  BY <1>1
<1>7. \A n \in Nat : 1 .. n + 1 = (1 .. n) \union {n + 1} /\ n + 1 \notin 1 .. n
  OBVIOUS
<1> QED
  BY <1>2, <1>4, <1>5, <1>6, <1>7 DEF Oids

\* What a submission does: the run goes on with the item in its hand, and the
\* exchange may have one more order, which is the item's.
SubmitsItem(p, label, item, j, order) ==
    /\ label \in {"register", "timeout", "rejected"} /\ item \in job[p].todo
    /\ pc[p] = "submit" /\ Continue(p, label, j)
    /\ j = [job[p] EXCEPT !.item = item, !.todo = @ \ {item}, !.reply = j.reply]
    /\ UNCHANGED <<today, ledgerVars, config, reported, simulated>>
    /\ order \in Orders /\ order.key = <<job[p].cycle, item>>
    /\ orders' \in {orders, Append(orders, order)}
    /\ label = "register" => /\ orders' = Append(orders, order)
                             /\ j.reply.oid = Len(orders) + 1
                             /\ j.reply.status \in {NormalizeOrder(order), "unknown"}
    /\ label = "rejected" => orders' = orders \/ "late_error" \in Faults

\* The three outcomes of a submission put at most the order of the item there.
LEMMA SubmitEffect ==
    ASSUME TypeOK, Rest, NEW p \in Procs, Submits(p)
    PROVE  \E label, item, j, order : SubmitsItem(p, label, item, j, order)
<1>1. pc[p] = "submit"
  BY DEF Submits, Submit, SubmitTimesOut, SubmitRaises, SubmitNext
<1>2. PICK item : item = Item(p) /\ item \in job[p].todo
  BY <1>1, NextItem
<1>3. PICK open : /\ open = NewOrder(p, "open") /\ open \in Orders
                  /\ open.key = <<job[p].cycle, item>>
  BY <1>1, <1>2, NewOrderTyped DEF ExchangeStates
<1>4. \A order \in Accepted(p) : order \in Orders /\ order.key = <<job[p].cycle, item>>
  BY <1>1, <1>2, AcceptedTyped
<1>5. ASSUME NEW label, NEW reply, SubmitNext(p, label, reply)
      PROVE  \E j : /\ Continue(p, label, j) /\ j.reply = reply
                    /\ j = [job[p] EXCEPT !.item = item, !.todo = @ \ {item}, !.reply = j.reply]
                    /\ UNCHANGED <<today, ledgerVars, config, reported, simulated>>
  <2>1. PICK j : j = [job[p] EXCEPT !.item = item, !.todo = @ \ {item}, !.reply = reply]
    OBVIOUS
  <2>2. IsJob(job[p])
    BY <1>1, RunningJob
  <2>3. j.reply = reply
    BY <2>1, <2>2 DEF IsJob
  <2> QED
    BY <1>2, <1>5, <2>1, <2>3 DEF SubmitNext
<1>6. CASE Submit(p)
  <2>1. PICK order, status :
            /\ order \in Accepted(p)
            /\ status \in {NormalizeOrder(order), "unknown"}
            /\ SubmitNext(p, "register", [oid |-> Len(orders) + 1, status |-> status])
            /\ orders' = Append(orders, order)
    BY <1>6 DEF Submit
  <2>2. PICK reply : reply = [oid |-> Len(orders) + 1, status |-> status]
    OBVIOUS
  <2>3. PICK j : /\ Continue(p, "register", j) /\ j.reply = reply
                 /\ j = [job[p] EXCEPT !.item = item, !.todo = @ \ {item}, !.reply = j.reply]
                 /\ UNCHANGED <<today, ledgerVars, config, reported, simulated>>
    BY <1>5, <2>1, <2>2
  <2>4. j.reply.oid = Len(orders) + 1 /\ j.reply.status = status
    BY <2>2, <2>3
  <2>5. order \in Orders /\ order.key = <<job[p].cycle, item>>
    BY <1>4, <2>1
  <2>6. SubmitsItem(p, "register", item, j, order)
    BY <1>1, <1>2, <2>1, <2>3, <2>4, <2>5 DEF SubmitsItem
  <2> QED
    BY <2>6
<1>7. CASE SubmitTimesOut(p)
  <2>1. PICK reply : reply = NoJob.reply
    OBVIOUS
  <2>2. PICK j : /\ Continue(p, "timeout", j)
                 /\ j = [job[p] EXCEPT !.item = item, !.todo = @ \ {item}, !.reply = j.reply]
                 /\ UNCHANGED <<today, ledgerVars, config, reported, simulated>>
    BY <1>5, <1>7, <2>1 DEF SubmitTimesOut
  <2>3. \E order : /\ order \in Orders /\ order.key = <<job[p].cycle, item>>
                   /\ orders' \in {orders, Append(orders, order)}
    <3>1. CASE \E order \in Accepted(p) : orders' = Append(orders, order)
      BY <1>4, <3>1
    <3>2. CASE orders' = Append(orders, NewOrder(p, "in_flight"))
      <4>1. PICK order : order = NewOrder(p, "in_flight")
        OBVIOUS
      <4> QED
        BY <1>1, <1>2, <3>2, <4>1, NewOrderTyped DEF ExchangeStates
    <3>3. CASE UNCHANGED orders
      BY <1>3, <3>3
    <3> QED
      BY <1>7, <3>1, <3>2, <3>3 DEF SubmitTimesOut
  <2>4. \E order : SubmitsItem(p, "timeout", item, j, order)
    BY <1>1, <1>2, <2>2, <2>3 DEF SubmitsItem
  <2> QED
    BY <2>4
<1>8. CASE SubmitRaises(p)
  <2>1. PICK reply : reply = NoJob.reply
    OBVIOUS
  <2>2. PICK j : /\ Continue(p, "rejected", j)
                 /\ j = [job[p] EXCEPT !.item = item, !.todo = @ \ {item}, !.reply = j.reply]
                 /\ UNCHANGED <<today, ledgerVars, config, reported, simulated>>
    BY <1>5, <1>8, <2>1 DEF SubmitRaises
  <2>3. \E order : /\ order \in Orders /\ order.key = <<job[p].cycle, item>>
                   /\ orders' \in {orders, Append(orders, order)}
                   /\ orders' = orders \/ "late_error" \in Faults
    <3>1. CASE /\ "late_error" \in Faults
               /\ \E order \in Accepted(p) : orders' = Append(orders, order)
      BY <1>4, <3>1
    <3>2. CASE UNCHANGED orders
      BY <1>3, <3>2
    <3> QED
      BY <1>8, <3>1, <3>2 DEF SubmitRaises
  <2>4. \E order : SubmitsItem(p, "rejected", item, j, order)
    BY <1>1, <1>2, <2>2, <2>3 DEF SubmitsItem
  <2> QED
    BY <2>4
<1> QED
  BY <1>6, <1>7, <1>8 DEF Submits

\* The steps of a run that submits nothing.
OtherStep(p) ==
    \/ StartLive(p) \/ StartDry(p)
    \/ StartReconcile(p) /\ UNCHANGED simulated
    \/ Activate(p) \/ PersistActivation(p) \/ PassGates(p) \/ Preview(p)
    \/ CreateCycle(p) \/ MarkExecuting(p) \/ Register(p) \/ MarkSubmitted(p)
    \/ TimeoutStep(p) \/ RejectStep(p) \/ Finish(p)
    \/ DryPreview(p) \/ PersistSimulation(p)
    \/ ReconcileStep(p) /\ UNCHANGED simulated
    \/ Crash(p) \/ FetchFails(p)

\* Every step is a submission, another step of a run, or none of a run, which
\* leaves the ledger and the runs alone and adds no order.
LEMMA StepKinds ==
    ASSUME [Next]_vars
    PROVE  \/ UNCHANGED <<ledgerVars, pc, job, reported, simulated, Oids>>
           \/ \E p \in Procs : Submits(p) \/ OtherStep(p)
<1>1. ASSUME NEW p \in Procs, Start(p) \/ Step(p) \/ Crash(p) \/ FetchFails(p)
      PROVE  Submits(p) \/ OtherStep(p)
  BY <1>1 DEF Start, Step, LiveStep, DryStep, Submits, OtherStep
<1>2. ASSUME NEW oid \in Oids, ExchangeStep(oid)
      PROVE  UNCHANGED <<ledgerVars, pc, job, reported, simulated, Oids>>
  BY <1>2 DEF ExchangeStep, processVars, Arrive, PartialFill, Close, Oids
<1>3. CASE Tomorrow \/ EditConfig \/ UNCHANGED vars
  BY <1>3 DEF Tomorrow, NextDay, EditConfig, processVars, exchangeVars, vars, Oids
<1> QED
  BY <1>1, <1>2, <1>3 DEF Next

\* Only submissions and the exchange itself change its orders.
LEMMA OtherStepQuiet ==
    ASSUME NEW p \in Procs, OtherStep(p)
    PROVE  UNCHANGED <<today, orders>>
<1>1. CASE ReconcileStep(p)
  BY <1>1 DEF ReconcileStep, FetchOpen, FetchRecent, FetchFills, Record, Summarise, exchangeVars
<1>2. CASE TimeoutStep(p) \/ RejectStep(p) \/ Finish(p) \/ Register(p) \/ MarkSubmitted(p)
  BY <1>2 DEF TimeoutStep, RegisterTimeout, RejectStep, Finish, Register, RegisterRow,
              MarkSubmitted, FailItem, EndCycle, exchangeVars
<1>3. CASE \/ StartLive(p) \/ StartDry(p) \/ StartReconcile(p) \/ Activate(p)
           \/ PersistActivation(p) \/ PassGates(p) \/ Preview(p) \/ CreateCycle(p)
           \/ MarkExecuting(p) \/ DryPreview(p) \/ PersistSimulation(p) \/ Crash(p) \/ FetchFails(p)
  BY <1>3 DEF StartLive, StartDry, StartReconcile, Activate, PersistActivation, PassGates, Preview,
              CreateCycle, MarkExecuting, DryPreview, PersistSimulation, Crash, FetchFails,
              exchangeVars
<1> QED
  BY <1>1, <1>2, <1>3 DEF OtherStep

\* No step takes an order off the exchange, changes its key, or changes an
\* order that is final.
LEMMA OrdersKeep == IInv /\ [Next]_vars => OrdersKept
<1> SUFFICES ASSUME TypeOK, Rest, [Next]_vars PROVE OrdersKept
  BY DEF IInv, Rest
<1>1. CASE UNCHANGED orders
  BY <1>1 DEF OrdersKept, Oids
<1>2. ASSUME NEW p \in Procs, Submits(p)
      PROVE  OrdersKept
  <2>1. PICK order : order \in Orders /\ orders' \in {orders, Append(orders, order)}
    BY <1>2, SubmitEffect DEF SubmitsItem
  <2> QED
    BY <1>1, <2>1, OrderAppended DEF OrdersKept
<1>3. ASSUME NEW oid \in Oids, ExchangeStep(oid)
      PROVE  OrdersKept
  <2>1. PICK order : order.key = orders[oid].key /\ orders' = [orders EXCEPT ![oid] = order]
                     /\ ~Final(oid)
    <3>1. orders[oid] \in Orders /\ orders = [o \in Oids |-> orders[o]]
      BY DEF TypeOK, ExchangeTyped, Oids
    <3>2. CASE Arrive(oid)
      <4>1. PICK new : new = [orders[oid] EXCEPT !.state = "open"]
        OBVIOUS
      <4> QED
        BY <3>1, <3>2, <4>1 DEF Arrive, Orders, Final, ExchangeFinal
    <3>3. CASE PartialFill(oid)
      <4>1. PICK new : new = [orders[oid] EXCEPT !.fills = @ \union {today}]
        OBVIOUS
      <4> QED
        BY <3>1, <3>3, <4>1 DEF PartialFill, Orders, Final, ExchangeFinal
    <3>4. ASSUME NEW outcome \in Outcomes, Close(oid, outcome)
          PROVE  \E order : /\ order.key = orders[oid].key
                            /\ orders' = [orders EXCEPT ![oid] = order] /\ ~Final(oid)
      <4>1. PICK new : new = [orders[oid] EXCEPT
                   !.state  = outcome,
                   !.fills  = IF outcome = "closed" THEN @ \union {today} ELSE @,
                   !.closed = today]
        OBVIOUS
      <4> QED
        BY <3>1, <3>4, <4>1 DEF Close, Orders, Final, ExchangeFinal
    <3> QED
      BY <1>3, <3>2, <3>3, <3>4 DEF ExchangeStep
  <2>2. Oids' = Oids /\ orders'[oid] = order /\ \A o \in Oids \ {oid} : orders'[o] = orders[o]
    BY <2>1 DEF Oids
  <2> QED
    BY <2>1, <2>2 DEF OrdersKept
<1>4. ASSUME NEW p \in Procs, OtherStep(p)
      PROVE  OrdersKept
  BY <1>1, <1>4, OtherStepQuiet
<1>5. CASE Tomorrow \/ EditConfig \/ UNCHANGED vars
  BY <1>1, <1>5 DEF Tomorrow, NextDay, EditConfig, vars, exchangeVars
<1>6. ASSUME NEW p \in Procs, Start(p) \/ Step(p) \/ Crash(p) \/ FetchFails(p)
      PROVE  Submits(p) \/ OtherStep(p)
  BY <1>6 DEF Start, Step, LiveStep, DryStep, Submits, OtherStep
<1> QED
  BY <1>2, <1>3, <1>4, <1>5, <1>6 DEF Next

\* A process that goes on changes nothing of another.
LEMMA OtherRuns ==
    ASSUME TypeOK, NEW p \in Procs, NEW label, NEW j, Continue(p, label, j)
    PROVE  /\ pc'[p] = label /\ job'[p] = j
           /\ \A q \in Procs \ {p} : pc'[q] = pc[q] /\ job'[q] = job[q]
  BY DEF TypeOK, ProcessesTyped, Continue, Goto

RunLabels == SellLabels \union ReconcileLabels

\* The steps of a run between the creation of its cycle and its end.
RunStep(p) ==
    \/ MarkExecuting(p) \/ Register(p) \/ MarkSubmitted(p)
    \/ TimeoutStep(p) \/ RejectStep(p) \/ Finish(p)
    \/ ReconcileStep(p)

\* What a run has taken with it into its cycle it keeps until it ends.
CarriesOn(p, label, j) ==
    /\ Continue(p, label, j)
    /\ \/ label = "idle" /\ j = NoJob
       \/ /\ label \in RunLabels
          /\ j.cycle = job[p].cycle /\ j.cfg = job[p].cfg /\ j.confirm = job[p].confirm
          /\ ExecutingAt(label, j) => Executing(p)

\* A run in its cycle keeps the cycle, its configuration and the confirmation,
\* and a reconciliation without a cycle comes to none.
LEMMA RunCarriesOn ==
    ASSUME TypeOK, Rest, NEW p \in Procs, RunStep(p) \/ Submits(p)
    PROVE  /\ pc[p] \in RunLabels
           /\ \E label, j : CarriesOn(p, label, j)
           /\ UNCHANGED activation
<1>1. job = [job EXCEPT ![p] = job[p]]
  BY DEF TypeOK, ProcessesTyped
<1>2. CASE Submits(p)
  <2>1. PICK label, item, j, order : SubmitsItem(p, label, item, j, order)
    BY <1>2, SubmitEffect
  <2>2. /\ pc[p] = "submit" /\ label \in {"register", "timeout", "rejected"}
        /\ Continue(p, label, j) /\ UNCHANGED activation
    BY <2>1 DEF SubmitsItem, ledgerVars
  <2>3. j = [job[p] EXCEPT !.item = item, !.todo = @ \ {item}, !.reply = j.reply]
    BY <2>1 DEF SubmitsItem
  <2>4. IsJob(job[p])
    BY <2>2, RunningJob
  <2>5. j.cycle = job[p].cycle /\ j.cfg = job[p].cfg /\ j.confirm = job[p].confirm
    BY <2>3, <2>4 DEF IsJob
  <2> QED
    BY <2>2, <2>5 DEF CarriesOn, Executing, ExecutingAt, RunLabels, SellLabels, LoopLabels
<1>3. ASSUME NEW label \in SellLabels, pc[p] \in SellLabels, Goto(p, label),
             UNCHANGED <<job, activation>>
      PROVE  /\ pc[p] \in RunLabels
             /\ \E j : CarriesOn(p, label, j)
             /\ UNCHANGED activation
  BY <1>1, <1>3 DEF CarriesOn, Executing, ExecutingAt, Continue, RunLabels
<1>4. ASSUME End(p)
      PROVE  \E label, j : CarriesOn(p, label, j)
  BY <1>4 DEF End, CarriesOn
<1>5. CASE MarkExecuting(p)
  BY <1>3, <1>5 DEF MarkExecuting, SetCycleStatus, SellLabels
<1>6. ASSUME NEW label \in LoopLabels, pc[p] \in LoopLabels, NEW oid, NEW status,
             RegisterRow(p, label, oid, status)
      PROVE  /\ pc[p] \in RunLabels
             /\ \E next, j : CarriesOn(p, next, j)
             /\ UNCHANGED activation
  BY <1>3, <1>4, <1>6
     DEF RegisterRow, RegisterExchangeOrder, SellLabels, RunLabels, ledgerVars
<1>7. CASE Register(p)
  BY <1>6, <1>7 DEF Register, LoopLabels
<1>8. CASE TimeoutStep(p) \/ RejectStep(p) \/ Finish(p)
  <2>1. CASE RegisterTimeout(p)
    BY <1>6, <2>1 DEF RegisterTimeout, LoopLabels
  <2>2. ASSUME NEW from \in SellLabels, NEW to \in SellLabels, FailItem(p, from, to)
        PROVE  /\ pc[p] \in RunLabels
               /\ \E next, j : CarriesOn(p, next, j)
               /\ UNCHANGED activation
    BY <1>3, <2>2 DEF FailItem, UpdatePlannedOrderStatus
  <2>3. ASSUME NEW from \in SellLabels, NEW status, EndCycle(p, from, status)
        PROVE  /\ pc[p] \in RunLabels
               /\ \E next, j : CarriesOn(p, next, j)
               /\ UNCHANGED activation
    BY <1>4, <2>3 DEF EndCycle, SetCycleStatus, RunLabels
  <2> QED
    BY <1>8, <2>1, <2>2, <2>3 DEF TimeoutStep, RejectStep, Finish, SellLabels, LoopLabels
<1>9. CASE MarkSubmitted(p)
  <2>1. IsJob(job[p])
    BY <1>9, RunningJob DEF MarkSubmitted
  <2>2. PICK none, reply : none = NoSymbol /\ reply = NoJob.reply
    OBVIOUS
  <2>3. PICK j : j = [job[p] EXCEPT !.item = none, !.reply = reply]
    OBVIOUS
  <2>4. PICK since : since = j.day - DefaultLookback
    OBVIOUS
  <2>5. PICK k : k = [j EXCEPT !.since = since]
    OBVIOUS
  <2>6. /\ j.cycle = job[p].cycle /\ j.cfg = job[p].cfg /\ j.confirm = job[p].confirm
        /\ k.cycle = job[p].cycle /\ k.cfg = job[p].cfg /\ k.confirm = job[p].confirm
    BY <2>1, <2>3, <2>5 DEF IsJob
  <2>7. Continue(p, "submit", j) \/ Continue(p, "fetch_open", k)
    BY <1>9, <2>2, <2>3, <2>4, <2>5 DEF MarkSubmitted
  <2> QED
    BY <1>9, <2>6, <2>7
       DEF MarkSubmitted, UpdatePlannedOrderStatus, CarriesOn, Executing, ExecutingAt, RunLabels,
           SellLabels, LoopLabels, ReconcileLabels
<1>10. CASE ReconcileStep(p)
  <2>1. pc[p] \in ReconcileLabels /\ UNCHANGED activation
    BY <1>10 DEF ReconcileStep, FetchOpen, FetchRecent, FetchFills, Record, Summarise,
                 RecordReconciliation, ReconcileLabels, ledgerVars
  <2>2. IsJob(job[p])
    BY <2>1, RunningJob DEF ReconcileLabels
  <2>3. ASSUME NEW label \in RunLabels, NEW seen, NEW trades,
               Continue(p, label, [job[p] EXCEPT !.seen = seen]) \/
               Continue(p, label, [job[p] EXCEPT !.trades = trades]),
               label \in ReconcileLabels \/ Executing(p)
        PROVE  \E j : CarriesOn(p, label, j)
    <3>1. PICK j : /\ j \in {[job[p] EXCEPT !.seen = seen], [job[p] EXCEPT !.trades = trades]}
                   /\ Continue(p, label, j)
      BY <2>3
    <3>2. j.cycle = job[p].cycle /\ j.cfg = job[p].cfg /\ j.confirm = job[p].confirm
      BY <2>2, <3>1 DEF IsJob
    <3>3. label \in ReconcileLabels => label \notin SellLabels
      BY DEF ReconcileLabels, SellLabels, LoopLabels
    <3>4. ExecutingAt(label, j) => Executing(p)
      BY <2>1, <2>3, <3>2, <3>3 DEF Executing, ExecutingAt
    <3> QED
      BY <2>3, <3>1, <3>2, <3>4 DEF CarriesOn
  <2>4. \E label, j : CarriesOn(p, label, j)
    <3>1. CASE FetchOpen(p)
      <4>1. PICK seen : seen = FetchOpenOrders(job[p].cfg.symbols)
        OBVIOUS
      <4> QED
        BY <2>3, <3>1, <4>1 DEF FetchOpen, RunLabels, ReconcileLabels
    <3>2. CASE FetchRecent(p)
      <4>1. PICK seen : seen = Deduplicate(job[p].seen,
                                   FetchRecentOrders(job[p].cfg.symbols, job[p].since))
        OBVIOUS
      <4> QED
        BY <2>3, <3>2, <4>1 DEF FetchRecent, RunLabels, ReconcileLabels
    <3>3. CASE FetchFills(p)
      <4>1. PICK trades : trades = FetchRecentFills(job[p].cfg.symbols, job[p].since)
        OBVIOUS
      <4> QED
        BY <2>3, <3>3, <4>1 DEF FetchFills, RunLabels, ReconcileLabels
    <3>4. CASE Record(p)
      BY <2>3, <3>4 DEF Record, RunLabels, ReconcileLabels
    <3>5. CASE Summarise(p)
      <4>1. PICK none : none = << >>
        OBVIOUS
      <4>2. \/ End(p)
            \/ \E label \in {"finish_partial", "finish_completed"} :
                   Continue(p, label, [job[p] EXCEPT !.seen = none])
        BY <3>5, <4>1 DEF Summarise
      <4>3. job[p].cycle # NoCycle => Executing(p)
        BY <2>1 DEF Executing, ExecutingAt
      <4>4. job[p].cycle = NoCycle => End(p)
        BY <3>5 DEF Summarise
      <4> QED
        BY <1>4, <2>3, <4>2, <4>3, <4>4 DEF RunLabels, SellLabels
    <3> QED
      BY <1>10, <3>1, <3>2, <3>3, <3>4, <3>5 DEF ReconcileStep
  <2> QED
    BY <2>1, <2>4 DEF RunLabels
<1> QED
  BY <1>2, <1>5, <1>7, <1>8, <1>9, <1>10 DEF RunStep

-----------------------------------------------------------------------------
(* A run before its cycle: how each step moves it.                         *)

\* The steps of a run that has not created its cycle, or never does.
BeforeCycle(p) == OtherStep(p) /\ ~RunStep(p)

\* What a run keeps from its start to its end.
Keeps(p, j) == j.cfg = job[p].cfg /\ j.confirm = job[p].confirm /\ j.seen = job[p].seen

\* Where such a step takes the run, and what it writes on the way: nothing but
\* the activation and a cycle that was not there.
EarlyMove(p, label, j) ==
    /\ Continue(p, label, j)
    /\ \/ label = "idle" /\ j = NoJob /\ PersistSimulation(p)
       \/ label = "idle" /\ j = NoJob /\ UNCHANGED <<ledgerVars, simulated>>
       \/ /\ label \in {"activate", "dry", "fetch_open"}
          /\ j.cycle = NoCycle /\ j.todo = {} /\ j.seen = << >>
          /\ UNCHANGED <<ledgerVars, simulated>>
       \/ /\ label \in {"record_activation", "simulate"} /\ j.seen = job[p].seen
          /\ UNCHANGED <<ledgerVars, simulated>>
       \/ /\ label = "gate" /\ Keeps(p, j)
          /\ j.start = activation' /\ activation' # NotActivated
          /\ activation # NotActivated => activation' = activation
          /\ UNCHANGED <<cycles, planned, rows, fills, simulated>>
       \/ /\ pc[p] = "gate" /\ label = "preview" /\ Keeps(p, j)
          /\ j.cycle = EvaluatedCycle(job[p].cfg, job[p].start, job[p].day)
          /\ Gates(j.cfg, j.confirm, job[p].start, job[p].day)
          /\ UNCHANGED <<ledgerVars, simulated>>
       \/ /\ pc[p] = "preview" /\ label = "create" /\ Keeps(p, j)
          /\ j.cycle = job[p].cycle /\ MayExecute(j.plan)
          /\ UNCHANGED <<ledgerVars, simulated>>
       \/ /\ pc[p] = "create" /\ label = "mark_executing" /\ Keeps(p, j)
          /\ j.cycle = job[p].cycle /\ j.todo = PlannedItems(job[p].plan)
          /\ ~CreateConflicts(job[p].cycle)
          /\ CreateCycleWithOrders(job[p].cycle, job[p].plan)
          /\ UNCHANGED simulated

\* Each step of a run without a cycle is such a move.
LEMMA EarlyMoves ==
    ASSUME TypeOK, Rest, NEW p \in Procs, BeforeCycle(p)
    PROVE  \E label, j : EarlyMove(p, label, j)
<1>1. ASSUME End(p), UNCHANGED <<ledgerVars, simulated>>
      PROVE  EarlyMove(p, "idle", NoJob)
  BY <1>1 DEF End, EarlyMove
<1>2. CASE StartLive(p) \/ StartDry(p) \/ (StartReconcile(p) /\ UNCHANGED simulated)
  <2>1. PICK label, j : /\ Continue(p, label, j)
                        /\ label \in {"activate", "dry", "fetch_open"}
                        /\ j.cycle = NoCycle /\ j.todo = {} /\ j.seen = << >>
    <3>1. CASE StartLive(p)
      <4>1. PICK day, confirm :
                Continue(p, "activate", [NoJob EXCEPT !.cfg = config, !.day = day,
                                                      !.confirm = confirm])
        BY <3>1 DEF StartLive
      <4>2. PICK j : j = [NoJob EXCEPT !.cfg = config, !.day = day, !.confirm = confirm]
        OBVIOUS
      <4>3. j.cycle = NoCycle /\ j.todo = {} /\ j.seen = << >>
        BY <4>2 DEF NoJob
      <4> QED
        BY <4>1, <4>2, <4>3
    <3>2. CASE StartDry(p)
      <4>1. PICK day : Continue(p, "dry", [NoJob EXCEPT !.cfg = config, !.day = day])
        BY <3>2 DEF StartDry
      <4>2. PICK j : j = [NoJob EXCEPT !.cfg = config, !.day = day]
        OBVIOUS
      <4>3. j.cycle = NoCycle /\ j.todo = {} /\ j.seen = << >>
        BY <4>2 DEF NoJob
      <4> QED
        BY <4>1, <4>2, <4>3
    <3>3. CASE StartReconcile(p)
      <4>1. PICK lookback :
                Continue(p, "fetch_open", [NoJob EXCEPT !.cfg = config, !.day = today,
                                                        !.since = today - lookback])
        BY <3>3 DEF StartReconcile
      <4>2. PICK since : since = today - lookback
        OBVIOUS
      <4>3. PICK j : j = [NoJob EXCEPT !.cfg = config, !.day = today, !.since = since]
        OBVIOUS
      <4>4. j.cycle = NoCycle /\ j.todo = {} /\ j.seen = << >>
        BY <4>3 DEF NoJob
      <4> QED
        BY <4>1, <4>2, <4>3, <4>4
    <3> QED
      BY <1>2, <3>1, <3>2, <3>3
  <2>2. UNCHANGED <<ledgerVars, simulated>>
    BY <1>2 DEF StartLive, StartDry, StartReconcile
  <2>3. EarlyMove(p, label, j)
    BY <2>1, <2>2 DEF EarlyMove
  <2> QED
    BY <2>3
<1>3. CASE Activate(p)
  <2>1. PICK j, k : j = [job[p] EXCEPT !.start = activation] /\ k = job[p]
    OBVIOUS
  <2>2. IsJob(job[p])
    BY <1>3, RunningJob DEF Activate
  <2>3. UNCHANGED <<ledgerVars, simulated>> /\ activation' = activation
    BY <1>3 DEF Activate, ledgerVars
  <2>4. CASE activation # NotActivated
    <3>1. j.start = activation /\ Keeps(p, j)
      BY <2>1, <2>2 DEF IsJob, Keeps
    <3>2. Continue(p, "gate", j)
      BY <1>3, <2>1, <2>4 DEF Activate
    <3>3. EarlyMove(p, "gate", j)
      BY <2>3, <2>4, <3>1, <3>2 DEF EarlyMove, ledgerVars
    <3> QED
      BY <3>3
  <2>5. CASE activation = NotActivated
    <3>1. Continue(p, "record_activation", k) \/ End(p)
      BY <1>3, <2>1, <2>5 DEF Activate
    <3>2. CASE Continue(p, "record_activation", k)
      <4>1. EarlyMove(p, "record_activation", k)
        BY <2>1, <2>3, <3>2 DEF EarlyMove
      <4> QED
        BY <4>1
    <3> QED
      BY <1>1, <2>3, <3>1, <3>2
  <2> QED
    BY <2>4, <2>5
<1>4. CASE PersistActivation(p)
  <2>1. PICK j : j = [job[p] EXCEPT !.start = activation']
    OBVIOUS
  <2>2. IsJob(job[p]) /\ job[p].day \in Days
    BY <1>4, RunningJob DEF PersistActivation
  <2>3. j.start = activation' /\ Keeps(p, j)
    BY <2>1, <2>2 DEF IsJob, Keeps
  <2>4. /\ activation' = IF activation = NotActivated THEN job[p].day ELSE activation
        /\ Continue(p, "gate", j)
        /\ UNCHANGED <<cycles, planned, rows, fills, simulated>>
    BY <1>4, <2>1 DEF PersistActivation, RecordActivation
  <2>5. activation' # NotActivated
    BY <2>2, <2>4, ExchangeAssumption DEF NotActivated
  <2>6. EarlyMove(p, "gate", j)
    BY <2>3, <2>4, <2>5 DEF EarlyMove
  <2> QED
    BY <2>6
<1>5. CASE PassGates(p)
  <2>1. PICK cycle : cycle = EvaluatedCycle(job[p].cfg, job[p].start, job[p].day)
    OBVIOUS
  <2>2. PICK j : j = [job[p] EXCEPT !.cycle = cycle]
    OBVIOUS
  <2>3. IsJob(job[p])
    BY <1>5, RunningJob DEF PassGates
  <2>4. j.cycle = cycle /\ Keeps(p, j)
    BY <2>2, <2>3 DEF IsJob, Keeps
  <2>5. UNCHANGED <<ledgerVars, simulated>> /\ pc[p] = "gate"
    BY <1>5 DEF PassGates
  <2>6. CASE Gates(job[p].cfg, job[p].confirm, job[p].start, job[p].day)
    <3>1. Continue(p, "preview", j)
      BY <1>5, <2>1, <2>2, <2>6 DEF PassGates
    <3>2. EarlyMove(p, "preview", j)
      BY <2>1, <2>4, <2>5, <2>6, <3>1 DEF EarlyMove, Keeps
    <3> QED
      BY <3>2
  <2>7. CASE ~Gates(job[p].cfg, job[p].confirm, job[p].start, job[p].day)
    BY <1>1, <1>5, <2>5, <2>7 DEF PassGates
  <2> QED
    BY <2>6, <2>7
<1>6. CASE Preview(p)
  <2>1. PICK plan : IF MayExecute(plan)
                    THEN Continue(p, "create", [job[p] EXCEPT !.plan = plan])
                    ELSE End(p)
    BY <1>6 DEF Preview
  <2>2. PICK j : j = [job[p] EXCEPT !.plan = plan]
    OBVIOUS
  <2>3. IsJob(job[p])
    BY <1>6, RunningJob DEF Preview
  <2>4. j.plan = plan /\ j.cycle = job[p].cycle /\ Keeps(p, j)
    BY <2>2, <2>3 DEF IsJob, Keeps
  <2>5. UNCHANGED <<ledgerVars, simulated>> /\ pc[p] = "preview"
    BY <1>6 DEF Preview
  <2>6. CASE MayExecute(plan)
    <3>1. EarlyMove(p, "create", j)
      BY <2>1, <2>2, <2>4, <2>5, <2>6 DEF EarlyMove
    <3> QED
      BY <3>1
  <2>7. CASE ~MayExecute(plan)
    BY <1>1, <2>1, <2>5, <2>7
  <2> QED
    BY <2>6, <2>7
<1>7. CASE CreateCycle(p)
  <2>1. PICK todo, none : todo = PlannedItems(job[p].plan) /\ none = << >>
    OBVIOUS
  <2>2. PICK j : j = [job[p] EXCEPT !.todo = todo, !.plan = none]
    OBVIOUS
  <2>3. IsJob(job[p])
    BY <1>7, RunningJob DEF CreateCycle
  <2>4. j.todo = todo /\ j.cycle = job[p].cycle /\ Keeps(p, j)
    BY <2>2, <2>3 DEF IsJob, Keeps
  <2>5. UNCHANGED simulated /\ pc[p] = "create"
    BY <1>7 DEF CreateCycle
  <2>6. CASE CreateConflicts(job[p].cycle)
    BY <1>1, <1>7, <2>5, <2>6 DEF CreateCycle
  <2>7. CASE ~CreateConflicts(job[p].cycle)
    <3>1. /\ CreateCycleWithOrders(job[p].cycle, job[p].plan)
          /\ Continue(p, "mark_executing", j)
      BY <1>7, <2>1, <2>2, <2>7 DEF CreateCycle
    <3>2. EarlyMove(p, "mark_executing", j)
      BY <2>1, <2>4, <2>5, <2>7, <3>1 DEF EarlyMove
    <3> QED
      BY <3>2
  <2> QED
    BY <2>6, <2>7
<1>8. CASE DryPreview(p)
  <2>1. \/ End(p)
        \/ \E start, plan : Continue(p, "simulate", [job[p] EXCEPT
               !.plan = plan, !.cycle = EvaluatedCycle(job[p].cfg, start, job[p].day)])
    BY <1>8 DEF DryPreview
  <2>2. UNCHANGED <<ledgerVars, simulated>> /\ pc[p] # "idle"
    BY <1>8 DEF DryPreview
  <2>3. IsJob(job[p])
    BY <2>2, RunningJob
  <2>4. ASSUME NEW start, NEW plan,
               Continue(p, "simulate", [job[p] EXCEPT
                   !.plan = plan, !.cycle = EvaluatedCycle(job[p].cfg, start, job[p].day)])
        PROVE  \E j : EarlyMove(p, "simulate", j)
    <3>1. PICK cycle : cycle = EvaluatedCycle(job[p].cfg, start, job[p].day)
      OBVIOUS
    <3>2. PICK j : j = [job[p] EXCEPT !.plan = plan, !.cycle = cycle]
      OBVIOUS
    <3>3. j.seen = job[p].seen /\ Continue(p, "simulate", j)
      BY <2>3, <2>4, <3>1, <3>2 DEF IsJob
    <3>4. EarlyMove(p, "simulate", j)
      BY <2>2, <3>3 DEF EarlyMove
    <3> QED
      BY <3>4
  <2> QED
    BY <1>1, <2>1, <2>2, <2>4
<1>9. CASE PersistSimulation(p)
  <2>1. EarlyMove(p, "idle", NoJob)
    BY <1>9 DEF EarlyMove, PersistSimulation, End
  <2> QED
    BY <2>1
<1>10. CASE Crash(p) \/ FetchFails(p)
  BY <1>1, <1>10 DEF Crash, FetchFails
<1> QED
  BY <1>2, <1>3, <1>4, <1>5, <1>6, <1>7, <1>8, <1>9, <1>10 DEF BeforeCycle, OtherStep, RunStep

-----------------------------------------------------------------------------
(* One activation.                                                         *)

\* From the gates on, a run's schedule starts on the activation in the ledger.
StartsAt(label, j) ==
    /\ label = "gate" => activation # NotActivated /\ j.start = activation
    /\ label \in {"preview", "create"} \/ ExecutingAt(label, j) =>
           activation # NotActivated /\ j.cycle.start = activation

\* Every cycle that has an order starts on the activation in the ledger.
OrdersStart ==
    \A oid \in Oids : activation # NotActivated /\ orders[oid].key[1].start = activation

Activated == OrdersStart /\ \A p \in Procs : StartsAt(pc[p], job[p])

\* The activation that stands is never replaced, so what rests on it goes on
\* holding when one run takes a step.
LEMMA ActivatedGoesOn ==
    ASSUME TypeOK, Activated, NEW p \in Procs, NEW label, NEW j, Continue(p, label, j),
           StartsAt(label, j)', activation # NotActivated => activation' = activation,
           OrdersStart'
    PROVE  Activated'
<1>1. /\ pc'[p] = label /\ job'[p] = j
      /\ \A q \in Procs \ {p} : pc'[q] = pc[q] /\ job'[q] = job[q]
  BY OtherRuns
<1>2. \A q \in Procs \ {p} : StartsAt(pc[q], job[q])
  BY DEF Activated
<1>3. ASSUME NEW q \in Procs
      PROVE  StartsAt(pc[q], job[q])'
  <2>1. CASE q = p
    BY <1>1, <2>1 DEF StartsAt, ExecutingAt
  <2>2. CASE q # p
    BY <1>1, <1>2, <2>2 DEF StartsAt, ExecutingAt
  <2> QED
    BY <2>1, <2>2
<1> QED
  BY <1>3 DEF Activated

\* A run in its cycle keeps its start, and the order it submits has it.
LEMMA RunStepActivated ==
    ASSUME TypeOK, Rest, Activated, OrdersKept, NEW p \in Procs, RunStep(p) \/ Submits(p)
    PROVE  Activated'
<1>1. PICK label, j : CarriesOn(p, label, j)
  BY RunCarriesOn
<1>2. pc[p] \in RunLabels /\ activation' = activation
  BY RunCarriesOn
<1>3. Executing(p) => activation # NotActivated /\ job[p].cycle.start = activation
  BY DEF Activated, StartsAt, Executing
<1>4. StartsAt(label, j)'
  <2>1. CASE label = "idle" /\ j = NoJob
    BY <2>1 DEF StartsAt, ExecutingAt, SellLabels, LoopLabels, ReconcileLabels
  <2>2. CASE label \in RunLabels /\ j.cycle = job[p].cycle /\ (ExecutingAt(label, j) => Executing(p))
    <3>1. label \notin {"gate", "preview", "create"}
      BY <2>2 DEF RunLabels, SellLabels, LoopLabels, ReconcileLabels
    <3>2. ExecutingAt(label, j)' => ExecutingAt(label, j)
      BY DEF ExecutingAt
    <3> QED
      BY <1>2, <1>3, <2>2, <3>1, <3>2 DEF StartsAt
  <2> QED
    BY <1>1, <2>1, <2>2 DEF CarriesOn
<1>5. OrdersStart'
  <2>1. CASE Submits(p)
    <3>1. PICK item, order :
              /\ pc[p] = "submit"
              /\ order \in Orders /\ order.key = <<job[p].cycle, item>>
              /\ orders' \in {orders, Append(orders, order)}
      BY <2>1, SubmitEffect DEF SubmitsItem
    <3>2. \A oid \in Oids' \ Oids : orders'[oid] = order
      BY <3>1, OrderAppended DEF Oids
    <3>3. activation # NotActivated /\ job[p].cycle.start = activation
      BY <1>3, <3>1 DEF Executing, ExecutingAt, SellLabels
    <3> QED
      BY <1>2, <3>1, <3>2, <3>3 DEF Activated, OrdersStart, OrdersKept
  <2>2. CASE UNCHANGED orders
    BY <1>2, <2>2 DEF Activated, OrdersStart, Oids
  <2>3. RunStep(p) => UNCHANGED orders
    BY OtherStepQuiet
       DEF RunStep, OtherStep, ReconcileStep, FetchOpen, FetchRecent, FetchFills, Record, Summarise,
           exchangeVars
  <2> QED
    BY <2>1, <2>2, <2>3
<1> QED
  BY <1>1, <1>2, <1>4, <1>5, ActivatedGoesOn DEF CarriesOn

\* A run that has not created its cycle takes its start from the ledger, where
\* it stores the outcome first when it had to evaluate the condition.
LEMMA EarlyActivated ==
    ASSUME TypeOK, Rest, Activated, NEW p \in Procs, BeforeCycle(p)
    PROVE  Activated'
<1>1. PICK label, j : EarlyMove(p, label, j)
  BY EarlyMoves
<1>2. activation # NotActivated => activation' = activation
  BY <1>1 DEF EarlyMove, ledgerVars, PersistSimulation, CreateCycleWithOrders
<1>3. OrdersStart'
  BY <1>2, OtherStepQuiet DEF Activated, OrdersStart, BeforeCycle, Oids
<1>4. StartsAt(label, j)'
  <2>1. CASE label \in {"idle", "record_activation", "simulate"}
    BY <2>1 DEF StartsAt, ExecutingAt, SellLabels, LoopLabels, ReconcileLabels
  <2>2. CASE label \in {"activate", "dry", "fetch_open"} /\ j.cycle = NoCycle
    BY <2>2 DEF StartsAt, ExecutingAt, SellLabels, LoopLabels, ReconcileLabels
  <2>3. CASE label = "gate" /\ j.start = activation' /\ activation' # NotActivated
    BY <2>3 DEF StartsAt, ExecutingAt, SellLabels, LoopLabels, ReconcileLabels
  <2>4. CASE /\ pc[p] = "gate" /\ label = "preview" /\ activation' = activation
             /\ j.cycle = EvaluatedCycle(job[p].cfg, job[p].start, job[p].day)
    <3>1. j.cycle.start = job[p].start
      BY <2>4 DEF EvaluatedCycle, CycleId
    <3>2. activation # NotActivated /\ job[p].start = activation
      BY <2>4 DEF Activated, StartsAt
    <3> QED
      BY <2>4, <3>1, <3>2 DEF StartsAt
  <2>5. CASE /\ pc[p] \in {"preview", "create"} /\ label \in {"create", "mark_executing"}
             /\ j.cycle = job[p].cycle /\ activation' = activation
    <3>1. activation # NotActivated /\ job[p].cycle.start = activation
      BY <2>5 DEF Activated, StartsAt
    <3> QED
      BY <2>5, <3>1 DEF StartsAt
  <2> QED
    BY <1>1, <2>1, <2>2, <2>3, <2>4, <2>5 DEF EarlyMove, ledgerVars, CreateCycleWithOrders
<1> QED
  BY <1>1, <1>2, <1>3, <1>4, ActivatedGoesOn DEF EarlyMove

\* A run's step is one before its cycle, one in it, or a submission.
LEMMA RunSteps ==
    ASSUME NEW p \in Procs, OtherStep(p)
    PROVE  BeforeCycle(p) \/ RunStep(p)
  BY DEF BeforeCycle

\* No step starts a cycle on another day than the activation.
LEMMA ActivatedStep == IInv /\ Activated /\ [Next]_vars => Activated'
<1> SUFFICES ASSUME TypeOK, Rest, Activated, OrdersKept, [Next]_vars PROVE Activated'
  BY OrdersKeep DEF IInv, Rest
<1>1. CASE UNCHANGED <<ledgerVars, pc, job, reported, simulated, Oids>>
  <2>1. UNCHANGED <<activation, pc, job, Oids>>
    BY <1>1 DEF ledgerVars
  <2>2. OrdersStart'
    BY <2>1 DEF Activated, OrdersStart, OrdersKept
  <2> QED
    BY <2>1, <2>2 DEF Activated, StartsAt, ExecutingAt
<1>2. ASSUME NEW p \in Procs, Submits(p) \/ OtherStep(p)
      PROVE  Activated'
  BY <1>2, RunSteps, RunStepActivated, EarlyActivated
<1> QED
  BY <1>1, <1>2, StepKinds

\* Every cycle that is being executed or has an order on the exchange starts on
\* the one activation of the ledger.
LEMMA ActivatedAlways == Spec => []Activated
<1>1. Init => Activated
  <2> SUFFICES ASSUME Init PROVE Activated
    OBVIOUS
  <2>1. Oids = {} /\ \A p \in Procs : pc[p] = "idle" /\ job[p] = NoJob
    BY DEF Init, Oids
  <2> QED
    BY <2>1 DEF Activated, OrdersStart, StartsAt, ExecutingAt, SellLabels, LoopLabels, ReconcileLabels
<1> QED
  BY <1>1, ActivatedStep, Invariance, PTL DEF Spec

\* A scheduled date sells a symbol at most once under one set of settings,
\* whichever runs evaluated the activation and whenever they did: their cycles
\* start on the same day, so they are the same cycle.
THEOREM DatesSoldOnce == Spec => []NoDateSoldTwice
<1>1. IInv /\ Activated => NoDateSoldTwice
  <2> SUFFICES ASSUME TypeOK, NoDoubleSell, OrdersStart,
                      NEW o1 \in Oids, NEW o2 \in Oids,
                      orders[o1].key[1].settings = orders[o2].key[1].settings,
                      orders[o1].key[1].scheduled = orders[o2].key[1].scheduled,
                      orders[o1].key[2] = orders[o2].key[2]
               PROVE  o1 = o2
    BY DEF IInv, Activated, NoDateSoldTwice
  <2>1. orders[o1].key \in SellKeys /\ orders[o2].key \in SellKeys
    <3>1. orders[o1] \in Orders /\ orders[o2] \in Orders
      BY DEF TypeOK, ExchangeTyped, Oids
    <3> QED
      BY <3>1 DEF Orders
  <2>2. orders[o1].key[1].start = orders[o2].key[1].start
    BY DEF OrdersStart
  <2>3. \A cycle \in CycleIds :
            cycle = [settings |-> cycle.settings, start |-> cycle.start,
                     scheduled |-> cycle.scheduled]
    BY DEF CycleIds, EvaluatedCycle, CycleId
  <2>4. \A key \in SellKeys : key[1] \in CycleIds /\ key = <<key[1], key[2]>>
    BY DEF SellKeys
  <2>5. orders[o1].key[1] = orders[o2].key[1]
    BY <2>1, <2>2, <2>3, <2>4
  <2>6. orders[o1].key = orders[o2].key
    BY <2>1, <2>4, <2>5
  <2> QED
    BY <2>6 DEF NoDoubleSell
<1> QED
  BY <1>1, ActivatedAlways, Invariance, PTL

-----------------------------------------------------------------------------
(* What the ledger and the runs know of the orders.                        *)

\* A status that is final is what the order has come to.
Tells(status, oid) == status \in FinalStatuses => Final(oid) /\ status = NormalizeOrder(orders[oid])

\* An exchange order id that stands for a pair names an order with that key.
Names(key, oid) == oid \in Oids /\ orders[oid].key = key

\* A row with an exchange order id names its order and tells no end it has not
\* come to; a row without one is unresolved.
RowsTrue ==
    \A key \in DOMAIN rows :
        /\ rows[key].oid # NoOid => Names(key, rows[key].oid) /\ Tells(rows[key].status, rows[key].oid)
        /\ rows[key].oid = NoOid => rows[key].status \in UnresolvedStatuses

\* What a run has observed is true of the orders: the statuses it fetched, the
\* response to its submission, and the fills of the orders it found final.
KnowsAt(label, j) ==
    /\ \A oid \in DOMAIN j.seen : Tells(j.seen[oid], oid)
    /\ label = "register" =>
           /\ Names(<<j.cycle, j.item>>, j.reply.oid)
           /\ Tells(j.reply.status, j.reply.oid)
    /\ label \in {"fetch_recent", "fetch_fills", "record"} =>
           \A oid \in DOMAIN j.seen : orders[oid].key[2] \in j.cfg.symbols
    /\ label = "record" =>
           \A oid \in DOMAIN j.seen : j.seen[oid] \in FinalStatuses =>
               \A day \in orders[oid].fills : day >= j.since => <<oid, day>> \in j.trades

Knowledge == RowsTrue /\ \A p \in Procs : KnowsAt(pc[p], job[p])

\* What is final stays, so what a status tells goes on being true.
LEMMA TellsStays ==
    ASSUME OrdersKept, NEW status, NEW oid \in Oids, Tells(status, oid)
    PROVE  Tells(status, oid)'
  BY DEF OrdersKept, Tells, Final, NormalizeOrder

\* The status the adapter makes of an order tells the truth, and so does a
\* status that is not final.
LEMMA NormalizeTells ==
    /\ \A oid \in Oids : Tells(NormalizeOrder(orders[oid]), oid)
    /\ \A status \in UnresolvedStatuses : \A oid : Tells(status, oid)
  BY DEF Tells, Final, NormalizeOrder, ExchangeFinal, FinalStatuses, UnresolvedStatuses

\* What a run knows stays true while other steps are taken.
LEMMA KnowsStays ==
    ASSUME OrdersKept, NEW label, NEW j, DOMAIN j.seen \subseteq Oids, KnowsAt(label, j)
    PROVE  KnowsAt(label, j)'
<1>1. \A oid \in DOMAIN j.seen : Tells(j.seen[oid], oid)'
  BY TellsStays DEF KnowsAt
<1>2. label = "register" => Names(<<j.cycle, j.item>>, j.reply.oid)' /\
                             Tells(j.reply.status, j.reply.oid)'
  BY TellsStays DEF KnowsAt, Names, OrdersKept
<1>3. \A oid \in DOMAIN j.seen : orders'[oid].key = orders[oid].key
  BY DEF OrdersKept
<1>4. \A oid \in DOMAIN j.seen : j.seen[oid] \in FinalStatuses => orders'[oid] = orders[oid]
  BY DEF OrdersKept, KnowsAt, Tells
<1> QED
  BY <1>1, <1>2, <1>3, <1>4 DEF KnowsAt

\* So do the rows while none is written.
LEMMA RowsStayTrue ==
    ASSUME OrdersKept, RowsTrue, rows' = rows
    PROVE  RowsTrue'
<1> SUFFICES ASSUME NEW key \in DOMAIN rows
             PROVE  /\ rows[key].oid # NoOid => /\ Names(key, rows[key].oid)'
                                                /\ Tells(rows[key].status, rows[key].oid)'
                    /\ rows[key].oid = NoOid => rows[key].status \in UnresolvedStatuses
  BY DEF RowsTrue, Names, Tells, Final
<1>1. PICK oid, status : oid = rows[key].oid /\ status = rows[key].status
  OBVIOUS
<1>2. oid # NoOid => Names(key, oid)' /\ Tells(status, oid)'
  BY <1>1, TellsStays DEF RowsTrue, Names, OrdersKept
<1>3. rows'[key].oid = oid /\ rows'[key].status = status
  BY <1>1
<1> QED
  BY <1>1, <1>2, <1>3 DEF RowsTrue, Names, Tells, Final

\* A step of one run keeps what all know, if the run knows what it must at the
\* label it goes on to and the rows stay true.
LEMMA KnowledgeGoesOn ==
    ASSUME TypeOK, Knowledge, OrdersKept, NEW p \in Procs, NEW label, NEW j,
           Continue(p, label, j), KnowsAt(label, j)', RowsTrue'
    PROVE  Knowledge'
<1>1. /\ pc'[p] = label /\ job'[p] = j
      /\ \A q \in Procs \ {p} : pc'[q] = pc[q] /\ job'[q] = job[q]
  BY OtherRuns
<1>2. ASSUME NEW q \in Procs
      PROVE  KnowsAt(pc[q], job[q])'
  <2>1. CASE q = p
    BY <1>1, <2>1 DEF KnowsAt
  <2>2. CASE q # p
    <3>1. PICK l, k : l = pc[q] /\ k = job[q]
      OBVIOUS
    <3>2. DOMAIN k.seen \subseteq Oids
      BY <3>1 DEF TypeOK, ProcessesTyped, IsJob
    <3>3. KnowsAt(l, k)'
      BY <3>1, <3>2, KnowsStays DEF Knowledge
    <3> QED
      BY <1>1, <2>2, <3>1, <3>3 DEF KnowsAt
  <2> QED
    BY <2>1, <2>2
<1> QED
  BY <1>2 DEF Knowledge

\* The labels at which a run knows more than the statuses it has fetched.
KnowingLabels == {"register", "fetch_recent", "fetch_fills", "record"}

\* A step that writes no row and comes to no such label learns nothing.
LEMMA LearnsNothing ==
    ASSUME TypeOK, Knowledge, OrdersKept, NEW p \in Procs, NEW label, NEW j,
           Continue(p, label, j), label \notin KnowingLabels,
           j.seen = job[p].seen \/ j.seen = << >>, rows' = rows
    PROVE  Knowledge'
<1>1. DOMAIN j.seen \subseteq Oids
  BY DEF TypeOK, ProcessesTyped, IsJob
<1>2. \A oid \in DOMAIN j.seen : Tells(j.seen[oid], oid)
  <2>1. CASE j.seen = << >>
    BY <2>1
  <2>2. CASE j.seen = job[p].seen
    BY <2>2 DEF Knowledge, KnowsAt
  <2> QED
    BY <2>1, <2>2
<1>3. KnowsAt("idle", j)
  BY <1>2 DEF KnowsAt
<1>4. KnowsAt("idle", j)'
  BY <1>1, <1>3, KnowsStays
<1>5. KnowsAt(label, j)'
  BY <1>4 DEF KnowsAt, KnowingLabels
<1>6. RowsTrue'
  BY RowsStayTrue DEF Knowledge
<1> QED
  BY <1>5, <1>6, KnowledgeGoesOn

\* The same for a run that ends.
LEMMA EndLearnsNothing ==
    ASSUME TypeOK, Knowledge, OrdersKept, NEW p \in Procs, End(p), rows' = rows
    PROVE  Knowledge'
<1>1. PICK j : j = NoJob
  OBVIOUS
<1>2. j.seen = << >> /\ Continue(p, "idle", j)
  BY <1>1 DEF NoJob, End
<1> QED
  BY <1>2, LearnsNothing DEF KnowingLabels

\* The same for a run that goes on with its locals as they are.
LEMMA GotoLearnsNothing ==
    ASSUME TypeOK, Knowledge, OrdersKept, NEW p \in Procs, NEW label,
           Goto(p, label), UNCHANGED job, label \notin KnowingLabels, rows' = rows
    PROVE  Knowledge'
<1>1. PICK j : j = job[p]
  OBVIOUS
<1>2. Continue(p, label, j)
  BY <1>1 DEF Continue, TypeOK, ProcessesTyped
<1> QED
  BY <1>1, <1>2, LearnsNothing

\* A run that has not created its cycle learns nothing of orders.
LEMMA EarlyKnowledge ==
    ASSUME TypeOK, Rest, Knowledge, OrdersKept, NEW p \in Procs, BeforeCycle(p)
    PROVE  Knowledge'
<1>1. PICK label, j : EarlyMove(p, label, j)
  BY EarlyMoves
<1>2. Continue(p, label, j) /\ rows' = rows /\ label \notin KnowingLabels
  BY <1>1 DEF EarlyMove, KnowingLabels, ledgerVars, PersistSimulation, CreateCycleWithOrders
<1>3. j.seen = job[p].seen \/ j.seen = << >>
  <2>1. NoJob.seen = << >>
    BY DEF NoJob
  <2> QED
    BY <1>1, <2>1 DEF EarlyMove, Keeps
<1> QED
  BY <1>2, <1>3, LearnsNothing

\* The response to a submission names the order that was put there.
LEMMA SubmitKnowledge ==
    ASSUME TypeOK, Rest, Knowledge, OrdersKept, NEW p \in Procs, Submits(p)
    PROVE  Knowledge'
<1>1. PICK label, item, j, order : SubmitsItem(p, label, item, j, order)
  BY SubmitEffect
<1>2. /\ Continue(p, label, j) /\ rows' = rows /\ pc[p] = "submit"
      /\ label \in {"register", "timeout", "rejected"}
      /\ order \in Orders /\ order.key = <<job[p].cycle, item>>
  BY <1>1 DEF SubmitsItem, ledgerVars
<1>3. IsJob(job[p])
  BY <1>2, RunningJob
<1>4. j.seen = job[p].seen /\ j.item = item /\ j.cycle = job[p].cycle
  <2>1. j = [job[p] EXCEPT !.item = item, !.todo = @ \ {item}, !.reply = j.reply]
    BY <1>1 DEF SubmitsItem
  <2> QED
    BY <1>3, <2>1 DEF IsJob
<1>5. CASE label # "register"
  BY <1>2, <1>4, <1>5, LearnsNothing DEF KnowingLabels
<1>6. CASE label = "register"
  <2>1. PICK oid, status : oid = j.reply.oid /\ status = j.reply.status
    OBVIOUS
  <2>2. /\ orders' = Append(orders, order) /\ oid = Len(orders) + 1
        /\ status \in {NormalizeOrder(order), "unknown"}
    BY <1>1, <1>6, <2>1 DEF SubmitsItem
  <2>3. oid \in Oids' /\ orders'[oid] = order
    BY <1>2, <2>2, OrderAppended
  <2>4. Names(<<j.cycle, j.item>>, oid)'
    BY <1>2, <1>4, <2>3 DEF Names
  <2>5. Tells(status, oid)'
    <3>1. CASE status = "unknown"
      BY <3>1 DEF Tells, FinalStatuses
    <3>2. CASE status = NormalizeOrder(order)
      BY <2>3, <3>2 DEF Tells, Final, NormalizeOrder, ExchangeFinal, FinalStatuses
    <3> QED
      BY <2>2, <3>1, <3>2
  <2>6. \A o \in DOMAIN j.seen : Tells(j.seen[o], o)'
    <3>1. DOMAIN job[p].seen \subseteq Oids
      BY <1>3 DEF IsJob
    <3>2. ASSUME NEW o \in DOMAIN j.seen
          PROVE  Tells(j.seen[o], o)'
      <4>1. Tells(j.seen[o], o)
        BY <1>4 DEF Knowledge, KnowsAt
      <4> QED
        BY <1>4, <3>1, <4>1, TellsStays
    <3> QED
      BY <3>2
  <2>7. KnowsAt(label, j)'
    BY <1>6, <2>1, <2>4, <2>5, <2>6 DEF KnowsAt
  <2>8. RowsTrue'
    BY <1>2, RowsStayTrue DEF Knowledge
  <2> QED
    BY <1>2, <2>7, <2>8, KnowledgeGoesOn
<1> QED
  BY <1>5, <1>6

\* A new row names the order of the run that writes it, or none.
LEMMA RegisterKnowledge ==
    ASSUME TypeOK, Rest, Knowledge, OrdersKept, NEW p \in Procs,
           Register(p) \/ RegisterTimeout(p)
    PROVE  Knowledge'
<1>1. PICK label, oid, status :
          /\ RegisterRow(p, label, oid, status) /\ label \notin KnowingLabels
          /\ pc[p] = "register" => oid = job[p].reply.oid /\ status = job[p].reply.status
          /\ pc[p] = "timeout" => oid = NoOid /\ status = "unknown"
          /\ pc[p] \in {"register", "timeout"}
  <2>1. CASE Register(p)
    <3>1. PICK oid, status : oid = job[p].reply.oid /\ status = job[p].reply.status
      OBVIOUS
    <3>2. RegisterRow(p, "mark_submitted", oid, status) /\ pc[p] = "register"
      BY <2>1, <3>1 DEF Register
    <3> QED
      BY <3>1, <3>2 DEF KnowingLabels
  <2>2. CASE RegisterTimeout(p)
    <3>1. RegisterRow(p, "timeout_planned", NoOid, "unknown") /\ pc[p] = "timeout"
      BY <2>2 DEF RegisterTimeout
    <3> QED
      BY <3>1 DEF KnowingLabels
  <2> QED
    BY <2>1, <2>2
<1>2. IsJob(job[p])
  BY <1>1, RunningJob
<1>3. CASE End(p) /\ UNCHANGED ledgerVars
  BY <1>3, EndLearnsNothing DEF ledgerVars
<1>4. CASE RegisterExchangeOrder(Key(p), oid, status) /\ Goto(p, label) /\ UNCHANGED job
  <2>1. PICK j, key, row : /\ j = job[p] /\ key = <<job[p].cycle, job[p].item>>
                           /\ row = [oid |-> oid, status |-> status]
    OBVIOUS
  <2>2. Continue(p, label, j)
    BY <1>4, <2>1 DEF Continue, TypeOK, ProcessesTyped
  <2>3. KnowsAt(label, j)'
    <3>1. KnowsAt("idle", j)
      BY <2>1 DEF Knowledge, KnowsAt
    <3>2. KnowsAt("idle", j)'
      BY <1>2, <2>1, <3>1, KnowsStays DEF IsJob
    <3> QED
      BY <1>1, <3>2 DEF KnowsAt, KnowingLabels
  <2>4. rows' = Put(rows, key, row)
    BY <1>4, <2>1 DEF RegisterExchangeOrder, Key
  <2>5. /\ DOMAIN rows' = DOMAIN rows \union {key} /\ rows'[key] = row
        /\ \A k \in DOMAIN rows \ {key} : rows'[k] = rows[k]
    BY <2>4 DEF Put
  <2>6. row.oid = oid /\ row.status = status
    BY <2>1
  <2>7. oid # NoOid => Names(key, oid) /\ Tells(status, oid)
    BY <1>1, <2>1 DEF Knowledge, KnowsAt
  <2>8. oid # NoOid => Names(key, oid)' /\ Tells(status, oid)'
    BY <2>7, TellsStays DEF Names, OrdersKept
  <2>9. oid = NoOid => status \in UnresolvedStatuses
    <3>1. CASE pc[p] = "timeout"
      BY <1>1, <3>1 DEF UnresolvedStatuses
    <3>2. CASE pc[p] = "register"
      <4>1. oid \in Oids
        BY <1>1, <3>2 DEF Knowledge, KnowsAt, Names
      <4>2. NoOid \notin Oids
        BY DEF TypeOK, ExchangeTyped, Oids, NoOid
      <4> QED
        BY <4>1, <4>2
    <3> QED
      BY <1>1, <3>1, <3>2
  <2>10. ASSUME NEW k \in DOMAIN rows \ {key}
         PROVE  /\ rows[k].oid # NoOid => /\ Names(k, rows[k].oid)'
                                          /\ Tells(rows[k].status, rows[k].oid)'
                /\ rows[k].oid = NoOid => rows[k].status \in UnresolvedStatuses
    <3>1. PICK o, s : o = rows[k].oid /\ s = rows[k].status
      OBVIOUS
    <3>2. o # NoOid => Names(k, o) /\ Tells(s, o)
      BY <3>1 DEF Knowledge, RowsTrue
    <3>3. o # NoOid => Names(k, o)' /\ Tells(s, o)'
      BY <3>2, TellsStays DEF Names, OrdersKept
    <3> QED
      BY <3>1, <3>3, <2>5 DEF Knowledge, RowsTrue, Names, Tells, Final
  <2>11. RowsTrue'
    BY <2>5, <2>6, <2>8, <2>9, <2>10 DEF RowsTrue, Names, Tells, Final
  <2> QED
    BY <2>2, <2>3, <2>11, KnowledgeGoesOn
<1> QED
  BY <1>1, <1>3, <1>4 DEF RegisterRow

\* What a run does to its cycle and its items it does without learning more.
LEMMA CycleKnowledge ==
    ASSUME TypeOK, Rest, Knowledge, OrdersKept, NEW p \in Procs,
           \/ MarkExecuting(p) \/ MarkSubmitted(p) \/ TimeoutStep(p) \/ RejectStep(p) \/ Finish(p)
    PROVE  Knowledge'
<1>1. CASE MarkExecuting(p)
  BY <1>1, GotoLearnsNothing DEF MarkExecuting, SetCycleStatus, KnowingLabels
<1>2. CASE MarkSubmitted(p)
  <2>1. IsJob(job[p])
    BY <1>2, RunningJob DEF MarkSubmitted
  <2>2. PICK none, reply : none = NoSymbol /\ reply = NoJob.reply
    OBVIOUS
  <2>3. PICK j : j = [job[p] EXCEPT !.item = none, !.reply = reply]
    OBVIOUS
  <2>4. PICK since : since = j.day - DefaultLookback
    OBVIOUS
  <2>5. PICK k : k = [j EXCEPT !.since = since]
    OBVIOUS
  <2>6. j.seen = job[p].seen /\ k.seen = job[p].seen
    BY <2>1, <2>3, <2>5 DEF IsJob
  <2>7. Continue(p, "submit", j) \/ Continue(p, "fetch_open", k)
    BY <1>2, <2>2, <2>3, <2>4, <2>5 DEF MarkSubmitted
  <2>8. rows' = rows
    BY <1>2 DEF MarkSubmitted, UpdatePlannedOrderStatus
  <2> QED
    BY <2>6, <2>7, <2>8, LearnsNothing DEF KnowingLabels
<1>3. CASE RegisterTimeout(p)
  BY <1>3, RegisterKnowledge
<1>4. ASSUME NEW from, NEW to, to \notin KnowingLabels, FailItem(p, from, to)
      PROVE  Knowledge'
  BY <1>4, GotoLearnsNothing DEF FailItem, UpdatePlannedOrderStatus
<1>5. ASSUME NEW from, NEW status, EndCycle(p, from, status)
      PROVE  Knowledge'
  BY <1>5, EndLearnsNothing DEF EndCycle, SetCycleStatus
<1> QED
  BY <1>1, <1>2, <1>3, <1>4, <1>5 DEF TimeoutStep, RejectStep, Finish, KnowingLabels

\* The first read: the orders that rest.
LEMMA FetchOpenKnowledge ==
    ASSUME TypeOK, Rest, Knowledge, OrdersKept, NEW p \in Procs, FetchOpen(p)
    PROVE  Knowledge'
<1>1. PICK seen : seen = FetchOpenOrders(job[p].cfg.symbols)
  OBVIOUS
<1>2. PICK j : j = [job[p] EXCEPT !.seen = seen]
  OBVIOUS
<1>3. Continue(p, "fetch_recent", j) /\ rows' = rows /\ orders' = orders
  BY <1>1, <1>2 DEF FetchOpen, ledgerVars, exchangeVars
<1>4. IsJob(job[p])
  BY RunningJob DEF FetchOpen
<1>5. j.seen = seen /\ j.cfg = job[p].cfg
  BY <1>2, <1>4 DEF IsJob
<1>6. \A oid \in DOMAIN seen : /\ oid \in Oids /\ orders[oid].key[2] \in job[p].cfg.symbols
                               /\ seen[oid] = NormalizeOrder(orders[oid])
  BY <1>1 DEF FetchOpenOrders
<1>7. KnowsAt("fetch_recent", j)
  BY <1>5, <1>6, NormalizeTells DEF KnowsAt
<1>8. DOMAIN j.seen \subseteq Oids
  BY <1>5, <1>6
<1> QED
  BY <1>3, <1>7, <1>8, KnowsStays, RowsStayTrue, KnowledgeGoesOn DEF Knowledge

\* The second: those that ended within the lookback.
LEMMA FetchRecentKnowledge ==
    ASSUME TypeOK, Rest, Knowledge, OrdersKept, NEW p \in Procs, FetchRecent(p)
    PROVE  Knowledge'
<1>1. PICK open, recent : /\ open = job[p].seen
                          /\ recent = FetchRecentOrders(job[p].cfg.symbols, job[p].since)
  OBVIOUS
<1>2. PICK seen : seen = Deduplicate(open, recent)
  OBVIOUS
<1>3. PICK j : j = [job[p] EXCEPT !.seen = seen]
  OBVIOUS
<1>4. /\ Continue(p, "fetch_fills", j) /\ rows' = rows /\ orders' = orders
      /\ pc[p] = "fetch_recent"
  BY <1>1, <1>2, <1>3 DEF FetchRecent, ledgerVars, exchangeVars
<1>5. IsJob(job[p])
  BY <1>4, RunningJob
<1>6. j.seen = seen /\ j.cfg = job[p].cfg
  BY <1>3, <1>5 DEF IsJob
<1>7. \A oid \in DOMAIN recent : /\ oid \in Oids /\ orders[oid].key[2] \in job[p].cfg.symbols
                                 /\ recent[oid] = NormalizeOrder(orders[oid])
  BY <1>1 DEF FetchRecentOrders
<1>8. \A oid \in DOMAIN open : /\ oid \in Oids /\ orders[oid].key[2] \in job[p].cfg.symbols
                               /\ Tells(open[oid], oid)
  BY <1>1, <1>4, <1>5 DEF IsJob, Knowledge, KnowsAt
<1>9. /\ DOMAIN seen = DOMAIN open \union DOMAIN recent
      /\ \A oid \in DOMAIN seen :
             seen[oid] = IF oid \in DOMAIN recent THEN recent[oid] ELSE open[oid]
  BY <1>2 DEF Deduplicate
<1>10. KnowsAt("fetch_fills", j)
  BY <1>6, <1>7, <1>8, <1>9, NormalizeTells DEF KnowsAt
<1>11. DOMAIN j.seen \subseteq Oids
  BY <1>6, <1>7, <1>8, <1>9
<1> QED
  BY <1>4, <1>10, <1>11, KnowsStays, RowsStayTrue, KnowledgeGoesOn DEF Knowledge

\* The third: the fills, of the orders found final before too.
LEMMA FetchFillsKnowledge ==
    ASSUME TypeOK, Rest, Knowledge, OrdersKept, NEW p \in Procs, FetchFills(p)
    PROVE  Knowledge'
<1>1. PICK trades : trades = FetchRecentFills(job[p].cfg.symbols, job[p].since)
  OBVIOUS
<1>2. PICK j : j = [job[p] EXCEPT !.trades = trades]
  OBVIOUS
<1>3. /\ Continue(p, "record", j) /\ rows' = rows /\ orders' = orders
      /\ pc[p] = "fetch_fills"
  BY <1>1, <1>2 DEF FetchFills, ledgerVars, exchangeVars
<1>4. IsJob(job[p])
  BY <1>3, RunningJob
<1>5. j.seen = job[p].seen /\ j.cfg = job[p].cfg /\ j.trades = trades /\ j.since = job[p].since
  BY <1>2, <1>4 DEF IsJob
<1>6. DOMAIN j.seen \subseteq Oids
  BY <1>4, <1>5 DEF IsJob
<1>7. \A oid \in DOMAIN j.seen : /\ Tells(j.seen[oid], oid)
                                 /\ orders[oid].key[2] \in job[p].cfg.symbols
  BY <1>3, <1>5 DEF Knowledge, KnowsAt
<1>8. ASSUME NEW oid \in DOMAIN j.seen, NEW day \in orders[oid].fills, day >= j.since
      PROVE  <<oid, day>> \in trades
  <2>1. orders[oid] \in Orders
    BY <1>6 DEF TypeOK, ExchangeTyped, Oids
  <2>2. day \in Days
    BY <2>1 DEF Orders
  <2> QED
    BY <1>1, <1>5, <1>6, <1>7, <1>8, <2>2 DEF FetchRecentFills
<1>9. KnowsAt("record", j)
  BY <1>5, <1>7, <1>8 DEF KnowsAt
<1> QED
  BY <1>3, <1>6, <1>9, KnowsStays, RowsStayTrue, KnowledgeGoesOn DEF Knowledge

\* What a reconciliation writes into a row: the order it found for it, and the
\* status it fetched.
LEMMA ReconciledRow ==
    ASSUME TypeOK, RowsTrue, NEW seen, DOMAIN seen \subseteq Oids, NEW key \in DOMAIN rows
    PROVE  \/ ReconciledRows(seen)[key] = rows[key]
           \/ \E oid \in DOMAIN seen :
                  /\ ReconciledRows(seen)[key] = [oid |-> oid, status |-> seen[oid]]
                  /\ Names(key, oid)
<1> DEFINE found == {oid \in DOMAIN seen : FindExchangeOrder(key, oid)}
<1>1. CASE found = {}
  BY <1>1 DEF ReconciledRows
<1>2. CASE found # {}
  <2>1. PICK oid \in found : ReconciledRows(seen)[key] = [oid |-> oid, status |-> seen[oid]]
    BY <1>2 DEF ReconciledRows
  <2>2. oid \in Oids /\ oid # NoOid
    BY <2>1 DEF TypeOK, ExchangeTyped, Oids, NoOid
  <2>3. Names(key, oid)
    BY <2>1, <2>2 DEF FindExchangeOrder, RowsTrue, Names
  <2> QED
    BY <2>1, <2>3
<1> QED
  BY <1>1, <1>2

\* The transaction writes true statuses over true ones.
LEMMA RecordKnowledge ==
    ASSUME TypeOK, Rest, Knowledge, OrdersKept, NEW p \in Procs, Record(p)
    PROVE  Knowledge'
<1>1. PICK seen, none : seen = job[p].seen /\ none = {}
  OBVIOUS
<1>2. PICK j : j = [job[p] EXCEPT !.trades = none]
  OBVIOUS
<1>3. /\ Continue(p, "summarise", j) /\ rows' = ReconciledRows(seen) /\ orders' = orders
      /\ pc[p] = "record"
  BY <1>1, <1>2 DEF Record, RecordReconciliation, exchangeVars
<1>4. IsJob(job[p])
  BY <1>3, RunningJob
<1>5. j.seen = seen /\ DOMAIN seen \subseteq Oids
  BY <1>1, <1>2, <1>4 DEF IsJob
<1>6. \A oid \in DOMAIN seen : Tells(seen[oid], oid)
  BY <1>1 DEF Knowledge, KnowsAt
<1>7. KnowsAt("summarise", j)
  BY <1>5, <1>6 DEF KnowsAt
<1>8. KnowsAt("summarise", j)'
  BY <1>5, <1>7, KnowsStays
<1>9. DOMAIN rows' = DOMAIN rows
  BY <1>3 DEF ReconciledRows
<1>10. RowsTrue
  BY DEF Knowledge
<1>11. ASSUME NEW key \in DOMAIN rows
       PROVE  /\ rows'[key].oid # NoOid => /\ Names(key, rows'[key].oid)
                                           /\ Tells(rows'[key].status, rows'[key].oid)
              /\ rows'[key].oid = NoOid => rows'[key].status \in UnresolvedStatuses
  <2>1. CASE rows'[key] = rows[key]
    BY <1>10, <2>1 DEF RowsTrue
  <2>2. CASE \E oid \in DOMAIN seen : rows'[key] = [oid |-> oid, status |-> seen[oid]]
                                      /\ Names(key, oid)
    <3>1. PICK oid \in DOMAIN seen : rows'[key] = [oid |-> oid, status |-> seen[oid]]
                                     /\ Names(key, oid)
      BY <2>2
    <3>2. NoOid \notin Oids
      BY DEF TypeOK, ExchangeTyped, Oids, NoOid
    <3> QED
      BY <1>5, <1>6, <3>1, <3>2
  <2> QED
    BY <1>3, <1>5, <1>10, <2>1, <2>2, ReconciledRow
<1>12. RowsTrue'
  BY <1>3, <1>9, <1>11 DEF RowsTrue, Names, Tells, Final, Oids
<1> QED
  BY <1>3, <1>8, <1>12, KnowledgeGoesOn

\* The summary forgets what was fetched.
LEMMA SummariseKnowledge ==
    ASSUME TypeOK, Rest, Knowledge, OrdersKept, NEW p \in Procs, Summarise(p)
    PROVE  Knowledge'
<1>1. rows' = rows
  BY DEF Summarise, ledgerVars
<1>2. CASE End(p)
  BY <1>1, <1>2, EndLearnsNothing
<1>3. CASE ~End(p)
  <2>1. PICK none : none = << >>
    OBVIOUS
  <2>2. PICK j : j = [job[p] EXCEPT !.seen = none]
    OBVIOUS
  <2>3. Continue(p, "finish_partial", j) \/ Continue(p, "finish_completed", j)
    BY <1>3, <2>1, <2>2 DEF Summarise
  <2>4. IsJob(job[p])
    BY RunningJob DEF Summarise
  <2>5. j.seen = << >>
    BY <2>1, <2>2, <2>4 DEF IsJob
  <2> QED
    BY <1>1, <2>3, <2>5, LearnsNothing DEF KnowingLabels
<1> QED
  BY <1>2, <1>3

\* Every step keeps what the ledger and the runs know true.
LEMMA KnowledgeStep == IInv /\ Knowledge /\ [Next]_vars => Knowledge'
<1> SUFFICES ASSUME TypeOK, Rest, Knowledge, OrdersKept, [Next]_vars PROVE Knowledge'
  BY OrdersKeep DEF IInv, Rest
<1>1. CASE UNCHANGED <<ledgerVars, pc, job, reported, simulated, Oids>>
  <2>1. rows' = rows /\ pc' = pc /\ job' = job
    BY <1>1 DEF ledgerVars
  <2>2. ASSUME NEW q \in Procs
        PROVE  KnowsAt(pc[q], job[q])'
    <3>1. PICK l, k : l = pc[q] /\ k = job[q]
      OBVIOUS
    <3>2. DOMAIN k.seen \subseteq Oids
      BY <3>1 DEF TypeOK, ProcessesTyped, IsJob
    <3>3. KnowsAt(l, k)'
      BY <3>1, <3>2, KnowsStays DEF Knowledge
    <3> QED
      BY <2>1, <3>1, <3>3 DEF KnowsAt
  <2> QED
    BY <2>1, <2>2, RowsStayTrue DEF Knowledge
<1>2. ASSUME NEW p \in Procs, RunStep(p)
      PROVE  Knowledge'
  BY <1>2, RegisterKnowledge, CycleKnowledge, FetchOpenKnowledge, FetchRecentKnowledge,
     FetchFillsKnowledge, RecordKnowledge, SummariseKnowledge DEF RunStep, ReconcileStep
<1> QED
  BY <1>1, <1>2, StepKinds, RunSteps, SubmitKnowledge, EarlyKnowledge

\* What the ledger's rows and the runs' locals say of orders is always true.
LEMMA KnowledgeAlways == Spec => []Knowledge
<1>1. Init => Knowledge
  <2> SUFFICES ASSUME Init PROVE Knowledge
    OBVIOUS
  <2>1. DOMAIN rows = {} /\ \A p \in Procs : pc[p] = "idle" /\ job[p] = NoJob
    BY DEF Init, LedgerInit
  <2>2. DOMAIN NoJob.seen = {}
    BY DEF NoJob
  <2> QED
    BY <2>1, <2>2 DEF Knowledge, RowsTrue, KnowsAt
<1> QED
  BY <1>1, KnowledgeStep, Invariance, PTL DEF Spec

\* A row that the ledger counts as resolved names an order of its pair that has
\* ended on the exchange, in every state: no order that can still trade is taken
\* for done.
THEOREM ResolvedIsEnded == Spec => []ResolvedIsFinal
<1>1. IInv /\ Knowledge => ResolvedIsFinal
  <2> SUFFICES ASSUME TypeOK, RowsTrue, NEW key \in DOMAIN rows \ UnresolvedRows
               PROVE  Names(key, rows[key].oid) /\ Final(rows[key].oid)
    BY DEF IInv, Knowledge, ResolvedIsFinal, Names
  <2>1. rows[key].status \in OrderStatuses \ UnresolvedStatuses
    BY DEF UnresolvedRows, TypeOK, LedgerTyped, Rows
  <2>2. rows[key].status \in FinalStatuses
    BY <2>1 DEF OrderStatuses
  <2>3. rows[key].oid # NoOid
    BY <2>1 DEF RowsTrue
  <2> QED
    BY <2>2, <2>3 DEF RowsTrue, Tells
<1> QED
  BY <1>1, Invariance, KnowledgeAlways, PTL

\* Only the transaction of a reconciliation takes a run past its reads.
LEMMA OnlyRecord ==
    ASSUME TypeOK, Rest, [Next]_vars, NEW p \in Procs, pc[p] = "record", pc'[p] = "summarise"
    PROVE  Record(p)
<1>1. CASE UNCHANGED pc
  BY <1>1
<1>2. ASSUME NEW q \in Procs, Submits(q)
      PROVE  FALSE
  <2>1. PICK label, item, j, order : SubmitsItem(q, label, item, j, order)
    BY <1>2, SubmitEffect
  <2>2. Continue(q, label, j) /\ pc[q] = "submit"
    BY <2>1 DEF SubmitsItem
  <2> QED
    BY <2>2, OtherRuns
<1>3. ASSUME NEW q \in Procs, BeforeCycle(q)
      PROVE  FALSE
  <2>1. PICK label, j : EarlyMove(q, label, j)
    BY <1>3, EarlyMoves
  <2>2. Continue(q, label, j) /\ label # "summarise"
    BY <2>1 DEF EarlyMove
  <2> QED
    BY <2>2, OtherRuns
<1>4. ASSUME NEW q \in Procs, RunStep(q)
      PROVE  q = p
  <2>1. PICK label, j : CarriesOn(q, label, j)
    BY <1>4, RunCarriesOn
  <2> QED
    BY <2>1, OtherRuns DEF CarriesOn
<1>5. RunStep(p) => Record(p)
  BY DEF RunStep, MarkExecuting, Register, MarkSubmitted, TimeoutStep, RegisterTimeout, RejectStep,
         Finish, FailItem, EndCycle, ReconcileStep, FetchOpen, FetchRecent, FetchFills, Summarise
<1> QED
  BY <1>1, <1>2, <1>3, <1>4, <1>5, StepKinds, RunSteps

\* When a reconciliation comes to hold an order for final, every fill of it
\* within the lookback is in the ledger: orders are fetched before fills, and an
\* order gets no more fills after its end.
THEOREM FillsCome == Spec => FillsWithOrders
<1>1. IInv /\ Knowledge /\ [Next]_vars =>
          [\A key \in UnresolvedRows, p \in Procs :
               /\ pc[p] = "record" /\ pc'[p] = "summarise"
               /\ rows'[key].status \in FinalStatuses
               => \A day \in orders[rows'[key].oid].fills :
                      day >= job[p].since => <<rows'[key].oid, day>> \in fills']_vars
  <2> SUFFICES ASSUME TypeOK, Rest, Knowledge, [Next]_vars,
                      NEW key \in UnresolvedRows, NEW p \in Procs,
                      pc[p] = "record", pc'[p] = "summarise",
                      rows'[key].status \in FinalStatuses,
                      NEW day \in orders[rows'[key].oid].fills, day >= job[p].since
               PROVE  <<rows'[key].oid, day>> \in fills'
    BY DEF IInv, Rest
  <2>1. RecordReconciliation(job[p].seen, job[p].trades)
    BY OnlyRecord DEF Record
  <2>2. PICK seen, trades : seen = job[p].seen /\ trades = job[p].trades
    OBVIOUS
  <2>3. DOMAIN seen \subseteq Oids
    BY <2>2, RunningJob DEF IsJob
  <2>4. /\ key \in DOMAIN rows /\ rows[key].status \in UnresolvedStatuses
        /\ rows'[key] = ReconciledRows(seen)[key]
    BY <2>1, <2>2 DEF RecordReconciliation, UnresolvedRows
  <2>5. rows'[key] # rows[key]
    BY <2>4 DEF UnresolvedStatuses, FinalStatuses
  <2>6. PICK oid \in DOMAIN seen : rows'[key] = [oid |-> oid, status |-> seen[oid]]
    BY <2>3, <2>4, <2>5, ReconciledRow DEF Knowledge
  <2>7. seen[oid] \in FinalStatuses /\ rows'[key].oid = oid
    BY <2>6
  <2>8. <<oid, day>> \in trades
    BY <2>2, <2>6, <2>7 DEF Knowledge, KnowsAt
  <2>9. <<oid, day>> \in RecordedFills(seen, trades)
    BY <2>4, <2>7, <2>8 DEF RecordedFills
  <2> QED
    BY <2>1, <2>2, <2>7, <2>9 DEF RecordReconciliation
<1> QED
  BY <1>1, Invariance, KnowledgeAlways, PTL DEF Spec, FillsWithOrders

-----------------------------------------------------------------------------
(* Rows and cycles: what a step may change of them.                        *)

\* Rows stay, and so does the order a row names.
RowsKept ==
    /\ DOMAIN rows \subseteq DOMAIN rows'
    /\ \A key \in DOMAIN rows : rows[key].oid # NoOid => rows'[key].oid = rows[key].oid

\* A run in its cycle writes rows in two transactions only.
LEMMA RowSteps ==
    ASSUME NEW p \in Procs, RunStep(p)
    PROVE  rows' = rows \/ Register(p) \/ RegisterTimeout(p) \/ Record(p)
<1>1. CASE MarkExecuting(p) \/ MarkSubmitted(p) \/ RejectStep(p) \/ Finish(p)
  BY <1>1 DEF MarkExecuting, MarkSubmitted, RejectStep, Finish, FailItem, EndCycle,
              SetCycleStatus, UpdatePlannedOrderStatus
<1>2. CASE TimeoutStep(p)
  BY <1>2 DEF TimeoutStep, FailItem, EndCycle, SetCycleStatus, UpdatePlannedOrderStatus
<1>3. CASE ReconcileStep(p)
  BY <1>3 DEF ReconcileStep, FetchOpen, FetchRecent, FetchFills, Summarise, ledgerVars
<1> QED
  BY <1>1, <1>2, <1>3 DEF RunStep

\* A registration adds the row of the item in hand, if it had none, or ends the
\* run.
LEMMA RegisterEffect ==
    ASSUME NEW p \in Procs, Register(p) \/ RegisterTimeout(p)
    PROVE  \/ End(p) /\ UNCHANGED ledgerVars
           \/ \E label, row :
                  /\ label \in {"mark_submitted", "timeout_planned"}
                  /\ pc[p] = "register" => label = "mark_submitted" /\ row.oid = job[p].reply.oid
                  /\ pc[p] = "timeout" => label = "timeout_planned"
                  /\ Goto(p, label) /\ UNCHANGED job
                  /\ Key(p) \notin DOMAIN rows /\ rows' = Put(rows, Key(p), row)
                  /\ UNCHANGED <<cycles, planned, fills, activation>>
<1>1. ASSUME NEW label, NEW oid, NEW status, RegisterRow(p, label, oid, status),
             ~(End(p) /\ UNCHANGED ledgerVars)
      PROVE  \E row : /\ row.oid = oid /\ Goto(p, label) /\ UNCHANGED job
                      /\ Key(p) \notin DOMAIN rows /\ rows' = Put(rows, Key(p), row)
                      /\ UNCHANGED <<cycles, planned, fills, activation>>
  <2>1. PICK row : row = [oid |-> oid, status |-> status]
    OBVIOUS
  <2>2. row.oid = oid
    BY <2>1
  <2> QED
    BY <1>1, <2>1, <2>2 DEF RegisterRow, RegisterConflicts, RegisterExchangeOrder
<1>2. CASE Register(p)
  <2>1. PICK oid, status : oid = job[p].reply.oid /\ status = job[p].reply.status
    OBVIOUS
  <2>2. RegisterRow(p, "mark_submitted", oid, status) /\ pc[p] = "register"
    BY <1>2, <2>1 DEF Register
  <2> QED
    BY <1>1, <2>1, <2>2
<1>3. CASE RegisterTimeout(p)
  <2>1. RegisterRow(p, "timeout_planned", NoOid, "unknown") /\ pc[p] = "timeout"
    BY <1>3 DEF RegisterTimeout
  <2> QED
    BY <1>1, <2>1
<1> QED
  BY <1>2, <1>3

\* No step takes a row away or gives it another order.
LEMMA RowsKeep == IInv /\ Knowledge /\ [Next]_vars => RowsKept
<1> SUFFICES ASSUME TypeOK, Rest, Knowledge, [Next]_vars PROVE RowsKept
  BY DEF IInv, Rest
<1>1. CASE rows' = rows
  BY <1>1 DEF RowsKept
<1>2. CASE UNCHANGED <<ledgerVars, pc, job, reported, simulated, Oids>>
  BY <1>1, <1>2 DEF ledgerVars
<1>3. ASSUME NEW p \in Procs, Submits(p)
      PROVE  RowsKept
  BY <1>1, <1>3, SubmitEffect DEF SubmitsItem, ledgerVars
<1>4. ASSUME NEW p \in Procs, BeforeCycle(p)
      PROVE  RowsKept
  <2>1. PICK label, j : EarlyMove(p, label, j)
    BY <1>4, EarlyMoves
  <2>2. rows' = rows
    BY <2>1 DEF EarlyMove, ledgerVars, PersistSimulation, CreateCycleWithOrders
  <2> QED
    BY <1>1, <2>2
<1>5. ASSUME NEW p \in Procs, Register(p) \/ RegisterTimeout(p)
      PROVE  RowsKept
  <2>1. PICK key, row :
            rows' = rows \/ (key \notin DOMAIN rows /\ rows' = Put(rows, key, row))
    BY <1>5, RegisterEffect DEF ledgerVars
  <2>2. CASE key \notin DOMAIN rows /\ rows' = Put(rows, key, row)
    BY <2>2 DEF RowsKept, Put
  <2> QED
    BY <1>1, <2>1, <2>2
<1>6. ASSUME NEW p \in Procs, Record(p)
      PROVE  RowsKept
  <2>1. PICK seen : seen = job[p].seen
    OBVIOUS
  <2>2. rows' = ReconciledRows(seen) /\ pc[p] = "record"
    BY <1>6, <2>1 DEF Record, RecordReconciliation
  <2>3. DOMAIN rows' = DOMAIN rows
    BY <2>2 DEF ReconciledRows
  <2>4. DOMAIN seen \subseteq Oids
    BY <2>1, <2>2, RunningJob DEF IsJob
  <2>5. ASSUME NEW key \in DOMAIN rows, rows[key].oid # NoOid
        PROVE  rows'[key].oid = rows[key].oid
    <3>1. CASE rows'[key] = rows[key]
      BY <3>1
    <3>2. CASE \E oid \in DOMAIN seen : /\ rows'[key] = [oid |-> oid, status |-> seen[oid]]
                                        /\ Names(key, oid)
      <4>1. PICK oid \in DOMAIN seen : /\ rows'[key] = [oid |-> oid, status |-> seen[oid]]
                                       /\ Names(key, oid)
        BY <3>2
      <4>2. Names(key, rows[key].oid)
        BY <2>5 DEF Knowledge, RowsTrue
      <4>3. oid = rows[key].oid
        BY <4>1, <4>2 DEF Names, Rest, NoDoubleSell
      <4> QED
        BY <4>1, <4>3
    <3> QED
      BY <2>2, <2>4, <3>1, <3>2, ReconciledRow DEF Knowledge
  <2> QED
    BY <2>3, <2>5 DEF RowsKept
<1> QED
  BY <1>1, <1>2, <1>3, <1>4, <1>5, <1>6, StepKinds, RunSteps, RowSteps

-----------------------------------------------------------------------------
(* How far a cycle has come.                                               *)

\* The item has a row that names its order.
HasRow(cycle, symbol) ==
    <<cycle, symbol>> \in DOMAIN rows /\ rows[<<cycle, symbol>>].oid # NoOid

Sold(cycle, symbol) == planned[cycle][symbol] = "submitted" /\ HasRow(cycle, symbol)

\* All that the cycle planned to sell has been submitted and has ended.
Settled(cycle) ==
    \A symbol \in DOMAIN planned[cycle] :
        planned[cycle][symbol] # "skipped" =>
            Sold(cycle, symbol) /\ Final(rows[<<cycle, symbol>>].oid)

\* A run in its cycle: each item that the plan does not skip is left to submit,
\* in hand, or submitted with its row; what is left has no row yet.
SellsOn(label, j) ==
    /\ cycles[j.cycle] # "completed"
    /\ \A symbol \in DOMAIN planned[j.cycle] :
           \/ planned[j.cycle][symbol] = "skipped"
           \/ symbol \in j.todo
           \/ label \in LoopLabels /\ symbol = j.item
           \/ Sold(j.cycle, symbol)
    /\ \A symbol \in j.todo : <<j.cycle, symbol>> \notin DOMAIN rows
    /\ label \in {"register", "timeout"} => <<j.cycle, j.item>> \notin DOMAIN rows
    /\ label = "mark_submitted" => HasRow(j.cycle, j.item)
    /\ label = "finish_completed" => Settled(j.cycle)

ProgressAt(label, j) ==
    /\ label = "create" => \A symbol \in DOMAIN j.plan : j.plan[symbol] # "blocked"
    /\ label \in ReconcileLabels \union {"finish_partial", "finish_completed"} => j.todo = {}
    /\ ExecutingAt(label, j) => SellsOn(label, j)

RowsOfCycles == \A key \in DOMAIN rows : key[1] \in DOMAIN cycles

Progress ==
    /\ RowsOfCycles
    /\ \A p \in Procs : ProgressAt(pc[p], job[p])
    /\ \A cycle \in CompletedCycles : Settled(cycle)

\* A step that leaves a cycle of the ledger alone.
Untouched(cycle) ==
    /\ cycle \in DOMAIN cycles' /\ cycles'[cycle] = cycles[cycle]
    /\ planned'[cycle] = planned[cycle]
    /\ \A symbol : <<cycle, symbol>> \in DOMAIN rows' <=> <<cycle, symbol>> \in DOMAIN rows

\* A row that names an order goes on naming it.
LEMMA HasRowStays ==
    ASSUME RowsKept, NEW cycle, NEW symbol, HasRow(cycle, symbol)
    PROVE  HasRow(cycle, symbol)'
  BY DEF RowsKept, HasRow

\* A settled cycle that is left alone stays settled.
LEMMA SettledStays ==
    ASSUME RowsTrue, RowsKept, OrdersKept, NEW cycle, Settled(cycle),
           planned'[cycle] = planned[cycle]
    PROVE  Settled(cycle)'
<1> SUFFICES ASSUME NEW symbol \in DOMAIN planned[cycle], planned[cycle][symbol] # "skipped"
             PROVE  Sold(cycle, symbol)' /\ Final(rows[<<cycle, symbol>>].oid)'
  BY DEF Settled
<1>1. Sold(cycle, symbol) /\ Final(rows[<<cycle, symbol>>].oid)
  BY DEF Settled
<1>2. Sold(cycle, symbol)'
  BY <1>1, HasRowStays DEF Sold
<1>3. PICK oid : oid = rows[<<cycle, symbol>>].oid
  OBVIOUS
<1>4. rows'[<<cycle, symbol>>].oid = oid /\ oid \in Oids /\ Final(oid)
  BY <1>1, <1>3 DEF Sold, HasRow, RowsKept, RowsTrue, Names
<1>5. orders'[oid] = orders[oid]
  BY <1>4 DEF OrdersKept
<1> QED
  BY <1>2, <1>4, <1>5 DEF Final

\* A run's progress stays while others leave its cycle alone.
LEMMA ProgressStays ==
    ASSUME RowsTrue, RowsKept, OrdersKept, NEW label, NEW j, ProgressAt(label, j),
           ExecutingAt(label, j) => Untouched(j.cycle)
    PROVE  ProgressAt(label, j)'
<1>1. SUFFICES ASSUME ExecutingAt(label, j)
               PROVE  SellsOn(label, j)'
  BY DEF ProgressAt, ExecutingAt
<1>2. SellsOn(label, j) /\ Untouched(j.cycle)
  BY <1>1 DEF ProgressAt
<1>3. \A symbol : Sold(j.cycle, symbol) => Sold(j.cycle, symbol)'
  BY <1>2, HasRowStays DEF Sold, Untouched
<1>4. label = "mark_submitted" => HasRow(j.cycle, j.item)'
  BY <1>2, HasRowStays DEF SellsOn
<1>5. label = "finish_completed" => Settled(j.cycle)'
  BY <1>2, SettledStays DEF SellsOn, Untouched
<1> QED
  BY <1>2, <1>3, <1>4, <1>5 DEF SellsOn, Untouched

\* A step of one run keeps the progress of all, if it touches no cycle but its
\* own, completes that only when it is settled, and goes on as it must.
LEMMA ProgressGoesOn ==
    ASSUME TypeOK, Rest, Knowledge, Progress, OrdersKept, RowsKept,
           NEW p \in Procs, NEW label, NEW j, Continue(p, label, j),
           ProgressAt(label, j)', RowsOfCycles',
           \A cycle \in DOMAIN cycles :
               Untouched(cycle) \/ (Executing(p) /\ cycle = job[p].cycle /\ cycle \in DOMAIN cycles'),
           \A cycle \in CompletedCycles' \ CompletedCycles : Settled(cycle)'
    PROVE  Progress'
<1>1. /\ pc'[p] = label /\ job'[p] = j
      /\ \A q \in Procs \ {p} : pc'[q] = pc[q] /\ job'[q] = job[q]
  BY OtherRuns
<1>2. ASSUME NEW q \in Procs
      PROVE  ProgressAt(pc[q], job[q])'
  <2>1. CASE q = p
    BY <1>1, <2>1 DEF ProgressAt, ExecutingAt, SellsOn
  <2>2. CASE q # p
    <3>1. PICK l, k : l = pc[q] /\ k = job[q]
      OBVIOUS
    <3>2. ExecutingAt(l, k) => Executing(q)
      BY <3>1 DEF Executing
    <3>3. ExecutingAt(l, k) => /\ k.cycle \in DOMAIN cycles
                               /\ Executing(p) => job[p].cycle # k.cycle
      BY <2>2, <3>1, <3>2 DEF Rest, CyclesOwned
    <3>4. ExecutingAt(l, k) => Untouched(k.cycle)
      BY <3>3
    <3>5. ProgressAt(l, k)
      BY <3>1 DEF Progress
    <3>6. ProgressAt(l, k)'
      BY <3>4, <3>5, ProgressStays DEF Knowledge
    <3> QED
      BY <1>1, <2>2, <3>1, <3>6 DEF ProgressAt, ExecutingAt, SellsOn
  <2> QED
    BY <2>1, <2>2
<1>3. ASSUME NEW cycle \in CompletedCycles
      PROVE  Settled(cycle)'
  <2>1. cycle \in DOMAIN cycles /\ cycles[cycle] = "completed" /\ Settled(cycle)
    BY DEF CompletedCycles, Progress
  <2>2. Executing(p) => cycles[job[p].cycle] # "completed"
    BY DEF Progress, ProgressAt, SellsOn, Executing
  <2>3. Untouched(cycle)
    BY <2>1, <2>2
  <2> QED
    BY <2>1, <2>3, SettledStays DEF Knowledge, Untouched
<1> QED
  BY <1>2, <1>3 DEF Progress

\* The same for a step that writes no cycle, no planned order and no new row.
LEMMA QuietProgress ==
    ASSUME TypeOK, Rest, Knowledge, Progress, OrdersKept, RowsKept,
           NEW p \in Procs, NEW label, NEW j, Continue(p, label, j), ProgressAt(label, j)',
           cycles' = cycles, planned' = planned, DOMAIN rows' = DOMAIN rows
    PROVE  Progress'
<1>1. \A cycle \in DOMAIN cycles : Untouched(cycle)
  BY DEF Untouched
<1>2. RowsOfCycles'
  BY DEF Progress, RowsOfCycles
<1>3. CompletedCycles' = CompletedCycles
  BY DEF CompletedCycles
<1> QED
  BY <1>1, <1>2, <1>3, ProgressGoesOn

\* And for a run that ends.
LEMMA EndProgress ==
    ASSUME TypeOK, Rest, Knowledge, Progress, OrdersKept, RowsKept, NEW p \in Procs, End(p),
           cycles' = cycles, planned' = planned, DOMAIN rows' = DOMAIN rows
    PROVE  Progress'
<1>1. PICK j : j = NoJob
  OBVIOUS
<1>2. Continue(p, "idle", j)
  BY <1>1 DEF End
<1>3. ProgressAt("idle", j)'
  BY DEF ProgressAt, ExecutingAt, SellLabels, LoopLabels, ReconcileLabels
<1> QED
  BY <1>2, <1>3, QuietProgress

\* A cycle that is new has no row and is not completed; all its items but the
\* skipped ones are left to submit when a run executes it.
LEMMA NewCycleProgress ==
    ASSUME TypeOK, Rest, Knowledge, Progress, OrdersKept, RowsKept,
           NEW p \in Procs, NEW label, NEW j, Continue(p, label, j),
           NEW cycle, NEW plan, cycle \notin DOMAIN cycles, CreateCycleWithOrders(cycle, plan),
           \/ label = "idle"
           \/ /\ label = "mark_executing" /\ j.cycle = cycle /\ j.todo = PlannedItems(plan)
              /\ \A symbol \in DOMAIN plan : plan[symbol] \in {"planned", "skipped"}
    PROVE  Progress'
<1>1. /\ DOMAIN cycles' = DOMAIN cycles \union {cycle} /\ cycles'[cycle] = "planned"
      /\ planned'[cycle] = plan /\ rows' = rows
      /\ \A c \in DOMAIN cycles : cycles'[c] = cycles[c] /\ planned'[c] = planned[c]
  BY DEF CreateCycleWithOrders, Put, TypeOK, LedgerTyped
<1>2. \A c \in DOMAIN cycles : Untouched(c)
  BY <1>1 DEF Untouched
<1>3. RowsOfCycles'
  BY <1>1 DEF Progress, RowsOfCycles
<1>4. \A c \in CompletedCycles' : c \in CompletedCycles
  BY <1>1 DEF CompletedCycles
<1>5. ProgressAt(label, j)'
  <2>1. CASE label = "idle"
    BY <2>1 DEF ProgressAt, ExecutingAt, SellLabels, LoopLabels, ReconcileLabels
  <2>2. CASE /\ label = "mark_executing" /\ j.cycle = cycle /\ j.todo = PlannedItems(plan)
             /\ \A symbol \in DOMAIN plan : plan[symbol] \in {"planned", "skipped"}
    <3>1. \A symbol : <<cycle, symbol>> \notin DOMAIN rows
      BY DEF Progress, RowsOfCycles
    <3>2. SellsOn(label, j)'
      BY <1>1, <2>2, <3>1 DEF SellsOn, PlannedItems
    <3> QED
      BY <2>2, <3>2 DEF ProgressAt, ReconcileLabels
  <2> QED
    BY <2>1, <2>2
<1> QED
  BY <1>2, <1>3, <1>4, <1>5, ProgressGoesOn

\* The steps of a run before its cycle, the last of which creates it.
LEMMA EarlyProgress ==
    ASSUME TypeOK, Rest, Knowledge, Progress, OrdersKept, RowsKept,
           NEW p \in Procs, BeforeCycle(p)
    PROVE  Progress'
<1>1. PICK label, j : EarlyMove(p, label, j)
  BY EarlyMoves
<1>2. Continue(p, label, j)
  BY <1>1 DEF EarlyMove
<1>3. CASE PersistSimulation(p) /\ label = "idle" /\ j = NoJob
  <2>1. PICK cycle, plan : cycle = job[p].cycle /\ plan = job[p].plan
    OBVIOUS
  <2>2. CASE CreateConflicts(cycle)
    BY <1>3, <2>1, <2>2, EndProgress DEF PersistSimulation, ledgerVars
  <2>3. CASE ~CreateConflicts(cycle)
    <3>1. CreateCycleWithOrders(cycle, plan) /\ cycle \notin DOMAIN cycles
      BY <1>3, <2>1, <2>3 DEF PersistSimulation, CreateConflicts
    <3> QED
      BY <1>2, <1>3, <3>1, NewCycleProgress
  <2> QED
    BY <2>2, <2>3
<1>4. CASE /\ pc[p] = "create" /\ label = "mark_executing"
           /\ j.cycle = job[p].cycle /\ j.todo = PlannedItems(job[p].plan)
           /\ ~CreateConflicts(job[p].cycle)
           /\ CreateCycleWithOrders(job[p].cycle, job[p].plan)
  <2>1. PICK cycle, plan : cycle = job[p].cycle /\ plan = job[p].plan
    OBVIOUS
  <2>2. \A symbol \in DOMAIN plan : plan[symbol] \in PlanStatuses /\ plan[symbol] # "blocked"
    BY <1>4, <2>1, RunningJob DEF IsJob, Progress, ProgressAt
  <2>3. \A symbol \in DOMAIN plan : plan[symbol] \in {"planned", "skipped"}
    BY <2>2, CycleAssumption
  <2> QED
    BY <1>2, <1>4, <2>1, <2>3, NewCycleProgress DEF CreateConflicts
<1>5. CASE /\ UNCHANGED <<cycles, planned, rows>>
           /\ label \notin SellLabels /\ ~ExecutingAt(label, j)
           /\ label = "create" => MayExecute(j.plan)
           /\ label \in ReconcileLabels => j.todo = {}
  <2>1. ProgressAt(label, j)'
    BY <1>5 DEF ProgressAt, ExecutingAt, MayExecute, SellLabels
  <2> QED
    BY <1>2, <1>5, <2>1, QuietProgress
<1> QED
  BY <1>1, <1>3, <1>4, <1>5
     DEF EarlyMove, ledgerVars, ExecutingAt, SellLabels, LoopLabels, ReconcileLabels

\* A submission takes its item in hand.
LEMMA SubmitProgress ==
    ASSUME TypeOK, Rest, Knowledge, Progress, OrdersKept, RowsKept,
           NEW p \in Procs, Submits(p)
    PROVE  Progress'
<1>1. PICK label, item, j, order : SubmitsItem(p, label, item, j, order)
  BY SubmitEffect
<1>2. /\ Continue(p, label, j) /\ pc[p] = "submit" /\ item \in job[p].todo
      /\ label \in {"register", "timeout", "rejected"}
      /\ cycles' = cycles /\ planned' = planned /\ rows' = rows
  BY <1>1 DEF SubmitsItem, ledgerVars
<1>3. IsJob(job[p])
  BY <1>2, RunningJob
<1>4. j.cycle = job[p].cycle /\ j.item = item /\ j.todo = job[p].todo \ {item}
  <2>1. j = [job[p] EXCEPT !.item = item, !.todo = @ \ {item}, !.reply = j.reply]
    BY <1>1 DEF SubmitsItem
  <2> QED
    BY <1>3, <2>1 DEF IsJob
<1>5. SellsOn("submit", job[p])
  BY <1>2 DEF Progress, ProgressAt, ExecutingAt, SellLabels
<1>6. SellsOn(label, j)
  BY <1>2, <1>4, <1>5 DEF SellsOn, LoopLabels
<1>7. SellsOn(label, j)'
  BY <1>2, <1>6 DEF SellsOn, Sold, HasRow, Settled
<1>8. ProgressAt(label, j)'
  BY <1>2, <1>7 DEF ProgressAt, ReconcileLabels
<1> QED
  BY <1>2, <1>8, QuietProgress

\* A registration gives the item in hand its row.
LEMMA RegisterProgress ==
    ASSUME TypeOK, Rest, Knowledge, Progress, OrdersKept, RowsKept,
           NEW p \in Procs, Register(p) \/ RegisterTimeout(p)
    PROVE  Progress'
<1>1. pc[p] \in {"register", "timeout"}
  BY DEF Register, RegisterTimeout
<1>2. Executing(p) /\ SellsOn(pc[p], job[p])
  BY <1>1 DEF Progress, ProgressAt, Executing, ExecutingAt, SellLabels, LoopLabels
<1>3. CASE End(p) /\ UNCHANGED ledgerVars
  BY <1>3, EndProgress DEF ledgerVars
<1>4. ASSUME NEW label, NEW row,
             label \in {"mark_submitted", "timeout_planned"},
             pc[p] = "register" => label = "mark_submitted" /\ row.oid = job[p].reply.oid,
             pc[p] = "timeout" => label = "timeout_planned",
             Goto(p, label), UNCHANGED job,
             Key(p) \notin DOMAIN rows, rows' = Put(rows, Key(p), row),
             UNCHANGED <<cycles, planned, fills, activation>>
      PROVE  Progress'
  <2>1. PICK j, cycle, item : j = job[p] /\ cycle = job[p].cycle /\ item = job[p].item
    OBVIOUS
  <2>2. Continue(p, label, j)
    BY <1>4, <2>1 DEF Continue, TypeOK, ProcessesTyped
  <2>3. PICK key : key = <<cycle, item>>
    OBVIOUS
  <2>4. /\ DOMAIN rows' = DOMAIN rows \union {key} /\ rows'[key] = row
        /\ cycles' = cycles /\ planned' = planned
    BY <1>4, <2>1, <2>3 DEF Key, Put
  <2>5. cycle \in DOMAIN cycles /\ item \notin j.todo
    BY <1>1, <1>2, <2>1 DEF Rest, CyclesOwned, ItemsPlanned, LoopLabels
  <2>6. \A c, symbol : <<c, symbol>> = key => c = cycle /\ symbol = item
    BY <2>3
  <2>7. \A c \in DOMAIN cycles : Untouched(c) \/ c = cycle
    BY <2>4, <2>6 DEF Untouched
  <2>8. RowsOfCycles'
    <3>1. key[1] = cycle
      BY <2>3
    <3> QED
      BY <2>4, <2>5, <3>1 DEF Progress, RowsOfCycles
  <2>9. label = "mark_submitted" => HasRow(cycle, item)'
    <3>1. label = "mark_submitted" => row.oid \in Oids
      BY <1>1, <1>4 DEF Knowledge, KnowsAt, Names
    <3>2. NoOid \notin Oids
      BY DEF TypeOK, ExchangeTyped, Oids, NoOid
    <3> QED
      BY <2>3, <2>4, <3>1, <3>2 DEF HasRow
  <2>10. SellsOn(label, j)'
    <3>1. cycles[cycle] # "completed"
      BY <1>2, <2>1 DEF SellsOn
    <3>2. \A symbol \in DOMAIN planned[cycle] :
              \/ planned[cycle][symbol] = "skipped"
              \/ symbol \in j.todo \/ symbol = item
              \/ Sold(cycle, symbol)
      BY <1>2, <2>1 DEF SellsOn
    <3>3. \A symbol : Sold(cycle, symbol) => Sold(cycle, symbol)'
      BY <2>4, HasRowStays DEF Sold
    <3>4. \A symbol \in j.todo : <<cycle, symbol>> \notin DOMAIN rows'
      BY <1>2, <2>1, <2>4, <2>5, <2>6 DEF SellsOn
    <3>5. label \in LoopLabels /\ label \notin {"register", "timeout", "finish_completed"}
      BY <1>4 DEF LoopLabels
    <3> QED
      BY <2>1, <2>4, <2>9, <3>1, <3>2, <3>3, <3>4, <3>5 DEF SellsOn
  <2>11. ProgressAt(label, j)'
    BY <1>4, <2>10 DEF ProgressAt, ReconcileLabels
  <2>12. CompletedCycles' = CompletedCycles
    BY <2>4 DEF CompletedCycles
  <2> QED
    BY <1>2, <2>1, <2>2, <2>4, <2>7, <2>8, <2>11, <2>12, ProgressGoesOn
<1> QED
  BY <1>1, <1>3, <1>4, RegisterEffect

\* A cycle's status changes only at the hands of its run, and to completed only
\* when it is settled.
LEMMA StatusProgress ==
    ASSUME TypeOK, Rest, Knowledge, Progress, OrdersKept, RowsKept,
           NEW p \in Procs, Executing(p), NEW status, SetCycleStatus(job[p].cycle, status),
           NEW label, NEW j, Continue(p, label, j),
           \/ label = "idle"
           \/ label = "submit" /\ j = job[p] /\ pc[p] = "mark_executing" /\ status = "executing",
           status = "completed" => pc[p] = "finish_completed"
    PROVE  Progress'
<1>1. PICK cycle : cycle = job[p].cycle
  OBVIOUS
<1>2. /\ DOMAIN cycles' = DOMAIN cycles /\ planned' = planned /\ rows' = rows
      /\ \A c \in DOMAIN cycles : cycles'[c] = IF c = cycle THEN status ELSE cycles[c]
  BY <1>1 DEF SetCycleStatus
<1>3. cycle \in DOMAIN cycles
  BY <1>1 DEF Rest, CyclesOwned
<1>4. \A c \in DOMAIN cycles : Untouched(c) \/ c = cycle
  BY <1>2 DEF Untouched
<1>5. RowsOfCycles'
  BY <1>2 DEF Progress, RowsOfCycles
<1>6. ProgressAt(label, j)'
  <2>1. CASE label = "idle"
    BY <2>1 DEF ProgressAt, ExecutingAt, SellLabels, LoopLabels, ReconcileLabels
  <2>2. CASE label = "submit" /\ j = job[p] /\ pc[p] = "mark_executing" /\ status = "executing"
    <3>1. PICK k : k = job[p]
      OBVIOUS
    <3>2. SellsOn("mark_executing", k) /\ k.cycle = cycle
      BY <1>1, <2>2, <3>1 DEF Progress, ProgressAt, ExecutingAt, SellLabels
    <3>3. SellsOn("submit", k)'
      BY <1>2, <1>3, <2>2, <3>2 DEF SellsOn, Sold, HasRow, LoopLabels
    <3> QED
      BY <2>2, <3>1, <3>3 DEF ProgressAt, ReconcileLabels
  <2> QED
    BY <2>1, <2>2
<1>7. ASSUME NEW c \in CompletedCycles' \ CompletedCycles
      PROVE  Settled(c)'
  <2>1. c = cycle /\ pc[p] = "finish_completed"
    BY <1>2, <1>7 DEF CompletedCycles
  <2>2. Settled(cycle)
    BY <1>1, <2>1 DEF Progress, ProgressAt, SellsOn, Executing
  <2> QED
    BY <1>2, <2>1, <2>2, SettledStays DEF Knowledge
<1> QED
  BY <1>1, <1>2, <1>4, <1>5, <1>6, <1>7, ProgressGoesOn

\* The status of the item in hand changes only at the hands of its run: it has
\* failed, or is submitted once it has its row.
LEMMA ItemProgress ==
    ASSUME TypeOK, Rest, Knowledge, Progress, OrdersKept, RowsKept,
           NEW p \in Procs, pc[p] \in LoopLabels, NEW status,
           UpdatePlannedOrderStatus(job[p].cycle, job[p].item, status),
           NEW label, NEW j, Continue(p, label, j),
           j.cycle = job[p].cycle, j.todo = job[p].todo,
           \/ label \in {"timeout_cycle", "rejected_cycle"} /\ j.item = job[p].item
           \/ /\ pc[p] = "mark_submitted" /\ status = "submitted"
              /\ label \in {"submit", "fetch_open"} /\ (label = "fetch_open" => j.todo = {})
    PROVE  Progress'
<1>1. PICK cycle, item : cycle = job[p].cycle /\ item = job[p].item
  OBVIOUS
<1>2. Executing(p) /\ SellsOn(pc[p], job[p])
  BY DEF Progress, ProgressAt, Executing, ExecutingAt, SellLabels
<1>3. cycle \in DOMAIN cycles /\ cycle \in DOMAIN planned
  BY <1>1, <1>2 DEF Rest, CyclesOwned, TypeOK, LedgerTyped
<1>4. /\ cycles' = cycles /\ rows' = rows /\ DOMAIN planned' = DOMAIN planned
      /\ planned'[cycle] = [planned[cycle] EXCEPT ![item] = status]
      /\ \A c \in DOMAIN planned \ {cycle} : planned'[c] = planned[c]
  BY <1>1, <1>3 DEF UpdatePlannedOrderStatus
<1>5. /\ DOMAIN planned'[cycle] = DOMAIN planned[cycle]
      /\ \A symbol \in DOMAIN planned[cycle] :
             planned'[cycle][symbol] = IF symbol = item THEN status ELSE planned[cycle][symbol]
  <2>1. PICK old, new : old = planned[cycle] /\ new = planned'[cycle]
    OBVIOUS
  <2>2. new = [old EXCEPT ![item] = status]
    BY <1>4, <2>1
  <2>3. /\ DOMAIN new = DOMAIN old
        /\ \A symbol \in DOMAIN old : new[symbol] = IF symbol = item THEN status ELSE old[symbol]
    BY <2>2
  <2> QED
    BY <2>1, <2>3
<1>6. \A c \in DOMAIN cycles : Untouched(c) \/ c = cycle
  BY <1>4 DEF Untouched, TypeOK, LedgerTyped
<1>7. RowsOfCycles' /\ CompletedCycles' = CompletedCycles
  BY <1>4 DEF Progress, RowsOfCycles, CompletedCycles
<1>8. SellsOn(label, j)'
  <2>1. cycles[cycle] # "completed"
    BY <1>1, <1>2 DEF SellsOn
  <2>2. \A symbol \in j.todo : <<cycle, symbol>> \notin DOMAIN rows
    BY <1>1, <1>2 DEF SellsOn
  <2>3. \A symbol \in DOMAIN planned[cycle] :
            \/ planned[cycle][symbol] = "skipped" \/ symbol \in j.todo \/ symbol = item
            \/ Sold(cycle, symbol)
    BY <1>1, <1>2 DEF SellsOn
  <2>4. \A symbol \in DOMAIN planned[cycle] :
            symbol # item /\ Sold(cycle, symbol) => Sold(cycle, symbol)'
    BY <1>4, <1>5 DEF Sold, HasRow
  <2>5. CASE label \in {"timeout_cycle", "rejected_cycle"} /\ j.item = job[p].item
    BY <1>1, <1>4, <1>5, <2>1, <2>2, <2>3, <2>4, <2>5 DEF SellsOn, LoopLabels
  <2>6. CASE /\ pc[p] = "mark_submitted" /\ status = "submitted"
             /\ label \in {"submit", "fetch_open"} /\ (label = "fetch_open" => j.todo = {})
    <3>1. HasRow(cycle, item)
      BY <1>1, <1>2, <2>6 DEF SellsOn
    <3>2. item \in DOMAIN planned[cycle] => Sold(cycle, item)'
      BY <1>4, <1>5, <2>6, <3>1 DEF Sold, HasRow
    <3> QED
      BY <1>1, <1>4, <1>5, <2>1, <2>2, <2>3, <2>4, <2>6, <3>2 DEF SellsOn, LoopLabels
  <2> QED
    BY <2>5, <2>6
<1>9. ProgressAt(label, j)'
  BY <1>8 DEF ProgressAt, ReconcileLabels
<1> QED
  BY <1>1, <1>2, <1>4, <1>6, <1>7, <1>9, ProgressGoesOn

\* What a run does to its cycle and its items.
LEMMA CycleProgress ==
    ASSUME TypeOK, Rest, Knowledge, Progress, OrdersKept, RowsKept, NEW p \in Procs,
           \/ MarkExecuting(p) \/ MarkSubmitted(p) \/ TimeoutStep(p) \/ RejectStep(p) \/ Finish(p)
    PROVE  Progress'
<1>1. pc[p] \in SellLabels => Executing(p) /\ IsJob(job[p])
  BY RunningJob DEF Executing, ExecutingAt, SellLabels, LoopLabels
<1>2. PICK j, none : j = job[p] /\ none = NoJob
  OBVIOUS
<1>3. UNCHANGED job => job' = [job EXCEPT ![p] = j]
  BY <1>2 DEF TypeOK, ProcessesTyped
<1>4. CASE MarkExecuting(p)
  <2>1. /\ pc[p] = "mark_executing" /\ SetCycleStatus(job[p].cycle, "executing")
        /\ Continue(p, "submit", j)
    BY <1>3, <1>4 DEF MarkExecuting, Continue
  <2> QED
    BY <1>1, <1>2, <2>1, StatusProgress DEF SellLabels
<1>5. CASE MarkSubmitted(p)
  <2>1. pc[p] = "mark_submitted" /\ UpdatePlannedOrderStatus(job[p].cycle, job[p].item, "submitted")
    BY <1>5 DEF MarkSubmitted
  <2>2. PICK symbol, reply : symbol = NoSymbol /\ reply = NoJob.reply
    OBVIOUS
  <2>3. PICK k : k = [job[p] EXCEPT !.item = symbol, !.reply = reply]
    OBVIOUS
  <2>4. PICK since : since = k.day - DefaultLookback
    OBVIOUS
  <2>5. PICK l : l = [k EXCEPT !.since = since]
    OBVIOUS
  <2>6. k.cycle = job[p].cycle /\ k.todo = job[p].todo /\ l.cycle = job[p].cycle /\ l.todo = job[p].todo
    BY <1>1, <2>1, <2>3, <2>5 DEF IsJob, SellLabels, LoopLabels
  <2>7. \/ Continue(p, "submit", k)
        \/ Continue(p, "fetch_open", l) /\ l.todo = {}
    BY <1>5, <2>2, <2>3, <2>4, <2>5, <2>6 DEF MarkSubmitted
  <2> QED
    BY <2>1, <2>6, <2>7, ItemProgress DEF LoopLabels
<1>6. CASE RegisterTimeout(p)
  BY <1>6, RegisterProgress
<1>7. ASSUME NEW from \in LoopLabels, NEW to \in {"timeout_cycle", "rejected_cycle"},
             FailItem(p, from, to)
      PROVE  Progress'
  <2>1. /\ pc[p] \in LoopLabels /\ UpdatePlannedOrderStatus(job[p].cycle, job[p].item, "failed")
        /\ Continue(p, to, j)
    BY <1>3, <1>7 DEF FailItem, Continue
  <2> QED
    BY <1>2, <2>1, ItemProgress
<1>8. ASSUME NEW from \in SellLabels, NEW status, EndCycle(p, from, status),
             status = "completed" => from = "finish_completed"
      PROVE  Progress'
  <2>1. /\ pc[p] = from /\ SetCycleStatus(job[p].cycle, status)
        /\ Continue(p, "idle", none)
    BY <1>2, <1>8 DEF EndCycle, End
  <2> QED
    BY <1>1, <1>8, <2>1, StatusProgress
<1> QED
  BY <1>4, <1>5, <1>6, <1>7, <1>8 DEF TimeoutStep, RejectStep, Finish, SellLabels, LoopLabels

\* A read, or the transaction after the reads, leaves a cycle as far as it was.
LEMMA ReadProgress ==
    ASSUME TypeOK, Rest, Knowledge, Progress, OrdersKept, RowsKept,
           NEW p \in Procs, pc[p] \in ReconcileLabels, NEW label \in ReconcileLabels,
           NEW j, Continue(p, label, j), j.cycle = job[p].cycle, j.todo = job[p].todo,
           cycles' = cycles, planned' = planned, DOMAIN rows' = DOMAIN rows
    PROVE  Progress'
<1>1. PICK l, k : l = pc[p] /\ k = job[p]
  OBVIOUS
<1>2. ReconcileLabels \intersect (SellLabels \union LoopLabels \union {"create"}) = {}
  BY DEF ReconcileLabels, SellLabels, LoopLabels
<1>3. ProgressAt(l, k) /\ l \in ReconcileLabels
  BY <1>1 DEF Progress
<1>4. ProgressAt(label, j)
  BY <1>1, <1>2, <1>3 DEF ProgressAt, ExecutingAt, SellsOn, LoopLabels, SellLabels
<1>5. ExecutingAt(label, j) => Untouched(j.cycle)
  BY <1>1, <1>2, <1>3 DEF ExecutingAt, Untouched, Rest, CyclesOwned, Executing
<1>6. ProgressAt(label, j)'
  BY <1>4, <1>5, ProgressStays DEF Knowledge
<1> QED
  BY <1>6, QuietProgress

\* A reconciliation completes a cycle only when no row is unresolved: then each
\* of its rows is resolved, and its order has ended.
LEMMA SummariseProgress ==
    ASSUME TypeOK, Rest, Knowledge, Progress, OrdersKept, RowsKept, ResolvedIsFinal,
           NEW p \in Procs, Summarise(p)
    PROVE  Progress'
<1>1. cycles' = cycles /\ planned' = planned /\ rows' = rows /\ orders' = orders
  BY DEF Summarise, ledgerVars, exchangeVars
<1>2. pc[p] = "summarise" /\ IsJob(job[p])
  BY RunningJob DEF Summarise
<1>3. CASE End(p)
  BY <1>1, <1>3, EndProgress
<1>4. CASE ~End(p)
  <2>1. PICK none : none = << >>
    OBVIOUS
  <2>2. PICK j : j = [job[p] EXCEPT !.seen = none]
    OBVIOUS
  <2>3. PICK label : /\ Continue(p, label, j)
                     /\ label \in {"finish_partial", "finish_completed"}
                     /\ label = "finish_completed" => UnresolvedRows = {}
    BY <1>4, <2>1, <2>2 DEF Summarise, ExecutionBlocked
  <2>4. j.cycle = job[p].cycle /\ j.todo = job[p].todo
    BY <1>2, <2>2 DEF IsJob
  <2>5. Executing(p)
    BY <1>2, <1>4 DEF Summarise, Executing, ExecutingAt, ReconcileLabels
  <2>6. /\ SellsOn("summarise", j) /\ j.todo = {}
    BY <1>2, <2>4, <2>5 DEF Progress, ProgressAt, SellsOn, Executing, ReconcileLabels, LoopLabels
  <2>7. \A symbol \in DOMAIN planned[j.cycle] :
            planned[j.cycle][symbol] # "skipped" => Sold(j.cycle, symbol)
    BY <2>6 DEF SellsOn, LoopLabels
  <2>8. label = "finish_completed" => Settled(j.cycle)
    BY <2>3, <2>7 DEF Settled, Sold, HasRow, ResolvedIsFinal
  <2>9. SellsOn(label, j)
    BY <2>3, <2>6, <2>8 DEF SellsOn, LoopLabels
  <2>10. SellsOn(label, j)'
    BY <1>1, <2>9 DEF SellsOn, Sold, HasRow, Settled, Final
  <2>11. ProgressAt(label, j)'
    BY <2>3, <2>6, <2>10 DEF ProgressAt
  <2> QED
    BY <1>1, <2>3, <2>11, QuietProgress
<1> QED
  BY <1>3, <1>4

\* The steps of a reconciliation.
LEMMA ReconcileProgress ==
    ASSUME TypeOK, Rest, Knowledge, Progress, OrdersKept, RowsKept, ResolvedIsFinal,
           NEW p \in Procs, ReconcileStep(p)
    PROVE  Progress'
<1>1. CASE Summarise(p)
  BY <1>1, SummariseProgress
<1>2. CASE FetchOpen(p) \/ FetchRecent(p) \/ FetchFills(p) \/ Record(p)
  <2>1. pc[p] \in ReconcileLabels /\ IsJob(job[p])
    BY <1>2, RunningJob DEF FetchOpen, FetchRecent, FetchFills, Record, ReconcileLabels
  <2>2. cycles' = cycles /\ planned' = planned /\ DOMAIN rows' = DOMAIN rows
    BY <1>2 DEF FetchOpen, FetchRecent, FetchFills, Record, RecordReconciliation, ReconciledRows,
                ledgerVars
  <2>3. ASSUME NEW label \in ReconcileLabels, NEW seen, NEW trades,
               Continue(p, label, [job[p] EXCEPT !.seen = seen]) \/
               Continue(p, label, [job[p] EXCEPT !.trades = trades])
        PROVE  Progress'
    <3>1. PICK j : /\ j \in {[job[p] EXCEPT !.seen = seen], [job[p] EXCEPT !.trades = trades]}
                   /\ Continue(p, label, j)
      BY <2>3
    <3>2. j.cycle = job[p].cycle /\ j.todo = job[p].todo
      BY <2>1, <3>1 DEF IsJob
    <3> QED
      BY <2>1, <2>2, <3>1, <3>2, ReadProgress
  <2>4. CASE FetchOpen(p)
    <3>1. PICK seen : seen = FetchOpenOrders(job[p].cfg.symbols)
      OBVIOUS
    <3> QED
      BY <2>3, <2>4, <3>1 DEF FetchOpen, ReconcileLabels
  <2>5. CASE FetchRecent(p)
    <3>1. PICK seen : seen = Deduplicate(job[p].seen,
                                 FetchRecentOrders(job[p].cfg.symbols, job[p].since))
      OBVIOUS
    <3> QED
      BY <2>3, <2>5, <3>1 DEF FetchRecent, ReconcileLabels
  <2>6. CASE FetchFills(p)
    <3>1. PICK trades : trades = FetchRecentFills(job[p].cfg.symbols, job[p].since)
      OBVIOUS
    <3> QED
      BY <2>3, <2>6, <3>1 DEF FetchFills, ReconcileLabels
  <2>7. CASE Record(p)
    BY <2>3, <2>7 DEF Record, ReconcileLabels
  <2> QED
    BY <1>2, <2>4, <2>5, <2>6, <2>7
<1> QED
  BY <1>1, <1>2 DEF ReconcileStep

\* Every step keeps what is known of the cycles' progress.
LEMMA ProgressStep == IInv /\ Knowledge /\ ResolvedIsFinal /\ Progress /\ [Next]_vars => Progress'
<1> SUFFICES ASSUME TypeOK, Rest, Knowledge, ResolvedIsFinal, Progress, OrdersKept, RowsKept,
                    [Next]_vars
             PROVE  Progress'
  BY OrdersKeep, RowsKeep DEF IInv, Rest
<1>1. CASE UNCHANGED <<ledgerVars, pc, job, reported, simulated, Oids>>
  <2>1. cycles' = cycles /\ planned' = planned /\ rows' = rows /\ pc' = pc /\ job' = job
    BY <1>1 DEF ledgerVars
  <2>2. \A cycle \in DOMAIN cycles : Untouched(cycle)
    BY <2>1 DEF Untouched
  <2>3. ASSUME NEW q \in Procs
        PROVE  ProgressAt(pc[q], job[q])'
    <3>1. PICK l, k : l = pc[q] /\ k = job[q]
      OBVIOUS
    <3>2. ExecutingAt(l, k) => Untouched(k.cycle)
      BY <2>2, <3>1 DEF Executing, Rest, CyclesOwned
    <3>3. ProgressAt(l, k)'
      BY <3>1, <3>2, ProgressStays DEF Progress, Knowledge
    <3> QED
      BY <2>1, <3>1, <3>3 DEF ProgressAt, ExecutingAt, SellsOn
  <2>4. \A cycle \in CompletedCycles' : Settled(cycle)'
    BY <2>1, SettledStays DEF Progress, CompletedCycles, Knowledge
  <2> QED
    BY <2>1, <2>3, <2>4 DEF Progress, RowsOfCycles
<1>2. ASSUME NEW p \in Procs, RunStep(p)
      PROVE  Progress'
  BY <1>2, RegisterProgress, CycleProgress, ReconcileProgress DEF RunStep
<1> QED
  BY <1>1, <1>2, StepKinds, RunSteps, SubmitProgress, EarlyProgress

\* What is known of the cycles' progress always holds.
LEMMA ProgressAlways == Spec => []Progress
<1>1. Init => Progress
  <2> SUFFICES ASSUME Init PROVE Progress
    OBVIOUS
  <2>1. /\ DOMAIN rows = {} /\ DOMAIN cycles = {}
        /\ \A p \in Procs : pc[p] = "idle" /\ job[p] = NoJob
    BY DEF Init, LedgerInit
  <2> QED
    BY <2>1 DEF Progress, RowsOfCycles, CompletedCycles, ProgressAt, ExecutingAt, SellLabels,
                LoopLabels, ReconcileLabels
<1> QED
  BY <1>1, ProgressStep, Invariance, KnowledgeAlways, ResolvedIsEnded, PTL DEF Spec

\* A cycle is completed in the ledger only when every item it planned to sell has
\* been submitted, has a row that names its order, and has ended on the exchange.
THEOREM CompletedMeansSettled == Spec => []CompletedIsSettled
<1>1. Knowledge /\ Progress => CompletedIsSettled
  <2> SUFFICES ASSUME RowsTrue, Progress, NEW cycle \in CompletedCycles,
                      NEW symbol \in DOMAIN planned[cycle], planned[cycle][symbol] # "skipped"
               PROVE  /\ planned[cycle][symbol] = "submitted"
                      /\ <<cycle, symbol>> \in DOMAIN rows
                      /\ rows[<<cycle, symbol>>].oid \in Oids
                      /\ orders[rows[<<cycle, symbol>>].oid].key = <<cycle, symbol>>
                      /\ Final(rows[<<cycle, symbol>>].oid)
    BY DEF Knowledge, CompletedIsSettled
  <2>1. Sold(cycle, symbol) /\ Final(rows[<<cycle, symbol>>].oid)
    BY DEF Progress, Settled
  <2> QED
    BY <2>1 DEF Sold, HasRow, RowsTrue, Names
<1> QED
  BY <1>1, KnowledgeAlways, ProgressAlways, PTL

-----------------------------------------------------------------------------
(* The first live sell.                                                    *)

\* A run past its gates was confirmed, or need not be, or a cycle had completed.
ConfirmedAt(label, j) ==
    label \in {"preview", "create"} \/ ExecutingAt(label, j) =>
        (j.cfg.confirmFirst => j.confirm \/ CompletedCycles # {})

Confirmed == \A p \in Procs : ConfirmedAt(pc[p], job[p])

\* A run in its cycle gives at most its own cycle another status.
LEMMA CycleSteps ==
    ASSUME NEW p \in Procs, RunStep(p)
    PROVE  \/ cycles' = cycles
           \/ pc[p] \in SellLabels /\ \E status : SetCycleStatus(job[p].cycle, status)
<1>1. CASE MarkExecuting(p) \/ Finish(p)
  BY <1>1 DEF MarkExecuting, Finish, EndCycle, SellLabels
<1>2. CASE TimeoutStep(p)
  BY <1>2 DEF TimeoutStep, RegisterTimeout, RegisterRow, RegisterExchangeOrder, FailItem, EndCycle,
              UpdatePlannedOrderStatus, SellLabels, LoopLabels, ledgerVars
<1>3. CASE RejectStep(p)
  BY <1>3 DEF RejectStep, FailItem, EndCycle, UpdatePlannedOrderStatus, SellLabels, LoopLabels
<1>4. CASE Register(p) \/ MarkSubmitted(p)
  BY <1>4 DEF Register, RegisterRow, RegisterExchangeOrder, MarkSubmitted,
              UpdatePlannedOrderStatus, ledgerVars
<1>5. CASE ReconcileStep(p)
  BY <1>5 DEF ReconcileStep, FetchOpen, FetchRecent, FetchFills, Record, RecordReconciliation,
              Summarise, ledgerVars
<1> QED
  BY <1>1, <1>2, <1>3, <1>4, <1>5 DEF RunStep

\* A cycle that is completed stays so: no run executes it any more.
LEMMA CompletedStays ==
    ASSUME TypeOK, Rest, Progress, [Next]_vars
    PROVE  CompletedCycles \subseteq CompletedCycles'
<1>1. CASE cycles' = cycles
  BY <1>1 DEF CompletedCycles
<1>2. ASSUME NEW p \in Procs, Submits(p)
      PROVE  cycles' = cycles
  BY <1>2, SubmitEffect DEF SubmitsItem, ledgerVars
<1>3. ASSUME NEW p \in Procs, BeforeCycle(p)
      PROVE  CompletedCycles \subseteq CompletedCycles'
  <2>1. PICK label, j : EarlyMove(p, label, j)
    BY <1>3, EarlyMoves
  <2>2. PICK cycle, plan : cycle = job[p].cycle /\ plan = job[p].plan
    OBVIOUS
  <2>3. \/ cycles' = cycles
        \/ cycle \notin DOMAIN cycles /\ cycles' = Put(cycles, cycle, "planned")
    BY <2>1, <2>2 DEF EarlyMove, ledgerVars, PersistSimulation, CreateConflicts,
                      CreateCycleWithOrders
  <2> QED
    BY <1>1, <2>3 DEF Put, CompletedCycles
<1>4. ASSUME NEW p \in Procs, RunStep(p)
      PROVE  CompletedCycles \subseteq CompletedCycles'
  <2>1. CASE pc[p] \in SellLabels /\ \E status : SetCycleStatus(job[p].cycle, status)
    <3>1. PICK cycle, status : cycle = job[p].cycle /\ SetCycleStatus(cycle, status)
      BY <2>1
    <3>2. cycles[cycle] # "completed"
      BY <2>1, <3>1 DEF Progress, ProgressAt, SellsOn, ExecutingAt
    <3> QED
      BY <3>1, <3>2 DEF SetCycleStatus, CompletedCycles
  <2> QED
    BY <1>1, <1>4, <2>1, CycleSteps
<1>5. CASE UNCHANGED <<ledgerVars, pc, job, reported, simulated, Oids>>
  BY <1>1, <1>5 DEF ledgerVars
<1> QED
  BY <1>1, <1>2, <1>3, <1>4, <1>5, StepKinds, RunSteps

\* Every step of the system keeps the runs confirmed.
LEMMA ConfirmedStep == IInv /\ Progress /\ Confirmed /\ [Next]_vars => Confirmed'
<1> SUFFICES ASSUME TypeOK, Rest, Progress, Confirmed, [Next]_vars PROVE Confirmed'
  BY DEF IInv, Rest
<1>1. CompletedCycles # {} => CompletedCycles' # {}
  BY CompletedStays
<1>2. \A p \in Procs : ConfirmedAt(pc[p], job[p])'
          \/ pc'[p] # pc[p] \/ job'[p] # job[p]
  BY <1>1 DEF Confirmed, ConfirmedAt, ExecutingAt
<1>3. ASSUME NEW p \in Procs, NEW label, NEW j, Continue(p, label, j), ConfirmedAt(label, j)
      PROVE  Confirmed'
  <2>1. /\ pc'[p] = label /\ job'[p] = j
        /\ \A q \in Procs \ {p} : pc'[q] = pc[q] /\ job'[q] = job[q]
    BY <1>3, OtherRuns
  <2>2. ConfirmedAt(pc[p], job[p])'
    BY <1>1, <1>3, <2>1 DEF ConfirmedAt, ExecutingAt
  <2> QED
    BY <1>2, <2>1, <2>2 DEF Confirmed
<1>4. \A p \in Procs : Executing(p) => (job[p].cfg.confirmFirst =>
                                      job[p].confirm \/ CompletedCycles # {})
  BY DEF Confirmed, ConfirmedAt, Executing
<1>5. ASSUME NEW p \in Procs, RunStep(p) \/ Submits(p)
      PROVE  Confirmed'
  <2>1. PICK label, j : CarriesOn(p, label, j)
    BY <1>5, RunCarriesOn
  <2>2. ConfirmedAt(label, j)
    <3>1. CASE label = "idle"
      BY <3>1 DEF ConfirmedAt, ExecutingAt, SellLabels, LoopLabels, ReconcileLabels
    <3>2. CASE label # "idle"
      BY <2>1, <3>2
         DEF CarriesOn, Confirmed, ConfirmedAt, Executing, RunLabels, SellLabels, LoopLabels,
             ReconcileLabels
    <3> QED
      BY <3>1, <3>2
  <2> QED
    BY <1>3, <2>1, <2>2 DEF CarriesOn
<1>6. ASSUME NEW p \in Procs, BeforeCycle(p)
      PROVE  Confirmed'
  <2>1. PICK label, j : EarlyMove(p, label, j)
    BY <1>6, EarlyMoves
  <2>2. CASE pc[p] \in {"preview", "create"} /\ Keeps(p, j)
    <3>1. job[p].cfg.confirmFirst => job[p].confirm \/ CompletedCycles # {}
      BY <2>2 DEF Confirmed, ConfirmedAt
    <3>2. ConfirmedAt(label, j)
      BY <2>2, <3>1 DEF Keeps, ConfirmedAt
    <3> QED
      BY <1>3, <2>1, <3>2 DEF EarlyMove
  <2>3. CASE label = "preview" /\ Gates(j.cfg, j.confirm, job[p].start, job[p].day)
    <3>1. ConfirmedAt(label, j)
      BY <2>3 DEF Gates, ConfirmedAt
    <3> QED
      BY <1>3, <2>1, <3>1 DEF EarlyMove
  <2>4. CASE \/ label \in {"idle", "activate", "dry", "record_activation", "simulate", "gate"}
             \/ label = "fetch_open" /\ j.cycle = NoCycle
    <3>1. ConfirmedAt(label, j)
      BY <2>4 DEF ConfirmedAt, ExecutingAt, SellLabels, LoopLabels, ReconcileLabels
    <3> QED
      BY <1>3, <2>1, <3>1 DEF EarlyMove
  <2> QED
    BY <2>1, <2>2, <2>3, <2>4 DEF EarlyMove
<1>7. CASE UNCHANGED <<ledgerVars, pc, job, reported, simulated, Oids>>
  BY <1>2, <1>7 DEF Confirmed
<1> QED
  BY <1>5, <1>6, <1>7, StepKinds, RunSteps

\* While a configuration asks for the confirmation of the first live sell, an
\* order reaches the exchange only from a run that was started with it, or after
\* a cycle has completed.
THEOREM FirstSellIsConfirmed == Spec => FirstSellConfirmed
<1>1. IInv /\ Confirmed /\ TypeOK' /\ [Next]_vars =>
          [OrderSubmitted => \E p \in Procs :
               /\ pc[p] = "submit" /\ pc'[p] # "submit"
               /\ job[p].cfg.confirmFirst => job[p].confirm \/ CompletedCycles # {}]_vars
  <2> SUFFICES ASSUME TypeOK, Rest, Confirmed, TypeOK', [Next]_vars, OrderSubmitted
               PROVE  \E p \in Procs :
                          /\ pc[p] = "submit" /\ pc'[p] # "submit"
                          /\ job[p].cfg.confirmFirst => job[p].confirm \/ CompletedCycles # {}
    BY DEF IInv, Rest
  <2>1. Oids' # Oids
    <3>1. orders \in Seq(Orders) /\ orders' \in Seq(Orders)
      BY DEF TypeOK, ExchangeTyped
    <3>2. /\ Len(orders) \in Nat /\ DOMAIN orders = 1 .. Len(orders)
          /\ Len(orders') \in Nat /\ DOMAIN orders' = 1 .. Len(orders')
      BY <3>1
    <3>3. Len(orders') \in DOMAIN orders' \ DOMAIN orders
      BY <3>2 DEF OrderSubmitted
    <3> QED
      BY <3>3 DEF Oids
  <2>2. PICK p \in Procs : Submits(p)
    <3>1. ASSUME NEW p \in Procs, OtherStep(p)
          PROVE  Oids' = Oids
      BY <3>1, OtherStepQuiet DEF Oids
    <3> QED
      BY <2>1, <3>1, StepKinds
  <2>3. PICK label, item, j, order : SubmitsItem(p, label, item, j, order)
    BY <2>2, SubmitEffect
  <2>4. pc[p] = "submit" /\ pc'[p] # "submit"
    <3>1. /\ pc[p] = "submit" /\ Continue(p, label, j)
          /\ label \in {"register", "timeout", "rejected"}
      BY <2>3 DEF SubmitsItem
    <3> QED
      BY <3>1, OtherRuns
  <2>5. job[p].cfg.confirmFirst => job[p].confirm \/ CompletedCycles # {}
    BY <2>4 DEF Confirmed, ConfirmedAt, ExecutingAt, SellLabels
  <2> QED
    BY <2>4, <2>5
<1>2. Init => Confirmed
  BY DEF Init, Confirmed, ConfirmedAt, ExecutingAt, SellLabels, LoopLabels, ReconcileLabels
<1> QED
  BY <1>1, <1>2, ConfirmedStep, Invariance, TypeCorrect, ProgressAlways, PTL
     DEF Spec, FirstSellConfirmed

-----------------------------------------------------------------------------
(* Every order has its row.                                                *)

\* A registration never conflicts: the item has no row yet, and the exchange
\* order id it was given is no other row's.
LEMMA NoRegisterConflict ==
    ASSUME TypeOK, Rest, Knowledge, Progress, NEW p \in Procs
    PROVE  /\ pc[p] = "register" => ~RegisterConflicts(Key(p), job[p].reply.oid)
           /\ pc[p] = "timeout" => ~RegisterConflicts(Key(p), NoOid)
<1>1. pc[p] \in {"register", "timeout"} => Key(p) \notin DOMAIN rows
  BY DEF Progress, ProgressAt, SellsOn, ExecutingAt, SellLabels, LoopLabels, Key
<1>2. ASSUME pc[p] = "register", NEW key \in DOMAIN rows, rows[key].oid = job[p].reply.oid,
             job[p].reply.oid # NoOid
      PROVE  FALSE
  <2>1. Names(Key(p), job[p].reply.oid)
    BY <1>2 DEF Knowledge, KnowsAt, Key
  <2>2. Names(key, job[p].reply.oid)
    BY <1>2 DEF Knowledge, RowsTrue
  <2> QED
    BY <1>1, <1>2, <2>1, <2>2 DEF Names
<1> QED
  BY <1>1, <1>2 DEF RegisterConflicts

\* A run leaves the labels at which it has an order in hand by writing its row.
LEMMA HandToRow ==
    ASSUME TypeOK, Rest, Knowledge, Progress, RowsKept, Faults \intersect {"crash", "late_error"} = {},
           NEW p \in Procs, OtherStep(p), pc[p] \in {"register", "timeout"}
    PROVE  Key(p) \in DOMAIN rows'
<1>1. CASE Register(p) \/ RegisterTimeout(p)
  <2>1. Key(p) \in DOMAIN Put(rows, Key(p), [oid |-> job[p].reply.oid, status |-> job[p].reply.status])
        /\ Key(p) \in DOMAIN Put(rows, Key(p), [oid |-> NoOid, status |-> "unknown"])
    BY DEF Put
  <2> QED
    BY <1>1, <2>1, NoRegisterConflict DEF Register, RegisterTimeout, RegisterRow, RegisterExchangeOrder
<1>2. CASE BeforeCycle(p)
  <2>1. ~Crash(p)
    BY DEF Crash
  <2> QED
    BY <1>2, <2>1
       DEF BeforeCycle, OtherStep, RunStep, StartLive, StartDry, StartReconcile, Activate,
           PersistActivation, PassGates, Preview, CreateCycle, DryPreview, PersistSimulation,
           FetchFails
<1>3. CASE RunStep(p) /\ ~Register(p) /\ ~RegisterTimeout(p)
  BY <1>3 DEF RunStep, MarkExecuting, MarkSubmitted, TimeoutStep, RejectStep, Finish, FailItem,
              EndCycle, ReconcileStep, FetchOpen, FetchRecent, FetchFills, Record, Summarise
<1> QED
  BY <1>1, <1>2, <1>3, RunSteps

\* Every order has its row or is in hand, and every step keeps that, if no run
\* dies and no submission is accepted and raises an error that the program takes
\* for a rejection.
LEMMA TrackedStep ==
    ASSUME Faults \intersect {"crash", "late_error"} = {}
    PROVE  IInv /\ Knowledge /\ Progress /\ OrdersTracked /\ [Next]_vars => OrdersTracked'
<1> SUFFICES ASSUME TypeOK, Rest, Knowledge, Progress, OrdersTracked, OrdersKept, RowsKept,
                    [Next]_vars
             PROVE  OrdersTracked'
  BY OrdersKeep, RowsKeep DEF IInv, Rest
<1>1. ASSUME NEW p \in Procs, NEW label, NEW j, Continue(p, label, j),
             pc[p] \in {"register", "timeout"} => Key(p) \in DOMAIN rows',
             \A oid \in Oids' \ Oids : InHand(orders[oid].key)'
      PROVE  OrdersTracked'
  <2>1. /\ pc'[p] = label /\ job'[p] = j
        /\ \A q \in Procs \ {p} : pc'[q] = pc[q] /\ job'[q] = job[q]
    BY <1>1, OtherRuns
  <2>2. \A key : InHand(key) => InHand(key)' \/ key \in DOMAIN rows'
    BY <1>1, <2>1 DEF InHand, Key
  <2>3. ASSUME NEW oid \in Oids'
        PROVE  orders'[oid].key \in DOMAIN rows' \/ InHand(orders[oid].key)'
    <3>1. CASE oid \notin Oids
      BY <1>1, <2>3, <3>1
    <3>2. CASE oid \in Oids
      <4>1. PICK key : key = orders[oid].key
        OBVIOUS
      <4>2. orders'[oid].key = key
        BY <3>2, <4>1 DEF OrdersKept
      <4>3. key \in DOMAIN rows' \/ InHand(key)'
        BY <2>2, <3>2, <4>1 DEF OrdersTracked, RowsKept
      <4> QED
        BY <4>2, <4>3 DEF InHand
    <3> QED
      BY <3>1, <3>2
  <2> QED
    BY <2>3 DEF OrdersTracked
<1>2. ASSUME NEW p \in Procs, Submits(p)
      PROVE  OrdersTracked'
  <2>1. PICK label, item, j, order : SubmitsItem(p, label, item, j, order)
    BY <1>2, SubmitEffect
  <2>2. /\ Continue(p, label, j) /\ pc[p] = "submit" /\ label \in {"register", "timeout", "rejected"}
        /\ order \in Orders /\ order.key = <<job[p].cycle, item>>
        /\ orders' \in {orders, Append(orders, order)}
        /\ label = "rejected" => orders' = orders
    BY <2>1 DEF SubmitsItem
  <2>3. IsJob(job[p])
    BY <2>2, RunningJob
  <2>4. j.cycle = job[p].cycle /\ j.item = item
    <3>1. j = [job[p] EXCEPT !.item = item, !.todo = @ \ {item}, !.reply = j.reply]
      BY <2>1 DEF SubmitsItem
    <3> QED
      BY <2>3, <3>1 DEF IsJob
  <2>5. pc'[p] = label /\ job'[p] = j
    BY <2>2, OtherRuns
  <2>6. ASSUME NEW oid \in Oids' \ Oids
        PROVE  InHand(orders[oid].key)'
    <3>1. orders' = Append(orders, order) /\ label \in {"register", "timeout"}
      BY <2>2, <2>6 DEF Oids
    <3>2. orders'[oid] = order
      BY <2>2, <2>6, <3>1, OrderAppended
    <3>3. Key(p)' = order.key
      BY <2>2, <2>4, <2>5 DEF Key
    <3> QED
      BY <2>5, <3>1, <3>2, <3>3 DEF InHand
  <2> QED
    BY <1>1, <2>2, <2>6
<1>3. ASSUME NEW p \in Procs, OtherStep(p)
      PROVE  OrdersTracked'
  <2>1. Oids' = Oids
    BY <1>3, OtherStepQuiet DEF Oids
  <2>2. pc[p] \in {"register", "timeout"} => Key(p) \in DOMAIN rows'
    BY <1>3, HandToRow
  <2>3. \E label, j : Continue(p, label, j)
    BY <1>3, RunSteps, EarlyMoves, RunCarriesOn DEF EarlyMove, CarriesOn
  <2> QED
    BY <1>1, <2>1, <2>2, <2>3
<1>4. CASE UNCHANGED <<ledgerVars, pc, job, reported, simulated, Oids>>
  <2>1. rows' = rows /\ \A key : InHand(key)' <=> InHand(key)
    BY <1>4 DEF ledgerVars, InHand, Key
  <2>2. ASSUME NEW oid \in Oids'
        PROVE  orders'[oid].key \in DOMAIN rows' \/ InHand(orders[oid].key)'
    <3>1. PICK key : key = orders[oid].key
      OBVIOUS
    <3>2. orders'[oid].key = key
      BY <1>4, <2>2, <3>1 DEF OrdersKept
    <3>3. key \in DOMAIN rows' \/ InHand(key)'
      BY <1>4, <2>1, <2>2, <3>1 DEF OrdersTracked
    <3> QED
      BY <3>2, <3>3 DEF InHand
  <2> QED
    BY <2>2 DEF OrdersTracked
<1> QED
  BY <1>2, <1>3, <1>4, StepKinds

\* As long as no run dies between the exchange's answer and its row, and no error
\* hides an accepted order, every order on the exchange has a row in the ledger
\* or is in the hand of the run that is about to write it: timeouts and
\* rejections leave no order behind, whatever overlaps.
THEOREM EveryOrderTracked ==
    ASSUME Faults \intersect {"crash", "late_error"} = {}
    PROVE  Spec => []OrdersTracked
<1>1. Init => OrdersTracked
  BY DEF Init, OrdersTracked, Oids
<1>2. IInv /\ Knowledge /\ Progress /\ OrdersTracked /\ [Next]_vars => OrdersTracked'
  BY TrackedStep
<1> QED
  BY <1>1, <1>2, Invariance, KnowledgeAlways, ProgressAlways, PTL DEF Spec

-----------------------------------------------------------------------------
(* Runs that do not overlap.                                               *)

\* With one run at a time nothing is written between a run's reads and what it
\* does on them: a cycle is created while no row is unresolved, and what was
\* fetched of an order is final if its row is resolved.
FreshAt(label, j) ==
    /\ label = "create" => UnresolvedRows = {}
    /\ label \in {"fetch_recent", "fetch_fills", "record"} =>
           \A oid \in DOMAIN j.seen, key \in DOMAIN rows \ UnresolvedRows :
               rows[key].oid = oid => j.seen[oid] \in FinalStatuses

Fresh == \A p \in Procs : FreshAt(pc[p], job[p])

\* A read of the orders finds each as it is: open ones are no resolved row's.
LEMMA FreshReads ==
    ASSUME TypeOK, Rest, ResolvedIsFinal, Fresh, NEW p \in Procs, ReconcileStep(p)
    PROVE  \E label, j : Continue(p, label, j) /\ FreshAt(label, j)'
<1>1. pc[p] \in ReconcileLabels /\ IsJob(job[p])
  BY RunningJob DEF ReconcileStep, FetchOpen, FetchRecent, FetchFills, Record, Summarise,
                    ReconcileLabels
<1>2. CASE FetchOpen(p)
  <2>1. PICK seen : seen = FetchOpenOrders(job[p].cfg.symbols)
    OBVIOUS
  <2>2. PICK j : j = [job[p] EXCEPT !.seen = seen]
    OBVIOUS
  <2>3. Continue(p, "fetch_recent", j) /\ rows' = rows
    BY <1>2, <2>1, <2>2 DEF FetchOpen, ledgerVars
  <2>4. j.seen = seen
    BY <1>1, <2>2 DEF IsJob
  <2>5. \A oid \in DOMAIN seen : ~Final(oid)
    BY <2>1 DEF FetchOpenOrders, Final, ExchangeFinal
  <2>6. \A key \in DOMAIN rows \ UnresolvedRows : Final(rows[key].oid)
    BY DEF ResolvedIsFinal
  <2>7. FreshAt("fetch_recent", j)'
    BY <2>3, <2>4, <2>5, <2>6 DEF FreshAt, UnresolvedRows
  <2> QED
    BY <2>3, <2>7
<1>3. CASE FetchRecent(p)
  <2>1. PICK open, recent : /\ open = job[p].seen
                            /\ recent = FetchRecentOrders(job[p].cfg.symbols, job[p].since)
    OBVIOUS
  <2>2. PICK seen : seen = Deduplicate(open, recent)
    OBVIOUS
  <2>3. PICK j : j = [job[p] EXCEPT !.seen = seen]
    OBVIOUS
  <2>4. Continue(p, "fetch_fills", j) /\ rows' = rows /\ pc[p] = "fetch_recent"
    BY <1>3, <2>1, <2>2, <2>3 DEF FetchRecent, ledgerVars
  <2>5. j.seen = seen
    BY <1>1, <2>3 DEF IsJob
  <2>6. \A oid \in DOMAIN recent : recent[oid] \in FinalStatuses
    BY <2>1 DEF FetchRecentOrders, Final, ExchangeFinal, NormalizeOrder, FinalStatuses
  <2>7. \A oid \in DOMAIN open, key \in DOMAIN rows \ UnresolvedRows :
            rows[key].oid = oid => open[oid] \in FinalStatuses
    BY <2>1, <2>4 DEF Fresh, FreshAt
  <2>8. /\ DOMAIN seen = DOMAIN open \union DOMAIN recent
        /\ \A oid \in DOMAIN seen :
               seen[oid] = IF oid \in DOMAIN recent THEN recent[oid] ELSE open[oid]
    BY <2>2 DEF Deduplicate
  <2>9. FreshAt("fetch_fills", j)'
    BY <2>4, <2>5, <2>6, <2>7, <2>8 DEF FreshAt, UnresolvedRows
  <2> QED
    BY <2>4, <2>9
<1>4. CASE FetchFills(p)
  <2>1. PICK trades : trades = FetchRecentFills(job[p].cfg.symbols, job[p].since)
    OBVIOUS
  <2>2. PICK j : j = [job[p] EXCEPT !.trades = trades]
    OBVIOUS
  <2>3. Continue(p, "record", j) /\ rows' = rows /\ pc[p] = "fetch_fills"
    BY <1>4, <2>1, <2>2 DEF FetchFills, ledgerVars
  <2>4. j.seen = job[p].seen
    BY <1>1, <2>2 DEF IsJob
  <2>5. FreshAt("record", j)'
    BY <2>3, <2>4 DEF Fresh, FreshAt, UnresolvedRows
  <2> QED
    BY <2>3, <2>5
<1>5. CASE Record(p) \/ Summarise(p)
  <2>1. \E label, j : Continue(p, label, j) /\
           label \in {"summarise", "idle", "finish_partial", "finish_completed"}
    BY <1>5 DEF Record, Summarise, End
  <2> QED
    BY <2>1 DEF FreshAt
<1> QED
  BY <1>2, <1>3, <1>4, <1>5 DEF ReconcileStep

\* One run at a time keeps what it reads fresh.
LEMMA FreshStep ==
    ASSUME \A p, q \in Procs : p = q
    PROVE  IInv /\ ResolvedIsFinal /\ Fresh /\ [Next]_vars => Fresh'
<1> SUFFICES ASSUME TypeOK, Rest, ResolvedIsFinal, Fresh, [Next]_vars PROVE Fresh'
  BY DEF IInv, Rest
<1>1. ASSUME NEW p \in Procs, NEW label, NEW j, Continue(p, label, j), FreshAt(label, j)'
      PROVE  Fresh'
  <2>1. pc'[p] = label /\ job'[p] = j
    BY <1>1, OtherRuns
  <2>2. FreshAt(pc[p], job[p])'
    BY <1>1, <2>1 DEF FreshAt
  <2> QED
    BY <2>2 DEF Fresh
<1>2. ASSUME NEW p \in Procs, NEW label, NEW j, Continue(p, label, j),
             label \notin {"create", "fetch_recent", "fetch_fills", "record"}
      PROVE  Fresh'
  BY <1>1, <1>2 DEF FreshAt
<1>3. ASSUME NEW p \in Procs, Submits(p)
      PROVE  Fresh'
  <2>1. PICK label, item, j, order : SubmitsItem(p, label, item, j, order)
    BY <1>3, SubmitEffect
  <2> QED
    BY <1>2, <2>1 DEF SubmitsItem
<1>4. ASSUME NEW p \in Procs, BeforeCycle(p)
      PROVE  Fresh'
  <2>1. PICK label, j : EarlyMove(p, label, j)
    BY <1>4, EarlyMoves
  <2>2. CASE label = "create" /\ MayExecute(j.plan) /\ UNCHANGED ledgerVars
    <3>1. FreshAt(label, j)'
      BY <2>2 DEF FreshAt, MayExecute, UnresolvedRows, ledgerVars
    <3> QED
      BY <1>1, <2>1, <3>1 DEF EarlyMove
  <2>3. CASE label \notin {"create", "fetch_recent", "fetch_fills", "record"}
    BY <1>2, <2>1, <2>3 DEF EarlyMove
  <2> QED
    BY <2>1, <2>2, <2>3 DEF EarlyMove
<1>5. ASSUME NEW p \in Procs, RunStep(p)
      PROVE  Fresh'
  <2>1. CASE ReconcileStep(p)
    BY <1>1, <2>1, FreshReads
  <2>2. CASE \/ MarkExecuting(p) \/ Register(p) \/ MarkSubmitted(p)
             \/ TimeoutStep(p) \/ RejectStep(p) \/ Finish(p)
    <3>1. \E label : /\ Goto(p, label)
                     /\ label \notin {"create", "fetch_recent", "fetch_fills", "record"}
      BY <2>2 DEF MarkExecuting, Register, RegisterRow, MarkSubmitted, TimeoutStep, RegisterTimeout,
                  RejectStep, Finish, FailItem, EndCycle, Continue, End
    <3>2. PICK label, j : CarriesOn(p, label, j)
      BY <1>5, RunCarriesOn
    <3>3. label \notin {"create", "fetch_recent", "fetch_fills", "record"}
      BY <3>1, <3>2, OtherRuns DEF CarriesOn, Continue, Goto, TypeOK, ProcessesTyped
    <3> QED
      BY <1>2, <3>2, <3>3 DEF CarriesOn
  <2> QED
    BY <1>5, <2>1, <2>2 DEF RunStep
<1>6. CASE UNCHANGED <<ledgerVars, pc, job, reported, simulated, Oids>>
  BY <1>6 DEF Fresh, FreshAt, UnresolvedRows, ledgerVars
<1> QED
  BY <1>3, <1>4, <1>5, <1>6, StepKinds, RunSteps

\* One run at a time acts on what is so.
LEMMA FreshAlways ==
    ASSUME \A p, q \in Procs : p = q
    PROVE  Spec => []Fresh
<1>1. Init => Fresh
  BY DEF Init, Fresh, FreshAt
<1>2. IInv /\ ResolvedIsFinal /\ Fresh /\ [Next]_vars => Fresh'
  BY FreshStep
<1> QED
  BY <1>1, <1>2, Invariance, ResolvedIsEnded, PTL DEF Spec

\* While runs do not overlap, no cycle is opened for execution as long as a row
\* is unresolved, whenever that row came to be.
THEOREM UnresolvedBlocks ==
    ASSUME \A p, q \in Procs : p = q
    PROVE  Spec => BlockedWhileUnresolved
<1>1. IInv /\ Fresh /\ [Next]_vars =>
          [UnresolvedRows # {} => DOMAIN cycles' \ DOMAIN cycles \subseteq simulated']_vars
  <2> SUFFICES ASSUME TypeOK, Rest, Fresh, [Next]_vars, UnresolvedRows # {},
                      NEW cycle \in DOMAIN cycles' \ DOMAIN cycles
               PROVE  cycle \in simulated'
    BY DEF IInv, Rest
  <2>1. ~UNCHANGED cycles
    OBVIOUS
  <2>2. ASSUME NEW p \in Procs, Submits(p)
        PROVE  UNCHANGED cycles
    BY <2>2, SubmitEffect DEF SubmitsItem, ledgerVars
  <2>3. ASSUME NEW p \in Procs, RunStep(p)
        PROVE  DOMAIN cycles' = DOMAIN cycles
    BY <2>3, CycleSteps DEF SetCycleStatus
  <2>4. ASSUME NEW p \in Procs, BeforeCycle(p)
        PROVE  cycle \in simulated'
    <3>1. PICK label, j : EarlyMove(p, label, j)
      BY <2>4, EarlyMoves
    <3>2. pc[p] # "create"
      BY DEF Fresh, FreshAt
    <3>3. PersistSimulation(p)
      BY <2>1, <3>1, <3>2 DEF EarlyMove, ledgerVars
    <3> QED
      BY <2>1, <3>3 DEF PersistSimulation, CreateCycleWithOrders, Put, ledgerVars
  <2> QED
    BY <2>1, <2>2, <2>3, <2>4, StepKinds, RunSteps DEF ledgerVars
<1> QED
  BY <1>1, FreshAlways, Invariance, PTL DEF Spec, BlockedWhileUnresolved

\* While runs do not overlap, an order that the ledger has as resolved keeps its
\* status: no reconciliation writes an older observation over it.
THEOREM ResolvedForGood ==
    ASSUME \A p, q \in Procs : p = q
    PROVE  Spec => ResolvedStays
<1>1. IInv /\ Knowledge /\ ResolvedIsFinal /\ Fresh /\ [Next]_vars =>
          [\A key \in DOMAIN rows \ UnresolvedRows : rows'[key].status = rows[key].status]_vars
  <2> SUFFICES ASSUME TypeOK, Rest, Knowledge, ResolvedIsFinal, Fresh, [Next]_vars,
                      NEW key \in DOMAIN rows \ UnresolvedRows
               PROVE  rows'[key].status = rows[key].status
    BY DEF IInv, Rest
  <2>1. CASE rows' = rows
    BY <2>1
  <2>2. ASSUME NEW p \in Procs, Submits(p)
        PROVE  rows' = rows
    BY <2>2, SubmitEffect DEF SubmitsItem, ledgerVars
  <2>3. ASSUME NEW p \in Procs, BeforeCycle(p)
        PROVE  rows' = rows
    <3>1. PICK label, j : EarlyMove(p, label, j)
      BY <2>3, EarlyMoves
    <3> QED
      BY <3>1 DEF EarlyMove, ledgerVars, PersistSimulation, CreateCycleWithOrders
  <2>4. ASSUME NEW p \in Procs, Register(p) \/ RegisterTimeout(p)
        PROVE  rows'[key] = rows[key]
    <3>1. PICK k, row : rows' = rows \/ (k \notin DOMAIN rows /\ rows' = Put(rows, k, row))
      BY <2>4, RegisterEffect DEF ledgerVars
    <3> QED
      BY <3>1 DEF Put
  <2>5. ASSUME NEW p \in Procs, Record(p)
        PROVE  rows'[key].status = rows[key].status
    <3>1. PICK seen : seen = job[p].seen
      OBVIOUS
    <3>2. rows' = ReconciledRows(seen) /\ pc[p] = "record"
      BY <2>5, <3>1 DEF Record, RecordReconciliation
    <3>3. DOMAIN seen \subseteq Oids
      BY <3>1, <3>2, RunningJob DEF IsJob
    <3>4. CASE \E oid \in DOMAIN seen : /\ rows'[key] = [oid |-> oid, status |-> seen[oid]]
                                        /\ Names(key, oid)
      <4>1. PICK oid \in DOMAIN seen : /\ rows'[key] = [oid |-> oid, status |-> seen[oid]]
                                       /\ Names(key, oid)
        BY <3>4
      <4>2. /\ Names(key, rows[key].oid)
            /\ rows[key].status \in FinalStatuses
        <5>1. rows[key].status \in OrderStatuses \ UnresolvedStatuses
          BY DEF UnresolvedRows, TypeOK, LedgerTyped, Rows
        <5> QED
          BY <5>1 DEF ResolvedIsFinal, Names, OrderStatuses
      <4>3. rows[key].oid = oid
        BY <4>1, <4>2 DEF Names, Rest, NoDoubleSell
      <4>4. seen[oid] \in FinalStatuses
        BY <3>1, <3>2, <4>3 DEF Fresh, FreshAt
      <4>5. seen[oid] = NormalizeOrder(orders[oid])
        BY <3>1, <4>4 DEF Knowledge, KnowsAt, Tells
      <4>6. rows[key].status = NormalizeOrder(orders[oid])
        <5>1. rows[key].oid # NoOid
          BY <3>3, <4>3 DEF TypeOK, ExchangeTyped, Oids, NoOid
        <5> QED
          BY <4>2, <4>3, <5>1 DEF Knowledge, RowsTrue, Tells
      <4> QED
        BY <4>1, <4>5, <4>6
    <3> QED
      BY <3>2, <3>3, <3>4, ReconciledRow DEF Knowledge
  <2> QED
    BY <2>1, <2>2, <2>3, <2>4, <2>5, StepKinds, RunSteps, RowSteps DEF ledgerVars
<1> QED
  BY <1>1, FreshAlways, Invariance, KnowledgeAlways, ResolvedIsEnded, PTL DEF Spec, ResolvedStays

=============================================================================
