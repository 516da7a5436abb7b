------------------------------ MODULE Exchange ------------------------------
(***************************************************************************)
(* The exchange as the adapter in exchange.py uses it, and the clock.      *)
(*                                                                         *)
(* An order's exchange id is its position in `orders`.  Its client order   *)
(* id is a digest of cycle id and symbol, so the pair <<cycle, symbol>>,   *)
(* the order's `key`, stands for it.  Quantities and prices are left out:  *)
(* a fill is the pair of its order and the day it was traded on.           *)
(***************************************************************************)
EXTENDS Integers, Sequences, Scheduling

CONSTANTS
    Days,      \* the local dates the clock passes through
    Outcomes   \* what may become of an open order: a final state, or "partial"

NoDay == -1
NoOid == 0

\* Raw order statuses of the exchange.  An order "in_flight" is a request that
\* left the program, timed out there, and has not reached the exchange yet.
ExchangeFinal == {"closed", "canceled", "expired", "rejected"}
ExchangeStates == {"in_flight", "open"} \union ExchangeFinal

ASSUME ExchangeAssumption ==
    /\ Days \subseteq Nat
    /\ Outcomes \subseteq ExchangeFinal \union {"partial"}

VARIABLES
    today,     \* the current local date
    orders     \* the app's orders on the exchange, in order of submission

exchangeVars == <<today, orders>>

Oids == DOMAIN orders
Final(oid) == orders[oid].state \in ExchangeFinal

-----------------------------------------------------------------------------
(* What the adapter reads.                                                 *)

UnresolvedStatuses == {"open", "partial", "unknown"}
FinalStatuses == {"filled", "canceled", "failed"}
OrderStatuses == UnresolvedStatuses \union FinalStatuses

\* Faulty variant: any fill counts as the whole order.
NormalizePartialAsFilled(order) ==
    CASE order.state = "open" -> IF order.fills = {} THEN "open" ELSE "filled"
      [] order.state = "closed" -> "filled"
      [] order.state = "canceled" -> "canceled"
      [] order.state \in {"rejected", "expired"} -> "failed"
      [] OTHER -> "unknown"

\* _normalize_order: the OrderStatus of a raw order.
NormalizeOrder(order) ==
    CASE order.state = "open" -> IF order.fills = {} THEN "open" ELSE "partial"
      [] order.state = "closed" -> "filled"
      [] order.state = "canceled" -> "canceled"
      [] order.state \in {"rejected", "expired"} -> "failed"
      [] OTHER -> "unknown"

\* fetch_open_orders and fetch_recent_orders: statuses by exchange order id.
FetchOpenOrders(symbols) ==
    [oid \in {o \in Oids : orders[o].state = "open" /\ orders[o].key[2] \in symbols}
        |-> NormalizeOrder(orders[oid])]

FetchRecentOrders(symbols, since) ==
    [oid \in {o \in Oids : /\ Final(o)
                           /\ orders[o].key[2] \in symbols
                           /\ orders[o].closed >= since}
        |-> NormalizeOrder(orders[oid])]

\* fetch_recent_fills.
FetchRecentFills(symbols, since) ==
    {fill \in Oids \X Days : /\ orders[fill[1]].key[2] \in symbols
                             /\ fill[2] \in orders[fill[1]].fills
                             /\ fill[2] >= since}

-----------------------------------------------------------------------------
(* What the exchange does.                                                 *)

\* The order a submission creates: still on its way, resting, or ended at once.
NewOrders(key) ==
    [state \in ExchangeStates |->
        [key    |-> key,
         state  |-> state,
         fills  |-> IF state = "closed" THEN {today} ELSE {},
         closed |-> IF state \in ExchangeFinal THEN today ELSE NoDay]]

Arrive(oid) ==
    /\ orders[oid].state = "in_flight"
    /\ orders' = [orders EXCEPT ![oid].state = "open"]
    /\ UNCHANGED today

PartialFill(oid) ==
    /\ "partial" \in Outcomes
    /\ orders[oid].state = "open"
    /\ orders' = [orders EXCEPT ![oid].fills = @ \union {today}]
    /\ UNCHANGED today

\* "closed" needs a last fill; an order canceled or expired may have some.
Close(oid, outcome) ==
    /\ outcome \in Outcomes \intersect ExchangeFinal
    /\ orders[oid].state = "open"
    /\ orders' = [orders EXCEPT ![oid].state  = outcome,
                                ![oid].fills  = IF outcome = "closed" THEN @ \union {today} ELSE @,
                                ![oid].closed = today]
    /\ UNCHANGED today

NextDay ==
    /\ today' \in {day \in Days : day > today}
    /\ \A day \in Days : today < day => today' <= day
    /\ UNCHANGED orders
=============================================================================
