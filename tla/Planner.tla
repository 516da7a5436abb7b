------------------------------ MODULE Planner -------------------------------
(***************************************************************************)
(* The sell planner of planner.py: what build_sell_plan makes of one       *)
(* symbol of the allowlist.                                                *)
(*                                                                         *)
(* Balances are in lots, the step the exchange trades a symbol in.         *)
(* Quantities are in hundredths of a lot, so that a percentage of a        *)
(* balance is exact, as it is with the decimals of the code.  Prices are   *)
(* per hundredth of a lot, which makes a value the product of a quantity   *)
(* and a price.                                                            *)
(*                                                                         *)
(*   settings  [percent, basis, maxSpread, maxSell, minRemaining], where   *)
(*             maxSpread is in basis points                                *)
(*   balance   [available, total] in lots, or NoBalance                    *)
(*   market    [minAmount, minCost], 0 where the exchange sets no minimum  *)
(*   quote     [bid, ask], 0 where the ticker has none                     *)
(*                                                                         *)
(* A market is never missing here: fetch_markets fails for a symbol        *)
(* without one.                                                            *)
(***************************************************************************)
EXTENDS Integers

Lot == 100

NoBalance == [available |-> -1, total |-> -1]

Bases == {"current_balance", "initial_snapshot"}

\* What config.py accepts, of percentages the whole ones, in the section on the
\* schedule and in the one on safety.
ValidShare(settings) ==
    /\ settings.percent \in 1..100
    /\ settings.basis \in Bases

ValidLimits(settings) ==
    /\ settings.maxSpread \in Nat \ {0}
    /\ settings.maxSell \in Nat \ {0}
    /\ settings.minRemaining \in Nat

ValidSettings(settings) == ValidShare(settings) /\ ValidLimits(settings)

Smaller(a, b) == IF a < b THEN a ELSE b

-----------------------------------------------------------------------------
(* Quotes.                                                                 *)

InvalidQuote(quote) == quote.bid <= 0 \/ quote.ask <= 0 \/ quote.ask < quote.bid

\* (ask - bid) / ((bid + ask) / 2) * 10000 exceeds max_spread_bps.
SpreadTooWide(settings, quote) ==
    (quote.ask - quote.bid) * 20000 > settings.maxSpread * (quote.bid + quote.ask)

-----------------------------------------------------------------------------
(* Quantities.                                                             *)

\* The balance the percentage is taken of; `snapshot` is the initial one.
BasisBalance(settings, held, snapshot) ==
    IF settings.basis = "initial_snapshot" THEN snapshot ELSE held

\* Faulty variant: sizing counts balances that open orders lock.
QuantityOfTotal(settings, held, snapshot) ==
    Smaller(BasisBalance(settings, held, snapshot).total * settings.percent, held.total * Lot)

\* The percentage of the basis, and no more than is available.
Quantity(settings, held, snapshot) ==
    Smaller(BasisBalance(settings, held, snapshot).available * settings.percent,
            held.available * Lot)

NothingToSell(settings, held, snapshot) == Quantity(settings, held, snapshot) <= 0

BelowMinimum(market, quantity, bid) ==
    quantity < market.minAmount \/ quantity * bid < market.minCost

\* The cap is compared with the value of one symbol's sell.
AboveCap(settings, quantity, bid) == quantity * bid > settings.maxSell

\* Faulty variant: the reserve is looked for in what is held before the sell.
HoldingBelowReserve(settings, held, quantity, bid) ==
    held.available * Lot * bid < settings.minRemaining

\* What is left available is worth less than the reserve.
BelowReserve(settings, held, quantity, bid) ==
    (held.available * Lot - quantity) * bid < settings.minRemaining

-----------------------------------------------------------------------------
(* The plan item of a symbol: the first of the checks that fails decides.  *)

ItemStatus(settings, held, snapshot, market, quote) ==
    LET quantity == Quantity(settings, held, snapshot)
        basis    == BasisBalance(settings, held, snapshot)
    IN  IF settings.basis = "initial_snapshot" /\ snapshot = NoBalance THEN "blocked"
        ELSE IF held = NoBalance \/ basis = NoBalance THEN "skipped"
        ELSE IF InvalidQuote(quote) \/ SpreadTooWide(settings, quote) THEN "blocked"
        ELSE IF NothingToSell(settings, held, snapshot) THEN "skipped"
        ELSE IF BelowMinimum(market, quantity, quote.bid) THEN "skipped"
        ELSE IF AboveCap(settings, quantity, quote.bid) THEN "blocked"
        ELSE IF BelowReserve(settings, held, quantity, quote.bid) THEN "blocked"
        ELSE "planned"

PlanItem(settings, held, snapshot, market, quote) ==
    LET status == ItemStatus(settings, held, snapshot, market, quote)
    IN  IF status = "planned"
        THEN [status |-> status, quantity |-> Quantity(settings, held, snapshot), bid |-> quote.bid]
        ELSE [status |-> status, quantity |-> 0, bid |-> 0]

ItemValue(item) == item.quantity * item.bid
=============================================================================
