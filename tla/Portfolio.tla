------------------------------ MODULE Portfolio -----------------------------
(***************************************************************************)
(* The price cache and the portfolio history of portfolio.py.              *)
(*                                                                         *)
(* A daily candle is its symbol and its day; of prices only their presence *)
(* matters here.  A symbol stands for its base asset too: config.py lets   *)
(* no two symbols of the allowlist have the same one.                      *)
(***************************************************************************)
EXTENDS Balances

VARIABLE candles   \* the price_candles table: pairs <<symbol, day>>

\* default_since: the first candle opened within the last `days` days.
DefaultSince(days, today) == today - days + 1

NoLimit == 0

\* The days a request for candles covers.
InRange(since, limit, day) == since <= day /\ (limit = NoLimit \/ day < since + limit)

\* fetch_ohlcv, of the candles there are: the exchange has one of each symbol for
\* every day up to `last`.
FetchOhlcv(symbol, since, limit, last) ==
    {symbol} \X {day \in 1..last : InRange(since, limit, day)}

\* record_price_candles, an upsert of all of them in one transaction.
RecordPriceCandles(fetched) == candles' = candles \union fetched

\* portfolio_history: a row for each day that has a candle.  A row values the
\* assets that have a balance, the latest one whatever the day, and a close.
HistoryDays == {candle[2] : candle \in candles}

HistoryRow(symbols, day) ==
    LET shown == LatestBalances(Sources)
    IN  [symbol \in {s \in symbols \intersect DOMAIN shown : <<s, day>> \in candles}
            |-> shown[symbol].total]

\* The symbols of missing_prices; a row is "complete" when there are none.
MissingPrices(symbols, day) == symbols \ DOMAIN HistoryRow(symbols, day)
=============================================================================
