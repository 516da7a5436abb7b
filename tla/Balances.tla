------------------------------ MODULE Balances ------------------------------
(***************************************************************************)
(* The balances table of ledger.py and the two queries made of it: the     *)
(* latest row of each asset, and the latest one of a source.               *)
(*                                                                         *)
(* Rows are keyed by asset and observed_at; the exchange is always the     *)
(* same one.  Instants are positive integers.                              *)
(***************************************************************************)
EXTENDS Integers

Sources == {"initial_snapshot", "reconciliation"}

VARIABLE balances

\* fetch_balances: an asset of which nothing is held is not listed.
FetchBalances(account) ==
    [asset \in {a \in DOMAIN account : account[a].total # 0 \/ account[a].available # 0}
        |-> account[asset]]

-----------------------------------------------------------------------------

\* record_balances, and the balances of record_reconciliation: a row for each
\* asset of `seen`, replacing one of the same instant.
RecordBalances(observed, seen, source) ==
    LET new == (DOMAIN seen) \X {observed}
    IN  balances' = [key \in DOMAIN balances \union new |->
                        IF key \in new
                        THEN [amount |-> seen[key[1]], source |-> source]
                        ELSE balances[key]]

-----------------------------------------------------------------------------

\* The rows a query over `sources` selects, joined with the greatest instant of
\* each asset among them.
LatestKeys(sources) ==
    LET selected == {key \in DOMAIN balances : balances[key].source \in sources}
    IN  {key \in selected : \A other \in selected : other[1] = key[1] => other[2] <= key[2]}

\* Faulty variant: the join takes the greatest instant over all sources.
LatestOfAnySource(sources) ==
    [asset \in {key[1] : key \in {k \in LatestKeys(Sources) : balances[k].source \in sources}} |->
        LET key == CHOOSE k \in LatestKeys(Sources) : k[1] = asset IN balances[key].amount]

\* latest_balances: the amounts of each asset that has a row of `sources`.
LatestBalances(sources) ==
    [asset \in {key[1] : key \in LatestKeys(sources)} |->
        LET key == CHOOSE k \in LatestKeys(sources) : k[1] = asset IN balances[key].amount]
=============================================================================
