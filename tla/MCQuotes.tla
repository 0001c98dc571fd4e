------------------------------ MODULE MCQuotes ------------------------------
(* Limits of 1 for 10, 5 and 60 calls a minute, so that every call but the *)
(* first is beyond them; one index that eastmoney lists, one it does not;  *)
(* a stock in .SS, whose row no quote inserts, and one whose row a quote   *)
(* inserts.                                                                *)
EXTENDS Quotes, TLC

MCLimit == [yfinance |-> 0, eastmoney |-> 1, alpha_vantage |-> 1, finnhub |-> 1]
MCAsks == {QuoteOf("ss"), QuoteOf("us"), Search("us"), Nav("fund"),
           AllIndices, AllCommodities}
Symmetry == Permutations(Requests)
=============================================================================
