------------------------------ MODULE MCKeyPool ------------------------------
(* Three keys of finnhub, for a lap that begins anywhere, and one of       *)
(* alpha_vantage.                                                          *)
EXTENDS KeyPool

MCKeys == [finnhub |-> <<"f1", "f2", "f3">>, alpha_vantage |-> <<"a1">>]
=============================================================================
