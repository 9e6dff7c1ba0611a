----------------------------- MODULE MCMarketFeed -----------------------------
(* Instances of MarketFeed: a day of ten slots with the opening window 2 - 4 *)
(* and the time stop at 7, bars of one and of two slots.                     *)
EXTENDS MarketFeed

OneAndTwo == <<1, 2>>
Moments  == {6, 10, 12, 14, 15, 16}
Trades   == {[price |-> 1, qty |-> 2], [price |-> 2, qty |-> 0],
             [price |-> 3, qty |-> 1]}
BothOrders == {<<"bars", "orb">>, <<"orb", "bars">>}
===============================================================================
