---------------------------- MODULE MCTradingLoop ----------------------------
(* Model-checking instance of TradingLoop. *)
EXTENDS TradingLoop

EqualPrices == {1}
TwoPrices   == {1, 2}
=============================================================================
