------------------------------- MODULE MCBooks -------------------------------
(***************************************************************************)
(* Model-checking instance of Books.  Recorders, proposals, requests,      *)
(* orders and threads share their model values, and so do operators,       *)
(* symbols and limited alerts: a behaviour runs one part only, and TLC     *)
(* permutes them all at once.                                              *)
(***************************************************************************)
EXTENDS Books, TLC

Symmetry == Permutations(Recorders) \cup Permutations(Operators)

MCZScores == {-35, -20, -5, 0, 5, 20, 35}
MCGains   == {-40, 40}
MCTakePct == [pairs_futures |-> 3, spot_hodl |-> 10]
=============================================================================
