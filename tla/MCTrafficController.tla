------------------------- MODULE MCTrafficController -------------------------
(* Model-checking instance of TrafficController. *)
EXTENDS TrafficController, TLC

CONSTANTS t1, t2, t3, k1, k2

MCTasks2 == {t1, t2}
MCTasks3 == {t1, t2, t3}
MCKeys   == {k1, k2}

Symmetry2 == Permutations(MCTasks2) \cup Permutations(MCKeys)
Symmetry3 == Permutations(MCTasks3) \cup Permutations(MCKeys)
=============================================================================
