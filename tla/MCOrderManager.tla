--------------------------- MODULE MCOrderManager ---------------------------
(* Model-checking instance of OrderManager: model values come from the cfg. *)
EXTENDS OrderManager, TLC

CONSTANTS o1, o2, i1, i2, u1

MCOrders == {o1, o2}
MCIds    == {i1, i2}
MCUsers  == {u1}

\* Live trading with fresh ids against a router that raises; the same in dry run;
\* and callers that reuse ids against a router that swallows failed cancels.
Plain    == [dry |-> FALSE, reuse |-> FALSE, quiet |-> FALSE]
Dry      == [dry |-> TRUE,  reuse |-> FALSE, quiet |-> FALSE]
Careless == [dry |-> FALSE, reuse |-> TRUE,  quiet |-> TRUE]

AllModes   == {Plain, Dry, Careless}

Symmetry == Permutations(MCOrders)
=============================================================================
