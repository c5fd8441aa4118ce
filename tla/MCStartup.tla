------------------------------ MODULE MCStartup ------------------------------
\* Instances of Startup: three symbols, and a pair that an earlier process saved.
EXTENDS Startup

CONSTANTS a, b, c

MCSymbols  == {a, b, c}
PairRow    == [y |-> a, x |-> b, qy |-> 1, qx |-> -1]
NoneOrPair == {NoRow, PairRow}
=============================================================================
