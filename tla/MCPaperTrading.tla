--------------------------- MODULE MCPaperTrading ---------------------------
EXTENDS PaperTrading, TLC

L(p, a) == [price |-> p, available |-> a]

\* A thin ask, a book whose second level is dearer, and no offer at all.
SomeAsks == {<<>>, <<L(1, 1), L(2, 2)>>, <<L(2, 1)>>}
SomeBids == {<<L(2, 1), L(1, 2)>>, <<L(1, 1)>>}

Symmetric == Permutations(Calls) \union Permutations(Symbols)
=============================================================================
