--------------------------- MODULE MCVectorUpdates ---------------------------
EXTENDS VectorUpdates, TLC

CONSTANTS i1, i2, t1, t2

SymThreads == Permutations({t1, t2})
SymIds == Permutations({i1, i2})
Sym == SymThreads \cup SymIds
=============================================================================
