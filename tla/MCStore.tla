------------------------------ MODULE MCStore -------------------------------
EXTENDS StoreAudit, TLC

CONSTANTS w1, w2, vec, doc, compactor, opener

SymWriters == Permutations({w1, w2})
=============================================================================
