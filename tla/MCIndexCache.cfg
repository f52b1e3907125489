CONSTANTS
  a = a
  b = b
  w1 = w1
  w2 = w2
  keeper = keeper
  compactor = compactor
  Id = {a, b}
  Writer = {w1}
  Keeper = keeper
  Compactor = compactor
  MaxWrites = 3
  MaxTrainings = 2
  MaxCompactions = 1
  MaxCrashes = 1
SPECIFICATION Spec
SYMMETRY SymIds
INVARIANTS IndexExact CacheTrusted
