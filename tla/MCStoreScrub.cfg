CONSTANTS
  w1 = w1
  w2 = w2
  vec = vec
  doc = doc
  compactor = compactor
  opener = opener
  Vector = {vec}
  Document = {doc}
  Writer = {w1}
  Compactor = compactor
  Opener = opener
  MaxPending = 2
  SyncCoversRename = TRUE
  Faults = {"scrub"}
  MaxTxns = 2
  MaxCompactions = 1
  MaxCrashes = 1
  MaxFailures = 1
SPECIFICATION Spec
INVARIANT StoreOpens
