CONSTANTS
  w1 = w1
  w2 = w2
  vec = vec
  doc = doc
  compactor = compactor
  opener = opener
  Vector = {vec}
  Document = {doc}
  Writer = {w1, w2}
  Compactor = compactor
  Opener = opener
  MaxPending = 2
  SyncCoversRename = TRUE
  Faults = {"append", "deliver", "sync", "publish", "dirsync", "remove", "scrub"}
  MaxTxns = 2
  MaxCompactions = 1
  MaxCrashes = 1
  MaxFailures = 1
SPECIFICATION Spec
SYMMETRY SymWriters
INVARIANTS CommittedSurvives LiveMatchesJournal AuditTrailExact
