CONSTANTS
  i1 = i1
  i2 = i2
  t1 = t1
  t2 = t2
  Id = {i1, i2}
  Created = {{}, {i1, i2}}
  Thread = {t1, t2}
  MaxOps = 2
  MaxCommits = 2
  MaxCrashes = 2
  MaxFailures = 0
SPECIFICATION Spec
SYMMETRY Sym
INVARIANT OpensAfterCrash
