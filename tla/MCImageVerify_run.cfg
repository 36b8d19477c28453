SPECIFICATION Spec
CONSTANTS
  m = m
  n = n
  l = l
  r = r
  None = None
  Images = {m, n}
  Digests = {m, n, l, r}
  Calls = {c1, c2}
  CacheLimit = 1
  Kids <- MCKids
  Root <- MCRoot
SYMMETRY Symmetry
INVARIANTS CacheTruthful ServedWasGood
PROPERTIES RepairedIsServed
