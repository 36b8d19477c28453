SPECIFICATION Spec
CONSTANTS
  i = i
  a = a
  b = b
  l = l
  p = p
  q = q
  c1 = c1
  c2 = c2
  s1 = s1
  s2 = s2
  None = None
  Tags = {t1, t2}
  Roots = {i, a}
  Platforms = {p, q}
  Digests = {i, a, b, l}
  Refs = {i, t1}
  Indexes = {i}
  Depth = 2
  Stores = {s1, s2}
  Calls = {c1, c2}
  Variants <- MCVariants
  Kids <- MCKids
SYMMETRY Symmetry
INVARIANTS TypeOK NamesComplete OneTransaction
PROPERTIES AtomicCatalog
