SPECIFICATION MFairSpec
CONSTANTS
  good = good
  bytes = bytes
  twice = twice
  other = other
  d = d
  x = x
  Callers = {c1, c2, c3}
  Refs = {r1}
  Entries = {e1, e2, e3}
  None = None
  Ids = {good, bytes, twice, other}
  Source <- MCSource
  Archive <- MCArchive
INVARIANTS OneOwner NoLeak SandboxHasSource
PROPERTIES WaiterServed
