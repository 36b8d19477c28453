CHECK_DEADLOCK FALSE
SPECIFICATION Spec
CONSTANTS
  Sandboxes = {s1, s2}
  Nobody = Nobody
  MaxOps = 3
  MaxTtl = 1
  DefaultTtl = 1
  MaxEntries = 2
  MaxFaults = 1
  CountFaults = TRUE
  Requests = {"create", "restart", "remove"}
SYMMETRY Symmetry
INVARIANTS IntentIsDriven
