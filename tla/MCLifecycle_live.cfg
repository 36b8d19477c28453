CHECK_DEADLOCK FALSE
SPECIFICATION FairSpec
CONSTANTS
  Sandboxes = {s1}
  Nobody = Nobody
  MaxOps = 2
  MaxTtl = 1
  DefaultTtl = 1
  MaxEntries = 2
  MaxFaults = 2
  CountFaults = TRUE
  Requests = {"create", "restart"}
PROPERTIES IntentsRetire OverdueStops
