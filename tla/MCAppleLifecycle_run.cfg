SPECIFICATION AppleSpec
CONSTANTS
  Sandboxes = {s1, s2}
  Nobody = Nobody
  MaxOps = 3
  MaxTtl = 1
  DefaultTtl = 1
  MaxEntries = 2
  MaxFaults = 0
  CountFaults = FALSE
  Requests = {"start", "restart", "stop", "remove", "renew"}
  Attempts = 2
SYMMETRY Symmetry
INVARIANTS NoOrphan IntentIsDriven RunsOnATimer
