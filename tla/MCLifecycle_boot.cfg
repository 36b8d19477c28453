CHECK_DEADLOCK FALSE
SPECIFICATION Spec
CONSTANTS
  Sandboxes = {s1}
  Nobody = Nobody
  MaxOps = 3
  MaxTtl = 1
  DefaultTtl = 1
  MaxEntries = 3
  MaxFaults = 2
  CountFaults = TRUE
  Requests = {"create", "start", "restart", "stop", "remove", "pause", "resume", "renew"}
PROPERTIES RecoverStopsOnlyOverdue
