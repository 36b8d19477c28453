SPECIFICATION Spec
CONSTANTS
  Sandboxes = {s1}
  Nobody = Nobody
  MaxOps = 2
  MaxTtl = 1
  DefaultTtl = 1
  MaxEntries = 3
  MaxFaults = 0
  CountFaults = FALSE
  Requests = {"create", "start", "restart", "stop", "remove", "pause", "resume", "renew"}
INVARIANTS TypeOK NoOrphan OneIntent StartupNeverWedged IntentIsDriven RunsOnATimer AckedIsCommitted
PROPERTIES AckedGoesByDelete TtlStopsOnlyOverdue
