CHECK_DEADLOCK FALSE
SPECIFICATION FairLogSpec
CONSTANTS
  Readers = {r1, r2}
  Size = 3
  MaxWritten = 8
  MaxRead = 4
INVARIANTS SnapshotsAreTails
PROPERTIES IsLog OutputArrives ReadersEnd
