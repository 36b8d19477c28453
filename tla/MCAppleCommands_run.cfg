SPECIFICATION AppleSpec
CONSTANTS
  Commands = {c1}
  Clients = {k1}
  MaxOut = 3
  Nobody = Nobody
INVARIANTS FinalLogs EndIsConfirmed NoLateSignal NoCommandOfRemoved NotReleased
PROPERTIES WaitersServed
