CONSTANTS
  t1 = t1
  t2 = t2
  Threads <- SomeThreads
  NoThread = none
  MaxPorts = 2
  LoadMayFail = TRUE
SPECIFICATION ConfigSpec
CHECK_DEADLOCK FALSE
INVARIANTS ConfigTypeOK OneLoader FirstLoadSafe
PROPERTY CallsReturn
