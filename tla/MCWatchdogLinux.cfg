CONSTANTS
  p1 = p1
  p2 = p2
  a1 = a1
  a2 = a2
  b1 = b1
  Procs = {p1, p2}
  Threads = {a1, a2, b1}
  ProcOf <- TwoAndOne
  NoProc = NoProc
  NoThread = NoThread
  NoAccess = {}
  LockMayFail = FALSE
  Requests <- SomeRequests
  MinTimeout = 1000
  MaxTimeout = 3000
  Granted <- SomeGranted
  IoMayFail = TRUE
  MaxHole = 1
SPECIFICATION FairWdSpec
INVARIANTS FileIsLastSetup
PROPERTIES ArmsLastSetup SettledForGood EveryPathUnlocks ImplementsRegister
