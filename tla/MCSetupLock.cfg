CONSTANTS
  p1 = p1
  p2 = p2
  p3 = p3
  a1 = a1
  a2 = a2
  b1 = b1
  c1 = c1
  Procs = {p1, p2, p3}
  Threads = {a1, a2, b1, c1}
  ProcOf <- MCProcOf
  NoProc = NoProc
  NoThread = NoThread
  NoAccess = {p3}
  LockMayFail = TRUE
SPECIFICATION FairLockSpec
INVARIANTS LockKept Exclusive LockUsed
PROPERTIES LockReleased ImplementsFileMutex
