CONSTANTS
  t1 = t1
  t2 = t2
  Callers <- SomeThreads
  NPins = 2
  IoMayFail = TRUE
SPECIFICATION Spec
SYMMETRY AnyThread
INVARIANTS NoneLeftExported SuccessMeansDone WholePortKept
