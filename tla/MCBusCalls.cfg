CONSTANTS
  t1 = t1
  t2 = t2
  Threads <- SomeThreads
  NoThread = none
  MaxBuses = 2
  Numbers = {0, 1}
  MaxFds = 2
SPECIFICATION Spec
CHECK_DEADLOCK FALSE
SYMMETRY Interchangeable
INVARIANTS ReadsLive KnownBus LeftEmpty DescriptorsAccounted
