CONSTANTS
  t1 = t1
  t2 = t2
  Threads <- SomeThreads
  NLines = 2
  IntBits = 2
  Others = 1
  MaxFd = 3
  Inputs = {0, 1}
  Outputs = {0}
  Words = {{0}}
  Masks = {{0}}
SPECIFICATION Spec
CHECK_DEADLOCK FALSE
SYMMETRY Interchangeable
INVARIANTS DescriptorsAccounted
PROPERTIES DoneAsAsked
