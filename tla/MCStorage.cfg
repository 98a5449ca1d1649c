SPECIFICATION FairSpec
CONSTANTS
  Half = 4
  IntMax = 255
  Confs <- SomeConfs
  Numbers = {0, 1}
  Offsets <- SomeOffsets
  Lengths <- SomeLengths
INVARIANTS
  TypeOK
  UserAreaFound
  StaysInArea
  SuccessMeansDone
PROPERTIES
  CallsReturn
CHECK_DEADLOCK FALSE
