CONSTANTS
  Buses = {0, 3, 5, 7}
  Names = {"smbus", "i801"}
  IsPrefix <- Same
  Systems <- MCSystems
  Confs <- MCConfs
  ReadMayFail = FALSE
  MaxSame = 3
  MaxUnit = 2
SPECIFICATION MatchSpec
CHECK_DEADLOCK FALSE
INVARIANTS RightBus
