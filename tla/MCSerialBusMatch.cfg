CONSTANTS
  Buses = {0, 3, 5, 7}
  Names = {"smbus", "i801"}
  IsPrefix <- Same
  Systems <- MCSystems
  Confs <- MCConfs
  ReadMayFail = TRUE
  MaxSame = 2
  MaxUnit = 2
SPECIFICATION MatchSpec
CHECK_DEADLOCK FALSE
INVARIANTS MatchTypeOK RightBus PresentMeansSuccess
PROPERTIES Terminates
