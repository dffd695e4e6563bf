CONSTANTS
  Threads = {"GetWeather", "HMIRePrecess"}
  NBlocks = 9
  TextSize = 2
  TreeSize = 2
  Version = {"long", "short"}
  Length <- MCLength
  FieldSize = 2
  MaxCalls = 4
  CallsTogether = 2
SPECIFICATION MCSpec
INVARIANTS TypeOK  LostIsAccountedAlone
CHECK_DEADLOCK FALSE
