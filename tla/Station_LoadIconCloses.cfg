CONSTANTS
  RxCap = 4
  AirCap = 4
  MaxLost = 1
  Commands = {"update"}
  MaxCommands = 1
  Places = {"beijing", "nanning"}
  FirstPlace = "beijing"
  JoinedAtStart = TRUE
  TimerRuns = FALSE
SPECIFICATION Spec
PROPERTY LoadIconCloses
CHECK_DEADLOCK FALSE
