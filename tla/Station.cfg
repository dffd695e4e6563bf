CONSTANTS
  RxCap = 2
  AirCap = 3
  MaxLost = 1
  Commands = {"wifi", "update", "place"}
  MaxCommands = 2
  Places <- MCPlaces
  FirstPlace = "beijing"
  JoinedAtStart = TRUE
  TimerRuns = TRUE
SPECIFICATION MCSpec
INVARIANTS TypeOK ModuleReleased OneCityUnlessCrossed ClockFromNtpUnlessCrossed
CHECK_DEADLOCK FALSE
