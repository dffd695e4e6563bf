CONSTANTS
  MaxVersion = 1
  MaxCommands = 3
  MaxSeconds = 1
SPECIFICATION MCSpec
INVARIANTS TypeOK ShowsTheData
CHECK_DEADLOCK FALSE
