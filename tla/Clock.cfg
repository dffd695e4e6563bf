CONSTANTS
  Starts <- MCStarts
  SwitchOns <- MCSwitchOns
  NtpTimes <- MCNtpTimes
  Values = {0, 59}
  MaxTicks = 3
  MaxSets = 2
  MaxInGet = 1
  LastDay = 47481
SPECIFICATION MCSpec
INVARIANTS WrongOnlyOnLastOfLeapYear WeekIsRight SetIsRight DateOfDaycnt
PROPERTIES ShowsTheDay SetsOneFieldAlone
CHECK_DEADLOCK FALSE
