CONSTANTS
  Starts <- TodayStarts
  NtpTimes <- TodayNtpTimes
  Values = {0}
  MaxTicks = 2
  MaxSets = 0
  MaxInGet = 0
SPECIFICATION Spec
PROPERTY ShowsToday
CHECK_DEADLOCK FALSE
