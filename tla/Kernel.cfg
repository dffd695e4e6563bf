CONSTANTS
  high = high
  low1 = low1
  low2 = low2
  idle = idle
  s1 = s1
  m1 = m1
  m2 = m2
  m3 = m3
  Threads = {high, low1, low2, idle}
  Idle = idle
  Null = Null
  InitPriority <- MCInitPriority
  InitTick <- MCInitTick
  Objects <- MCObjects
  Sems = {s1}
  Mutexes = {m1, m2, m3}
  PrioObjects = {m1, m3}
  TickRange = 7
  WaitTimes = {1, 2}
  MaxValue = 1
  MaxHold <- MCMaxHold
SPECIFICATION MCSpec
PROPERTIES WaitsForAToken SemaphoreCounts TimersFire SlicesAreShared
INVARIANTS TypeOK QueuesAgree Wakeable MutualExclusion NobodyWaitsInVain RunsHighestUnlessLowered Inheritance
CHECK_DEADLOCK FALSE
