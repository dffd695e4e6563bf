CONSTANTS
  serial3 = serial3
  GetWeather = GetWeather
  tidle = tidle
  usart3_rx_sem = usart3_rx_sem
  Threads = {serial3, GetWeather, tidle}
  Idle = tidle
  Null = Null
  InitPriority <- NapInitPriority
  InitTick <- NapInitTick
  Objects = {usart3_rx_sem}
  Sems = {usart3_rx_sem}
  Mutexes = {}
  PrioObjects = {}
  TickRange = 9
  NapTicks = 2
  WaitTimes = {1}
  MaxValue = 1
  MaxHold <- NapMaxHold
SPECIFICATION NapSpec
PROPERTIES WaitsForAToken
CHECK_DEADLOCK FALSE
