CONSTANTS
  Clients = {"GetWeather"}
  NBlocks = 5
  BlkSize = 4
  Sizes <- MCSizes
SPECIFICATION Spec
INVARIANTS TypeOK TableIsExact
PROPERTIES HeapSpec FailsOnlyWhenFull
