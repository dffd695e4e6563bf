CONSTANTS
  Clients = {"GetWeather", "HMIRePrecess"}
  NBlocks = 5
  BlkSize = 4
  Sizes <- MCSizes
SPECIFICATION Spec
INVARIANT Disjoint
