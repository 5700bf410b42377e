SPECIFICATION ModesSpec
CONSTANTS
  g1 = g1  a1 = a1  h1 = h1
  Cleaner = Cleaner  Nobody = Nobody  NoJob = NoJob
  MACs <- OneMac
  Addrs <- OneAddr
  Handlers <- OneHandler
  Arrivals <- OnlyPull
  Downlinks <- OneMac
  SkipCRC = FALSE
  Expiry = 0
  Period = 0
  Faults = {"onNew"}
  MayClose = FALSE
  U32Size = 2048
  IntSize = 2048
  Configurations <- OnlyMqtt
  RXPKs <- mcRXPKs
  Stats <- mcStats
  TXPKs <- UnsetIPol
  Fixed = g1
CHECK_DEADLOCK FALSE
INVARIANTS
  UnsetIPolIsDefault
