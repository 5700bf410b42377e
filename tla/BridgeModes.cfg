SPECIFICATION FairModesSpec
CONSTANTS
  g1 = g1  a1 = a1  h1 = h1
  Cleaner = Cleaner  Nobody = Nobody  NoJob = NoJob
  MACs <- OneMac
  Addrs <- OneAddr
  Handlers <- OneHandler
  Arrivals <- PullAndPush
  Downlinks <- OneMac
  SkipCRC = FALSE
  Expiry = 0
  Period = 0
  Faults = {"onNew"}
  MayClose = FALSE
  U32Size = 2048
  IntSize = 2048
  Configurations <- mcConfigurations
  RXPKs <- mcRXPKs
  Stats <- mcStats
  TXPKs <- mcTXPKs
  Fixed = g1
CHECK_DEADLOCK FALSE
INVARIANTS
  ModesTypeOK
  UplinkKeepsContent
  StatsKeepCounters
  DownlinkKeepsContent
PROPERTIES
  AliveWhileHeard
  SilentGatewayKills
  AcksOutlivePumps
  CoapUplinksFlow
  StartsUp
