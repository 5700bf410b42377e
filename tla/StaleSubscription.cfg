SPECIFICATION BridgeSpec
CONSTANTS
  g1 = g1  a1 = a1  h1 = h1  r1 = r1
  Cleaner = Cleaner  Nobody = Nobody  NoJob = NoJob
  Caller = Caller  RxPump = RxPump  StatsPump = StatsPump
  MACs <- OneMac
  Addrs <- mcAddrs
  Handlers <- OneHandler
  Arrivals <- PullOnly
  Downlinks <- OneMac
  SkipCRC = FALSE
  Expiry = 0
  Period = 0
  Faults = {}
  MayClose = FALSE
  Reconnectors <- mcReconnectors
  Depth = 1
  InboundBound = 1
  MayLose = FALSE
INVARIANTS
  OnlyConnectedSubscribed
