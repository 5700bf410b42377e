SPECIFICATION ClosingSpec
CONSTANTS
  g1 = g1  g2 = g2  a1 = a1  a2 = a2  h1 = h1  h2 = h2
  Cleaner = Cleaner  Nobody = Nobody  NoJob = NoJob
  MACs <- mcMACs
  Addrs <- mcAddrs
  Handlers <- OneHandler
  Arrivals <- ShutdownArrivals
  Downlinks <- OneDownlink
  SkipCRC = FALSE
  Expiry = 1
  Period = 1
  Faults = {"read", "close"}
  MayClose = TRUE
CHECK_DEADLOCK FALSE
INVARIANTS
  NothingInFlightAtReturn
PROPERTIES
  CloseReturns
  DownlinkLeavesSend
