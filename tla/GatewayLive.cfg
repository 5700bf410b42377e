SPECIFICATION StalledConsumersSpec
CONSTANTS
  g1 = g1  g2 = g2  a1 = a1  a2 = a2  h1 = h1  h2 = h2
  Cleaner = Cleaner  Nobody = Nobody  NoJob = NoJob
  MACs <- mcMACs
  Addrs <- mcAddrs
  Handlers <- mcHandlers
  Arrivals <- LiveArrivals
  Downlinks <- NoDownlinks
  SkipCRC = TRUE
  Expiry = 1
  Period = 1
  Faults = {}
  MayClose = FALSE
PROPERTIES
  PullAnswered
  PushAcknowledged
  FramesForwarded
  SilentForgotten
