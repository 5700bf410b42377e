SPECIFICATION FairSpec
CONSTANTS
  g1 = g1  g2 = g2  a1 = a1  a2 = a2  h1 = h1  h2 = h2
  Cleaner = Cleaner  Nobody = Nobody  NoJob = NoJob
  MACs <- mcMACs
  Addrs <- mcAddrs
  Handlers <- OneHandler
  Arrivals <- OnePull
  Downlinks <- NoDownlinks
  SkipCRC = FALSE
  Expiry = 1
  Period = 1
  Faults = {"write"}
  MayClose = FALSE
PROPERTIES
  PullAnswered
