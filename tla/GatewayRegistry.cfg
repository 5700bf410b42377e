SPECIFICATION Spec
CONSTANTS
  g1 = g1  g2 = g2  a1 = a1  a2 = a2  h1 = h1  h2 = h2
  Cleaner = Cleaner  Nobody = Nobody  NoJob = NoJob
  MACs <- mcMACs
  Addrs <- mcAddrs
  Handlers <- mcHandlers
  Arrivals <- Pulls
  Downlinks = {g1}
  SkipCRC = FALSE
  Expiry = 1
  Period = 1
  Faults = {"onNew", "onDelete", "write"}
  MayClose = FALSE
SYMMETRY HandlerSymmetry
INVARIANTS
  TypeOK
  LockMatchesSections
  NewGatewayStaysNew
  WrittenIsJustified
PROPERTIES
  EvictsOnlyExpired
  KeepsDirectory
