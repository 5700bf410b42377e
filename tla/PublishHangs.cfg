SPECIFICATION FairMqttSpec
CONSTANTS
  g1 = g1  g2 = g2  r1 = r1  r2 = r2  rx = rx
  Caller = Caller
  MACs <- mcMACs
  Reconnectors <- mcReconnectors
  Pumps <- mcPumps
  Depth = 1
  InboundBound = 2
  MayLose = TRUE
PROPERTIES
  PublishReturns
