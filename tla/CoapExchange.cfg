SPECIFICATION ExchangeSpec
CONSTANTS
  Mux <- mcMux
  Headers <- mcHeaders
  Pool <- mcPool
  MaxOptions = 3
  Requests <- mcRequests
  Noise <- mcNoise
  Capacity = 2
INVARIANTS
  CoapTypeOK
  RoundTrip
  Relayable
  RouteIsUnique
  AnswersMatch
