CONSTANTS
  Conns = {c1, c2}
  Scope = home
  Elsewhere = away
  Everywhere = all
  None = none
  Origins = {home, away}
  MaxReplay = 2
  MaxStreams = 1
  MaxQueue = 1
  MaxPublish = 3
  MaxRejected = 1
  MaxEpochs = 2
  MaxReconnectAttempts = 1
  MaxStarts = 2
  MaxStops = 1
SPECIFICATION Spec
SYMMETRY Symmetry
VIEW View
INVARIANTS StreamsBounded NoSilentGap NeverStranded
CHECK_DEADLOCK FALSE
