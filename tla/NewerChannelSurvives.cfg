SPECIFICATION Spec
CONSTANTS
  Peer = {p1}
  ListenAddr = {l1}
  SourceAddr = {s1}
  BootAddr = {l1}
  Conn = {c1, c2}
  MaxInFlight = 1
  MaxConnections = 1
  MaxAttempts = 1
  None = None
SYMMETRY ConnSymmetry
PROPERTY NewerChannelSurvives
