SPECIFICATION FairSpec
CONSTANTS
  Peer = {p1}
  ListenAddr = {l1}
  SourceAddr = {}
  BootAddr = {l1}
  Conn = {c1, c2}
  MaxInFlight = 2
  MaxConnections = 1
  MaxAttempts = 1
  None = None
PROPERTY ReplacedWriterEnds
PROPERTY AttemptIsDecided
