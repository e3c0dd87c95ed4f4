SPECIFICATION NodeSpec
CONSTANTS
  a = a
  b = b
  c = c
  d = d
  End = {a, b}
  MaxDials = 2
  MaxInFlight = 1
  Caller = {k1, k2}
  NoCaller = NoCaller
  MaxOut = 1
  Size = {300, 65535, 65536, 65600, 70000}
  MaxFrames = 3
  Sender = {a, b}
  Path <- Paths
  Fresh = 3
  MaxCircuits = 3
  MaxCells = 1
  NoLeg = NoLeg
  Token = {t1}
  Addr = {a, b, c}
  NoAddr = NoAddr
  Side = {a, b}
  ProbeCount = 2
  Servers = 3
  Answer <- StunAnswers
  Node = {a, b}
  Listener = a
  Window = 2
  MaxTime = 5
  Member = {a, b, c, d}
  Foreign = {a}
  Linked <- Links
  Url <- Urls
  FetchTtl = 3
  MaxFetches = 1
  MaxStored = 1
  Name = {n1, n2}
  NodeId = {a, b}
  NameClient = {k1, k2}
  NoRecord = NoRecord
  IdKey = {k1, k2}
  PeerAddr = {a, b, c}
  ApiAddr = {c}
  MaxPeers = 2
  None = None
  Runner = {a, b}
  Preferred <- ApiPorts
  NoPort = NoPort
  Tries = 4
  Default = 80
  Scanned <- ScannedPorts
  MaxStarts = 3
  Recorder = {k1, k2}
  Candidate = {a}
  Target = {b}
  Agnostic = Agnostic
  Reward = {0, 2}
  MaxCount = 1
  Point = {0, 1, 2}
  Horizon = 3
  MaxContacts = 2
  Deadline = 2
  Pusher = {t1, t2}
  Viewer = {v1}
  Chat = {x1, x2}
  NoChat = NoChat
  Letter = {m1}
  NoLetter = NoLetter
  InboxCap = 2
  PageLimit = 1
  EventCap = 2
  MaxNumber = 2
  MaxEvents = 2
INVARIANTS
  NodeTypeOK
  ExitDelivers
  Bridged
  OneSidedExplained
  AnswerAttributed
  NamesSurvive
  FilesKept
  NotSilenced
  FetchExplained
  KeysExplained
  CutEarned
  ManualEntryOwned
  ReceivedIsPrefix
  OracleBetween
  StoreCaughtUp
  FindsApi
  ViewExplained
PROPERTIES
  RefusedWithoutLeg
  SilentPeerCut
CHECK_DEADLOCK FALSE
