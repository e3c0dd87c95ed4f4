SPECIFICATION Spec
CONSTANTS
  a = a
  b = b
  c = c
  d = d
  Node = {a, b, c, d}
  Link <- Kite
  Msg = {m1}
  DefaultTtl = 3
  Fanout = 1
  MaxLate = 1
  MaxBreaks = 0
  Broadcast = Broadcast
  None = None
INVARIANTS
  TypeOK
  NoLoops
  CopiesPerPeer
  DirectedStaysPrivate
PROPERTY DeliversWhatWasSent
CHECK_DEADLOCK FALSE
