SPECIFICATION FairSpec
CONSTANTS
  a = a
  b = b
  c = c
  d = d
  Node = {a, b, c, d}
  Link <- Paw
  Msg = {m1}
  DefaultTtl = 3
  Fanout = 2
  MaxLate = 0
  MaxBreaks = 1
  Broadcast = Broadcast
  None = None
INVARIANT NobodyMissed
PROPERTY FloodEnds
CHECK_DEADLOCK FALSE
