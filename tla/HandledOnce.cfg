SPECIFICATION Spec
CONSTANTS
  a = a
  b = b
  c = c
  d = d
  Node = {a, b, c}
  Link <- Triangle
  Msg = {m1}
  DefaultTtl = 2
  Fanout = 3
  MaxLate = 0
  MaxBreaks = 0
  Broadcast = Broadcast
  None = None
INVARIANT HandledOnce
CHECK_DEADLOCK FALSE
