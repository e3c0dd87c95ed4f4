SPECIFICATION TraceSpec
CONSTANTS
  Point = {0, 1, 2}
  Horizon = 3
  MaxContacts = 2
  Deadline = 2
INVARIANT OracleExact
CHECK_DEADLOCK FALSE
