SPECIFICATION ContentSpec
CONSTANTS
  a = a
  b = b
  c = c
  d = d
  Member = {a, b, c, d}
  Foreign = {a}
  Linked <- Links
  Url <- Urls
  FetchTtl = 3
  MaxFetches = 1
  MaxStored = 1
INVARIANT FetchFindsContent
CHECK_DEADLOCK FALSE
