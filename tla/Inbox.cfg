SPECIFICATION HalfSpec
CONSTANTS
  Task = {t1, t2}
  Client = {c1}
  Msg = {m1}
  None = None
  Capacity = 2
  Limit = 1
  MaxSeq = 3
  MaxRestarts = 1
INVARIANTS
  TypeOK
  SeqIdentifies
  MissedExplained
  ShownTwiceExplained
  DeliveredPersisted
PROPERTY EntryIsPassed
