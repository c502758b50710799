SPECIFICATION Spec
CONSTANTS
  e1 = e1
  e2 = e2
  u1 = u1
  u2 = u2
  w1 = w1
  w2 = w2
  None = None
  Events = {e1, e2}
  Users = {u1, u2}
  Workers = {w1, w2}
  Kind <- MessageAndChat
  Audience <- BothUsers
  MaxAttempts = 2
  BatchSize = 2
  MaxCrashes = 1
INVARIANTS
  TypeOK
  ProcessedReachedAll
  RowLocks
  GivenUpOnlyAfterMaxAttempts
  CopiesAccountedFor
PROPERTIES
  EventuallySettled
  DeliverySafety
