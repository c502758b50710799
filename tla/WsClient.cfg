SPECIFICATION Spec
CONSTANTS
  s1 = s1
  s2 = s2
  s3 = s3
  None = None
  Platforms = {"web", "mobile"}
  Sockets = {s1, s2, s3}
  MaxLogins = 2
  MaxAwaiting = 2
  MaxExpiries = 1
INVARIANTS
  TimerWanted
  TokensMatchUser
  UncontendedOneSocket
PROPERTIES
  FreshHandshakes
  StaysConnected
CHECK_DEADLOCK FALSE
