SPECIFICATION Spec
CONSTANTS
  alice = alice
  bob = bob
  a1 = a1
  a2 = a2
  None = None
  Users = {alice, bob}
  Sockets = {a1, a2}
  UserOf <- TwoOfAlice
  MaxEvents = 2
  MaxFailures = 1
INVARIANTS
  LiveSocketsRegistered
  RelayedInOrder
PROPERTIES
  EventsArrive
CHECK_DEADLOCK FALSE
