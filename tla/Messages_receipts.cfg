SPECIFICATION Spec
CONSTANTS
  alice = alice
  bob = bob
  a1 = a1
  a2 = a2
  b1 = b1
  None = None
  Users = {alice, bob}
  Devices = {a1, b1}
  Owner <- OnePerUser
  ClientIds = {c1}
  MsgIds = {m1}
  Requests = {r1, r2, r3}
  MaxReceipts = 4
INVARIANTS
  UncontendedReceiptsExact
  ReceiptsNeverLost
SYMMETRY Symmetry
