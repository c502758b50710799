SPECIFICATION Spec
CONSTANTS
  alice = alice
  bob = bob
  a1 = a1
  a2 = a2
  b1 = b1
  None = None
  Users = {alice, bob}
  Devices = {a1, a2, b1}
  Owner <- AliceAndBob
  ClientIds = {c1}
  MsgIds = {m1, m2}
  Requests = {r1, r2}
  MaxReceipts = 0
INVARIANTS
  OneMessagePerKey
  AckedIsStored
PROPERTIES
  SendAddressesWhoStayed
SYMMETRY Symmetry
