SPECIFICATION Spec
CONSTANTS
  alice = alice
  bob = bob
  carol = carol
  b1 = b1
  c1 = c1
  None = None
  Users = {alice, bob, carol}
  Devices = {b1, c1}
  Owner <- BobAndCarol
  Requests = {r1, r2}
  MaxRequests = 3
INVARIANTS
  TypeOK
  VersionsInCommitOrder
  OneSecretPerVersion
  AddedWithRotation
PROPERTIES
  FormerMembersStayOut
SYMMETRY Symmetry
