SPECIFICATION Spec
CONSTANTS
  alice = alice
  phone = phone
  laptop = laptop
  Users = {alice}
  Devices = {phone, laptop}
  Owner <- AllAlices
  Requests = {r1, r2}
  MaxRequests = 4
  MaxFailures = 1
INVARIANTS
  UncontendedTokenUsedOnce
  AuditMatches
PROPERTIES
  RevocationIsFinal
  LockedOutOpensNothing
  RotationAtomic
SYMMETRY Symmetry
