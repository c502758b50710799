SPECIFICATION Spec
CONSTANTS
  alice = alice
  bob = bob
  carol = carol
  alicesWeb = alicesWeb
  bobsWeb = bobsWeb
  alicesPhone = alicesPhone
  None = None
  Users = {alice, bob, carol}
  Clients = {alicesWeb, bobsWeb, alicesPhone}
  MobileClients = {alicesPhone}
  Owner <- Logins
  MaxRequests = 2
  MaxNews = 1
  Uses <- Cases
  MaxLeaves = 1
  MaxFails = 1
INVARIANTS
  UncontendedDirectOnce
PROPERTIES
  OpenedIsListed
