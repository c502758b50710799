SPECIFICATION OnboardingSpec
CONSTANTS
  alice = alice
  bob = bob
  f1 = f1
  f2 = f2
  None = None
  Platforms = {"web", "mobile"}
  Users = {alice, bob}
  Keys = {1, 2, 3}
  Attempts = {f1, f2}
INVARIANTS
  KeyMatchesDevice
SYMMETRY Symmetry
