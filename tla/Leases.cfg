\* Two requests and two accounts, one of them with a limit, that leave and come back.
SPECIFICATION LeasesSpec
CONSTANTS
  Requests = {r1, r2}
  r1 = r1
  r2 = r2
  Accounts = {u1, u2}
  u1 = u1
  u2 = u2
  MaxInFlight <- MixedLimits
  MaxGen = 1
SYMMETRY Symmetry
INVARIANTS
  NoPhantomLease
  HeldUntilReadded
PROPERTIES
  SlotsSpec
