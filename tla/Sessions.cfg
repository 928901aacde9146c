\* Concurrent resolutions of a session, its mirror in Redis, restarts.
SPECIFICATION SessionsSpec
CONSTANTS
  k1 = k1
  k2 = k2
  u1 = u1
  u2 = u2
  r1 = r1
  r2 = r2
  r3 = r3
  Keys = {k1, k2}
  UIDs = {u1, u2}
  NoUID = NoUID
  Requests = {r1, r2, r3}
  TTL = 2
  MaxNow = 5
  Worlds <- MCWorlds
INVARIANTS
  ResolvesAgree
  MirrorContradictsOnlyRaces
PROPERTIES
  StaleBindingBounded
SYMMETRY Symmetry
