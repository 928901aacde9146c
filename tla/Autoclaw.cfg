CONSTANTS
  N = 2
  r1 = r1
  r2 = r2
  job = job
  Requests = {r1, r2}
  Job = job
  Threshold = 2
  Worlds <- MCWorlds
  MaxDue = 1
  MaxRestarts = 1
SPECIFICATION FairSpec
INVARIANTS
  NobodyPassedOver
  RefreshTokenKept
PROPERTIES
  EverybodyEnds
\* With every account waiting for a login, requests are refused and nothing happens.
CHECK_DEADLOCK FALSE
