\* Requests that meet every kind of answer and event, in seven worlds.
SPECIFICATION Spec
CONSTANTS
  Requests = {r1, r2}
  r1 = r1
  r2 = r2
  UIDs = {u1, u2, u3}
  u1 = u1
  u2 = u2
  u3 = u3
  shared = shared
  Keys <- MCKeys
  Models = {m1}
  m1 = m1
  Model <- OneModel
  BreakerThreshold = 2
  MaxRetry = 0
  BreakerDur <- MCBreakerDur
  DegradeThreshold = 2
  DegradeDur = 1
  SessionDeadThreshold = 2
  MaxStreak = 1
  Shl <- MCShl
  SoftRateMax = 1
  MaxHits = 1
  BlockDur <- MCBlockDur
  HardMax = 1
  MaxCredits = 0
  MaxInFlight = 1
  MaxRotate = 3
  Degradable = TRUE
  WafThreshold = 2
  SoftBase = 1
  ResetIn = 1
  Worlds <- MCWorlds
SYMMETRY Symmetry
INVARIANTS
  SlotsConserved
  CallsBounded
  WafAmplification
  AccountsStayHealthy
  SessionFollowsOutcome
PROPERTIES
  EveryStepLeadsOn
