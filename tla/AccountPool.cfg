\* Outcomes, cooldowns, disables and balances of an account.
SPECIFICATION Spec
CONSTANTS
  UIDs = {u1}
  u1 = u1
  Models = {m1, m2}
  m1 = m1
  m2 = m2
  BreakerThreshold = 3
  MaxRetry = 3
  BreakerDur <- MCBreakerDur
  DegradeThreshold = 3
  DegradeDur = 3
  SessionDeadThreshold = 3
  MaxStreak = 2
  Shl <- MCShl
  SoftRateMax = 2
  MaxHits = 2
  BlockDur <- MCBlockDur
  HardMax = 3
  MaxCredits = 5
  SoftBases = {1, 3}
  ResetAts = {0, 3}
  Debits = {0, 1, 3}
  CallSets <- MCCallSets
PROPERTIES
  FailureNeverShortensBreaker
  DisabledUntilRevived
  LongTermSpentLast
