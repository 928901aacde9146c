\* Runs of one and of two processes over one or two accounts, with failing calls, midnight and the end.
SPECIFICATION FairSpec
CONSTANTS
  x = x
  g = g
  ra = ra
  rb = rb
  server = server
  tool = tool
  week = week
  fortnight = fortnight
  Accounts = {x, g}
  Global = {g}
  Runners = {ra, rb}
  Processes = {server, tool}
  NoRunner = NoRunner
  ReportCount = 2
  Enough = 2
  Tiers = {week, fortnight}
  TierDays <- MCTierDays
  TierChances <- MCTierChances
  Threshold = 2
  MaxDay = 3
  Worlds <- MCWorlds
INVARIANTS
  EveryAccountHasItsTurn
PROPERTIES
  OneRedemptionADay
  EveryRunEnds
CHECK_DEADLOCK FALSE
