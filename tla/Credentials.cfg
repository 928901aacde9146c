\* Refreshes, reloads, logins and restarts of one account.
SPECIFICATION FairSpec
CONSTANTS
  ua = ua
  ub = ub
  Users = {ua, ub}
  Life = 3
  MaxExpiry = 12
  Word <- MCWord
  OddExpiries <- MCOddExpiries
  Skew = 2
  MaxNow = 4
  MaxTokens = 3
  MaxObjects = 7
  Worlds <- MCWorlds
INVARIANTS
  ExpiryHonest
  RealmFollowsDomain
PROPERTIES
  PoolFollowsDirectory
CHECK_DEADLOCK FALSE
