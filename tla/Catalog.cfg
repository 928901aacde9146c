\* Listings, probes, the document, and restarts.
SPECIFICATION Spec
CONSTANTS
  mp = mp
  mq = mq
  ms = ms
  me = me
  Listers = {l1, l2}
  Models = {mp, mq, ms, me}
  NonChat = {ms}
  SoftCap = 1
  Table <- MCTable
  Seed <- MCSeed
  Doc <- MCDoc
  Worlds <- MCWorlds
INVARIANTS
  KnownIsServed
  ListedStaysKnown
PROPERTIES
  FailureTakesNothingAway
CHECK_DEADLOCK FALSE
