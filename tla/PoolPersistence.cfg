\* Saves, mirrors, crashes, exits and restarts under six sets of faults.
SPECIFICATION FairSpec
CONSTANTS
  MaxVersion = 4
  MaxRestarts = 2
  FaultSets <- MCFaultSets
INVARIANTS
  UnsavedIsDirty
  NothingSavedIsLost
PROPERTIES
  EverySaved
CHECK_DEADLOCK FALSE
