\* Two days of four hours, late wake-ups, long batches, a check-in by hand and the end.
SPECIFICATION Spec
CONSTANTS
  checkin = checkin
  travel = travel
  activity = activity
  Kinds = {checkin, travel, activity}
  Checkin = checkin
  Day = 4
  MaxNow = 9
  MaxNap = 3
  DefaultHours <- MCDefaultHours
  Configs <- MCConfigs
INVARIANTS
  MissedOnlyWhileAway
PROPERTIES
  ServedOnce
CHECK_DEADLOCK FALSE
