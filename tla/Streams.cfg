\* Up to six frames of two tools' calls, text and noise, in each style; every way to end.
SPECIFICATION StreamSpec
CONSTANTS
  Calls = {1, 2}
  Parts = 2
  Styles = {"index", "id", "first", "whole"}
  IdleTimeout = 1
  MaxFrames = 6
  MaxText = 2
  MaxQuiet = 2
INVARIANTS
  EachCallItsOwn
  NoHalfCalls
  StreamMatchesAnswer
CHECK_DEADLOCK FALSE
