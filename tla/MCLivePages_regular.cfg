CONSTANTS
  v1 = v1
  v2 = v2
  Viewers = {v1, v2}
  Wishes <- SomePages
  MaxChanges = 1
SPECIFICATION Spec
INVARIANTS TypeOK BusesLastWhileServing ModeIsKept
PROPERTIES ViewersCatchUp ShutdownCompletes
CHECK_DEADLOCK FALSE
