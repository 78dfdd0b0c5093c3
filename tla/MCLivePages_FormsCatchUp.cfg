CONSTANTS
  v1 = v1
  v2 = v2
  Viewers = {v1, v2}
  Wishes <- SomePages
  MaxChanges = 1
SPECIFICATION Spec
PROPERTY FormsCatchUp
CHECK_DEADLOCK FALSE
