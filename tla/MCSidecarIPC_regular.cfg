CONSTANTS
  r1 = r1
  r2 = r2
  Requests = {r1, r2}
  Wishes <- SomeWishes
  MaxStarts = 3
SPECIFICATION Spec
INVARIANTS TypeOK AskedOnce
PROPERTIES AtMostOnceSpec EveryRequestEnds
CHECK_DEADLOCK FALSE
