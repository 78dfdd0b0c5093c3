CONSTANTS
  r1 = r1
  r2 = r2
  Requests = {r1, r2}
  Wishes <- SomeWishes
  MaxStarts = 1
SPECIFICATION Spec
INVARIANT SystemdIsOptional
CHECK_DEADLOCK FALSE
