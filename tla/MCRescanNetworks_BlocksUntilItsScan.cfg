CONSTANTS
  c1 = c1
  c2 = c2
  Calls <- TwoCalls
  Width = 8
  MaxScan = 2
  MaxIdle = 3
SPECIFICATION Spec
INVARIANT BlocksUntilItsScan
