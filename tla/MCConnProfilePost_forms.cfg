CONSTANTS
  r1 = r1
  r2 = r2
  p1 = p1
  p2 = p2
  OldPw = OldPw
  Keep = Keep
  Requests <- TwoRequests
  Passwords <- TwoPasswords
  Forms <- AllForms
SPECIFICATION FairSpec
CHECK_DEADLOCK FALSE
INVARIANTS TypeOK AssembledOrOwed OnAirNeedsAssembly
PROPERTY EventuallyAssembled
