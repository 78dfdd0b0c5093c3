CONSTANTS
  c1 = c1
  c2 = c2
  c3 = c3
  p1 = p1
  p2 = p2
  header = header
  Calls <- Calls3
  Passwords <- Passwords2
  OtherLines <- Header
  Leftover = Leftover
  Orig = Orig
  NoFile = NoFile
  NoDir = NoDir
  Serialized = TRUE
SPECIFICATION Spec
CHECK_DEADLOCK FALSE
INVARIANTS TypeOK DropInIntact
PROPERTY StoreSpec
