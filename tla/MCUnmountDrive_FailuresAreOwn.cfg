CONSTANTS
  part1 = part1
  part2 = part2
  other = other
  Devices <- AllDevices
  Mounts <- SomeMounts
  DriveDevices <- Partitions
  Nameless <- None
SPECIFICATION Spec
CHECK_DEADLOCK FALSE
INVARIANT FailuresAreOwn
