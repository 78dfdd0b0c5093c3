CONSTANTS
  part1 = part1
  part2 = part2
  other = other
  Devices <- AllDevices
  Mounts <- SomeMounts
  DriveDevices <- Partitions
  Nameless <- None
SPECIFICATION FairSpec
CHECK_DEADLOCK FALSE
INVARIANTS TypeOK OnlyKnownMountsRemain FailuresStaySeparate
PROPERTY CallReturns
