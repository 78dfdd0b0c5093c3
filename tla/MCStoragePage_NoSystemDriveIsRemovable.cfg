CONSTANTS
  Drives <- MCDrives
  Devices <- MCDevices
  DriveOf <- MCDriveOf
  DriveID <- MCDriveID
  Rank <- MCRank
  MayHold <- MCMayHold
  MaxChanges = 2
SPECIFICATION Spec
INVARIANT NoSystemDriveIsRemovable
CHECK_DEADLOCK FALSE
