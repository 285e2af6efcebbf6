\* autorecovery = 1, and a server that dies twice leaving a corrupt ring.
CONSTANTS
  Versions <- MCVersions
  Modes <- MCMoveOnly
  MaxStarts = 4
  MaxDamage = 2
SPECIFICATION Spec
PROPERTY CorruptBackupKept
CHECK_DEADLOCK FALSE
