\* Any starting ring, any autorecovery setting at each start, a server that
\* dies twice leaving a corrupt ring, and five starts.
CONSTANTS
  Versions <- MCVersions
  Modes <- MCModes
  MaxStarts = 5
  MaxDamage = 2
SPECIFICATION Spec
INVARIANTS TypeOK OldDataKept ServesCurrentRing
\* Every behaviour ends when the starts are used up.
CHECK_DEADLOCK FALSE
