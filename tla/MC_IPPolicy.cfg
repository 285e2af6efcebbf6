\* Every list of up to two CIDR entries, against every address.
CONSTANTS
  V4Bits = 3
  ByteBits = 2
  V6Bytes = 2
  MaxEntries = 3
  ConfiguredLists <- MCMatchOnly
SPECIFICATION Spec
INVARIANT MatchAgreesWithCIDR
\* Every behaviour ends when the configuration holds MaxEntries entries.
CHECK_DEADLOCK FALSE
