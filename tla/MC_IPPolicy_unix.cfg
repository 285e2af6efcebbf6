\* A UNIX listener with one policy entry in any list.
CONSTANTS
  V4Bits = 3
  ByteBits = 2
  V6Bytes = 2
  MaxEntries = 1
  ConfiguredLists <- MCAllLists
SPECIFICATION Spec
INVARIANT UnixDecisionFixed
CHECK_DEADLOCK FALSE
