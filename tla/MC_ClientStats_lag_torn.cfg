\* The ring writer wraps between the loads of CalcStats's percent-lag code.
CONSTANTS
  RingSlots = 4
  MaxWrites = 6
  MaxPackets = 4
  MaxCalls = 4
SPECIFICATION Spec
INVARIANT LagInRange

\* Every counter is bounded, so every behaviour ends in a state where
\* nothing more is allowed.
CHECK_DEADLOCK FALSE
