\* A ring of four slots that fills and wraps, a client reading from it and
\* four CalcStats calls.
CONSTANTS
  RingSlots = 4
  MaxWrites = 6
  MaxPackets = 4
  MaxCalls = 4
SPECIFICATION Spec
INVARIANTS TypeOK LagMatchesReference RateZeroWhenIdle

\* Every counter is bounded, so every behaviour ends in a state where
\* nothing more is allowed.
CHECK_DEADLOCK FALSE
