SPECIFICATION Spec
CONSTANTS
  MaxSessions = 1
  MaxLines = 2
  MaxFaults = 1
  DelayPolls = 3
INVARIANTS SuspendStops
CHECK_DEADLOCK FALSE
