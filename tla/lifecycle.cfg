SPECIFICATION FairSpec
CONSTANTS
  MaxSessions = 1
  MaxLines = 2
  MaxFaults = 2
  DelayPolls = 1
INVARIANTS
  TypeOK
  Boundary
PROPERTIES
  LockEndsCapture
  BlindEnds
  HiddenEnds
CHECK_DEADLOCK FALSE
