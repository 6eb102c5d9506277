SPECIFICATION FairSpec
CONSTANTS
  Inputs = {i1}
  Sinks = {k1}
  Captures = {mic1}
  Sessions = {s1}
  Clients = {c1}
  Configs <- BothConfigs
  MaxEpochs = 2
  Happens = {"streams", "toolExit", "raise", "lostCall", "cleanupFails"}
INVARIANTS
  StoppedIsSilent
  LeftIsNamed
PROPERTIES
  TrackedUntilDead
  StopEnds
  ToolExitEndsSession
  LockIsReleased
CHECK_DEADLOCK FALSE
