SPECIFICATION Spec
CONSTANTS
  Inputs = {i1}
  Sinks = {k1}
  Captures = {mic1}
  Sessions = {s1, s2}
  Clients = {c1}
  Configs <- RemoteConfigs
  MaxEpochs = 2
  Happens = {"toolExit", "workerKill", "lostCall", "stopDeadline", "cleanupFails"}
INVARIANTS
  StopCleansAfterCrash
  CaptureIsReported
  CrashWindow
CHECK_DEADLOCK FALSE
SYMMETRY SmallSymmetry
