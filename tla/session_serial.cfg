SPECIFICATION Spec
CONSTANTS
  Inputs = {}
  Sinks = {k1}
  Captures = {}
  Sessions = {s1, s2}
  Clients = {c1, c2}
  Configs <- CaptureConfigs
  MaxEpochs = 1
  Happens = {"workerKill", "clientKill"}
INVARIANTS
  OneWorker
  RunningIsActive
  Serialized
PROPERTIES
  OnlyOwnerUnloads
SYMMETRY SmallSymmetry
CHECK_DEADLOCK FALSE
