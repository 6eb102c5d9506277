SPECIFICATION Spec
CONSTANTS
  Inputs = {i1, i2}
  Sinks = {k1, k2}
  Captures = {mic1}
  Sessions = {s1}
  Clients = {c1}
  Configs <- BothConfigs
  MaxEpochs = 1
  Happens = {"streams", "userMoves", "userDefault", "raise", "commandFails"}
INVARIANTS
  TypeOK
  StreamsRestored
  DefaultRestored
  LoopbackNeedsMix
SYMMETRY RouteSymmetry
CHECK_DEADLOCK FALSE
