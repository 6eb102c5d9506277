SPECIFICATION Spec
CONSTANTS
  Inputs = {}
  Sinks = {k1}
  Captures = {mic1}
  Sessions = {s1}
  Clients = {c1}
  Configs <- MixedConfigs
  MaxEpochs = 1
  Happens = {"toolExit", "raise", "workerKill", "clientKill", "abandon", "silentStart", "lostCall", "stopDeadline", "foreground", "commandFails"}
INVARIANTS
  EndsClean
CHECK_DEADLOCK FALSE
