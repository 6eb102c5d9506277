SPECIFICATION Spec
CONSTANTS
  Apps = {a1, a2}
  Mics = {m1}
  Monitors = {o1}
  Slots = {n1}
  NoSource = NoSource
  Commands = {c1, c2}
  MaxCommands = 3
  MaxRecent = 1
  Wants <- FewWants
  LegacyIds = {n1}
  Happens = {"crash", "saveFails", "setupFails"}
INVARIANTS
  TypeOK
  LegacyRecoverable
  OnlyChosen
  CaptureExplicit
  ClearedStays
PROPERTIES
  RolledBack
SYMMETRY AnySymmetry
CHECK_DEADLOCK FALSE
