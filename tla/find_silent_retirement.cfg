SPECIFICATION Spec
CONSTANTS
  Apps = {a1}
  Mics = {m1}
  Monitors = {o1}
  Slots = {n1}
  NoSource = NoSource
  Commands = {c1}
  MaxCommands = 1
  MaxRecent = 1
  Wants <- FewWants
  LegacyIds = {n1}
  Happens = {"unguarded"}
INVARIANTS
  LegacyRecoverable
CHECK_DEADLOCK FALSE
