SPECIFICATION Spec
CONSTANTS
  Desktops = {d1, d2}
  MaxVersion = 2
  NoOne = NoOne
  Happens = {"crash", "remoteFails", "scriptFails", "goesOn", "localFails"}
INVARIANTS
  TypeOK
  Recoverable
  NothingLeft
PROPERTIES
  OneTransaction
