SPECIFICATION Spec
CONSTANTS
  Receivers = {r1}
  Commands = {c1, c2}
  MaxKeys = 1
  Happens = {"resave"}
INVARIANTS
  KeysAreListed
SYMMETRY AnySymmetry
