SPECIFICATION Spec
CONSTANTS
  Receivers = {r1, r2}
  Commands = {c1, c2}
  MaxKeys = 2
  Happens = {"crash", "offline", "localFails", "setupFails", "resave", "staleProfile"}
INVARIANTS
  TypeOK
  VerifiedMeansRevoked
  CredentialsKept
  NothingHalfRemoved
  BlockedWhilePending
  PendingIsReadable
PROPERTIES
  RetryKeyKept
SYMMETRY AnySymmetry
