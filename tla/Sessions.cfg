SPECIFICATION Spec
CONSTANTS
  User = {u1}
  Slot = {s1, s2}
  MaxTokens = 3
  MaxLinks = 1
  Faults = TRUE
SYMMETRY MCSymmetry
INVARIANTS
  TypeOK
  RotationIsAChain
  ResetEndsStoredSessions
PROPERTIES
  SupersededLinkIsDead
CHECK_DEADLOCK FALSE
