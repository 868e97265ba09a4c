SPECIFICATION Spec
CONSTANTS
  User = {u1}
  Slot = {s1, s2}
  MaxTokens = 4
  MaxLinks = 0
  Faults = FALSE
INVARIANTS
  ReuseBurnsFamily
CHECK_DEADLOCK FALSE
