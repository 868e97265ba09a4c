SPECIFICATION Spec
CONSTANTS
  t = t
  l = l
  p1 = p1
  p2 = p2
  Conv = {c1}
  User = {t, l}
  Tenant <- MCTenant
  Landlord <- MCLandlord
  Text <- MCText
  Slot = {s1, s2}
  Writer = {t}
  Reachable = {}
  Inbound = {}
  Contents = {"half", "contact"}
  Lookback = 1
  MaxMessages = 4
  MaxRestrictions = 0
  Reports = {}
  Faults = TRUE
SYMMETRY MCSlotSymmetry
INVARIANTS
  SanctionsEarned
  SplitNeedsOverlap
CHECK_DEADLOCK FALSE
