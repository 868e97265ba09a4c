SPECIFICATION Spec
CONSTANTS
  t = t
  l = l
  p1 = p1
  p2 = p2
  Conv = {c1}
  User = {t, l}
  Tenant <- MCTenant
  Landlord <- MCLandlord
  Text <- MCText
  Slot = {s1, s2}
  Writer = {t}
  Reachable = {t, l}
  Inbound = {p1, p2}
  Contents = {"clean"}
  Lookback = 2
  MaxMessages = 3
  MaxRestrictions = 1
  Reports = {"sent", "failed"}
  Faults = TRUE
SYMMETRY MCSlotSymmetry
INVARIANTS
  TypeOK
  GateHolds
  OneRowPerText
  ActiveNeedsReply
  QuietReplyActivates
  NoTextStranded
PROPERTIES
  BlockedStaysBlocked
CHECK_DEADLOCK FALSE
