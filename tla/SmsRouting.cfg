SPECIFICATION RoutingSpec
CONSTANTS
  t = t
  l = l
  k1 = k1
  k2 = k2
  c3 = c3
  ask = ask
  ask2 = ask2
  ask3 = ask3
  pick = pick
  pick2 = pick2
  Conv = {c1, c2, c3}
  User = {t, l}
  Tenant <- MCTenant
  Landlord <- MCLandlord
  Relay = {k1, k2}
  RelayOf <- MCRelayOf
  SentTo <- MCSentTo
  Pick <- MCPick
  Text <- MCText
  Slot = {s1}
  Writer = {l}
  Reachable = {}
  Inbound = {ask, ask2, ask3, pick2}
  Contents = {"clean"}
  Lookback = 2
  MaxMessages = 2
  MaxRestrictions = 0
  Reports = {}
  Faults = TRUE
INVARIANTS
  NeverGuesses
CHECK_DEADLOCK FALSE
