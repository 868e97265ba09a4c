SPECIFICATION ServicesSpec
CONSTANTS
  t = t
  l = l
  k1 = k1
  k2 = k2
  c3 = c3
  ask = ask
  ask2 = ask2
  ask3 = ask3
  pick = pick
  pick2 = pick2
  Conv = {c1, c2}
  User = {t, l}
  Tenant <- MCTenant
  Landlord <- MCLandlord
  Relay = {k1}
  RelayOf <- MCRelayOf
  SentTo <- MCSentTo
  Pick <- MCPick
  Text <- MCText
  Slot = {s1, s2}
  Writer = {}
  Reachable = {}
  Inbound = {ask, pick}
  Contents = {"clean"}
  Lookback = 2
  MaxMessages = 4
  MaxRestrictions = 0
  Reports = {}
  Faults = FALSE
  Caller = {r1, r2}
  Worker = {w1, w2}
  Payer = {t1}
  Kind = {"gig", "hqs", "screening", "application"}
  Cost = 2
  InitialBudget = 3
  TopUpBudget = 2
  MaxOrders = 3
  MaxMonth = 3
INVARIANTS
  ServedMonthsPaid
PROPERTIES
  ChosenTextIsStored
  PaidOrderIsApplied
  PaymentIsRecorded
CHECK_DEADLOCK FALSE
