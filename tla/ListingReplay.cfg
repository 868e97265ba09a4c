SPECIFICATION Spec
CONSTANTS
  Slot = {r1}
  Worker = {w1, w2}
  Tenant = {}
  Cost = 2
  InitialBudget = 3
  TopUpBudget = 2
  MaxOrders = 2
  MaxDay = 1
  MaxMonth = 1
  Faults = FALSE
INVARIANTS
  NoUnpaidBudget
CHECK_DEADLOCK FALSE
