SPECIFICATION Spec
CONSTANTS
  Slot = {r1, r2}
  Worker = {w1}
  Tenant = {}
  Cost = 2
  InitialBudget = 3
  TopUpBudget = 2
  MaxOrders = 3
  MaxDay = 1
  MaxMonth = 1
  Faults = FALSE
INVARIANTS
  SecondCheckoutRejected
CHECK_DEADLOCK FALSE
