SPECIFICATION Spec
CONSTANTS
  Slot = {r1, r2}
  Worker = {w1, w2}
  Tenant = {t1}
  Cost = 2
  InitialBudget = 3
  TopUpBudget = 2
  MaxOrders = 3
  MaxDay = 2
  MaxMonth = 2
  Faults = TRUE
SYMMETRY MCSymmetry
INVARIANTS
  TypeOK
  BudgetLedger
  CreditedOnce
  OneBillPerTenantDay
  OneOrderAwaiting
PROPERTIES
  ImplementsLedger
CHECK_DEADLOCK FALSE
