SPECIFICATION Spec
CONSTANTS
  Slot = {r1, r2}
  Worker = {w1, w2}
  Kind = {"gig", "hqs", "screening", "application"}
  Tenant = {t1, t2}
  MaxOrders = 3
  Faults = TRUE
SYMMETRY MCSymmetry
INVARIANTS
  TypeOK
  PaidFirst
  OneVoucherPerPayout
  NoForgottenOrder
CHECK_DEADLOCK FALSE
