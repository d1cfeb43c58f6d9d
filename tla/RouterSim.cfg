CONSTANTS
  Cid = {c1}
  Worker = {t1, t2, t3, w1}
  Task = {t1, t2, t3}
  BrokerOrderId = {c1}
  FillId = {1, 2}
  Quantity = {1, 2, 3}
  NULL = NULL
  Ops = {"submit", "cancel", "amend"}
  SimAdapter = {c1}
  NativeAmend = {c1}
  OrderQty = 2
  FillPlans <- Plans
  AmendQty = {1, NULL}
  Faults = {}
  MaxCrashes = 0
SPECIFICATION ScopedSpec
SYMMETRY Symmetry
CONSTRAINT BackgroundScope
INVARIANTS ReplaceIsOwned
CHECK_DEADLOCK FALSE
