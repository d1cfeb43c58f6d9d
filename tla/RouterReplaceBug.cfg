CONSTANTS
  Cid = {c1, c2}
  Worker = {t1, t2, t3}
  Task = {t1, t2, t3}
  BrokerOrderId = {c1, c2}
  FillId = {1}
  Quantity = {1}
  NULL = NULL
  Ops = {"submit", "cancel", "amend"}
  SimAdapter = {}
  NativeAmend = {}
  OrderQty = 1
  FillPlans = {}
  AmendQty = {NULL}
  Faults = {}
  MaxCrashes = 0
SPECIFICATION Spec
SYMMETRY SymmetryBoth
INVARIANT ReplacedIsCancelled
CHECK_DEADLOCK FALSE
