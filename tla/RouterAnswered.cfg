CONSTANTS
  Cid = {c1}
  Worker = {t1, t2}
  Task = {t1, t2}
  BrokerOrderId = {c1}
  FillId = {1}
  Quantity = {1}
  NULL = NULL
  Ops = {"submit", "cancel", "amend", "engage", "disengage", "trip"}
  SimAdapter = {}
  NativeAmend = {}
  OrderQty = 1
  FillPlans = {}
  AmendQty = {NULL}
  Faults = {"lock_ttl", "redis"}
  MaxCrashes = 1
SPECIFICATION FairSpec
INVARIANTS AtMostOncePlace
 
CHECK_DEADLOCK FALSE
