CONSTANTS
  Cid = {c1, c2}
  BrokerOrderId = {c1, c2}
  NULL = NULL
  OrderQty = 1
  Resolver = TRUE
  Faults = {"rejects"}
  MaxOutages = 1
  Alike <- Twins
  Worker <- Coroutines
  FillId <- FillIds
  Quantity <- Quantities
SPECIFICATION Spec
SYMMETRY Symmetry
INVARIANTS HandleIsOwn NoFalseEnd
CHECK_DEADLOCK FALSE
