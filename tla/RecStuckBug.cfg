CONSTANTS
  Cid = {c1}
  BrokerOrderId = {c1}
  NULL = NULL
  OrderQty = 1
  Resolver = FALSE
  Faults = {"cancel"}
  MaxOutages = 0
  Alike = {}
  Worker <- Coroutines
  FillId <- FillIds
  Quantity <- Quantities
SPECIFICATION FairSpec
PROPERTY CancelSettles
CHECK_DEADLOCK FALSE
