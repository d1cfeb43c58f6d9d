CONSTANTS
  Cid = {c1}
  BrokerOrderId = {c1}
  NULL = NULL
  OrderQty = 2
  Resolver = FALSE
  Faults = {"lost_request", "cancel", "crash", "day", "gone", "closes"}
  MaxOutages = 0
  Alike = {}
  Worker <- Coroutines
  FillId <- FillIds
  Quantity <- Quantities
SPECIFICATION FairSpec
INVARIANTS NoFalseEnd 
PROPERTIES AckSettles FillSettles
CHECK_DEADLOCK FALSE
