CONSTANTS
  Cid = {c1, c2}
  BrokerOrderId = {c1, c2}
  NULL = NULL
  OrderQty = 2
  Markets <- OneOrTwo
  Faults = {"rejects", "lost_request", "cancel", "crash", "gone", "closes"}
  MaxOutages = 1
  Alike <- Twins
  Second = c2
  Worker <- Coroutines
  FillId <- FillIds
  Quantity <- Quantities
SPECIFICATION FairSpec
INVARIANTS NumbersAreOwn NoFalseEnd FillsAreMatched
PROPERTIES AckSettles
CONSTRAINT Scope
CHECK_DEADLOCK FALSE
