CONSTANTS
  Cid = {c1}
  Worker = {w1, w2}
  BrokerOrderId = {b1}
  FillId = {f1, f2}
  Quantity = {1, 2}
  NULL = NULL
  MaxEvents = 4
SPECIFICATION MCSpec
SYMMETRY Symmetry
INVARIANTS AuditTrail NoFillBeforeAck FillOnce PublishedIsDurable
PROPERTY LifecycleSpec
CHECK_DEADLOCK FALSE
