CONSTANTS
  o1 = o1
  o2 = o2
  s1 = s1
  s2 = s2
  st = st
  NULL = NULL
  Cid = {o1, o2}
  Sub = {s2}
  Strategy = {st}
  StrategyOf <- Owner
  WantStrategy <- ByStrategy
  WantCid <- AnyCid
  RingSize = 2
  QueueSize = 6
  StrategyMapCap = 2
  Faults = {"disconnect", "restart"}
  MaxSeq = 5
  MaxConnects = 3
  a1 = a1
  a2 = a2
  Account = {a1, a2}
  Price = {0, 1000, 1005}
  Qty = {1, 2}
  MaxOrderQty = 2
  AccountMaxQty <- Caps
  MaxOrderValue = 1500
  AccountMaxNotional <- Values
  MaxPct = 10
  FillPrice = 500
  MarketPrice = {1000, 2000}
  OrderInput <- Inputs
  OrderNode <- Nodes
  PlainOrder <- Plain
  Caller = {1, 2, 3, 4, 5}
  Rate = 2
  K = 4
  MaxIdle = 4
  MaxLate = 1
  Cadence = 2
  Deadline = 9
  MinPolls = 3
  MaxStart = 10
  MaxRead = 2
  i1 = i1
  i2 = i2
  Symbol = {i1, i2}
  Volume = {0, 1, 2}
  Money = {0, 5}
  OrderNo = {1, 2}
  VenueFaults = {}
  BreakerBroker = {"liberator", "streaming_pro"}
  Threshold = 2
  MaxProbes = 5
  ProbeFaults = {}
  HistoryCid = {1, 2}
  HistoryLimit = 1
  MaxClock = 2
  MaxFills = 2
  MonthLength <- Months
  Fee = {1, 2}
  Stamp = {0, 736, 737}
  Effective = {0, 30, 31}
  MaxAge = 10
  MaxEntries = 3
  MaxObserved = 1
SPECIFICATION ServicesSpec
INVARIANTS
   FilterIsDurable
  PlacedAsOrdered RealOrderIsAuthorized 
  NeverBursts RecoveryBudget  OpenIffFailing WalkIsComplete
  MonthsAgree
PROPERTIES PastBasisStands
CHECK_DEADLOCK FALSE
