CONSTANTS
  o1 = o1
  o2 = o2
  s1 = s1
  s2 = s2
  st = st
  NULL = NULL
  Cid = {o1, o2}
  Sub = {s1}
  Strategy = {st}
  StrategyOf <- Owner
  WantStrategy <- Anyone
  WantCid <- AnyCid
  RingSize = 3
  QueueSize = 6
  StrategyMapCap = 2
  Faults = {"disconnect", "restart"}
  MaxSeq = 4
  MaxConnects = 2
SPECIFICATION Spec
INVARIANT StreamComplete
CHECK_DEADLOCK FALSE
