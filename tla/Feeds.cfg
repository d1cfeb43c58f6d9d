CONSTANTS
  o1 = o1
  o2 = o2
  s1 = s1
  s2 = s2
  st = st
  NULL = NULL
  Cid = {o1, o2}
  Sub = {s1}
  Strategy = {st}
  StrategyOf <- Owner
  WantStrategy <- Anyone
  WantCid <- ByCid
  RingSize = 3
  QueueSize = 2
  StrategyMapCap = 2
  Faults = {}
  MaxSeq = 7
  MaxConnects = 1
  k1 = k1
  k2 = k2
  k3 = k3
  x = x
  y = y
  SET = SET
  Sym = {x, y}
  BookMarket = {SET}
  Conn = {k1, k2, k3}
  Target <- Streams
  Task = {1, 2}
  BookQueueSize = 2
  MaxSymbols = 1
  MaxBooks <- Frames
  MaxOutages = 1
  BookFaults = {}
  Submit = {1, 2, 3}
  Fingerprint <- Fingerprints
  MaxRate = 1
  Window = 2
  MaxTime = 3
  MaxFailures = 1
  RedisFaults = {}
SPECIFICATION FeedsSpec
INVARIANTS
  StreamComplete 
   QueueIsSuffix
  RateHolds BurstHolds
PROPERTIES EventuallyTold StreamIsFed 
CHECK_DEADLOCK FALSE
