CONSTANTS
  Conn = {c1, c2, c3}
  NoCaller = NoCaller
  Caller = {r1, r2, w1, w2}
  Nesting = {r1, w1, w2}
  Request = {r1, r2}
  MaxInner = 2
SPECIFICATION PoolFairSpec
INVARIANTS
  NoneLeaks
  StuckOnlyByNesting
PROPERTIES
  EveryCallReturns
