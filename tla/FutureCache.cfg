SPECIFICATION FairSpec
CONSTANTS
  Threads = {t1, t2, t3}
  Keys = {1, 2}
  None = None
INVARIANTS
  OneComputationPerKey
  FuturesAreKept
  RightResult
  CacheCompleteAtReturn
PROPERTIES
  Termination
