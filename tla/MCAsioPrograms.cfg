SPECIFICATION MCSpec
CONSTANTS
  Runners = {t1, t2}
  limit = 10
  posts = 5
  Strand = Strand
  NoHandler = NoHandler
INVARIANTS
  NoWriteIsLost
  NoWaitIsCancelled
  EachIsComplete
PROPERTY
  AllReturn
