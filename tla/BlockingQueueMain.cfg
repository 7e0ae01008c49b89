SPECIFICATION FairSpec
CONSTANTS
  Producers = {p1, p2}
  Consumers = {c1, c2}
  TASK_COUNT = 2
  NoThread = NoThread
  NoTask = NoTask
INVARIANTS
  ExactlyOnce
  DemandMatchesSupply
  NothingLeftAtReturn
PROPERTIES
  ImplementsHandoff
  Termination
