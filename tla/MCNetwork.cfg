SPECIFICATION NetworkSpec
CONSTANTS
  Clients = {c1, c2}
  Messages = {1, 2, 3}
  Connections = {1, 2, 3}
  Chunks = 2
  NoClient = NoClient
  MaxDuplicates = 1
  MaxPushes = 3
INVARIANTS
  NothingIsUsedAfterItsEnd
  EofMeansWholeMessage
  PushesAreRead
PROPERTIES
  ImplementsService
  NobodyWaitsInVain
