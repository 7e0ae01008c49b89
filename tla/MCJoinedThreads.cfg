SPECIFICATION MCSpec
CONSTANTS
  MAX_SIZE = 10
  CHUNK = 2
  THREAD_COUNT = 3
  count = 4
INVARIANTS
  StopIsPrompt
  NoRace
  ExceptionsAccounted
PROPERTIES
  ImplementsFill
  AllReturn
