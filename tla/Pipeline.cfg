SPECIFICATION FairSpec
CONSTANTS
  Calls = {c1, c2}
  QueueMax = 1
  MaxTokens = 2
INVARIANTS
  TypeOK
  CompleteIsOwn
  NothingLostInQueue
  NoTaskLeftBehind
PROPERTIES
  ImplementsStream
  EveryCallEnds
CHECK_DEADLOCK FALSE
