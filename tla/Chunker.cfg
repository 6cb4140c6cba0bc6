SPECIFICATION Spec
CONSTANTS
  Size = 4
  Overlap = 1
  MinTokens = 3
  BatchSize = 2
  Documents <- MCDocuments
INVARIANTS
  TypeOK
  EnoughCovered
  OverlapIsExact
  SomethingKept
  UnderItsHeading
  EveryChunkEmbedded
PROPERTIES
  LoopsAdvance
  Ends
CHECK_DEADLOCK FALSE
