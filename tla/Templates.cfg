SPECIFICATION TemplatesSpec
CONSTANTS
  WordSize = 7
  TypeSize = 5
  KeySize = 3
  ValueSize = 3
  MaxKey = 6
  MaxValue = 2
  Deltas = {1, 2}
  MaxGap = 2
  MaxBlock = 8
  MaxTestKey = 9
  KeyMaxGap = 2
  MaxPushes = 9
CHECK_DEADLOCK FALSE
INVARIANTS
  IndexesAgree
  EnumeratesOnce
  ReadsAgree
  OneCheckpointPerBlock
  LookupsAsExpected
  LatestAsExpected
PROPERTIES
  ImplementsSet
  ImplementsFunction
  ImplementsBlockHistory
