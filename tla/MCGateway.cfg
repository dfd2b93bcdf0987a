CONSTANTS
  i1 = i1
  i2 = i2
  b1 = b1
  b2 = b2
  plain = plain
  other = other
  stream = stream
  Requests = {i1, i2, b1, b2}
  LaneOf <- MCLaneOf
  BodyOf <- MCBodyOf
  Bodies = {plain, other, stream}
  Streaming = {stream}
  Sizes = {1, 2}
  MaxInFlight = 2
  BatchCap = 1
  MaxWaiting = 1
  MaxBytes = 1
SPECIFICATION FairSpec
INVARIANTS
  TypeOK
  Accounted
  ReleaseNeverBlocks
  InteractiveRoom
  CacheHoldsAnswers
PROPERTIES
  ImplementsAdmission
  EveryRequestEnds
