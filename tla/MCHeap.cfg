SPECIFICATION Spec
CONSTANTS
  BUCKET_COUNT = 4
  FrameBytes = 16
  Frames = {1, 2, 3}
  SizeMod = 64
  NULL = NULL
  Wild = Wild
  Values = {x, y}
  InitSize = 2
  AnyIndex = FALSE
  Sizes = {7}
  MaxOthers = 1
  Sent <- SomeSent
  Room <- SomeRoom
INVARIANTS BlocksDisjoint NothingLeaks MessageDelivered CountExact
PROPERTIES RefinesTable
CHECK_DEADLOCK FALSE
