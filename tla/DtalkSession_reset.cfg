\* A reset after the boot limit.
CONSTANTS
  Hz = 2
  Rate = 1
  Chunk = 5
  FeedGap = 1
  Settle = 10
  Margin = 3
  BootStep = 1
  BootLimit = 20
  Swallow = 4
  Overshoots = {0}
  BootTime = 2
  Gap = 9
  Requests = {1, 8}
  MaxQueue = 1
  MaxMarks = 2
  MaxTime = 40
SPECIFICATION Spec
CHECK_DEADLOCK FALSE
INVARIANT MarksArePlaced
