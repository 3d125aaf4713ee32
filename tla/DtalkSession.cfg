\* Every sequence of calls, no reset after the boot limit.
CONSTANTS
  Hz = 2
  Rate = 1
  Chunk = 5
  FeedGap = 1
  Settle = 10
  Margin = 3
  BootStep = 1
  BootLimit = 1000
  Swallow = 4
  Overshoots = {0}
  BootTime = 2
  Gap = 9
  Requests = {1, 8}
  MaxQueue = 1
  MaxMarks = 2
  MaxTime = 22
SPECIFICATION Spec
CHECK_DEADLOCK FALSE
INVARIANTS MarksArePlaced MarksAreCurrent
PROPERTY ShortMeansDone
