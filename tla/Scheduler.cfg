\* The run loop with two timers.
CONSTANTS
  Timers <- TwoTimers
  Requests = {3, 7}
  Costs = {1, 4}
  Delays = {1, 3}
  MaxSlice = 4
  MaxTime = 9
SPECIFICATION Spec
CHECK_DEADLOCK FALSE
INVARIANTS ClockIsHonest OnTime
PROPERTIES FiresInOrder Returns
