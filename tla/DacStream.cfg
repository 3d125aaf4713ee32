\* Writes, waits and pulls in every order, with resets.
SPECIFICATION DacSpec
CONSTANTS
  ResampHalf = 2
  Isr = 2
  IsrMax = 4
  CpuHz = 5
  Rate = 2
  Gaps <- MCGaps
  Waits <- MCWaits
  MaxWrites = 6
  MaxTime = 18
INVARIANTS
  TapsAreReal
  HoldsLastLevel
CHECK_DEADLOCK FALSE
