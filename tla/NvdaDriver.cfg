\* Speech, a cancel, a terminate that may not wait, feeds that may raise; marker
\* numbers that roll over, marks that one read does not take.
CONSTANTS
  MaxUtterances = 2
  MaxCancels = 1
  Length = 2
  MarksEach = 4
  MarkNumbers = 5
  MarksPerRead = 2
  Buffer = 2
  FeedFails = TRUE
  Terminates = TRUE
  JoinTimesOut = TRUE
SPECIFICATION Spec
CHECK_DEADLOCK FALSE
INVARIANTS InOrder DoneMeansSpoken SamplesInStep
PROPERTIES OnlyInHandIsHeard SpeechGoesOn
