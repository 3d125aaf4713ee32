\* Timer 0 in every mode beside timer 2, with resets.
CONSTANTS
  TimerIds = {0, 2}
  Range = 2
  Prescale = 2
  Words <- ModeWords
  Values = {1}
SPECIFICATION Spec
PROPERTY ImplementsCounter
VIEW Counts
