\* Every priority the card could give its two sources.
CONSTANTS
  Sources = {0, 5}
  CtlWords <- CardWords
  PriorityMasks = {7}
  Elapsing = {1}
  Rewrites = FALSE
  MaxWrites = 2
  MaxDepth = 3
SPECIFICATION DoorbellSpec
INVARIANTS NoSpuriousRead EoiMatchesHandler
PROPERTIES ImplementsMailbox EventuallyServed
