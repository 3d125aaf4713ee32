\* Two timers and the cascade pair INT0/INT2 behind the bus.
CONSTANTS
  Sources = {0, 4, 6}
  CtlWords <- CascadeWords
  PriorityMasks = {7}
  Elapsing = {0, 1}
  Rewrites = FALSE
  Pages <- SomePages
  Words <- SomeWords
SPECIFICATION BlockSpec
INVARIANTS WinnerAsserted StaleIsWithdrawn MaskAgrees NoAlias
PROPERTIES StrictNesting NothingForgotten
