\* Interrupts at every boundary of eight programs, for every string instruction.
CONSTANTS
  Elements = 3
  Programs <- SomePrograms
  MaxDepth = 3
SPECIFICATION Spec
INVARIANTS NothingSplit OverrideKept
PROPERTIES SearchIsRight CopyIsRight WakesUp
