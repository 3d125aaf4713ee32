\* Bytes, two limbs, interrupted anywhere.
SPECIFICATION Spec
CONSTANTS
  Bits = 8
  Limbs = 2
  Binary <- MCBinary
  Packed <- MCPacked
  Digits <- MCDigits
  Counts <- MCCounts
CHECK_DEADLOCK FALSE
INVARIANT ResultsAreExact
