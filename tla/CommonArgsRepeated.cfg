SPECIFICATION Spec
CONSTANTS
  N = 2
  A = 2
  Nested = TRUE
INVARIANT
  SumKept
