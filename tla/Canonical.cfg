SPECIFICATION MCSpec
CONSTANTS
  Value <- Four
  Zero = 0
  add <- Sum
  mul <- Product
  conjugate <- Square
  Shapes <- Two
  Operand = {0, 2}
  MaxCoo = 2
  Undefined = Undefined
  Depth = 2
INVARIANTS
  Canonical ValueKept FormKept OneForm ExpandExact
PROPERTIES
  ImplementsMatrix
  DiagonalFound
\* A computation of expressions is over after Depth operations.
CHECK_DEADLOCK FALSE
