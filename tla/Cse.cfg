SPECIFICATION CseSpec
CONSTANTS
  N = 4
  A = 5
  Nested = FALSE
  Symbols = {0, 1}
  Name = "f"
  MaxExprs = 3
  Visitors = {1, 2}
  Vectors = {0, 1}
  Requests <- Requested
INVARIANTS
  IndexesAgree
  SumKept
  Acyclic
  NothingLeft
  Sound
  NothingTwice
  PointersStayGood
  CallEvaluates
PROPERTIES
  EachStepSaves
