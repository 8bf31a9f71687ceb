SPECIFICATION MCSpec
CONSTANTS
 Symbols <- MCSymbols
 Statements <- MCStatements
 Values <- MCValues
 MaxGiven = 2
 Exprs <- MCExprs
 Width = 12
 Depth = 3
 Stack = 16
 Highest = 2
 Length = 3
INVARIANTS FactsSound AnswersSound KindsSound PolynomialExact
 AlgebraExact AnswersUnlessCircular LogicExact
CHECK_DEADLOCK FALSE
