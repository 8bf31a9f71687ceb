SPECIFICATION TestSpec
CONSTANTS
 Symbols <- MCSymbols
 Statements <- MCStatements
 Values <- MCValues
 MaxGiven = 2
 Exprs <- MCExprs
INVARIANTS
 PositiveSound
CHECK_DEADLOCK FALSE
