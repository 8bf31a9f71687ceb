SPECIFICATION Spec
CONSTANTS
 BruteForce = 20
 P = 3
 Pending = Pending
 Length = 3
INVARIANTS NumbersExact MatricesExact FactorsExact SymbolicExact FunctionsExact
\* A call is answered once.
CHECK_DEADLOCK FALSE
