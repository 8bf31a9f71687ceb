SPECIFICATION MCSpec
CONSTANTS Starts <- MCMixed
 Operands <- MCOperands
 Exponents <- MCExponents
 Valuations <- MCValuations
 Depth = 2
INVARIANT ExpandForm
\* A computation is over after Depth operations.
CHECK_DEADLOCK FALSE
