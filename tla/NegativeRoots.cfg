SPECIFICATION Spec
CONSTANTS
 BruteForce = 20
 P = 3
 Pending = Pending
 Length = 3
INVARIANT RootsOfEverySign
\* A call is answered once.
CHECK_DEADLOCK FALSE
