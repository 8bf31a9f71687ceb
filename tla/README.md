# A verification project for SymEngine

SymEngine is a computer algebra system in C++. An expression is a tree (really a
graph) of immutable nodes, subclasses of `Basic`, that hold their arguments
through intrusively reference-counted pointers (`RCP`). Everything else builds
such nodes and walks them: constructors that bring sums, products, powers,
functions, sets and conditions into a canonical form; visitors; polynomials,
matrices and number theory; printers, a parser, serialization, a C interface;
and compilers of expressions to numeric functions.

The project has TLA+ modules for the parts of that whose correctness depends on
states and orders rather than on formulas, TLC configurations that check them on
small instances, and proofs for every instance where that matters most.

## Inventory

| part (below `symengine/`) | state it keeps | operations | interacts with | what is hard |
|---|---|---|---|---|
| reference counting, `symengine_rcp.h` | a counter in each object, a pointer in each `RCP` | construct, copy, move, assign, reset, `make_rcp`, `rcp_from_this`, cascading destructors | every other part, all threads | increments and decrements of several threads; `x = x->get_arg()`; each node freed once |
| prime sieve, `prime_sieve.cpp` | one list of primes for the whole process, a segment size, a flag | `generate_primes`, `clear`, `set_clear`, `set_sieve_size`, iterators | factorisation and totients in `ntheory.cpp` | the list is cut under live iterators; seams between segments |
| common subexpressions, `cse.cpp` | numbering of arguments, indexes in both directions, sets that two visitors keep | `cse`, `opt_cse`, `tree_cse`, `match_common_args` | `LambdaDoubleVisitor`, the LLVM visitor | indexes that change while they are being walked; names; order of replacements |
| numeric lambdas, `lambda_double.h` | closures with pointers into a vector of intermediate results | `init`, `call`, moves | `cse` | reuse after success and after an exception |
| sparse matrices, `sparse_matrix.cpp` | three vectors (`p_`, `j_`, `x_`) that must fit each other | `get`, `set`, `from_coo`, `jacobian`, `transpose`, `conjugate`, scaling, binary operations, diagonal | numbers and expressions as entries | binary searches that rely on the form that others leave |
| nodes, `basic*`, `dict*`, `symbol*`, `constants*` | a cached hash; global constants; a counter of dummies | `__eq__`, `compare`, `hash` | all | lazily cached values; start-up order |
| sums, products, powers, `add`, `mul`, `pow`, `expand` | dictionaries from terms to coefficients | `add`, `mul`, `pow`, `from_dict`, `dict_add_term` | numbers | one canonical form, and one value, by every path |
| numbers, `integer` ... `nan` | values | arithmetic across types | GMP, MPFR, MPC | infinities and NaN |
| functions, `functions.cpp` | tables of sines and angles | constructors that simplify | numbers, `test_visitors` | functions that hand their argument to one another |
| visitors, `subs.h`, `derivative.cpp`, `refine.cpp` ... | caches of one walk | `subs`, `diff`, `refine`, `rewrite` | all nodes | when a cached result may be used |
| assumptions, `assumptions.cpp`, `test_visitors.cpp`, `tribool.h` | maps of facts per symbol | build from statements, query | logic, sets | facts that contradict each other; three-valued logic |
| sets and logic, `sets.cpp`, `logic.cpp` | none | union, intersection, complement, and, or, not | numbers | interval ends; classes that hand cases to one another |
| dense matrices, `dense_matrix.cpp` | a vector | edits, elimination, decompositions, solvers, determinants | numbers and expressions as entries | zero pivots; entries moved over each other |
| matrix expressions, `matrices/` | trees | sums, products, Hadamard products, transposes, conjugates; size, trace and tests | numbers, `test_visitors` | parts whose size is not known; factors that do not commute |
| finite fields, `fields.*` | a vector of coefficients | arithmetic, gcd, square-free, distinct-degree and equal-degree factorisation | GMP | three copies of the division; random splitting |
| number theory, `ntheory.cpp` | none | factorisation, orders, primitive roots, roots modulo an integer | GMP, the sieve | the special cases of prime powers |
| other polynomials, series, solvers | dictionaries | arithmetic, expansion, roots | numbers, sets | pure algorithms |
| pattern matching, `utilities/matchpycpp` | bipartite graphs | matching and its enumeration | - | indexes that get out of step |
| parser, printers, C interface, serialization, LLVM, vendored code | mostly none | text and bytes in and out | all | mostly volume; addresses used as identities in archives |

`PROJECT.json` lists these parts with their files and says of each whether it is
modelled; it also lists the hazards found while reading the code, with the
properties that cover each, or a note why none does yet.

## Modules

| module | models | rests on |
|---|---|---|
| `SharedHeap` | what reference-counted pointers promise: an ideal heap of immutable nodes that is collected | - |
| `Rcp` | `RCP` and `EnableRCPFromThis`, one access to a counter per step | implements `SharedHeap` |
| `RcpProofs` | theorems about `Rcp`, and that it takes the steps of `SharedHeap` | `Rcp`, `SequenceLemmas` |
| `SharedHeapProofs` | theorems about `SharedHeap` | `SharedHeap`, TLAPS |
| `SequenceLemmas` | lemmas on induction, recursive functions and sequences that the proofs share | `Ordering`, TLAPS |
| `PrimeSieve` | `Sieve` and `Sieve::iterator` | `Ordering` |
| `PrimeSieveProofs` | theorems about `PrimeSieve` | `PrimeSieve`, `SequenceLemmas` |
| `CommonArgs` | `match_common_args` and `FuncArgTracker` | `Ordering` |
| `CommonArgsProofs` | theorems about `CommonArgs` | `CommonArgs`, `SequenceLemmas` |
| `TreeCse` | `OptsCSEVisitor`, `tree_cse`, `RebuildVisitor`, `cse` | takes any outcome of `CommonArgs` |
| `LambdaDouble` | `LambdaDoubleVisitor` | uses `cse` as `TreeCse` describes it, `Ordering` |
| `LambdaDoubleProofs` | theorems about `LambdaDouble` | `LambdaDouble`, `SequenceLemmas` |
| `Ordering` | the elements of a sequence at some places, in order | - |
| `Matrix` | what a matrix promises: an entry for each row and column | - |
| `SparseMatrix` | `CSRMatrix` | implements `Matrix` |
| `SparseMatrixProofs` | theorems about `SparseMatrix`, the refinement among them | `SparseMatrix`, `SequenceLemmas` |
| `Expressions` | `add.cpp`, `mul.cpp`, `pow.cpp` and the rational powers of `rational.cpp` | - |
| `Expansion` | `expand.cpp` | works on expressions of `Expressions` |
| `SetAlgebra` | `sets.cpp`: the named sets, finite sets, intervals, unions, complements | - |
| `GaloisField` | `GaloisFieldDict` (`fields.h`, `fields.cpp`) | - |
| `NumberTheory` | `ntheory.cpp` | the primes of `PrimeSieve` |
| `DenseMatrix` | `dense_matrix.cpp` | - |
| `MatrixExpressions` | `matrices/`: constructors, sizes, traces and tests of symbolic matrices | - |
| `Elementary` | `functions.cpp`: trigonometric, inverse and hyperbolic functions, roundings | - |
| `Assumptions` | the constructor of `Assumptions` (`assumptions.cpp`) | - |
| `AssumptionsProofs` | theorems about `Assumptions` | `Assumptions`, TLAPS |
| `TestVisitors` | the visitors of `test_visitors.cpp` | asks an object of `Assumptions` |
| `MCCse` | `CommonArgs`, `TreeCse` and `LambdaDouble` side by side | all three |
| `MCAlgorithms` | `NumberTheory`, `DenseMatrix`, `GaloisField`, `Elementary` and `MatrixExpressions` side by side, the calls that are asked | the others |
| `MCTests` | the statements, values and expressions | `TestVisitors` |
| `MCAnswers` | `TestVisitors`, `SetAlgebra` and `Logic` side by side | `MCTests`, the other two |
| `Logic` | `logic.cpp`, with what `subs` does to it: comparisons, membership, and, or, not, xor, piecewise | - |
| `MCCanonical` | `SparseMatrix` and `Expansion` side by side | `SparseMatrix`, `MCExpressions` |
| `MCRcp`, `MCPrimeSieve`, `MCExpressions` (with `Expansion`) | values of the constants, symmetry | the module named |

Next to some definitions stands one whose name ends otherwise (`MarksLate`,
`FinishUntracked`, ...) and whose comment begins with "A slip" or "Slip": it is how the
code would look with a plausible mistake, and it is used only to see that a
property notices. In `Assumptions` and `TestVisitors` the comment names the mistake.

### Rcp and SharedHeap

Variables: `heap` (is an address free, under construction, live, or being
destroyed), `refcount`, `field` (the `RCP` members of each object), `var` (the
`RCP` variables of each thread), and for each thread what it is in the middle of
(`pc`, `tmp`, `dst`) and its stack of running destructors (`dying`). A step is
one access to a counter, which is atomic in the thread-safe build; all that lies
between two of them can be interleaved with other threads. `make_rcp` is `New`,
`BuildField`, `Publish`; a copy is `CopyConstruct` (read the pointer) and
`CountCopy`; `operator=` is `CopyAssign` (read the pointer), `CountAssign`,
`DropOld` (give up the old object, perhaps starting its destructor) and `Store`.
Between reading and counting a thread has a pointer that no counter knows of
(`Uncounted`), and other threads go on. A destructor is `BeginDelete`,
`DestroyField` for each member, `Free`. `Slots` are all places a reference can
be in at one time, `Target` what each refers to. `Sources` lets a thread copy
out of any object that its own variables hold, which is how `get_args()` and
`rcp_from_this` are used.

A counter is an unsigned integer: it counts modulo `CounterSize`, which is
assumed to exceed the number of slots. With less, counts do wrap in the code
too.

`ImplementsSharedHeap` is the refinement: an assignment has happened when its
old object has been dropped, and an object exists from its publication until its
destructor begins. Fairness is on `Continue(t)`: a thread that is in the middle
of a statement goes on. That is what an operating system grants a running
thread; nothing makes a thread begin another statement.

### PrimeSieve

`memory` and `size` are the vector of primes: `erase` keeps the memory, and an
iterator that was overtaken by a `clear()` reads from it. `_extend` is
`Extended` (with its recursion for the square root), `Sieved` (one segment after
the other) and `Sifted` (one segment, with the indexes of the code); `Beyond` is
what the byte after the array of a segment can hold. `NextKnown` and `NextExtend` are the two ways
of `next_prime`, and `Looping` is the caller in `ntheory.cpp` that goes on until
an answer exceeds the limit: its fairness is that a loop calls again. Segment
sizes are scaled down (the code's unit is 8192 bits), so that seams come every
few primes.

### CommonArgs, TreeCse, LambdaDouble

`CommonArgs` has the numbering (`values`), the two indexes (`arg_to_funcset`,
`func_to_argset`), the queue of candidates and the loops: `Begin` collects
candidates for one expression, `Skip` drops one that has come to share too
little, `Rewrite` gives what is shared a number of its own (`ExtractPart`) or
takes the whole expression for it (`ExtractWhole`) and rewrites all that has it,
`Finish` ends one expression. `Content` counts the atoms of each value with all
names expanded, and `Total` adds that up over the arguments of an expression:
what it is worth. Inputs are all families of sums, up to
renaming of atoms.

`TreeCse` runs the walk `find_repeated` over each expression and then rebuilds
each. Expressions are small terms of every kind that the visitors treat in a way
of its own; the choice that `match_common_args` makes is left open, so the
results hold for any. Values are computed modulo 101 to compare the result with
the given expressions.

`LambdaDouble` keeps for each visitor the closures (what each of their symbols
reads), the map that `init` uses, and the address, size and capacity of the
vector; `memory` is what those addresses hold. `init` is one action, including
the case that it throws on the way with everything that it has done until then;
calls of one visitor from several threads at once are outside of the model. What
`init` may be called with is a constant (`Requests`). `RequestsFit` says what a
request is, and `NamesKnown` that names do not clash: an input is called `x0`
only if the expressions use it, and an `x0` in the expressions is an input.
Without the latter the code goes wrong (below), and `CallEvaluates` says nothing
of it: an undefined symbol that is found in the map of an earlier `init` is
outside of the model. The run evaluates both for its requests, and the theorems
assume them for any.

### SparseMatrix and Matrix

`m` is the record of the members. `Get` and `Place` are the two binary searches
as written; `Set` shifts the three vectors; `FromCoo`, `Jacobian` and the zero
matrix are the initial states; the other actions rebuild the vectors row by row.
The entries are an abstract set with an addition, a multiplication and a
conjugation, of which the runs take the field of four elements: sums cancel, and
conjugation moves something. Stored zeros arise as in the code (`from_coo` keeps
values that cancel, as `test_from_coo` expects). `Matrix` has the same
operations on a function from places to values, and the refinement mapping is
`get`. `conjugate` is modelled for square matrices, as the assertion of the
constructor it calls demands.

### Expressions

An expression is a record: a number, a symbol, a sum (a coefficient and a
function from terms to coefficients), a product (a coefficient and a function
from bases to exponents) or a power. `Plus`, `Times`, `Power` and the others are
the functions of those names with the dictionary operations below them
(`AddTerm` is `Add::dict_add_term`, `MulTerm` is `Mul::dict_add_term_new`,
`PowerNum` is `Mul::power_num`, ...), `SumCanonical`, `ProductCanonical` and
`PowerCanonical` the assertions of the constructors. The state is one expression
that is taken through `Depth` operations, with what plain arithmetic makes of it
beside it: `meaning` has its value for each assignment of numbers to the
symbols, computed in a finite field by ordinary rules. Rational exponents need
roots: the squares modulo 479 are closed under products and have unique square
roots (239, half of 478, is again a prime with that property), so they do for
positive reals.

Numbers are exact rationals. `CallPow` leaves out roots of negative numbers
(complex results) and powers of zero, `CallDiv` the division by zero. The order
in which a dictionary is walked is that of the hashes in the code; here it is
any fixed order, and `OneForm` says that results do not depend on which operand
comes first.

`Expansion` adds one more operation, `CallExpand`, for polynomials: expressions
in which sums occur by addition, multiplication and positive whole powers only.
`ExpandInto` is the walk of `ExpandVisitor` with its multiplier, `MulExpandTwo`
and `PowExpand` the loops over pairs of terms and over the multinomial
coefficients, and a record [coef, dict] is the sum that they collect.
`square_expand` is `PowExpand` for two, which merges the sums it meets. The run
asks of the result that nothing is left to expand, that it is canonical
(`ExpandExact`) and, as of every operation, that its value is kept.

### SetAlgebra

A set is a record with its class; `Unite`, `Meet` and `Less` are the virtual
functions `set_union`, `set_intersection` and `set_complement`, with an operator
for each class (`UniteFinite` is `FiniteSet::set_union`, ...), and `UniteAll`,
`MeetAll` and `LessIn` the free functions that they hand cases to and that hand
them back. `k` counts the calls inside one another; when `Stack` of them are
used up the value is `Endless`, which stands for an overflow of the stack: 16
is more than any answer needs, which the run shows by getting all of them. The
state is one set taken through `Depth` operations, with its `members` by plain
set operations beside it. Numbers are quarters, so that integers, rationals and
inexact reals can all be told apart on a bounded line.

The guards `HasComplement` and `ComesOutRight` leave out what does not come out
right in the code; they name the cases, which are listed below.

### Logic

A formula is a record with its class. `Equal` to `Less`, `FiniteContains`,
`Negation`, `Junction`, `Xor` and `Piecewise` are `Eq`, `Ne`, `Le`, `Lt`,
`FiniteSet::contains`, `logical_not`, `and_or`, `logical_xor` and `piecewise`;
`Restricted` is the part of `and_or` that narrows the finite set of a symbol by
the other conditions, and `Subs` the substitution that it asks for, which comes
back to `and_or`. Of two memberships the code takes the one whose hash is less:
`ascending` makes it either. A behaviour computes a formula in `Length`
operations, with the assignments for which it should hold beside it, and a
`Piecewise` with the expression it should choose (`LogicExact`). Terms are exact
numbers and two symbols. Substituting a symbol for a symbol puts it into sets
that already hold it, where an element may equal the symbol itself.

`Le` of an integer and a float of the same value is false, since their
difference is not negative and the two are not equal as expressions: numbers in
the model are exact and do not meet this.

### GaloisField

A polynomial is the vector of its coefficients. `Quo`, `Rem` and `Div` are `/=`,
`%=` and `gf_div`, each with its own loop, as the division is written three
times; `PairExact` holds them against each other and against the product. A
factorisation is a behaviour: `Begin` takes the square-free parts,
`DistinctDegrees` splits the next of them by degrees, `Draw` splits what is left
by a random polynomial, any one, and `Keep` moves a finished factor to the
result. The loops of `gf_edf_zassenhaus` and `gf_edf_shoup` draw again while a
draw splits nothing; that they end has probability one and is not certain, so
what is checked is that from every state some draw splits (`SomeDrawSplits`).

### NumberTheory and DenseMatrix

Both are collections of functions. A behaviour is one call: the initial state is
a question, the step gives the answer, and the invariants compare answers with
definitions (a root is what gives the number when raised to the power; a
determinant is Leibniz' sum). What GMP provides is defined by what it returns
and marked external in `PROJECT.json`. Random draws are part of the question.
`BruteForce` is the 10000 of the code below which square roots are searched for;
the runs use 20 so that small primes take both ways. `SignLost` names the even
roots of negative numbers that come out wrong (below); `RootsExact` asks nothing
of them but that `is_nth_residue` is right.

The entries of `DenseMatrix` are the numbers modulo `P`, where the algorithms
use nothing of numbers but the operations of a field and the test for zero; for
definiteness they are integers. What a division by zero would give is any
number, and nothing is asked of the results it went into.

### Elementary

An argument is a sum of pi, two symbols and a number, with complex coefficients;
pi comes in 120ths, so that multiples inside and outside of the table of sines
and the fractions beside them occur. `Sin`, `Cos`, ... are the parameters with
which the six functions call `TrigSimplify`, and `TrigStep` is what each does
with the result: take an entry of the table, make a node, or call itself or the
function it turned into. Each call is a step. `ArcSine` to `ArcTangent2` look
angles up in `InverseCst` and `InverseTct`, where a number is the name that the
source gives it; `Composed` is `trig_to_sqrt` with the early returns of the
functions; `HyperbolicStep` takes a sign out; `Round` is `floor`, `ceiling` and
`truncate`.

The meaning is computed modulo 241, where a number of order 240 stands for
`e^(i pi/120)`: sines of multiples of pi/120 and the square roots of 2, 3 and 5
are numbers there, symbols stand for other exponents, and what is an identity
between functions is one between numbers. `RootsExact` checks that the roots in
the tables are the ones the source takes. A function keeps its value through all
calls (`CallsKeepValue`), the calls end at a canonical node within `MaxCalls`
(`CallsEnd`), and arguments that differ by periods end at the same node
(`OneFormPerPeriod`). Signs, which numbers modulo 241 do not have, are checked
apart: `QuadrantsExact` for `atan2`, the signs in `ComposedExact`.

### MatrixExpressions

A node is a record with its class (`sort`), its dimensions, its entries and its
parts. `MatrixAdd`, `Hadamard` and `MatrixMul` are `matrix_add`,
`hadamard_product` and `matrix_mul`; `Flat`, `Merged` and `Single` what they
share, `MulStep` one round of the loop of `matrix_mul`, which holds back a
diagonal or dense matrix. `Size`, `Trace`, `IsZeroMatrix`, `IsSquare` ... are
the visitors, `HasShape` the three that ask for a diagonal or triangular matrix.
A world says what the symbols stand for, and a scalar is its value in each
world: one that is not the same in all stands for an expression with a symbol,
whose size or sign the code does not know. A behaviour takes a matrix through
`Length` operations, with the matrix that plain arithmetic gives in each world
beside it (`meaning`). `SymbolicExact` compares the two, and with them sizes,
traces and definite answers of the tests; `Refused` is a `DomainError`, after
which there may be no world in which the operands fit.

`Canonical` is what the `is_canonical` of the classes ask, of dense and diagonal
matrices too: entries for their size (`WellSized`), and no simpler node for them
(`IsReduced`). The second does not hold of matrices that an operation merged, and
is asked only of those that none did (`Unmerged`), however they were transposed,
conjugated and put into sums and products.

`ReadsNull` and `ComesOutRight` leave out what does not come out right in the
code, and so do the exceptions for Hadamard products in `AnswersRight` and for
merged matrices and conjugates below a transpose in `Canonical`.

### Assumptions and TestVisitors

The constructor of `Assumptions` reads a set of statements in the order of their
hashes: each step reads one that is left, any one. `sorts` are its four sets of
symbols, `known` its six maps, where an absent key is "indeterminate";
`set_map` throws at the other value (`Clashes`). Statements are records, one for
each shape that the constructor tells apart. A number is a pair of quarters; an
odd quarter stands for a number that is not rational.

When all statements are read, `Ask` has every visitor answer for one expression.
A visitor is an operator on expressions and on what the object knows; it gives
back what the visitor leaves in its member, or "error" where it throws.
Expressions are nodes as `get_args` and `get_dict` show them, all of them in the
form in which the constructors leave them (`Less` and `Half` are `sub` and `div`
for the operands they meet). The meaning is beside it: `ValueOf` computes the
value of an expression for values of the symbols, with "some" for a finite
number it does not know and "pole" for a pole; `Kinds` has the kinds of number
(rational, algebraic, transcendental ...) the expression can be; `Polynomial` is
the definition of a polynomial.

`AnswersSound` claims nothing where an expression has no value (`1/x` at zero,
which `is_real` and `is_complex` count as real and complex), for a sum with a
complex coefficient in `is_positive` (see below), and not that an expression is
not real where one of its parts vanishes or two parts of a sum are not real
(`NotClaimed`). `KindsSound` leaves out sums of two irrational constants, which
`is_rational` takes for irrational, as nobody knows of `pi + E`.

## Runs

| run | instance | shows |
|---|---|---|
| `rcp_threads` | 2 threads x 2 variables, 3 addresses, 2 members | counts exact, nothing dangles, each object destroyed once, nothing leaks |
| `rcp_heap` | the same with 2 addresses, 1 member, no symmetry | the refinement of `SharedHeap`; everything unreferenced is freed in the end |
| `sieve` | 2 iterators, limits 0 and 41, requests up to 41, segments of 4 and 8 | any interleaving with `clear`, `generate_primes` and changes of the segment: the list is a prefix of the primes, each iterator returns each prime once, loops end |
| `cse` | every family of 4 flat sums of 2 to 5 arguments; every list of up to 3 expressions of 13 kinds; 2 visitors, 4 requests, with and without `cse` | indexes agree, sums keep their value, nothing shared is left, each step saves; the replacements are equivalent, in order, and without repetition; the pointers of visitors stay good, undefined symbols raise, `call` evaluates the last `init` |
| `common_repeated` (violation) | 2 sums that can contain each other | a repeated part is lost |
| `canonical` | matrices of 2x2, 1x4 and 4x1 over four values; 5 expressions, 11 operands, 5 exponents, 2 operations | sparse matrices are canonical after every operation and refine `Matrix`, `csr_diagonal` finds what is there; expressions keep their value and are canonical but for two forms that escape, equal sums and products are one expression; `expand` leaves the canonical sum of monomials |
| `expand_form` (violation) | the expressions and operands of `canonical`, from `(x + y)**2 - x**2 - y**2` | `expand` of a power of what expands to one term |
| `algorithms` | one behaviour for each question; all monic polynomials of degree up to 6 modulo 2, 4 modulo 3, 3 modulo 5, all draws; all pairs of degree up to 4 and 3 modulo 2, 2 and 2 modulo 3; 18 functions of some 1300 arguments in three orders; 8 matrices in each place, 3 worlds, 3 operations | the functions of `ntheory.cpp` and `dense_matrix.cpp` against their definitions; no factor is lost, factors are irreducible, some draw always splits; operations on pairs agree with each other; functions keep their value and end at one form, angles are those of the table; matrix expressions mean what plain arithmetic gives, in canonical form but for merged matrices, and what is said of them is true |
| `arcs` (violation) | the same | `asin` of the sine of 5*pi/12 |
| `negative_roots` (violation) | the same | square roots of -1 modulo 4 |
| `answers` | every set of up to 2 of 27 statements about two symbols, read in any order, 8 values, some 140 expressions; 15 sets in each place, 3 operations; 6 formulas of two symbols with 3 values, 3 operations | what is entered is true, what is refused is contradictory; definite answers are right for every value of the symbols; members are exact; every pair of sets that is not circular gets an answer; formulas keep their truth values and canonical nodes, a `Piecewise` its choice |
| `positive_sum` (violation) | the same statements and expressions | `is_positive` of `I + pi` |

Why the bounds suffice: two threads and three objects with two members have
every pattern that the operators of `RCP` tell apart (an object that holds the
source of an assignment, one that is shared, a chain of destructors in each
thread); two iterators are one that clears and one that is overtaken, and 15
primes lie on both sides of the ten that `clear` leaves; four sums let a
rewritten sum meet two later ones; three expressions let a name be taken, used
and met again; a row of four entries takes every branch of both searches. Degree
6 modulo 2 has three factors of one degree, two factors of degree 3 and two
giant steps of Shoup's method. The arguments of `algorithms` take each branch:
powers of two below and above the exponent, odd primes of each class modulo 4
and 8, roots of numbers that the prime divides, moduli with common factors,
numbers of either sign, matrices with and without a pivot in each column, and
4x4 for the loops of the determinant that the formulas for up to 3x3 replace;
multiples of pi in each quadrant, over more than a period on either side, with
remainders of each sign in front. Two operations on expressions that are
themselves sums, products and powers nest forms four deep; the polynomials among
them have degree up to seven and sums of up to four terms in a power. Of the
eight matrices two are symbols, one an identity whose size is a symbol, and the
others one of each class and one that is not square; in the worlds a symbol
changes its size, its symmetry and its zeros, and three operations put a merged
matrix into a product inside a sum. Fifteen sets hold every class, and intervals
and points in every relation. The six formulas exclude, imply and leave open one
another, with a symbol among the elements of two of them, and three operations
narrow a narrowed set. The statements have bounds below, at and above zero on
either side, which are all that the constructor tells apart, and the values lie
on both sides of each; two statements are one that contradicts or completes
another. The theorem says the same for any number of them. `MaxPrimes` bounds
the calls of an iterator, `MaxExprs` the list given to `cse`, `MaxGiven` the
statements, `MaxCoo` the list given to `from_coo`, `Operand` the values in the
second operand of a matrix operation, `Width` the numbers of `SetAlgebra`,
`Highest` those of `Logic`, `Depth` and `Length` the operations of a
computation.

Deadlock is checked where the system goes on for ever: `Rcp`, `PrimeSieve`,
`LambdaDouble`, and the two of `cse`, whose next-state relations let a finished
computation stutter. It is not in `canonical`, `algorithms` and `answers`: there
a computation is over when it has its answer or has done `Depth` or `Length`
operations.

## What the code does otherwise than it says

Each was found while modelling and reproduced with the compiled library.

With a run:

- `cse.cpp:289`: when a sum has another sum as an argument and also all of its
  arguments, one of the two is lost: `cse` of `x + y` and `x + y + (x + y)`
  gives `x0` and `x0` (`common_repeated`).
- `expand.cpp:311`: a power whose base expands to something that is no sum enters
  the dictionary of the result as it is, with its coefficient: `expand` of
  `3*((x+y)**2 - x**2 - y**2)**2 + 2` is `2 + 3*4*x**2*y**2`, the square minus
  `4*x**2*y**2` does not become zero, and where it is the only term left its
  coefficient 4 is lost (`expand_form`). No operand of `canonical` leads there.
- `test_visitors.cpp:152`: a complex constant term is neither positive nor
  negative and so rules nothing out: `is_positive` of `I + pi`, and of `I + x`
  where `x > 0`, is true (`positive_sum`).
- `functions.cpp:59`: the table of angles takes `C4 = (sqrt(3)+1)/(2*sqrt(2))` for
  the sine of pi/12, but it is that of 5*pi/12, and `C5 = sqrt(5-sqrt(5))/8` for
  that of pi/5, which has `sqrt(8)`: `asin(sin(5*pi/12))` is pi/12, and `acos`,
  `asec` and `acsc` follow (`arcs`). `test_functions.cpp:1803` expects the wrong
  angles.

- `ntheory.cpp:1190`: an even root modulo 4 is refused where `a % 4 == 3`, which
  no negative `a` satisfies, and `nthroot_mod` does not reduce it first: -1 is
  the square of -1 modulo 4, and -20 has the square roots -2, 6, 6 and 14 modulo
  16 (`negative_roots`). `is_nth_residue` reduces, since the issue that
  `test_ntheory.cpp:862` names. `SignLost` leaves these out of `NumbersExact`.

Left out of the passing runs, by a guard or by the values of a constant:

- `mul.cpp:278`: exponents of a power that is itself a base can add up to an
  integer and stay: `(2**y)**(-1/2)`, `x` and `(2**y)**(-1/2)` multiply to a
  product that its own assertion refuses and that is not equal to `x*2**(-y)`.
  The other form that escapes is a fraction that keeps a rational exponent where
  its root turns it over, as in `(1/2)**y*(1/2)**(-1/2 - y)` (`IsOdd`).
- `expand.cpp:173`: a sum that a product of roots comes to stays a term of the
  sum: `expand` of `(sqrt(x+1)+1)*(sqrt(x+1)-1)` is `-1 + 1 + x`, with `1 + x` as
  a term (`IsPolynomial` keeps `CallExpand` from it).
- `prime_sieve.cpp:68`: the last odd number of a segment is looked up one place
  past the end of the array (`Beyond`); a prime is returned twice if that byte
  is not zero. The doubling of `next_prime` wraps (`prime_sieve.cpp:130`).
- `lambda_double.h:81`: the map of an `init` that threw serves the next one, so
  that an undefined `x0` is accepted; an input named `x0` hides a common
  subexpression (`lambda_double.h:115`); a function of the user named `add`,
  `mul` or `pow` becomes that operation (`cse.cpp:483`).
- `sparse_matrix.cpp:640`: the diagonal is searched beyond the end of the row,
  so that an empty place can be given an entry of the next row (`DiagonalFound`
  says what remains true). The conjugate of a sparse matrix that is not square
  has its dimensions swapped (`sparse_matrix.cpp:234`).
- `dense_matrix.cpp:904` and `:962`: two of the pivoted eliminations go on with
  row `i` where the pivot is in row `index`; after a column without a pivot the
  result is not an echelon form (`EveryPivot` in `EchelonExact`).
- `fields.h:205`: adding a number to the polynomial zero leaves zero. It makes
  `gf_compose_mod` wrong and lets `gf_edf_shoup` split one product twice.
- `ntheory.cpp:200`: Lehman's method misses factors of some composite numbers
  (it reports none; that it reports no wrong one is `NumbersExact`).
- `matrices/`: the product of a scalar and an identity loses the scalar
  (`matrix_mul.cpp:253`); a product with a zero matrix is that zero matrix,
  whatever the size of the product (`matrix_mul.cpp:201`); the sizes of a term
  with known rows and unknown columns, as in `D*A + D`, are subtracted all the
  same, which reads a null pointer (`matrix_add.cpp:77`); `is_symmetric` of a
  Hadamard product follows the rule for sums and is false for a product that is
  diagonal (`is_symmetric.cpp:94`); the conjugate of a transposed conjugate is a
  conjugate of a conjugate (`conjugate_matrix.cpp:99`); the matrices that sums,
  products and Hadamard products merge go into a new node as they come out,
  zeros, identities and diagonals among them, which the assertion of its
  constructor refuses (`matrix_add.cpp:123`, `:137` and `:158`,
  `hadamard_product.cpp:109`, `:123` and `:137`, `matrix_mul.cpp:93` to `:149`;
  `Unmerged` in `Canonical`): the diagonals (1, 2) and (-1, -2) add up to a
  `DiagonalMatrix` of zeros, and `[[1, 2], [0, I]]` and its transpose have the
  dense Hadamard product `[[1, 0], [0, -1]]`; `is_toeplitz` of a matrix with at
  least two columns more than rows reads past its entries
  (`is_toeplitz.cpp:67`).
- `functions.cpp:853`: `truncate(1 + x)` is `1 + truncate(x)`, one too much where
  `x = -1/2`. `truncate` and `ceiling` of a sum do not round what is left of it,
  so `ceiling(1 + pi)` stays `1 + ceiling(pi)`, and `sign(2*pi)` stays `sign(pi)`
  (`functions.cpp:561`). `acot` of -1 is 3*pi/4 as an expression and -pi/4 as a
  number, and `trig_to_sqrt` has the sign of the latter. `uppergamma` of a whole
  number that is not positive becomes a `LowerGamma`.
- `sets.cpp`: the union of the complexes, reals or rationals with a union, and
  the union or intersection of the rationals with an interval, call themselves
  for ever (`Circular`); the complement of an interval in one that lies apart,
  of points in an interval when hashes order them otherwise, of `Naturals0` in a
  larger set (`Naturals` is taken), and unions of complements give wrong members
  (`ComesOutRight`); the union of inexact numbers with the rationals drops them,
  and `Intersection::set_complement` intersects where it has to unite.

## Proofs

`RcpProofs` proves of `Rcp`, for any finite sets of threads, variables and
addresses, any number of members and any counter wide enough (`RcpAssumption`):
`TypeCorrect`, `CountsAreExact`, `NothingDangles`, `DestroyedByOne` and
`NothingLeaks`.

None of the three safety properties is inductive: that a decrement to zero may
destroy needs exact counts, exact counts need that nothing dangles (a step on a
free address would change what is counted), and that needs that destruction
begins only at zero. `IInv` is their conjunction (`KeptLive` is the first half
of `NoDangling`) with `TypeOK`, with `Phases`, which ties what a thread is in
the middle of to the state of the object it works on, and with `Halfway`: a
pointer that is read and not yet counted or stored is still where it was read,
and the members of an object under construction are copies of what its maker
still holds. `Halfway` is inductive because no step changes a member of a live
object, and what a busy thread holds is live; the second half of `NoDangling`,
that something keeps what is read and not yet counted, follows from it. The
argument: each action moves at most one reference from one slot to another.
`GainCount`, `LoseCount` and `ExchangeCount` say what that does to the number of
references of an object (with the library's facts on cardinalities), `GainStep`,
`LoseStep` and `ExchangeStep` lift them to the invariant, and there is one lemma
per action that says which slot changes. `Inductive` puts them together.

That nothing leaks needs more. `NoLeak` speaks of chains of members of any
length, and objects that held each other would keep each other alive. `Acyclic`
says that there is an order of the objects in which each is above its arguments
(`Ranks`): only `BuildField` makes a member point to an object, and nothing
points to the object under construction. `Owned` says that some thread goes on
with every object under construction, and `IdleRefs` that between two statements
only variables and members hold references. So when all threads are between
statements every object in memory is live and has a reference, from a variable
or from an object above it, and induction on the order, which is bounded, finds a
variable. `ReachClosed` shows that the iteration in `Reach`, as long as there are
addresses, is complete: a step that adds nothing ends it, and every other adds an
object.

The same module proves, from the same assumption, that every behaviour of `Rcp`,
seen through `Held`, `Args` and `Alive`, is one of `SharedHeap!Steps`
(`RefinesSharedHeap`). The steps that map to a step of the heap are the
publication of an object, a copy, the drop in the middle of an assignment, a
reset, the moves, and the beginning of a destructor; the others map to
stuttering. `Halfway` is what makes a publication and an assignment steps of the
heap: the maker, or the thread that assigns, can still name what it puts in
place. An object whose destructor begins has no references (`DestroyedOnce`), so
the heap may collect it. `SharedHeapProofs` proves what those steps promise the
rest of the library: whatever is held exists (`HeldObjectsExist`) and arguments
do not change (`ArgumentsFixed`). The fairness of `SharedHeap` stays with the
run `rcp_heap`.

`AssumptionsProofs` proves of `Assumptions`, for any symbols, statements, values
and number of statements given (`AssumptionsAssumption`: comparisons are with
real numbers): `TypesCorrect` and `FactsAreSound`. What is entered must be true
of every value that the statements read so far leave the symbol; that is
inductive with the types. There is one lemma for each kind of statement
(`LessThanEntersTrue`, ...), which says that what it enters is true where it is;
`EntriesMean` says what the entries of a sign mean, and `Consequences` lifts
the lemmas to a step, in which either the entries join what is known or, where
they clash, no value is left that both were true of.

`SparseMatrixProofs` proves of `SparseMatrix`, for any number of rows and
columns and any set of entries with any operations on them
(`EntryAssumption`: addition and multiplication commute, addition is associative,
zero is neutral, and zero times anything and the conjugate of zero are zero): `CanonicalAlways`, `ImplementsAlways`, the refinement of
`Matrix`, and `DiagonalAlways`. `Canonical` is inductive as it stands, with the
types: the work is in the operators. `Search` finds an entry if and only if the
row has it, because the columns ascend; `PlaceIn` finds the one place where a
new entry keeps them ascending; the rows that a whole operation builds are laid
out one after the other (`FlattenLayout` of `SequenceLemmas`: where each element
of a concatenation comes from); merging two ascending rows ascends and has what
either has. The refinement compares `Get` before and after each operation. For
`csr_diagonal` the proof shows what is left of a search that runs one position
too far: it may find an entry of the next row where there is none, and never
misses one.

`PrimeSieveProofs` proves of `PrimeSieve`, for any finite set of iterators and any
limits, requests and segment sizes: `ReadsWritten`, and, when the byte after the
array of a segment is zero (`Beyond = {FALSE}`; with any other byte a prime can
be returned twice), `ListOfPrimes` and `RequestsAnswered`. `IteratorsExact` needs
two things more: `Bertrand`, that there is a prime between a number and its
double, on which `next_prime` rests when it extends the list to twice its last
prime; and `NoWrap`, that the bound on the number of primes (`MaxPrimes`) keeps
that double below `Word`. TLC evaluates both for the run's constants (`Premises`
of `MCPrimeSieve`). As in the model, the additions of a segment to `start` and the
squares of primes do not wrap.

The argument has three parts. One segment: `MarksMultiples` to `MarkedComposite`
show, of the indexes `(multiple - start) / 2`, that the slices mark exactly the odd
numbers of the segment that a known prime other than itself divides, hence, when
the list has all primes up to the square root of its end, exactly the composite
ones; the number one place past the end of the array is dropped and is the first
of the next segment. One extension: the segments follow each other without a gap
(`SievedPrimes`), and the call for the square root, which is smaller, comes
first (`ExtendedPrimes`, by the recursion of the code). All calls: `Typed` (no
iterator has seen more primes than were ever written), `Complete` (the memory,
also beyond the end of the vector, has all primes up to some number) and
`Answered` are inductive together. An iterator that a `clear()` has overtaken
extends the list from the front, and `Complete` is why it overwrites each prime
with itself and goes on with the next one.

`CommonArgsProofs` proves of `CommonArgs`, for any number of expressions and
arguments: `IndexesAlwaysAgree`, and, when no expression is an argument of
another one (`~Nested`, the case in which the code is right), also
`NothingSharedIsLeft`, `ReplacementsEnd`, `SumsAlwaysKept` and `RewritingSaves`.
The indexes agree from `IndexInv`
alone: a rewriting touches only expressions from `i` on, and those are the
tracked ones. For the second, `LeftInv` adds why a list of candidates that is
computed once is enough: whatever `i` still shares two arguments with is in the
queue (`Compared`); a name that stands for arguments is in every expression that
had them (`NamesUsed`), and once all of `i` is a name no later expression has
all of it (`WholeOnce`), so that a name is new when it is given and is shared
only by expressions that had its arguments. For the third, `Founded` gives each
value a bound above all expressions in it: a part of `i` holds less than `i`,
and `i` itself, as a name, goes into later expressions only.

For `SumsAlwaysKept`, `MadeInv` says that a value is made of values with smaller
numbers. So the recursion in `Content` has one solution (`ContentRecursion`), and
what is in a value stays when new ones come (`ContentKept`). A new name is worth
the arguments it replaces: a name for a part of `i` because it is made of them, a
name for all of `i` because `i` is still worth what it was given, which is the
invariant itself; hence every expression keeps its sum (`NamesKeep`).
`RewritingSaves` counts: each expression that has the `k` shared arguments loses
`k - 1` operations, and there are two of them, `i` and the candidate, when the
name costs `k - 1`, and one when it is `i` and costs nothing (`NamesSave`). The
`Total` lemmas on sums (parts, one number, smaller counts) serve both.

`LambdaDoubleProofs` proves of `LambdaDouble`, for any finite set of visitors, any
requests that `RequestsFit` and `NamesKnown` allow, and any numbers:
`PointersAlwaysGood` and `CallAlwaysEvaluates`. The second needs what no visitor says by itself: `Owned`, that a visitor with a
capacity has the memory at its address, that no two visitors have the same
address, and that allocated memory is somebody's. The last part is why there is
always a free address (`FreeAddress`: there are more addresses than visitors). `OwnerChanges` and
`MoveOwned` say that neither a vector that grows nor a move breaks it. `Made`
says what `init` leaves in one visitor: names of replacements only, in a map
that may be stale; functions that read the visitor's own vector, within its
size; and, if `init` returned, that all symbols are inputs and that each
function is either the plain one or reads the place which the function for the
same part writes (`Serving`). `CompiledMade` shows that of `init` whether or not
it throws on the way, from one fact: what is called like a replacement and occurs
in the expressions is an input (`PartLookup`), so that what an earlier `init`
left in the map is never found. `FilledComputes` follows `call` through the
vector, place by place.

Induction. The library's induction theorems take an operator, which the provers
cannot instantiate; `SequenceLemmas` restates what is needed for sets and
functions (`NatSetInduction`, `Iteration`, `BoundedRecursion`), so that
recursive functions over the naturals and over sequences can be unfolded.

Model-checked only: liveness and fairness (`LoopsEnd` of `PrimeSieve`); the
properties of `TreeCse`; and what `NumberTheory`, `GaloisField`, `DenseMatrix`,
`Expressions`, `Expansion`, `SetAlgebra`, `Logic`, `Elementary`,
`MatrixExpressions` and `TestVisitors` compute: they are recursive operators over
terms, which the provers cannot unfold.

## Plan

Done: the modules above. Next, in this order:

1. Powers of negative numbers and of zero, infinities and NaN in `Expressions`;
   polynomials in several variables.
2. `Bipartite`, `Archive`, the initialisation of constants.

## Not modelled

Formulas of special functions, formatting, parsing and numeric evaluation (volume
without state), the arithmetic of GMP, MPFR and MPC, generated and vendored
code. That is most of the lines: of about 109000, some 50000 are vendored or
generated (Catch, Teuchos, cereal, fast_float, Bison and re2c output), another
15000 are printers, wrappers, evaluators and benchmarks that turn each class
into one call, and the special functions, derivatives and series are tables of
formulas, whose models would be the tables again. Of the modelled parts: the depth of recursive
destructors; data races on the list of primes and on a shared visitor, for which
the code promises nothing; segment sizes of zero and limits at the end of the
range of unsigned; the conversion of single functions to closures; the sparse
product, which nothing calls; inexact, complex and infinite numbers in
expressions; symbols, conditions and images in sets;
the simplification of scalars in matrix expressions;
inexact, complex and undefined numbers in comparisons; infinite numbers in statements, and an
infinite coefficient of a product in the tests; dictionaries moved out of
nodes that are used once.
