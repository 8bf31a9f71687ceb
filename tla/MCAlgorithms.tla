---------------------------- MODULE MCAlgorithms ----------------------------
(***************************************************************************)
(* The calls of NumberTheory, DenseMatrix and Elementary that are checked, *)
(* the polynomials that GaloisField factors and divides, and the           *)
(* expressions that MatrixExpressions combines.  A behaviour is one call   *)
(* of one of the first four, or one chain of operations on an expression.  *)
(***************************************************************************)
EXTENDS Integers, Sequences, FiniteSets, SequencesExt

CONSTANTS BruteForce, P, Pending, Length

VARIABLES question, answer, modulo, by, poly, parts, todo, factors, expr, meaning, length

-----------------------------------------------------------------------------
(* Numbers *)

\* Prime powers of every kind: 2^k with k below and above the exponent, odd
\* primes 1 and 3 mod 4, 1 and 5 mod 8, below and above BruteForce.
PrimePowers == {64, 49, 81, 97, 121, 125, 128, 162, 169, 243}

RootQuestions ==
    [op : {"nthroot"}, a : -20..20, n : 1..6, m : 0..36]
    \cup [op : {"nthroot"}, a : {-125, -64, -27, -8, -7, -4, -1, 0, 1, 2, 4, 8, 9, 16, 17, 27, 64}, n : {2, 3, 4, 6, 8, 9, 12, 27},
          m : PrimePowers]

LehmanQuestions == [op : {"factor"}, by : {"lehman"}, n : 21..200]

NumberQuestions ==
    RootQuestions \cup LehmanQuestions
    \cup [op : {"factor"}, by : {"trial"}, n : 1..60]
    \cup [op : {"factor"}, by : {"rho"}, n : 5..24, draws : {<<d>> : d \in (0..4) \X (1..4)}]
    \cup [op : {"factor"}, by : {"rho"}, n : {91, 143},
          draws : {<<d, e>> : d \in (0..8) \X (1..8), e \in {1} \X {2}}]
    \cup [op : {"factor"}, by : {"pm1"}, n : {9, 15, 21, 35, 77, 91, 97, 121},
          draws : {<<<<c>>, <<d>>>> : c \in 2..5, d \in 2..5}]
    \cup [op : {"arithmetic"}, n : -40..130]
    \cup [op : {"primitive_root"}, n : (-20..60) \cup {81, 98, 121, 125, 162}]
    \cup [op : {"order"}, a : -5..12, n : 1..32]
    \cup [op : {"crt"}, rem : (0..5) \X (-2..7), mod : (1..6) \X (1..8)]
    \cup [op : {"crt"}, rem : (0..1) \X (0..2) \X (0..3), mod : {<<2, 3, 4>>, <<4, 6, 10>>, <<3, 4, 5>>}]
    \cup [op : {"powermod"}, a : 0..9, r : -3..3, s : 1..3, m : 2..20]
    \cup UNION {[op : {"sqrt"}, a : 1..(p - 1), p : {p},
                 draw : {z \in 1..(p - 1) : \A x \in 1..(p - 1) : (x * x) % p # z}] :
                p \in {3, 5, 13, 17, 41}}
    \cup [op : {"residues"}, m : 1..60]
    \cup [op : {"powers"}, n : 1..150]

-----------------------------------------------------------------------------
(* Matrices, modulo 3 *)

Matrices(r, c, V) == {[row |-> r, col |-> c, m |-> m] : m \in [1..(r * c) -> V]}
\* the entries 1 to r * c, and others: edits do not look at them
Named(r, c, base) == [row |-> r, col |-> c, m |-> [k \in 1..(r * c) |-> base + k]]

Edits ==
    {[op |-> "edit", A |-> Named(d[1], d[2], 0), B |-> Named(d[3], d[4], 20), pos |-> d[5]] :
     d \in {e \in (1..3) \X (1..3) \X (1..3) \X (1..3) \X (0..3) :
              (e[2] = e[4] /\ e[5] <= e[1]) \/ (e[1] = e[3] /\ e[5] <= e[2])}}

\* Rows of four with zeros in every place a pivot is looked for
Rows4 == {<<0, 0, 0, 1>>, <<0, 1, 2, 0>>, <<1, 0, 1, 1>>, <<0, 0, 2, 2>>, <<2, 1, 0, 0>>}
Square4 == {[row |-> 4, col |-> 4, m |-> r[1] \o r[2] \o r[3] \o r[4]] : r \in Rows4 \X Rows4 \X Rows4 \X Rows4}
Unit3 == [row |-> 3, col |-> 1, m |-> <<1, 2, 0>>]
Pair2 == [row |-> 2, col |-> 2, m |-> <<1, 2, 0, 1>>]

\* Symmetric, or one step from it
Definite3 == {[row |-> 3, col |-> 3, m |-> <<d[1], d[2], d[3], d[4], d[5], d[6], d[3], d[6], 3>>] :
              d \in (1..3) \X (-1..1) \X (-2..2) \X (-1..1) \X (1..3) \X (-1..2)}

MatrixQuestions ==
    Edits
    \cup [op : {"eliminate"}, A : Matrices(2, 3, 0..2) \cup Matrices(3, 2, 0..2) \cup Matrices(3, 3, 0..1)]
    \cup [op : {"solve"}, A : Matrices(2, 2, 0..2), b : {Pair2}]
    \cup [op : {"solve"}, A : Matrices(3, 3, 0..1), b : {Unit3}]
    \cup [op : {"det"}, A : Matrices(1, 1, 0..2) \cup Matrices(2, 2, 0..2) \cup Matrices(3, 3, 0..1) \cup Square4]
    \cup [op : {"definite"}, A : Matrices(2, 2, -2..3) \cup Definite3]

-----------------------------------------------------------------------------

(* Polynomials: degrees 4 and 6 modulo 2, where the traces wrap around;    *)
(* p-th powers of products; two giant steps of Shoup's method from degree  *)
(* 6 on.                                                                   *)

Monics(p, d) == {Append(r, 1) : r \in [1..d -> 0..(p - 1)]}
Upto(p, d) == UNION {[1..n -> 0..(p - 1)] : n \in 0..d}

Factorisations ==
    [by : {"factor", "shoup"}, modulo : {2}, poly : UNION {Monics(2, d) : d \in 1..6}]
    \cup [by : {"factor", "shoup"}, modulo : {3}, poly : UNION {Monics(3, d) : d \in 1..4}]
    \cup [by : {"factor", "shoup"}, modulo : {5}, poly : UNION {Monics(5, d) : d \in 1..3}]
Operands == [modulo : {2}, f : Upto(2, 5), g : Upto(2, 4)]
            \cup [modulo : {3}, f : Upto(3, 3), g : Upto(3, 3)]

-----------------------------------------------------------------------------

(* Matrix expressions, in three worlds: a scalar is zero, real and complex, *)
(* a dimension 2, 3 and 2, A stays 2x2 and is symmetric in one, B does not. *)

Worlds == 1..3
Nodes == INSTANCE MatrixExpressions WITH Stands <- {}, Operands <- {}, Scalars <- {}

Num(value) == Nodes!Constant(value)
varying == <<<<0, 0>>, <<2, 0>>, <<1, 1>>>>
size == <<<<2, 0>>, <<3, 0>>, <<2, 0>>>>
imaginary == [w \in Worlds |-> <<0, 1>>]

Real(r, c, m) == [row |-> r, col |-> c, m |-> [j \in 1..(r * c) |-> <<m[j], 0>>]]
SymbolMatrices ==
    [A |-> <<[Real(2, 2, <<1, 0, 0, 2>>) EXCEPT !.m[2] = <<0, 1>>],
             Real(2, 2, <<1, 0, 0, 1>>), Real(2, 2, <<0, 3, 3, 1>>)>>,
     B |-> <<Real(2, 2, <<1, 2, 2, 5>>), Real(2, 3, <<1, 0, 2, 0, 1, 1>>),
             Real(3, 3, <<0, 0, 0, 0, 0, 0, 0, 0, 0>>)>>]

SymbolicOperands ==
    {Nodes!Symbol("A"), Nodes!Symbol("B"), Nodes!IdentityMatrix(size),
     Nodes!ImmutableDenseMatrix(2, 2, <<Num(1), Num(0), Num(0), Num(1)>>),
     Nodes!ZeroMatrix(Num(2), Num(3)), Nodes!DiagonalMatrix(<<Num(1), varying>>),
     Nodes!ImmutableDenseMatrix(2, 2, <<Num(1), Num(2), Num(0), imaginary>>),
     Nodes!ImmutableDenseMatrix(2, 3, <<Num(1), Num(2), Num(0), varying, Num(1), Num(2)>>)}

-----------------------------------------------------------------------------

(* Arguments of functions: multiples of pi in and out of the tables, of     *)
(* every sign and many periods, with symbols and numbers of every sign, in  *)
(* different orders; values in two worlds.                                  *)

Arg(k, x, y, n) == [t \in {"pi", "x", "y", "1"} |->
                       CASE t = "pi" -> k [] t = "x" -> x [] t = "y" -> y [] t = "1" -> n]
Shifts == {10 * j : j \in -13..26} \cup {24 * j : j \in -6..11} \cup {15 * j : j \in -5..17}
          \cup {61, 179, -299, 600, -360}
Plain == {<<0, 0>>, <<1, 0>>, <<-1, 0>>}
Arguments ==
    {Arg(<<k, 0>>, x, y, n) : k \in Shifts, x \in Plain \cup {<<0, 1>>}, y \in {<<0, 0>>, <<-2, 0>>},
                              n \in {<<0, 0>>, <<-1, 0>>}}
    \cup {Arg(k, x, y, n) : k \in {<<0, 0>>, <<0, 10>>, <<20, -10>>}, x \in Plain \cup {<<0, -1>>},
                            y \in {<<0, 0>>, <<-2, 0>>}, n \in Plain \cup {<<0, -1>>, <<-1, 1>>}}
Orders == {<<"pi", "x", "y">>, <<"x", "y", "pi">>, <<"y", "pi", "x">>}

\* A world says what the real and the imaginary multiples of a term stand for.
AngleWorlds == {Arg(<<1, 53>>, <<17, 101>>, <<139, 7>>, <<77, 31>>),
                Arg(<<1, 29>>, <<203, 83>>, <<67, 11>>, <<5, 91>>)}

PowersOf7 ==
    LET power[k \in 0..239] ==
            IF k = 0 THEN 1
            ELSE LET half == power[k \div 2] IN (half * half * (IF k % 2 = 1 THEN 7 ELSE 1)) % 241
    IN  [k \in 1..240 |-> power[k - 1]]

Elements == INSTANCE Elementary WITH Questions <- {}, Worlds <- AngleWorlds, Powers <- PowersOf7

Tabled == {"C1", "C2", "C3", "C4", "C5", "C6", "sq3", "one_by_sq3", "one_plus_sq2", "sq2_minus_one",
           "two_minus_sq3", "root_5_plus_2_sq5", "zero", "one", "C0"}
SignedNumbers(names) == [name : names, sign : {1, -1}]
Summands == {Elements!Variable, Elements!Constant("pi"), Elements!Constant("Catalan")}
            \cup {Elements!Rounded(fn, e) : fn \in Elements!Roundings,
                                           e \in {Elements!Variable, Elements!Sum(2, Elements!Variable)}}

FunctionQuestions ==
    [op : {"call"}, fn : Elements!Trigonometric \cup Elements!Hyperbolic, arg : Arguments, order : Orders]
    \cup [op : {"inverse"}, fn : {"asin", "acos", "atan", "acot"}, v : SignedNumbers(Tabled)]
    \cup [op : {"inverse"}, fn : {"acsc", "asec"}, v : SignedNumbers(Tabled \ {"zero"})]
    \cup [op : {"atan2"}, v : SignedNumbers(Tabled \cup {"infinite"}), sign : {1, -1}]
    \cup [op : {"composed"}, fn : Elements!Trigonometric,
          of : {"asin", "acos", "atan", "acot", "asec", "acsc"}]
    \cup [op : {"round"}, fn : Elements!Roundings,
          arg : {Elements!Number(n) : n \in -7..7}
                \cup {Elements!Sum(n, e) : n \in {-4, -2, 0, 1, 8}, e \in Summands}]

-----------------------------------------------------------------------------

Numbers == INSTANCE NumberTheory WITH Questions <- NumberQuestions
Dense == INSTANCE DenseMatrix WITH Questions <- MatrixQuestions
Elem == INSTANCE Elementary WITH Questions <- FunctionQuestions, Worlds <- AngleWorlds,
                                 Powers <- PowersOf7
Field == INSTANCE GaloisField WITH Tasks <- Factorisations, Pairs <- Operands

Symbolic == INSTANCE MatrixExpressions
            WITH Stands <- SymbolMatrices, Operands <- SymbolicOperands, Scalars <- {Num(3), varying}

exprVars == <<expr, meaning, length>>
callVars == <<question, answer>>
fieldVars == <<modulo, by, poly, parts, todo, factors>>

NoCall == question = [op |-> "none"] /\ answer = Pending
NoField == /\ modulo = 2 /\ by = "pair" /\ poly = << <<>>, <<>> >>
           /\ parts = <<>> /\ todo = {} /\ factors = {}

NoExpr == expr = Nodes!Refused /\ meaning = [w \in Worlds |-> Nodes!Undefined] /\ length = Length

Init == \/ NoExpr /\ NoField /\ (Numbers!Init \/ Dense!Init \/ Elem!Init)
        \/ NoExpr /\ NoCall /\ Field!Init
        \/ Symbolic!Init /\ NoCall /\ NoField
Next == \/ (Numbers!Next \/ Dense!Next \/ Elem!Next) /\ UNCHANGED <<fieldVars, exprVars>>
        \/ Field!Next /\ UNCHANGED <<callVars, exprVars>>
        \/ Symbolic!Next /\ UNCHANGED <<callVars, fieldVars>>
Spec == Init /\ [][Next]_<<callVars, fieldVars, exprVars>>

\* Factors, what is derived from them, roots and congruences agree with their
\* definitions, but for even roots that lose a sign (ntheory.cpp).
NumbersExact == Numbers!NumbersExact /\ Numbers!RootsExact
\* "A solution to x**n == a mod m. Return false if none exists." (ntheory.h:153),
\* of a negative a as of any other (nthroot_mod).
RootsOfEverySign == Numbers!NthRootsExact
\* Rows and columns are inserted and deleted, eliminations end in the echelon
\* form of the same rows, solvers solve, factorisations multiply to the matrix,
\* and determinants and definiteness are those of the definitions
\* (dense_matrix.cpp).
MatricesExact == /\ Dense!EditsExact /\ Dense!EchelonExact
                 /\ Dense!SolutionsExact /\ Dense!ValuesExact
\* No factor is lost or found twice, those of one degree are set apart, and
\* whatever was drawn before, some draw splits what is left (gf_factor, gf_shoup,
\* gf_edf_zassenhaus); the single operations agree with their definitions (fields.h).
FactorsExact == /\ Field!ProductKept /\ Field!DegreesExact
                /\ Field!SomeDrawSplits /\ Field!PairExact
\* A matrix expression is the matrix that plain arithmetic gives, in canonical form
\* but for leaves merged of two and one conjugate, and what is said of it is true
\* (symengine/matrices).
SymbolicExact == Symbolic!SymbolicExact
\* Functions of multiples of pi, of signed arguments and of inverse functions keep
\* their value and end at one canonical form; angles are those of the numbers, but
\* for two entries of the table of sines (functions.cpp).
FunctionsExact == Elem!FunctionsExact
\* "sin(asin(x)) = x" (test_functions.cpp:256), for every number of the tables.
AnglesExact == Elem!AnglesExact
=============================================================================
