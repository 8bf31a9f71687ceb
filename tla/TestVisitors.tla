---------------------------- MODULE TestVisitors ----------------------------
(***************************************************************************)
(* The tests of expressions (test_visitors.cpp, test_visitors.h): one      *)
(* visitor per question, which walks the expression, asks the Assumptions  *)
(* for its symbols and answers true, false or indeterminate.  A definite   *)
(* answer must be right for every value the symbols can have.              *)
(*                                                                         *)
(* A visitor keeps its answer in a member that each visit overwrites; here *)
(* a visit returns it.  Inexact numbers do not occur.                      *)
(***************************************************************************)
EXTENDS Assumptions, Sequences

CONSTANTS Exprs         \* the expressions asked about

VARIABLES expr, answers

testVars == <<expr, answers>>

-----------------------------------------------------------------------------
(* Expressions.  The terms of an Add are pairs of a key and its coefficient, *)
(* those of a Mul of a base and its exponent, in any order: the dictionary   *)
(* of an Add is ordered by hashes.  A Pow has one such pair.                 *)

Node(sort, name, num, terms) == [sort |-> sort, name |-> name, num |-> num, terms |-> terms]
Exact(re, im) == [kind |-> "finite", re |-> re, im |-> im]
Inf == [kind |-> "infinite", re |-> 4, im |-> 0]
NaN == [kind |-> "nan", re |-> 0, im |-> 0]
Int0 == Exact(0, 0)
Int1 == Exact(4, 0)
Int2 == Exact(8, 0)
ImagUnit == Exact(0, 4)

Num(n) == Node("number", "", n, <<>>)
Sym(x) == Node("symbol", x, Int0, <<>>)
Const(c) == Node("constant", c, Int0, <<>>)
AddOf(coef, terms) == Node("add", "", coef, terms)
MulOf(coef, terms) == Node("mul", "", coef, terms)
PowOf(base, exp) == Node("pow", "", Int1, <<<<base, exp>>>>)
Fn(name, arg) == Node("function", name, Int0, <<<<arg, arg>>>>)
NotNumeric(name) == Node(name, "", Int0, <<>>)       \* a set, a relation or a Boolean
Foreign == {"set", "relational", "boolean"}

NumZero(n) == n.kind = "finite" /\ n.re = 0 /\ n.im = 0
NumPositive(n) == n.kind # "nan" /\ n.im = 0 /\ n.re > 0
NumNegative(n) == n.kind # "nan" /\ n.im = 0 /\ n.re < 0
NumComplex(n) == n.im # 0
NumInteger(n) == n.kind = "finite" /\ n.im = 0 /\ n.re % 4 = 0
Minus(n, o) == IF n.kind = "finite" THEN Exact(n.re - o.re, n.im - o.im) ELSE n

\* get_args of an Add and of a Mul: the coefficient, unless it is neutral,
\* and the terms put together.
Term(key, coef) ==
  IF coef = Int1 THEN key
  ELSE IF key.sort = "mul" THEN MulOf(coef, key.terms)
  ELSE IF key.sort = "pow" THEN MulOf(coef, key.terms)
  ELSE MulOf(coef, <<<<key, Num(Int1)>>>>)
Factor(base, exp) == IF exp = Num(Int1) THEN base ELSE PowOf(base, exp)
Args(e) ==
  IF e.sort = "add"
  THEN (IF NumZero(e.num) THEN <<>> ELSE <<Num(e.num)>>) \o
       [i \in DOMAIN e.terms |-> Term(e.terms[i][1], e.terms[i][2])]
  ELSE (IF e.num = Int1 THEN <<>> ELSE <<Num(e.num)>>) \o
       [i \in DOMAIN e.terms |-> Factor(e.terms[i][1], e.terms[i][2])]

\* sub(e, n), e a sum or no sum
Less(e, n) ==
  LET coef == Minus(e.num, n)
  IN CASE e.sort = "number" -> Num(coef)
       [] e.sort = "add" /\ NumZero(coef) /\ Len(e.terms) = 1 -> Term(e.terms[1][1], e.terms[1][2])
       [] e.sort = "add" /\ ~(NumZero(coef) /\ Len(e.terms) = 1) -> AddOf(coef, e.terms)
       [] OTHER -> AddOf(Minus(Int0, n), <<<<e, Int1>>>>)

\* div(e, 2); the factor 1/2 stays outside of a sum
HalfNum(n) == IF n.kind = "finite" THEN [n EXCEPT !.re = @ \div 2, !.im = @ \div 2] ELSE n
Half(e) ==
  CASE e.sort = "number" -> Num(HalfNum(e.num))
    [] e.sort = "mul" /\ e.num = Int2 /\ Len(e.terms) = 1 -> Factor(e.terms[1][1], e.terms[1][2])
    [] e.sort = "mul" /\ ~(e.num = Int2 /\ Len(e.terms) = 1) -> MulOf(HalfNum(e.num), e.terms)
    [] e.sort = "pow" -> MulOf(HalfNum(Int1), e.terms)
    [] OTHER -> MulOf(HalfNum(Int1), <<<<e, Num(Int1)>>>>)

-----------------------------------------------------------------------------
(* Three-valued connectives (tribool.h). *)

Not(a) == CASE a = "true" -> "false" [] a = "false" -> "true" [] OTHER -> a

\* What the visitors answer for a symbol; without assumptions, nothing.
NoFacts == [sorts |-> [x \in Symbols |-> {}], known |-> [x \in Symbols |-> Nothing]]
Facts == [sorts |-> sorts, known |-> known]
InSort(x, set, a) == IF set \in a.sorts[x] THEN "true" ELSE "indeterminate"

-----------------------------------------------------------------------------
(* Signs: NegativeVisitor, NonNegativeVisitor, NonPositiveVisitor,         *)
(* PositiveVisitor, ZeroVisitor.                                           *)

NegativeTest(e, a) ==
  CASE e.sort \in Foreign -> "error"
    [] e.sort = "constant" -> "false"
    [] e.sort = "symbol" -> a.known[e.name]["negative"]
    [] e.sort = "number" -> Truth(NumNegative(e.num))
    [] OTHER -> "indeterminate"

NonNegativeTest(e, a) ==
  CASE e.sort \in Foreign -> "error"
    [] e.sort = "constant" -> "true"
    [] e.sort = "symbol" -> a.known[e.name]["nonnegative"]
    [] e.sort = "number" -> Truth(~NumComplex(e.num) /\ ~NumNegative(e.num))
    [] OTHER -> "indeterminate"

NonPositiveTest(e, a) ==
  CASE e.sort \in Foreign -> "error"
    [] e.sort = "constant" -> "false"
    [] e.sort = "symbol" -> a.known[e.name]["nonpositive"]
    [] e.sort = "number" -> Truth(~NumComplex(e.num) /\ ~NumPositive(e.num))
    [] OTHER -> "indeterminate"

\* A sum is positive if all its terms are, and is not if all are negative;
\* only is_positive looks into sums, the signs of its keys come from the others.
RECURSIVE PositiveTest(_, _)
PositiveTest(e, a) ==
  LET signs == {<<t[2], PositiveTest(t[1], a), NegativeTest(t[1], a)>> :
                t \in {e.terms[i] : i \in DOMAIN e.terms}}
      up(s) == (NumPositive(s[1]) /\ s[2] = "true") \/ (NumNegative(s[1]) /\ s[3] = "true")
      down(s) == (NumNegative(s[1]) /\ s[2] = "true") \/ (NumPositive(s[1]) /\ s[3] = "true")
  IN CASE e.sort \in Foreign -> "error"
       [] e.sort = "constant" -> "true"
       [] e.sort = "symbol" -> a.known[e.name]["positive"]
       [] e.sort = "number" -> Truth(NumPositive(e.num))
       [] e.sort = "add" -> IF ~NumNegative(e.num) /\ \A s \in signs : up(s) THEN "true"
                            ELSE IF ~NumPositive(e.num) /\ \A s \in signs : down(s) /\ ~up(s) THEN "false"
                            ELSE "indeterminate"
       [] OTHER -> "indeterminate"

RECURSIVE ZeroTest(_, _)
ZeroTest(e, a) ==
  CASE e.sort \in Foreign -> "error"
    [] e.sort = "constant" -> "false"
    [] e.sort = "symbol" -> a.known[e.name]["zero"]
    [] e.sort = "number" -> Truth(NumZero(e.num))
    [] e.sort = "function" /\ e.name \in {"abs", "conjugate", "sign"} -> ZeroTest(e.terms[1][1], a)
    [] e.sort = "function" /\ e.name = "primepi" -> NegativeTest(Less(e.terms[1][1], Int2), NoFacts)
    [] OTHER -> "indeterminate"

-----------------------------------------------------------------------------
(* Sets of numbers: IntegerVisitor, RealVisitor, ComplexVisitor,           *)
(* FiniteVisitor.                                                          *)

KnownConstants == {"pi", "E", "EulerGamma", "Catalan", "GoldenRatio"}

RECURSIVE IntegerTest(_, _)
IntegerTest(e, a) ==
  CASE e.sort \in Foreign -> "false"
    [] e.sort = "number" -> Truth(NumInteger(e.num))
    [] e.sort = "symbol" -> InSort(e.name, "integer", a)
    [] e.sort = "constant" -> IF e.name \in KnownConstants THEN "false" ELSE "indeterminate"
    [] e.sort \in {"add", "mul"} ->
         IF \A i \in DOMAIN Args(e) : IntegerTest(Args(e)[i], a) = "true"
         THEN "true" ELSE "indeterminate"
    [] e.sort = "function" /\ e.name = "conjugate" -> IntegerTest(e.terms[1][1], a)
    [] e.sort = "function" /\ e.name = "kronecker_delta" -> "true"
    [] OTHER -> "indeterminate"

RECURSIVE ComplexTest(_, _), ComplexPower(_, _, _), FirstNotTrue(_)

\* The first answer that is not true, and true if there is none.
FirstNotTrue(s) == IF s = <<>> THEN "true"
                   ELSE IF Head(s) = "true" THEN FirstNotTrue(Tail(s)) ELSE Head(s)

ComplexPower(base, exp, a) ==
  IF ComplexTest(base, a) = "true" THEN ComplexTest(exp, a) ELSE ComplexTest(base, a)

\* complex_arg_not_zero: the zero test has no assumptions.
NotZero(e, zero, a) ==
  IF ComplexTest(e, a) = "true" /\ zero # "false" THEN Not(zero) ELSE ComplexTest(e, a)
\* complex_arg_not_pm
NotPlusMinus(e, n, a) ==
  LET plus == ZeroTest(Less(e, n), NoFacts)
      minus == ZeroTest(Less(e, Minus(Int0, n)), NoFacts)
  IN IF ComplexTest(e, a) # "true" THEN ComplexTest(e, a)
     ELSE IF plus # "false" THEN Not(plus) ELSE Not(minus)

Entire == {"cos", "sin", "asin", "acos", "sinh", "cosh", "sign", "floor", "ceiling", "abs", "conjugate"}
Trigonometric == {"tan", "cot", "sec", "csc"}      \* the other of sin and cos must not be zero
PoleAtZero == {"log", "asec", "asech", "acsc", "acsch"}

ComplexTest(e, a) ==
  LET arg == e.terms[1][1]
  IN CASE e.sort \in Foreign -> "false"
       [] e.sort = "number" -> Truth(e.num.kind = "finite")
       [] e.sort = "symbol" -> InSort(e.name, "complex", a)
       [] e.sort = "constant" -> "true"
       [] e.sort = "add" -> FirstNotTrue([i \in DOMAIN Args(e) |-> ComplexTest(Args(e)[i], a)])
       [] e.sort \in {"mul", "pow"} ->
            FirstNotTrue([i \in DOMAIN e.terms |-> ComplexPower(e.terms[i][1], e.terms[i][2], a)])
       [] e.sort = "function" /\ e.name \in Entire -> ComplexTest(arg, a)
       [] e.sort = "function" /\ e.name \in PoleAtZero -> NotZero(arg, ZeroTest(arg, NoFacts), a)
       \* sin(arg) and cos(arg) are functions, or arg would not have this one
       [] e.sort = "function" /\ e.name \in Trigonometric ->
            NotZero(arg, ZeroTest(Fn("cos", arg), NoFacts), a)
       [] e.sort = "function" /\ e.name \in {"atan", "acot"} -> NotPlusMinus(arg, ImagUnit, a)
       [] e.sort = "function" /\ e.name \in {"atanh", "acoth"} -> NotPlusMinus(arg, Int1, a)
       [] e.sort = "function" /\ e.name = "kronecker_delta" -> "true"
       [] OTHER -> "indeterminate"

RECURSIVE RealTest(_, _), RealPower(_, _, _)

\* Of any base, not only one that is not negative.
RealPowerAnyBase(base, exp, a) ==
  IF RealTest(base, a) = "true" /\ RealTest(exp, a) = "true" THEN "true" ELSE "indeterminate"

RealPower(base, exp, a) ==
  LET real == RealTest(base, a)
  IN IF ZeroTest(exp, a) = "true" THEN "true"
     ELSE IF real = "true"
     THEN IF IntegerTest(exp, a) = "true" THEN "true"
          ELSE IF NonNegativeTest(base, a) = "true" /\ RealTest(exp, a) # "false" THEN RealTest(exp, a)
          ELSE "indeterminate"
     ELSE IF real = "false" /\ ComplexTest(base, a) = "true" /\ ZeroTest(Less(exp, Int1), a) = "true"
     THEN "false"
     ELSE "indeterminate"

RealTest(e, a) ==
  LET powers == {<<i, RealPower(e.terms[i][1], e.terms[i][2], a)>> : i \in DOMAIN e.terms}
      nonReal == Cardinality({p \in powers : p[2] = "false"}) + (IF NumComplex(e.num) THEN 1 ELSE 0)
  IN CASE e.sort \in Foreign -> "false"
       [] e.sort = "number" -> Truth(e.num.kind = "finite" /\ ~NumComplex(e.num))
       [] e.sort = "symbol" -> InSort(e.name, "real", a)
       [] e.sort = "constant" -> IF e.name \in KnownConstants THEN "true" ELSE "indeterminate"
       [] e.sort = "add" ->
            LET terms == {RealTest(Args(e)[i], a) : i \in DOMAIN Args(e)}
            IN IF "indeterminate" \in terms THEN "indeterminate" ELSE Truth("false" \notin terms)
       [] e.sort = "mul" ->
            IF nonReal > 1 \/ \E p \in powers : p[2] = "indeterminate" THEN "indeterminate"
            ELSE Truth(nonReal = 0)
       [] e.sort = "pow" -> RealPower(e.terms[1][1], e.terms[1][2], a)
       [] OTHER -> "indeterminate"

FiniteTest(e, a) ==
  CASE e.sort \in Foreign \/ (e.sort = "number" /\ e.num.kind = "nan") -> "error"
    [] e.sort = "constant" -> "true"
    [] e.sort = "symbol" -> InSort(e.name, "complex", a)
    [] e.sort = "number" /\ e.num.kind # "nan" -> Truth(e.num.kind = "finite")
    [] OTHER -> "indeterminate"

-----------------------------------------------------------------------------
(* Kinds of numbers: RationalVisitor, AlgebraicVisitor, is_even, is_odd.   *)

RECURSIVE RationalAnswer(_)
RationalAnswer(e) ==
  LET args == [i \in DOMAIN Args(e) |-> RationalAnswer(Args(e)[i])]
  IN CASE e.sort \in Foreign -> "false"
       [] e.sort = "number" -> Truth(e.num.kind = "finite" /\ ~NumComplex(e.num))
       [] e.sort = "constant" -> IF e.name \in {"pi", "E", "GoldenRatio"} THEN "false" ELSE "indeterminate"
       \* the answer for the last term is left
       [] e.sort = "add" -> IF \E i \in DOMAIN args : args[i] = "indeterminate"
                            THEN "indeterminate" ELSE args[Len(args)]
       [] OTHER -> "indeterminate"

\* neither_, set by the numbers that are not real
Neither(e) == \/ e.sort \in Foreign
              \/ e.sort \in {"number", "add"} /\ (NumComplex(e.num) \/ e.num.kind # "finite")

RationalTest(e) == RationalAnswer(e)
\* Without neither_.
IrrationalTestReal(e) == Not(RationalAnswer(e))
IrrationalTest(e) == IF Neither(e) THEN RationalAnswer(e) ELSE Not(RationalAnswer(e))

Transcendent == {"sin", "cos", "tan", "cot", "sec", "csc", "sinh", "cosh", "tanh", "coth",
                 "sech", "csch", "lambertw"}

RECURSIVE AlgebraicTest(_, _)
AlgebraicTest(e, a) ==
  LET parts == [i \in DOMAIN Args(e) |-> AlgebraicTest(Args(e)[i], a)]
      transcendental == Cardinality({i \in DOMAIN parts : parts[i] = "false"})
      arg == e.terms[1][1]
  IN CASE e.sort \in Foreign -> "error"
       [] e.sort = "number" -> IF e.num.kind = "finite" /\ ~NumComplex(e.num) THEN "true" ELSE "indeterminate"
       [] e.sort = "symbol" -> InSort(e.name, "rational", a)
       [] e.sort = "constant" -> CASE e.name \in {"pi", "E"} -> "false"
                                   [] e.name = "GoldenRatio" -> "true"
                                   [] OTHER -> "indeterminate"
       [] e.sort = "add" -> IF transcendental > 1 \/ \E i \in DOMAIN parts : parts[i] = "indeterminate"
                            THEN "indeterminate" ELSE Truth(transcendental = 0)
       [] e.sort = "function" /\ e.name \in Transcendent ->
            IF AlgebraicTest(arg, a) = "true" /\ Not(ZeroTest(arg, NoFacts)) = "true"
            THEN "false" ELSE "indeterminate"
       [] OTHER -> "indeterminate"

EvenTest(e, a) == IntegerTest(Half(e), a)
OddTest(e, a) == IntegerTest(Half(Less(e, Minus(Int0, Int1))), a)

-----------------------------------------------------------------------------
(* PolynomialVisitor.  allowed is variables_allowed_, which is taken back   *)
(* while exponents, bases and arguments of functions are visited.           *)

RECURSIVE PolynomialTest(_, _, _), PolynomialPower(_, _, _, _)

\* Without asking for the sign of the exponent.
PolynomialPowerAnySign(base, exp, variables, allowed) ==
  IF allowed /\ exp.sort = "number" /\ NumInteger(exp.num)
  THEN PolynomialTest(base, variables, TRUE)
  ELSE PolynomialTest(exp, variables, FALSE) /\ PolynomialTest(base, variables, FALSE)

PolynomialPower(base, exp, variables, allowed) ==
  /\ PolynomialTest(exp, variables, FALSE)
  /\ \/ PolynomialTest(base, variables, FALSE)
     \/ /\ allowed /\ PolynomialTest(base, variables, TRUE)
        /\ exp.sort = "number" /\ NumInteger(exp.num) /\ NumPositive(exp.num)

PolynomialTest(e, variables, allowed) ==
  CASE e.sort \in {"set", "relational"} -> FALSE
    [] e.sort = "symbol" -> allowed \/ (variables # {} /\ e.name \notin variables)
    [] e.sort = "add" -> \A i \in DOMAIN Args(e) : PolynomialTest(Args(e)[i], variables, allowed)
    [] e.sort \in {"mul", "pow"} ->
         \A i \in DOMAIN e.terms : PolynomialPower(e.terms[i][1], e.terms[i][2], variables, allowed)
    [] e.sort = "function" -> PolynomialTest(e.terms[1][1], variables, FALSE)
    [] OTHER -> TRUE

-----------------------------------------------------------------------------
(* The object is made, then an expression is asked about. *)

NoExpr == NotNumeric("none")
NoAnswers == [test \in {} |-> "indeterminate"]

TestInit == Init /\ expr = NoExpr /\ answers = NoAnswers

Answers(e, a) ==
  [positive |-> PositiveTest(e, a), negative |-> NegativeTest(e, a),
   nonnegative |-> NonNegativeTest(e, a), nonpositive |-> NonPositiveTest(e, a),
   zero |-> ZeroTest(e, a), integer |-> IntegerTest(e, a), real |-> RealTest(e, a),
   complex |-> ComplexTest(e, a), finite |-> FiniteTest(e, a),
   even |-> EvenTest(e, a), odd |-> OddTest(e, a),
   rational |-> RationalTest(e), irrational |-> IrrationalTest(e), algebraic |-> AlgebraicTest(e, a),
   polynomial |-> {S \in SUBSET Symbols : PolynomialTest(e, S, TRUE)}]

Ask(e) ==
  /\ left = {} /\ ~thrown /\ expr = NoExpr
  /\ expr' = e /\ answers' = Answers(e, Facts)
  /\ UNCHANGED vars

TestNext == (Next /\ UNCHANGED testVars) \/ \E e \in Exprs : Ask(e)

TestSpec == TestInit /\ [][TestNext]_<<vars, testVars>>

-----------------------------------------------------------------------------
(* The value of an expression where the symbols have the values of env: a   *)
(* complex number (re + im * i) / den, an infinity, "some" finite number    *)
(* that is not computed, a "pole", or "none".                               *)

Value(kind, re, im, den) == [kind |-> kind, re |-> re, im |-> im, den |-> den]
Finite(re, im, den) == Value("finite", re, im, den)
Some == Value("some", 0, 0, 1)
Pole == Value("pole", 0, 0, 1)
None == Value("none", 0, 0, 1)

RECURSIVE Reduced(_)
Reduced(v) == IF v.re % 2 = 0 /\ v.im % 2 = 0 /\ v.den % 2 = 0
              THEN Reduced(Finite(v.re \div 2, v.im \div 2, v.den \div 2)) ELSE v

\* how kinds combine when they are not all finite
Mixed(v, w) == IF {v.kind, w.kind} \subseteq {"finite", "some"} THEN Some
               ELSE IF {v.kind, w.kind} \in {{"finite", "infinite"}, {"some", "infinite"}}
               THEN Value("infinite", 0, 0, 1) ELSE None

PlusValue(v, w) ==
  IF v.kind = "finite" /\ w.kind = "finite"
  THEN Reduced(Finite(v.re * w.den + w.re * v.den, v.im * w.den + w.im * v.den, v.den * w.den))
  ELSE Mixed(v, w)

TimesValue(v, w) ==
  IF v.kind = "finite" /\ w.kind = "finite"
  THEN Reduced(Finite(v.re * w.re - v.im * w.im, v.re * w.im + v.im * w.re, v.den * w.den))
  ELSE IF {v.kind, w.kind} \subseteq {"finite", "some"} THEN Some ELSE None

ZeroValue(v) == v.kind = "finite" /\ v.re = 0 /\ v.im = 0
RealValue(v) == v.kind = "finite" /\ v.im = 0
IntegerValue(v) == RealValue(v) /\ v.re % v.den = 0
OneOver(v) == Reduced(Finite(v.re * v.den, -v.im * v.den, v.re * v.re + v.im * v.im))

\* Squares of numbers that have one, for the exponent 1/2.
SquareRoots(v) == {r \in 0 .. 8 : r * r * v.den = 16 * (IF v.re < 0 THEN -v.re ELSE v.re)}

PowerValue(b, e) ==
  CASE b.kind = "finite" /\ ZeroValue(e) -> Finite(1, 0, 1)
    [] b.kind = "finite" /\ e = Finite(1, 0, 1) -> b
    [] b.kind = "finite" /\ e = Finite(2, 0, 1) -> TimesValue(b, b)
    [] b.kind = "finite" /\ e = Finite(-1, 0, 1) -> IF ZeroValue(b) THEN None ELSE OneOver(b)
    [] b.kind = "finite" /\ e = Finite(1, 0, 2) /\ RealValue(b) /\ SquareRoots(b) # {} ->
         LET r == CHOOSE r \in SquareRoots(b) : TRUE
         IN Reduced(IF b.re < 0 THEN Finite(0, r, 4) ELSE Finite(r, 0, 4))
    [] OTHER -> None

OfNumber(n) == IF n.kind = "finite" THEN Reduced(Finite(n.re, n.im, 4)) ELSE Value(n.kind, n.re, n.im, 1)

\* The functions have poles where they do; elsewhere only Abs, Conjugate, Sign and
\* PrimePi are computed.
AtPole(name, v) ==
  \/ name \in PoleAtZero /\ ZeroValue(v)
  \/ name \in {"atan", "acot"} /\ v \in {Finite(0, 1, 1), Finite(0, -1, 1)}
  \/ name \in {"atanh", "acoth"} /\ v \in {Finite(1, 0, 1), Finite(-1, 0, 1)}
SignOf(n) == IF n > 0 THEN 1 ELSE IF n < 0 THEN -1 ELSE 0
PrimesUpto(n) == Cardinality({p \in 2 .. n : \A d \in 2 .. (p - 1) : p % d # 0})
FunctionValue(name, v) ==
  CASE v.kind = "finite" /\ name = "conjugate" -> Finite(v.re, -v.im, v.den)
    [] RealValue(v) /\ name = "abs" -> Finite(SignOf(v.re) * v.re, 0, v.den)
    [] RealValue(v) /\ name = "sign" -> Finite(SignOf(v.re), 0, 1)
    [] RealValue(v) /\ name = "primepi" -> Finite(PrimesUpto(v.re \div v.den), 0, 1)
    [] AtPole(name, v) -> Pole
    [] name = "kronecker_delta" -> Finite(1, 0, 1)
    [] name \in Trigonometric \cup {"primepi", "user"} -> None
    [] OTHER -> IF v.kind \in {"finite", "some"} THEN Some ELSE None

RECURSIVE ValueOf(_, _), SumOfTerms(_, _), ProductOfTerms(_, _)
SumOfTerms(terms, env) ==
  IF terms = <<>> THEN Finite(0, 0, 1)
  ELSE PlusValue(TimesValue(OfNumber(Head(terms)[2]), ValueOf(Head(terms)[1], env)),
                 SumOfTerms(Tail(terms), env))
ProductOfTerms(terms, env) ==
  IF terms = <<>> THEN Finite(1, 0, 1)
  ELSE TimesValue(PowerValue(ValueOf(Head(terms)[1], env), ValueOf(Head(terms)[2], env)),
                  ProductOfTerms(Tail(terms), env))
\* A constant is some positive number that is no integer.
ValueOf(e, env) ==
  CASE e.sort = "number" -> OfNumber(e.num)
    [] e.sort = "symbol" -> Reduced(Finite(env[e.name].re, env[e.name].im, 4))
    [] e.sort = "constant" -> Finite(25, 0, 8)
    [] e.sort = "add" -> PlusValue(OfNumber(e.num), SumOfTerms(e.terms, env))
    [] e.sort \in {"mul", "pow"} -> TimesValue(OfNumber(e.num), ProductOfTerms(e.terms, env))
    [] e.sort = "function" -> FunctionValue(e.name, ValueOf(e.terms[1][1], env))
    [] OTHER -> None

\* Is v what the test asks for?
Passes(test, v) ==
  CASE test = "positive" -> RealValue(v) /\ v.re > 0
    [] test = "negative" -> RealValue(v) /\ v.re < 0
    [] test = "nonnegative" -> RealValue(v) /\ v.re >= 0
    [] test = "nonpositive" -> RealValue(v) /\ v.re <= 0
    [] test = "zero" -> ZeroValue(v)
    [] test = "integer" -> IntegerValue(v)
    [] test = "real" -> RealValue(v)
    [] test = "even" -> RealValue(v) /\ v.re % (2 * v.den) = 0
    [] test = "odd" -> IntegerValue(v) /\ (v.re \div v.den) % 2 = 1
    [] OTHER -> v.kind \in {"finite", "some"}          \* complex, finite

NumberTests == {"positive", "negative", "nonnegative", "nonpositive", "zero", "integer", "real",
                "complex", "finite", "even", "odd"}

\* where v tells whether it passes
Tells(test, v) == v.kind = "finite" \/ (test \in {"complex", "finite"} /\ v.kind # "none" /\ v.kind # "nan")

Envs == {env \in [Symbols -> Values] : \A x \in Symbols : Possible(given, x, env[x])}

Coherent(test, v) ==
  Tells(test, v) => /\ answers[test] = "true" => Passes(test, v)
                    /\ answers[test] = "false" => ~Passes(test, v)

\* Not claimed: that a sum is not positive or is, if a coefficient is complex (see
\* PositiveSound), and that an expression is not real where one of its parts is zero
\* or when two parts of a sum are not real.
ComplexCoefficient(e) ==
  e.sort = "add" /\ (NumComplex(e.num) \/ \E i \in DOMAIN e.terms : NumComplex(e.terms[i][2]))
NotClaimed(test, env) ==
  \/ test = "positive" /\ ComplexCoefficient(expr)
  \/ /\ test = "real" /\ answers[test] = "false" /\ expr.sort \in {"add", "mul"}
     /\ \/ \E i \in DOMAIN Args(expr) : ZeroValue(ValueOf(Args(expr)[i], env))
        \/ expr.sort = "add" /\ \E i, j \in DOMAIN Args(expr) :
             i < j /\ {RealTest(Args(expr)[k], Facts) : k \in {i, j}} = {"false"}

\* Definite answers about the sign, the integers, the reals and finiteness are
\* right for all values that the statements leave the symbols
\* (test_visitors.cpp, with what Assumptions collected).
AnswersSound ==
  expr # NoExpr =>
    \A env \in Envs :
      LET v == ValueOf(expr, env)
      IN \A test \in NumberTests : NotClaimed(test, env) \/ Coherent(test, v)

\* The same of is_positive alone, and of every sum: "True if all are positive"
\* (test_visitors.cpp:146).
PositiveSound == expr # NoExpr => \A env \in Envs : Coherent("positive", ValueOf(expr, env))

-----------------------------------------------------------------------------
(* The kinds of number an expression can be: zero, another rational number,  *)
(* irrational and algebraic, transcendental, or not real.                    *)

RealKinds == {"zero", "rational", "algebraic", "transcendental"}
AllKinds == RealKinds \cup {"not real"}

KindOf(v) == IF ~RealValue(v) THEN "not real" ELSE IF ZeroValue(v) THEN "zero" ELSE "rational"

\* Sums and rational multiples of numbers of known kinds.
SumKinds(j, k) ==
  CASE "zero" \in {j, k} -> {j, k} \ (IF j = k THEN {} ELSE {"zero"})
    [] j = "not real" /\ k = "not real" -> AllKinds
    [] j # k /\ "not real" \in {j, k} -> {"not real"}
    [] j # k /\ "transcendental" \in {j, k} -> {"transcendental"}
    [] j # k /\ {j, k} = {"rational", "algebraic"} -> {"algebraic"}
    [] j = "rational" /\ k = "rational" -> {"zero", "rational"}
    [] j = "algebraic" /\ k = "algebraic" -> {"zero", "rational", "algebraic"}
    [] OTHER -> RealKinds
MultipleKinds(n, k) ==
  IF NumZero(n) \/ k = "zero" THEN {"zero"}
  ELSE IF ~NumComplex(n) THEN {k}
  ELSE IF k = "not real" THEN AllKinds \ {"zero"} ELSE {"not real"}

RECURSIVE Kinds(_, _), KindsOfTerms(_, _)
KindsOfTerms(terms, env) ==
  IF terms = <<>> THEN {"zero"}
  ELSE UNION {SumKinds(j, k) : j \in UNION {MultipleKinds(Head(terms)[2], l) : l \in Kinds(Head(terms)[1], env)},
                               k \in KindsOfTerms(Tail(terms), env)}
Kinds(e, env) ==
  CASE e.sort \in Foreign -> {}
    [] e.sort = "number" -> {KindOf(OfNumber(e.num))}
    [] e.sort = "symbol" ->
         IF IsReal(env[e.name]) /\ env[e.name].re % 2 # 0 THEN {"algebraic", "transcendental"}
         ELSE {KindOf(OfNumber(Exact(env[e.name].re, env[e.name].im)))}
    [] e.sort = "constant" -> CASE e.name \in {"pi", "E"} -> {"transcendental"}
                                [] e.name = "GoldenRatio" -> {"algebraic"}
                                [] OTHER -> {"rational", "algebraic", "transcendental"}
    [] e.sort = "add" -> UNION {SumKinds(KindOf(OfNumber(e.num)), k) : k \in KindsOfTerms(e.terms, env)}
    [] e.sort = "function" /\ e.name \in Transcendent ->
         IF Kinds(e.terms[1][1], env) \subseteq {"rational", "algebraic"} THEN {"transcendental"} ELSE AllKinds
    [] OTHER -> AllKinds

\* Definite answers of is_rational, is_irrational and is_algebraic are right for
\* every kind of number the expression can be (test_visitors.cpp, test_visitors.h).
\* Not claimed: that a sum of two irrational constants is irrational.
IrrationalSum == /\ expr.sort = "add"
                 /\ Cardinality({i \in DOMAIN expr.terms : expr.terms[i][1].sort = "constant"}) > 1
KindsSound ==
  expr # NoExpr =>
    \A env \in Envs : \A k \in Kinds(expr, env) :
      /\ \/ IrrationalSum
         \/ /\ answers["rational"] = "true" => k \in {"zero", "rational"}
            /\ answers["rational"] = "false" => k \notin {"zero", "rational"}
            /\ answers["irrational"] = "true" => k \in {"algebraic", "transcendental"}
            /\ answers["irrational"] = "false" => k \notin {"algebraic", "transcendental"}
      /\ answers["algebraic"] = "true" => k \notin {"transcendental", "not real"}
      /\ answers["algebraic"] = "false" => k \notin {"zero", "rational", "algebraic"}

-----------------------------------------------------------------------------
(* Polynomials: symbols, expressions without the symbols, and sums, products *)
(* and positive powers of polynomials.                                       *)

RECURSIVE SymbolsIn(_)
SymbolsIn(e) ==
  (IF e.sort = "symbol" THEN {e.name} ELSE {})
  \cup UNION {SymbolsIn(e.terms[i][1]) : i \in DOMAIN e.terms}
  \cup (IF e.sort \in {"mul", "pow"} THEN UNION {SymbolsIn(e.terms[i][2]) : i \in DOMAIN e.terms} ELSE {})

RECURSIVE Polynomial(_, _)
Polynomial(e, S) ==
  \/ SymbolsIn(e) \cap S = {}
  \/ e.sort = "symbol"
  \/ e.sort = "add" /\ \A i \in DOMAIN e.terms : Polynomial(e.terms[i][1], S)
  \/ e.sort \in {"mul", "pow"} /\ \A i \in DOMAIN e.terms :
       \/ SymbolsIn(Factor(e.terms[i][1], e.terms[i][2])) \cap S = {}
       \/ /\ Polynomial(e.terms[i][1], S)
          /\ \E n \in 1 .. 8 : e.terms[i][2] = Num(Exact(4 * n, 0))

\* is_polynomial says of every expression and set of symbols whether the
\* expression is a polynomial in them; the empty set stands for all symbols.
PolynomialExact ==
  expr # NoExpr =>
    \A S \in SUBSET Symbols :
      (S \in answers["polynomial"]) <=>
        /\ expr.sort \notin {"set", "relational"}
        /\ Polynomial(expr, IF S = {} THEN Symbols ELSE S)
=============================================================================
