------------------------------ MODULE MCTests ------------------------------
(***************************************************************************)
(* Statements of every kind, most of them about x; values on both sides of *)
(* every bound; and expressions on which each visitor has a rule.          *)
(***************************************************************************)
EXTENDS TestVisitors

Real(quarters) == [re |-> quarters, im |-> 0]
MCSymbols == {"x", "y"}
MCValues == {Real(q) : q \in {-8, -4, 0, 1, 2, 4, 8}} \cup {[re |-> 0, im |-> 4]}

About(x, rel, first, quarters, set) ==
  [rel |-> rel, symbol |-> x, first |-> first, number |-> Real(quarters), set |-> set]
MCStatements ==
    {About("x", "contains", TRUE, 0, set) : set \in Sorts \cup {"other"}}
    \cup {About("x", rel, first, q, "other") : rel \in {"le", "lt"}, first \in BOOLEAN, q \in {-4, 0, 4}}
    \cup {About("x", rel, FALSE, q, "other") : rel \in {"eq", "ne"}, q \in {0, 4}}
    \cup {About("x", "eq", TRUE, 0, "other")}
    \cup {About("y", "contains", TRUE, 0, "integer"), About("y", "contains", TRUE, 0, "rational"),
          About("y", "lt", FALSE, 0, "other"), About("y", "lt", TRUE, 0, "other"),
          About("y", "eq", FALSE, 0, "other")}

x == Sym("x")
y == Sym("y")
Pi == Const("pi")
One == Num(Int1)
IntMinus1 == Exact(-4, 0)
Third == Exact(-6, 0)       \* -3/2
Root == Num(Exact(2, 0))    \* the exponent 1/2

Numbers == {Num(n) : n \in {Int0, Int1, Int2, IntMinus1, Third, ImagUnit, Exact(4, 4), Inf, NaN}}
Constants == {Const(c) : c \in KnownConstants \cup {"c"}}
Sums ==
    {AddOf(n, <<<<x, c>>>>) : n \in {Int1, IntMinus1, Exact(2, 0), ImagUnit}, c \in {Int1, IntMinus1, Int2, ImagUnit}}
    \cup {AddOf(n, <<<<x, c>>, <<y, d>>>>) : n \in {Int0, Int1}, c \in {Int1, IntMinus1}, d \in {Int1, Int2}}
    \cup {AddOf(n, <<<<k, Int1>>>>) : n \in {Int1, ImagUnit}, k \in {Pi, Const("GoldenRatio"), Const("Catalan")}}
    \cup {AddOf(Int0, <<<<Pi, Int1>>, <<k, Int1>>>>) : k \in {Const("E"), Const("GoldenRatio"), x}}
    \cup {AddOf(Int0, <<<<x, ImagUnit>>, <<PowOf(x, Num(Int2)), c>>>>) : c \in {Int1, ImagUnit}}
    \cup {AddOf(Int1, <<<<Fn("sin", One), Int1>>>>), AddOf(Int0, <<<<Fn("sin", x), Int1>>, <<Pi, Int1>>>>)}
Products ==
    {MulOf(n, <<<<x, One>>>>) : n \in {Int2, IntMinus1, Exact(2, 0), ImagUnit}}
    \cup {MulOf(Int1, <<<<x, One>>, <<y, e>>>>) : e \in {One, Num(IntMinus1), Num(Int2), Root, x}}
    \cup {MulOf(Int2, <<<<AddOf(Int1, <<<<x, Int1>>>>), One>>>>), MulOf(Int2, <<<<Pi, One>>>>),
          MulOf(ImagUnit, <<<<AddOf(Int0, <<<<x, Int1>>, <<y, Int1>>>>), One>>>>),
          MulOf(Int1, <<<<AddOf(ImagUnit, <<<<x, Int1>>>>), One>>, <<y, One>>>>)}
Powers ==
    {PowOf(x, e) : e \in {Num(Int2), Num(IntMinus1), Root, y, AddOf(Int1, <<<<y, Int1>>>>)}}
    \cup {PowOf(b, y) : b \in {Num(Int2), Num(ImagUnit), Pi, AddOf(ImagUnit, <<<<x, Int1>>>>)}}
    \cup {PowOf(AddOf(Int1, <<<<x, Int1>>>>), Num(Int2)), PowOf(Fn("sin", x), Num(Int2))}
Functions ==
    {Fn(name, x) : name \in Entire \cup Trigonometric \cup PoleAtZero
                           \cup {"atan", "acot", "atanh", "acoth", "lambertw", "kronecker_delta", "user"}}
    \cup {Fn(name, One) : name \in {"sin", "cosh", "lambertw", "tan", "atan", "atanh", "acoth"}}
    \cup {Fn("log", y), Fn("log", Pi), Fn("log", Fn("abs", x)), Fn("atan", Num(ImagUnit)),
          Fn("atanh", Num(Int2)), Fn("primepi", AddOf(Int2, <<<<x, Int1>>>>)), Fn("primepi", x),
          Fn("abs", Fn("sin", x)), Fn("conjugate", AddOf(ImagUnit, <<<<x, Int1>>>>)),
          Fn("sinh", y), Fn("log", Fn("primepi", AddOf(Int2, <<<<Pi, Int1>>>>)))}

MCExprs == {x} \cup Numbers \cup Constants \cup Sums \cup Products \cup Powers \cup Functions
           \cup {NotNumeric(sort) : sort \in Foreign}
=============================================================================
