---------------------------- MODULE MCExpressions ----------------------------
(***************************************************************************)
(* Expressions over two symbols and the small rationals.                   *)
(***************************************************************************)
EXTENDS Expansion

x == Symbol("x")
y == Symbol("y")
Half == Number(<<1, 2>>)

\* Written as nodes: the operations are what is checked.
SumOfTwo(a, b) == SumNode(<<0, 1>>, a :> one @@ b :> one)

\* (x + y)^2 - x^2 - y^2, which is 2xy
Square(e) == PowerNode(e, Whole(2))
Mixed == SumNode(<<0, 1>>, Square(SumOfTwo(x, y)) :> one @@ Square(x) :> Whole(-1) @@ Square(y) :> Whole(-1))
MCMixed == {Mixed}

MCStarts == {x, Whole(2), ProductNode(<<-3, 1>>, x :> one), SumOfTwo(x, y), PowerNode(Whole(2), y)}

MCOperands == {Whole(2), Number(<<1, 3>>), x, ProductNode(<<2, 1>>, x :> one),
               SumNode(<<1, 1>>, x :> one), SumOfTwo(x, y),
               ProductNode(<<-1, 1>>, x :> one @@ y :> one),
               PowerNode(x, y), PowerNode(x, Half), PowerNode(Whole(2), Half), PowerNode(Whole(2), y)}

MCExponents == {Whole(2), Whole(-1), Half, Number(<<-1, 2>>), y}

MCValuations == {[s \in {"x", "y"} |-> IF s = "x" THEN 2 ELSE 9],
                 [s \in {"x", "y"} |-> IF s = "x" THEN 13 ELSE 27],
                 [s \in {"x", "y"} |-> IF s = "x" THEN 26 ELSE 12]}
MCNext == Next \/ CallExpand
MCSpec == Init /\ [][MCNext]_vars
=============================================================================
