----------------------------- MODULE MCAnswers -----------------------------
(***************************************************************************)
(* What is answered with true, false or nothing: a behaviour is a set of   *)
(* assumptions with a question under it (MCTests), a chain of operations   *)
(* on sets, or a computation of a formula; the others have nothing to do.  *)
(*                                                                         *)
(* The operands are every named set, and intervals and finite sets that    *)
(* meet, touch, nest and lie apart; the formulas are comparisons and       *)
(* memberships that exclude, imply and leave open one another.             *)
(***************************************************************************)
EXTENDS MCTests

CONSTANTS Width, Depth, Stack, Highest, Length

VARIABLES set, members, depth, formula, truth, cases, outcome, ascending, length

askVars == <<vars, testVars>>
setVars == <<set, members, depth>>
logicVars == <<formula, truth, cases, outcome, ascending, length>>

S == INSTANCE SetAlgebra WITH Operands <- {}
F == INSTANCE Logic WITH Formulas <- {}

MCOperands ==
    {S!Empty, S!Universal, S!Complexes, S!Reals, S!Rationals, S!Integers1, S!Naturals1, S!Naturals0,
     S!Finite({0, 4}), S!Finite({2, 8}), S!Finite({-4, 4}),
     S!Interval(0, 4, FALSE, FALSE), S!Interval(0, 4, TRUE, TRUE),
     S!Interval(4, 8, TRUE, FALSE), S!Interval(-4, 6, FALSE, TRUE)}

MCFormulas ==
    {F!Equal(F!X, 1), F!Less(F!X, F!Y),
     F!InFinite(F!X, {0, 1}), F!InFinite(F!X, {1, F!Y}),
     F!InFinite(F!Y, {0, 2, F!X}), F!InInterval(F!X, 0, 1)}

Sets == INSTANCE SetAlgebra WITH Operands <- MCOperands
Booleans == INSTANCE Logic WITH Formulas <- MCFormulas

NoQuestion == TestInit /\ given = {}
NoSet == set = S!Endless /\ members = {} /\ depth = Depth
NoFormula == /\ formula = F!True /\ truth = F!Assignments
             /\ cases = <<>> /\ outcome = <<>> /\ ascending = TRUE /\ length = Length

MCInit == \/ TestInit /\ NoSet /\ NoFormula
          \/ NoQuestion /\ Sets!Init /\ NoFormula
          \/ NoQuestion /\ NoSet /\ Booleans!Init
MCNext == \/ NoSet /\ NoFormula /\ TestNext /\ UNCHANGED <<setVars, logicVars>>
          \/ Sets!Next /\ UNCHANGED <<askVars, logicVars>>
          \/ Booleans!Next /\ UNCHANGED <<askVars, setVars>>
MCSpec == MCInit /\ [][MCNext]_<<askVars, setVars, logicVars>>

\* Unions, intersections and complements have the points that plain set
\* operations give, in canonical form (sets.cpp).
AlgebraExact == Sets!AlgebraExact
\* A call ends, unless two classes hand it back and forth (set_union,
\* set_intersection).
AnswersUnlessCircular == Sets!AnswersUnlessCircular
\* The formula keeps its truth values, its nodes are canonical, and a Piecewise
\* its choice (and_or, logical_not, logical_xor, subs, piecewise).
LogicExact == Booleans!LogicExact
=============================================================================
