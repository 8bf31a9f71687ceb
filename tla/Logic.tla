------------------------------- MODULE Logic -------------------------------
(***************************************************************************)
(* Boolean expressions (logic.cpp): the comparisons, membership, the       *)
(* functions that make and, or, not and xor in canonical form, what subs   *)
(* does to them, and piecewise.  A formula is simplified when it is made:  *)
(* the meaning must not change, whatever the order of the hashes, and the  *)
(* node must be one that its constructor accepts.                          *)
(*                                                                         *)
(* Terms are numbers and the symbols X and Y.  Numbers are exact: of an    *)
(* integer and a float of one value Le says neither is the lesser or       *)
(* equal.  NaN, complex numbers and zoo, for which Le and Lt throw, do not *)
(* occur.                                                                  *)
(***************************************************************************)
EXTENDS Integers, FiniteSets, Sequences, SequencesExt

CONSTANTS Formulas,     \* what a computation combines
          Highest,      \* the numbers are 0 .. Highest
          Length        \* bound on the operations of a computation

VARIABLES formula,      \* the formula computed so far
          truth,        \* the values of the symbols it should hold for
          cases,        \* a Piecewise: its expressions and conditions
          outcome,      \* the expression it should stand for
          ascending,    \* which of the two ends of a set of formulas comes first
          length

vars == <<formula, truth, cases, outcome, ascending, length>>

Numbers == 0 .. Highest
X == Highest + 1
Y == Highest + 2
Unknowns == {X, Y}
Terms == Numbers \union Unknowns
Assignments == [Unknowns -> Numbers]

-----------------------------------------------------------------------------
\* Formulas and what they mean.

Node(sort, l, r, points, parts) ==
    [sort |-> sort, l |-> l, r |-> r, points |-> points, parts |-> parts]

True == Node("true", 0, 0, {}, {})
False == Node("false", 0, 0, {}, {})
Atom(b) == IF b THEN True ELSE False
IsAtom(f) == f \in {True, False}

Relation(sort, l, r) == Node(sort, l, r, {}, {})
InFinite(t, points) == Node("in", t, 0, points, {})
InInterval(t, lo, hi) == Node("between", t, 0, {lo, hi}, {})
Compound(sort, parts) == Node(sort, 0, 0, {}, parts)

Value(t, e) == IF t \in Unknowns THEN e[t] ELSE t

RECURSIVE Holds(_, _)
Holds(f, e) ==
    LET l == Value(f.l, e)
        r == Value(f.r, e)
    IN CASE f.sort = "true" -> TRUE
         [] f.sort = "false" -> FALSE
         [] f.sort = "eq" -> l = r
         [] f.sort = "ne" -> l # r
         [] f.sort = "le" -> l <= r
         [] f.sort = "lt" -> l < r
         [] f.sort = "in" -> \E p \in f.points : Value(p, e) = l
         [] f.sort = "between" -> \E lo, hi \in f.points : l \in lo .. hi
         [] f.sort = "and" -> \A g \in f.parts : Holds(g, e)
         [] f.sort = "or" -> \E g \in f.parts : Holds(g, e)
         [] f.sort = "not" -> \A g \in f.parts : ~Holds(g, e)
         [] f.sort = "xor" -> Cardinality({g \in f.parts : Holds(g, e)}) % 2 = 1

TruthOf(f) == {e \in Assignments : Holds(f, e)}

-----------------------------------------------------------------------------
\* Comparisons and membership.

Equal(a, b) ==
    CASE a = b -> True
      [] a # b /\ {a, b} \subseteq Numbers -> False
      [] OTHER -> IF a < b THEN Relation("eq", a, b) ELSE Relation("eq", b, a)

Unequal(a, b) ==
    CASE a = b -> False
      [] a # b /\ {a, b} \subseteq Numbers -> True
      [] OTHER -> IF a < b THEN Relation("ne", a, b) ELSE Relation("ne", b, a)

LessEqual(a, b) ==
    CASE a = b -> True
      [] a # b /\ {a, b} \subseteq Numbers -> Atom(a - b < 0)
      [] OTHER -> Relation("le", a, b)

Less(a, b) ==
    CASE a = b -> False
      [] a # b /\ {a, b} \subseteq Numbers -> Atom(a - b < 0)
      [] OTHER -> Relation("lt", a, b)

\* FiniteSet::contains: elements that are certainly others are left out.
FiniteContains(points, t) ==
    LET rest == {p \in points : Equal(p, t) # False}
    IN CASE t \in points -> True
         [] t \notin points /\ rest = {} -> False
         [] OTHER -> InFinite(t, rest)

\* contains asks the set only about numbers.
ContainsFinite(points, t) ==
    IF t \in Numbers THEN FiniteContains(points, t) ELSE InFinite(t, points)

IntervalContains(ends, t) ==
    IF t \in Numbers THEN Atom(\E lo, hi \in ends : t \in lo .. hi)
    ELSE Node("between", t, 0, ends, {})

-----------------------------------------------------------------------------
\* Not: comparisons turn around, and and or swap, the others get a node.
RECURSIVE Negation(_)
Negation(f) ==
    CASE IsAtom(f) -> Atom(f = False)
      [] f.sort = "eq" -> Relation("ne", f.l, f.r)
      [] f.sort = "ne" -> Relation("eq", f.l, f.r)
      [] f.sort = "le" -> Relation("lt", f.r, f.l)
      [] f.sort = "lt" -> Relation("le", f.r, f.l)
      [] f.sort = "and" -> Compound("or", {Negation(g) : g \in f.parts})
      [] f.sort = "or" -> Compound("and", {Negation(g) : g \in f.parts})
      [] f.sort = "not" -> CHOOSE g \in f.parts : TRUE
      [] f.sort \in {"in", "between", "xor"} -> Compound("not", {f})

Opposed(args) == \E f \in args : Negation(f) \in args

\* Xor: equal arguments cancel, opposed ones turn the result around.
Toggle(state, f) ==
    LET args == state.args
    IN CASE IsAtom(f) -> [state EXCEPT !.nots = @ + (IF f = True THEN 1 ELSE 0)]
         [] f \in args -> [state EXCEPT !.args = args \ {f}]
         [] ~IsAtom(f) /\ f \notin args /\ Negation(f) \in args ->
              [args |-> args \ {Negation(f)}, nots |-> state.nots + 1]
         [] OTHER -> [state EXCEPT !.args = args \union {f}]

XorNode(args) ==
    CASE args = {} -> False
      [] Cardinality(args) = 1 -> CHOOSE f \in args : TRUE
      [] OTHER -> Compound("xor", args)

Xor(list) ==
    LET arguments == FlattenSeq([i \in DOMAIN list |->
                         IF list[i].sort = "xor" THEN SetToSeq(list[i].parts)
                         ELSE <<list[i]>>])
        end == FoldLeft(Toggle, [args |-> {}, nots |-> 0], arguments)
    IN IF end.nots % 2 = 0 THEN XorNode(end.args) ELSE Negation(XorNode(end.args))

-----------------------------------------------------------------------------
\* And, or.

Made(sort, args) ==
    CASE args = {} -> Atom(sort = "and")
      [] Cardinality(args) = 1 -> CHOOSE f \in args : TRUE
      [] OTHER -> Compound(sort, args)

\* The hashes put one of the memberships first, of two either.
Weight(f) == MapThenSumSet(LAMBDA p : 2 ^ p, f.points) + (IF f.l = X THEN 0 ELSE 1000)
First(memberships) ==
    CHOOSE f \in memberships : \A g \in memberships :
        IF ascending THEN Weight(f) <= Weight(g) ELSE Weight(f) >= Weight(g)

RECURSIVE Junction(_, _), Restricted(_, _), Subs(_, _, _)

\* and_or
Junction(sort, given) ==
    LET args == UNION {IF f.sort = sort THEN f.parts ELSE {f} : f \in given \ {True, False}}
        absorbing == Atom(sort = "or")
        memberships == {f \in args : f.sort = "in" /\ f.l \in Unknowns}
    IN CASE absorbing \in given \/ Opposed(args) -> absorbing
         [] /\ absorbing \notin given /\ ~Opposed(args)
            /\ sort = "and" /\ memberships # {} -> Restricted(args, First(memberships))
         [] OTHER -> Made(sort, args)

\* Slip: an element for which the conditions are not decided is dropped too.
RestrictedCertain(args, membership) ==
    LET s == membership.l
        rest == Junction("and", args \ {membership})
    IN FiniteContains({p \in membership.points : Subs(rest, s, p) = True}, s)

\* A symbol that is in a finite set: the elements the other conditions exclude
\* are dropped, and if these are decided for every element they are not needed.
Restricted(args, membership) ==
    LET s == membership.l
        rest == Junction("and", args \ {membership})
        value == [p \in membership.points |-> Subs(rest, s, p)]
        present == {p \in membership.points : value[p] # False}
    IN IF membership.points \intersect Numbers = {} THEN Made("and", args)
       ELSE IF \A p \in present : value[p] = True THEN FiniteContains(present, s)
       ELSE IF present # membership.points
         THEN Junction("and", {FiniteContains(present, s), rest})
       ELSE Made("and", args)

\* f->subs({s: t}), which makes every node anew.
Subs(f, s, t) ==
    LET At(u) == IF u = s THEN t ELSE u
        points == {At(p) : p \in f.points}
        Parts == {Subs(g, s, t) : g \in f.parts}
    IN CASE IsAtom(f) -> f
         [] f.sort = "eq" -> Equal(At(f.l), At(f.r))
         [] f.sort = "ne" -> Unequal(At(f.l), At(f.r))
         [] f.sort = "le" -> LessEqual(At(f.l), At(f.r))
         [] f.sort = "lt" -> Less(At(f.l), At(f.r))
         [] f.sort = "in" -> ContainsFinite(points, At(f.l))
         [] f.sort = "between" -> IntervalContains(f.points, At(f.l))
         [] f.sort \in {"and", "or"} -> Junction(f.sort, Parts)
         [] f.sort = "not" -> Negation(CHOOSE g \in Parts : TRUE)
         [] f.sort = "xor" -> LET list == SetToSeq(f.parts)
                              IN Xor([i \in DOMAIN list |-> Subs(list[i], s, t)])

-----------------------------------------------------------------------------
\* Piecewise: the first expression whose condition holds.

\* Conditions that are false or came before, and what follows a true one, go.
Keep(kept, case) ==
    LET covered == \E i \in DOMAIN kept : kept[i].cond \in {True, case.cond}
    IN IF case.cond = False \/ covered THEN kept ELSE Append(kept, case)

Piecewise(list) == FoldLeft(Keep, <<>>, list)

\* 0 where no condition holds.
Chosen(list, e) ==
    LET true == {i \in DOMAIN list : Holds(list[i].cond, e)}
    IN IF true = {} THEN 0
       ELSE list[CHOOSE i \in true : \A j \in true : i <= j].expr

Case(expr, cond) == [expr |-> expr, cond |-> cond]

-----------------------------------------------------------------------------
\* A computation.

Init == /\ formula \in Formulas
        /\ truth = TruthOf(formula)
        /\ cases = <<>>
        /\ outcome = [e \in Assignments |-> 0]
        /\ ascending \in BOOLEAN
        /\ length = 0

Continue == /\ length < Length /\ length' = length + 1
            /\ UNCHANGED ascending

Becomes(f, meaning) == /\ formula' = f /\ truth' = meaning
                       /\ UNCHANGED <<cases, outcome>>

\* nand, nor and xnor are and, or and xor followed by it.
CallNot == Continue /\ Becomes(Negation(formula), Assignments \ truth)

CallJunction ==
    \E g \in Formulas : Continue /\
        \/ Becomes(Junction("and", {formula, g}), truth \intersect TruthOf(g))
        \/ Becomes(Junction("or", {formula, g}), truth \union TruthOf(g))

CallXor ==
    \E g \in Formulas : Continue /\
        Becomes(Xor(<<formula, g>>), {e \in Assignments : e \in truth <=> ~Holds(g, e)})

\* Where no condition is left, piecewise throws.
CallPiecewise ==
    \E g \in Formulas :
        LET list == <<Case(1, formula), Case(2, g), Case(3, formula), Case(4, Negation(g))>>
        IN /\ Continue /\ cases = <<>>
           /\ cases' = Piecewise(list) /\ cases' # <<>>
           /\ outcome' = [e \in Assignments |->
                 IF e \in truth THEN 1 ELSE IF Holds(g, e) THEN 2 ELSE 4]
           /\ UNCHANGED <<formula, truth>>

CallSubs ==
    \E s \in Unknowns, t \in Terms :
        LET From(e) == [e EXCEPT ![s] = Value(t, e)]
        IN /\ Continue
           /\ formula' = Subs(formula, s, t)
           /\ truth' = {e \in Assignments : From(e) \in truth}
           /\ cases' = Piecewise([i \in DOMAIN cases |->
                                    Case(cases[i].expr, Subs(cases[i].cond, s, t))])
           /\ outcome' = [e \in Assignments |-> outcome[From(e)]]

Next == CallNot \/ CallJunction \/ CallXor \/ CallPiecewise \/ CallSubs

Spec == Init /\ [][Next]_vars

-----------------------------------------------------------------------------
\* What is_canonical asks of the arguments of a node, and theirs.
RECURSIVE Canonical(_)
Canonical(f) ==
    /\ \A g \in f.parts : Canonical(g)
    /\ f.sort \in {"and", "or", "xor"} =>
          /\ Cardinality(f.parts) >= 2 /\ ~Opposed(f.parts)
          /\ \A g \in f.parts : ~IsAtom(g) /\ g.sort # f.sort
    /\ f.sort = "not" => \A g \in f.parts : ~IsAtom(g) /\ g.sort # "not"
    /\ f.sort \in {"eq", "ne", "le", "lt"} =>
          f.l # f.r /\ ~({f.l, f.r} \subseteq Numbers)

(* Whatever is computed from comparisons and memberships, in whatever      *)
(* order the hashes put it, the formula holds for the values for which the *)
(* operations say it should, its nodes are canonical, and a Piecewise      *)
(* chooses the expression its conditions chose before they were simplified *)
(* and substituted (and_or, logical_not, logical_xor, piecewise).          *)
LogicExact ==
    /\ TruthOf(formula) = truth
    /\ Canonical(formula)
    /\ cases # <<>> => \A e \in Assignments : Chosen(cases, e) = outcome[e]

=============================================================================
