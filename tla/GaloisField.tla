---------------------------- MODULE GaloisField ----------------------------
(***************************************************************************)
(* Polynomials in one variable over the integers modulo a prime, and their *)
(* factorisation by square-free parts, distinct degrees and equal degrees, *)
(* as fields.h and fields.cpp compute it.  A polynomial is the vector of   *)
(* its coefficients, the constant first and no zero last.                  *)
(*                                                                         *)
(* The splitting of equal degrees draws random polynomials: each draw is a *)
(* step.  Whether a draw splits anything is up to chance; that a draw that *)
(* does is left, and that it loses no factor, is what there is to check.   *)
(***************************************************************************)
EXTENDS Integers, Sequences, FiniteSets, SequencesExt, FiniteSetsExt

CONSTANTS
    Tasks,      \* [by, modulo, poly]: the factorisations that are asked for
    Pairs       \* [modulo, f, g]: the operands of single operations

VARIABLES
    modulo,     \* modulo_ of all polynomials
    by,         \* "factor" (gf_factor), "shoup" (gf_shoup), or "pair"
    poly,       \* the polynomial that is factored, or the operands
    parts,      \* square-free parts to split: a sequence of [poly, times]
    todo,       \* products of factors of one degree: a set of [poly, degree, times]
    factors     \* the factors found: a set of [poly, times]

vars == <<modulo, by, poly, parts, todo, factors>>

-----------------------------------------------------------------------------
(* Arithmetic *)

Zero == <<>>
One == <<1>>
X == <<0, 1>>
Degree(f) == IF f = Zero THEN 0 ELSE Len(f) - 1
Coeff(f, i) == IF i < Len(f) THEN f[i + 1] ELSE 0

Strip(f) == SubSeq(f, 1, Max({0} \cup {i \in DOMAIN f : f[i] # 0}))

FromVec(v) == Strip([i \in DOMAIN v |-> v[i] % modulo])

Longer(f, g) == IF Len(f) < Len(g) THEN Len(g) ELSE Len(f)
Plus(f, g) ==
    FromVec([i \in 1..Longer(f, g) |-> Coeff(f, i - 1) + Coeff(g, i - 1)])
Minus(f, g) ==
    FromVec([i \in 1..Longer(f, g) |-> Coeff(f, i - 1) - Coeff(g, i - 1)])

\* Adding a number: zero stays zero.
PlusInt(f, a) ==
    IF f = Zero THEN Zero ELSE FromVec([f EXCEPT ![1] = @ + a])

Scaled(f, a) == FromVec([i \in DOMAIN f |-> f[i] * a])

Sum(f) == LET Upto[i \in 0..Len(f)] == IF i = 0 THEN 0 ELSE Upto[i - 1] + f[i]
          IN  Upto[Len(f)]

Times(f, g) ==
    IF f = Zero \/ g = Zero THEN Zero
    ELSE FromVec([k \in 1..(Len(f) + Len(g) - 1) |->
            Sum([i \in 1..k |-> Coeff(f, i - 1) * Coeff(g, k - i)])])

Inv(a) == CHOOSE b \in 0..(modulo - 1) : (a * b) % modulo = 1

\* The division is written three times.  Each copy rewrites the dividend out in
\* place, from its leading coefficient (i is an exponent) down: less what the
\* coefficients above it take with g, it is one of the quotient, from the degree
\* of g on, and one of the rest below.  lb and ub keep to the ends of both.

\* operator/= stops at the degree of the divisor.
QuoAt(out, g, i) ==
    LET lb == IF Degree(g) + i > Degree(out) THEN Degree(g) + i - Degree(out) ELSE 0
        ub == IF i + 1 < Degree(g) THEN i + 1 ELSE Degree(g)
        taken == Sum([j \in 1..(ub - lb) |-> out[Len(g) + i - (lb + j - 1)] * g[lb + j]])
    IN  [out EXCEPT ![i + 1] = ((@ - taken) * Inv(Last(g))) % modulo]
Quo(f, g) ==
    LET Out[i \in Degree(g)..Len(f)] == IF i = Len(f) THEN f ELSE QuoAt(Out[i + 1], g, i)
    IN  IF f = Zero THEN Zero
        ELSE IF Len(g) = 1 THEN Scaled(f, Inv(g[1]))
        ELSE IF Degree(f) < Degree(g) THEN Zero
        ELSE Strip(SubSeq(Out[Degree(g)], Len(g), Len(f)))

\* operator%= goes on to the constant, and scales only above.
RemAt(out, g, i) ==
    LET lb == IF Degree(g) + i > Degree(out) THEN Degree(g) + i - Degree(out) ELSE 0
        ub == IF i + 1 < Degree(g) THEN i + 1 ELSE Degree(g)
        taken == Sum([j \in 1..(ub - lb) |-> out[Len(g) + i - (lb + j - 1)] * g[lb + j]])
    IN  [out EXCEPT ![i + 1] =
            (IF i >= Degree(g) THEN (@ - taken) * Inv(Last(g)) ELSE @ - taken) % modulo]
Rem(f, g) ==
    LET Out[i \in 0..Len(f)] == IF i = Len(f) THEN f ELSE RemAt(Out[i + 1], g, i)
    IN  IF f = Zero \/ Len(g) = 1 THEN Zero
        ELSE IF Degree(f) < Degree(g) THEN f
        ELSE Strip(SubSeq(Out[0], 1, Degree(g)))

\* gf_div also goes to the constant, takes constant divisors like any other,
\* and then deals the vector out.
DivAt(out, g, i) ==
    LET lb == IF Degree(g) + i > Degree(out) THEN Degree(g) + i - Degree(out) ELSE 0
        ub == IF i + 1 < Degree(g) THEN i + 1 ELSE Degree(g)
        taken == Sum([j \in 1..(ub - lb) |-> out[Len(g) + i - (lb + j - 1)] * g[lb + j]])
    IN  [out EXCEPT ![i + 1] =
            ((@ - taken) * (IF i >= Degree(g) THEN Inv(Last(g)) ELSE 1)) % modulo]
Div(f, g) ==
    LET Out[i \in 0..Len(f)] == IF i = Len(f) THEN f ELSE DivAt(Out[i + 1], g, i)
    IN  IF f = Zero \/ Degree(f) < Degree(g) THEN <<Zero, f>>
        ELSE <<FromVec(SubSeq(Out[0], Len(g), Len(f))), FromVec(SubSeq(Out[0], 1, Degree(g)))>>

LShift(f, n) == IF f = Zero THEN Zero ELSE [i \in 1..n |-> 0] \o f
RShift(f, n) ==
    IF n < Len(f) THEN <<SubSeq(f, n + 1, Len(f)), FromVec(SubSeq(f, 1, n))>>
                  ELSE <<Zero, f>>

RECURSIVE Pow(_, _)
Pow(f, n) == IF n = 0 THEN One
             ELSE LET h == Pow(Times(f, f), n \div 2)
                  IN  IF n % 2 = 1 THEN Times(h, f) ELSE h

Monic(f) == IF f = Zero THEN f ELSE Scaled(f, Inv(Last(f)))

RECURSIVE Euclid(_, _)
Euclid(f, g) == IF g = Zero THEN f ELSE Euclid(g, Rem(f, g))
Gcd(f, g) == Monic(Euclid(f, g))
Lcm(f, g) == IF f = Zero \/ g = Zero THEN Zero
             ELSE Monic(Quo(Times(g, f), Gcd(f, g)))

Diff(f) == FromVec([i \in 1..Degree(f) |-> i * f[i + 1]])
Eval(f, a) == FoldRight(LAMBDA c, r : (r * a + c) % modulo, f, 0)
IsSqf(f) == f = Zero \/ Gcd(Monic(f), Diff(Monic(f))) = One

-----------------------------------------------------------------------------
(* Arithmetic modulo a polynomial m *)

TimesIfOdd(m, h, f, n) == IF n % 2 = 1 THEN Rem(Times(h, f), m) ELSE h

RECURSIVE PowMod(_, _, _)
PowMod(m, f, n) ==
    IF n = 0 THEN One
    ELSE IF n = 1 THEN Rem(f, m)
    ELSE TimesIfOdd(m, PowMod(m, Rem(Times(f, f), m), n \div 2), f, n)

\* g(h) by Horner's rule
ComposeMod(m, g, h) ==
    IF g = Zero THEN Zero
    ELSE FoldRight(LAMBDA c, out : Rem(PlusInt(Times(out, h), c), m),
                   Front(g), FromVec(<<Last(g)>>))

\* x^(i * modulo) for i below the degree of m
FrobeniusBase(m) ==
    LET n == Degree(m)
        first == PowMod(m, X, modulo)
        Next(b) == IF modulo < n THEN Rem(LShift(Last(b), modulo), m)
                   ELSE IF Len(b) = 1 THEN first
                   ELSE Rem(Times(Last(b), first), m)
    IN  IF n = 0 THEN <<>>
        ELSE FoldLeft(LAMBDA b, i : Append(b, Next(b)), <<One>>, [i \in 1..(n - 1) |-> i])

\* f to the power modulo, from the base of m: a sum over the coefficients
FrobeniusMap(f, m, base) ==
    LET r == IF Degree(f) >= Degree(m) THEN Rem(f, m) ELSE f
    IN  FoldLeft(LAMBDA out, i : Plus(out, Scaled(base[i], r[i])), Zero,
                 [i \in DOMAIN r |-> i])

\* f * f^p * ... * f^(p^(n-1)), to the power (p - 1) / 2
PowHalf(m, f, n, base) ==
    LET Step(hr, i) == LET h == FrobeniusMap(hr[1], m, base)
                       IN  <<h, Rem(Times(hr[2], h), m)>>
        start == Rem(f, m)
    IN  PowMod(m, FoldLeft(Step, <<start, start>>, [i \in 1..(n - 1) |-> i])[2],
               (modulo - 1) \div 2)

\* f + f^p + ... + f^(p^(n-1)), by the base of m
TraceByBase(m, f, n, base) ==
    LET Step(hr, i) == LET h == FrobeniusMap(hr[1], m, base)
                       IN  <<h, Rem(Plus(hr[2], h), m)>>
    IN  FoldLeft(Step, <<f, f>>, [i \in 1..(n - 1) |-> i])[2]

\* The same by composition and doubling: the U of gf_trace_map
RECURSIVE TraceSteps(_, _, _, _, _, _)
TraceSteps(m, u, v, U, V, n) ==
    IF n = 0 THEN U
    ELSE LET u1 == Plus(u, ComposeMod(m, u, v))
             v1 == ComposeMod(m, v, v)
         IN  IF n % 2 = 1
               THEN TraceSteps(m, u1, v1, Plus(U, ComposeMod(m, u1, V)),
                               ComposeMod(m, v1, V), n \div 2)
               ELSE TraceSteps(m, u1, v1, U, V, n \div 2)
TraceMap(m, a, b, c, n) ==
    LET u == ComposeMod(m, a, b)
    IN  TraceSteps(m, u, b, IF n % 2 = 1 THEN Plus(a, u) ELSE a,
                   IF n % 2 = 1 THEN b ELSE c, n \div 2)

-----------------------------------------------------------------------------
(* Square-free parts and distinct degrees *)

\* The p-th root of a polynomial in x^p.
Root(f) == LET d == Degree(f) \div modulo
           IN  Strip([i \in 1..(d + 1) |-> f[Degree(f) - (d + 1 - i) * modulo + 1]])

\* Divides g by what it shares with h, over and over; the parts of h that are
\* left over at the i-th time are those of multiplicity i * n.
RECURSIVE Peeled(_, _, _, _, _)
Peeled(list, h, g, i, n) ==
    IF h = One THEN [list |-> list, rest |-> g]
    ELSE LET G == Gcd(h, g)
             H == Quo(h, G)
         IN  Peeled(IF Degree(H) > 0 THEN Append(list, [poly |-> H, times |-> i * n])
                                     ELSE list,
                    G, Quo(g, G), i + 1, n)

\* Slip: the multiplicities under a p-th root are not scaled.
RECURSIVE SqfFlat(_, _, _)
SqfFlat(list, f, n) ==
    LET F == Diff(f)
        g == Gcd(f, F)
        peeled == IF F = Zero THEN [list |-> list, rest |-> f]
                              ELSE Peeled(list, Quo(f, g), g, 1, n)
    IN  IF peeled.rest = One /\ F # Zero THEN peeled.list
        ELSE SqfFlat(peeled.list, Root(peeled.rest), n)

RECURSIVE SqfParts(_, _, _)
SqfParts(list, f, n) ==
    LET F == Diff(f)
        g == Gcd(f, F)
        peeled == IF F = Zero THEN [list |-> list, rest |-> f]
                              ELSE Peeled(list, Quo(f, g), g, 1, n)
    IN  IF peeled.rest = One /\ F # Zero THEN peeled.list
        ELSE SqfParts(peeled.list, Root(peeled.rest), n * modulo)

SqfList(f) == IF Degree(f) < 1 THEN <<>> ELSE SqfParts(<<>>, Monic(f), 1)
SqfPart(f) == FoldLeft(LAMBDA g, part : Times(g, part.poly), One, SqfList(f))

\* Slip: the last degree is not looked at.
RECURSIVE DegreesShort(_, _, _, _, _)
DegreesShort(list, f, g, base, i) ==
    IF 2 * i >= Degree(f)
      THEN IF f = One \/ f = Zero THEN list
           ELSE Append(list, [poly |-> f, degree |-> Degree(f)])
    ELSE LET g1 == FrobeniusMap(g, f, base)
             h == Gcd(f, Minus(g1, X))
             f1 == Quo(f, h)
         IN  IF h = One THEN DegreesShort(list, f, g1, base, i + 1)
             ELSE DegreesShort(Append(list, [poly |-> h, degree |-> i]),
                               f1, Rem(g1, f1), FrobeniusBase(f1), i + 1)

\* x^(p^i) - x is the product of all irreducible factors whose degree divides i.
RECURSIVE DegreesFrom(_, _, _, _, _)
DegreesFrom(list, f, g, base, i) ==
    IF 2 * i > Degree(f)
      THEN IF f = One \/ f = Zero THEN list
           ELSE Append(list, [poly |-> f, degree |-> Degree(f)])
    ELSE LET g1 == FrobeniusMap(g, f, base)
             h == Gcd(f, Minus(g1, X))
             f1 == Quo(f, h)
         IN  IF h = One THEN DegreesFrom(list, f, g1, base, i + 1)
             ELSE DegreesFrom(Append(list, [poly |-> h, degree |-> i]),
                              f1, Rem(g1, f1), FrobeniusBase(f1), i + 1)

DdfZassenhaus(f) == DegreesFrom(<<>>, f, X, FrobeniusBase(f), 1)

\* What is left of the polynomial has factors of its own degree.
WithRest(fl) ==
    IF fl[1] = One THEN fl[2] ELSE Append(fl[2], [poly |-> fl[1], degree |-> Degree(fl[1])])

\* Shoup: baby steps x^(p^j), j < k, and giant steps x^(p^(k i)); all degrees of
\* one giant step are taken out of f at once and then told apart.
CeilRoot(n) == CHOOSE k \in 0..n : k * k >= n /\ (k = 0 \/ (k - 1) * (k - 1) < n)

ShoupStep(k, baby, giant, fl, i) ==
    LET all == FoldLeft(LAMBDA h, u : Rem(Times(h, Minus(giant[i], u)), fl[1]), One, baby)
        g == Gcd(fl[1], all)
        Apart(gl, c) ==     \* c counts the baby steps from the last one
            LET F == Gcd(gl[1], Minus(giant[i], baby[k + 1 - c]))
            IN  <<Quo(gl[1], F),
                  IF F = One THEN gl[2]
                  ELSE Append(gl[2], [poly |-> F, degree |-> k * i - (k - c)])>>
    IN  <<Quo(fl[1], g), FoldLeft(Apart, <<g, fl[2]>>, [c \in 1..k |-> c])[2]>>

DdfShoup(f) ==
    LET k == CeilRoot(Degree(f) \div 2)
        base == FrobeniusBase(f)
        powers == FoldLeft(LAMBDA U, i : Append(U, FrobeniusMap(Last(U), f, base)),
                           <<X>>, [i \in 1..k |-> i])
        h == powers[k + 1]
        giant == FoldLeft(LAMBDA V, i : Append(V, ComposeMod(f, Last(V), h)),
                          <<h>>, [i \in 1..(k - 1) |-> i])
        fl == FoldLeft(LAMBDA l, i : ShoupStep(k, SubSeq(powers, 1, k), giant, l, i),
                       <<f, <<>>>>, [i \in 1..k |-> i])
    IN  IF f = Zero THEN <<>> ELSE WithRest(fl)

-----------------------------------------------------------------------------
(* Equal degrees: what one draw r makes of a product f of factors of degree n *)

\* gf_random: any coefficients below a leading one
Draws(degree) == {Append(r, 1) : r \in [1..degree -> 0..(modulo - 1)]}

RECURSIVE Squares(_, _, _, _)
Squares(f, r, h, count) ==
    IF count = 0 THEN h
    ELSE LET r2 == PowMod(f, r, 2) IN Squares(f, r2, Plus(h, r2), count - 1)

SplitBy(f, g) == IF g = One \/ g = f THEN {f} ELSE {g, Quo(f, g)}

ZassenhausParts(f, n, r) ==
    SplitBy(f, Gcd(f, IF modulo = 2 THEN Squares(f, r, r, 2^(n * (Degree(f) \div n) - 1))
                      ELSE PlusInt(PowHalf(f, r, n, FrobeniusBase(f)), -1)))

\* By the trace, or by its power h and h - 1
SplitIn2(f, h1) == {h1, Quo(f, h1)}
SplitIn3(f, h1, h2) == {h1, h2, Quo(f, Times(h1, h2))}
SplitByPower(f, h) == SplitIn3(f, Gcd(f, h), Gcd(f, PlusInt(h, -1)))

ShoupParts(f, n, r) ==
    IF modulo = 2
    THEN SplitIn2(f, Gcd(f, TraceMap(f, r, PowMod(f, X, 2), X, n - 1)))
    ELSE SplitByPower(f, PowMod(f, TraceByBase(f, r, n, FrobeniusBase(f)), (modulo - 1) \div 2))

\* Slip: the draws are as short as the factors.
DrawShort(item) == item.degree - 1

DrawDegree(item) ==
    IF by = "shoup" THEN Degree(item.poly) - 1 ELSE 2 * item.degree - 1

\* Constants hold no factor, and the calls for one product are one: where the
\* power is zero, subtracting one from it leaves zero and gf_edf_shoup splits
\* the same product twice.
PartsByDraw(item, r) ==
    {[item EXCEPT !.poly = f] :
       f \in {f \in IF by = "shoup" THEN ShoupParts(item.poly, item.degree, r)
                    ELSE ZassenhausParts(item.poly, item.degree, r) : Degree(f) > 0}}

-----------------------------------------------------------------------------
Init ==
    /\ \/ \E t \in Tasks :
            /\ modulo = t.modulo /\ by = t.by /\ poly = t.poly
       \/ \E q \in Pairs :
            /\ modulo = q.modulo /\ by = "pair" /\ poly = <<q.f, q.g>>
    /\ parts = <<>> /\ todo = {} /\ factors = {}

Idle == parts = <<>> /\ todo = {} /\ factors = {}

\* gf_factor takes the square-free parts; gf_shoup must be called with one.
Begin ==
    /\ Idle /\ by # "pair" /\ (by = "shoup" => IsSqf(poly))
    /\ parts' = IF by = "factor" THEN SqfList(poly)
                ELSE <<[poly |-> poly, times |-> 1]>>
    /\ UNCHANGED <<modulo, by, poly, todo, factors>>

DistinctDegrees ==
    /\ todo = {} /\ parts # <<>>
    /\ LET part == Head(parts)
           list == IF by = "shoup" THEN DdfShoup(part.poly) ELSE DdfZassenhaus(part.poly)
       IN  todo' = {[poly |-> d.poly, degree |-> d.degree, times |-> part.times] :
                    d \in ToSet(list)}
    /\ parts' = Tail(parts)
    /\ UNCHANGED <<modulo, by, poly, factors>>

\* A product of the degree of its factors is a factor.
Small(item) == Degree(item.poly) <= item.degree
Keep(item) ==
    /\ Small(item)
    /\ factors' = factors \cup {[poly |-> item.poly, times |-> item.times]}
    /\ todo' = todo \ {item}
    /\ UNCHANGED <<modulo, by, poly, parts>>

\* Anything else is split by a draw, or is drawn for again.  What the loop of
\* gf_edf_zassenhaus counts, the factors of this product, is full when the
\* calls for its two parts return.
Draw(item) ==
    /\ ~Small(item)
    /\ \E r \in Draws(DrawDegree(item)) :
        todo' = (todo \ {item}) \cup PartsByDraw(item, r)
    /\ UNCHANGED <<modulo, by, poly, parts, factors>>

Next == Begin \/ DistinctDegrees \/ \E item \in todo : Keep(item) \/ Draw(item)

Spec == Init /\ [][Next]_vars

-----------------------------------------------------------------------------
(* Properties *)

Polys(degree) == {Append(r, 1) : r \in [1..degree -> 0..(modulo - 1)]}
Irreducible(f) ==
    \A d \in 1..(Degree(f) \div 2) : \A g \in Polys(d) : Rem(f, g) # Zero

Product(items) ==
    FoldSet(LAMBDA i, p : Times(Pow(Monic(i.poly), i.times), p), One, items)

\* Whatever was drawn, what was found, what is to be split and what has not
\* been looked at multiply to the polynomial: no factor is lost, none is found
\* twice, none with another multiplicity (gf_factor, gf_shoup).
ProductKept ==
    by # "pair" /\ ~Idle =>
        Monic(poly) = Times(Product(ToSet(parts)), Times(Product(todo), Product(factors)))

\* gf_ddf_*, gf_edf_*: what is split together has distinct factors all of the
\* degree announced, so that what is kept unsplit is irreducible.
DegreesExact ==
    /\ \A item \in todo :
        /\ Degree(item.poly) % item.degree = 0
        /\ IsSqf(item.poly)
        /\ \A d \in 1..(item.degree - 1) :
             \A g \in Polys(d) : Rem(item.poly, g) # Zero
    /\ \A f \in factors : Irreducible(f.poly)

\* gf_edf_*: whatever was drawn before, some draw leaves only smaller products,
\* so that drawing until all factors are found ends (with probability one).
SomeDrawSplits ==
    \A item \in todo :
        Small(item) \/ \E r \in Draws(DrawDegree(item)) : item \notin PartsByDraw(item, r)

\* The three copies of the division agree and divide; the powers modulo f by
\* Frobenius' map are the powers; gcd and lcm multiply to the product; shifts
\* keep what they shift out; the value at a is the rest of dividing by x - a.
PairExact ==
    by = "pair" =>
        LET f == FromVec(poly[1])
            g == FromVec(poly[2])
        IN  g # Zero =>
            /\ Div(f, g) = <<Quo(f, g), Rem(f, g)>>
            /\ Plus(Times(Quo(f, g), g), Rem(f, g)) = f
            /\ Rem(f, g) = Zero \/ Len(Rem(f, g)) < Len(g)
            /\ Rem(f, Gcd(f, g)) = Zero /\ Rem(g, Gcd(f, g)) = Zero
            /\ f # Zero => Times(Gcd(f, g), Lcm(f, g)) = Monic(Times(f, g))
            /\ \A n \in 0..3 :
                 Plus(LShift(RShift(f, n)[1], n), RShift(f, n)[2]) = f
            /\ \A a \in 0..(modulo - 1) :
                 FromVec(<<Eval(f, a)>>) = Rem(f, FromVec(<<-a, 1>>))
            /\ f # Zero => IsSqf(SqfPart(f))
            /\ Degree(g) > 0 =>
                 FrobeniusMap(f, g, FrobeniusBase(g)) = Rem(Pow(f, modulo), g)

=============================================================================
