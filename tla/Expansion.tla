----------------------------- MODULE Expansion -----------------------------
(***************************************************************************)
(* expand (expand.cpp): products of sums and whole powers of sums are      *)
(* multiplied out.  ExpandVisitor collects a sum [coef, dict] as it walks  *)
(* an expression with a multiplier.                                        *)
(***************************************************************************)
EXTENDS Expressions

\* A slip: the coefficient of a product stays with it, as a term.
LooseKept(acc, c, term) ==
    IF IsNumber(term) THEN [acc EXCEPT !.coef = RPlus(@, RTimes(c, term.num))]
    ELSE [acc EXCEPT !.dict = AddTerm(@, c, term)]

\* c times what a product of two terms came to.  Of a product with a
\* coefficient the rest is the term ("Tidy up things like {2x: 3} -> {x: 6}").
Loose(acc, c, term) ==
    CASE IsNumber(term) -> [acc EXCEPT !.coef = RPlus(@, RTimes(c, term.num))]
      [] IsProduct(term) -> [acc EXCEPT !.dict = AddTerm(@, RTimes(c, term.num), TermOf(term))]
      [] OTHER -> [acc EXCEPT !.dict = AddTerm(@, c, term)]

\* c times each term of a dictionary.
ScaleInto(acc, c, terms) ==
    FoldSet(LAMBDA t, sum : Loose(sum, RTimes(c, terms[t].num), t), acc, DOMAIN terms)

\* _coef_dict_add_term, which merges a sum.
AddScaled(acc, c, e) ==
    IF IsSum(e) THEN ScaleInto([acc EXCEPT !.coef = RPlus(@, RTimes(c, e.num))], c, e.dict)
    ELSE Loose(acc, c, e)

\* mul_expand_two: if one of them is a sum, the other is one of a single term.
AsSum(e) == IF IsSum(e) THEN e ELSE SumNode(<<0, 1>>, TermOf(e) :> Number(CoefOf(e)))
MulExpandTwo(acc, m, a, b) ==
    LET p == AsSum(a)
        q == AsSum(b)
        Pair(t, sum) == Loose(sum, RTimes(RTimes(p.dict[t[1]].num, m), q.dict[t[2]].num), Times(t[1], t[2]))
        pairs == FoldSet(Pair, [acc EXCEPT !.coef = RPlus(@, RTimes(m, RTimes(p.num, q.num)))],
                         (DOMAIN p.dict) \X (DOMAIN q.dict))
    IN IF IsSum(a) \/ IsSum(b)
       THEN ScaleInto(ScaleInto(pairs, RTimes(q.num, m), p.dict), RTimes(p.num, m), q.dict)
       ELSE AddScaled(acc, m, Times(a, b))

\* The terms of a sum, its number one of them, in some order.
Listed(sum) == InOrder({[term |-> t, coef |-> sum.dict[t].num] : t \in DOMAIN sum.dict})
WithNumber(sum) == Listed(sum) \o (IF sum.num[1] = 0 THEN <<>> ELSE <<[term |-> Number(sum.num), coef |-> <<1, 1>>]>>)

\* multinomial_coefficients_mpz: from (n, 0, ..., 0) on, each coefficient comes from
\* those that are one factor short of it.
RECURSIVE Below(_, _, _), Multinomials(_, _)
Below(r, t, k) == IF k > Len(t) THEN 0
                  ELSE Below(r, t, k + 1) + (IF t[k] > 0 THEN r[[t EXCEPT ![k] = @ - 1]] ELSE 0)

Multinomials(n, at) ==
    LET j == at.j
        moved == at.t[j]
        t == IF j = 1 THEN at.t ELSE [at.t EXCEPT ![j] = 0, ![1] = moved]
        more == [t EXCEPT ![j + 1] = @ + 1]
        v == IF moved > 1 THEN Below(at.r, more, 2) ELSE at.r[t] + Below(at.r, more, j + 2)
        next == [more EXCEPT ![1] = @ - 1]
    IN IF j = Len(at.t) THEN at.r
       ELSE Multinomials(n, [t |-> next, j |-> IF moved > 1 THEN 1 ELSE j + 1,
                             r |-> Put(at.r, next, (v * moved) \div (n - next[1]))])
MultinomialCoefficients(m, n) ==
    LET first == <<n>> \o [k \in 1 .. m - 1 |-> 0]
    IN Multinomials(n, [t |-> first, j |-> 1, r |-> first :> 1])

\* pow_expand, and square_expand: a term for each way to take n factors from the
\* sum.  Squares merge the sums that come out, other powers do not.  (expand leaves
\* no sum with n = 1; sums to a negative n are left out.)
PowExpand(acc, m, terms, n) ==
    LET dealt == MultinomialCoefficients(Len(terms), n)
        Coef(power) == FoldSet(LAMBDA i, c : RTimes(c, RPower(terms[i].coef, power[i])),
                               RTimes(m, <<dealt[power], 1>>), DOMAIN terms)
        Product(power) == ProductOf(FoldSet(LAMBDA i, f : MulFactor(f, Power(terms[i].term, Whole(power[i]))),
                                            Unit, {i \in DOMAIN terms : power[i] > 0}))
        Into(sum, c, t) == IF n = 2 THEN AddScaled(sum, c, t) ELSE Loose(sum, c, t)
    IN FoldSet(LAMBDA power, sum : Into(sum, Coef(power), Product(power)), acc, DOMAIN dealt)

RECURSIVE ExpandInto(_, _, _)
Expand(e) == SumOf(ExpandInto(NoTerms, <<1, 1>>, e))

IsSymbol(e) == e.sort \notin {"number", "sum", "product", "power"}

\* The walk: bvisit of a product, of a power, and of the rest.
ExpandProduct(acc, m, e) ==
    LET first == KeyOf(e.dict)
    IN IF \A b \in DOMAIN e.dict : IsSymbol(b) THEN AddScaled(acc, m, e)
       ELSE MulExpandTwo(acc, m, Expand(ProductFrom(<<1, 1>>, first :> e.dict[first])),
                         Expand(ProductFrom(e.num, Without(e.dict, first))))

ExpandPower(acc, m, e) ==
    LET base == Expand(BaseOf(e))
        n == ExponentOf(e)
        Kept == IF base = BaseOf(e) THEN e ELSE Power(base, n)
    IN IF IsInteger(n) /\ IsSum(base) THEN PowExpand(acc, m, WithNumber(base), n.num[1])
       ELSE [acc EXCEPT !.dict = AddTerm(@, m, Kept)]

ExpandInto(acc, m, e) ==
    CASE IsNumber(e) -> [acc EXCEPT !.coef = RPlus(@, RTimes(m, e.num))]
      [] IsSum(e) -> FoldLeft(LAMBDA r, t : ExpandInto(r, RTimes(m, t.coef), t.term),
                              [acc EXCEPT !.coef = RPlus(@, RTimes(m, e.num))], Listed(e))
      [] IsProduct(e) -> ExpandProduct(acc, m, e)
      [] IsPower(e) -> ExpandPower(acc, m, e)
      [] OTHER -> [acc EXCEPT !.dict = AddTerm(@, m, e)]

\* Sums occur in it by addition, multiplication and whole powers only.
RECURSIVE IsPolynomial(_)
IsPolynomial(e) ==
    /\ IsSum(e) => \A t \in DOMAIN e.dict : IsPolynomial(t)
    /\ IsProduct(e) \/ IsPower(e) =>
          \A b \in DOMAIN e.dict :
             /\ IsPolynomial(b)
             /\ IsNumber(b) \/ IsSymbol(b) \/ (IsInteger(e.dict[b]) /\ e.dict[b].num[1] > 0)

\* The last operation on a polynomial can be expand.
CallExpand == /\ depth <= Depth /\ IsPolynomial(expr)
              /\ depth' = Depth + 1
              /\ expr' = Expand(expr)
              /\ UNCHANGED meaning

-----------------------------------------------------------------------------

\* No sum is a factor, nor a term of a sum.
TermsOf(e) == IF IsSum(e) THEN DOMAIN e.dict ELSE {e}
FactorsOf(e) == IF IsProduct(e) \/ IsPower(e) THEN DOMAIN e.dict ELSE {}
IsExpanded(e) == \A t \in TermsOf(e) :
    /\ \A b \in FactorsOf(t) : IsSum(b) => ~IsInteger(t.dict[b]) \/ t.dict[b].num[1] < 0
    /\ IsSum(e) => ~IsSum(t)

\* expand multiplies a polynomial out, in canonical form (expand.cpp); that it is
\* the same polynomial is ValueKept.
ExpandExact == depth > Depth => IsExpanded(expr) /\ (IsNumber(expr) \/ IsCanonical(expr))

\* Whatever polynomial expand is given, the terms of the sum it makes have no
\* coefficients of their own (Add::is_canonical).
ExpandForm == depth > Depth => IsNumber(expr) \/ IsCanonical(expr)
=============================================================================
