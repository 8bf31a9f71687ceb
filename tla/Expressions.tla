---------------------------- MODULE Expressions ----------------------------
(***************************************************************************)
(* Sums, products and powers (add.cpp, mul.cpp, pow.cpp, and the rational  *)
(* powers of rational.cpp): the canonical forms every other part of the    *)
(* library matches on.  An expression is a record whose sort is "number",  *)
(* "sum", "product", "power" or the name of a symbol; num is the number,   *)
(* or the coefficient of a sum or product, and dict maps the terms of a    *)
(* sum to their coefficients, the bases of a product to their exponents.   *)
(*                                                                         *)
(* The numbers are exact rationals: no floats, complexes or infinities, so *)
(* roots of negative numbers and powers of zero are left to the guards.    *)
(* The order of a dictionary is that of hashes, any order, here CHOOSE's.  *)
(***************************************************************************)
EXTENDS Integers, Sequences, FiniteSets, TLC, SequencesExt

CONSTANTS Starts,       \* expressions a computation starts from
          Operands,     \* expressions it adds or multiplies by
          Exponents,    \* expressions it raises to
          Depth,        \* bound on the operations of a computation
          Valuations    \* what the symbols stand for: sets of symbol -> Nat

VARIABLES expr,         \* the expression built so far
          meaning,      \* its value under each valuation, by plain arithmetic
          depth         \* operations done

vars == <<expr, meaning, depth>>

-----------------------------------------------------------------------------
\* Rational numbers: <<numerator, denominator>>, lowest terms.

Abs(n) == IF n < 0 THEN -n ELSE n

RECURSIVE GcdOf(_, _)
GcdOf(a, b) == IF b = 0 THEN a ELSE GcdOf(b, a % b)

Ratio(n, d) ==
    LET g == GcdOf(Abs(n), Abs(d))
        s == IF d < 0 THEN -1 ELSE 1
    IN <<s * (n \div g), s * (d \div g)>>

RPlus(a, b) == Ratio(a[1] * b[2] + b[1] * a[2], a[2] * b[2])
RTimes(a, b) == Ratio(a[1] * b[1], a[2] * b[2])
RPower(a, n) == IF n >= 0 THEN Ratio(a[1]^n, a[2]^n)
                          ELSE Ratio(a[2]^(-n), a[1]^(-n))

-----------------------------------------------------------------------------
\* Nodes.

None == <<>>
Number(q) == [sort |-> "number", num |-> q, dict |-> None]
Whole(n) == Number(<<n, 1>>)
zero == Whole(0)
one == Whole(1)
Symbol(s) == [sort |-> s, num |-> <<1, 1>>, dict |-> None]
SumNode(coef, d) == [sort |-> "sum", num |-> coef, dict |-> d]
ProductNode(coef, d) == [sort |-> "product", num |-> coef, dict |-> d]
PowerNode(b, e) == [sort |-> "power", num |-> <<1, 1>>, dict |-> b :> e]

IsNumber(e) == e.sort = "number"
IsInteger(e) == IsNumber(e) /\ e.num[2] = 1
IsRational(e) == IsNumber(e) /\ e.num[2] # 1
IsSum(e) == e.sort = "sum"
IsProduct(e) == e.sort = "product"
IsPower(e) == e.sort = "power"

KeyOf(d) == CHOOSE k \in DOMAIN d : TRUE
BaseOf(p) == KeyOf(p.dict)
ExponentOf(p) == p.dict[BaseOf(p)]
Put(d, k, v) == (k :> v) @@ d
Without(d, k) == Restrict(d, DOMAIN d \ {k})
InOrder(S) == FoldSet(LAMBDA e, list : Append(list, e), <<>>, S)

-----------------------------------------------------------------------------
\* What the nodes promise of themselves: the assertions of the constructors.

\* Add::is_canonical.
SumCanonical(coef, d) ==
    /\ DOMAIN d # {}
    /\ Cardinality(DOMAIN d) = 1 => coef[1] # 0
    /\ \A t \in DOMAIN d : /\ ~IsNumber(t)
                           /\ d[t] # zero
                           /\ IsProduct(t) => t.num = <<1, 1>>

\* Mul::is_canonical.
ProductCanonical(coef, d) ==
    /\ coef[1] # 0
    /\ DOMAIN d # {}
    /\ Cardinality(DOMAIN d) = 1 => coef # <<1, 1>>
    /\ \A b \in DOMAIN d :
         /\ ~(IsNumber(b) /\ IsInteger(d[b]))
         /\ b \notin {zero, one}
         /\ d[b] # zero
         /\ IsProduct(b) => /\ ~IsInteger(d[b])
                            /\ IsNumber(d[b]) => b.num \in {<<1, 1>>, <<-1, 1>>}
         /\ ~(IsPower(b) /\ IsInteger(d[b]))

\* Pow::is_canonical.
PowerCanonical(b, e) ==
    \/ b = zero /\ ~IsNumber(e)
    \/ /\ b \notin {zero, one}
       /\ e \notin {zero, one}
       /\ ~(IsInteger(e) /\ (IsNumber(b) \/ IsProduct(b) \/ IsPower(b)))
       /\ IsNumber(b) /\ IsRational(e) => e.num[1] \in 0 .. e.num[2]

RECURSIVE IsCanonical(_)
IsCanonical(e) ==
    /\ IsSum(e) => SumCanonical(e.num, e.dict)
    /\ IsProduct(e) => ProductCanonical(e.num, e.dict)
    /\ IsPower(e) => PowerCanonical(BaseOf(e), ExponentOf(e))
    /\ \A k \in DOMAIN e.dict : IsCanonical(k) /\ IsCanonical(e.dict[k])

-----------------------------------------------------------------------------
\* Sums.

\* Mul::from_dict: the expression that is a coefficient times a dictionary.
ProductFrom(coef, d) ==
    LET b == KeyOf(d)
    IN CASE coef[1] = 0 \/ DOMAIN d = {} -> Number(coef)
         [] coef[1] # 0 /\ Cardinality(DOMAIN d) = 1 /\ coef = <<1, 1>> ->
              IF d[b] = one THEN b ELSE PowerNode(b, d[b])
         [] OTHER -> ProductNode(coef, d)

\* Add::from_dict.  A product that is the only term lends its dictionary.
SumFrom(coef, d) ==
    LET t == KeyOf(d)
    IN CASE DOMAIN d = {} -> Number(coef)
         [] Cardinality(DOMAIN d) = 1 /\ coef[1] = 0 ->
              CASE d[t] = zero -> zero
                [] d[t] = one -> t
                [] d[t] \notin {zero, one} /\ IsProduct(t) ->
                     ProductFrom(d[t].num, t.dict)
                [] d[t] \notin {zero, one} /\ IsPower(t) ->
                     ProductNode(d[t].num, t.dict)
                [] OTHER -> ProductNode(d[t].num, t :> one)
         [] OTHER -> SumNode(coef, d)

SumOf(sum) == SumFrom(sum.coef, sum.dict)

\* A slip: a term that cancels stays, with coefficient zero.
AddTermKept(d, c, t) ==
    IF t \in DOMAIN d THEN Put(d, t, Number(RPlus(d[t].num, c)))
    ELSE IF c[1] = 0 THEN d ELSE Put(d, t, Number(c))

\* Add::dict_add_term: c * t into a dictionary of terms.
AddTerm(d, c, t) ==
    LET sum == IF t \in DOMAIN d THEN RPlus(d[t].num, c) ELSE c
    IN IF sum[1] = 0 THEN Without(d, t) ELSE Put(d, t, Number(sum))

RECURSIVE AddTerms(_, _)
AddTerms(d, terms) ==
    IF DOMAIN terms = {} THEN d
    ELSE LET t == KeyOf(terms)
         IN AddTerms(AddTerm(d, terms[t].num, t), Without(terms, t))

\* Add::as_coef_term: the coefficient and the rest.
CoefOf(e) == IF IsNumber(e) \/ IsProduct(e) THEN e.num ELSE <<1, 1>>
TermOf(e) == CASE IsNumber(e) -> one
               [] IsProduct(e) -> ProductFrom(<<1, 1>>, e.dict)
               [] OTHER -> e

\* A slip: the number of a sum is taken for that of the start.
AddOperandTerms(sum, e) ==
    CASE IsSum(e) -> [sum EXCEPT !.dict = AddTerms(@, e.dict)]
      [] IsNumber(e) -> [sum EXCEPT !.coef = RPlus(@, e.num)]
      [] OTHER -> [sum EXCEPT !.dict = AddTerm(@, CoefOf(e), TermOf(e))]

\* One operand of add into a sum under way (the cases of add).
AddOperand(sum, e) ==
    CASE IsSum(e) -> [coef |-> RPlus(sum.coef, e.num),
                      dict |-> AddTerms(sum.dict, e.dict)]
      [] IsNumber(e) -> [sum EXCEPT !.coef = RPlus(@, e.num)]
      [] OTHER -> [sum EXCEPT !.dict = AddTerm(@, CoefOf(e), TermOf(e))]

NoTerms == [coef |-> <<0, 1>>, dict |-> None]

\* A dictionary whose term one is the number of the sum.
SumOfTerms(d) == SumFrom(IF one \in DOMAIN d THEN d[one].num ELSE <<0, 1>>,
                         Without(d, one))

\* add(a, b).  Two operands that are not sums go through the term one, whose
\* coefficient is taken out again; a sum is the start for the other operand.
Plus(a, b) ==
    IF IsSum(a) \/ IsSum(b)
    THEN LET first == IF IsSum(a) THEN a ELSE b
             other == IF IsSum(a) THEN b ELSE a
         IN SumOf(AddOperand([coef |-> first.num, dict |-> first.dict], other))
    ELSE SumOfTerms(AddTerm(AddTerm(None, CoefOf(a), TermOf(a)), CoefOf(b), TermOf(b)))

\* add(vec): coef_dict_add_term for each operand.
PlusAll(es) ==
    LET Step[i \in 0 .. Len(es)] ==
          IF i = 0 THEN NoTerms ELSE AddOperand(Step[i - 1], es[i])
    IN SumOf(Step[Len(es)])

-----------------------------------------------------------------------------
\* Products and powers.  A product under way is [coef, dict].

Unit == [coef |-> <<1, 1>>, dict |-> None]
ProductOf(acc) == ProductFrom(acc.coef, acc.dict)
Scale(acc, q) == [acc EXCEPT !.coef = RTimes(@, q)]

\* Mul::as_base_exp.
ProperBase(e) == IF IsPower(e) THEN BaseOf(e)
                 ELSE IF IsRational(e) /\ Abs(e.num[1]) < e.num[2]
                      THEN Number(RPower(e.num, -1)) ELSE e
ProperExponent(e) == IF IsPower(e) THEN ExponentOf(e)
                     ELSE IF IsRational(e) /\ Abs(e.num[1]) < e.num[2]
                          THEN Whole(-1) ELSE one

RootsOf(n, k) == {r \in 0 .. n : r^k = n}

RECURSIVE Times(_, _), MulTerm(_, _, _), MulTerms(_, _), MulFactor(_, _),
          PowerNum(_, _, _), PowerNumAll(_, _, _), IntegerRoot(_, _),
          RationalRoot(_, _), Power(_, _)

\* Rational::rpowrat: an integer n > 0 to a rational power q.
IntegerRoot(n, q) ==
    LET roots == RootsOf(n, q[2])
        whole == q[1] \div q[2]
    IN CASE n = 1 -> one
         [] n # 1 /\ roots # {} -> Number(RPower(<<CHOOSE r \in roots : TRUE, 1>>, q[1]))
         [] OTHER -> ProductFrom(RPower(<<n, 1>>, whole),
                                 Whole(n) :> Number(Ratio(q[1] % q[2], q[2])))

\* Rational::powrat.
RationalRoot(t, q) == Times(IntegerRoot(t[1], q), IntegerRoot(t[2], <<-q[1], q[2]>>))

\* rpowrat for an integer, powrat for a rational.
RootOf(t, q) == IF t[2] = 1 THEN IntegerRoot(t[1], q) ELSE RationalRoot(t, q)

\* A number of the dictionary whose exponent makes it a root, or its root.
MulRoot(rest, kept, root) ==
    CASE IsNumber(root) -> Scale(rest, root.num)
      [] IsProduct(root) -> MulTerms(Scale(rest, root.num), root.dict)
      [] OTHER -> kept

\* t, which may be known, gets the exponent sum.
SetTerm(acc, t, sum) ==
    LET known == t \in DOMAIN acc.dict
        rest == [acc EXCEPT !.dict = Without(@, t)]
        kept == [acc EXCEPT !.dict = Put(@, t, sum)]
    IN CASE IsNumber(t) /\ IsInteger(sum) -> Scale(rest, RPower(t.num, sum.num[1]))
         [] IsNumber(t) /\ IsRational(sum) -> MulRoot(rest, kept, RootOf(t.num, sum.num))
         [] ~IsNumber(t) /\ known /\ sum = zero -> rest
         [] /\ IsProduct(t) /\ known /\ IsNumber(sum) /\ sum # zero
            /\ IsInteger(sum) \/ t.num \notin {<<1, 1>>, <<-1, 1>>} ->
              PowerNum(t, rest, sum)
         [] OTHER -> kept

\* Mul::dict_add_term_new: t to the e into a product under way.
MulTerm(acc, e, t) ==
    SetTerm(acc, t, IF t \in DOMAIN acc.dict THEN Plus(acc.dict[t], e) ELSE e)

MulTerms(acc, d) ==
    IF DOMAIN d = {} THEN acc
    ELSE LET t == KeyOf(d) IN MulTerms(MulTerm(acc, d[t], t), Without(d, t))

\* One operand of mul (the cases of mul, and the loop of mul(vec)).
MulFactor(acc, e) ==
    CASE IsProduct(e) -> MulTerms(Scale(acc, e.num), e.dict)
      [] IsNumber(e) -> Scale(acc, e.num)
      [] OTHER -> MulTerm(acc, ProperExponent(e), ProperBase(e))

\* mul(a, b): a product is the start for the other operand.
Times(a, b) ==
    LET first == IF IsProduct(a) \/ ~IsProduct(b) THEN a ELSE b
        other == IF IsProduct(a) \/ ~IsProduct(b) THEN b ELSE a
        start == IF IsProduct(first) THEN [coef |-> first.num, dict |-> first.dict]
                                     ELSE MulFactor(Unit, first)
    IN ProductOf(MulFactor(start, other))

\* mul(vec).
TimesAll(es) ==
    LET Step[i \in 0 .. Len(es)] ==
          IF i = 0 THEN Unit ELSE MulFactor(Step[i - 1], es[i])
    IN ProductOf(Step[Len(es)])

Neg(e) == Times(Whole(-1), e)
Minus(a, b) == Plus(a, Times(Whole(-1), b))

\* A slip: the sign is taken out of the root with the coefficient.
PowerNumUnsigned(m, acc, e) ==
    CASE e = zero -> acc
      [] IsInteger(e) /\ e # zero ->
           MulFactor(PowerNumAll(m.dict, acc, e), Power(Number(m.num), e))
      [] OTHER -> MulFactor(MulTerm(acc, e, ProductFrom(<<1, 1>>, m.dict)),
                            Power(Number(<<Abs(m.num[1]), m.num[2]>>), e))

\* Mul::power_num: the product m to a number, into a product under way.
PowerNum(m, acc, e) ==
    LET negative == m.num[1] < 0
        unit == m.num \in {<<1, 1>>, <<-1, 1>>}
        size == Number(<<Abs(m.num[1]), m.num[2]>>)
        sign == IF negative THEN <<-1, 1>> ELSE <<1, 1>>
    IN CASE e = zero -> acc
         [] IsInteger(e) /\ e # zero ->
              MulFactor(PowerNumAll(m.dict, acc, e), Power(Number(m.num), e))
         [] ~IsInteger(e) /\ unit -> MulTerm(acc, e, m)
         [] OTHER -> MulFactor(MulTerm(acc, e, ProductFrom(sign, m.dict)),
                               Power(size, e))

MulPower(b, acc, e) == IF IsInteger(e) /\ IsProduct(b) THEN PowerNum(b, acc, e)
                                                      ELSE MulTerm(acc, e, b)

PowerNumAll(d, acc, e) ==
    IF DOMAIN d = {} THEN acc
    ELSE LET b == KeyOf(d)
         IN PowerNumAll(Without(d, b), MulPower(b, acc, Times(d[b], e)), e)

\* pow(a, b).
Power(a, b) ==
    CASE b = zero -> one
      [] b = one -> a
      [] b \notin {zero, one} /\ a = one -> one
      [] b \notin {zero, one} /\ a # one /\ IsNumber(a) /\ IsInteger(b) ->
           Number(RPower(a.num, b.num[1]))
      [] b \notin {zero, one} /\ a # one /\ IsNumber(a) /\ IsRational(b) ->
           RootOf(a.num, b.num)
      [] b \notin {zero, one} /\ IsProduct(a) /\ IsNumber(b) ->
           ProductOf(PowerNum(a, Unit, b))
      [] b \notin {zero, one} /\ IsPower(a) /\ IsInteger(b) ->
           Power(BaseOf(a), Times(ExponentOf(a), b))
      [] /\ b \notin {zero, one} /\ IsPower(a) /\ ~IsInteger(b)
         /\ ExponentOf(a) = Whole(-1) -> Power(BaseOf(a), Neg(b))
      [] OTHER -> PowerNode(a, b)

\* div(a, b), of a b that is not zero.
Over(a, b) == Times(a, Power(b, Whole(-1)))

\* get_args of a sum and of a product.
Args(e) ==
    LET terms == {SumFrom(<<0, 1>>, t :> e.dict[t]) : t \in DOMAIN e.dict}
        factors == {IF e.dict[b] = one THEN b ELSE PowerNode(b, e.dict[b]) :
                      b \in DOMAIN e.dict}
    IN CASE IsSum(e) -> terms \union (IF e.num[1] = 0 THEN {} ELSE {Number(e.num)})
         [] IsProduct(e) -> factors \union (IF e.num = <<1, 1>> THEN {} ELSE {Number(e.num)})
         [] OTHER -> {e}

-----------------------------------------------------------------------------
(***************************************************************************)
(* Plain arithmetic, to compare with.  The squares of the field of 479     *)
(* elements are closed under products and powers, each is the square of    *)
(* just one of them, -1 is none and the numbers up to 12 are: they do for  *)
(* the positive reals.  Their exponents count modulo 239, whose squares    *)
(* have exponents modulo 119.  A value is Bad where the arithmetic leaves  *)
(* this: a division by zero, a root of what is no square.                  *)
(***************************************************************************)

Field == 479
ExponentsOf(p) == (p - 1) \div 2
Bad == -1

RECURSIVE Raised(_, _, _)
Raised(a, n, p) == IF n = 0 THEN 1 % p
                   ELSE LET h == Raised(a, n \div 2, p)
                        IN (h * h * (IF n % 2 = 1 THEN a ELSE 1)) % p

IsSquare(a, p) == a # 0 /\ Raised(a, ExponentsOf(p), p) = 1
InverseIn(a, p) == IF \E b \in 1 .. p - 1 : (a * b) % p = 1
                   THEN CHOOSE b \in 1 .. p - 1 : (a * b) % p = 1 ELSE Bad

PlusIn(a, b, p) == IF Bad \in {a, b} THEN Bad ELSE (a + b) % p
TimesIn(a, b, p) == IF Bad \in {a, b} THEN Bad ELSE (a * b) % p
RatioIn(q, p) == TimesIn(q[1] % p, InverseIn(q[2] % p, p), p)

\* a to the expression e, whose value as an exponent is k.
PowerIn(a, e, k, p) ==
    CASE a = Bad -> Bad
      [] a # Bad /\ IsInteger(e) ->
           IF e.num[1] >= 0 THEN Raised(a, e.num[1], p)
           ELSE IF InverseIn(a, p) = Bad THEN Bad
           ELSE Raised(InverseIn(a, p), -e.num[1], p)
      [] OTHER -> IF k # Bad /\ p \in {479, 239} /\ IsSquare(a, p)
                  THEN Raised(a, k, p) ELSE Bad

RECURSIVE ValueIn(_, _, _)
ValueIn(e, v, p) ==
    LET At(x) == ValueIn(x, v, p)
        Pow(b, n) == PowerIn(At(b), n, IF IsInteger(n) \/ p = 119 THEN Bad
                                       ELSE ValueIn(n, v, ExponentsOf(p)), p)
    IN CASE IsNumber(e) -> RatioIn(e.num, p)
         [] IsSum(e) -> FoldFunctionOnSet(LAMBDA a, b : PlusIn(a, b, p), RatioIn(e.num, p),
                           [t \in DOMAIN e.dict |-> TimesIn(At(t), RatioIn(e.dict[t].num, p), p)],
                           DOMAIN e.dict)
         [] IsProduct(e) -> FoldFunctionOnSet(LAMBDA a, b : TimesIn(a, b, p), RatioIn(e.num, p),
                           [t \in DOMAIN e.dict |-> Pow(t, e.dict[t])], DOMAIN e.dict)
         [] IsPower(e) -> Pow(BaseOf(e), ExponentOf(e))
         [] OTHER -> v[e.sort] % p

ValueAt(e, v) == ValueIn(e, v, Field)

-----------------------------------------------------------------------------
\* A computation: an expression taken through Depth operations of the library.

Init == /\ expr \in Starts
        /\ meaning = [v \in Valuations |-> ValueAt(expr, v)]
        /\ depth = 0

\* The library builds next; plain arithmetic makes At(v) of it.
Becomes(next, At(_)) == /\ depth < Depth
                        /\ depth' = depth + 1
                        /\ expr' = next
                        /\ meaning' = [v \in Valuations |-> At(v)]

CallAdd(o) == Becomes(Plus(expr, o), LAMBDA v : PlusIn(meaning[v], ValueAt(o, v), Field))

CallSub(o) == Becomes(Minus(o, expr),
    LAMBDA v : PlusIn(ValueAt(o, v), TimesIn(Field - 1, meaning[v], Field), Field))

CallMul(o) == Becomes(Times(expr, o), LAMBDA v : TimesIn(meaning[v], ValueAt(o, v), Field))

\* Division by zero is another matter: ComplexInf.
CallDiv(o) == /\ expr # zero
              /\ Becomes(Over(o, expr), LAMBDA v :
                   TimesIn(ValueAt(o, v), PowerIn(meaning[v], Whole(-1), Bad, Field), Field))

\* Roots of negative numbers are complex, and zero has a rule of its own.
CallPow(e) == /\ IsNumber(expr) => expr.num[1] > 0 \/ (expr.num[1] < 0 /\ IsInteger(e))
              /\ Becomes(Power(expr, e), LAMBDA v :
                   PowerIn(meaning[v], e, ValueIn(e, v, ExponentsOf(Field)), Field))

\* The vector forms.
CallAddAll(o) == Becomes(PlusAll(<<expr, o, expr>>), LAMBDA v :
    PlusIn(PlusIn(meaning[v], ValueAt(o, v), Field), meaning[v], Field))

CallMulAll(o) == Becomes(TimesAll(<<expr, o, expr>>), LAMBDA v :
    TimesIn(TimesIn(meaning[v], ValueAt(o, v), Field), meaning[v], Field))

Next == \/ \E o \in Operands : \/ CallAdd(o) \/ CallSub(o) \/ CallMul(o)
                               \/ CallDiv(o) \/ CallAddAll(o) \/ CallMulAll(o)
        \/ \E e \in Exponents : CallPow(e)

Spec == Init /\ [][Next]_vars

-----------------------------------------------------------------------------

\* The two forms that escape: a power under a power whose exponents add up to
\* an integer, and a fraction to a rational power that its root turns over.
OddFactor(b, e) == \/ IsPower(b) /\ IsInteger(e)
                   \/ IsRational(b) /\ IsRational(e)

RECURSIVE IsOdd(_)
IsOdd(e) ==
    \/ (IsProduct(e) \/ IsPower(e)) /\ \E b \in DOMAIN e.dict : OddFactor(b, e.dict[b])
    \/ \E k \in DOMAIN e.dict : IsOdd(k) \/ IsOdd(e.dict[k])

\* Whatever is built passes the assertions of the constructors of its nodes
\* (Add::is_canonical, Mul::is_canonical, Pow::is_canonical), all the way down,
\* but for the two forms that escape (mul.cpp:278).
FormKept == IsOdd(expr) \/ IsCanonical(expr)

\* Rewriting into canonical form never changes a value: where plain arithmetic
\* has one, the expression the library built has the same.
ValueKept == \A v \in Valuations : meaning[v] # Bad => ValueAt(expr, v) = meaning[v]

\* Equal sums and equal products are one expression, whichever side an operand
\* comes from and whether the two-operand or the vector function is called.
SameForm == \A o \in Operands : /\ Plus(expr, o) = Plus(o, expr)
                                /\ Plus(expr, o) = PlusAll(<<o, expr>>)
                                /\ Times(expr, o) = Times(o, expr)
                                /\ Times(expr, o) = TimesAll(<<o, expr>>)

\* A sum can become a term of a sum, when its coefficient cancels down to one.
SumInSum(e) == IsSum(e) /\ \E t \in DOMAIN e.dict : IsSum(t) /\ e.dict[t] = one

\* add and mul of the arguments of a sum and a product, which is how every
\* visitor rebuilds an expression, give the same expression back: but for the
\* odd forms, and sums within sums, which are merged only then.
Rebuilt == /\ IsSum(expr) => \/ SumInSum(expr)
                             \/ PlusAll(InOrder(Args(expr))) = expr
           /\ IsProduct(expr) => \/ IsOdd(expr)
                                 \/ TimesAll(InOrder(Args(expr))) = expr

\* One expression for one sum or product, from whatever side it is reached.
OneForm == SameForm /\ Rebuilt
=============================================================================
