----------------------------- MODULE Elementary -----------------------------
(***************************************************************************)
(* Elementary functions (functions.cpp): what sin, cos, tan, cot, sec and  *)
(* csc do with multiples of pi and signs in their argument, the tables of  *)
(* sines and of angles, hyperbolic functions, functions of inverse         *)
(* functions, and the roundings.                                           *)
(*                                                                         *)
(* sin calls cos, which calls sin, and so on until the argument is in      *)
(* canonical form: each call is a step.  The others answer at once.        *)
(*                                                                         *)
(* An argument is a sum of pi, x, y and a number with complex              *)
(* coefficients, pairs <<re, im>>; the coefficient of pi counts 120ths.    *)
(* Values are compared modulo 241, where a generator stands for            *)
(* e^(i pi/120): the square roots in the tables are numbers there, and     *)
(* identities between functions are identities.  A value is a pair of a    *)
(* numerator and a denominator, since poles are values too.                *)
(***************************************************************************)
EXTENDS Integers, Sequences, FiniteSets, SequencesExt

CONSTANTS Questions,    \* the calls that are checked
          Worlds,       \* [term -> the values of its real and its imaginary multiple, as exponents]
          Powers        \* of a generator modulo 241, by the exponents 0 to 239

VARIABLES question, answer

vars == <<question, answer>>

D == 120
Atoms == {"pi", "x", "y"}
Terms == Atoms \cup {"1"}
Nil == <<0, 0>>
ZeroArg == [t \in Terms |-> Nil]
Negated(a) == [t \in Terms |-> <<-a[t][1], -a[t][2]>>]
Absolute(n) == IF n < 0 THEN -n ELSE n

-----------------------------------------------------------------------------
(* Arguments *)

\* could_extract_minus of a coefficient, and of an expression: the first term
\* in the order of the dictionary decides where there is no number.
NegativeNumber(c) == c[1] < 0 \/ (c[1] = 0 /\ c[2] < 0)
CouldExtractMinus(a, order) ==
    IF a["1"] # Nil THEN NegativeNumber(a["1"])
    ELSE \E i \in DOMAIN order : /\ NegativeNumber(a[order[i]])
                                 /\ \A j \in 1..(i - 1) : a[order[j]] = Nil

HandleMinus(a, order) ==
    IF CouldExtractMinus(a, order) THEN [minus |-> TRUE, arg |-> Negated(a)]
                                   ELSE [minus |-> FALSE, arg |-> a]

\* get_pi_shift: a rational multiple of pi, or nothing at all
HasPiShift(a) == a = ZeroArg \/ (a["pi"] # Nil /\ a["pi"][2] = 0)

\* trig_has_basic_shift
HasBasicShift(a) ==
    \/ a = ZeroArg
    \/ /\ HasPiShift(a)
       /\ (2 * a["pi"][1]) % D = 0 \/ a["pi"][1] < 0 \/ 2 * a["pi"][1] > D

-----------------------------------------------------------------------------
(* Trigonometric functions *)

Function(period, odd, conjOdd, conj) ==
    [period |-> period, odd |-> odd, conjOdd |-> conjOdd, conj |-> conj]

Sin == Function(2, TRUE, FALSE, "cos")
\* A slip: the sign that the sine takes over is forgotten.
CosForgetsSign == Function(2, FALSE, FALSE, "sin")
Cos == Function(2, FALSE, TRUE, "sin")
Tan == Function(1, TRUE, TRUE, "cot")
Cot == Function(1, TRUE, TRUE, "tan")
Sec == Function(2, FALSE, TRUE, "csc")
Csc == Function(2, TRUE, FALSE, "sec")
Trig == [sin |-> Sin, cos |-> Cos, tan |-> Tan, cot |-> Cot, sec |-> Sec, csc |-> Csc]
Trigonometric == DOMAIN Trig

Simplified(conj, sign, arg, index) == [conj |-> conj, sign |-> sign, arg |-> arg, index |-> index]
Sign(negative) == IF negative THEN -1 ELSE 1

\* trig_simplify.  A whole multiple of pi is not reduced to a period: what is
\* left of it is then taken off by the next call.
TrigSimplify(a, f, order) ==
    LET k == a["pi"][1]
        rest == [a EXCEPT !["pi"] = Nil]
        m == (k \div 10) % (12 * f.period)
        shift == IF k % D = 0 THEN Absolute(k) ELSE k % (D * f.period)
        Rest(j) == [a EXCEPT !["pi"] = <<j, 0>>]
        plain == HandleMinus(a, order)
        bare == HandleMinus(rest, order)
        half == HandleMinus(Rest(shift - D), order)
        quarter == HandleMinus(Rest(IF shift < D THEN shift - D \div 2 ELSE shift - (3 * D) \div 2), order)
    IN CASE ~HasPiShift(a) -> Simplified(FALSE, Sign(f.odd /\ plain.minus), plain.arg, -1)
         [] HasPiShift(a) /\ k % 10 = 0 /\ rest = ZeroArg -> Simplified(FALSE, 1, ZeroArg, m)
         [] HasPiShift(a) /\ k % 10 = 0 /\ rest # ZeroArg /\ m = 0 ->
              Simplified(FALSE, Sign(f.odd /\ bare.minus), bare.arg, 0)
         [] OTHER ->
              CASE shift >= D /\ 2 * shift < 3 * D ->
                     Simplified(FALSE, -Sign(f.odd /\ half.minus), half.arg, -1)
                [] 2 * shift < D -> Simplified(FALSE, 1, Rest(shift), -1)
                [] OTHER -> Simplified(TRUE, Sign(shift >= D) * Sign(~quarter.minus /\ f.conjOdd),
                                       quarter.arg, -1)

\* A call that is still to come, a node that was made, or an entry of the table.
Result(state, sign, fn, arg, index) ==
    [state |-> state, sign |-> sign, fn |-> fn, arg |-> arg, index |-> index]

\* sin, cos, tan, cot, sec, csc
TrigStep(r, order) ==
    LET s == TrigSimplify(r.arg, Trig[r.fn], order)
        sign == r.sign * s.sign
    IN CASE s.conj -> Result("call", sign, Trig[r.fn].conj, s.arg, -1)
         [] ~s.conj /\ s.arg = ZeroArg -> Result("entry", sign, r.fn, ZeroArg, s.index)
         [] ~s.conj /\ s.arg # ZeroArg /\ s.sign = 1 /\ s.arg = r.arg ->
              Result("node", sign, r.fn, r.arg, -1)
         [] OTHER -> Result("call", sign, r.fn, s.arg, -1)

-----------------------------------------------------------------------------
(* Inverse functions of numbers with a known angle.  A number is a name in  *)
(* the source and a sign; asec and acsc look the reciprocal up.             *)

\* The name and the angle of sin_table()[n], and of [n + 6]
SinTable == <<"zero", "C0", "C1", "C2", "C3", "C4", "one">>
SineOf(n) == LET quarter == IF n % 12 <= 6 THEN n % 12 ELSE 12 - (n % 12)
             IN [name |-> SinTable[quarter + 1], sign |-> Sign(n % 24 > 12)]

\* inverse_cst, inverse_tct: pi over what, as a fraction
InverseCst == [C3 |-> <<3, 1>>, C2 |-> <<4, 1>>, C4 |-> <<12, 1>>, C5 |-> <<5, 1>>,
               C6 |-> <<10, 1>>, C1 |-> <<6, 1>>]
InverseTct == [one_by_sq3 |-> <<6, 1>>, sq3 |-> <<3, 1>>, one_plus_sq2 |-> <<8, 3>>,
               sq2_minus_one |-> <<8, 1>>, two_minus_sq3 |-> <<12, 1>>,
               root_5_plus_2_sq5 |-> <<5, 2>>, one |-> <<4, 1>>]

PiOver(index) == (D * index[2]) \div index[1]
Angle(k) == [state |-> "angle", k |-> k]
Unknown == [state |-> "node", k |-> 0]

\* A table has a number with either sign.
LookUp(table, v) == IF v.name \in DOMAIN table THEN Angle(v.sign * PiOver(table[v.name])) ELSE Unknown

\* pi/2 less an angle that was found
Complement(found) == IF found = Unknown THEN Unknown ELSE Angle(D \div 2 - found.k)

\* asin, acsc
ArcSine(v) == IF v.name = "zero" THEN Angle(0)
              ELSE IF v.name = "one" THEN Angle(v.sign * (D \div 2))
              ELSE LookUp(InverseCst, v)

\* acos, asec
ArcCosine(v) == IF v.name = "zero" THEN Angle(D \div 2)
                ELSE IF v.name = "one" THEN Angle(IF v.sign = 1 THEN 0 ELSE D)
                ELSE Complement(LookUp(InverseCst, v))

\* atan
ArcTangent(v) == IF v.name = "zero" THEN Angle(0) ELSE LookUp(InverseTct, v)

\* acot
ArcCotangent(v) == IF v.name = "zero" THEN Angle(D \div 2) ELSE Complement(LookUp(InverseTct, v))

\* atan2 of v * t and t, where t has a sign; num and den say which are zero.
ArcTangent2(v, sign) ==
    LET found == LookUp(InverseTct, v)
    IN IF v.name = "zero" THEN Angle(IF sign < 0 THEN D ELSE 0)
       ELSE IF found = Unknown THEN Unknown
       ELSE IF found.k > 0 THEN Angle(found.k + (D \div 2) * (sign - 1))
       ELSE Angle(found.k - (D \div 2) * (sign - 1))

\* atan2 with zero for its second argument
ArcTangentUp(sign) == Angle(sign * (D \div 2))

InverseOf(fn, v) ==
    CASE fn \in {"asin", "acsc"} -> ArcSine(v)
      [] fn \in {"acos", "asec"} -> ArcCosine(v)
      [] fn = "atan" -> ArcTangent(v)
      [] fn = "acot" -> ArcCotangent(v)

-----------------------------------------------------------------------------
(* Functions of inverse functions: what f(g(x)) comes to, at once or by     *)
(* trig_to_sqrt, as x^p * (1 + s x^b)^(q/2).                                *)

Form(p, s, b, q) == [p |-> p, s |-> s, b |-> b, q |-> q]
Power(p) == Form(p, 1, 2, 0)

Composed ==
    [sin |-> [asin |-> Power(1), acsc |-> Power(-1), acos |-> Form(0, -1, 2, 1), atan |-> Form(1, 1, 2, -1),
              asec |-> Form(0, -1, -2, 1), acot |-> Form(-1, 1, -2, -1)],
     cos |-> [acos |-> Power(1), asec |-> Power(-1), asin |-> Form(0, -1, 2, 1), atan |-> Form(0, 1, 2, -1),
              acsc |-> Form(0, -1, -2, 1), acot |-> Form(0, 1, -2, -1)],
     tan |-> [atan |-> Power(1), acot |-> Power(-1), asin |-> Form(1, -1, 2, -1), acos |-> Form(-1, -1, 2, 1),
              acsc |-> Form(-1, -1, -2, -1), asec |-> Form(1, -1, -2, 1)],
     csc |-> [acsc |-> Power(1), asin |-> Power(-1), acos |-> Form(0, -1, 2, -1), atan |-> Form(-1, 1, 2, 1),
              asec |-> Form(0, -1, -2, -1), acot |-> Form(1, 1, -2, 1)],
     sec |-> [asec |-> Power(1), acos |-> Power(-1), asin |-> Form(0, -1, 2, -1), atan |-> Form(0, 1, 2, 1),
              acsc |-> Form(0, -1, -2, -1), acot |-> Form(0, 1, -2, 1)],
     cot |-> [acot |-> Power(1), atan |-> Power(-1), asin |-> Form(-1, -1, 2, 1), acos |-> Form(1, -1, 2, -1),
              acsc |-> Form(1, -1, -2, 1), asec |-> Form(-1, -1, -2, -1)]]

-----------------------------------------------------------------------------
(* Hyperbolic functions take a minus out of their argument.                 *)

Hyperbolic == {"sinh", "csch", "cosh", "sech", "tanh", "coth",
               "asinh", "acsch", "acosh", "asech", "atanh", "acoth"}
Even(fn) == fn \in {"cosh", "sech"}
KeepsSign(fn) == fn \in {"acosh", "asech"}

\* The arguments with a number or a logarithm for an answer
Known(fn, a) ==
    \/ a = ZeroArg /\ fn \notin {"acsch", "acosh", "acoth"}
    \/ a["1"] \in {<<1, 0>>, <<-1, 0>>} /\ [a EXCEPT !["1"] = Nil] = ZeroArg /\ fn \in {"asinh", "acsch"}
    \/ a["1"] = <<1, 0>> /\ [a EXCEPT !["1"] = Nil] = ZeroArg /\ KeepsSign(fn)

HyperbolicStep(r, order) ==
    LET m == HandleMinus(r.arg, order)
    IN CASE Known(r.fn, r.arg) -> Result("known", r.sign, r.fn, r.arg, -1)
         [] ~Known(r.fn, r.arg) /\ KeepsSign(r.fn) -> Result("node", r.sign, r.fn, r.arg, -1)
         [] ~Known(r.fn, r.arg) /\ m.minus /\ ~Even(r.fn) /\ ~KeepsSign(r.fn) ->
              Result("call", -r.sign, r.fn, m.arg, -1)
         [] OTHER -> Result("node", r.sign, r.fn, m.arg, -1)

Step(r, order) == IF r.fn \in Trigonometric THEN TrigStep(r, order) ELSE HyperbolicStep(r, order)

-----------------------------------------------------------------------------
(* Roundings.  Numbers are in quarters; a sum has a number and one more     *)
(* term, which stands for any.                                              *)

Number(n) == [sort |-> "number", n |-> n, of |-> <<>>]
Constant(name) == [sort |-> name, n |-> 0, of |-> <<>>]
Variable == Constant("x")
Rounded(fn, e) == [sort |-> fn, n |-> 0, of |-> <<e>>]
Sum(n, e) == IF n = 0 THEN e
             ELSE IF e.sort = "number" THEN Number(n + e.n)
             ELSE IF e.sort = "sum" THEN [e EXCEPT !.n = @ + n]
             ELSE [sort |-> "sum", n |-> n, of |-> <<e>>]

Roundings == {"floor", "ceiling", "truncate"}
\* pi, E, GoldenRatio, Catalan and EulerGamma are between these and the next.
ConstantFloor == [pi |-> 3, E |-> 2, GoldenRatio |-> 1, Catalan |-> 0, EulerGamma |-> 0]
ConstantRounded(fn, name) == 4 * (ConstantFloor[name] + IF fn = "ceiling" THEN 1 ELSE 0)

\* mp_fdiv_q, mp_cdiv_q, mp_tdiv_q
NumberRounded(fn, n) ==
    IF fn = "floor" \/ (fn = "truncate" /\ n >= 0) THEN 4 * (n \div 4) ELSE -(4 * ((-n) \div 4))

RoundTerm(fn, e) ==
    CASE e.sort = "number" -> Number(NumberRounded(fn, e.n))
      [] e.sort \in DOMAIN ConstantFloor -> Number(ConstantRounded(fn, e.sort))
      [] e.sort \in Roundings -> e
      [] OTHER -> Rounded(fn, e)

WholeSum(e) == e.sort = "sum" /\ e.n % 4 = 0

\* floor, ceiling, truncate: only floor rounds what is left of a sum again.
Round(fn, e) ==
    IF ~WholeSum(e) THEN RoundTerm(fn, e)
    ELSE Sum(e.n, IF fn = "floor" THEN RoundTerm(fn, e.of[1]) ELSE Rounded(fn, e.of[1]))

-----------------------------------------------------------------------------

Asked(op) == question.op = op

Init ==
    /\ question \in Questions
    /\ answer = IF question.op = "call" THEN Result("call", 1, question.fn, question.arg, -1)
                ELSE Unknown

CallStep == /\ Asked("call") /\ answer.state = "call"
            /\ answer' = Step(answer, question.order)
CallInverse == /\ Asked("inverse") /\ answer = Unknown
               /\ answer' = InverseOf(question.fn, question.v)
CallArcTangent2 == /\ Asked("atan2") /\ answer = Unknown
                   /\ answer' = IF question.v.name = "infinite" THEN ArcTangentUp(question.sign)
                                ELSE ArcTangent2(question.v, question.sign)
CallComposed == /\ Asked("composed") /\ answer = Unknown
                /\ answer' = Composed[question.fn][question.of]
CallRound == /\ Asked("round") /\ answer = Unknown
             /\ answer' = Round(question.fn, question.arg)

Next == /\ CallStep \/ CallInverse \/ CallArcTangent2 \/ CallComposed \/ CallRound
        /\ UNCHANGED question

Spec == Init /\ [][Next]_vars

-----------------------------------------------------------------------------
(* Values, modulo 241.  z stands for e^(i a), or for e^a.                   *)

Prime == 241
Gen(k) == Powers[(k % 240) + 1]

Exponent(a, w) == LET Of(t) == a[t][1] * w[t][1] + a[t][2] * w[t][2]
                  IN Of("pi") + Of("x") + Of("y") + Of("1")

ImagUnit == Gen(D \div 2)
Difference(L) == Gen(L) - Gen(-L)
Total(L) == Gen(L) + Gen(-L)
Sine(L) == Difference(L)                \* times 2i
Cosine(L) == (ImagUnit * Total(L)) % Prime    \* times 2i

TrigValue(fn, L) ==
    CASE fn = "sin" -> <<Sine(L), 2 * ImagUnit>>  [] fn = "csc" -> <<2 * ImagUnit, Sine(L)>>
      [] fn = "cos" -> <<Cosine(L), 2 * ImagUnit>> [] fn = "sec" -> <<2 * ImagUnit, Cosine(L)>>
      [] fn = "tan" -> <<Sine(L), Cosine(L)>>      [] fn = "cot" -> <<Cosine(L), Sine(L)>>

\* Some odd function stands for an inverse function that is odd.
HyperbolicValue(fn, L) ==
    CASE fn = "cosh" -> <<Total(L), 2>>          [] fn = "sech" -> <<2, Total(L)>>
      [] fn = "tanh" -> <<Difference(L), Total(L)>> [] fn = "coth" -> <<Total(L), Difference(L)>>
      [] fn = "csch" -> <<2, Difference(L)>>     [] fn \in {"acosh", "asech"} -> <<Gen(L), 1>>
      [] OTHER -> <<Difference(L), 2>>

Value(fn, L) == IF fn \in Trigonometric THEN TrigValue(fn, L) ELSE HyperbolicValue(fn, L)

Equal(r, q) == /\ (r[1] * q[2] - r[2] * q[1]) % Prime = 0
               /\ ~(r[1] % Prime = 0 /\ r[2] % Prime = 0) /\ ~(q[1] % Prime = 0 /\ q[2] % Prime = 0)
Scaled(sign, r) == <<sign * r[1], r[2]>>
Reciprocal(r) == <<r[2], r[1]>>
Times(r, q) == <<(r[1] * q[1]) % Prime, (r[2] * q[2]) % Prime>>
ToThe(r, n) == CASE n = 0 -> <<1, 1>> [] n = 1 -> r [] n = 2 -> Times(r, r)
                 [] n < 0 -> IF n = -1 THEN Reciprocal(r) ELSE Reciprocal(Times(r, r))
OnePlus(s, r) == <<r[2] + s * r[1], r[2]>>

Sq2 == Total(30)
Sq3 == Total(20)
Sq5 == 2 * Total(24) - 1
NumberValue ==
    [zero |-> <<0, 1>>, one |-> <<1, 1>>,
     C0 |-> <<Sq3 - 1, 2 * Sq2>>, C1 |-> <<1, 2>>, C2 |-> <<Sq2, 2>>, C3 |-> <<Sq3, 2>>,
     C4 |-> <<Sq3 + 1, 2 * Sq2>>, C6 |-> <<Sq5 - 1, 4>>,
     C5 |-> <<(((Sine(24) * Gen(-60)) % Prime) * Sq2) % Prime, 8>>,  \* 5 - Sq5 is the square of 2 Sq2 sin(pi/5)
     one_by_sq3 |-> <<1, Sq3>>, sq3 |-> <<Sq3, 1>>, one_plus_sq2 |-> <<Sq2 + 1, 1>>,
     sq2_minus_one |-> <<Sq2 - 1, 1>>, two_minus_sq3 |-> <<2 - Sq3, 1>>,
     root_5_plus_2_sq5 |-> TrigValue("tan", 48)]        \* 5 + 2 Sq5 is its square
Signed(v) == Scaled(v.sign, NumberValue[v.name])

\* The sign of a trigonometric function at an angle between -pi and pi
Signum(n) == IF n > 0 THEN 1 ELSE IF n < 0 THEN -1 ELSE 0
SineSign(k) == IF k = D THEN 0 ELSE Signum(k)
CosineSign(k) == Signum(D \div 2 - Absolute(k))
TrigSign(fn, k) == CASE fn \in {"sin", "csc"} -> SineSign(k) [] fn \in {"cos", "sec"} -> CosineSign(k)
                     [] OTHER -> SineSign(k) * CosineSign(k)

Direct(fn) == CASE fn = "asin" -> "sin" [] fn = "acos" -> "cos" [] fn = "atan" -> "tan"
                [] fn = "acot" -> "cot" [] fn = "acsc" -> "csc" [] fn = "asec" -> "sec"
ArcRange(fn) == CASE fn \in {"asin", "acsc"} -> (-D \div 2)..(D \div 2)
                  [] fn = "atan" -> (1 - D \div 2)..(D \div 2 - 1)
                  [] OTHER -> 0..D

RECURSIVE RoundValue(_, _)
RoundValue(e, env) ==
    CASE e.sort = "number" -> e.n
      [] e.sort = "sum" -> e.n + RoundValue(e.of[1], env)
      [] e.sort \in Roundings -> NumberRounded(e.sort, RoundValue(e.of[1], env))
      [] OTHER -> env[e.sort]

RECURSIVE RoundCanonical(_)
RoundCanonical(e) ==
    CASE e.sort = "sum" -> RoundCanonical(e.of[1])
      [] e.sort \in Roundings ->
           /\ e.of[1].sort \notin {"number"} \cup DOMAIN ConstantFloor \cup Roundings
           /\ ~WholeSum(e.of[1]) /\ RoundCanonical(e.of[1])
      [] OTHER -> TRUE

-----------------------------------------------------------------------------
(* Properties *)

EntryValue(fn, n) ==
    LET sine == Signed(SineOf(n))
        cosine == Signed(SineOf(n + 6))
    IN CASE fn = "sin" -> sine [] fn = "csc" -> Reciprocal(sine)
         [] fn = "cos" -> cosine [] fn = "sec" -> Reciprocal(cosine)
         [] fn = "tan" -> Times(sine, Reciprocal(cosine)) [] fn = "cot" -> Times(cosine, Reciprocal(sine))

ResultValue(r, w) ==
    Scaled(r.sign, IF r.state = "entry" THEN EntryValue(r.fn, r.index) ELSE Value(r.fn, Exponent(r.arg, w)))

\* Through all the calls of one another, the functions keep the value: no sign
\* and no quarter turn is lost, whichever term of the argument comes first.
CallsKeepValue ==
    Asked("call") =>
        \A w \in Worlds : Equal(ResultValue(answer, w), Value(question.fn, Exponent(question.arg, w)))

\* is_canonical
Canonical(r, order) ==
    IF r.fn \in Trigonometric THEN ~HasBasicShift(r.arg)
    ELSE KeepsSign(r.fn) \/ ~CouldExtractMinus(r.arg, order)

MaxCalls == 4
Again(r, order) == IF r.state = "call" THEN Step(r, order) ELSE r
Ended(r, order) == FoldLeft(LAMBDA q, i : Again(q, order), r, [i \in 1..MaxCalls |-> i])

\* The functions stop calling one another, at a canonical node.
CallsEnd ==
    Asked("call") => LET r == Ended(answer, question.order)
                     IN r.state # "call" /\ (r.state = "node" => Canonical(r, question.order))

\* Periods, however many, make no other expression.
NextPeriod(r, n) == [r EXCEPT !.arg["pi"][1] = @ + n * Trig[r.fn].period * D]
OneFormPerPeriod ==
    Asked("call") /\ answer.state = "call" /\ answer.fn \in Trigonometric /\ HasPiShift(answer.arg) =>
        \A n \in {-2, -1, 1, 2} :
            Ended(NextPeriod(answer, n), question.order) = Ended(answer, question.order)

\* An inverse function of a number answers with the one angle in its range whose
\* sine (cosine, tangent) the number is: "sin(asin(x)) = x" (test_functions.cpp:256).
ArcValue(fn) == CASE fn \in {"asin", "acsc"} -> "sin" [] fn \in {"acos", "asec"} -> "cos"
                  [] OTHER -> Direct(fn)
AnglesExact ==
    Asked("inverse") /\ answer.state = "angle" =>
        /\ answer.k \in ArcRange(question.fn)
        /\ Equal(TrigValue(ArcValue(question.fn), answer.k), Signed(question.v))

\* The two entries whose numbers are not the sines (functions.cpp:59, :61).
WrongEntry == Asked("inverse") /\ question.fn \notin {"atan", "acot"} /\ question.v.name \in {"C4", "C5"}

\* atan2 finds the quadrant.
QuadrantsExact ==
    Asked("atan2") /\ answer.state = "angle" =>
        IF question.v.name = "infinite" THEN answer.k = question.sign * (D \div 2)
        ELSE /\ answer.k \in (1 - D)..D
             /\ CosineSign(answer.k) = question.sign
             /\ Equal(TrigValue("tan", answer.k), Signed(question.v))

\* What a function of an inverse function comes to has its square and its sign,
\* at all angles between the ends of the range and zero.
ComposedAngles(of) == IF of \in {"acos", "asec"} THEN (1..(D - 1)) \ {D \div 2}
                      ELSE ((1 - D \div 2)..(D \div 2 - 1)) \ {0}
ComposedExact ==
    Asked("composed") /\ answer # Unknown =>
        \A k \in ComposedAngles(question.of) :
            LET x == TrigValue(Direct(question.of), k)
                base == OnePlus(answer.s, ToThe(x, answer.b))
            IN /\ Equal(ToThe(TrigValue(question.fn, k), 2), Times(ToThe(ToThe(x, answer.p), 2), ToThe(base, answer.q)))
               /\ TrigSign(question.fn, k) = IF answer.p = 0 THEN 1 ELSE TrigSign(Direct(question.of), k)

\* Roundings keep the value and make canonical nodes; but for truncate of a sum
\* whose parts have different signs (functions.cpp:853), and for ceiling and
\* truncate of a sum with something that is to be rounded at once.
RoundEnvs == {[x |-> q, pi |-> 13, E |-> 11, GoldenRatio |-> 6, Catalan |-> 3, EulerGamma |-> 2] : q \in -9..9}
RoundExact ==
    Asked("round") /\ answer # Unknown =>
        /\ \A env \in RoundEnvs :
              \/ question.fn = "truncate" /\ WholeSum(question.arg)
                 /\ question.arg.n * RoundValue(question.arg.of[1], env) < 0
              \/ RoundValue(answer, env) = NumberRounded(question.fn, RoundValue(question.arg, env))
        /\ \/ question.fn # "floor" /\ WholeSum(question.arg) /\ question.arg.of[1].sort # "x"
           \/ RoundCanonical(answer)

\* The roots that values are compared with are those the tables of the source
\* take (constants.cpp:70).
RootsExact == Asked("inverse") =>
    /\ Equal(Times(NumberValue.C5, NumberValue.C5), <<5 - Sq5, 64>>)
    /\ Equal(ToThe(NumberValue.root_5_plus_2_sq5, 2), <<5 + 2 * Sq5, 1>>)
    /\ (Sq2 * Sq2 - 2) % Prime = 0 /\ (Sq3 * Sq3 - 3) % Prime = 0 /\ (Sq5 * Sq5 - 5) % Prime = 0

\* Each function keeps its value, whoever it calls, and ends at one canonical
\* form (functions.cpp), but for the entries and the sums named above.
FunctionsExact == /\ RootsExact /\ CallsKeepValue /\ CallsEnd /\ OneFormPerPeriod
                  /\ (AnglesExact \/ WrongEntry) /\ QuadrantsExact /\ ComposedExact /\ RoundExact
=============================================================================
