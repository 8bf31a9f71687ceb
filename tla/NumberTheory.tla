---------------------------- MODULE NumberTheory ----------------------------
(***************************************************************************)
(* Factorisation, primitive roots, orders, and roots modulo an integer, as *)
(* ntheory.cpp computes them.  A behaviour is one call: a question, then   *)
(* its answer.  The functions of GMP that the code calls are defined by    *)
(* what they return; primes come from the sieve (module PrimeSieve).       *)
(***************************************************************************)
EXTENDS Integers, Sequences, FiniteSets, SequencesExt, FiniteSetsExt, TLC

CONSTANTS
    BruteForce,     \* below this prime, square roots are searched for (10000)
    Questions,      \* the calls: records with the name of a function in op
    Pending         \* the answer before there is one

VARIABLES question, answer

vars == <<question, answer>>

None == [found |-> FALSE]                   \* the function returned false
Found(r) == [found |-> TRUE, value |-> r]   \* it returned true and this

-----------------------------------------------------------------------------
(* Arithmetic of GMP and C++ *)

\* operator/ and operator% round toward zero.
Abs(a) == IF a < 0 THEN -a ELSE a
Quo(a, b) == IF (a < 0) = (b < 0) THEN Abs(a) \div Abs(b)
                                  ELSE -(Abs(a) \div Abs(b))
Rem(a, b) == a - b * Quo(a, b)

Bezout(e, q) == <<e[1], e[3], e[2] - q * e[3]>>
RECURSIVE GcdExt(_, _)
GcdExt(a, b) ==
    IF b = 0 THEN IF a < 0 THEN <<-a, -1, 0>> ELSE <<a, 1, 0>>
    ELSE Bezout(GcdExt(b, Rem(a, b)), Quo(a, b))
Gcd(a, b) == GcdExt(a, b)[1]
Lcm(a, b) == Abs(a * b) \div Gcd(a, b)

Invertible(a, m) == Gcd(a, m) = 1
Invert(a, m) == GcdExt(a, m)[2] % m

SquareTimes(h, b, m) == (((h * h) % m) * b) % m
RECURSIVE Power(_, _, _)
Power(b, e, m) ==
    IF e = 0 THEN 1 % m
    ELSE SquareTimes(Power(b, e \div 2, m), IF e % 2 = 0 THEN 1 ELSE b % m, m)
PowMod(b, e, m) == IF e >= 0 THEN Power(b, e, m) ELSE Power(Invert(b, m), -e, m)

RECURSIVE Above(_, _, _)        \* b^k > n, without computing b^k
Above(b, k, n) == IF k = 0 THEN 1 > n ELSE b > n \/ Above(b, k - 1, n \div b)
RECURSIVE RootFrom(_, _, _)
RootFrom(r, n, k) == IF Above(r + 1, k, n) THEN r ELSE RootFrom(r + 1, n, k)
Root(n, k) == RootFrom(0, n, k) \* rounded down
ISqrt(n) == Root(n, 2)
IsSquare(n) == ISqrt(n)^2 = n
IsPrime(n) == n > 1 /\ \A d \in 2..ISqrt(n) : n % d # 0
PrimesTo(n) == SelectSeq([i \in 1..n |-> i], IsPrime)
IsPower(n) == n < 2 \/ \E k \in 2..12 : 2^k <= n /\ Root(n, k)^k = n

RECURSIVE Times(_, _)           \* how often p divides n, n # 0
Times(n, p) == IF Rem(n, p) = 0 THEN 1 + Times(Quo(n, p), p) ELSE 0

Legendre(a, p) == ((Power(a % p, (p - 1) \div 2, p) + 1) % p) - 1

-----------------------------------------------------------------------------
(* Factorisation *)

TrialDivision(n) ==
    LET hits == SelectSeq(PrimesTo(ISqrt(n)), LAMBDA p : n % p = 0)
    IN  IF hits = <<>> THEN None ELSE Found(hits[1])

\* Lehman's method: small primes, then squares a^2 - 4kn with a close to the
\* root of 4kn, for k up to the cube root of n.
Lehman(n) ==
    LET bound == Root(n, 3) + 1
        hits  == SelectSeq(PrimesTo(bound), LAMBDA p : n % p = 0)
        Low(k)  == ISqrt(4 * k * n)
        High(k) == Root(n, 6) \div (4 * Root(k, 2)) + Low(k)
        Good(k) == {a \in Low(k)..High(k) :
                        a * a >= 4 * k * n /\ IsSquare(a * a - 4 * k * n)}
        ks == {k \in 1..bound : Good(k) # {}}
    IN  IF hits # <<>> THEN Found(n \div hits[1])
        ELSE IF ks = {} THEN None
        ELSE LET k == Min(ks)
                 a == Min(Good(k))
             IN  Found(Gcd(n, a + ISqrt(a * a - 4 * k * n)))

RECURSIVE LargestPower(_, _, _)   \* the first power of p above B / p
LargestPower(m, p, B) == IF m <= B \div p THEN LargestPower(m * p, p, B) ELSE m

PollardPm1(n, c, B) ==
    LET last == FoldLeft(LAMBDA acc, p : PowMod(acc, LargestPower(1, p, B), n),
                         c, PrimesTo(B))
        f == Gcd(last - 1, n)
    IN  IF f = 1 \/ f = n THEN None ELSE Found(f)

RECURSIVE Rho(_, _, _, _)
Rho(n, a, u, v) ==
    LET F(x) == (x * x + a) % n
        u1 == F(u)
        v1 == F(F(v))
        g  == Gcd(u1 - v1, n)
    IN  IF g = n THEN None
        ELSE IF g = 1 THEN Rho(n, a, u1, v1)
        ELSE Found(g)
PollardRho(n, a, s) == Rho(n, a, s, s)

\* retries: the first attempt that succeeds counts.
FirstFound(attempts) ==
    LET hits == SelectSeq(attempts, LAMBDA r : r.found)
    IN  IF hits = <<>> THEN None ELSE hits[1]

DivideOut(acc, p, k, new) == [left |-> acc.left \div p^k, list |-> acc.list \o new]

\* What is left is one, or the largest prime.
AllFactors(end) == end.list \o (IF end.left = 1 THEN <<>> ELSE <<end.left>>)
AllPairs(end) == end.list \o (IF end.left = 1 THEN <<>> ELSE <<<<end.left, 1>>>>)

PrimeFactors(n) ==
    LET Divided(acc, p) ==
            LET k == Times(acc.left, p)
            IN  DivideOut(acc, p, k, [i \in 1..k |-> p])
    IN  IF n = 0 THEN <<>>
        ELSE AllFactors(FoldLeft(Divided, [left |-> Abs(n), list |-> <<>>],
                                 PrimesTo(ISqrt(Abs(n)))))

\* The map from primes to multiplicities, as a sequence of pairs: maps are
\* ordered by key.
PrimeMultiplicities(n) ==
    LET Divided(acc, p) ==
            LET k == Times(acc.left, p)
            IN  DivideOut(acc, p, k, IF k = 0 THEN <<>> ELSE <<<<p, k>>>>)
    IN  IF n = 0 THEN <<>>
        ELSE AllPairs(FoldLeft(Divided, [left |-> Abs(n), list |-> <<>>],
                               PrimesTo(ISqrt(Abs(n)))))

Mobius(n) ==
    LET m == PrimeMultiplicities(n)
    IN  IF \E i \in DOMAIN m : m[i][2] > 1 THEN 0
        ELSE IF Len(m) % 2 = 0 THEN 1 ELSE -1

Mertens(n) == FoldLeft(LAMBDA acc, i : acc + Mobius(i), 0, [i \in 1..n |-> i])

\* The binary search for a base stops one short: i and j = i + 1 remain.
RECURSIVE BaseSearch(_, _, _, _)
BaseSearch(n, p, i, j) ==
    LET m == (i + j) \div 2
    IN  IF j <= i + 1 THEN i
        ELSE IF Above(m, p, n) THEN BaseSearch(n, p, i, m) ELSE BaseSearch(n, p, m, j)

PerfectPower(n, lowest) ==
    LET hits    == {p \in 2..30 : 2^p <= n /\ BaseSearch(n, p, 2, n)^p = n}
        p       == IF lowest THEN Min(hits) ELSE Max(hits)
    IN  IF hits = {} THEN <<n, 1>> ELSE <<BaseSearch(n, p, 2, n), p>>

PolygonalNumber(s, n) == Quo((s - 2) * n * n - (s - 4) * n, 2)
PolygonalRoot(s, x) ==
    Quo(ISqrt(8 * x * (s - 2) + (s - 4)^2) + s - 4, 2 * (s - 2))

-----------------------------------------------------------------------------
(* Totients, orders, primitive roots *)

Totient(n) ==
    IF n = 0 THEN 1
    ELSE FoldLeft(LAMBDA phi, e : (phi \div e[1]) * (e[1] - 1),
                  Abs(n), PrimeMultiplicities(n))

Carmichael(n) ==
    LET Step(lambda, e) ==
            LET k == IF e[1] = 2 /\ e[2] > 2 THEN e[2] - 1 ELSE e[2]
            IN  Lcm(lambda, e[1] - 1) * e[1]^(k - 1)
    IN  IF n = 0 THEN 1 ELSE FoldLeft(Step, 1, PrimeMultiplicities(n))

MultiplicativeOrder(a, n0) ==
    LET n == Abs(n0)
        RECURSIVE Raise(_, _, _)
        Raise(t, order, p) ==       \* while (t != 1)
            IF t = 1 THEN order ELSE Raise(PowMod(t, p, n), order * p, p)
        Step(order, e) ==
            LET rest == order \div e[1]^e[2]
            IN  Raise(PowMod(Rem(a, n), rest, n), rest, e[1])
    IN  IF Gcd(a, n) # 1 THEN None
        ELSE Found(FoldLeft(Step, Carmichael(n), PrimeMultiplicities(Carmichael(n))))

RECURSIVE RootOut(_, _, _)
RootOut(n, e, i) ==
    IF ~(IsPower(n) /\ n >= 2) THEN <<n, e>>
    ELSE IF Root(n, i)^i = n THEN RootOut(Root(n, i), e * i, i)
    ELSE RootOut(n, e, i + 1)
PrimePower(n) ==
    IF n < 2 THEN None
    ELSE LET r == RootOut(n, 1, 2) IN IF IsPrime(r[1]) THEN Found(r) ELSE None

LeastRoot(p) ==
    LET primes == PrimeFactors(p - 1)
        roots == {g \in 2..(p - 1) : \A i \in DOMAIN primes :
                    PowMod(g, (p - 1) \div primes[i], p) # 1}
    IN  IF roots = {} THEN p ELSE Min(roots)
LiftedOnce(g, p) == IF PowMod(g, p - 1, p * p) = 1 THEN g + p ELSE g

\* A root of n, or of 2n
Odd(g, n, even) == IF even /\ g % 2 = 0 THEN g + n ELSE g

\* Slip: a root is made odd by adding p, which can undo that it is one of p^e.
PrimitiveRootPlusP(p, e, even) ==
    Odd(IF e > 1 THEN LiftedOnce(LeastRoot(p), p) ELSE LeastRoot(p), p, even)

PrimitiveRootPower(p, e, even) ==
    Odd(IF e > 1 THEN LiftedOnce(LeastRoot(p), p) ELSE LeastRoot(p), p^e, even)

PrimitiveRoot(n0) ==
    LET n    == Abs(n0)
        even == n % 2 = 0
        pe   == PrimePower(IF even THEN n \div 2 ELSE n)
    IN  IF n <= 1 THEN None
        ELSE IF n < 5 THEN Found(n - 1)
        ELSE IF n % 4 = 0 \/ ~pe.found THEN None
        ELSE Found(PrimitiveRootPower(pe.value[1], pe.value[2], even))

PrimitiveRootPowerList(p, e, even) ==
    LET g == PrimitiveRootPower(p, 1, FALSE)
        Lifts(h) ==                 \* all h + i p, but the one that is no root
            LET d == (Quo(h - PowMod(h, 2 - p, p * p), p) + p) % p
            IN  [k \in 1..p^(e - 1) |-> <<h + (k - 1) * p, (k - 1) % p # d>>]
        Of(h) == IF e = 1 THEN <<Odd(h, p^e, even)>>
                 ELSE LET good == SelectSeq(Lifts(h), LAMBDA x : x[2])
                      IN  [k \in DOMAIN good |-> Odd(good[k][1], p^e, even)]
        powers == SelectSeq([i \in 1..(p - 1) |-> i], LAMBDA i : Gcd(p - 1, i) = 1)
    IN  FlattenSeq([k \in DOMAIN powers |-> Of(PowMod(g, powers[k], p))])

PrimitiveRootList(n0) ==
    LET n    == Abs(n0)
        even == n % 2 = 0
        pe   == PrimePower(IF even THEN n \div 2 ELSE n)
    IN  IF n <= 1 THEN <<>>
        ELSE IF n < 5 THEN <<n - 1>>
        ELSE IF n % 4 = 0 \/ ~pe.found THEN <<>>
        ELSE SortSeq(PrimitiveRootPowerList(pe.value[1], pe.value[2], even), <)

-----------------------------------------------------------------------------
(* Remainders and roots *)

\* r and m after the loop over the other moduli, or no solution.
Crt(rem, mod) ==
    LET Step(acc, i) ==
            LET e == GcdExt(acc.value[2], mod[i])
                t == rem[i] - acc.value[1]
                m == acc.value[2] * (mod[i] \div e[1])
            IN  IF ~acc.found \/ t % e[1] # 0 THEN None
                ELSE Found(<<(acc.value[1] + acc.value[2] * e[2] * Quo(t, e[1])) % m, m>>)
        end == FoldLeft(Step, Found(<<rem[1], mod[1]>>),
                        [i \in 1..(Len(mod) - 1) |-> i + 1])
    IN  IF end.found THEN Found(end.value[1]) ELSE None

\* Every choice of a remainder for each modulus; the moduli are coprime.
CrtCartesian(rem, mod) ==
    LET Step(acc, i) ==
            LET s == Invert(acc.m, mod[i])
                m == acc.m * mod[i]
                k == Len(rem[i])
            IN  [m |-> m,
                 list |-> [j \in 1..(Len(acc.list) * k) |->
                    LET r == acc.list[(j - 1) \div k + 1]
                    IN  (r + acc.m * s * (rem[i][((j - 1) % k) + 1] - r)) % m]]
    IN  FoldLeft(Step, [m |-> mod[1], list |-> rem[1]],
                 [i \in 1..(Len(mod) - 1) |-> i + 1]).list

NonResidues(p) == {z \in 1..(p - 1) : Legendre(z, p) = -1}

\* Tonelli and Shanks; n is the random non-residue.
TonelliShanks(a, p, n) ==
    LET e0 == Times(p - 1, 2)
        q  == (p - 1) \div 2^e0
        RECURSIVE Halvings(_), Descend(_, _, _, _)
        Halvings(t) == IF t = 1 THEN 0 ELSE 1 + Halvings((t * t) % p)
        Descend(rop, b, y, e) ==
            LET m == Halvings(b)
                t == PowMod(y, 2^(e - m - 1), p)
                y1 == (t * t) % p
            IN  IF b = 1 THEN Found(rop)
                ELSE IF m = e THEN None
                ELSE Descend((rop * t) % p, (b * y1) % p, y1, m)
    IN  Descend(PowMod(a, (q + 1) \div 2, p), PowMod(a, q, p), PowMod(n, q, p), e0)

\* Squares of 1, 2, ... by adding odd numbers.
SquareSearch(a, p) ==
    LET RECURSIVE From(_, _)
        From(i, sq) == IF i >= p THEN None
                       ELSE IF sq = a % p THEN Found(i)
                       ELSE From(i + 1, (sq + 2 * i + 1) % p)
    IN  From(1, 1)

SqrtModPrime(a, p) ==
    LET l == Legendre(a, p)
        t == PowMod(a, (p - 1) \div 4, p)
    IN  IF p = 2 THEN Found(Rem(a, p))
        ELSE IF l = -1 THEN None
        ELSE IF l = 0 THEN Found(0)
        ELSE IF p % 4 = 3 THEN Found(PowMod(a, (p + 1) \div 4, p))
        ELSE IF p % 8 = 5
        THEN Found(IF t = 1 THEN PowMod(a, (p + 3) \div 8, p)
                   ELSE Rem(2 * a * PowMod(4 * a, (p - 5) \div 8, p), p))
        ELSE IF p < BruteForce THEN SquareSearch(a, p)
        ELSE TonelliShanks(a, p, Min(NonResidues(p)))

\* Pohlig and Hellman, with a table of m baby steps for each digit.
CeilSqrt(q) == IF IsSquare(q) THEN ISqrt(q) ELSE ISqrt(q) + 1
Digit(beta, alpha, giant, m, p) ==
    LET hits == {h \in (0..(m - 1)) \X (0..(m - 1)) :
                    (beta * PowMod(giant, h[1], p)) % p = PowMod(alpha, h[2], p)}
    IN  Min({h[1] * m + h[2] : h \in hits})
AddDigit(acc, g, l, qj, p) ==
    [log |-> acc.log + l * qj, gamma |-> (acc.gamma * PowMod(g, -(l * qj), p)) % p]

DiscreteLog(a, g, n, q, k, p) ==
    LET m == CeilSqrt(q)
        alpha == PowMod(g, n \div q, p)
        Step(acc, j) ==
            AddDigit(acc, g, Digit(PowMod(acc.gamma, n \div q^j, p), alpha,
                                   PowMod(alpha, -m, p), m, p), q^(j - 1), p)
    IN  FoldLeft(Step, [log |-> 0, gamma |-> a], [j \in 1..k |-> j]).log

\* The root of s to q^b; q^c is what q makes of p - 1, h is the rest of it, g a
\* primitive root, and z = 0 mod h, -1 mod q^b.
QthRoot(s, q, b, c, h, z, g, p) ==
    LET v  == PowMod(s, Quo(1 + z, q^b), p)
        lg == DiscreteLog(PowMod(s, h, p), PowMod(g, h * q^b, p), q^(c - b), q, c - b, p)
    IN  IF c = b THEN v ELSE (v * PowMod(g, -(z * lg), p)) % p

QthRootBy(s, q, b, c, h, p) ==
    QthRoot(s, q, b, c, h, -(Invert(h, q^b) * h), PrimitiveRootPower(p, 2, FALSE), p)

\* x^d = s mod p, where d divides p - 1: one prime of d after the other.
QthRoots(s, d, p) ==
    LET Step(s1, e) ==
            LET c == Times(p - 1, e[1])
            IN  QthRootBy(s1, e[1], e[2], c, (p - 1) \div e[1]^c, p)
    IN  FoldLeft(Step, s, PrimeMultiplicities(d))

\* x^n = a mod p, by the extended gcd e of n and p - 1
RootOr0(sq) == IF sq.found THEN sq.value ELSE 0
RootOfDivisor(s, d, p) == CASE d = 1 -> s
                            [] d = 2 -> RootOr0(SqrtModPrime(s, p))
                            [] OTHER -> QthRoots(s, d, p)
RootByGcd(a, e, p) ==
    RootOfDivisor(PowMod(a, IF e[2] < 0 THEN e[2] % ((p - 1) \div e[1]) ELSE e[2], p), e[1], p)

\* The right side for the exponent u = n / p^c, from the root mod p, lifted from
\* p^(c + 1) to p^k
RightSide(a, root, u, c, p, k) ==
    LET pc == p^c
    IN  FoldLeft(LAMBDA acc, d : acc + Quo(a * PowMod(acc, 1 - pc, p^d) - acc, pc),
                 PowMod(root, u, p), [i \in 1..(k - c - 1) |-> c + 1 + i])

RECURSIVE Hensel(_, _, _, _, _, _)
Hensel(root, s, u, d, p, k) ==
    LET pd == IF d > k THEN p^k ELSE p^d
        w  == PowMod(root, u - 1, pd)
    IN  IF d >= 2 * k THEN root
        ELSE Hensel((root + (((s - w * root) % pd) * Invert(u * w, pd))) % pd, s, u, 2 * d, p, k)

RootLifted(a, root, u, c, p, k) ==
    Hensel(root, IF c >= 1 THEN RightSide(a, root, u, c, p, k) ELSE a, u, 2, p, k)

\* All m roots from one, or that one.
RootsFrom(root, m, step, pk, all) ==
    IF m = 1 \/ ~all THEN <<root>>
    ELSE [j \in 1..m |-> (root * PowMod(step, j - 1, pk)) % pk]

\* x^n = a mod p^k for a prime to the odd p.
NthRootMod1(a, n, p, k, all) ==
    LET phi == p^(k - 1) * (p - 1)
        m   == Gcd(phi, n)
        c   == Times(n, p)
    IN  IF PowMod(a, phi \div m, p^k) # 1 THEN None
        ELSE Found(RootsFrom(
                RootLifted(a, RootByGcd(a, GcdExt(n, p - 1), p), n \div p^c, c, p, k), m,
                IF n = 2 THEN -1 ELSE PowMod(PrimitiveRootPower(p, 2, FALSE), phi \div m, p^k),
                p^k, all))

\* x^n = a mod 2^k for an odd a.
NthRootMod2(a, n, k, all) ==
    LET pk == 2^k
        c0 == Times(n, 2)
        r  == n \div 2^c0
        c  == IF c0 >= k - 2 THEN k - 2 ELSE c0
        s  == Invert(r, 2^(k - 2))
        pc == 2^c
        \* y^(2^c) = a, lifted from 2^(c + 2)
        y  == FoldLeft(LAMBDA acc, j :
                    IF Rem(PowMod(acc, pc, 2^(j + 1)) - a, 2^(j + 1)) # 0
                    THEN acc + 2^(j - c) ELSE acc,
                    1, [i \in 1..(k - c - 2) |-> c + 1 + i])
        root == PowMod(y, s, pk)
        t    == (pk \div pc) * root
        \* the second run starts from t less the value the first one ended with
        Run(start) == [j \in 1..pc |-> start + (j - 1) * t]
    IN  IF k = 1 THEN Found(<<1>>)
        ELSE IF k = 2
        THEN IF c0 > 0 /\ Rem(a, 4) = 3
             THEN None
             ELSE Found(<<Rem(a, 4)>> \o IF all /\ c0 > 0 THEN <<3>> ELSE <<>>)
        ELSE IF c = 0 THEN Found(<<PowMod(a, s, pk)>>)
        ELSE IF a % 2^(c + 2) # 1 THEN None
        ELSE Found(IF all THEN Run(root) \o Run(t - (root + pc * t)) ELSE <<root>>)

\* x^n = a mod p^k.
RECURSIVE NthRootModPrimePower(_, _, _, _, _)
NthRootModPrimePower(a, n, p, k, all) ==
    LET a0 == Rem(a, p^k)
        r  == Times(a0, p)
        sub == NthRootModPrimePower(Quo(a0, p^r), n, p, k - r, all)
        roots == IF a0 = 0 THEN <<0>>
                 ELSE [i \in DOMAIN sub.value |-> sub.value[i] * p^(r \div n)]
        m  == IF a0 # 0 THEN r - (r \div n)
              ELSE IF n >= k THEN k - 1 ELSE k - 1 - ((k - 1) \div n)
        Spread(x) == [i \in 1..p^m |-> x + (i - 1) * p^(k - m)]
    IN  IF a % p # 0
        THEN IF p = 2 THEN NthRootMod2(a, n, k, all) ELSE NthRootMod1(a, n, p, k, all)
        ELSE IF a0 # 0 /\ (r < n \/ r % n # 0 \/ ~sub.found) THEN None
        ELSE IF ~all THEN Found(<<roots[Len(roots)]>>)
        ELSE Found(FlattenSeq([i \in DOMAIN roots |-> Spread(roots[i])]))

IsNthRootMod1(a, n, p, k) ==
    LET phi == (p^k \div p) * (p - 1)
    IN  PowMod(a, phi \div Gcd(phi, n), p^k) = 1

RECURSIVE IsNthRootModPrimePower(_, _, _, _)
IsNthRootModPrimePower(a, n, p, k) ==
    LET a0 == Rem(a, p^k)
        r  == Times(a0, p)
        c0 == Times(n, 2)
        c  == IF c0 >= k - 2 THEN k - 2 ELSE c0
    IN  IF a % p = 0
        THEN \/ a0 = 0
             \/ /\ r >= n /\ r % n = 0
                /\ IsNthRootModPrimePower(Quo(a0, p^r), n, p, k - r)
        ELSE IF p # 2 THEN IsNthRootMod1(a, n, p, k)
        ELSE IF k = 1 THEN TRUE
        ELSE IF k = 2 THEN ~(c0 > 0 /\ Rem(a, 4) = 3)
        ELSE c = 0 \/ a % 2^(c + 2) = 1

\* The roots modulo the prime powers of m
RootsAtPrimes(a, n, pe, all) ==
    [i \in DOMAIN pe |-> NthRootModPrimePower(a, n, pe[i][1], pe[i][2], all)]
Moduli(pe) == [i \in DOMAIN pe |-> pe[i][1]^pe[i][2]]
AllFound(parts) == \A i \in DOMAIN parts : parts[i].found

OneRoot(parts, moduli) ==
    IF AllFound(parts) THEN Crt([i \in DOMAIN parts |-> parts[i].value[1]], moduli) ELSE None
EveryRoot(parts, moduli) ==
    IF AllFound(parts)
    THEN SortSeq(CrtCartesian([i \in DOMAIN parts |-> parts[i].value], moduli), <)
    ELSE <<>>

NthRootMod(a, n, m) ==
    LET pe == PrimeMultiplicities(m)
    IN  IF m <= 0 THEN None
        ELSE IF m = 1 THEN Found(0)
        ELSE OneRoot(RootsAtPrimes(a, n, pe, FALSE), Moduli(pe))

NthRootModList(a, n, m) ==
    LET pe == PrimeMultiplicities(m)
    IN  IF m <= 0 THEN <<>>
        ELSE IF m = 1 THEN <<0>>
        ELSE EveryRoot(RootsAtPrimes(a, n, pe, TRUE), Moduli(pe))

\* a^(r/s) mod m, where s = 1 is the case of an integer exponent.
PowerMod(a, r, s, m) ==
    LET t == PowMod(a, Abs(r), m)
    IN  IF r < 0 /\ ~Invertible(t, m) THEN None
        ELSE IF s = 1 THEN Found(IF r < 0 THEN Invert(t, m) ELSE t)
        ELSE NthRootMod(IF r < 0 THEN Invert(t, m) ELSE t, s, m)

PowerModList(a, r, s, m) ==
    LET t == PowMod(a, Abs(r), m)
    IN  IF r < 0 /\ ~Invertible(t, m) THEN <<>>
        ELSE IF s = 1 THEN <<IF r < 0 THEN Invert(t, m) ELSE t>>
        ELSE NthRootModList(IF r < 0 THEN Invert(t, m) ELSE t, s, m)

\* 0, 1, 4, ...; the other half of the squares repeats these.
QuadraticResidues(a) ==
    LET all == SortSeq([i \in 1..(a \div 2 + 1) |-> ((i - 1) * (i - 1)) % a], <)
        new == SelectSeq([i \in DOMAIN all |-> i],
                         LAMBDA i : i = 1 \/ all[i] # all[i - 1])
    IN  [i \in DOMAIN new |-> all[new[i]]]

\* The symbol of GMP for an odd m > 0.
Jacobi(a, m) == FoldLeft(LAMBDA acc, p : acc * Legendre(a, p), 1, PrimeFactors(m))

IsQuadResidue(a, p) ==
    LET p2 == Abs(p)
        a0 == a % p2
        pe == PrimeMultiplicities(p2)
    IN  IF a0 < 2 THEN TRUE
        ELSE IF IsPrime(p2) THEN Legendre(a0, p2) = 1
        ELSE /\ ~(p2 % 2 = 1 /\ Jacobi(a0, p2) = -1)
             /\ \A i \in DOMAIN pe :
                    IsNthRootModPrimePower(a0, 2, pe[i][1], pe[i][2])

IsNthResidue(a, n, mod) ==
    LET m  == Abs(mod)
        pe == PrimeMultiplicities(m)
    IN  /\ mod # 0
        /\ \/ mod = 1
           \/ \A i \in DOMAIN pe :
                IsNthRootModPrimePower(a % m, n, pe[i][1], pe[i][2])

-----------------------------------------------------------------------------
(* One call *)

Asked(op) == answer = Pending /\ question.op = op

CallFactor ==
    /\ Asked("factor")
    /\ answer' = CASE question.by = "trial"  -> TrialDivision(question.n)
                   [] question.by = "lehman" -> Lehman(question.n)
                   [] question.by = "pm1"    -> FirstFound([i \in DOMAIN question.draws |->
                            PollardPm1(question.n, question.draws[i][1], 10)])
                   [] question.by = "rho"    -> FirstFound([i \in DOMAIN question.draws |->
                            PollardRho(question.n, question.draws[i][1], question.draws[i][2])])
    /\ UNCHANGED question

CallArithmetic ==
    /\ Asked("arithmetic")
    /\ answer' = [factors |-> PrimeFactors(question.n),
                  multiplicities |-> PrimeMultiplicities(question.n),
                  totient |-> Totient(question.n),
                  carmichael |-> Carmichael(question.n),
                  mobius |-> IF question.n > 0 THEN Mobius(question.n) ELSE 0,
                  mertens |-> IF question.n > 0 THEN Mertens(question.n) ELSE 0]
    /\ UNCHANGED question

CallPrimitiveRoot ==
    /\ Asked("primitive_root")
    /\ answer' = [root |-> PrimitiveRoot(question.n),
                  list |-> PrimitiveRootList(question.n)]
    /\ UNCHANGED question

CallOrder ==
    /\ Asked("order")
    /\ answer' = MultiplicativeOrder(question.a, question.n)
    /\ UNCHANGED question

CallCrt ==
    /\ Asked("crt")
    /\ answer' = Crt(question.rem, question.mod)
    /\ UNCHANGED question

CallNthRoot ==
    /\ Asked("nthroot")
    /\ answer' = [root |-> NthRootMod(question.a, question.n, question.m),
                  list |-> NthRootModList(question.a, question.n, question.m),
                  is   |-> IsNthResidue(question.a, question.n, question.m)]
    /\ UNCHANGED question

CallPowerMod ==
    /\ Asked("powermod")
    /\ answer' = [root |-> PowerMod(question.a, question.r, question.s, question.m),
                  list |-> PowerModList(question.a, question.r, question.s, question.m)]
    /\ UNCHANGED question

CallSqrt ==
    /\ Asked("sqrt")
    /\ answer' = TonelliShanks(question.a, question.p, question.draw)
    /\ UNCHANGED question

CallResidues ==
    /\ Asked("residues")
    /\ answer' = [list |-> QuadraticResidues(question.m),
                  is   |-> {a \in (-question.m)..question.m : IsQuadResidue(a, question.m)}]
    /\ UNCHANGED question

CallPowers ==
    /\ Asked("powers")
    /\ answer' = [lowest  |-> PerfectPower(question.n, TRUE),
                  highest |-> PerfectPower(question.n, FALSE),
                  roots   |-> [s \in 3..6 |-> PolygonalRoot(s, question.n)]]
    /\ UNCHANGED question

Init == question \in Questions /\ answer = Pending

Next == \/ CallFactor \/ CallArithmetic \/ CallPrimitiveRoot \/ CallOrder
        \/ CallCrt \/ CallNthRoot \/ CallPowerMod \/ CallSqrt \/ CallResidues
        \/ CallPowers

Spec == Init /\ [][Next]_vars

-----------------------------------------------------------------------------
(* What the answers have to be *)

Answered(op) == answer # Pending /\ question.op = op

Divides(d, n) == n % d = 0
Residues(a, n, m) == {x \in 0..(m - 1) : Power(x, n, m) = a % m}
Units(n) == {a \in 0..(n - 1) : Gcd(a, n) = 1}
OrderOf(a, n) == CHOOSE k \in 1..n : /\ Power(a % n, k, n) = 1 % n
                                     /\ \A i \in 1..(k - 1) : Power(a % n, i, n) # 1 % n
PrimitiveRoots(n) == {g \in Units(n) : OrderOf(g, n) = Cardinality(Units(n))}
SquareFree(n) == \A d \in 2..ISqrt(n) : ~Divides(d * d, n)

\* Whatever the random draws, a factor that a method reports is a proper one,
\* and trial division misses none; the list of prime factors multiplies to the
\* number, in order, and the map of multiplicities and what is computed from
\* it agree with their definitions.
FactorsExact ==
    /\ Answered("factor") =>
        LET n == question.n
        IN  /\ answer.found => /\ answer.value \in 2..(n - 1)
                               /\ Divides(answer.value, n)
            /\ question.by = "trial" => answer.found = (n > 1 /\ ~IsPrime(n))
    /\ Answered("arithmetic") =>
        LET n  == Abs(question.n)
            fs == answer.factors
            ms == answer.multiplicities
        IN  /\ n # 0 => FoldLeft(LAMBDA x, y : x * y, 1, fs) = n
            /\ \A i \in DOMAIN fs : IsPrime(fs[i]) /\ (i > 1 => fs[i - 1] <= fs[i])
            /\ {<<p, Cardinality({i \in DOMAIN fs : fs[i] = p})>> : p \in ToSet(fs)} = ToSet(ms)
            /\ question.n > 0 =>
                /\ answer.mobius = IF SquareFree(n) THEN (-1)^Len(fs) ELSE 0
                /\ answer.mertens = Mertens(n - 1) + answer.mobius
    /\ Answered("powers") =>
        LET n == question.n
            ways == {<<b, k>> \in (2..ISqrt(n)) \X (2..10) : ~Above(b, k, n) /\ b^k = n}
        IN  /\ answer.lowest = IF ways = {} THEN <<n, 1>>
                               ELSE CHOOSE w \in ways : \A v \in ways : w[2] <= v[2]
            /\ answer.highest = IF ways = {} THEN <<n, 1>>
                                ELSE CHOOSE w \in ways : \A v \in ways : w[2] >= v[2]
            /\ \A s \in 3..6 : LET r == answer.roots[s]
                               IN  /\ PolygonalNumber(s, r) <= n
                                   /\ n < PolygonalNumber(s, r + 1)

\* Totient and Carmichael functions, orders and primitive roots are those of
\* the group of units; the list has every primitive root once, in order.
GroupExact ==
    /\ Answered("arithmetic") =>
        LET n == Abs(question.n)
        IN  n # 0 => /\ answer.totient = Cardinality(Units(n))
                     /\ answer.carmichael = Max({OrderOf(a, n) : a \in Units(n)})
    /\ Answered("order") =>
        LET n == Abs(question.n)
            a == question.a
        IN  answer = IF Gcd(a, n) = 1 THEN Found(OrderOf(a, n)) ELSE None
    /\ Answered("primitive_root") =>
        LET n == Abs(question.n)
            roots == PrimitiveRoots(n)
        IN  /\ answer.root.found = (n > 1 /\ roots # {})
            /\ answer.root.found => answer.root.value % n \in roots
            /\ n > 1 => /\ ToSet(answer.list) = roots
                        /\ \A i \in DOMAIN answer.list :
                                i > 1 => answer.list[i - 1] < answer.list[i]

\* Factors and multiplicities, and what the group of units derives from them.
NumbersExact == FactorsExact /\ GroupExact

\* nthroot_mod returns a root modulo m exactly if there is one, and the list has
\* every residue class that is a root, each once (ntheory.cpp).
NthRootsExact ==
    Answered("nthroot") =>
        LET roots == Residues(question.a, question.n, question.m)
            Class(x) == x % question.m
        IN  /\ answer.root.found = (roots # {})
            /\ answer.root.found => Class(answer.root.value) \in roots
            /\ {Class(x) : x \in ToSet(answer.list)} = roots
            /\ Len(answer.list) = Cardinality(roots)

\* An even root of a negative number modulo 4, or what is left of it when the
\* power of two r in the number is taken out: its remainder is -1, and the code
\* looks for 3.
SignLost(a, n, m) ==
    /\ a < 0 /\ m > 0 /\ n % 2 = 0
    /\ LET r == Times(a, 2)
       IN  r % n = 0 /\ Times(m, 2) = r + 2 /\ Rem(Quo(a, 2^r), 4) = -1

\* A root modulo m is returned exactly if there is one, whatever the exponent
\* and the factorisation of m, but where the sign of the number is lost; the
\* tests for residues say the same; the Chinese remainder satisfies all its
\* congruences, also when the moduli have common factors.
RootsExact ==
    /\ Answered("nthroot") =>
        /\ SignLost(question.a, question.n, question.m) \/ NthRootsExact
        /\ answer.is = (Residues(question.a, question.n, question.m) # {})
    /\ Answered("powermod") =>
        LET a == question.a
            m == question.m
            roots == IF question.r >= 0 THEN Residues(Power(a, question.r, m), question.s, m)
                     ELSE {x \in 0..(m - 1) :
                            (Power(x, question.s, m) * Power(a, -question.r, m)) % m = 1 % m}
        IN  /\ answer.root.found = (roots # {})
            /\ answer.root.found => answer.root.value % m \in roots
            /\ {x % m : x \in ToSet(answer.list)} = roots
    /\ Answered("sqrt") =>
        LET roots == Residues(question.a, 2, question.p)
        IN  answer.found = (roots # {}) /\ (answer.found => answer.value \in roots)
    /\ Answered("residues") =>
        LET m == question.m
            squares == {(x * x) % m : x \in 0..(m - 1)}
        IN  /\ answer.list = SelectSeq([i \in 1..m |-> i - 1], LAMBDA x : x \in squares)
            /\ answer.is = {a \in (-m)..m : a % m \in squares}
    /\ Answered("crt") =>
        LET mod == question.mod
            Solves(x) == \A i \in DOMAIN mod : x % mod[i] = question.rem[i] % mod[i]
            solutions == {x \in 0..(FoldLeft(LAMBDA x, y : x * y, 1, mod) - 1) : Solves(x)}
        IN  answer.found = (solutions # {}) /\ (answer.found => Solves(answer.value))
=============================================================================
