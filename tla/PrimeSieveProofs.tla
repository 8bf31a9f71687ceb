-------------------------- MODULE PrimeSieveProofs --------------------------
(***************************************************************************)
(* Why the list of PrimeSieve is always the primes in order.  The sieve is *)
(* right when the byte after is_prime is zero, which the theorems about    *)
(* primes assume; that no call reads memory that was never written does    *)
(* not depend on it.                                                       *)
(***************************************************************************)
EXTENDS PrimeSieve, SequenceLemmas, FiniteSetTheorems

-----------------------------------------------------------------------------
(* Division.                                                               *)

(* Dividing n by d leaves a remainder below d.                             *)
LEMMA Division ==
  ASSUME NEW n \in Nat, NEW d \in Nat \ {0}
  PROVE  /\ n \div d \in Nat /\ n % d \in 0..(d - 1)
         /\ n = d * (n \div d) + (n % d)
<1>1. n = d * (n \div d) + (n % d) /\ n % d \in 0..(d - 1) /\ n \div d \in Int
  OBVIOUS
<1>2. PICK q : q = n \div d OBVIOUS
<1>3. PICK r : r = n % d OBVIOUS
<1>4. n = d * q + r /\ r \in 0..(d - 1) /\ q \in Int BY <1>1, <1>2, <1>3
<1>5. q < 0 => d * q <= 0 - d BY <1>4
<1>6. q >= 0 BY <1>4, <1>5
<1> QED BY <1>1, <1>2, <1>4, <1>6

(* A multiple of d leaves no remainder.                                    *)
LEMMA Multiple ==
  ASSUME NEW q \in Nat, NEW d \in Nat \ {0}
  PROVE  (d * q) % d = 0
  OBVIOUS

(* What leaves no remainder is a multiple.                                 *)
LEMMA Divides ==
  ASSUME NEW n \in Nat, NEW d \in Nat \ {0}, n % d = 0
  PROVE  \E q \in Nat : n = d * q
<1>1. n \div d \in Nat /\ n = d * (n \div d) + 0 BY Division
<1>2. PICK q \in Nat : q = n \div d BY <1>1
<1>3. n = d * q BY <1>1, <1>2
<1> QED BY <1>3

(* A divisor of a divisor is a divisor.                                    *)
LEMMA DividesDivisor ==
  ASSUME NEW n \in Nat, NEW d \in Nat \ {0}, NEW e \in Nat \ {0}, n % d = 0, d % e = 0
  PROVE  n % e = 0
<1>1. PICK q \in Nat : n = d * q BY Divides
<1>2. PICK r \in Nat : d = e * r BY Divides
<1>3. n = (e * r) * q BY <1>1, <1>2
<1>4. (e * r) * q = e * (r * q) OBVIOUS
<1>5. r * q \in Nat OBVIOUS
<1> QED BY <1>3, <1>4, <1>5, Multiple

(* Products grow with their factors.                                       *)
LEMMA ProductGrows ==
  ASSUME NEW a \in Nat, NEW b \in Nat, NEW c \in Nat, a <= b
  PROVE  a * c <= b * c /\ c * a <= c * b
  OBVIOUS

(* Squares grow.                                                           *)
LEMMA SquareGrows ==
  ASSUME NEW a \in Nat, NEW b \in Nat
  PROVE  a <= b => a * a <= b * b
<1> SUFFICES ASSUME a <= b PROVE a * a <= b * b
  OBVIOUS
<1>1. a * a <= b * a /\ b * a <= b * b BY ProductGrows
<1>2. a * a \in Nat /\ b * a \in Nat /\ b * b \in Nat OBVIOUS
<1> QED BY <1>1, <1>2

(* A set of naturals that is not empty has a least element.                *)
LEMMA Least ==
  ASSUME NEW S \in SUBSET Nat, S # {}
  PROVE  \E x \in S : \A y \in S : x <= y
<1>1. PICK x \in S : \A y \in S : ~ (<<y, x>> \in OpToRel(<, Nat))
  BY NatLessThanWellFounded, WFMin, Zenon
<1>2. ASSUME NEW y \in S PROVE x <= y
  <2>1. ~ (y < x)
    <3>1. x \in Nat /\ y \in Nat OBVIOUS
    <3> QED BY <1>1, <3>1, Zenon DEF OpToRel
  <2> QED BY <2>1
<1> QED BY <1>2

-----------------------------------------------------------------------------
(* Primes.                                                                 *)

(* A number that is not prime has a prime divisor up to its root.          *)
LEMMA PrimeDivisor ==
  ASSUME NEW n \in Nat, n > 1, ~ IsPrime(n)
  PROVE  \E p \in 2..(n - 1) : IsPrime(p) /\ p * p <= n /\ n % p = 0
<1>1. PICK d \in 2..(n - 1) : d * d <= n /\ n % d = 0 BY DEF IsPrime
<1> DEFINE S == {e \in 2..d : n % e = 0}
<1>2. S \in SUBSET Nat /\ d \in S BY <1>1
<1>3. PICK p \in S : \A e \in S : p <= e
  <2> HIDE DEF S
  <2> QED BY <1>2, Least
<1>4. p \in 2..d /\ n % p = 0 OBVIOUS
<1>5. p \in 2..(n - 1) BY <1>4
<1>6. p * p <= n
  <2>1. p \in Nat /\ d \in Nat /\ p <= d BY <1>4
  <2>2. p * p <= d * d BY <2>1, SquareGrows
  <2>3. p * p \in Nat /\ d * d \in Nat BY <2>1
  <2> QED BY <1>1, <2>2, <2>3
<1>7. ASSUME NEW e \in 2..(p - 1), p % e = 0 PROVE FALSE
  <2>1. e \in 2..d /\ e < p BY <1>4
  <2>2. n % e = 0
    <3>1. p \in Nat \ {0} /\ e \in Nat \ {0} BY <1>4
    <3> QED BY <1>4, <1>7, <3>1, DividesDivisor
  <2>3. e \in S BY <2>1, <2>2
  <2>4. p <= e
    <3> HIDE DEF S
    <3> QED BY <1>3, <2>3
  <2> QED BY <2>1, <2>4, <1>4
<1>8. IsPrime(p)
  <2>1. p > 1 BY <1>4
  <2> QED BY <1>7, <2>1 DEF IsPrime
<1> QED BY <1>4, <1>5, <1>6, <1>8

(* A prime has no divisor but one and itself.                              *)
LEMMA PrimeIndivisible ==
  ASSUME NEW n \in Nat, IsPrime(n), NEW d \in 2..(n - 1)
  PROVE  n % d # 0
<1> SUFFICES ASSUME n % d = 0 PROVE FALSE
  OBVIOUS
<1>1. d \in Nat \ {0} OBVIOUS
<1>2. PICK c \in Nat : n = d * c BY <1>1, Divides
<1>3. d * d > n BY DEF IsPrime
<1>4. c < d
  <2> SUFFICES ASSUME d <= c PROVE FALSE
    BY <1>1
  <2>1. d * d <= d * c BY <1>1, ProductGrows
  <2>2. d * d \in Nat BY <1>1
  <2> QED BY <1>2, <1>3, <2>1, <2>2
<1>5. c # 0 /\ c # 1
  <2>1. c = 0 => n = 0 BY <1>2
  <2>2. c = 1 => n = d BY <1>2
  <2> QED BY <2>1, <2>2
<1>6. c \in 2..(n - 1) BY <1>1, <1>4, <1>5
<1>7. c * c <= n
  <2>1. c * c <= d * c BY <1>1, <1>4, ProductGrows
  <2> QED BY <1>2, <2>1
<1>8. n % c = 0
  <2>1. n = c * d BY <1>1, <1>2
  <2>2. c \in Nat \ {0} BY <1>5
  <2> QED BY <1>1, <2>1, <2>2, Multiple
<1> QED BY <1>6, <1>7, <1>8 DEF IsPrime

(* Of the even numbers only two is prime.                                  *)
LEMMA EvenPrime ==
  ASSUME NEW n \in Nat, IsPrime(n), n % 2 = 0
  PROVE  n = 2
<1>1. n > 1 BY DEF IsPrime
<1> SUFFICES ASSUME n > 2 PROVE FALSE
  BY <1>1
<1>2. 2 \in 2..(n - 1) OBVIOUS
<1> QED BY <1>2, PrimeIndivisible

-----------------------------------------------------------------------------
(* What one prime marks.                                                   *)

(* The product with an odd number is odd when the other factor is.         *)
LEMMA OddProduct ==
  ASSUME NEW n \in Nat, n % 2 = 1, NEW b \in Nat
  PROVE  (n * b) % 2 = b % 2
<1>1. PICK a \in Nat : n = 2 * a + 1
  <2>1. n \div 2 \in Nat /\ n = 2 * (n \div 2) + 1 OBVIOUS
  <2> QED BY <2>1
<1>2. n * b = 2 * (a * b) + b BY <1>1
<1>3. PICK z \in Nat : z = a * b BY <1>1
<1>4. (2 * z + b) % 2 = b % 2 OBVIOUS
<1> QED BY <1>2, <1>3, <1>4

(* The first multiple that Marks marks.                                    *)
FirstMark(n, start) ==
  LET next == (start \div n + 1) * n IN IF next % 2 = 0 THEN next + n ELSE next

(* It is the first odd multiple after start.                               *)
IsFirst(n, start, m, c) ==
  /\ m = n * c /\ m > start /\ c % 2 = 1 /\ m % 2 = 1
  /\ \A b \in Nat : b % 2 = 1 /\ n * b > start => b >= c

(* FirstMark is that multiple.                                             *)
LEMMA FirstMarkIs ==
  ASSUME NEW n \in Nat \ {0}, n % 2 = 1, NEW start \in Nat
  PROVE  \E c \in Nat : IsFirst(n, start, FirstMark(n, start), c)
<1>1. PICK q \in Nat : q = start \div n BY Division
<1>2. PICK r \in 0..(n - 1) : r = start % n BY Division
<1>3. start = n * q + r BY <1>1, <1>2, Division
<1> DEFINE c == IF (q + 1) % 2 = 0 THEN q + 2 ELSE q + 1
<1>4. c \in Nat /\ c % 2 = 1 /\ c >= q + 1 OBVIOUS
<1>5. (n * (q + 1)) % 2 = (q + 1) % 2 /\ (n * c) % 2 = 1
  <2>1. n \in Nat /\ q + 1 \in Nat OBVIOUS
  <2> HIDE DEF c
  <2> QED BY <1>4, <2>1, OddProduct
<1>6. n * (q + 1) = n * q + n /\ n * (q + 2) = n * (q + 1) + n OBVIOUS
<1>7. FirstMark(n, start) = n * c
  <2>1. (start \div n + 1) * n = n * (q + 1) BY <1>1
  <2> QED BY <2>1, <1>5, <1>6 DEF FirstMark
<1>8. n * c > start
  <2>1. n * (q + 1) <= n * c
    <3> HIDE DEF c
    <3> QED BY <1>4, ProductGrows
  <2>2. n * q \in Nat /\ n * c \in Nat
    <3> HIDE DEF c
    <3> QED BY <1>4
  <2> HIDE DEF c
  <2> QED BY <1>2, <1>3, <1>6, <2>1, <2>2
<1>9. ASSUME NEW b \in Nat, b % 2 = 1, n * b > start PROVE b >= c
  <2>1. b > q
    <3> SUFFICES ASSUME b <= q PROVE FALSE
      OBVIOUS
    <3>1. n * b <= n * q BY ProductGrows
    <3>2. n * b \in Nat /\ n * q \in Nat OBVIOUS
    <3> QED BY <1>2, <1>3, <1>9, <3>1, <3>2
  <2>2. (q + 1) % 2 = 0 => b # q + 1 BY <1>9
  <2> QED BY <2>1, <2>2
<1> HIDE DEF c
<1>10. IsFirst(n, start, FirstMark(n, start), c) BY <1>4, <1>5, <1>7, <1>8, <1>9 DEF IsFirst
<1> QED BY <1>4, <1>10

(* The index of the odd number x in the segment that begins at start.      *)
Index(x, start) == (x - start) \div 2

(* Marks marks the odd multiples of n in the segment.                      *)
LEMMA MarksMultiples ==
  ASSUME NEW n \in Nat \ {0}, n % 2 = 1, NEW start \in Nat, start % 2 = 0,
         NEW finish \in Nat, NEW x \in (start + 1)..finish, x % 2 = 1
  PROVE  Index(x, start) \in Marks(n, start, finish) <=> x % n = 0
<1>1. PICK m : m = FirstMark(n, start) OBVIOUS
<1>2. PICK c \in Nat : IsFirst(n, start, m, c) BY <1>1, FirstMarkIs
<1>3. /\ m = n * c /\ m \in Nat /\ m > start /\ c % 2 = 1 /\ m % 2 = 1
      /\ \A b \in Nat : b % 2 = 1 /\ n * b > start => b >= c
  <2>1. n * c \in Nat OBVIOUS
  <2> QED BY <1>2, <2>1 DEF IsFirst
<1>4. Marks(n, start, finish) = {(m - start) \div 2 + j * n : j \in 0..((finish - m) \div (2 * n))}
  BY <1>1 DEF Marks, FirstMark
<1>5. ASSUME NEW j \in Nat
      PROVE  Index(x, start) = (m - start) \div 2 + j * n <=> x = m + 2 * (j * n)
  <2>1. PICK z \in Nat : z = j * n OBVIOUS
  <2>2. 2 * ((x - start) \div 2) = x - start - 1 OBVIOUS
  <2>3. 2 * ((m - start) \div 2) = m - start - 1 BY <1>3
  <2>4. (x - start) \div 2 \in Int /\ (m - start) \div 2 \in Int BY <1>3
  <2>5. (x - start) \div 2 = (m - start) \div 2 + z <=> x = m + 2 * z
    BY <1>3, <2>2, <2>3, <2>4
  <2> QED BY <2>1, <2>5 DEF Index
<1>6. ASSUME Index(x, start) \in Marks(n, start, finish) PROVE x % n = 0
  <2>1. PICK j \in 0..((finish - m) \div (2 * n)) : Index(x, start) = (m - start) \div 2 + j * n
    BY <1>4, <1>6
  <2>2. j \in Nat BY <2>1
  <2>3. x = n * c + 2 * (j * n) BY <1>3, <1>5, <2>1, <2>2
  <2>4. n * c + 2 * (j * n) = n * (c + 2 * j) BY <2>2
  <2>5. c + 2 * j \in Nat BY <2>2
  <2> QED BY <2>3, <2>4, <2>5, Multiple
<1>7. ASSUME x % n = 0 PROVE Index(x, start) \in Marks(n, start, finish)
  <2>1. PICK b \in Nat : x = n * b
    <3>1. x \in Nat OBVIOUS
    <3> QED BY <1>7, <3>1, Divides
  <2>2. b % 2 = 1
    <3>1. (n * b) % 2 = b % 2 BY OddProduct
    <3> QED BY <2>1, <3>1
  <2>3. b >= c
    <3>1. n * b > start BY <2>1
    <3> QED BY <1>3, <2>2, <3>1
  <2>4. PICK j \in Nat : b = c + 2 * j
    <3>1. (b - c) \div 2 \in Nat /\ b = c + 2 * ((b - c) \div 2) BY <1>3, <2>2, <2>3
    <3> QED BY <3>1
  <2>5. x = m + 2 * (j * n)
    <3>1. n * (c + 2 * j) = n * c + 2 * (j * n) OBVIOUS
    <3> QED BY <1>3, <2>1, <2>4, <3>1
  <2>6. j <= (finish - m) \div (2 * n)
    <3> DEFINE d == 2 * n
    <3>1. 2 * (j * n) = d * j OBVIOUS
    <3>2. d \in Nat \ {0} /\ d * j \in Nat OBVIOUS
    <3> HIDE DEF d
    <3>3. finish - m \in Nat /\ d * j <= finish - m BY <1>3, <2>5, <3>1, <3>2
    <3>4. PICK q \in Nat : q = (finish - m) \div d BY <3>2, <3>3, Division
    <3>5. PICK r \in 0..(d - 1) : r = (finish - m) % d BY <3>2, <3>3, Division
    <3>6. finish - m = d * q + r BY <3>2, <3>3, <3>4, <3>5, Division
    <3>7. j <= q
      <4> SUFFICES ASSUME q + 1 <= j PROVE FALSE
        BY <3>4
      <4>1. d * (q + 1) <= d * j BY <3>2, ProductGrows
      <4>2. d * (q + 1) = d * q + d BY <3>2
      <4>3. d * q \in Nat BY <3>2
      <4> QED BY <3>2, <3>3, <3>5, <3>6, <4>1, <4>2, <4>3
    <3> QED BY <3>4, <3>7 DEF d
  <2>7. j \in 0..((finish - m) \div (2 * n))
    <3>1. (finish - m) \div (2 * n) \in Int BY <1>3
    <3> QED BY <2>6, <3>1
  <2>8. Index(x, start) = (m - start) \div 2 + j * n BY <1>5, <2>5
  <2> QED BY <1>4, <2>7, <2>8
<1> QED BY <1>6, <1>7

-----------------------------------------------------------------------------
(* Lists of numbers in order.                                              *)

(* s has the elements of S, in order and each once.                        *)
Lists(s, S) ==
  /\ s \in Seq(Nat)
  /\ \A j, k \in 1..Len(s) : j < k => s[j] < s[k]
  /\ \A k \in 1..Len(s) : s[k] \in S
  /\ \A a \in S : \E k \in 1..Len(s) : s[k] = a

(* Of the elements of T, S has those up to some place.                     *)
Initial(S, T) == S \subseteq T /\ \A x \in T, y \in S : x <= y => x \in S

(* s is the beginning of t.                                                *)
Begins(s, t) == Len(s) <= Len(t) /\ \A k \in 1..Len(s) : s[k] = t[k]

(* The list of the smaller elements begins the list of all.                *)
LEMMA ListsBegin ==
  ASSUME NEW S, NEW T, NEW s, NEW t, Lists(s, S), Lists(t, T), Initial(S, T)
  PROVE  Begins(s, t)
<1>1. /\ Len(s) \in Nat /\ \A k \in 1..Len(s) : s[k] \in Nat
      /\ Len(t) \in Nat /\ \A k \in 1..Len(t) : t[k] \in Nat
  BY LenProperties, ElementOfSeq DEF Lists
<1> DEFINE P == {n \in Nat : \A k \in 1..n : k <= Len(s) => k <= Len(t) /\ s[k] = t[k]}
<1>2. 0 \in P OBVIOUS
<1>3. ASSUME NEW n \in Nat, n \in P PROVE n + 1 \in P
  <2>1. \A k \in 1..n : k <= Len(s) => k <= Len(t) /\ s[k] = t[k] BY <1>3
  <2>2. ASSUME n + 1 <= Len(s) PROVE n + 1 <= Len(t) /\ s[n + 1] = t[n + 1]
    <3>1. n + 1 \in 1..Len(s) BY <1>1, <2>2
    <3>2. s[n + 1] \in S /\ s[n + 1] \in T BY <3>1 DEF Lists, Initial
    <3>3. PICK i \in 1..Len(t) : t[i] = s[n + 1] BY <3>2 DEF Lists
    <3>4. i >= n + 1
      <4> SUFFICES ASSUME i <= n PROVE FALSE
        BY <1>1
      <4>1. i \in 1..n /\ i \in 1..Len(s) /\ i < n + 1 BY <1>1, <2>2
      <4>2. s[i] = t[i] BY <2>1, <4>1
      <4>3. s[i] < s[n + 1] BY <3>1, <4>1 DEF Lists
      <4> QED BY <1>1, <3>3, <4>1, <4>2, <4>3
    <3>5. n + 1 \in 1..Len(t) BY <1>1, <3>4
    <3>6. t[n + 1] <= s[n + 1]
      <4>1. i = n + 1 \/ t[n + 1] < t[i] BY <1>1, <3>4, <3>5 DEF Lists
      <4> QED BY <1>1, <3>1, <3>3, <3>5, <4>1
    <3>7. t[n + 1] \in S
      <4>1. t[n + 1] \in T BY <3>5 DEF Lists
      <4> QED BY <3>2, <3>6, <4>1 DEF Initial
    <3>8. PICK h \in 1..Len(s) : s[h] = t[n + 1] BY <3>7 DEF Lists
    <3>9. h >= n + 1
      <4> SUFFICES ASSUME h <= n PROVE FALSE
        BY <1>1
      <4>1. h \in 1..n /\ h \in 1..Len(t) /\ h < n + 1 BY <1>1, <3>5
      <4>2. s[h] = t[h] BY <2>1, <4>1
      <4>3. t[h] < t[n + 1] BY <3>5, <4>1 DEF Lists
      <4> QED BY <1>1, <3>5, <3>8, <4>2, <4>3
    <3>10. s[n + 1] <= t[n + 1]
      <4>1. h = n + 1 \/ s[n + 1] < s[h] BY <1>1, <3>1, <3>9 DEF Lists
      <4> QED BY <1>1, <3>1, <3>5, <3>8, <4>1
    <3> QED BY <1>1, <3>1, <3>5, <3>6, <3>10
  <2> QED BY <2>1, <2>2
<1>4. Len(s) \in P
  <2>1. Nat \subseteq P
    <3> HIDE DEF P
    <3> QED BY <1>2, <1>3, NatSetInduction
  <2> QED BY <1>1, <2>1
<1>5. \A k \in 1..Len(s) : k <= Len(t) /\ s[k] = t[k] BY <1>1, <1>4
<1>6. Len(s) <= Len(t)
  <2>1. Len(s) = 0 \/ Len(s) \in 1..Len(s) BY <1>1
  <2> QED BY <1>1, <1>5, <2>1
<1> QED BY <1>5, <1>6 DEF Begins

(* A list followed by a list of greater numbers.                           *)
LEMMA ListsJoin ==
  ASSUME NEW S, NEW T, NEW s, NEW t, Lists(s, S), Lists(t, T),
         \A x \in S, y \in T : x < y
  PROVE  Lists(s \o t, S \cup T)
<1>1. s \in Seq(Nat) /\ t \in Seq(Nat) /\ Len(s) \in Nat /\ Len(t) \in Nat
  BY LenProperties DEF Lists
<1> DEFINE u == s \o t
<1>2. /\ u \in Seq(Nat) /\ Len(u) = Len(s) + Len(t)
      /\ \A k \in 1..Len(u) : u[k] = IF k <= Len(s) THEN s[k] ELSE t[k - Len(s)]
  BY <1>1, ConcatProperties
<1> HIDE DEF u
<1>3. ASSUME NEW k \in 1..Len(u)
      PROVE  \/ k \in 1..Len(s) /\ u[k] = s[k] /\ u[k] \in S
             \/ k - Len(s) \in 1..Len(t) /\ u[k] = t[k - Len(s)] /\ u[k] \in T
  <2>1. k \in 1..Len(s) \/ (~ (k <= Len(s)) /\ k - Len(s) \in 1..Len(t)) BY <1>1, <1>2
  <2>2. CASE k \in 1..Len(s)
    <3>1. u[k] = s[k] BY <1>1, <1>2, <2>2
    <3>2. s[k] \in S BY <2>2 DEF Lists
    <3> QED BY <2>2, <3>1, <3>2
  <2>3. CASE ~ (k <= Len(s)) /\ k - Len(s) \in 1..Len(t)
    <3>1. u[k] = t[k - Len(s)] BY <1>2, <2>3
    <3>2. t[k - Len(s)] \in T BY <2>3 DEF Lists
    <3> QED BY <2>3, <3>1, <3>2
  <2> QED BY <2>1, <2>2, <2>3
<1>4. ASSUME NEW j \in 1..Len(u), NEW k \in 1..Len(u), j < k PROVE u[j] < u[k]
  <2>1. CASE k \in 1..Len(s)
    <3>1. j \in 1..Len(s) /\ j <= Len(s) /\ k <= Len(s) BY <1>1, <1>4, <2>1
    <3> QED BY <1>2, <1>4, <2>1, <3>1 DEF Lists
  <2>2. CASE k \notin 1..Len(s)
    <3>1. k - Len(s) \in 1..Len(t) /\ u[k] = t[k - Len(s)] /\ u[k] \in T BY <1>3, <2>2
    <3>2. CASE j \in 1..Len(s)
      <4>1. u[j] \in S
        <5>1. u[j] = s[j] BY <1>1, <1>2, <3>2
        <5> QED BY <3>2, <5>1 DEF Lists
      <4> QED BY <3>1, <4>1
    <3>3. CASE j \notin 1..Len(s)
      <4>1. j - Len(s) \in 1..Len(t) /\ u[j] = t[j - Len(s)] BY <1>3, <3>3
      <4>2. j - Len(s) < k - Len(s) BY <1>1, <1>2, <1>4
      <4> QED BY <3>1, <4>1, <4>2 DEF Lists
    <3> QED BY <3>2, <3>3
  <2> QED BY <2>1, <2>2
<1>5. ASSUME NEW a \in S \cup T PROVE \E k \in 1..Len(u) : u[k] = a
  <2>1. CASE a \in S
    <3>1. PICK k \in 1..Len(s) : s[k] = a BY <2>1 DEF Lists
    <3>2. k \in 1..Len(u) /\ k <= Len(s) BY <1>1, <1>2
    <3> QED BY <1>2, <3>1, <3>2
  <2>2. CASE a \in T
    <3>1. PICK k \in 1..Len(t) : t[k] = a BY <2>2 DEF Lists
    <3>2. k + Len(s) \in 1..Len(u) /\ ~ (k + Len(s) <= Len(s)) /\ (k + Len(s)) - Len(s) = k
      BY <1>1, <1>2
    <3> QED BY <1>2, <3>1, <3>2
  <2> QED BY <2>1, <2>2
<1>6. \A k \in 1..Len(u) : u[k] \in S \cup T BY <1>3
<1> QED BY <1>2, <1>4, <1>5, <1>6 DEF Lists, u

(* What is selected from a sequence in order is in order.                  *)
LEMMA SelectedLists ==
  ASSUME NEW s \in Seq(Nat), \A j, k \in 1..Len(s) : j < k => s[j] < s[k], NEW K
  PROVE  Lists(Selected(s, K), {s[k] : k \in K \cap 1..Len(s)})
<1>1. PICK P : P = K \cap 1..Len(s) OBVIOUS
<1>2. PICK u : u = Selected(s, K) OBVIOUS
<1>3. /\ u \in Seq(Nat)
      /\ \A j \in P : \E k \in 1..Len(u) : u[k] = s[j]
      /\ \A k \in 1..Len(u) : \E j \in P : u[k] = s[j]
      /\ \A k, h \in 1..Len(u) : k < h => \E i, j \in P : i < j /\ u[k] = s[i] /\ u[h] = s[j]
  <2>1. /\ Selected(s, K) \in Seq(Nat)
        /\ \A j \in K \cap 1..Len(s) : \E k \in 1..Len(Selected(s, K)) : Selected(s, K)[k] = s[j]
        /\ \A k \in 1..Len(Selected(s, K)) : \E j \in K \cap 1..Len(s) : Selected(s, K)[k] = s[j]
        /\ InOrder(s, K, Selected(s, K))
    BY SelectedElements
  <2>2. u \in Seq(Nat) /\ InOrder(s, K, u) BY <1>2, <2>1
  <2>3. \A j \in P : \E k \in 1..Len(u) : u[k] = s[j] BY <1>1, <1>2, <2>1
  <2>4. \A k \in 1..Len(u) : \E j \in P : u[k] = s[j] BY <1>1, <1>2, <2>1
  <2>5. \A k, h \in 1..Len(u) : k < h => \E i, j \in P : i < j /\ u[k] = s[i] /\ u[h] = s[j]
    BY <1>1, <2>2, Zenon DEF InOrder
  <2> QED BY <2>2, <2>3, <2>4, <2>5
<1>4. ASSUME NEW k \in 1..Len(u), NEW h \in 1..Len(u), k < h PROVE u[k] < u[h]
  <2>1. PICK i \in P, j \in P : i < j /\ u[k] = s[i] /\ u[h] = s[j] BY <1>3, <1>4
  <2>2. i \in 1..Len(s) /\ j \in 1..Len(s) BY <1>1
  <2> QED BY <2>1, <2>2
<1>5. PICK A : A = {s[k] : k \in P} OBVIOUS
<1>6. \A k \in 1..Len(u) : u[k] \in A
  <2> TAKE k \in 1..Len(u)
  <2>1. PICK j \in P : u[k] = s[j] BY <1>3
  <2> QED BY <1>5, <2>1
<1>7. ASSUME NEW a \in A PROVE \E k \in 1..Len(u) : u[k] = a
  <2>1. PICK j \in P : a = s[j] BY <1>5
  <2>2. \E k \in 1..Len(u) : u[k] = s[j] BY <1>3
  <2> QED BY <2>1, <2>2
<1>8. Lists(u, A)
  <2>1. u \in Seq(Nat) BY <1>3
  <2> QED BY <1>4, <1>6, <1>7, <2>1, ZenonT(60) DEF Lists
<1> QED BY <1>1, <1>2, <1>5, <1>8

(* The beginning of a list has what is not greater than its last element.  *)
LEMMA ListsPart ==
  ASSUME NEW S, NEW s, Lists(s, S), NEW n \in 1..Len(s)
  PROVE  Lists(SubSeq(s, 1, n), {a \in S : a <= s[n]})
<1>1. s \in Seq(Nat) /\ Len(s) \in Nat /\ n \in Nat /\ \A k \in 1..Len(s) : s[k] \in Nat
  BY LenProperties, ElementOfSeq DEF Lists
<1>2. PICK u : u = SubSeq(s, 1, n) OBVIOUS
<1>3. u \in Seq(Nat) /\ Len(u) = n /\ \A k \in 1..n : u[k] = s[k]
  <2>1. PICK m \in Nat : m = Len(s) BY <1>1
  <2>2. PICK T : T = Nat OBVIOUS
  <2>3. s \in [1..m -> T] /\ n \in 0..m BY <1>1, <2>1, <2>2
  <2>4. SubSeq(s, 1, n) \in [1..n -> T] /\ \A k \in 1..n : SubSeq(s, 1, n)[k] = s[k]
    BY <2>3, SubSeqLines
  <2>5. u \in Seq(Nat) /\ Len(u) = n BY <1>1, <1>2, <2>2, <2>4, FunctionSeq
  <2> QED BY <1>2, <2>4, <2>5
<1>4. ASSUME NEW j \in 1..n, NEW k \in 1..n, j < k PROVE u[j] < u[k]
  <2>1. j \in 1..Len(s) /\ k \in 1..Len(s) BY <1>1
  <2> QED BY <1>3, <1>4, <2>1 DEF Lists
<1>5. ASSUME NEW k \in 1..n PROVE u[k] \in {a \in S : a <= s[n]}
  <2>1. k \in 1..Len(s) BY <1>1
  <2>2. s[k] \in S BY <2>1 DEF Lists
  <2>3. k = n \/ s[k] < s[n] BY <1>1, <2>1 DEF Lists
  <2>4. s[k] <= s[n] BY <1>1, <2>1, <2>3
  <2> QED BY <1>3, <2>2, <2>4
<1>6. ASSUME NEW a \in {b \in S : b <= s[n]} PROVE \E k \in 1..n : u[k] = a
  <2>1. PICK k \in 1..Len(s) : s[k] = a BY DEF Lists
  <2>2. k <= n
    <3>1. n < k => s[n] < s[k] BY <1>1 DEF Lists
    <3> QED BY <1>1, <2>1, <3>1
  <2>3. k \in 1..n BY <2>2
  <2> QED BY <1>3, <2>1, <2>3
<1> QED BY <1>2, <1>3, <1>4, <1>5, <1>6 DEF Lists

-----------------------------------------------------------------------------
(* One segment.                                                            *)

(* The primes up to n.                                                     *)
Upto(n) == {p \in Nat : IsPrime(p) /\ p <= n}

(* The primes up to the square root of n are among those up to start.      *)
Rooted(n, start) == \A p \in Nat : IsPrime(p) /\ p * p <= n => p <= start

(* The parts of Sifted.                                                    *)
Finish(start, limit) ==
  IF start + 2 * segment + 1 < limit THEN start + 2 * segment + 1 ELSE limit
Odds(start, finish) == [k \in 1..((finish - start + 1) \div 2) |-> start + 2 * k - 1]
Crossed(at, limit) == Marked(at.list, at.start, Finish(at.start, limit))
Left(at, limit) ==
  DOMAIN Odds(at.start, Finish(at.start, limit))
    \ {k + 1 : k \in Crossed(at, limit) \cup (IF at.byte THEN {} ELSE {segment})}

(* Sifted, by its parts.                                                   *)
LEMMA SiftedParts ==
  ASSUME NEW at, NEW limit
  PROVE  Sifted(at, limit) =
           [list |-> at.list \o Selected(Odds(at.start, Finish(at.start, limit)), Left(at, limit)),
            start |-> at.start + 2 * segment,
            byte |-> at.byte /\ segment \notin Crossed(at, limit)]
  BY DEF Sifted, Finish, Odds, Crossed, Left

(* The odd numbers of a segment ascend.                                    *)
LEMMA OddsRise ==
  ASSUME NEW start \in Nat, NEW finish \in Nat, start <= finish
  PROVE  /\ Odds(start, finish) \in Seq(Nat)
         /\ Len(Odds(start, finish)) = (finish - start + 1) \div 2
         /\ DOMAIN Odds(start, finish) = 1..((finish - start + 1) \div 2)
         /\ \A j \in 1..Len(Odds(start, finish)) : Odds(start, finish)[j] = start + 2 * j - 1
         /\ \A j, k \in 1..Len(Odds(start, finish)) :
              j < k => Odds(start, finish)[j] < Odds(start, finish)[k]
<1>1. PICK d \in Nat : d = (finish - start + 1) \div 2 OBVIOUS
<1>2. PICK odd : odd = [k \in 1..d |-> start + 2 * k - 1] OBVIOUS
<1>3. odd = Odds(start, finish) BY <1>1, <1>2 DEF Odds
<1>4. odd \in [1..d -> Nat] /\ \A k \in 1..d : odd[k] = start + 2 * k - 1 BY <1>2
<1>5. odd \in Seq(Nat) /\ Len(odd) = d /\ DOMAIN odd = 1..d BY <1>4, FunctionSeq
<1>6. ASSUME NEW j \in 1..d, NEW k \in 1..d, j < k PROVE odd[j] < odd[k]
  <2>1. odd[j] = start + 2 * j - 1 /\ odd[k] = start + 2 * k - 1 BY <1>4
  <2> QED BY <1>6, <2>1
<1> QED BY <1>1, <1>3, <1>4, <1>5, <1>6

(* Sifted makes a sieving of a sieving, and only adds to the list.         *)
LEMMA SiftedTyped ==
  ASSUME NEW at \in Sieving, NEW limit \in Nat, at.start <= limit, segment \in Nat \ {0}
  PROVE  /\ Sifted(at, limit) \in Sieving
         /\ Sifted(at, limit).start = at.start + 2 * segment
         /\ Len(Sifted(at, limit).list) >= Len(at.list)
<1>1. at.list \in Seq(Nat) /\ at.start \in Nat /\ at.byte \in BOOLEAN BY DEF Sieving
<1>2. PICK finish : finish = Finish(at.start, limit) OBVIOUS
<1>3. finish \in Nat /\ at.start <= finish BY <1>1, <1>2 DEF Finish
<1>4. PICK odd \in Seq(Nat) : odd = Odds(at.start, finish) BY <1>1, <1>3, OddsRise
<1>5. PICK new \in Seq(Nat) : new = Selected(odd, Left(at, limit)) BY <1>4, SelectedElements
<1>6. PICK list : list = at.list \o new OBVIOUS
<1>7. list \in Seq(Nat) /\ Len(list) = Len(at.list) + Len(new) BY <1>1, <1>5, <1>6, ConcatProperties
<1>8. Len(list) >= Len(at.list)
  <2>1. Len(at.list) \in Nat /\ Len(new) \in Nat BY <1>1, <1>5, LenProperties
  <2> QED BY <1>7, <2>1
<1>9. PICK byte \in BOOLEAN : byte = (at.byte /\ segment \notin Crossed(at, limit))
  OBVIOUS
<1>10. PICK start \in Nat : start = at.start + 2 * segment BY <1>1
<1>11. Sifted(at, limit) = [list |-> list, start |-> start, byte |-> byte]
  BY <1>2, <1>4, <1>5, <1>6, <1>9, <1>10, SiftedParts
<1> QED BY <1>7, <1>8, <1>10, <1>11 DEF Sieving

(* In a list of primes only the first is even.                             *)
LEMMA OddElements ==
  ASSUME NEW known, NEW start \in Nat, start >= 2, Lists(known, Upto(start))
  PROVE  /\ \A k \in 1..Len(known) : known[k] \in Nat /\ IsPrime(known[k]) /\ known[k] <= start
         /\ \A k \in 1..Len(known) : k = 1 <=> known[k] = 2
         /\ \A k \in 2..Len(known) : known[k] % 2 = 1
<1>1. Len(known) \in Nat BY LenProperties DEF Lists
<1>2. \A k \in 1..Len(known) : known[k] \in Nat /\ IsPrime(known[k]) /\ known[k] <= start
  BY DEF Lists, Upto
<1>3. \A k \in 1..Len(known) : known[k] >= 2 BY <1>2 DEF IsPrime
<1>4. PICK j \in 1..Len(known) : known[j] = 2
  <2>1. IsPrime(2) BY DEF IsPrime
  <2>2. 2 \in Upto(start) BY <2>1 DEF Upto
  <2> QED BY <2>2 DEF Lists
<1>5. j = 1
  <2> SUFFICES ASSUME j > 1 PROVE FALSE
    BY <1>1
  <2>1. 1 \in 1..Len(known) BY <1>1
  <2>2. known[1] < known[j] BY <2>1 DEF Lists
  <2>3. known[1] >= 2 /\ known[1] \in Nat BY <1>2, <1>3, <2>1
  <2> QED BY <1>4, <2>2, <2>3
<1>6. ASSUME NEW k \in 1..Len(known), k # 1 PROVE known[k] # 2 /\ known[k] % 2 = 1
  <2>1. 1 < k /\ 1 \in 1..Len(known) BY <1>1, <1>6
  <2>2. known[1] < known[k] BY <2>1 DEF Lists
  <2>3. known[k] \in Nat /\ known[k] # 2 BY <1>2, <1>4, <1>5, <2>2
  <2>4. known[k] % 2 # 0 BY <1>2, <2>3, EvenPrime
  <2> QED BY <2>3, <2>4
<1>7. \A k \in 2..Len(known) : k \in 1..Len(known) /\ k # 1 BY <1>1
<1> QED BY <1>2, <1>4, <1>5, <1>6, <1>7

(* The odd numbers of a segment that the known primes mark are those that  *)
(* are not prime.                                                          *)
LEMMA MarkedComposite ==
  ASSUME NEW known, NEW start \in Nat, start >= 2, start % 2 = 0, Lists(known, Upto(start)),
         NEW finish \in Nat, Rooted(finish, start),
         NEW x \in (start + 1)..finish, x % 2 = 1
  PROVE  Index(x, start) \in Marked(known, start, finish) <=> ~ IsPrime(x)
<1>1. Len(known) \in Nat BY LenProperties DEF Lists
<1>2. /\ \A k \in 1..Len(known) : known[k] \in Nat /\ IsPrime(known[k]) /\ known[k] <= start
      /\ \A k \in 1..Len(known) : k = 1 <=> known[k] = 2
      /\ \A k \in 2..Len(known) : known[k] % 2 = 1
  BY OddElements
<1>3. ASSUME NEW k \in 2..Len(known)
      PROVE  /\ known[k] \in Nat \ {0} /\ known[k] > 1 /\ known[k] < x
             /\ Index(x, start) \in Marks(known[k], start, finish) <=> x % known[k] = 0
  <2>1. k \in 1..Len(known) BY <1>1
  <2>2. known[k] \in Nat /\ known[k] > 1 /\ known[k] < x /\ known[k] % 2 = 1
    <3>1. known[k] \in Nat /\ IsPrime(known[k]) /\ known[k] <= start BY <1>2, <2>1
    <3>2. known[k] > 1 BY <3>1 DEF IsPrime
    <3>3. known[k] % 2 = 1 BY <1>2
    <3> QED BY <3>1, <3>2, <3>3
  <2>3. PICK n \in Nat \ {0} : n = known[k] BY <2>2
  <2>4. Index(x, start) \in Marks(n, start, finish) <=> x % n = 0
    BY <2>2, <2>3, MarksMultiples
  <2> QED BY <2>2, <2>3, <2>4
<1>4. ASSUME Index(x, start) \in Marked(known, start, finish), IsPrime(x) PROVE FALSE
  <2>1. PICK k \in 2..Len(known) : Index(x, start) \in Marks(known[k], start, finish)
    <3>1. PICK k \in 2..Len(known) :
            Index(x, start) \in IF known[k] * known[k] <= finish
                                  THEN Marks(known[k], start, finish) ELSE {}
      BY <1>4 DEF Marked
    <3>2. Index(x, start) \in Marks(known[k], start, finish)
      <4>1. CASE known[k] * known[k] <= finish BY <3>1, <4>1
      <4>2. CASE ~ (known[k] * known[k] <= finish) BY <3>1, <4>2
      <4> QED BY <4>1, <4>2
    <3> QED BY <3>2
  <2>2. PICK d : d = known[k] OBVIOUS
  <2>3. d \in Nat /\ d > 1 /\ d < x /\ x % d = 0 BY <1>3, <2>1, <2>2
  <2>4. d \in 2..(x - 1) /\ x \in Nat BY <2>3
  <2> QED BY <1>4, <2>3, <2>4, PrimeIndivisible
<1>5. ASSUME ~ IsPrime(x) PROVE Index(x, start) \in Marked(known, start, finish)
  <2>1. x \in Nat /\ x > 1 OBVIOUS
  <2>2. PICK p \in 2..(x - 1) : IsPrime(p) /\ p * p <= x /\ x % p = 0
    BY <1>5, <2>1, PrimeDivisor
  <2>3. p \in Nat /\ p * p \in Nat /\ p * p <= finish
    <3>1. p \in Nat /\ p * p \in Nat OBVIOUS
    <3> QED BY <2>2, <3>1
  <2>4. p <= start BY <2>2, <2>3 DEF Rooted
  <2>5. p \in Upto(start) BY <2>2, <2>3, <2>4 DEF Upto
  <2>6. PICK k \in 1..Len(known) : known[k] = p BY <2>5 DEF Lists
  <2>7. p # 2
    <3>1. x % 2 = 1 OBVIOUS
    <3> QED BY <2>2, <3>1
  <2>8. k \in 2..Len(known)
    <3>1. k # 1 BY <1>2, <2>6, <2>7
    <3> QED BY <1>1, <3>1
  <2>9. Index(x, start) \in Marks(known[k], start, finish) BY <1>3, <2>2, <2>6, <2>8
  <2>10. known[k] * known[k] <= finish BY <2>3, <2>6
  <2> QED BY <2>8, <2>9, <2>10 DEF Marked
<1> QED BY <1>4, <1>5

(* Where the primes end of which a segment has all.                        *)
Reached(start, limit) == IF start + 2 * segment < limit THEN start + 2 * segment ELSE limit

(* The sieve at the beginning of a segment when all goes well: the list    *)
(* has the primes up to there, among them those up to the root of the      *)
(* limit.                                                                  *)
Sound(at, limit) ==
  /\ at \in Sieving /\ at.byte = FALSE
  /\ at.start >= 2 /\ at.start % 2 = 0
  /\ Rooted(limit, at.start)
  /\ Lists(at.list, Upto(IF at.start < limit THEN at.start ELSE limit))

(* A segment adds the primes that are in it.                               *)
LEMMA SiftedPrimes ==
  ASSUME NEW at \in Sieving, NEW limit \in Nat, at.start <= limit, segment \in Nat \ {0},
         at.byte = FALSE, at.start >= 2, at.start % 2 = 0,
         Rooted(limit, at.start), Lists(at.list, Upto(at.start))
  PROVE  Lists(Sifted(at, limit).list, Upto(Reached(at.start, limit)))
<1>1. PICK start \in Nat : start = at.start BY DEF Sieving
<1>0. start % 2 = 0 BY <1>1
<1>2. PICK finish : finish = Finish(start, limit) OBVIOUS
<1>3. finish \in Nat /\ start <= finish /\ finish <= limit /\ finish <= start + 2 * segment + 1
  BY <1>1, <1>2 DEF Finish
<1>4. PICK d \in Nat : d = (finish - start + 1) \div 2 BY <1>3
<1>5. PICK odd \in Seq(Nat) : odd = Odds(start, finish) BY <1>3, OddsRise
<1>6. /\ Len(odd) = d /\ DOMAIN odd = 1..d
      /\ \A k \in 1..d : odd[k] = start + 2 * k - 1
      /\ \A j, k \in 1..Len(odd) : j < k => odd[j] < odd[k]
  <2>1. /\ Len(odd) = (finish - start + 1) \div 2
        /\ DOMAIN odd = 1..((finish - start + 1) \div 2)
        /\ \A j \in 1..Len(odd) : odd[j] = start + 2 * j - 1
        /\ \A j, k \in 1..Len(odd) : j < k => odd[j] < odd[k]
    BY <1>3, <1>5, OddsRise
  <2> QED BY <1>4, <2>1
<1>7. PICK K : K = Left(at, limit) OBVIOUS
<1>8. \A k \in 1..d : k \in K <=> k - 1 \notin Marked(at.list, start, finish) /\ k - 1 # segment
  <2>1. K = 1..d \ {k + 1 : k \in Marked(at.list, start, finish) \cup {segment}}
    BY <1>1, <1>2, <1>5, <1>6, <1>7 DEF Left, Crossed
  <2>2. \A c \in Marked(at.list, start, finish) : c \in Int
    <3>1. at.list \in Seq(Nat) BY DEF Sieving
    <3>2. \A k \in 2..Len(at.list) : at.list[k] \in Nat \ {0}
      <4>1. Len(at.list) \in Nat BY <3>1, LenProperties
      <4>2. \A k \in 2..Len(at.list) : k \in 1..Len(at.list) BY <4>1
      <4>3. \A k \in 1..Len(at.list) : at.list[k] \in Nat /\ IsPrime(at.list[k])
        BY <1>1, OddElements
      <4> QED BY <4>2, <4>3 DEF IsPrime
    <3>3. ASSUME NEW n \in Nat \ {0}, NEW c \in Marks(n, start, finish) PROVE c \in Int
      <4>1. PICK m : m = FirstMark(n, start) OBVIOUS
      <4>2. m \in Nat
        <5>1. PICK q \in Nat : q = start \div n BY Division
        <5>2. (q + 1) * n \in Nat /\ (q + 1) * n + n \in Nat BY <5>1
        <5> QED BY <4>1, <5>1, <5>2 DEF FirstMark
      <4>3. PICK j \in 0..((finish - m) \div (2 * n)) : c = (m - start) \div 2 + j * n
        BY <3>3, <4>1 DEF Marks, FirstMark
      <4>4. j \in Int BY <4>3
      <4>5. j * n \in Int BY <4>4
      <4>6. (m - start) \div 2 \in Int BY <4>2
      <4> QED BY <4>3, <4>5, <4>6
    <3>4. ASSUME NEW c \in Marked(at.list, start, finish) PROVE c \in Int
      <4>1. PICK k \in 2..Len(at.list) :
              c \in IF at.list[k] * at.list[k] <= finish
                      THEN Marks(at.list[k], start, finish) ELSE {}
        BY <3>4 DEF Marked
      <4>2. c \in Marks(at.list[k], start, finish) BY <4>1
      <4> QED BY <3>2, <3>3, <4>1, <4>2
    <3> QED BY <3>4
  <2>3. PICK C : C = Marked(at.list, start, finish) OBVIOUS
  <2>4. K = 1..d \ {k + 1 : k \in C \cup {segment}} /\ \A c \in C \cup {segment} : c \in Int
    BY <2>1, <2>2, <2>3
  <2>5. \A k \in 1..d : k \in K <=> k - 1 \notin C \cup {segment}
    <3> TAKE k \in 1..d
    <3>1. ASSUME k - 1 \in C \cup {segment} PROVE k \notin K
      <4>1. (k - 1) + 1 = k OBVIOUS
      <4> QED BY <2>4, <3>1, <4>1
    <3>2. ASSUME k \notin K PROVE k - 1 \in C \cup {segment}
      <4>1. PICK c \in C \cup {segment} : k = c + 1 BY <2>4, <3>2
      <4>2. k - 1 = c BY <2>4, <4>1
      <4> QED BY <4>1, <4>2
    <3> QED BY <3>1, <3>2
  <2> QED BY <2>3, <2>5
<1>9. Rooted(finish, start)
  <2> SUFFICES ASSUME NEW p \in Nat, IsPrime(p), p * p <= finish PROVE p <= start
    BY DEF Rooted
  <2>1. p * p \in Nat OBVIOUS
  <2>2. p * p <= limit BY <1>3, <2>1
  <2> QED BY <1>1, <2>2 DEF Rooted
<1>10. PICK e \in Nat : e = Reached(start, limit) BY <1>1 DEF Reached
<1>11. start <= e /\ e <= finish /\ (finish = start + 2 * segment + 1 => e = start + 2 * segment)
       /\ (finish # start + 2 * segment + 1 => e = finish)
  BY <1>1, <1>2, <1>3, <1>10 DEF Reached, Finish
<1> DEFINE New == {p \in Nat : IsPrime(p) /\ start < p /\ p <= e}
<1>12. ASSUME NEW k \in 1..d
       PROVE  /\ odd[k] \in (start + 1)..finish /\ odd[k] % 2 = 1
              /\ Index(odd[k], start) = k - 1
              /\ odd[k] <= e <=> k - 1 # segment
  <2>1. odd[k] = start + 2 * k - 1 BY <1>6
  <2>2. start % 2 = 0 /\ 2 * d <= finish - start + 1
    <3>1. PICK z \in Nat : z = finish - start + 1 BY <1>3
    <3>2. d = z \div 2 BY <1>4, <3>1
    <3>3. 2 * d <= z BY <3>2
    <3> QED BY <1>0, <3>1, <3>3
  <2>3. odd[k] \in (start + 1)..finish /\ odd[k] % 2 = 1 BY <1>3, <2>1, <2>2
  <2>4. Index(odd[k], start) = k - 1 BY <2>1 DEF Index
  <2>5. odd[k] <= e <=> k - 1 # segment BY <1>3, <1>11, <2>1, <2>3
  <2> QED BY <2>3, <2>4, <2>5
<1>13. {odd[k] : k \in K \cap 1..d} = New
  <2>1. ASSUME NEW k \in K \cap 1..d PROVE odd[k] \in New
    <3>1. k - 1 \notin Marked(at.list, start, finish) /\ k - 1 # segment BY <1>8
    <3>2. odd[k] \in (start + 1)..finish /\ odd[k] % 2 = 1 /\ Index(odd[k], start) = k - 1
          /\ odd[k] <= e
      <4>1. k \in 1..d OBVIOUS
      <4>2. /\ odd[k] \in (start + 1)..finish /\ odd[k] % 2 = 1
            /\ Index(odd[k], start) = k - 1
            /\ odd[k] <= e <=> k - 1 # segment
        BY <1>12, <4>1, ZenonT(60)
      <4> QED BY <3>1, <4>2, ZenonT(60)
    <3>3. PICK x \in (start + 1)..finish : x = odd[k] BY <3>2
    <3>4. Index(x, start) \in Marked(at.list, start, finish) <=> ~ IsPrime(x)
      BY <1>1, <1>3, <1>9, <3>2, <3>3, MarkedComposite
    <3>5. IsPrime(x) BY <3>1, <3>2, <3>3, <3>4
    <3>6. x <= e BY <3>2, <3>3, ZenonT(60)
    <3>7. x \in Nat /\ start < x
      <4>1. start \in Nat BY <1>1
      <4>2. x \in (start + 1)..finish BY <3>3
      <4>3. finish \in Nat BY <1>3
      <4> QED BY <4>1, <4>2, <4>3
    <3>8. x \in New BY <3>5, <3>6, <3>7
    <3> QED BY <3>3, <3>8, ZenonT(60)
  <2>2. ASSUME NEW p \in New PROVE \E k \in K \cap 1..d : p = odd[k]
    <3>1. p \in Nat /\ IsPrime(p) /\ start < p /\ p <= e /\ p <= finish BY <1>3, <1>11
    <3>2. p % 2 = 1
      <4>1. p # 2 BY <1>1, <3>1
      <4>2. p % 2 # 0 BY <3>1, <4>1, EvenPrime
      <4> QED BY <3>1, <4>2
    <3>3. PICK k \in Nat : p = start + 2 * k - 1
      <4>1. (p - start + 1) \div 2 \in Nat /\ p = start + 2 * ((p - start + 1) \div 2) - 1
        <5>1. PICK a \in Nat : start = 2 * a
          <6>1. start \div 2 \in Nat /\ start = 2 * (start \div 2) BY <1>0
          <6> QED BY <6>1
        <5>2. PICK b \in Nat : p = 2 * b + 1
          <6>1. p \div 2 \in Nat /\ p = 2 * (p \div 2) + 1 BY <3>1, <3>2
          <6> QED BY <6>1
        <5>3. p - start + 1 = 2 * (b - a + 1) /\ b >= a BY <3>1, <5>1, <5>2
        <5>4. PICK z \in Nat : z = b - a + 1 BY <5>3
        <5>5. p - start + 1 = 2 * z BY <5>3, <5>4
        <5>6. (2 * z) \div 2 = z OBVIOUS
        <5> QED BY <5>5, <5>6
      <4> QED BY <4>1
    <3>4. k \in 1..d BY <1>3, <1>4, <3>1, <3>3
    <3>5. odd[k] = p BY <1>6, <3>3, <3>4
    <3>6. k - 1 # segment /\ p \in (start + 1)..finish /\ Index(p, start) = k - 1
      BY <1>12, <3>1, <3>4, <3>5
    <3>7. Index(p, start) \in Marked(at.list, start, finish) <=> ~ IsPrime(p)
      BY <1>1, <1>3, <1>9, <3>2, <3>6, MarkedComposite
    <3>8. k \in K BY <1>8, <3>1, <3>4, <3>6, <3>7
    <3> QED BY <3>4, <3>5, <3>8
  <2> HIDE DEF New
  <2> QED BY <2>1, <2>2
<1>14. Lists(Selected(odd, K), New)
  <2>1. Lists(Selected(odd, K), {odd[k] : k \in K \cap 1..Len(odd)})
    BY <1>6, SelectedLists
  <2>2. {odd[k] : k \in K \cap 1..Len(odd)} = New
    <3> HIDE DEF New
    <3> QED BY <1>6, <1>13
  <2> HIDE DEF New
  <2> QED BY <2>1, <2>2
<1>15. Sifted(at, limit).list = at.list \o Selected(odd, K)
  BY <1>1, <1>2, <1>5, <1>7, SiftedParts
<1>16. Upto(start) \cup New = Upto(e) BY <1>1, <1>11 DEF Upto
<1>17. \A x \in Upto(start), y \in New : x < y BY DEF Upto
<1>18. Lists(at.list \o Selected(odd, K), Upto(start) \cup New)
  <2> HIDE DEF New
  <2> QED BY <1>1, <1>14, <1>17, ListsJoin
<1> QED BY <1>1, <1>10, <1>15, <1>16, <1>18

-----------------------------------------------------------------------------
(* The segments.                                                           *)

(* What sieving is left after at.                                          *)
Sieves(f, limit) ==
  \A at \in Sieving : f[at] = IF at.start > limit THEN at.list ELSE f[Sifted(at, limit)]

(* The recursion in Sieved.                                                *)
LEMMA SievedSteps ==
  ASSUME NEW limit \in Nat, segment \in Nat \ {0}
  PROVE  \E f : /\ Sieves(f, limit)
                /\ \A known, start, g :
                     Sieved(known, start, limit, g)
                       = f[[list |-> known, start |-> start, byte |-> g]]
<1> DEFINE V == Seq(Nat)
           Rank(at) == IF at.start > limit THEN 0 ELSE limit + 1 - at.start
           rank == [at \in Sieving |-> Rank(at)]
           Body(h, at) == IF at.start > limit THEN at.list ELSE h[Sifted(at, limit)]
           F == [at \in Sieving |-> [h \in [Sieving -> V] |-> Body(h, at)]]
           f == CHOOSE f : f = [at \in Sieving |-> Body(f, at)]
<1>1. \A at \in Sieving : at.start \in Nat /\ at.list \in V BY DEF Sieving
<1>2. \A at \in Sieving : ~ (at.start > limit) => Sifted(at, limit) \in Sieving
  <2> TAKE at \in Sieving
  <2> HAVE ~ (at.start > limit)
  <2>1. at.start <= limit BY <1>1
  <2> QED BY <2>1, SiftedTyped
<1>3. V # {} /\ limit + 1 \in Nat /\ rank \in [Sieving -> 0..(limit + 1)]
  <2>1. <<>> \in Seq(Nat) OBVIOUS
  <2>2. V # {} BY <2>1
  <2>3. \A at \in Sieving : Rank(at) \in 0..(limit + 1) BY <1>1
  <2>4. rank \in [Sieving -> 0..(limit + 1)]
    <3> HIDE DEF Rank
    <3> QED BY <2>3
  <2> QED BY <2>2, <2>4
<1>4. F \in [Sieving -> [[Sieving -> V] -> V]]
  <2>1. ASSUME NEW at \in Sieving, NEW h \in [Sieving -> V] PROVE Body(h, at) \in V
    <3> HIDE DEF V
    <3> QED BY <1>1, <1>2
  <2> HIDE DEF V, Body
  <2> QED BY <2>1
<1>5. ByRank(Sieving, V, rank, F)
  <2> SUFFICES ASSUME NEW at \in Sieving, NEW x \in [Sieving -> V], NEW y \in [Sieving -> V],
                      \A e \in Sieving : rank[e] < rank[at] => x[e] = y[e]
               PROVE  F[at][x] = F[at][y]
    <3> HIDE DEF V, rank, F
    <3> QED BY Zenon DEF ByRank
  <2>1. ASSUME ~ (at.start > limit) PROVE x[Sifted(at, limit)] = y[Sifted(at, limit)]
    <3>1. at.start \in Nat /\ at.start <= limit BY <1>1, <2>1
    <3>2. PICK e \in Sieving : e = Sifted(at, limit) BY <1>2, <2>1
    <3>3. e.start = at.start + 2 * segment BY <3>1, <3>2, SiftedTyped
    <3>4. Rank(e) < Rank(at) BY <3>1, <3>3
    <3>5. rank[e] < rank[at] BY <3>4
    <3> QED BY <3>2, <3>5
  <2>2. Body(x, at) = Body(y, at) BY <2>1
  <2>3. F[at][x] = Body(x, at) /\ F[at][y] = Body(y, at)
    <3> HIDE DEF V, Body
    <3> QED OBVIOUS
  <2> QED BY <2>2, <2>3
<1>6. PICK x \in [Sieving -> V] : x = [at \in Sieving |-> F[at][x]]
  <2> HIDE DEF V, rank, F
  <2>1. Recursive(Sieving, V, F) BY <1>3, <1>4, <1>5, BoundedRecursion, Zenon
  <2> QED BY <2>1 DEF Recursive
<1>7. x = [at \in Sieving |-> Body(x, at)]
  <2> HIDE DEF V, Body
  <2>1. \A at \in Sieving : F[at][x] = Body(x, at) OBVIOUS
  <2> HIDE DEF F
  <2> QED BY <2>1, <1>6
<1>8. f = [at \in Sieving |-> Body(f, at)]
  <2> HIDE DEF Body
  <2> QED BY <1>7, Zenon
<1>9. \A at \in Sieving : f[at] = Body(f, at)
  <2> HIDE DEF f, Body
  <2> QED BY <1>8, Zenon
<1>10. Sieves(f, limit)
  <2> HIDE DEF f
  <2> QED BY <1>9 DEF Sieves
<1>11. \A known, start, g :
         Sieved(known, start, limit, g) = f[[list |-> known, start |-> start, byte |-> g]]
  BY DEF Sieved
<1> HIDE DEF f
<1> QED BY <1>10, <1>11

(* Sieving only adds to the list.                                          *)
LEMMA SievedTyped ==
  ASSUME NEW limit \in Nat, segment \in Nat \ {0},
         NEW known \in Seq(Nat), NEW start \in Nat, NEW g \in BOOLEAN
  PROVE  /\ Sieved(known, start, limit, g) \in Seq(Nat)
         /\ Len(Sieved(known, start, limit, g)) >= Len(known)
<1>1. PICK f : /\ Sieves(f, limit)
               /\ Sieved(known, start, limit, g)
                    = f[[list |-> known, start |-> start, byte |-> g]]
  <2>1. PICK f : /\ Sieves(f, limit)
                 /\ \A k, s, b : Sieved(k, s, limit, b) = f[[list |-> k, start |-> s, byte |-> b]]
    BY SievedSteps, Zenon
  <2> QED BY <2>1, Zenon
<1> DEFINE Good(at) == f[at] \in Seq(Nat) /\ Len(f[at]) >= Len(at.list)
           T == {n \in Nat : \A at \in Sieving : limit + 1 - at.start <= n => Good(at)}
<1>2. \A at \in Sieving : at.start \in Nat /\ at.list \in Seq(Nat) /\ Len(at.list) \in Nat
  BY LenProperties DEF Sieving
<1>3. ASSUME NEW at \in Sieving, at.start > limit PROVE Good(at)
  <2>1. f[at] = at.list BY <1>1, <1>3 DEF Sieves
  <2> QED BY <1>2, <2>1
<1>4. 0 \in T
  <2>1. \A at \in Sieving : limit + 1 - at.start <= 0 => at.start > limit BY <1>2
  <2> HIDE DEF Good
  <2> QED BY <1>3, <2>1
<1>5. ASSUME NEW n \in Nat, n \in T PROVE n + 1 \in T
  <2> SUFFICES ASSUME NEW at \in Sieving, limit + 1 - at.start <= n + 1 PROVE Good(at)
    <3> HIDE DEF Good
    <3> QED OBVIOUS
  <2>1. CASE at.start > limit
    <3> HIDE DEF Good
    <3> QED BY <1>3, <2>1
  <2>2. CASE at.start <= limit
    <3>1. /\ Sifted(at, limit) \in Sieving
          /\ Sifted(at, limit).start = at.start + 2 * segment
          /\ Len(Sifted(at, limit).list) >= Len(at.list)
      BY <2>2, SiftedTyped
    <3>2. PICK e \in Sieving : e = Sifted(at, limit) BY <3>1
    <3>3. limit + 1 - e.start <= n
      <4>1. at.start \in Nat BY <1>2
      <4> QED BY <2>2, <3>1, <3>2, <4>1
    <3>4. Good(e)
      <4> HIDE DEF Good
      <4> QED BY <1>5, <3>3
    <3>5. f[at] = f[e]
      <4>1. ~ (at.start > limit) BY <1>2, <2>2
      <4> QED BY <1>1, <3>2, <4>1 DEF Sieves
    <3>6. Len(e.list) >= Len(at.list) BY <3>1, <3>2
    <3>7. Len(f[e]) \in Nat /\ Len(e.list) \in Nat /\ Len(at.list) \in Nat
      BY <1>2, <3>4, LenProperties
    <3> QED BY <3>4, <3>5, <3>6, <3>7
  <2> QED BY <1>2, <2>1, <2>2
<1>6. PICK at \in Sieving : at = [list |-> known, start |-> start, byte |-> g]
  BY DEF Sieving
<1>7. Good(at)
  <2>1. Nat \subseteq T
    <3> HIDE DEF T
    <3> QED BY <1>4, <1>5, NatSetInduction
  <2>2. limit + 1 \in T BY <2>1
  <2>3. limit + 1 - at.start <= limit + 1 BY <1>2
  <2> HIDE DEF Good
  <2> QED BY <2>2, <2>3
<1>8. at.list = known BY <1>6
<1> QED BY <1>1, <1>6, <1>7, <1>8

(* Without the byte beyond, sieving finds the primes up to the limit.      *)
LEMMA SievedPrimes ==
  ASSUME NEW limit \in Nat, segment \in Nat \ {0}, NEW known,
         NEW start \in Nat, start >= 2, start % 2 = 0, start <= limit,
         Rooted(limit, start), Lists(known, Upto(start))
  PROVE  Lists(Sieved(known, start, limit, FALSE), Upto(limit))
<1>0. PICK g : g = FALSE OBVIOUS
<1>1. PICK f : /\ Sieves(f, limit)
               /\ Sieved(known, start, limit, g)
                    = f[[list |-> known, start |-> start, byte |-> g]]
  <2>1. PICK f : /\ Sieves(f, limit)
                 /\ \A k, s, b : Sieved(k, s, limit, b) = f[[list |-> k, start |-> s, byte |-> b]]
    BY SievedSteps, Zenon
  <2> QED BY <2>1, Zenon
<1> DEFINE Good(at) == Sound(at, limit) => Lists(f[at], Upto(limit))
           T == {n \in Nat : \A at \in Sieving : limit + 1 - at.start <= n => Good(at)}
<1>2. \A at \in Sieving : at.start \in Nat BY DEF Sieving
<1>3. ASSUME NEW at \in Sieving, at.start > limit PROVE Good(at)
  <2> SUFFICES ASSUME Sound(at, limit) PROVE Lists(f[at], Upto(limit))
    OBVIOUS
  <2>1. f[at] = at.list BY <1>1, <1>3 DEF Sieves
  <2>2. ~ (at.start < limit) BY <1>2, <1>3
  <2>3. Lists(at.list, Upto(limit)) BY <2>2 DEF Sound
  <2> QED BY <2>1, <2>3
<1>4. 0 \in T
  <2>1. \A at \in Sieving : limit + 1 - at.start <= 0 => at.start > limit BY <1>2
  <2> HIDE DEF Good
  <2> QED BY <1>3, <2>1
<1>5. ASSUME NEW n \in Nat, n \in T PROVE n + 1 \in T
  <2> SUFFICES ASSUME NEW at \in Sieving, limit + 1 - at.start <= n + 1 PROVE Good(at)
    <3> HIDE DEF Good
    <3> QED OBVIOUS
  <2>1. CASE at.start > limit
    <3> HIDE DEF Good
    <3> QED BY <1>3, <2>1
  <2>2. CASE at.start <= limit
    <3> SUFFICES ASSUME Sound(at, limit) PROVE Lists(f[at], Upto(limit))
      OBVIOUS
    <3>1. /\ Sifted(at, limit) \in Sieving
          /\ Sifted(at, limit).start = at.start + 2 * segment
      BY <2>2, SiftedTyped
    <3>2. PICK e \in Sieving : e = Sifted(at, limit) BY <3>1
    <3>3. at.start \in Nat /\ e.start = at.start + 2 * segment BY <1>2, <3>1, <3>2
    <3>4. limit + 1 - e.start <= n BY <2>2, <3>3
    <3>5. Lists(at.list, Upto(at.start))
      <4>1. (IF at.start < limit THEN at.start ELSE limit) = at.start BY <2>2, <3>3
      <4> QED BY <4>1 DEF Sound
    <3>6. Lists(e.list, Upto(Reached(at.start, limit)))
      BY <2>2, <3>2, <3>5, SiftedPrimes DEF Sound
    <3>7. Sound(e, limit)
      <4>1. e.byte = FALSE
        <5>1. at.byte = FALSE BY DEF Sound
        <5>2. e.byte = (at.byte /\ segment \notin Crossed(at, limit)) BY <3>2, SiftedParts
        <5> QED BY <5>1, <5>2
      <4>2. e.start >= 2 /\ e.start % 2 = 0
        <5>1. at.start >= 2 /\ at.start % 2 = 0 BY DEF Sound
        <5> QED BY <3>3, <5>1
      <4>3. Rooted(limit, e.start)
        <5>1. Rooted(limit, at.start) BY DEF Sound
        <5>2. at.start <= e.start BY <3>3
        <5> QED BY <3>3, <5>1, <5>2 DEF Rooted
      <4>4. Reached(at.start, limit) = IF e.start < limit THEN e.start ELSE limit
        BY <3>3 DEF Reached
      <4> QED BY <3>6, <4>1, <4>2, <4>3, <4>4 DEF Sound
    <3>8. Good(e)
      <4> HIDE DEF Good
      <4> QED BY <1>5, <3>4
    <3>9. f[at] = f[e]
      <4>1. ~ (at.start > limit) BY <2>2, <3>3
      <4> QED BY <1>1, <3>2, <4>1 DEF Sieves
    <3> QED BY <3>7, <3>8, <3>9
  <2> QED BY <1>2, <2>1, <2>2
<1>6. PICK at : at = [list |-> known, start |-> start, byte |-> g]
  OBVIOUS
<1>7. at \in Sieving /\ at.list = known /\ at.start = start /\ at.byte = FALSE
  BY <1>0, <1>6 DEF Sieving, Lists
<1>8. Sound(at, limit)
  <2>1. (IF at.start < limit THEN at.start ELSE limit) = start BY <1>7
  <2> QED BY <1>7, <2>1 DEF Sound
<1>9. Good(at)
  <2>1. Nat \subseteq T
    <3> HIDE DEF T
    <3> QED BY <1>4, <1>5, NatSetInduction
  <2>2. limit + 1 \in T BY <2>1
  <2>3. limit + 1 - at.start <= limit + 1 BY <1>7
  <2> HIDE DEF Good
  <2> QED BY <1>7, <2>2, <2>3
<1> QED BY <1>0, <1>1, <1>6, <1>8, <1>9

-----------------------------------------------------------------------------
(* The recursion for the square root.                                      *)

(* The square root is found, and is smaller than its square.               *)
LEMMA SquareRootIs ==
  ASSUME NEW n \in Nat
  PROVE  /\ SquareRoot(n) \in 0..n
         /\ SquareRoot(n) * SquareRoot(n) <= n
         /\ n < (SquareRoot(n) + 1) * (SquareRoot(n) + 1)
         /\ n >= 2 => SquareRoot(n) < n
<1> DEFINE Root(r, m) == r * r <= m /\ m < (r + 1) * (r + 1)
           S == {m \in Nat : \E r \in 0..m : Root(r, m)}
<1>1. 0 \in S OBVIOUS
<1>2. ASSUME NEW m \in Nat, m \in S PROVE m + 1 \in S
  <2>1. PICK r \in 0..m : Root(r, m) BY <1>2
  <2>2. PICK a \in Nat : a = r * r BY <2>1
  <2>3. (r + 1) * (r + 1) = a + 2 * r + 1 /\ (r + 2) * (r + 2) = a + 4 * r + 4
    BY <2>1, <2>2
  <2>4. a <= m /\ m < a + 2 * r + 1 BY <2>1, <2>2, <2>3
  <2>5. CASE a + 2 * r + 1 <= m + 1
    <3>1. r + 1 \in 0..(m + 1) /\ (r + 1) + 1 = r + 2 BY <2>1
    <3>2. m + 1 < a + 4 * r + 4 BY <2>1, <2>2, <2>4
    <3>3. Root(r + 1, m + 1) BY <2>3, <2>5, <3>1, <3>2
    <3> HIDE DEF Root
    <3> QED BY <3>1, <3>3
  <2>6. CASE ~ (a + 2 * r + 1 <= m + 1)
    <3>1. r \in 0..(m + 1) /\ r \in Nat BY <2>1
    <3>2. a <= m + 1 /\ m + 1 < a + 2 * r + 1 BY <2>2, <2>4, <2>6, <3>1
    <3>3. Root(r, m + 1) BY <2>2, <2>3, <3>2
    <3> HIDE DEF Root
    <3> QED BY <3>1, <3>3
  <2> QED BY <2>5, <2>6
<1>3. n \in S
  <2> HIDE DEF S
  <2> QED BY <1>1, <1>2, NatSetInduction
<1>4. SquareRoot(n) \in 0..n /\ Root(SquareRoot(n), n)
  <2>1. \E r \in 0..n : Root(r, n) BY <1>3
  <2> QED BY <2>1 DEF SquareRoot
<1>5. ASSUME n >= 2 PROVE SquareRoot(n) < n
  <2>1. PICK r \in 0..n : r = SquareRoot(n) /\ r * r <= n BY <1>4
  <2> SUFFICES ASSUME r = n PROVE FALSE
    BY <2>1
  <2>2. 2 * n <= n * n BY <1>5, ProductGrows
  <2>3. n * n <= n BY <2>1
  <2>4. PICK z \in Nat : z = n * n OBVIOUS
  <2>5. 2 * n <= z /\ z <= n BY <2>2, <2>3, <2>4
  <2> QED BY <1>5, <2>5
<1> QED BY <1>4, <1>5

(* One call of _extend, where f is what the calls in it return.            *)
Base(f, known, l) == IF SquareRoot(l) >= Last(known) + 1 THEN f[SquareRoot(l)] ELSE known
Extension(f, known, l, g) ==
  IF l <= Last(known) + 1 THEN known
  ELSE Sieved(Base(f, known, l), Last(Base(f, known, l)) + 1, l, g)

(* The lists that are not shorter than known.                              *)
Longer(known) == {s \in Seq(Nat) : Len(s) >= Len(known)}

Extends(f, known, limit, g) ==
  /\ f \in [0..limit -> Longer(known)]
  /\ \A l \in 0..limit : f[l] = Extension(f, known, l, g)

(* The last element of a list that is not empty.                           *)
LEMMA LastTyped ==
  ASSUME NEW s \in Seq(Nat), Len(s) > 0
  PROVE  Last(s) \in Nat /\ Last(s) = s[Len(s)] /\ Len(s) \in 1..Len(s)
<1>1. Len(s) \in 1..Len(s) BY LenProperties
<1>2. s[Len(s)] \in Nat BY <1>1, ElementOfSeq
<1> QED BY <1>1, <1>2 DEF Last

(* The recursion in Extended.                                              *)
LEMMA ExtendedSteps ==
  ASSUME NEW limit \in Nat, segment \in Nat \ {0}, NEW known \in Seq(Nat), Len(known) > 0,
         NEW g \in BOOLEAN
  PROVE  \E f : Extends(f, known, limit, g) /\ Extended(known, limit, g) = f[limit]
<1> DEFINE D == 0..limit
           V == Longer(known)
           rank == [l \in D |-> l]
           F == [l \in D |-> [h \in [D -> V] |-> Extension(h, known, l, g)]]
           f == CHOOSE f : f = [l \in D |-> Extension(f, known, l, g)]
<1>1. known \in V /\ Last(known) \in Nat /\ Len(known) \in Nat
  BY LastTyped, LenProperties DEF Longer
<1>2. ASSUME NEW l \in D, ~ (l <= Last(known) + 1)
      PROVE  SquareRoot(l) \in D /\ SquareRoot(l) < l
  <2>1. l \in Nat /\ l >= 2 BY <1>1, <1>2
  <2>2. SquareRoot(l) \in 0..l /\ SquareRoot(l) < l BY <2>1, SquareRootIs
  <2> QED BY <2>2
<1>3. F \in [D -> [[D -> V] -> V]]
  <2>1. ASSUME NEW l \in D, NEW h \in [D -> V] PROVE Extension(h, known, l, g) \in V
    <3>1. CASE l <= Last(known) + 1 BY <1>1, <3>1 DEF Extension
    <3>2. CASE ~ (l <= Last(known) + 1)
      <4>1. SquareRoot(l) \in D BY <1>2, <3>2
      <4>2. h[SquareRoot(l)] \in V
        <5> HIDE DEF D, V
        <5> QED BY <4>1
      <4>3. PICK b : b = Base(h, known, l) OBVIOUS
      <4>4. b \in V
        <5> HIDE DEF V
        <5> QED BY <1>1, <4>2, <4>3 DEF Base
      <4>5. b \in Seq(Nat) /\ Len(b) >= Len(known) /\ Len(b) \in Nat
        BY <4>4, LenProperties DEF Longer
      <4>6. Len(b) > 0 BY <1>1, <4>5
      <4>7. Last(b) + 1 \in Nat BY <4>5, <4>6, LastTyped
      <4>8. PICK r : r = Sieved(b, Last(b) + 1, l, g) OBVIOUS
      <4>9. r \in Seq(Nat) /\ Len(r) >= Len(b)
        <5>1. l \in Nat OBVIOUS
        <5> QED BY <4>5, <4>7, <4>8, <5>1, SievedTyped
      <4>10. Len(r) \in Nat BY <4>9, LenProperties
      <4>11. r \in V BY <1>1, <4>5, <4>9, <4>10 DEF Longer
      <4> QED BY <3>2, <4>3, <4>8, <4>11 DEF Extension
    <3> QED BY <3>1, <3>2
  <2> HIDE DEF D, V
  <2> QED BY <2>1
<1>4. ByRank(D, V, rank, F)
  <2> SUFFICES ASSUME NEW l \in D, NEW x \in [D -> V], NEW y \in [D -> V],
                      \A e \in D : rank[e] < rank[l] => x[e] = y[e]
               PROVE  F[l][x] = F[l][y]
    <3> HIDE DEF D, V, rank, F
    <3> QED BY Zenon DEF ByRank
  <2>1. ASSUME ~ (l <= Last(known) + 1) PROVE x[SquareRoot(l)] = y[SquareRoot(l)]
    <3>1. PICK e \in D : e = SquareRoot(l) BY <1>2, <2>1
    <3>2. rank[e] < rank[l] BY <1>2, <2>1, <3>1
    <3> HIDE DEF D, V, rank
    <3> QED BY <3>1, <3>2
  <2>2. Extension(x, known, l, g) = Extension(y, known, l, g)
    <3>1. ASSUME ~ (l <= Last(known) + 1) PROVE Base(x, known, l) = Base(y, known, l)
      BY <2>1, <3>1, Zenon DEF Base
    <3> QED BY <3>1, Zenon DEF Extension
  <2>3. F[l][x] = Extension(x, known, l, g) /\ F[l][y] = Extension(y, known, l, g)
    <3> HIDE DEF D, V
    <3> QED OBVIOUS
  <2> HIDE DEF F
  <2> QED BY <2>2, <2>3
<1>5. V # {} /\ rank \in [D -> 0..limit]
  <2>1. V # {}
    <3> HIDE DEF V
    <3> QED BY <1>1
  <2> QED BY <2>1
<1>6. PICK x \in [D -> V] : x = [l \in D |-> F[l][x]]
  <2> HIDE DEF D, V, rank, F
  <2>1. Recursive(D, V, F)
    <3>1. limit \in Nat OBVIOUS
    <3>2. rank \in [D -> 0..limit] BY <1>5
    <3> QED BY <1>3, <1>4, <1>5, <3>1, <3>2, BoundedRecursion, Zenon
  <2> QED BY <2>1 DEF Recursive
<1>7. x = [l \in D |-> Extension(x, known, l, g)]
  <2> HIDE DEF V, D
  <2>1. \A l \in D : F[l][x] = Extension(x, known, l, g) OBVIOUS
  <2> HIDE DEF F
  <2> QED BY <2>1, <1>6
<1>8. f = [l \in D |-> Extension(f, known, l, g)]
  <2> HIDE DEF D
  <2> QED BY <1>7, Zenon
<1>9. Extended(known, limit, g) = f[limit] BY DEF Extended, Extension, Base
<1> HIDE DEF f
<1>10. \A l \in D : f[l] = Extension(f, known, l, g)
  <2> HIDE DEF D
  <2> QED BY <1>8, Zenon
<1>11. f \in [D -> V]
  <2> DEFINE S == {n \in Nat : \A l \in D : l <= n => f[l] \in V}
  <2>1. ASSUME NEW l \in D, \A e \in D : e < l => f[e] \in V PROVE f[l] \in V
    <3> DEFINE h == [e \in D |-> IF e < l THEN f[e] ELSE known]
    <3>1. h \in [D -> V]
      <4> HIDE DEF D, V
      <4> QED BY <1>1, <2>1
    <3>2. Extension(h, known, l, g) \in V
      <4>1. F[l][h] \in V
        <5> HIDE DEF D, V, F, h
        <5> QED BY <1>3, <3>1
      <4>2. F[l][h] = Extension(h, known, l, g)
        <5> HIDE DEF D, V, h
        <5> QED BY <3>1
      <4> HIDE DEF D, V, F, h
      <4> QED BY <4>1, <4>2
    <3>3. Extension(h, known, l, g) = Extension(f, known, l, g)
      <4>1. ASSUME ~ (l <= Last(known) + 1) PROVE Base(h, known, l) = Base(f, known, l)
        <5>1. h[SquareRoot(l)] = f[SquareRoot(l)] BY <1>2, <4>1
        <5> HIDE DEF h
        <5> QED BY <5>1, Zenon DEF Base
      <4> HIDE DEF h
      <4> QED BY <4>1, Zenon DEF Extension
    <3> HIDE DEF D, V, h
    <3> QED BY <1>10, <3>2, <3>3
  <2>2. 0 \in S
    <3>1. 0 \in D /\ \A e \in D : ~ (e < 0) OBVIOUS
    <3>2. f[0] \in V
      <4> HIDE DEF D, V
      <4> QED BY <2>1, <3>1
    <3>3. \A l \in D : l <= 0 => l = 0 OBVIOUS
    <3> HIDE DEF V
    <3> QED BY <3>2, <3>3
  <2>3. ASSUME NEW n \in Nat, n \in S PROVE n + 1 \in S
    <3>1. \A l \in D : l <= n => f[l] \in V BY <2>3
    <3> HIDE DEF V
    <3>2. ASSUME NEW l \in D, l <= n + 1 PROVE f[l] \in V
      <4>1. \A e \in D : e < l => e <= n BY <3>2
      <4>2. \A e \in D : e < l => f[e] \in V BY <3>1, <4>1
      <4> HIDE DEF D
      <4> QED BY <2>1, <4>2
    <3> QED BY <3>2
  <2>4. limit \in S
    <3> HIDE DEF S
    <3> QED BY <2>2, <2>3, NatSetInduction
  <2>5. \A l \in D : f[l] \in V BY <2>4
  <2> HIDE DEF D, V
  <2> QED BY <1>8, <2>5
<1> QED BY <1>9, <1>10, <1>11 DEF Extends

(* A list of primes that has all up to n >= 2 ends below its next even     *)
(* number, and has all primes up to that.                                  *)
LEMMA PrimesLast ==
  ASSUME NEW n \in Nat, n >= 3, NEW s, Lists(s, Upto(n))
  PROVE  /\ s \in Seq(Nat) /\ Len(s) > 0
         /\ Last(s) \in 3..n /\ IsPrime(Last(s)) /\ Last(s) = s[Len(s)]
         /\ (Last(s) + 1) % 2 = 0
         /\ \A p \in Nat : IsPrime(p) /\ p <= n => p <= Last(s)
         /\ Upto(n) = Upto(Last(s)) /\ Upto(Last(s)) = Upto(Last(s) + 1)
<1>1. s \in Seq(Nat) /\ Len(s) \in Nat BY LenProperties DEF Lists
<1>2. PICK k \in 1..Len(s) : s[k] = 3
  <2>1. IsPrime(3) BY DEF IsPrime
  <2>2. 3 \in Upto(n) BY <2>1 DEF Upto
  <2> QED BY <2>2 DEF Lists
<1>3. Len(s) > 0 /\ Len(s) \in 1..Len(s) BY <1>1, <1>2
<1>4. PICK last \in Nat : last = Last(s) /\ last = s[Len(s)] BY <1>1, <1>3, LastTyped
<1>5. IsPrime(last) /\ last <= n BY <1>3, <1>4 DEF Lists, Upto
<1>6. ASSUME NEW p \in Nat, IsPrime(p), p <= n PROVE p <= last
  <2>1. p \in Upto(n) BY <1>6 DEF Upto
  <2>2. PICK j \in 1..Len(s) : s[j] = p BY <2>1 DEF Lists
  <2>3. j < Len(s) => s[j] < s[Len(s)] BY <1>3 DEF Lists
  <2> QED BY <1>1, <1>4, <2>2, <2>3
<1>7. last >= 3
  <2>1. IsPrime(3) BY DEF IsPrime
  <2> QED BY <1>6, <2>1
<1>8. last % 2 # 0 BY <1>5, <1>7, EvenPrime
<1>9. (last + 1) % 2 = 0 BY <1>8
<1>10. ~ IsPrime(last + 1)
  <2>1. last + 1 \in Nat /\ last + 1 # 2 BY <1>7
  <2> QED BY <1>9, <2>1, EvenPrime
<1>11. Upto(n) = Upto(last)
  <2>1. ASSUME NEW p \in Nat, IsPrime(p) PROVE p <= n <=> p <= last BY <1>5, <1>6, <2>1
  <2> QED BY <2>1 DEF Upto
<1>12. Upto(last) = Upto(last + 1)
  <2>1. ASSUME NEW p \in Nat, IsPrime(p) PROVE p <= last <=> p <= last + 1 BY <1>10, <2>1
  <2> QED BY <2>1 DEF Upto
<1> QED BY <1>1, <1>3, <1>4, <1>5, <1>6, <1>7, <1>9, <1>11, <1>12

(* How far the list goes after _extend.                                    *)
Bound(known, limit) == IF limit <= Last(known) + 1 THEN Last(known) + 1 ELSE limit

(* From a list that has the primes up to its last, _extend makes one that  *)
(* has all up to the limit.                                                *)
LEMMA ExtendedPrimes ==
  ASSUME NEW limit \in Nat, segment \in Nat \ {0}, NEW n \in Nat, n >= 3,
         NEW known, Lists(known, Upto(n))
  PROVE  Lists(Extended(known, limit, FALSE), Upto(Bound(known, limit)))
<1>0. PICK g \in BOOLEAN : g = FALSE OBVIOUS
<1>1. known \in Seq(Nat) /\ Len(known) > 0 BY PrimesLast
<1>2. PICK start \in Nat : start = Last(known) + 1 BY PrimesLast
<1>3. start >= 4 /\ start % 2 = 0 /\ Lists(known, Upto(start))
  <2>1. PICK last \in Nat : last = Last(known) BY PrimesLast
  <2>2. last >= 3 /\ (last + 1) % 2 = 0 /\ Upto(n) = Upto(last + 1) BY <2>1, PrimesLast
  <2>3. start = last + 1 BY <1>2, <2>1
  <2>4. Upto(n) = Upto(start) BY <2>2, <2>3
  <2> QED BY <2>2, <2>3, <2>4
<1>4. PICK f : Extends(f, known, limit, g) /\ Extended(known, limit, g) = f[limit]
  BY <1>1, ExtendedSteps
<1> DEFINE Reach(l) == IF l <= start THEN start ELSE l
           Good(l) == Lists(f[l], Upto(Reach(l)))
           S == {m \in Nat : \A l \in 0..limit : l <= m => Good(l)}
<1>5. ASSUME NEW l \in 0..limit, \A e \in 0..limit : e < l => Good(e) PROVE Good(l)
  <2>1. f[l] = Extension(f, known, l, g) BY <1>4 DEF Extends
  <2>2. CASE l <= start
    <3>1. f[l] = known BY <1>2, <2>1, <2>2 DEF Extension
    <3>2. Reach(l) = start BY <2>2
    <3> QED BY <1>3, <3>1, <3>2
  <2>3. CASE ~ (l <= start)
    <3>1. l \in Nat /\ l > start /\ l >= 2 BY <1>3, <2>3
    <3>2. PICK root \in Nat : root = SquareRoot(l) BY <3>1, SquareRootIs
    <3>3. root < l /\ l < (root + 1) * (root + 1) /\ root \in 0..limit
      BY <3>1, <3>2, SquareRootIs
    <3>4. PICK r \in Nat : r = Reach(root) OBVIOUS
    <3>5. r >= start /\ r >= root /\ r >= 4 /\ r <= l BY <1>3, <3>1, <3>3, <3>4
    <3>6. PICK base : base = Base(f, known, l) OBVIOUS
    <3>7. Lists(base, Upto(r))
      <4>1. CASE root >= start
        <5>1. base = f[root] BY <1>2, <3>2, <3>6, <4>1 DEF Base
        <5>2. Good(root)
          <6> HIDE DEF Good
          <6> QED BY <1>5, <3>3
        <5> QED BY <3>4, <5>1, <5>2
      <4>2. CASE ~ (root >= start)
        <5>1. base = known BY <1>2, <3>2, <3>6, <4>2 DEF Base
        <5>2. r = start BY <3>4, <4>2
        <5> QED BY <1>3, <5>1, <5>2
      <4> QED BY <4>1, <4>2
    <3>8. PICK last \in Nat : last = Last(base) BY <3>5, <3>7, PrimesLast
    <3>9. /\ last \in 3..r /\ IsPrime(last) /\ (last + 1) % 2 = 0
          /\ \A p \in Nat : IsPrime(p) /\ p <= r => p <= last
          /\ Upto(r) = Upto(last + 1)
      <4>1. r >= 3 BY <3>5
      <4>2. /\ Last(base) \in 3..r /\ IsPrime(Last(base)) /\ (Last(base) + 1) % 2 = 0
            /\ \A p \in Nat : IsPrime(p) /\ p <= r => p <= Last(base)
            /\ Upto(r) = Upto(Last(base)) /\ Upto(Last(base)) = Upto(Last(base) + 1)
        BY <3>7, <4>1, PrimesLast
      <4> QED BY <3>8, <4>2
    <3>10. last + 1 <= l
      <4> SUFFICES ASSUME last = l PROVE FALSE
        BY <3>5, <3>9
      <4>1. r = l BY <3>5, <3>9
      <4>2. r = root \/ r = start BY <3>4
      <4> QED BY <3>1, <3>3, <4>1, <4>2
    <3>11. Rooted(l, last + 1)
      <4> SUFFICES ASSUME NEW p \in Nat, IsPrime(p), p * p <= l PROVE p <= last + 1
        BY DEF Rooted
      <4>1. p <= root
        <5> SUFFICES ASSUME root + 1 <= p PROVE FALSE
          OBVIOUS
        <5>1. (root + 1) * (root + 1) <= p * p BY SquareGrows
        <5>2. p * p \in Nat /\ (root + 1) * (root + 1) \in Nat OBVIOUS
        <5> QED BY <3>1, <3>3, <5>1, <5>2
      <4>2. p <= r BY <3>5, <4>1
      <4>3. p <= last BY <3>9, <4>2
      <4> QED BY <4>3
    <3>12. PICK s \in Nat : s = last + 1 OBVIOUS
    <3>13. Lists(base, Upto(s)) /\ s >= 2 /\ s % 2 = 0 /\ s <= l /\ Rooted(l, s)
      BY <3>7, <3>9, <3>10, <3>11, <3>12
    <3>14. Lists(Sieved(base, s, l, FALSE), Upto(l))
      BY <3>1, <3>13, SievedPrimes
    <3>15. f[l] = Sieved(base, s, l, FALSE)
      BY <1>0, <1>2, <2>1, <2>3, <3>6, <3>8, <3>12 DEF Extension
    <3>16. Reach(l) = l BY <2>3
    <3> QED BY <3>14, <3>15, <3>16
  <2> QED BY <2>2, <2>3
<1>6. 0 \in S
  <2>1. 0 \in 0..limit /\ \A e \in 0..limit : ~ (e < 0) OBVIOUS
  <2>2. Good(0)
    <3> HIDE DEF Good
    <3> QED BY <1>5, <2>1
  <2>3. \A l \in 0..limit : l <= 0 => l = 0 OBVIOUS
  <2> HIDE DEF Good
  <2> QED BY <2>2, <2>3
<1>7. ASSUME NEW m \in Nat, m \in S PROVE m + 1 \in S
  <2>1. \A l \in 0..limit : l <= m => Good(l) BY <1>7
  <2> HIDE DEF Good
  <2>2. ASSUME NEW l \in 0..limit, l <= m + 1 PROVE Good(l)
    <3>1. \A e \in 0..limit : e < l => e <= m BY <2>2
    <3>2. \A e \in 0..limit : e < l => Good(e) BY <2>1, <3>1
    <3> QED BY <1>5, <3>2
  <2> QED BY <2>2
<1>8. Good(limit)
  <2>1. limit \in S
    <3> HIDE DEF S
    <3> QED BY <1>6, <1>7, NatSetInduction
  <2>2. limit \in 0..limit /\ limit <= limit OBVIOUS
  <2> HIDE DEF Good
  <2> QED BY <2>1, <2>2
<1>9. Reach(limit) = Bound(known, limit) BY <1>2 DEF Bound
<1> QED BY <1>0, <1>4, <1>8, <1>9

(* Whatever the byte beyond holds, _extend only adds to the list.          *)
LEMMA ExtendedTyped ==
  ASSUME NEW limit \in Nat, segment \in Nat \ {0}, NEW known \in Seq(Nat), Len(known) > 0,
         NEW g \in BOOLEAN
  PROVE  /\ Extended(known, limit, g) \in Seq(Nat)
         /\ Len(Extended(known, limit, g)) >= Len(known)
<1>1. PICK f : Extends(f, known, limit, g) /\ Extended(known, limit, g) = f[limit]
  BY ExtendedSteps
<1>2. f \in [0..limit -> Longer(known)] BY <1>1 DEF Extends
<1>3. f[limit] \in Longer(known) BY <1>2
<1> QED BY <1>1, <1>3 DEF Longer

-----------------------------------------------------------------------------
(* The ten primes the list begins with.                                    *)

(* Up to 29 only the multiples of 2, 3 and 5 have to be left out.          *)
LEMMA SmallPrimes ==
  ASSUME NEW n \in 0..29
  PROVE  IsPrime(n) <=> n \in {2, 3, 5, 7, 11, 13, 17, 19, 23, 29}
<1>1. ASSUME n > 1, n = 2 \/ n % 2 # 0, n = 3 \/ n % 3 # 0, n = 5 \/ n % 5 # 0
      PROVE  IsPrime(n)
  <2> SUFFICES ASSUME NEW d \in 2..(n - 1), d * d <= n PROVE n % d # 0
    BY <1>1 DEF IsPrime
  <2>1. d <= 5
    <3> SUFFICES ASSUME d >= 6 PROVE FALSE
      OBVIOUS
    <3>1. d \in Nat OBVIOUS
    <3>2. 6 * d <= d * d BY <3>1, ProductGrows
    <3>3. d * d \in Nat BY <3>1
    <3> QED BY <3>1, <3>2, <3>3
  <2>2. d = 2 \/ d = 3 \/ d = 4 \/ d = 5 BY <2>1
  <2>3. CASE d = 2 BY <1>1, <2>3
  <2>4. CASE d = 3 BY <1>1, <2>4
  <2>5. CASE d = 4
    <3>1. n % 2 # 0 BY <1>1, <2>5
    <3>2. n % 4 = 0 => n % 2 = 0 OBVIOUS
    <3> QED BY <2>5, <3>1, <3>2
  <2>6. CASE d = 5 BY <1>1, <2>6
  <2> QED BY <2>2, <2>3, <2>4, <2>5, <2>6
<1>2. ASSUME IsPrime(n)
      PROVE  n > 1 /\ (n = 2 \/ n % 2 # 0) /\ (n = 3 \/ n % 3 # 0) /\ (n = 5 \/ n % 5 # 0)
  <2>1. n \in Nat /\ n > 1 BY <1>2 DEF IsPrime
  <2>2. n # 2 => 2 \in 2..(n - 1) BY <2>1
  <2>3. n = 2 \/ n % 2 # 0 BY <1>2, <2>1, <2>2, PrimeIndivisible
  <2>4. n = 3 \/ n % 3 # 0
    <3>1. n > 3 => 3 \in 2..(n - 1) BY <2>1
    <3>2. n = 2 => n % 3 # 0 OBVIOUS
    <3> QED BY <1>2, <2>1, <3>1, <3>2, PrimeIndivisible
  <2>5. n = 5 \/ n % 5 # 0
    <3>1. n > 5 => 5 \in 2..(n - 1) BY <2>1
    <3>2. n = 2 \/ n = 3 \/ n = 4 => n % 5 # 0 OBVIOUS
    <3> QED BY <1>2, <2>1, <3>1, <3>2, PrimeIndivisible
  <2> QED BY <2>1, <2>3, <2>4, <2>5
<1>3. n > 1 /\ (n = 2 \/ n % 2 # 0) /\ (n = 3 \/ n % 3 # 0) /\ (n = 5 \/ n % 5 # 0)
        <=> n \in {2, 3, 5, 7, 11, 13, 17, 19, 23, 29}
  OBVIOUS
<1> QED BY <1>1, <1>2, <1>3

(* The list begins with the primes up to 29.                               *)
LEMMA FirstPrimes ==
  Lists(First, Upto(29)) /\ Len(First) = 10 /\ First[10] = 29
<1> DEFINE P == {2, 3, 5, 7, 11, 13, 17, 19, 23, 29}
<1>1. First \in Seq(Nat) /\ Len(First) = 10 /\ First[10] = 29 BY DEF First
<1>2. \A k \in 1..10 : First[k] \in P BY DEF First
<1>3. \A a \in P : \E k \in 1..10 : First[k] = a
  <2>1. First[1] = 2 /\ First[2] = 3 /\ First[3] = 5 /\ First[4] = 7 /\ First[5] = 11
        /\ First[6] = 13 /\ First[7] = 17 /\ First[8] = 19 /\ First[9] = 23 /\ First[10] = 29
    BY DEF First
  <2> QED BY <2>1
<1>4. \A j, k \in 1..10 : j < k => First[j] < First[k]
  <2> HIDE DEF P
  <2>3. \A j \in 1..10 : First[j] \in Nat BY <1>1, ElementOfSeq
  <2>4. /\ First[1] < First[2] /\ First[2] < First[3] /\ First[3] < First[4]
        /\ First[4] < First[5] /\ First[5] < First[6] /\ First[6] < First[7]
        /\ First[7] < First[8] /\ First[8] < First[9] /\ First[9] < First[10]
    BY DEF First
  <2> QED BY <2>3, <2>4
<1>5. P = Upto(29)
  <2>1. \A a \in P : a \in 0..29 OBVIOUS
  <2>2. \A a \in P : a \in Upto(29)
    <3> TAKE a \in P
    <3>1. a \in 0..29 OBVIOUS
    <3>2. IsPrime(a) BY <3>1, SmallPrimes
    <3> QED BY <3>1, <3>2 DEF Upto
  <2>3. \A a \in Upto(29) : a \in P
    <3> TAKE a \in Upto(29)
    <3>1. a \in 0..29 /\ IsPrime(a) BY DEF Upto
    <3> QED BY <3>1, SmallPrimes
  <2> HIDE DEF P
  <2> QED BY <2>2, <2>3
<1> HIDE DEF P
<1> QED BY <1>1, <1>2, <1>3, <1>4, <1>5 DEF Lists

-----------------------------------------------------------------------------
(* The state.                                                              *)

Iterator == [live : BOOLEAN, index : Nat, limit : Nat, last : Nat]

(* What the variables hold.  An iterator has never seen more primes than   *)
(* were ever written.                                                      *)
Typed ==
  /\ memory \in Seq(Nat) /\ size \in 10..Len(memory)
  /\ clearing \in BOOLEAN /\ segment \in Sizes
  /\ iter \in [Iters -> Iterator]
  /\ \A i \in Iters : iter[i].index <= Len(memory)

(* What the memory holds after the first elements were overwritten.        *)
LEMMA Overwritten ==
  ASSUME NEW old \in Seq(Nat), NEW list \in Seq(Nat)
  PROVE  LET new == list \o SubSeq(old, Len(list) + 1, Len(old))
         IN /\ new \in Seq(Nat)
            /\ Len(new) = IF Len(list) < Len(old) THEN Len(old) ELSE Len(list)
            /\ \A k \in 1..Len(new) :
                 new[k] = IF k <= Len(list) THEN list[k] ELSE old[k]
<1>1. PICK a \in Nat : a = Len(list) BY LenProperties
<1>2. PICK b \in Nat : b = Len(old) BY LenProperties
<1>3. PICK rest : rest = SubSeq(old, a + 1, b) OBVIOUS
<1>4. /\ rest \in Seq(Nat) /\ Len(rest) = (IF a < b THEN b - a ELSE 0)
      /\ \A k \in 1..Len(rest) : rest[k] = old[a + k]
  <2>1. \A i \in (a + 1)..b : old[i] \in Nat BY <1>2, ElementOfSeq
  <2>2. a + 1 \in Int /\ b \in Int OBVIOUS
  <2>3. PICK T : T = Nat OBVIOUS
  <2>4. /\ SubSeq(old, a + 1, b) \in Seq(T)
        /\ Len(SubSeq(old, a + 1, b)) = IF a + 1 <= b THEN b - (a + 1) + 1 ELSE 0
        /\ \A i \in 1..(b - (a + 1) + 1) : SubSeq(old, a + 1, b)[i] = old[(a + 1) + i - 1]
    BY <2>1, <2>2, <2>3, SubSeqProperties
  <2>5. Len(rest) = IF a < b THEN b - a ELSE 0 BY <1>3, <2>4
  <2>6. ASSUME NEW k \in 1..Len(rest) PROVE rest[k] = old[a + k]
    <3>1. k \in 1..(b - (a + 1) + 1) /\ (a + 1) + k - 1 = a + k BY <2>5
    <3>2. rest[k] = old[(a + 1) + k - 1] BY <1>3, <2>4, <3>1
    <3> QED BY <3>1, <3>2
  <2> QED BY <1>3, <2>3, <2>4, <2>5, <2>6
<1>5. PICK new : new = list \o rest OBVIOUS
<1>6. /\ new \in Seq(Nat) /\ Len(new) = a + Len(rest)
      /\ \A k \in 1..Len(new) : new[k] = IF k <= a THEN list[k] ELSE rest[k - a]
  BY <1>1, <1>4, <1>5, ConcatProperties
<1>7. Len(new) = IF a < b THEN b ELSE a BY <1>4, <1>6
<1>8. ASSUME NEW k \in 1..Len(new) PROVE new[k] = IF k <= a THEN list[k] ELSE old[k]
  <2>1. CASE k <= a BY <1>6, <2>1
  <2>2. CASE ~ (k <= a)
    <3>1. new[k] = rest[k - a] BY <1>6, <2>2
    <3>2. k - a \in 1..Len(rest) /\ a + (k - a) = k BY <1>4, <1>6, <2>2
    <3>3. rest[k - a] = old[a + (k - a)] BY <1>4, <3>2
    <3> QED BY <2>2, <3>1, <3>2, <3>3
  <2> QED BY <2>1, <2>2
<1>9. new = list \o SubSeq(old, Len(list) + 1, Len(old)) BY <1>1, <1>2, <1>3, <1>5
<1>10. Len(new) = IF Len(list) < Len(old) THEN Len(old) ELSE Len(list) BY <1>1, <1>2, <1>7
<1>11. \A k \in 1..Len(new) : new[k] = IF k <= Len(list) THEN list[k] ELSE old[k]
  BY <1>1, <1>8
<1> QED BY <1>6, <1>9, <1>10, <1>11

(* The elements of the vector.                                             *)
LEMMA PrimesTyped ==
  ASSUME Typed
  PROVE  /\ primes \in Seq(Nat) /\ Len(primes) = size /\ size \in Nat /\ size >= 10
         /\ \A k \in 1..size : primes[k] = memory[k]
         /\ segment \in Nat \ {0}
         /\ Len(memory) \in Nat /\ size <= Len(memory)
<1>1. PICK n \in Nat : n = Len(memory) BY LenProperties DEF Typed
<1>2. PICK T : T = Nat OBVIOUS
<1>3. memory \in [1..n -> T] /\ size \in 0..n /\ size >= 10 BY <1>1, <1>2 DEF Typed
<1>4. primes \in [1..size -> T] /\ \A k \in 1..size : primes[k] = memory[k]
  BY <1>3, SubSeqLines DEF primes
<1>5. size \in Nat BY <1>3
<1>6. primes \in Seq(T) /\ Len(primes) = size BY <1>4, <1>5, FunctionSeq
<1>7. segment \in Nat \ {0} BY SieveAssumption DEF Typed
<1> QED BY <1>1, <1>2, <1>3, <1>4, <1>5, <1>6, <1>7

(* Whatever the byte beyond holds, _extend adds to the vector and keeps    *)
(* the rest of the memory.                                                 *)
LEMMA ExtendTyped ==
  ASSUME Typed, NEW limit \in Nat, NEW g \in Beyond, NEW list,
         list = Extended(primes, limit, g)
  PROVE  /\ list \in Seq(Nat) /\ Len(list) \in Nat /\ Len(list) >= size /\ size >= 10
         /\ list \o SubSeq(memory, Len(list) + 1, Len(memory)) \in Seq(Nat)
         /\ Len(list \o SubSeq(memory, Len(list) + 1, Len(memory))) >= Len(memory)
         /\ Len(list \o SubSeq(memory, Len(list) + 1, Len(memory))) >= Len(list)
         /\ Len(list \o SubSeq(memory, Len(list) + 1, Len(memory))) \in Nat
<1>1. /\ primes \in Seq(Nat) /\ Len(primes) = size /\ size \in Nat /\ size >= 10
      /\ segment \in Nat \ {0} /\ Len(memory) \in Nat /\ memory \in Seq(Nat)
  BY PrimesTyped DEF Typed
<1>2. g \in BOOLEAN BY SieveAssumption
<1>3. PICK known \in Seq(Nat) : known = primes BY <1>1
<1>4. list \in Seq(Nat) /\ Len(list) >= Len(known)
  <2>1. Len(known) > 0 BY <1>1, <1>3
  <2>2. list = Extended(known, limit, g) BY <1>3
  <2> QED BY <1>1, <1>2, <2>1, <2>2, ExtendedTyped
<1>5. Len(list) \in Nat BY <1>4, LenProperties
<1>6. PICK new : new = list \o SubSeq(memory, Len(list) + 1, Len(memory)) OBVIOUS
<1>7. new \in Seq(Nat) /\ Len(new) = IF Len(list) < Len(memory) THEN Len(memory) ELSE Len(list)
  BY <1>1, <1>4, <1>6, Overwritten
<1>8. Len(new) >= Len(memory) /\ Len(new) >= Len(list) /\ Len(new) \in Nat BY <1>1, <1>5, <1>7
<1> QED BY <1>1, <1>3, <1>4, <1>5, <1>6, <1>7, <1>8

(* An iterator that extends the list has returned a prime before.          *)
LEMMA ExtendToTyped ==
  ASSUME Typed, NEW i \in Iters, iter[i].index >= size
  PROVE  /\ iter[i].index \in 10..Len(memory) /\ memory[iter[i].index] \in Nat
         /\ (memory[iter[i].index] * 2) % Word \in 0..(Word - 1)
         /\ iter[i].limit \in Nat /\ ExtendTo(i) \in 0..(Word - 1)
<1>1. iter[i] \in Iterator /\ iter[i].index <= Len(memory) BY DEF Typed
<1>2. iter[i].index \in Nat /\ iter[i].limit \in Nat BY <1>1 DEF Iterator
<1>3. size \in Nat /\ size >= 10 /\ Len(memory) \in Nat BY PrimesTyped
<1>4. iter[i].index \in 10..Len(memory) BY <1>1, <1>2, <1>3
<1>5. memory[iter[i].index] \in Nat
  <2>1. iter[i].index \in 1..Len(memory) BY <1>4
  <2> QED BY <2>1, ElementOfSeq DEF Typed
<1>6. Word \in Nat \ {0} BY SieveAssumption
<1>7. PICK double : double = (memory[iter[i].index] * 2) % Word OBVIOUS
<1>8. double \in 0..(Word - 1)
  <2>1. memory[iter[i].index] * 2 \in Nat BY <1>5
  <2> QED BY <1>6, <1>7, <2>1, Division
<1>9. ExtendTo(i) = IF iter[i].limit > 0 /\ iter[i].limit < double THEN iter[i].limit ELSE double
  BY <1>7 DEF ExtendTo
<1>10. ExtendTo(i) \in 0..(Word - 1) BY <1>2, <1>6, <1>8, <1>9
<1> QED BY <1>2, <1>4, <1>5, <1>7, <1>8, <1>10

(* One iterator changes.                                                   *)
LEMMA IteratorTyped ==
  ASSUME NEW old \in [Iters -> Iterator], NEW new, NEW i \in Iters, NEW it \in Iterator,
         new = [old EXCEPT ![i] = it], NEW m \in Nat, NEW n \in Nat, m <= n,
         \A j \in Iters : old[j].index <= m, it.index <= n
  PROVE  new \in [Iters -> Iterator] /\ \A j \in Iters : new[j].index <= n
<1>1. new \in [Iters -> Iterator] OBVIOUS
<1>2. ASSUME NEW j \in Iters PROVE new[j].index <= n
  <2>1. CASE j = i
    <3>1. new[j] = it BY <2>1
    <3> QED BY <3>1
  <2>2. CASE j # i
    <3>1. new[j] = old[j] BY <2>2
    <3>2. old[j] \in Iterator OBVIOUS
    <3>3. old[j].index \in Nat /\ old[j].index <= m BY <3>2 DEF Iterator
    <3> QED BY <3>1, <3>3
  <2> QED BY <2>1, <2>2
<1> QED BY <1>1, <1>2

(* What the constructor makes is an iterator, as is a dead one.            *)
LEMMA IteratorRecords ==
  /\ Dead \in Iterator /\ Dead.index = 0
  /\ \A limit \in Limits : limit \in Nat /\ Fresh(limit) \in Iterator /\ Fresh(limit).index = 0
<1>1. \A limit \in Limits : limit \in Nat BY SieveAssumption
<1>2. Dead \in Iterator /\ Dead.index = 0 BY DEF Dead, Iterator
<1>3. ASSUME NEW limit \in Limits PROVE Fresh(limit) \in Iterator /\ Fresh(limit).index = 0
  BY <1>1 DEF Fresh, Iterator
<1> QED BY <1>1, <1>2, <1>3

(* An iterator that has returned one prime more.                           *)
Moved(it, old, k, v) == it = [old EXCEPT !.index = k, !.last = v]

LEMMA IteratorMoved ==
  ASSUME NEW old \in Iterator, NEW k \in Nat, NEW v \in Nat, NEW it, Moved(it, old, k, v)
  PROVE  it \in Iterator /\ it.index = k /\ it.last = v /\ it.limit = old.limit
  BY DEF Iterator, Moved

(* The first state.                                                        *)
LEMMA TypedInit == Init => Typed
<1> SUFFICES ASSUME Init PROVE Typed
  OBVIOUS
<1>1. memory = First /\ size = Len(First) /\ clearing = TRUE /\ segment \in Sizes
      /\ iter = [i \in Iters |-> Dead]
  BY DEF Init
<1>2. First \in Seq(Nat) /\ Len(First) = 10 BY FirstPrimes DEF Lists
<1>3. iter \in [Iters -> Iterator] /\ \A i \in Iters : iter[i].index <= 10
  <2>1. Dead \in Iterator /\ Dead.index = 0 BY IteratorRecords
  <2> QED BY <1>1, <2>1
<1>4. size \in 10..Len(memory) /\ Len(memory) = 10 BY <1>1, <1>2
<1> QED BY <1>1, <1>2, <1>3, <1>4 DEF Typed

(* Every step.                                                             *)
LEMMA TypedNext == Typed /\ [Next]_vars => Typed'
<1> SUFFICES ASSUME Typed, [Next]_vars PROVE Typed'
  OBVIOUS
<1>1. /\ memory \in Seq(Nat) /\ size \in 10..Len(memory) /\ Len(memory) \in Nat
      /\ clearing \in BOOLEAN /\ segment \in Sizes /\ iter \in [Iters -> Iterator]
      /\ \A i \in Iters : iter[i].index <= Len(memory)
  BY PrimesTyped DEF Typed
<1>2. Len(First) = 10 BY FirstPrimes
<1>3. ASSUME NEW i \in Iters
      PROVE  iter[i] \in Iterator /\ iter[i].index \in Nat /\ iter[i].limit \in Nat
  BY <1>1 DEF Iterator
<1>4. CASE Clear BY <1>1, <1>2, <1>4 DEF Clear, Cleared, Typed
<1>5. ASSUME NEW on \in BOOLEAN, SetClear(on) PROVE Typed'
  BY <1>1, <1>5 DEF SetClear, Typed
<1>6. ASSUME NEW s \in Sizes, SetSieveSize(s) PROVE Typed'
  BY <1>1, <1>6 DEF SetSieveSize, Typed
<1>7. ASSUME NEW limit \in Requests, NEW g \in Beyond, GeneratePrimes(limit, g) PROVE Typed'
  <2>1. PICK list : /\ list = Extended(primes, limit, g)
                    /\ memory' = list \o SubSeq(memory, Len(list) + 1, Len(memory))
                    /\ size' = IF clearing THEN Len(First) ELSE Len(list)
                    /\ UNCHANGED <<clearing, segment, iter>>
    BY <1>7 DEF GeneratePrimes
  <2>2. limit \in Nat BY SieveAssumption
  <2>3. /\ Len(list) \in Nat /\ Len(list) >= size /\ size >= 10
        /\ memory' \in Seq(Nat) /\ Len(memory') \in Nat
        /\ Len(memory') >= Len(memory) /\ Len(memory') >= Len(list)
    BY <2>1, <2>2, ExtendTyped
  <2>4. size' \in 10..Len(memory')
    <3>1. CASE clearing
      <4>1. size' = 10 BY <1>2, <2>1, <3>1
      <4>2. PICK m \in Nat : m = Len(memory') BY <2>3
      <4>3. PICK n \in Nat : n = Len(list) BY <2>3
      <4>4. PICK z \in Nat : z = size BY <1>1
      <4>5. m >= n /\ n >= z /\ z >= 10 BY <2>3, <4>2, <4>3, <4>4
      <4>6. m >= 10 BY <4>5
      <4> QED BY <4>1, <4>2, <4>6
    <3>2. CASE ~ clearing
      <4>1. size' = Len(list) BY <2>1, <3>2
      <4>2. PICK m \in Nat : m = Len(memory') BY <2>3
      <4>3. PICK n \in Nat : n = Len(list) BY <2>3
      <4>4. PICK z \in Nat : z = size BY <1>1
      <4>5. m >= n /\ n >= z /\ z >= 10 BY <2>3, <4>2, <4>3, <4>4
      <4>6. n \in 10..m BY <4>5
      <4> QED BY <4>1, <4>2, <4>3, <4>6
    <3> QED BY <1>1, <3>1, <3>2
  <2>5. \A i \in Iters : iter'[i].index <= Len(memory')
    <3> TAKE i \in Iters
    <3>1. iter'[i].index = iter[i].index BY <2>1
    <3>2. PICK m \in Nat : m = Len(memory) BY <1>1
    <3>3. PICK n \in Nat : n = Len(memory') BY <2>3
    <3>4. PICK a \in Nat : a = iter[i].index BY <1>3
    <3>5. a <= m /\ m <= n BY <1>1, <2>3, <3>2, <3>3, <3>4
    <3>6. a <= n BY <3>2, <3>3, <3>4, <3>5
    <3> QED BY <3>1, <3>3, <3>4, <3>6
  <2> QED BY <1>1, <2>1, <2>3, <2>4, <2>5 DEF Typed
<1>8. ASSUME NEW i \in Iters, NEW limit \in Limits, NewIterator(i, limit) PROVE Typed'
  <2>1. iter' = [iter EXCEPT ![i] = Fresh(limit)] /\ UNCHANGED <<memory, size, clearing, segment>>
    BY <1>8 DEF NewIterator
  <2>2. Fresh(limit) \in Iterator /\ Fresh(limit).index <= Len(memory) BY <1>1, IteratorRecords
  <2>3. iter' \in [Iters -> Iterator] /\ \A j \in Iters : iter'[j].index <= Len(memory)
    <3>1. PICK it \in Iterator : it = Fresh(limit) BY <2>2
    <3>2. PICK new : new = iter' OBVIOUS
    <3>3. new \in [Iters -> Iterator] /\ \A j \in Iters : new[j].index <= Len(memory)
      BY <1>1, <2>1, <2>2, <3>1, <3>2, IteratorTyped
    <3> QED BY <3>2, <3>3
  <2> QED BY <1>1, <2>1, <2>3 DEF Typed
<1>9. ASSUME NEW i \in Iters, DestroyIterator(i) PROVE Typed'
  <2>1. /\ iter' = [iter EXCEPT ![i] = Dead] /\ UNCHANGED <<memory, clearing, segment>>
        /\ size' = IF clearing THEN Len(First) ELSE size
    BY <1>9 DEF DestroyIterator
  <2>2. Dead \in Iterator /\ Dead.index <= Len(memory) BY <1>1, IteratorRecords
  <2>3. iter' \in [Iters -> Iterator] /\ \A j \in Iters : iter'[j].index <= Len(memory)
    <3>1. PICK it \in Iterator : it = Dead BY <2>2
    <3>2. PICK new : new = iter' OBVIOUS
    <3>3. new \in [Iters -> Iterator] /\ \A j \in Iters : new[j].index <= Len(memory)
      BY <1>1, <2>1, <2>2, <3>1, <3>2, IteratorTyped
    <3> QED BY <3>2, <3>3
  <2>4. size' \in 10..Len(memory) BY <1>1, <1>2, <2>1
  <2> QED BY <1>1, <2>1, <2>3, <2>4 DEF Typed
<1>10. ASSUME NEW i \in Iters, NextKnown(i) PROVE Typed'
  <2>1. PICK it : it = [iter[i] EXCEPT !.index = iter[i].index + 1, !.last = memory[iter[i].index + 1]]
    OBVIOUS
  <2>2. /\ iter' = [iter EXCEPT ![i] = it] /\ iter[i].index < size
        /\ UNCHANGED <<memory, size, clearing, segment>>
    BY <1>1, <1>10, <2>1 DEF NextKnown
  <2>3. iter[i].index + 1 \in 1..Len(memory) BY <1>1, <1>3, <2>2
  <2>4. memory[iter[i].index + 1] \in Nat BY <1>1, <2>3, ElementOfSeq
  <2>5. it \in Iterator /\ it.index <= Len(memory)
    <3>1. PICK k \in Nat : k = iter[i].index + 1 BY <1>3
    <3>2. PICK v \in Nat : v = memory[k] BY <2>4, <3>1
    <3>3. PICK old \in Iterator : old = iter[i] BY <1>3
    <3>4. Moved(it, old, k, v) BY <2>1, <3>1, <3>2, <3>3 DEF Moved
    <3>5. it \in Iterator /\ it.index = k BY <3>4, IteratorMoved
    <3> QED BY <2>3, <3>1, <3>5
  <2>6. iter' \in [Iters -> Iterator] /\ \A j \in Iters : iter'[j].index <= Len(memory)
    <3>1. PICK new : new = iter' OBVIOUS
    <3>2. new \in [Iters -> Iterator] /\ \A j \in Iters : new[j].index <= Len(memory)
      BY <1>1, <2>2, <2>5, <3>1, IteratorTyped
    <3> QED BY <3>1, <3>2
  <2> QED BY <1>1, <2>2, <2>6 DEF Typed
<1>11. ASSUME NEW i \in Iters, NEW g \in Beyond, NextExtend(i, g) PROVE Typed'
  <2>1. iter[i].index >= size BY <1>11 DEF NextExtend
  <2>2. PICK limit \in Nat : limit = ExtendTo(i) BY <2>1, ExtendToTyped
  <2>3. PICK list : /\ list = Extended(primes, limit, g)
                    /\ memory' = list \o SubSeq(memory, Len(list) + 1, Len(memory))
                    /\ size' = Len(list)
                    /\ UNCHANGED <<clearing, segment>>
    BY <1>11, <2>2 DEF NextExtend, Extend
  <2>4. /\ Len(list) \in Nat /\ Len(list) >= size /\ size >= 10
        /\ memory' \in Seq(Nat) /\ Len(memory') \in Nat
        /\ Len(memory') >= Len(memory) /\ Len(memory') >= Len(list)
    BY <2>2, <2>3, ExtendTyped
  <2>5. size' \in 10..Len(memory') BY <1>1, <2>3, <2>4
  <2>6. PICK it : it = IF iter[i].index >= size'
                         THEN [iter[i] EXCEPT !.last = (iter[i].limit + 1) % Word]
                         ELSE [iter[i] EXCEPT !.index = iter[i].index + 1,
                                              !.last = memory'[iter[i].index + 1]]
    OBVIOUS
  <2>7. iter' = [iter EXCEPT ![i] = it]
    <3>1. CASE iter[i].index >= size' BY <1>1, <1>11, <2>6, <3>1 DEF NextExtend
    <3>2. CASE ~ (iter[i].index >= size') BY <1>1, <1>11, <2>6, <3>2 DEF NextExtend
    <3> QED BY <3>1, <3>2
  <2>8. it \in Iterator /\ it.index <= Len(memory')
    <3>1. CASE iter[i].index >= size'
      <4>1. (iter[i].limit + 1) % Word \in Nat BY <1>3, SieveAssumption
      <4>2. it = [iter[i] EXCEPT !.last = (iter[i].limit + 1) % Word] BY <2>6, <3>1
      <4>3. it \in Iterator /\ it.index = iter[i].index BY <1>3, <4>1, <4>2 DEF Iterator
      <4>4. iter[i].index <= Len(memory) BY <1>1
      <4> QED BY <1>1, <1>3, <2>4, <4>3, <4>4
    <3>2. CASE ~ (iter[i].index >= size')
      <4>1. iter[i].index + 1 \in 1..Len(memory') BY <1>3, <2>5, <3>2
      <4>2. memory'[iter[i].index + 1] \in Nat BY <2>4, <4>1, ElementOfSeq
      <4>3. it = [iter[i] EXCEPT !.index = iter[i].index + 1, !.last = memory'[iter[i].index + 1]]
        BY <2>6, <3>2
      <4>4. PICK k \in Nat : k = iter[i].index + 1 BY <1>3
      <4>5. PICK v \in Nat : v = memory'[k] BY <4>2, <4>4
      <4>6. PICK old \in Iterator : old = iter[i] BY <1>3
      <4>7. Moved(it, old, k, v) BY <4>3, <4>4, <4>5, <4>6 DEF Moved
      <4>8. it \in Iterator /\ it.index = k BY <4>7, IteratorMoved
      <4> QED BY <4>1, <4>4, <4>8
    <3> QED BY <3>1, <3>2
  <2>9. iter' \in [Iters -> Iterator] /\ \A j \in Iters : iter'[j].index <= Len(memory')
    <3>1. PICK new : new = iter' OBVIOUS
    <3>2. PICK n \in Nat : n = Len(memory') BY <2>4
    <3>3. new \in [Iters -> Iterator] /\ \A j \in Iters : new[j].index <= n
      BY <1>1, <2>4, <2>7, <2>8, <3>1, <3>2, IteratorTyped, ZenonT(60)
    <3> QED BY <3>1, <3>2, <3>3
  <2> QED BY <1>1, <2>3, <2>4, <2>5, <2>9 DEF Typed
<1>12. CASE UNCHANGED vars BY <1>1, <1>12 DEF vars, Typed
<1> QED BY <1>4, <1>5, <1>6, <1>7, <1>8, <1>9, <1>10, <1>11, <1>12 DEF Next, NextPrime

(* The variables hold what they should, whatever the byte beyond is.       *)
THEOREM TypeCorrect == Spec => []Typed
BY TypedInit, TypedNext, PTL DEF Spec

(* next_prime never reads memory that was not written, whatever clear(),   *)
(* destructors and the byte beyond is_prime do (prime_sieve.cpp:130).      *)
THEOREM ReadsWritten == Spec => []NoWildRead
<1>1. Typed => NoWildRead BY DEF Typed, NoWildRead
<1> QED BY <1>1, TypeCorrect, PTL

-----------------------------------------------------------------------------
(* The primes, when the byte beyond is zero.                               *)

(* The memory has all primes up to some number.                            *)
Complete == \E b \in 29..(Word - 1) : Lists(memory, Upto(b))

(* What generate_primes has returned is what it was asked for.             *)
Answered ==
  generated.limit > 0 =>
    generated.limit \in 1..(Word - 1) /\ Lists(generated.result, Upto(generated.limit))

(* Fewer primes are the first of more.                                     *)
LEMMA UptoInitial ==
  ASSUME NEW m \in Nat, NEW n \in Nat, m <= n
  PROVE  Initial(Upto(m), Upto(n))
<1>1. Upto(m) \subseteq Upto(n)
  <2>1. \A p \in Nat : p <= m => p <= n OBVIOUS
  <2> QED BY <2>1 DEF Upto
<1>2. ASSUME NEW x \in Upto(n), NEW y \in Upto(m), x <= y PROVE x \in Upto(m)
  <2>1. x \in Nat /\ y \in Nat /\ y <= m /\ IsPrime(x) BY DEF Upto
  <2>2. x <= m BY <1>2, <2>1
  <2> QED BY <2>1, <2>2 DEF Upto
<1> QED BY <1>1, <1>2 DEF Initial

(* The vector has the primes up to its last one, among them the first ten. *)
LEMMA VectorPrimes ==
  ASSUME Typed, NEW b \in 29..(Word - 1), Lists(memory, Upto(b))
  PROVE  \E n \in 29..b : Lists(primes, Upto(n)) /\ Last(primes) = n /\ Upto(n) = Upto(n + 1)
<1>1. /\ size \in Nat /\ size >= 10 /\ Len(memory) \in Nat /\ size <= Len(memory)
      /\ primes \in Seq(Nat) /\ Len(primes) = size /\ \A k \in 1..size : primes[k] = memory[k]
  BY PrimesTyped
<1>2. b \in Nat /\ b >= 29 BY SieveAssumption
<1>3. Begins(First, memory)
  <2>1. Initial(Upto(29), Upto(b)) BY <1>2, UptoInitial
  <2>2. Lists(First, Upto(29)) BY FirstPrimes
  <2> QED BY <2>1, <2>2, ListsBegin
<1>4. memory[10] = 29
  <2>1. Len(First) = 10 /\ First[10] = 29 BY FirstPrimes
  <2> QED BY <1>3, <2>1 DEF Begins
<1>5. size \in 1..Len(memory) /\ 10 \in 1..Len(memory) BY <1>1
<1>6. PICK n \in Nat : n = memory[size] BY <1>5, ElementOfSeq DEF Lists
<1>7. n <= b BY <1>5, <1>6 DEF Lists, Upto
<1>8. n >= 29
  <2>1. size = 10 \/ memory[10] < memory[size] BY <1>1, <1>5 DEF Lists
  <2> QED BY <1>4, <1>6, <2>1
<1>9. Lists(primes, Upto(n))
  <2>1. Lists(SubSeq(memory, 1, size), {a \in Upto(b) : a <= memory[size]})
    BY <1>5, ListsPart
  <2>2. {a \in Upto(b) : a <= memory[size]} = Upto(n)
    <3>1. \A p \in Nat : p <= n => p <= b BY <1>2, <1>7
    <3> QED BY <1>6, <3>1 DEF Upto
  <2> QED BY <2>1, <2>2 DEF primes
<1>10. Last(primes) = n
  <2>1. size \in 1..size BY <1>1
  <2> QED BY <1>1, <1>6, <2>1 DEF Last
<1>11. Upto(n) = Upto(n + 1)
  <2>1. n >= 3 BY <1>8
  <2>2. Upto(Last(primes)) = Upto(Last(primes) + 1) BY <1>9, <2>1, PrimesLast
  <2> QED BY <1>10, <2>2
<1>12. n \in 29..b BY <1>2, <1>7, <1>8
<1> QED BY <1>9, <1>10, <1>11, <1>12

(* What _extend leaves: the vector has the primes up to c, among them all  *)
(* up to the limit; the memory has those up to d.                          *)
Extending(list, new, limit, c, d) ==
  /\ Lists(list, Upto(c)) /\ Lists(new, Upto(d))
  /\ \A p \in Nat : IsPrime(p) /\ p <= limit => p <= c

LEMMA ExtendPrimes ==
  ASSUME Typed, NEW b \in 29..(Word - 1), Lists(memory, Upto(b)),
         NEW limit \in 0..(Word - 1), NEW list, list = Extended(primes, limit, FALSE),
         NEW new, new = list \o SubSeq(memory, Len(list) + 1, Len(memory))
  PROVE  \E c, d \in 29..(Word - 1) : Extending(list, new, limit, c, d)
<1>1. b \in Nat /\ limit \in Nat /\ Word \in Nat BY SieveAssumption
<1>2. PICK n \in 29..b : Lists(primes, Upto(n)) /\ Last(primes) = n /\ Upto(n) = Upto(n + 1)
  BY VectorPrimes
<1>3. n \in Nat /\ n >= 3 BY <1>2
<1>4. segment \in Nat \ {0} BY PrimesTyped
<1>5. PICK known : known = primes OBVIOUS
<1>6. Lists(list, Upto(Bound(known, limit)))
  <2>1. Lists(known, Upto(n)) BY <1>2, <1>5
  <2>2. Lists(Extended(known, limit, FALSE), Upto(Bound(known, limit)))
    BY <1>1, <1>3, <1>4, <2>1, ExtendedPrimes
  <2> QED BY <1>5, <2>2
<1>7. PICK c \in Nat : c = IF limit <= n + 1 THEN n ELSE limit BY <1>1, <1>3
<1>8. c \in 29..(Word - 1) BY <1>1, <1>2, <1>7
<1>9. Upto(Bound(known, limit)) = Upto(c)
  <2>1. Bound(known, limit) = IF limit <= n + 1 THEN n + 1 ELSE limit
    BY <1>2, <1>5 DEF Bound
  <2>2. CASE limit <= n + 1
    <3>1. Bound(known, limit) = n + 1 /\ c = n BY <1>7, <2>1, <2>2
    <3> QED BY <1>2, <3>1
  <2>3. CASE ~ (limit <= n + 1)
    <3>1. Bound(known, limit) = limit /\ c = limit BY <1>7, <2>1, <2>3
    <3> QED BY <3>1
  <2> QED BY <2>2, <2>3
<1>10. Lists(list, Upto(c)) BY <1>6, <1>9
<1>11. ASSUME NEW p \in Nat, IsPrime(p), p <= limit PROVE p <= c
  <2>1. CASE limit <= n + 1
    <3>1. p <= n + 1 BY <1>1, <1>3, <1>11, <2>1
    <3>2. p \in Upto(n + 1) BY <1>11, <3>1 DEF Upto
    <3>3. p \in Upto(n) BY <1>2, <3>2
    <3> QED BY <1>7, <2>1, <3>3 DEF Upto
  <2>2. CASE ~ (limit <= n + 1) BY <1>7, <1>11, <2>2
  <2> QED BY <2>1, <2>2
<1>12. list \in Seq(Nat) /\ memory \in Seq(Nat) BY <1>10 DEF Typed, Lists
<1>13. PICK m \in Nat : m = Len(list) BY <1>12, LenProperties
<1>14. PICK q \in Nat : q = Len(memory) BY <1>12, LenProperties
<1>15. PICK l \in Nat :
         /\ new \in Seq(Nat) /\ l = Len(new) /\ l = (IF m < q THEN q ELSE m)
         /\ \A k \in 1..l : new[k] = IF k <= m THEN list[k] ELSE memory[k]
  <2>1. /\ new \in Seq(Nat) /\ Len(new) = (IF m < q THEN q ELSE m)
        /\ \A k \in 1..Len(new) : new[k] = IF k <= m THEN list[k] ELSE memory[k]
    BY <1>12, <1>13, <1>14, Overwritten, ZenonT(60)
  <2>2. Len(new) \in Nat BY <2>1, LenProperties
  <2> QED BY <2>1, <2>2
<1>151. l = (IF m < q THEN q ELSE m) BY <1>15, Zenon
<1>16. \E d \in 29..(Word - 1) : Lists(new, Upto(d))
  <2>1. CASE c <= b
    <3>1. Begins(list, memory)
      <4>1. Initial(Upto(c), Upto(b)) BY <1>1, <2>1, UptoInitial
      <4> QED BY <1>10, <4>1, ListsBegin
    <3>2. m <= q /\ \A k \in 1..m : list[k] = memory[k] BY <1>13, <1>14, <3>1 DEF Begins
    <3>3. l = q
      <4>1. m <= q BY <3>2
      <4> QED BY <1>151, <4>1
    <3>4. ASSUME NEW k \in 1..q PROVE new[k] = memory[k]
      <4>1. new[k] = IF k <= m THEN list[k] ELSE memory[k] BY <1>15, <3>3
      <4>2. k <= m => k \in 1..m OBVIOUS
      <4> QED BY <3>2, <4>1, <4>2
    <3>5. new = memory BY <1>12, <1>14, <1>15, <3>3, <3>4, SeqEqual
    <3> QED BY <3>5
  <2>2. CASE b <= c
    <3>1. Begins(memory, list)
      <4>1. Initial(Upto(b), Upto(c)) BY <1>1, <2>2, UptoInitial
      <4> QED BY <1>10, <4>1, ListsBegin
    <3>2. q <= m BY <1>13, <1>14, <3>1 DEF Begins
    <3>3. l = m BY <1>151, <3>2
    <3>4. ASSUME NEW k \in 1..m PROVE new[k] = list[k]
      <4>1. k \in 1..l /\ k <= m BY <3>3
      <4> QED BY <1>15, <4>1
    <3>5. new = list BY <1>12, <1>13, <1>15, <3>3, <3>4, SeqEqual
    <3> QED BY <1>8, <1>10, <3>5
  <2>3. c <= b \/ b <= c BY <1>1, <1>7
  <2> QED BY <2>1, <2>2, <2>3
<1> QED BY <1>8, <1>10, <1>11, <1>16 DEF Extending

(* Of a list that has the primes up to c, those up to the limit are all    *)
(* there are.                                                              *)
LEMMA SelectedPrimes ==
  ASSUME NEW c \in Nat, NEW list, Lists(list, Upto(c)), NEW limit \in Nat,
         \A p \in Nat : IsPrime(p) /\ p <= limit => p <= c
  PROVE  Lists(Selected(list, {k \in DOMAIN list : list[k] <= limit}), Upto(limit))
<1>1. list \in Seq(Nat) /\ DOMAIN list = 1..Len(list) BY LenProperties DEF Lists
<1>2. PICK K : K = {k \in 1..Len(list) : list[k] <= limit} OBVIOUS
<1>3. Lists(Selected(list, K), {list[k] : k \in K \cap 1..Len(list)})
  <2>1. \A j, k \in 1..Len(list) : j < k => list[j] < list[k] BY DEF Lists
  <2> QED BY <1>1, <2>1, SelectedLists
<1>4. {list[k] : k \in K \cap 1..Len(list)} = Upto(limit)
  <2>1. ASSUME NEW k \in K PROVE list[k] \in Upto(limit)
    <3>1. k \in 1..Len(list) /\ list[k] <= limit BY <1>2
    <3>2. list[k] \in Upto(c) BY <3>1 DEF Lists
    <3> QED BY <3>1, <3>2 DEF Upto
  <2>2. ASSUME NEW p \in Upto(limit) PROVE \E k \in K : list[k] = p
    <3>1. p \in Upto(c) BY DEF Upto
    <3>2. PICK k \in 1..Len(list) : list[k] = p BY <3>1 DEF Lists
    <3>3. k \in K BY <1>2, <3>2 DEF Upto
    <3> QED BY <3>2, <3>3
  <2>3. K \cap 1..Len(list) = K BY <1>2
  <2> QED BY <2>1, <2>2, <2>3
<1>5. K = {k \in DOMAIN list : list[k] <= limit} BY <1>1, <1>2
<1> QED BY <1>3, <1>4, <1>5

(* The primes below the word are those of the properties.                  *)
LEMMA UptoPrimes ==
  ASSUME NEW n \in Nat, n < Word
  PROVE  Upto(n) = {p \in Primes : p <= n}
<1>1. \A p \in Nat : IsPrime(p) /\ p <= n => p \in 1..(Word - 1)
  BY SieveAssumption DEF IsPrime
<1>2. \A p \in 1..(Word - 1) : p \in Nat OBVIOUS
<1> QED BY <1>1, <1>2 DEF Upto, Primes

(* What lists the primes in the sense of these proofs does so in that of   *)
(* the properties.                                                         *)
LEMMA ListedPrimes ==
  ASSUME NEW n \in Nat, n < Word, NEW s, Lists(s, Upto(n))
  PROVE  ListsPrimes(s, n)
<1>1. Len(s) \in Nat /\ DOMAIN s = 1..Len(s) BY LenProperties DEF Lists
<1>2. ASSUME NEW k \in 1..(Len(s) - 1) PROVE s[k] < s[k + 1]
  <2>1. k \in 1..Len(s) /\ k + 1 \in 1..Len(s) /\ k < k + 1 BY <1>1
  <2> QED BY <2>1 DEF Lists
<1>3. Upto(n) = {p \in Primes : p <= n} BY UptoPrimes
<1>4. ToSet(s) = Upto(n)
  <2>1. ToSet(s) = {s[k] : k \in 1..Len(s)} BY <1>1 DEF ToSet
  <2>2. \A k \in 1..Len(s) : s[k] \in Upto(n) BY DEF Lists
  <2>3. \A a \in Upto(n) : \E k \in 1..Len(s) : s[k] = a BY DEF Lists
  <2> QED BY <2>1, <2>2, <2>3
<1> QED BY <1>2, <1>3, <1>4 DEF ListsPrimes

(* The first list has the primes up to 29.                                 *)
LEMMA CompleteInit == Init => Complete /\ Answered
<1> SUFFICES ASSUME Init PROVE Complete /\ Answered
  OBVIOUS
<1>1. Lists(memory, Upto(29)) BY FirstPrimes DEF Init
<1>2. 29 \in 29..(Word - 1) BY SieveAssumption
<1>3. ~ (generated.limit > 0) BY DEF Init, NoRequest
<1> QED BY <1>1, <1>2, <1>3 DEF Complete, Answered

(* Every step keeps a list of primes.                                      *)
LEMMA CompleteNext ==
  ASSUME Beyond = {FALSE}
  PROVE  Typed /\ Complete /\ Answered /\ [Next]_vars => Complete' /\ Answered'
<1> SUFFICES ASSUME Typed, Complete, Answered, [Next]_vars PROVE Complete' /\ Answered'
  OBVIOUS
<1>1. ASSUME memory' = memory PROVE Complete' BY <1>1 DEF Complete
<1>2. ASSUME generated' = NoRequest PROVE Answered'
  <2>1. ~ (generated'.limit > 0) BY <1>2 DEF NoRequest
  <2> QED BY <2>1 DEF Answered
<1>3. PICK b \in 29..(Word - 1) : Lists(memory, Upto(b)) BY DEF Complete
<1>4. CASE Clear BY <1>1, <1>2, <1>4 DEF Clear
<1>5. ASSUME NEW on \in BOOLEAN, SetClear(on) PROVE Complete' /\ Answered'
  BY <1>1, <1>2, <1>5 DEF SetClear
<1>6. ASSUME NEW s \in Sizes, SetSieveSize(s) PROVE Complete' /\ Answered'
  BY <1>1, <1>2, <1>6 DEF SetSieveSize
<1>7. ASSUME NEW limit \in Requests, NEW g \in Beyond, GeneratePrimes(limit, g)
      PROVE  Complete' /\ Answered'
  <2>1. limit \in 0..(Word - 1) /\ limit \in Nat /\ limit \in 1..(Word - 1) BY SieveAssumption
  <2>2. g = FALSE OBVIOUS
  <2>3. PICK list : /\ list = Extended(primes, limit, FALSE)
                    /\ memory' = list \o SubSeq(memory, Len(list) + 1, Len(memory))
                    /\ generated' = [limit |-> limit,
                                     result |-> Selected(list, {k \in DOMAIN list : list[k] <= limit})]
    BY <1>7, <2>2 DEF GeneratePrimes
  <2>4. PICK new : new = memory' OBVIOUS
  <2>5. PICK c \in 29..(Word - 1), d \in 29..(Word - 1) : Extending(list, new, limit, c, d)
    BY <1>3, <2>1, <2>3, <2>4, ExtendPrimes
  <2>6. Complete' BY <2>4, <2>5 DEF Extending, Complete
  <2>7. c \in Nat BY <2>5, SieveAssumption
  <2>8. Lists(Selected(list, {k \in DOMAIN list : list[k] <= limit}), Upto(limit))
    BY <2>1, <2>5, <2>7, SelectedPrimes DEF Extending
  <2>9. generated'.limit = limit
        /\ generated'.result = Selected(list, {k \in DOMAIN list : list[k] <= limit})
    BY <2>3
  <2>10. Answered' BY <2>1, <2>8, <2>9 DEF Answered
  <2> QED BY <2>6, <2>10
<1>8. ASSUME NEW i \in Iters, NEW limit \in Limits, NewIterator(i, limit)
      PROVE  Complete' /\ Answered'
  BY <1>1, <1>2, <1>8 DEF NewIterator
<1>9. ASSUME NEW i \in Iters, DestroyIterator(i) PROVE Complete' /\ Answered'
  BY <1>1, <1>2, <1>9 DEF DestroyIterator
<1>10. ASSUME NEW i \in Iters, NextKnown(i) PROVE Complete' /\ Answered'
  BY <1>1, <1>2, <1>10 DEF NextKnown
<1>11. ASSUME NEW i \in Iters, NEW g \in Beyond, NextExtend(i, g) PROVE Complete' /\ Answered'
  <2>1. iter[i].index >= size BY <1>11 DEF NextExtend
  <2>2. PICK limit \in 0..(Word - 1) : limit = ExtendTo(i) BY <2>1, ExtendToTyped
  <2>3. g = FALSE OBVIOUS
  <2>4. PICK list : /\ list = Extended(primes, limit, FALSE)
                    /\ memory' = list \o SubSeq(memory, Len(list) + 1, Len(memory))
    BY <1>11, <2>2, <2>3 DEF NextExtend, Extend
  <2>5. PICK new : new = memory' OBVIOUS
  <2>6. PICK c \in 29..(Word - 1), d \in 29..(Word - 1) : Extending(list, new, limit, c, d)
    BY <1>3, <2>2, <2>4, <2>5, ExtendPrimes
  <2>7. Complete' BY <2>5, <2>6 DEF Extending, Complete
  <2>8. Answered' BY <1>2, <1>11 DEF NextExtend
  <2> QED BY <2>7, <2>8
<1>12. CASE UNCHANGED vars BY <1>1, <1>12 DEF vars, Complete, Answered
<1> QED BY <1>4, <1>5, <1>6, <1>7, <1>8, <1>9, <1>10, <1>11, <1>12 DEF Next, NextPrime

(* The two together.                                                       *)
LEMMA AlwaysComplete ==
  ASSUME Beyond = {FALSE}
  PROVE  Spec => [](Typed /\ Complete /\ Answered)
<1>1. Init => Typed /\ Complete /\ Answered BY TypedInit, CompleteInit
<1>2. Typed /\ Complete /\ Answered /\ [Next]_vars => (Typed /\ Complete /\ Answered)'
  BY TypedNext, CompleteNext
<1> QED BY <1>1, <1>2, PTL DEF Spec

(* The shared memory always has the primes in order without a gap, however *)
(* generate_primes, clear(), set_sieve_size and the iterators follow one   *)
(* another, when the byte beyond is_prime is zero.                         *)
THEOREM ListOfPrimes ==
  ASSUME Beyond = {FALSE}
  PROVE  Spec => []MemoryIsPrimes
<1>1. Complete => MemoryIsPrimes
  <2> SUFFICES ASSUME NEW b \in 29..(Word - 1), Lists(memory, Upto(b)) PROVE MemoryIsPrimes
    BY DEF Complete
  <2>1. b \in Nat /\ b >= 3 /\ b < Word BY SieveAssumption
  <2>2. PICK last : last = Last(memory) OBVIOUS
  <2>3. last \in 3..b /\ Upto(b) = Upto(last) BY <2>1, <2>2, PrimesLast
  <2>4. last \in Nat /\ last < Word BY <2>1, <2>3, SieveAssumption
  <2>5. ListsPrimes(memory, last) BY <2>3, <2>4, ListedPrimes
  <2> QED BY <2>2, <2>5 DEF MemoryIsPrimes
<1> QED BY <1>1, AlwaysComplete, PTL

(* generate_primes "holds all primes up to the limit (including)",         *)
(* prime_sieve.h, when the byte beyond is_prime is zero.                   *)
THEOREM RequestsAnswered ==
  ASSUME Beyond = {FALSE}
  PROVE  Spec => []GeneratedExact
<1>1. Answered => GeneratedExact
  <2> SUFFICES ASSUME Answered, generated.limit > 0
               PROVE  ListsPrimes(generated.result, generated.limit)
    BY DEF GeneratedExact
  <2>1. PICK n : n = generated.limit OBVIOUS
  <2>2. n \in 1..(Word - 1) /\ Lists(generated.result, Upto(n)) BY <2>1 DEF Answered
  <2>3. n \in Nat /\ n < Word BY <2>2, SieveAssumption
  <2>4. ListsPrimes(generated.result, n) BY <2>2, <2>3, ListedPrimes
  <2> QED BY <2>1, <2>4
<1> QED BY <1>1, AlwaysComplete, PTL

-----------------------------------------------------------------------------
(* The iterators.                                                          *)

(* A set has as many elements as its list.                                 *)
LEMMA ListsCount ==
  ASSUME NEW S, NEW s, Lists(s, S)
  PROVE  IsFiniteSet(S) /\ Cardinality(S) = Len(s)
<1>1. s \in Seq(Nat) BY DEF Lists
<1>2. PICK n \in Nat : n = Len(s) BY <1>1, LenProperties
<1>3. DOMAIN s = 1..n /\ \A k \in 1..n : s[k] \in Nat BY <1>1, <1>2, SeqFunction
<1>4. s \in [1..n -> S]
  <2>1. \A k \in 1..n : s[k] \in S BY <1>2 DEF Lists
  <2>2. s = [k \in 1..n |-> s[k]] BY <1>1, <1>2, <1>3
  <2> QED BY <2>1, <2>2
<1>5. \A j, k \in 1..n : j # k => s[j] # s[k]
  <2> SUFFICES ASSUME NEW j \in 1..n, NEW k \in 1..n, j < k PROVE s[j] # s[k]
    OBVIOUS
  <2>1. s[j] < s[k] BY <1>2 DEF Lists
  <2> QED BY <1>3, <2>1
<1>6. s \in Injection(1..n, S) BY <1>3, <1>4, <1>5 DEF Injection, IsInjective
<1>7. s \in Surjection(1..n, S) BY <1>2, <1>4 DEF Lists, Surjection
<1>8. ExistsBijection(1..n, S) BY <1>6, <1>7 DEF Bijection, ExistsBijection
<1>9. IsFiniteSet(1..n) /\ Cardinality(1..n) = n
  <2>1. Cardinality(1..n) = IF 1 > n THEN 0 ELSE n - 1 + 1 BY FS_Interval
  <2>2. IsFiniteSet(1..n) BY FS_Interval
  <2> QED BY <2>1, <2>2
<1>10. IsFiniteSet(S) /\ Cardinality(S) = Cardinality(1..n) BY <1>8, <1>9, FS_Bijection
<1> QED BY <1>2, <1>9, <1>10

(* The k-th number in the memory is the k-th prime.                        *)
LEMMA KthPrime ==
  ASSUME NEW m, NEW b \in Nat, b < Word, Lists(m, Upto(b)), NEW k \in 1..Len(m)
  PROVE  /\ m[k] \in Nat /\ m[k] <= b /\ IsPrime(m[k]) /\ m[k] \in Primes
         /\ Lists(SubSeq(m, 1, k), Upto(m[k]))
         /\ IsFiniteSet(Upto(m[k])) /\ Cardinality(Upto(m[k])) = k
         /\ Cardinality({p \in Primes : p <= m[k]}) = k
<1>1. PICK p \in Nat : p = m[k] /\ p <= b /\ IsPrime(p) BY DEF Lists, Upto
<1>2. p \in Primes
  <2>1. p \in 1..(Word - 1) BY <1>1, SieveAssumption DEF IsPrime
  <2> QED BY <1>1, <2>1 DEF Primes
<1>3. Lists(SubSeq(m, 1, k), Upto(p))
  <2>1. Lists(SubSeq(m, 1, k), {a \in Upto(b) : a <= m[k]}) BY ListsPart
  <2>2. {a \in Upto(b) : a <= m[k]} = Upto(p)
    <3>1. \A a \in Nat : a <= p => a <= b BY <1>1
    <3> QED BY <1>1, <3>1 DEF Upto
  <2> QED BY <2>1, <2>2
<1>4. Len(SubSeq(m, 1, k)) = k
  <2>1. m \in Seq(Nat) BY DEF Lists
  <2>2. PICK n \in Nat : n = Len(m) BY <2>1, LenProperties
  <2>3. PICK T : T = Nat OBVIOUS
  <2>4. m \in [1..n -> T] /\ k \in 0..n /\ k \in Nat BY <2>1, <2>2, <2>3
  <2>5. SubSeq(m, 1, k) \in [1..k -> T] BY <2>4, SubSeqLines
  <2> QED BY <2>4, <2>5, FunctionSeq
<1>5. IsFiniteSet(Upto(p)) /\ Cardinality(Upto(p)) = k BY <1>3, <1>4, ListsCount
<1>6. Upto(p) = {q \in Primes : q <= p} BY <1>1, UptoPrimes, SieveAssumption
<1> QED BY <1>1, <1>2, <1>3, <1>5, <1>6

(* An iterator that finds no further prime has a limit, and has returned   *)
(* all primes up to it.                                                    *)
LEMMA NoFurther ==
  ASSUME Bertrand, NoWrap, Typed, NEW b \in 29..(Word - 1), Lists(memory, Upto(b)),
         NEW i \in Iters, iter[i].index >= size, iter[i].index < MaxPrimes,
         NEW list, list = Extended(primes, ExtendTo(i), FALSE), iter[i].index >= Len(list)
  PROVE  /\ iter[i].limit > 0
         /\ Cardinality({p \in Primes : p <= iter[i].limit}) <= iter[i].index
<1>1. b \in Nat /\ b < Word /\ Word \in Nat /\ MaxPrimes \in Nat BY SieveAssumption
<1>2. PICK k \in Nat : k = iter[i].index /\ k \in 1..Len(memory)
  <2>1. iter[i].index \in 1..Len(memory) /\ Len(memory) \in Nat
    BY ExtendToTyped, PrimesTyped
  <2> QED BY <2>1
<1>3. k \in Nat /\ k < MaxPrimes BY <1>2
<1>4. PICK p \in Nat : p = memory[k] BY <1>1, <1>2, KthPrime
<1>5. /\ p <= b /\ IsPrime(p) /\ Lists(SubSeq(memory, 1, k), Upto(p))
      /\ IsFiniteSet(Upto(p)) /\ Cardinality(Upto(p)) = k
  BY <1>1, <1>2, <1>4, KthPrime
<1>6. 2 * p < Word
  <2> SUFFICES ASSUME 2 * p >= Word PROVE FALSE
    BY <1>1
  <2>1. PICK H : H = {q \in Primes : 2 * q < Word} OBVIOUS
  <2>2. Upto(p) = {q \in Primes : q <= p} BY <1>1, <1>5, UptoPrimes
  <2>3. H \subseteq Upto(p)
    <3>1. \A q \in Primes : q \in Nat BY SieveAssumption DEF Primes
    <3>2. \A q \in Nat : 2 * q < Word => q <= p BY <1>1
    <3> QED BY <2>1, <2>2, <3>1, <3>2
  <2>4. Cardinality(H) <= k /\ IsFiniteSet(H) BY <1>5, <2>3, FS_Subset
  <2>5. Cardinality(H) >= MaxPrimes BY <2>1 DEF NoWrap
  <2>6. Cardinality(H) \in Nat BY <2>4, FS_CardinalityType
  <2> QED BY <1>1, <1>3, <2>4, <2>5, <2>6
<1>7. PICK limit \in 0..(Word - 1) : limit = ExtendTo(i) BY <1>2, ExtendToTyped
<1>8. PICK new : new = list \o SubSeq(memory, Len(list) + 1, Len(memory)) OBVIOUS
<1>9. PICK c \in 29..(Word - 1), d \in 29..(Word - 1) : Extending(list, new, limit, c, d)
  <2>1. list = Extended(primes, limit, FALSE) BY <1>7
  <2> QED BY <1>8, <2>1, ExtendPrimes
<1>10. /\ c \in Nat /\ c < Word /\ Lists(list, Upto(c))
       /\ \A q \in Nat : IsPrime(q) /\ q <= limit => q <= c
  <2>1. c \in Nat /\ c < Word BY <1>1, <1>9
  <2>2. Lists(list, Upto(c)) BY <1>9 DEF Extending
  <2>3. \A q \in Nat : IsPrime(q) /\ q <= limit => q <= c BY <1>9, Zenon DEF Extending
  <2> QED BY <2>1, <2>2, <2>3
<1>11. PICK h \in Nat : h = Len(list) BY <1>10, LenProperties DEF Lists
<1>12. h <= k BY <1>2, <1>11
<1>13. ASSUME limit = 2 * p PROVE FALSE
  <2>1. p \in 1..(Word - 1)
    <3>1. p > 1 BY <1>5 DEF IsPrime
    <3> QED BY <1>1, <1>5, <3>1
  <2>2. PICK q \in (p + 1)..(2 * p) : IsPrime(q) BY <2>1 DEF Bertrand
  <2>3. q \in Nat /\ q > p /\ q <= limit BY <1>13, <2>2
  <2>4. q <= c BY <1>10, <2>2, <2>3
  <2>5. q \in Upto(c) BY <2>2, <2>3, <2>4 DEF Upto
  <2>6. PICK j \in 1..h : list[j] = q BY <1>10, <1>11, <2>5 DEF Lists
  <2>7. Begins(SubSeq(memory, 1, k), list)
    <3>1. p <= c BY <1>10, <2>3, <2>4
    <3>2. Initial(Upto(p), Upto(c)) BY <1>10, <3>1, UptoInitial
    <3> QED BY <1>5, <1>10, <3>2, ListsBegin
  <2>8. Len(SubSeq(memory, 1, k)) = k
    <3>1. Cardinality(Upto(p)) = Len(SubSeq(memory, 1, k)) BY <1>5, ListsCount
    <3> QED BY <1>5, <3>1
  <2>9. j \in 1..k
    <3>1. j \in 1..h BY <2>6
    <3> QED BY <1>12, <3>1
  <2>10. SubSeq(memory, 1, k)[j] = q BY <2>6, <2>7, <2>8, <2>9 DEF Begins
  <2>11. q \in Upto(p) BY <1>5, <2>8, <2>9, <2>10 DEF Lists
  <2>12. q <= p BY <2>11 DEF Upto
  <2> QED BY <2>3, <2>12
<1>14. (memory[iter[i].index] * 2) % Word = 2 * p
  <2>1. memory[iter[i].index] * 2 = 2 * p BY <1>2, <1>4
  <2>2. 2 * p \in Nat OBVIOUS
  <2>3. PICK z \in Nat : z = 2 * p BY <2>2
  <2>4. z % Word = z BY <1>1, <1>6, <2>3
  <2> QED BY <2>1, <2>3, <2>4
<1>15. iter[i].limit > 0 /\ limit = iter[i].limit
  <2>1. ExtendTo(i) = IF iter[i].limit > 0 /\ iter[i].limit < 2 * p THEN iter[i].limit ELSE 2 * p
    BY <1>14 DEF ExtendTo
  <2> QED BY <1>7, <1>13, <2>1
<1>16. Cardinality(Upto(limit)) <= k
  <2>1. IsFiniteSet(Upto(c)) /\ Cardinality(Upto(c)) = h BY <1>10, <1>11, ListsCount
  <2>2. Upto(limit) \subseteq Upto(c) BY <1>10 DEF Upto
  <2>3. Cardinality(Upto(limit)) <= h /\ IsFiniteSet(Upto(limit)) BY <2>1, <2>2, FS_Subset
  <2>4. Cardinality(Upto(limit)) \in Nat BY <2>3, FS_CardinalityType
  <2>5. PICK z \in Nat : z = Cardinality(Upto(limit)) BY <2>4
  <2>6. z <= h BY <2>3, <2>5
  <2>7. z <= k BY <1>12, <2>6
  <2> QED BY <2>5, <2>7
<1>17. Upto(limit) = {q \in Primes : q <= limit}
  <2>1. limit \in Nat /\ limit < Word BY <1>1, <1>7
  <2> QED BY <2>1, UptoPrimes
<1> QED BY <1>2, <1>15, <1>16, <1>17

(* One step of one iterator.                                               *)
LEMMA IteratorStep ==
  ASSUME Beyond = {FALSE}, Bertrand, NoWrap,
         Typed, Complete, Complete', Typed', [Next]_vars, NEW i \in Iters,
         iter'[i] # iter[i], iter[i].live, iter'[i].live
  PROVE  Advanced(i) \/ PastLimit(i)
<1>1. PICK b \in 29..(Word - 1) : Lists(memory, Upto(b)) BY DEF Complete
<1>2. PICK m : m = memory' OBVIOUS
<1>3. PICK d \in 29..(Word - 1) : Lists(m, Upto(d)) BY <1>2 DEF Complete
<1>4. d \in Nat /\ d < Word BY <1>3, SieveAssumption
<1>5. iter \in [Iters -> Iterator] /\ iter' \in [Iters -> Iterator] BY DEF Typed
<1>6. iter[i] \in Iterator /\ iter[i].index \in Nat BY <1>5 DEF Iterator
<1>7. ASSUME iter'[i].index = iter[i].index + 1, iter[i].index + 1 \in 1..Len(m),
             iter'[i].last = m[iter[i].index + 1]
      PROVE  Advanced(i)
  <2>1. PICK k \in 1..Len(m) : k = iter[i].index + 1 BY <1>7
  <2>2. m[k] \in Primes /\ Cardinality({p \in Primes : p <= m[k]}) = k
    BY <1>3, <1>4, KthPrime
  <2> QED BY <1>7, <2>1, <2>2 DEF Advanced
<1>8. ASSUME NextKnown(i) PROVE Advanced(i)
  <2>1. /\ iter' = [iter EXCEPT ![i].index = iter[i].index + 1,
                                ![i].last = memory[iter[i].index + 1]]
        /\ iter[i].index < size /\ memory' = memory
    BY <1>8 DEF NextKnown
  <2>2. iter'[i] = [iter[i] EXCEPT !.index = iter[i].index + 1,
                                   !.last = memory[iter[i].index + 1]]
    BY <1>5, <2>1
  <2>3. iter'[i].index = iter[i].index + 1 /\ iter'[i].last = memory[iter[i].index + 1]
    BY <1>6, <2>2 DEF Iterator
  <2>4. size \in Nat /\ size <= Len(memory) /\ Len(memory) \in Nat BY PrimesTyped
  <2>5. iter[i].index + 1 \in 1..Len(memory) BY <1>6, <2>1, <2>4
  <2> QED BY <1>2, <1>7, <2>1, <2>3, <2>5
<1>9. ASSUME NEW g \in Beyond, NextExtend(i, g) PROVE Advanced(i) \/ PastLimit(i)
  <2>1. iter[i].index >= size /\ iter[i].index < MaxPrimes BY <1>9 DEF NextExtend
  <2>2. g = FALSE OBVIOUS
  <2>3. PICK list : /\ list = Extended(primes, ExtendTo(i), FALSE)
                    /\ size' = Len(list)
    BY <1>9, <2>2 DEF NextExtend, Extend
  <2>4. CASE iter[i].index >= size'
    <3>1. iter' = [iter EXCEPT ![i].last = (iter[i].limit + 1) % Word]
      BY <1>9, <2>4 DEF NextExtend
    <3>2. iter'[i] = [iter[i] EXCEPT !.last = (iter[i].limit + 1) % Word] BY <1>5, <3>1
    <3>3. iter'[i].index = iter[i].index BY <1>6, <3>2 DEF Iterator
    <3>4. /\ iter[i].limit > 0
          /\ Cardinality({p \in Primes : p <= iter[i].limit}) <= iter[i].index
      BY <1>1, <2>1, <2>3, <2>4, NoFurther
    <3> QED BY <3>3, <3>4 DEF PastLimit
  <2>5. CASE ~ (iter[i].index >= size')
    <3>1. iter' = [iter EXCEPT ![i].index = iter[i].index + 1,
                               ![i].last = memory'[iter[i].index + 1]]
      BY <1>9, <2>5 DEF NextExtend
    <3>2. iter'[i] = [iter[i] EXCEPT !.index = iter[i].index + 1,
                                     !.last = memory'[iter[i].index + 1]]
      BY <1>5, <3>1
    <3>3. iter'[i].index = iter[i].index + 1 /\ iter'[i].last = memory'[iter[i].index + 1]
      BY <1>6, <3>2 DEF Iterator
    <3>4. size' \in 10..Len(m) /\ m \in Seq(Nat) BY <1>2 DEF Typed
    <3>5. Len(m) \in Nat BY <3>4, LenProperties
    <3>6. iter[i].index + 1 \in 1..Len(m) BY <1>6, <2>5, <3>4, <3>5
    <3> QED BY <1>2, <1>7, <3>3, <3>6
  <2> QED BY <2>4, <2>5
<1>10. ASSUME iter' = iter PROVE FALSE BY <1>10
<1>11. ASSUME NEW limit \in Requests, NEW g \in Beyond, GeneratePrimes(limit, g) PROVE FALSE
  BY <1>11 DEF GeneratePrimes
<1>12. ASSUME NEW j \in Iters, NEW limit \in Limits, NewIterator(j, limit) PROVE FALSE
  <2>1. ~ iter[j].live /\ iter' = [iter EXCEPT ![j] = Fresh(limit)] BY <1>12 DEF NewIterator
  <2>2. j # i BY <2>1
  <2>3. iter'[i] = iter[i] BY <1>5, <2>1, <2>2
  <2> QED BY <2>3
<1>13. ASSUME NEW j \in Iters, DestroyIterator(j) PROVE FALSE
  <2>1. iter' = [iter EXCEPT ![j] = Dead] BY <1>13 DEF DestroyIterator
  <2>2. CASE j = i
    <3>1. iter'[i] = Dead BY <1>5, <2>1, <2>2
    <3> QED BY <3>1 DEF Dead
  <2>3. CASE j # i
    <3>1. iter'[i] = iter[i] BY <1>5, <2>1, <2>3
    <3> QED BY <3>1
  <2> QED BY <2>2, <2>3
<1>14. ASSUME NEW j \in Iters, NextPrime(j), j # i PROVE FALSE
  <2>1. iter'[i] = iter[i]
    <3>1. CASE NextKnown(j) BY <1>5, <1>14, <3>1 DEF NextKnown
    <3>2. ASSUME NEW g \in Beyond, NextExtend(j, g) PROVE iter'[i] = iter[i]
      <4>1. CASE iter[j].index >= size' BY <1>5, <1>14, <3>2, <4>1 DEF NextExtend
      <4>2. CASE ~ (iter[j].index >= size') BY <1>5, <1>14, <3>2, <4>2 DEF NextExtend
      <4> QED BY <4>1, <4>2
    <3> QED BY <1>14, <3>1, <3>2 DEF NextPrime
  <2> QED BY <2>1
<1>15. ASSUME Clear \/ (\E on \in BOOLEAN : SetClear(on)) \/ (\E s \in Sizes : SetSieveSize(s))
              \/ UNCHANGED vars
       PROVE  FALSE
  <2>1. iter' = iter BY <1>15 DEF Clear, SetClear, SetSieveSize, vars
  <2> QED BY <1>10, <2>1
<1>16. ASSUME NextPrime(i) PROVE Advanced(i) \/ PastLimit(i)
  BY <1>8, <1>9, <1>16 DEF NextPrime
<1> QED BY <1>11, <1>12, <1>13, <1>14, <1>15, <1>16 DEF Next

(* An iterator returns every prime in order, one per call, however its     *)
(* calls are interleaved with other iterators, their destruction and       *)
(* clear(), and stays where it is only when it has returned all up to its  *)
(* limit: when the byte beyond is_prime is zero and the doubling of        *)
(* next_prime does not wrap, from Bertrand's postulate.                    *)
THEOREM IteratorsExact ==
  ASSUME Beyond = {FALSE}, Bertrand, NoWrap
  PROVE  Spec => IteratorExact
<1> DEFINE Inv == Typed /\ Complete /\ Answered
           Step == \A i \in Iters : iter'[i] # iter[i] /\ iter[i].live /\ iter'[i].live
                                      => Advanced(i) \/ PastLimit(i)
<1>1. Inv /\ Inv' /\ [Next]_vars => Step BY IteratorStep
<1>2. Spec => []Inv BY AlwaysComplete
<1>3. Inv /\ Inv' /\ [Next]_vars => [Step]_vars BY <1>1
<1>4. Spec => [][Step]_vars
  <2> HIDE DEF Inv, Step
  <2> QED BY <1>2, <1>3, PTL DEF Spec
<1> QED BY <1>4 DEF IteratorExact

=============================================================================
