--------------------------- MODULE SequenceLemmas ---------------------------
(***************************************************************************)
(* Facts about induction, recursive definitions and FlattenSeq that the    *)
(* proofs about sequences need.  The theorems of the library that take an  *)
(* operator are stated here for sets and functions, which the provers can  *)
(* instantiate: a property is the set of what has it, the body of a        *)
(* recursive definition a function of the argument and the function.       *)
(***************************************************************************)
EXTENDS Integers, Sequences, SequencesExt, Ordering, SequenceTheorems,
        FiniteSetTheorems, WellFoundedInduction, TLAPS

(* Induction on the naturals, for a property given as a set: the library's *)
(* theorem takes it as an operator.                                        *)
THEOREM NatSetInduction ==
  ASSUME NEW S, 0 \in S, \A n \in Nat : n \in S => n + 1 \in S
  PROVE  Nat \subseteq S
<1> DEFINE T == Nat \ S
<1> SUFFICES ASSUME T # {} PROVE FALSE
  OBVIOUS
<1>1. PICK x \in T : \A y \in T : ~ (<<y, x>> \in OpToRel(<, Nat))
  <2>1. T \subseteq Nat
    OBVIOUS
  <2> HIDE DEF T
  <2> QED BY <2>1, NatLessThanWellFounded, WFMin, Zenon
<1>2. x \in Nat /\ x # 0 /\ x - 1 \in Nat
  OBVIOUS
<1>3. x - 1 \in T
  BY <1>2
<1>4. <<x - 1, x>> \in OpToRel(<, Nat)
  <2>1. x - 1 < x BY <1>2
  <2> QED BY <2>1, <1>2, Zenon DEF OpToRel
<1> QED BY <1>1, <1>3, <1>4, Zenon

(* Counting up: a function on 0..n whose value at k is a step from its     *)
(* value at k - 1.                                                         *)
Iterates(n, V, base, step, x) ==
  /\ x \in [0..n -> V]
  /\ x[0] = base
  /\ \A k \in 1..n : x[k] = step[k][x[k - 1]]

(* There is one for every start and all steps.                             *)
THEOREM Iteration ==
  ASSUME NEW n \in Nat, NEW V, NEW base \in V, NEW step \in [1..n -> [V -> V]]
  PROVE  \E x : Iterates(n, V, base, step, x)
<1> DEFINE Good(x, m) == x[0] = base /\ \A k \in 1..n : k <= m => x[k] = step[k][x[k - 1]]
           S == {m \in Nat : \E x \in [0..n -> V] : Good(x, m)}
<1>1. 0 \in S
  <2> DEFINE x == [k \in 0..n |-> base]
  <2>1. x \in [0..n -> V] OBVIOUS
  <2>2. Good(x, 0) OBVIOUS
  <2> QED BY <2>1, <2>2
<1>2. ASSUME NEW m \in Nat, m \in S PROVE m + 1 \in S
  <2>1. PICK x \in [0..n -> V] : Good(x, m) BY <1>2
  <2> DEFINE y == [k \in 0..n |-> IF k = m + 1 THEN step[k][x[k - 1]] ELSE x[k]]
  <2>2. ASSUME NEW k \in 1..n PROVE step[k][x[k - 1]] \in V
    <3>1. k - 1 \in 0..n OBVIOUS
    <3> QED BY <3>1
  <2>3. y \in [0..n -> V]
    <3>1. ASSUME NEW k \in 0..n PROVE (IF k = m + 1 THEN step[k][x[k - 1]] ELSE x[k]) \in V
      <4>1. k = m + 1 => k \in 1..n OBVIOUS
      <4> QED BY <2>2, <4>1
    <3> QED BY <3>1
  <2>4. y[0] = base BY <2>1
  <2>5. ASSUME NEW k \in 1..n, k <= m + 1 PROVE y[k] = step[k][y[k - 1]]
    <3>1. k \in 0..n /\ k - 1 \in 0..n /\ k - 1 # m + 1 BY <2>5
    <3>2. y[k - 1] = x[k - 1] BY <3>1
    <3>3. y[k] = IF k = m + 1 THEN step[k][x[k - 1]] ELSE x[k] BY <3>1
    <3>4. k # m + 1 => k <= m BY <2>5
    <3> HIDE DEF y
    <3> QED BY <2>1, <3>2, <3>3, <3>4
  <2> HIDE DEF y
  <2> QED BY <2>3, <2>4, <2>5
<1>3. n \in S
  <2> HIDE DEF S
  <2> QED BY <1>1, <1>2, NatSetInduction
<1>4. PICK x \in [0..n -> V] : Good(x, n) BY <1>3
<1> QED BY <1>4 DEF Iterates

(* F[d] computes the value at d from a function g, and looks at g only     *)
(* where the rank is smaller.                                              *)
ByRank(D, V, rank, F) ==
  \A d \in D : \A g, h \in [D -> V] :
    (\A e \in D : rank[e] < rank[d] => g[e] = h[e]) => F[d][g] = F[d][h]
(* There is a function that is at each d what F[d] makes of it.            *)
Recursive(D, V, F) == \E g \in [D -> V] : g = [d \in D |-> F[d][g]]

(* A recursive definition whose calls have a smaller, bounded rank has a   *)
(* solution.                                                               *)
THEOREM BoundedRecursion ==
  ASSUME NEW D, NEW V, V # {}, NEW N \in Nat, NEW rank \in [D -> 0..N],
         NEW F \in [D -> [[D -> V] -> V]], ByRank(D, V, rank, F)
  PROVE  Recursive(D, V, F)
<1> DEFINE Good(g, n) == \A d \in D : rank[d] < n => g[d] = F[d][g]
           S == {n \in Nat : \E g \in [D -> V] : Good(g, n)}
<1>1. 0 \in S
  <2> DEFINE g == [d \in D |-> CHOOSE v \in V : TRUE]
  <2>1. g \in [D -> V] OBVIOUS
  <2>2. Good(g, 0) OBVIOUS
  <2> QED BY <2>1, <2>2
<1>2. ASSUME NEW n \in Nat, n \in S PROVE n + 1 \in S
  <2>1. PICK g \in [D -> V] : Good(g, n) BY <1>2
  <2> DEFINE h == [d \in D |-> F[d][g]]
  <2>2. h \in [D -> V] OBVIOUS
  <2>3. ASSUME NEW d \in D, rank[d] < n + 1 PROVE h[d] = F[d][h]
    <3>1. ASSUME NEW e \in D, rank[e] < rank[d] PROVE g[e] = h[e]
      <4>1. rank[e] < n BY <2>3, <3>1
      <4> QED BY <2>1, <4>1
    <3>2. F[d][g] = F[d][h] 
      <4> HIDE DEF h
      <4> QED BY <2>2, <3>1, Zenon DEF ByRank
    <3> QED BY <3>2
  <2>4. Good(h, n + 1) BY <2>3
  <2> HIDE DEF h
  <2> QED BY <2>2, <2>4
<1>3. N + 1 \in S
  <2> HIDE DEF S
  <2> QED BY <1>1, <1>2, NatSetInduction
<1>4. PICK g \in [D -> V] : Good(g, N + 1) BY <1>3
<1>5. g = [d \in D |-> F[d][g]] BY <1>4
<1> QED BY <1>5 DEF Recursive

(* f[i] is the concatenation of the first i of the lines.                  *)
Flattens(E, n, lines, f) ==
  /\ f \in [1..n -> Seq(E)]
  /\ f[1] = lines[1]
  /\ \A i \in 2..n : f[i] = f[i - 1] \o lines[i]

(* What FlattenSeq computes by recursion.                                  *)
LEMMA FlattenRecursion ==
  ASSUME NEW E, NEW n \in Nat \ {0}, NEW lines \in [1..n -> Seq(E)]
  PROVE  \E f : Flattens(E, n, lines, f) /\ FlattenSeq(lines) = f[n]
<1> DEFINE D == 1..n
           V == Seq(E)
           rank == [i \in D |-> i]
           F == [i \in D |-> [h \in [D -> V] |->
                   IF i = 1 THEN lines[i] ELSE h[i - 1] \o lines[i]]]
           g == CHOOSE g : g = [i \in D |-> IF i = 1 THEN lines[i] ELSE g[i - 1] \o lines[i]]
<1>1. V # {} /\ n \in Nat /\ rank \in [D -> 0..n]
  <2>1. <<>> \in Seq(E) OBVIOUS
  <2> QED BY <2>1
<1>2. F \in [D -> [[D -> V] -> V]]
  <2>1. ASSUME NEW i \in D, NEW h \in [D -> V], i # 1 PROVE h[i - 1] \o lines[i] \in V
    <3>1. i - 1 \in D BY <2>1
    <3>2. h[i - 1] \in Seq(E) /\ lines[i] \in Seq(E) BY <3>1
    <3> QED BY <3>2, ConcatProperties
  <2> QED BY <2>1
<1>3. ByRank(D, V, rank, F)
  <2> SUFFICES ASSUME NEW d \in D, NEW x \in [D -> V], NEW y \in [D -> V],
                      \A e \in D : rank[e] < rank[d] => x[e] = y[e]
               PROVE  F[d][x] = F[d][y]
    BY DEF ByRank
  <2>1. CASE d = 1 BY <2>1
  <2>2. CASE d # 1
    <3>1. d - 1 \in D /\ rank[d - 1] < rank[d] BY <2>2
    <3>2. x[d - 1] = y[d - 1] BY <3>1
    <3> QED BY <3>2
  <2> QED BY <2>1, <2>2
<1>4. PICK x \in [D -> V] : x = [d \in D |-> F[d][x]]
  <2> HIDE DEF D, V, rank, F
  <2>1. Recursive(D, V, F) BY <1>1, <1>2, <1>3, BoundedRecursion, Zenon
  <2> QED BY <2>1 DEF Recursive
<1>5. x = [i \in D |-> IF i = 1 THEN lines[i] ELSE x[i - 1] \o lines[i]]
  <2>1. \A i \in D : F[i][x] = IF i = 1 THEN lines[i] ELSE x[i - 1] \o lines[i]
    OBVIOUS
  <2> QED BY <2>1, <1>4
<1>6. g = [i \in D |-> IF i = 1 THEN lines[i] ELSE g[i - 1] \o lines[i]]
  <2> HIDE DEF D
  <2> QED BY <1>5
<1>61. \A i \in D : g[i] = IF i = 1 THEN lines[i] ELSE g[i - 1] \o lines[i]
  <2> HIDE DEF g, D
  <2> QED BY <1>6, Zenon
<1>7. Len(lines) = n OBVIOUS
<1>8. FlattenSeq(lines) = g[n]
  <2>1. Len(lines) # 0 BY <1>7
  <2> QED BY <2>1, <1>7 DEF FlattenSeq
<1>9. g \in [D -> V]
  <2> DEFINE S == {k \in Nat : k \in D => g[k] \in V}
  <2> HIDE DEF g
  <2>1. 0 \in S OBVIOUS
  <2>2. ASSUME NEW k \in Nat, k \in S PROVE k + 1 \in S
    <3> SUFFICES ASSUME k + 1 \in D PROVE g[k + 1] \in V
      OBVIOUS
    <3>1. CASE k = 0
      <4>1. g[1] = lines[1] BY <1>6
      <4> QED BY <4>1, <3>1
    <3>2. CASE k # 0
      <4>1. k \in D /\ g[k] \in Seq(E) /\ lines[k + 1] \in Seq(E) BY <3>2, <2>2
      <4>2. k + 1 # 1 /\ (k + 1) - 1 = k BY <3>2
      <4>3. g[k + 1] = g[(k + 1) - 1] \o lines[k + 1] BY <1>61, <4>2, Zenon
      <4>4. g[k + 1] = g[k] \o lines[k + 1] BY <4>3, <4>2
      <4>5. g[k] \o lines[k + 1] \in Seq(E) BY <4>1, ConcatProperties
      <4> QED BY <4>4, <4>5
    <3> QED BY <3>1, <3>2
  <2>3. Nat \subseteq S
    <3> HIDE DEF S
    <3> QED BY <2>1, <2>2, NatSetInduction
  <2>4. \A k \in D : g[k] \in V BY <2>3
  <2> QED BY <2>4, <1>6
<1>10. g[1] = lines[1] /\ \A i \in 2..n : g[i] = g[i - 1] \o lines[i]
  <2> HIDE DEF g
  <2>1. g[1] = lines[1] BY <1>61
  <2>2. ASSUME NEW i \in 2..n PROVE g[i] = g[i - 1] \o lines[i]
    <3>1. i \in D /\ i # 1 OBVIOUS
    <3> QED BY <3>1, <1>61, Zenon
  <2> QED BY <2>1, <2>2
<1> HIDE DEF g
<1> QED BY <1>8, <1>9, <1>10 DEF Flattens

(* The length of the first i lines together.                               *)
Before(lines, i) == Len(FlattenSeq(SubSeq(lines, 1, i)))

(* The first k lines.                                                      *)
LEMMA SubSeqLines ==
  ASSUME NEW T, NEW n \in Nat, NEW lines \in [1..n -> T], NEW k \in 0..n
  PROVE  /\ SubSeq(lines, 1, k) \in [1..k -> T]
         /\ \A i \in 1..k : SubSeq(lines, 1, k)[i] = lines[i]
         /\ k = n => SubSeq(lines, 1, k) = lines
<1>1. \A i \in 1..k : lines[i] \in T OBVIOUS
<1>2. /\ SubSeq(lines, 1, k) \in Seq(T)
      /\ Len(SubSeq(lines, 1, k)) = IF 1 <= k THEN k - 1 + 1 ELSE 0
      /\ \A i \in 1..(k - 1 + 1) : SubSeq(lines, 1, k)[i] = lines[1 + i - 1]
  BY <1>1, SubSeqProperties
<1>3. Len(SubSeq(lines, 1, k)) = k BY <1>2
<1>4. SubSeq(lines, 1, k) \in [1..k -> T] BY <1>2, <1>3, LenProperties
<1>5. ASSUME NEW i \in 1..k PROVE SubSeq(lines, 1, k)[i] = lines[i]
  BY <1>2
<1>6. ASSUME k = n PROVE SubSeq(lines, 1, k) = lines
  BY <1>4, <1>5, <1>6
<1> QED BY <1>4, <1>5, <1>6

(* No lines have no elements.                                              *)
LEMMA FlattenEmpty ==
  ASSUME NEW n \in Nat, NEW E, NEW lines \in [1..n -> Seq(E)]
  PROVE  FlattenSeq(SubSeq(lines, 1, 0)) = <<>>
<1>1. SubSeq(lines, 1, 0) = <<>> OBVIOUS
<1> QED BY <1>1 DEF FlattenSeq

(* The concatenation of k lines does not depend on how many follow.        *)
LEMMA FlattenUnique ==
  ASSUME NEW E, NEW n \in Nat, NEW lines, NEW k \in 1..n,
         NEW f, Flattens(E, n, lines, f), NEW h, Flattens(E, k, lines, h)
  PROVE  h[k] = f[k]
<1> DEFINE S == {j \in Nat : j \in 1..k => h[j] = f[j]}
<1>1. 0 \in S OBVIOUS
<1>2. ASSUME NEW j \in Nat, j \in S PROVE j + 1 \in S
  <2> SUFFICES ASSUME j + 1 \in 1..k PROVE h[j + 1] = f[j + 1]
    OBVIOUS
  <2>1. CASE j = 0 BY <2>1 DEF Flattens
  <2>2. CASE j # 0
    <3>1. j \in 1..k /\ h[j] = f[j] BY <1>2, <2>2
    <3>2. j + 1 \in 2..k /\ j + 1 \in 2..n /\ (j + 1) - 1 = j BY <2>2
    <3>3. h[j + 1] = h[(j + 1) - 1] \o lines[j + 1] BY <3>2, Zenon DEF Flattens
    <3>4. f[j + 1] = f[(j + 1) - 1] \o lines[j + 1] BY <3>2, Zenon DEF Flattens
    <3> QED BY <3>1, <3>2, <3>3, <3>4
  <2> QED BY <2>1, <2>2
<1>3. Nat \subseteq S
  <2> HIDE DEF S
  <2> QED BY <1>1, <1>2, NatSetInduction
<1> QED BY <1>3

(* The concatenation of the first k lines, through the same recursion.     *)
LEMMA FlattenPrefix ==
  ASSUME NEW E, NEW n \in Nat, NEW lines \in [1..n -> Seq(E)], NEW k \in 1..n
  PROVE  \E f : Flattens(E, k, lines, f) /\ FlattenSeq(SubSeq(lines, 1, k)) = f[k]
<1> DEFINE s == SubSeq(lines, 1, k)
<1>1. s \in [1..k -> Seq(E)] /\ \A i \in 1..k : s[i] = lines[i]
  BY SubSeqLines
<1>2. PICK f : Flattens(E, k, s, f) /\ FlattenSeq(s) = f[k]
  <2> HIDE DEF s
  <2>1. k \in Nat \ {0} OBVIOUS
  <2> QED BY <1>1, <2>1, FlattenRecursion, Zenon
<1>3. Flattens(E, k, lines, f)
  <2> HIDE DEF s
  <2>1. \A i \in 2..k : s[i] = lines[i] BY <1>1
  <2>2. s[1] = lines[1] BY <1>1
  <2> QED BY <1>2, <2>1, <2>2, Zenon DEF Flattens
<1> QED BY <1>2, <1>3

(* One line more is appended to what the lines before it give.             *)
LEMMA FlattenStep ==
  ASSUME NEW E, NEW n \in Nat, NEW lines \in [1..n -> Seq(E)], NEW k \in 1..n
  PROVE  /\ FlattenSeq(SubSeq(lines, 1, k)) \in Seq(E)
         /\ FlattenSeq(SubSeq(lines, 1, k)) = FlattenSeq(SubSeq(lines, 1, k - 1)) \o lines[k]
<1> DEFINE flat(j) == FlattenSeq(SubSeq(lines, 1, j))
<1>2. PICK f : Flattens(E, k, lines, f) /\ flat(k) = f[k]
  BY FlattenPrefix
<1>3. k \in 1..k /\ f[k] \in Seq(E) /\ lines[k] \in Seq(E) BY <1>2 DEF Flattens
<1>5. CASE k = 1
  <2>1. flat(0) = <<>> BY FlattenEmpty
  <2>2. f[k] = lines[k] BY <1>2, <1>5 DEF Flattens
  <2>4. <<>> \o lines[k] = lines[k] BY <1>3, ConcatEmptySeq
  <2>5. flat(k - 1) = flat(0) BY <1>5
  <2> QED BY <1>2, <1>3, <2>1, <2>2, <2>4, <2>5, Zenon
<1>6. CASE k # 1
  <2> DEFINE j == k - 1
  <2>1. j \in 1..k /\ j \in 1..n /\ k \in 2..k /\ k \in Nat BY <1>6
  <2>2. PICK h : Flattens(E, j, lines, h) /\ flat(j) = h[j]
    <3> HIDE DEF j
    <3> QED BY <2>1, FlattenPrefix
  <2>3. h[j] = f[j]
    <3>1. j \in 1..k /\ k \in Nat BY <2>1
    <3>2. Flattens(E, k, lines, f) /\ Flattens(E, j, lines, h) BY <1>2, <2>2
    <3> HIDE DEF j
    <3> QED BY <3>1, <3>2, FlattenUnique
  <2>4. f[k] = f[j] \o lines[k] BY <1>2, <2>1, Zenon DEF Flattens
  <2> QED BY <1>2, <1>3, <2>2, <2>3, <2>4, Zenon
<1> QED BY <1>5, <1>6

(* The lengths add up.                                                     *)
LEMMA BeforeStep ==
  ASSUME NEW E, NEW n \in Nat, NEW lines \in [1..n -> Seq(E)]
  PROVE  /\ Before(lines, 0) = 0
         /\ \A i \in 0..n : Before(lines, i) \in Nat
         /\ \A i \in 1..n : Before(lines, i) = Before(lines, i - 1) + Len(lines[i])
<1> DEFINE flat(i) == FlattenSeq(SubSeq(lines, 1, i))
<1>1. flat(0) = <<>> BY FlattenEmpty
<1>2. Before(lines, 0) = 0 BY <1>1 DEF Before
<1>3. \A i \in 0..n : flat(i) \in Seq(E)
  <2> TAKE i \in 0..n
  <2>1. CASE i = 0
    <3>1. flat(i) = flat(0) BY <2>1
    <3>2. <<>> \in Seq(E) OBVIOUS
    <3> HIDE DEF flat
    <3> QED BY <3>1, <3>2, <1>1
  <2>2. CASE i # 0
    <3>1. i \in 1..n BY <2>2
    <3> QED BY <3>1, FlattenStep
  <2> QED BY <2>1, <2>2
<1>4. \A i \in 0..n : Before(lines, i) \in Nat
  <2> HIDE DEF flat
  <2>1. \A i \in 0..n : Len(flat(i)) \in Nat BY <1>3, LenProperties
  <2> QED BY <2>1 DEF Before, flat
<1>5. ASSUME NEW i \in 1..n
      PROVE  Before(lines, i) = Before(lines, i - 1) + Len(lines[i])
  <2>1. flat(i) = flat(i - 1) \o lines[i] BY FlattenStep
  <2>2. flat(i - 1) \in Seq(E)
    <3>1. i - 1 \in 0..n OBVIOUS
    <3> QED BY <3>1, <1>3
  <2>3. lines[i] \in Seq(E) OBVIOUS
  <2> HIDE DEF flat
  <2>4. Len(flat(i)) = Len(flat(i - 1)) + Len(lines[i]) BY <2>1, <2>2, <2>3, ConcatProperties
  <2> QED BY <2>4 DEF Before, flat
<1> QED BY <1>2, <1>4, <1>5

(* The length of a longer prefix is not less.                              *)
LEMMA BeforeMonotone ==
  ASSUME NEW E, NEW n \in Nat, NEW lines \in [1..n -> Seq(E)],
         NEW i \in 0..n, NEW j \in i..n
  PROVE  Before(lines, i) <= Before(lines, j)
<1> DEFINE S == {k \in Nat : i + k <= n => Before(lines, i) <= Before(lines, i + k)}
<1>1. 0 \in S
  <2>1. Before(lines, i) \in Nat BY BeforeStep
  <2>2. i + 0 = i OBVIOUS
  <2> QED BY <2>1, <2>2
<1>2. ASSUME NEW k \in Nat, k \in S PROVE k + 1 \in S
  <2> SUFFICES ASSUME i + (k + 1) <= n
               PROVE  Before(lines, i) <= Before(lines, i + (k + 1))
    OBVIOUS
  <2> DEFINE m == i + (k + 1)
  <2>1. m \in 1..n /\ m - 1 = i + k /\ i + k \in 0..n OBVIOUS
  <2>2. Before(lines, m) = Before(lines, m - 1) + Len(lines[m])
    <3> HIDE DEF m
    <3> QED BY <2>1, BeforeStep
  <2>3. Len(lines[m]) \in Nat
    <3>1. lines[m] \in Seq(E) BY <2>1
    <3> QED BY <3>1
  <2>4. Before(lines, i) <= Before(lines, m - 1) BY <1>2, <2>1
  <2>5. Before(lines, i) \in Nat /\ Before(lines, m - 1) \in Nat BY <2>1, BeforeStep
  <2> HIDE DEF m
  <2>6. Before(lines, i) <= Before(lines, m) BY <2>2, <2>3, <2>4, <2>5
  <2> QED BY <2>6 DEF m
<1>3. Nat \subseteq S
  <2> HIDE DEF S
  <2> QED BY <1>1, <1>2, NatSetInduction
<1>4. j - i \in Nat /\ i + (j - i) = j /\ j <= n OBVIOUS
<1> QED BY <1>3, <1>4

(* Where the elements of FlattenSeq come from: line i begins after the     *)
(* lines before it, and every element belongs to a line.                   *)
Layout(E, n, lines) ==
  /\ FlattenSeq(lines) \in Seq(E)
  /\ Len(FlattenSeq(lines)) = Before(lines, n)
  /\ \A i \in 1..n : \A k \in 1..Len(lines[i]) :
       FlattenSeq(lines)[Before(lines, i - 1) + k] = lines[i][k]
  /\ \A q \in 1..Before(lines, n) : \E i \in 1..n : \E k \in 1..Len(lines[i]) :
       q = Before(lines, i - 1) + k

(* FlattenSeq lays the lines out one after the other.                      *)
LEMMA FlattenLayout ==
  ASSUME NEW E, NEW n \in Nat, NEW lines \in [1..n -> Seq(E)]
  PROVE  Layout(E, n, lines)
<1> DEFINE flat(i) == FlattenSeq(SubSeq(lines, 1, i))
           at(i) == Before(lines, i)
           Laid(j) == \A i \in 1..j : \A k \in 1..Len(lines[i]) : flat(j)[at(i - 1) + k] = lines[i][k]
           Covered(j) == \A q \in 1..at(j) : \E i \in 1..j : \E k \in 1..Len(lines[i]) :
                           q = at(i - 1) + k
           S == {j \in Nat : j <= n => flat(j) \in Seq(E) /\ Laid(j) /\ Covered(j)}
<1>0. \A k \in 1..n : flat(k) \in Seq(E) /\ flat(k) = flat(k - 1) \o lines[k]
  <2> TAKE k \in 1..n
  <2> QED BY FlattenStep
<1>1. 0 \in S
  <2>1. flat(0) = <<>> BY FlattenEmpty
  <2>2. at(0) = 0 BY BeforeStep
  <2>3. flat(0) \in Seq(E)
    <3>1. <<>> \in Seq(E) OBVIOUS
    <3> HIDE DEF flat
    <3> QED BY <2>1, <3>1
  <2> HIDE DEF flat, at
  <2> QED BY <2>2, <2>3
<1>2. ASSUME NEW j \in Nat, j \in S PROVE j + 1 \in S
  <2> SUFFICES ASSUME j + 1 <= n
               PROVE  flat(j + 1) \in Seq(E) /\ Laid(j + 1) /\ Covered(j + 1)
    OBVIOUS
  <2> DEFINE m == j + 1
  <2>1. m \in 1..n /\ m \in 0..n /\ j \in 0..n /\ m - 1 = j OBVIOUS
  <2>2. flat(j) \in Seq(E) /\ Laid(j) /\ Covered(j)
    <3>1. j <= n OBVIOUS
    <3> HIDE DEF flat, Laid, Covered
    <3> QED BY <1>2, <3>1
  <2>3. flat(m) \in Seq(E) /\ flat(m) = flat(j) \o lines[m]
    <3> HIDE DEF m
    <3>1. flat(m) \in Seq(E) /\ flat(m) = flat(m - 1) \o lines[m] BY <1>0, <2>1
    <3> QED BY <3>1, <2>1
  <2>4. lines[m] \in Seq(E) /\ Len(lines[m]) \in Nat
    <3>1. lines[m] \in Seq(E) BY <2>1
    <3> QED BY <3>1
  <2>5. at(m) = at(j) + Len(lines[m]) /\ at(m) \in Nat /\ at(j) \in Nat
    <3> HIDE DEF m
    <3>1. at(m) = at(m - 1) + Len(lines[m]) BY <2>1, BeforeStep
    <3>2. at(m) \in Nat /\ at(j) \in Nat BY <2>1, BeforeStep
    <3> QED BY <3>1, <3>2, <2>1
  <2>6. Len(flat(j)) = at(j) BY DEF Before
  <2>7. \A q \in 1..at(m) : flat(m)[q] = IF q <= at(j) THEN flat(j)[q] ELSE lines[m][q - at(j)]
    <3> HIDE DEF flat, at, m
    <3> QED BY <2>2, <2>3, <2>4, <2>5, <2>6, ConcatProperties, SMTT(40)
  <2>8. \A i \in 1..j : at(i - 1) \in Nat /\ Len(lines[i]) \in Nat /\ at(i - 1) + Len(lines[i]) <= at(j)
    <3> TAKE i \in 1..j
    <3>1. i \in 1..n /\ i \in 0..n /\ j \in i..n /\ i - 1 \in 0..n OBVIOUS
    <3>2. at(i) = at(i - 1) + Len(lines[i]) BY <3>1, BeforeStep, ZenonT(60)
    <3>3. at(i) <= at(j) BY <3>1, BeforeMonotone
    <3>4. lines[i] \in Seq(E) BY <3>1
    <3>5. Len(lines[i]) \in Nat BY <3>4
    <3>6. at(i - 1) \in Nat BY <3>1, BeforeStep
    <3> HIDE DEF at
    <3> QED BY <3>2, <3>3, <3>5, <3>6
  <2>9. Laid(m)
    <3> SUFFICES ASSUME NEW i \in 1..m, NEW k \in 1..Len(lines[i])
                 PROVE  flat(m)[at(i - 1) + k] = lines[i][k]
      OBVIOUS
    <3>1. CASE i = m
      <4>1. at(i - 1) + k \in 1..at(m) /\ ~(at(i - 1) + k <= at(j))
        <5> HIDE DEF at
        <5> QED BY <2>1, <2>4, <2>5, <3>1
      <4>2. (at(i - 1) + k) - at(j) = k
        <5> HIDE DEF at
        <5> QED BY <2>1, <2>4, <2>5, <3>1
      <4> HIDE DEF at, flat
      <4> QED BY <2>7, <3>1, <4>1, <4>2
    <3>2. CASE i # m
      <4>1. i \in 1..j BY <3>2
      <4>0. at(i - 1) \in Nat /\ Len(lines[i]) \in Nat /\ at(i - 1) + Len(lines[i]) <= at(j)
        BY <2>8, <4>1
      <4>01. k \in Nat /\ 1 <= k /\ k <= Len(lines[i]) BY <4>0
      <4>02. at(j) <= at(m) BY <2>4, <2>5
      <4> HIDE DEF at, flat, m
      <4>2. at(i - 1) + k \in 1..at(m) /\ at(i - 1) + k <= at(j)
        <5>1. PICK before : before = at(i - 1) OBVIOUS
        <5>2. PICK length : length = Len(lines[i]) OBVIOUS
        <5>3. before \in Nat /\ length \in Nat /\ before + length <= at(j) /\ k <= length
          BY <4>0, <4>01, <5>1, <5>2
        <5>4. before + k \in 1..at(m) /\ before + k <= at(j)
          BY <2>5, <4>01, <4>02, <5>3, SMTT(40)
        <5> QED BY <5>1, <5>4
      <4> QED BY <2>2, <2>7, <4>1, <4>2
    <3> QED BY <3>1, <3>2
  <2>10. Covered(m)
    <3> SUFFICES ASSUME NEW q \in 1..at(m)
                 PROVE  \E i \in 1..m : \E k \in 1..Len(lines[i]) : q = at(i - 1) + k
      OBVIOUS
    <3>1. CASE q <= at(j)
      <4> HIDE DEF at
      <4>1. q \in 1..at(j) BY <3>1, <2>5
      <4>2. PICK i \in 1..j : \E k \in 1..Len(lines[i]) : q = at(i - 1) + k BY <2>2, <4>1
      <4>3. i \in 1..m BY <4>2
      <4> QED BY <4>2, <4>3
    <3>2. CASE ~(q <= at(j))
      <4> HIDE DEF at
      <4>1. q - at(j) \in 1..Len(lines[m]) /\ q = at(m - 1) + (q - at(j)) BY <2>1, <2>4, <2>5, <3>2
      <4>2. m \in 1..m OBVIOUS
      <4> QED BY <4>1, <4>2
    <3> QED BY <3>1, <3>2
  <2> QED BY <2>3, <2>9, <2>10
<1>3. Nat \subseteq S
  <2> HIDE DEF S
  <2> QED BY <1>1, <1>2, NatSetInduction
<1>4. flat(n) \in Seq(E) /\ Laid(n) /\ Covered(n)
  <2>1. n \in S BY <1>3
  <2> HIDE DEF flat, Laid, Covered
  <2> QED BY <2>1
<1>5. SubSeq(lines, 1, n) = lines
  <2>1. n \in 0..n OBVIOUS
  <2> QED BY <2>1, SubSeqLines
<1> QED BY <1>4, <1>5 DEF Before, Layout

(* t has one element more than s, e at k: what is before it stays, what    *)
(* was from there on moves up.                                             *)
Insertion(s, t, k, e) ==
  /\ Len(t) = Len(s) + 1
  /\ \A q \in 1..(k - 1) : t[q] = s[q]
  /\ t[k] = e
  /\ \A q \in k..Len(s) : t[q + 1] = s[q]

(* What InsertAt does.                                                     *)
LEMMA Inserted ==
  ASSUME NEW E, NEW s \in Seq(E), NEW k \in 1..(Len(s) + 1), NEW e \in E
  PROVE  InsertAt(s, k, e) \in Seq(E) /\ Insertion(s, InsertAt(s, k, e), k, e)
<1> DEFINE a == SubSeq(s, 1, k - 1)
           b == SubSeq(s, k, Len(s))
           one == <<e>>
           t == (a \o one) \o b
<1>1. Len(s) \in Nat /\ \A q \in 1..Len(s) : s[q] \in E OBVIOUS
<1>2. a \in Seq(E) /\ Len(a) = k - 1 /\ \A q \in 1..(k - 1) : a[q] = s[q]
  <2>1. \A q \in 1..(k - 1) : s[q] \in E BY <1>1
  <2>2. Len(a) = IF 1 <= k - 1 THEN k - 1 - 1 + 1 ELSE 0 BY <2>1, SubSeqProperties
  <2> QED BY <1>1, <2>1, <2>2, SubSeqProperties
<1>3. b \in Seq(E) /\ Len(b) = Len(s) - k + 1 /\ \A q \in 1..(Len(s) - k + 1) : b[q] = s[k + q - 1]
  <2>1. \A q \in k..Len(s) : s[q] \in E BY <1>1
  <2>2. Len(b) = IF k <= Len(s) THEN Len(s) - k + 1 ELSE 0 BY <2>1, SubSeqProperties
  <2> QED BY <1>1, <2>1, <2>2, SubSeqProperties
<1>4. one \in Seq(E) /\ Len(one) = 1 /\ one[1] = e OBVIOUS
<1> HIDE DEF a, b, one
<1>5. /\ a \o one \in Seq(E) /\ Len(a \o one) = k
      /\ \A q \in 1..(k - 1) : (a \o one)[q] = s[q]
      /\ (a \o one)[k] = e
  <2>1. /\ a \o one \in Seq(E) /\ Len(a \o one) = Len(a) + Len(one)
        /\ \A q \in 1..(Len(a) + Len(one)) :
             (a \o one)[q] = IF q <= Len(a) THEN a[q] ELSE one[q - Len(a)]
    BY <1>2, <1>4, ConcatProperties
  <2>2. k - (k - 1) = 1 OBVIOUS
  <2> QED BY <1>2, <1>4, <2>1, <2>2
<1> DEFINE c == a \o one
<1>6. c \in Seq(E) /\ Len(c) = k /\ (\A q \in 1..(k - 1) : c[q] = s[q]) /\ c[k] = e BY <1>5
<1> HIDE DEF c
<1>7. /\ c \o b \in Seq(E) /\ Len(c \o b) = Len(c) + Len(b)
      /\ \A q \in 1..(Len(c) + Len(b)) :
           (c \o b)[q] = IF q <= Len(c) THEN c[q] ELSE b[q - Len(c)]
  BY <1>3, <1>6, ConcatProperties
<1>8. Len(c \o b) = Len(s) + 1 BY <1>1, <1>3, <1>6, <1>7
<1>9. \A q \in 1..(k - 1) : (c \o b)[q] = s[q] BY <1>1, <1>3, <1>6, <1>7
<1>10. (c \o b)[k] = e BY <1>1, <1>3, <1>6, <1>7
<1>11. ASSUME NEW q \in k..Len(s) PROVE (c \o b)[q + 1] = s[q]
  <2>1. q + 1 \in 1..(Len(c) + Len(b)) /\ ~(q + 1 <= Len(c)) BY <1>1, <1>3, <1>6
  <2>2. (c \o b)[q + 1] = b[q + 1 - k] BY <1>6, <1>7, <2>1
  <2>3. q + 1 - k \in 1..(Len(s) - k + 1) /\ k + (q + 1 - k) - 1 = q BY <1>1
  <2> QED BY <1>3, <2>2, <2>3
<1>12. InsertAt(s, k, e) = c \o b BY Zenon DEF InsertAt, c, a, b, one
<1> QED BY <1>7, <1>8, <1>9, <1>10, <1>11, <1>12 DEF Insertion

(* One element less: what was behind it moves down.                        *)
LEMMA Removed ==
  ASSUME NEW E, NEW s \in Seq(E), NEW k \in 1..Len(s)
  PROVE  /\ RemoveAt(s, k) \in Seq(E) /\ Len(RemoveAt(s, k)) = Len(s) - 1
         /\ \A q \in 1..(k - 1) : RemoveAt(s, k)[q] = s[q]
         /\ \A q \in k..(Len(s) - 1) : RemoveAt(s, k)[q] = s[q + 1]
<1> DEFINE a == SubSeq(s, 1, k - 1)
           b == SubSeq(s, k + 1, Len(s))
<1>1. Len(s) \in Nat /\ \A q \in 1..Len(s) : s[q] \in E OBVIOUS
<1>2. a \in Seq(E) /\ Len(a) = k - 1 /\ \A q \in 1..(k - 1) : a[q] = s[q]
  <2>1. \A q \in 1..(k - 1) : s[q] \in E BY <1>1
  <2>2. Len(a) = IF 1 <= k - 1 THEN k - 1 - 1 + 1 ELSE 0 BY <2>1, SubSeqProperties
  <2> QED BY <1>1, <2>1, <2>2, SubSeqProperties
<1>3. b \in Seq(E) /\ Len(b) = Len(s) - k /\ \A q \in 1..(Len(s) - k) : b[q] = s[k + q]
  <2>1. \A q \in (k + 1)..Len(s) : s[q] \in E BY <1>1
  <2>2. Len(b) = IF k + 1 <= Len(s) THEN Len(s) - (k + 1) + 1 ELSE 0 BY <2>1, SubSeqProperties
  <2> QED BY <1>1, <2>1, <2>2, SubSeqProperties
<1> HIDE DEF a, b
<1>4. /\ a \o b \in Seq(E) /\ Len(a \o b) = Len(a) + Len(b)
      /\ \A q \in 1..(Len(a) + Len(b)) :
           (a \o b)[q] = IF q <= Len(a) THEN a[q] ELSE b[q - Len(a)]
  BY <1>2, <1>3, ConcatProperties
<1>5. Len(a \o b) = Len(s) - 1 BY <1>1, <1>2, <1>3, <1>4
<1>6. \A q \in 1..(k - 1) : (a \o b)[q] = s[q] BY <1>1, <1>2, <1>3, <1>4
<1>7. ASSUME NEW q \in k..(Len(s) - 1) PROVE (a \o b)[q] = s[q + 1]
  <2>1. q \in 1..(Len(a) + Len(b)) /\ ~(q <= Len(a)) BY <1>1, <1>2, <1>3
  <2>2. (a \o b)[q] = b[q - (k - 1)] BY <1>2, <1>4, <2>1
  <2>3. q - (k - 1) \in 1..(Len(s) - k) /\ k + (q - (k - 1)) = q + 1 BY <1>1
  <2> QED BY <1>3, <2>2, <2>3
<1>8. RemoveAt(s, k) = a \o b BY Zenon DEF RemoveAt, a, b
<1> QED BY <1>4, <1>5, <1>6, <1>7, <1>8

(* A function on the numbers up to n is a sequence.                        *)
LEMMA FunctionSeq ==
  ASSUME NEW T, NEW n \in Nat, NEW f \in [1..n -> T]
  PROVE  f \in Seq(T) /\ Len(f) = n /\ DOMAIN f = 1..n
  OBVIOUS

(* And a sequence is such a function.                                      *)
LEMMA SeqFunction ==
  ASSUME NEW T, NEW s \in Seq(T)
  PROVE  /\ Len(s) \in Nat /\ DOMAIN s = 1..Len(s) /\ s \in [1..Len(s) -> T]
         /\ \A k \in 1..Len(s) : s[k] \in T
  OBVIOUS

(* FlattenSeq holds what the lines hold.                                   *)
LEMMA FlattenElements ==
  ASSUME NEW E, NEW n \in Nat, NEW lines \in [1..n -> Seq(E)]
  PROVE  /\ FlattenSeq(lines) \in Seq(E)
         /\ ToSet(FlattenSeq(lines)) = UNION {ToSet(lines[k]) : k \in 1..n}
<1> DEFINE flat == FlattenSeq(lines)
<1>1. /\ flat \in Seq(E) /\ Len(flat) = Before(lines, n)
      /\ \A k \in 1..n : \A q \in 1..Len(lines[k]) : flat[Before(lines, k - 1) + q] = lines[k][q]
      /\ \A p \in 1..Before(lines, n) : \E k \in 1..n : \E q \in 1..Len(lines[k]) :
           p = Before(lines, k - 1) + q
  <2>1. Layout(E, n, lines) BY FlattenLayout
  <2> QED BY <2>1, Zenon DEF Layout
<1>2. \A k \in 1..n : lines[k] \in Seq(E) OBVIOUS
<1>3. ASSUME NEW k \in 1..n, NEW q \in 1..Len(lines[k])
      PROVE  Before(lines, k - 1) + q \in 1..Len(flat)
  <2>1. Before(lines, k - 1) \in Nat /\ Before(lines, k) \in Nat
    <3>1. k - 1 \in 0..n /\ k \in 0..n OBVIOUS
    <3> QED BY <3>1, BeforeStep
  <2>2. Before(lines, k) = Before(lines, k - 1) + Len(lines[k]) BY BeforeStep
  <2>3. Before(lines, k) <= Before(lines, n)
    <3>1. k \in 0..n /\ n \in k..n OBVIOUS
    <3> QED BY <3>1, BeforeMonotone
  <2>4. Before(lines, n) \in Nat
    <3>1. n \in 0..n OBVIOUS
    <3> QED BY <3>1, BeforeStep
  <2> DEFINE a == Before(lines, k - 1)
             b == Before(lines, k)
             c == Before(lines, n)
             d == Len(lines[k])
  <2>5. d \in Nat BY <1>2, LenProperties
  <2>6. a \in Nat /\ b \in Nat /\ c \in Nat /\ b = a + d /\ b <= c /\ q \in 1..d
    BY <2>1, <2>2, <2>3, <2>4
  <2>7. a + q \in 1..c
    <3> HIDE DEF a, b, c, d
    <3> QED BY <2>5, <2>6
  <2> QED BY <1>1, <2>7
<1>4. DOMAIN flat = 1..Len(flat) /\ \A k \in 1..n : DOMAIN lines[k] = 1..Len(lines[k])
  BY <1>1, <1>2, LenProperties
<1> HIDE DEF flat
<1>5. ASSUME NEW v \in ToSet(flat) PROVE \E k \in 1..n : v \in ToSet(lines[k])
  <2>1. PICK p \in 1..Len(flat) : flat[p] = v BY <1>4 DEF ToSet
  <2>2. PICK k \in 1..n : \E q \in 1..Len(lines[k]) : p = Before(lines, k - 1) + q
    BY <1>1, <2>1
  <2>3. PICK q \in 1..Len(lines[k]) : p = Before(lines, k - 1) + q BY <2>2
  <2>4. lines[k][q] = v BY <1>1, <2>1, <2>3
  <2> QED BY <1>4, <2>4 DEF ToSet
<1>6. ASSUME NEW k \in 1..n, NEW v \in ToSet(lines[k]) PROVE v \in ToSet(flat)
  <2>1. PICK q \in 1..Len(lines[k]) : lines[k][q] = v BY <1>4 DEF ToSet
  <2>2. flat[Before(lines, k - 1) + q] = v BY <1>1, <2>1
  <2>3. Before(lines, k - 1) + q \in DOMAIN flat BY <1>3, <1>4
  <2> QED BY <2>2, <2>3 DEF ToSet
<1>7. ToSet(flat) = UNION {ToSet(lines[k]) : k \in 1..n}
  BY <1>5, <1>6
<1> QED BY <1>1, <1>7 DEF flat

-----------------------------------------------------------------------------
(* The numbers of a set in order.                                          *)

(* How many numbers of S there are up to n.                                *)
CountUpto(S, n) == Cardinality(S \cap 1..n)

LEMMA CountNext ==
  ASSUME NEW S
  PROVE  /\ CountUpto(S, 0) = 0
         /\ \A n \in Nat : /\ CountUpto(S, n) \in Nat
                           /\ CountUpto(S, n + 1) = IF n + 1 \in S THEN CountUpto(S, n) + 1 ELSE CountUpto(S, n)
<1>1. CountUpto(S, 0) = 0
  <2>1. S \cap 1..0 = {} OBVIOUS
  <2> QED BY <2>1, FS_EmptySet DEF CountUpto
<1>2. ASSUME NEW n \in Nat
      PROVE  /\ CountUpto(S, n) \in Nat
             /\ CountUpto(S, n + 1) = IF n + 1 \in S THEN CountUpto(S, n) + 1 ELSE CountUpto(S, n)
  <2>1. IsFiniteSet(1..n) BY FS_Interval
  <2>2. IsFiniteSet(S \cap 1..n)
    <3>1. S \cap 1..n \subseteq 1..n OBVIOUS
    <3> QED BY <2>1, <3>1, FS_Subset
  <2>3. CountUpto(S, n) \in Nat BY <2>2, FS_CardinalityType DEF CountUpto
  <2>4. 1..(n + 1) = (1..n) \cup {n + 1} /\ n + 1 \notin 1..n OBVIOUS
  <2>5. CASE n + 1 \in S
    <3>1. S \cap 1..(n + 1) = (S \cap 1..n) \cup {n + 1} /\ n + 1 \notin S \cap 1..n
      BY <2>4, <2>5
    <3>2. Cardinality((S \cap 1..n) \cup {n + 1}) = Cardinality(S \cap 1..n) + 1
      BY <2>2, <3>1, FS_AddElement
    <3> QED BY <2>3, <2>5, <3>1, <3>2 DEF CountUpto
  <2>6. CASE n + 1 \notin S
    <3>1. S \cap 1..(n + 1) = S \cap 1..n BY <2>4, <2>6
    <3> QED BY <2>3, <2>6, <3>1 DEF CountUpto
  <2> QED BY <2>3, <2>5, <2>6
<1> QED BY <1>1, <1>2

(* There are no fewer up to a greater number, and more if it is in S.      *)
LEMMA CountGrows ==
  ASSUME NEW S, NEW m \in Nat, NEW n \in Nat, m < n
  PROVE  CountUpto(S, m) <= CountUpto(S, n) /\ (n \in S => CountUpto(S, m) < CountUpto(S, n))
<1> DEFINE T == {j \in Nat : CountUpto(S, m) <= CountUpto(S, m + j)}
<1>1. \A j \in Nat : CountUpto(S, j) \in Nat BY CountNext
<1>2. 0 \in T BY <1>1
<1>3. ASSUME NEW j \in Nat, j \in T PROVE j + 1 \in T
  <2>1. m + j \in Nat /\ m + (j + 1) = (m + j) + 1 OBVIOUS
  <2>2. CountUpto(S, (m + j) + 1) \in {CountUpto(S, m + j), CountUpto(S, m + j) + 1} BY <2>1, CountNext
  <2>3. CountUpto(S, m + j) \in Nat /\ CountUpto(S, m) \in Nat BY <1>1, <2>1
  <2> QED BY <1>3, <2>1, <2>2, <2>3
<1>4. Nat \subseteq T
  <2> HIDE DEF T
  <2> QED BY <1>2, <1>3, NatSetInduction
<1>5. PICK j \in Nat : n = (m + j) + 1
  <2>1. n - m - 1 \in Nat /\ n = (m + (n - m - 1)) + 1 OBVIOUS
  <2> QED BY <2>1
<1>6. m + j \in Nat /\ CountUpto(S, m + j) \in Nat /\ CountUpto(S, m) \in Nat BY <1>1
<1>7. CountUpto(S, m) <= CountUpto(S, m + j) BY <1>4
<1>8. CountUpto(S, n) = IF n \in S THEN CountUpto(S, m + j) + 1 ELSE CountUpto(S, m + j)
  BY <1>5, <1>6, CountNext
<1> QED BY <1>6, <1>7, <1>8

(* Each number of S up to last has its place, and each place its number.   *)
LEMMA CountPlaces ==
  ASSUME NEW S, NEW last \in Nat
  PROVE  /\ CountUpto(S, last) \in Nat
         /\ \A n \in S \cap 1..last : CountUpto(S, n) \in 1..CountUpto(S, last)
         /\ \A k \in 1..CountUpto(S, last) : \E n \in S \cap 1..last : CountUpto(S, n) = k
<1>1. \A j \in Nat : CountUpto(S, j) \in Nat BY CountNext
<1>2. ASSUME NEW n \in S \cap 1..last PROVE CountUpto(S, n) \in 1..CountUpto(S, last)
  <2>1. CountUpto(S, n) \in Nat /\ CountUpto(S, last) \in Nat /\ n \in Nat BY <1>1
  <2>2. 0 < CountUpto(S, n)
    <3>1. 0 \in Nat /\ 0 < n /\ CountUpto(S, 0) = 0 BY CountNext
    <3> QED BY <2>1, <3>1, CountGrows
  <2>3. CountUpto(S, n) <= CountUpto(S, last)
    <3>1. CASE n = last BY <2>1, <3>1
    <3>2. CASE n < last BY <2>1, <3>2, CountGrows
    <3> QED BY <3>1, <3>2
  <2> QED BY <2>1, <2>2, <2>3
<1> DEFINE Placed(m) == \A k \in 1..CountUpto(S, m) : \E n \in S \cap 1..m : CountUpto(S, n) = k
           T == {m \in Nat : Placed(m)}
<1>3. 0 \in T
  <2>1. 1..CountUpto(S, 0) = {} BY CountNext
  <2> QED BY <2>1
<1>4. ASSUME NEW m \in Nat, m \in T PROVE m + 1 \in T
  <2> SUFFICES ASSUME NEW k \in 1..CountUpto(S, m + 1)
               PROVE  \E n \in S \cap 1..(m + 1) : CountUpto(S, n) = k
    OBVIOUS
  <2>1. CountUpto(S, m) \in Nat BY <1>1
  <2>2. CountUpto(S, m + 1) = IF m + 1 \in S THEN CountUpto(S, m) + 1 ELSE CountUpto(S, m) BY CountNext
  <2>3. CASE k \in 1..CountUpto(S, m)
    <3>1. PICK n \in S \cap 1..m : CountUpto(S, n) = k BY <1>4, <2>3
    <3>2. n \in S \cap 1..(m + 1) OBVIOUS
    <3> QED BY <3>1, <3>2
  <2>4. CASE k \notin 1..CountUpto(S, m)
    <3>1. m + 1 \in S /\ k = CountUpto(S, m + 1) BY <2>1, <2>2, <2>4
    <3>2. m + 1 \in S \cap 1..(m + 1) BY <3>1
    <3> QED BY <3>1, <3>2
  <2> QED BY <2>3, <2>4
<1>5. last \in T
  <2> HIDE DEF T
  <2> QED BY <1>3, <1>4, NatSetInduction
<1> QED BY <1>1, <1>2, <1>5

(* What Ascending has at its k-th place.                                   *)
LEMMA AscendingAt ==
  ASSUME NEW last \in Nat, NEW S
  PROVE  LET at == Ascending(S, last)
         IN /\ at \in Seq(S \cap 1..last) /\ Len(at) = CountUpto(S, last)
            /\ \A k \in 1..CountUpto(S, last) : at[k] \in S \cap 1..last /\ CountUpto(S, at[k]) = k
<1> DEFINE T == S \cap 1..last
           N == CountUpto(S, last)
           at == Ascending(S, last)
<1>1. N \in Nat /\ \A k \in 1..N : \E n \in T : CountUpto(S, n) = k BY CountPlaces
<1>2. ASSUME NEW n \in T PROVE Cardinality(T \cap 1..n) = CountUpto(S, n)
  <2>1. T \cap 1..n = S \cap 1..n OBVIOUS
  <2> QED BY <2>1 DEF CountUpto
<1>3. at = [k \in 1..N |-> CHOOSE n \in T : Cardinality(T \cap 1..n) = k]
  BY DEF Ascending, CountUpto
<1> HIDE DEF at, T, N
<1>4. ASSUME NEW k \in 1..N PROVE at[k] \in T /\ CountUpto(S, at[k]) = k
  <2>1. \E n \in T : Cardinality(T \cap 1..n) = k BY <1>1, <1>2
  <2>2. at[k] = CHOOSE n \in T : Cardinality(T \cap 1..n) = k BY <1>3
  <2>3. at[k] \in T /\ Cardinality(T \cap 1..at[k]) = k BY <2>1, <2>2
  <2> QED BY <1>2, <2>3
<1>5. at \in [1..N -> T] BY <1>3, <1>4
<1>6. at \in Seq(T) /\ Len(at) = N BY <1>1, <1>5
<1> QED BY <1>4, <1>6 DEF at, T, N

(* A sequence that holds what S holds.                                     *)
Enumerates(s, S) == s \in Seq(S) /\ \A a \in S : \E k \in 1..Len(s) : s[k] = a

(* Appending lists one value more.                                         *)
LEMMA EnumeratesAppend ==
  ASSUME NEW S, NEW s, Enumerates(s, S), NEW v
  PROVE  Enumerates(Append(s, v), S \cup {v})
<1>1. s \in Seq(S \cup {v})
  BY DEF Enumerates
<1>2. /\ Append(s, v) \in Seq(S \cup {v}) /\ Len(Append(s, v)) = Len(s) + 1
      /\ \A k \in 1..Len(s) : Append(s, v)[k] = s[k]
      /\ Append(s, v)[Len(s) + 1] = v
  BY <1>1, AppendProperties
<1>3. Len(s) \in Nat BY <1>1, LenProperties
<1>4. ASSUME NEW a \in S \cup {v} PROVE \E k \in 1..(Len(s) + 1) : Append(s, v)[k] = a
  <2>1. CASE a = v
    <3>1. Len(s) + 1 \in 1..(Len(s) + 1) BY <1>3
    <3> QED BY <3>1, <2>1, <1>2
  <2>2. CASE a \in S
    <3>1. PICK k \in 1..Len(s) : s[k] = a BY <2>2 DEF Enumerates
    <3>2. k \in 1..(Len(s) + 1) BY <1>3
    <3> QED BY <3>1, <3>2, <1>2
  <2> QED BY <2>1, <2>2
<1> QED BY <1>2, <1>4 DEF Enumerates

(* The values of a list are those it lists.                                *)
LEMMA EnumeratesSet ==
  ASSUME NEW S, NEW s, Enumerates(s, S)
  PROVE  ToSet(s) = S /\ s \in Seq(S)
<1>1. s \in Seq(S) /\ DOMAIN s = 1..Len(s) BY LenProperties DEF Enumerates
<1>2. \A k \in 1..Len(s) : s[k] \in S BY <1>1, ElementOfSeq
<1> QED BY <1>1, <1>2 DEF ToSet, Enumerates

(* What a list contains is what it lists.                                  *)
LEMMA EnumeratesContain ==
  ASSUME NEW S, NEW s, Enumerates(s, S)
  PROVE  \A v : Contains(s, v) <=> v \in S
<1>1. \A k \in 1..Len(s) : s[k] \in S BY ElementOfSeq DEF Enumerates
<1> QED BY <1>1 DEF Contains, Enumerates

(* Ascending lists the numbers in S up to last.                            *)
LEMMA AscendingLists ==
  ASSUME NEW last \in Nat, NEW S
  PROVE  Enumerates(Ascending(S, last), S \cap 1..last)
<1> DEFINE at == Ascending(S, last)
<1>1. /\ at \in Seq(S \cap 1..last) /\ Len(at) = CountUpto(S, last)
      /\ \A k \in 1..CountUpto(S, last) : at[k] \in S \cap 1..last /\ CountUpto(S, at[k]) = k
  BY AscendingAt
<1> HIDE DEF at
<1>2. ASSUME NEW n \in S \cap 1..last PROVE \E k \in 1..Len(at) : at[k] = n
  <2> DEFINE k == CountUpto(S, n)
  <2>1. k \in 1..CountUpto(S, last) BY CountPlaces
  <2>2. at[k] \in S \cap 1..last /\ CountUpto(S, at[k]) = k BY <1>1, <2>1
  <2>3. ~ (at[k] < n) /\ ~ (n < at[k])
    <3>1. k \in Nat BY <2>1
    <3>2. at[k] < n => CountUpto(S, at[k]) < k BY <2>2, CountGrows
    <3>3. n < at[k] => k < CountUpto(S, at[k]) BY <2>2, CountGrows
    <3> HIDE DEF k
    <3> QED BY <2>2, <3>1, <3>2, <3>3
  <2>4. at[k] = n
    <3> HIDE DEF k
    <3> QED BY <2>2, <2>3
  <2> QED BY <1>1, <2>1, <2>4
<1> QED BY <1>1, <1>2 DEF Enumerates, at

-----------------------------------------------------------------------------
(* The numbers of the values.                                              *)

(* A sequence of some numbers is one of more.                              *)
LEMMA SeqWider ==
  ASSUME NEW S, NEW T, NEW s \in Seq(S \cap T)
  PROVE  s \in Seq(T)
  OBVIOUS

(* The numbers ascend.                                                     *)
LEMMA AscendingOrder ==
  ASSUME NEW last \in Nat, NEW S
  PROVE  \A j, k \in 1..Len(Ascending(S, last)) :
           j < k => Ascending(S, last)[j] < Ascending(S, last)[k]
<1> DEFINE at == Ascending(S, last)
<1>1. /\ Len(at) = CountUpto(S, last)
      /\ \A k \in 1..CountUpto(S, last) : at[k] \in S \cap 1..last /\ CountUpto(S, at[k]) = k
  BY AscendingAt
<1> HIDE DEF at
<1>2. ASSUME NEW j \in 1..Len(at), NEW k \in 1..Len(at), j < k PROVE at[j] < at[k]
  <2>1. /\ at[j] \in S \cap 1..last /\ CountUpto(S, at[j]) = j
        /\ at[k] \in S \cap 1..last /\ CountUpto(S, at[k]) = k
    BY <1>1
  <2>2. at[j] # at[k] BY <1>2, <2>1
  <2>3. ~ (at[k] < at[j])
    <3>1. at[k] < at[j] => CountUpto(S, at[k]) < CountUpto(S, at[j]) BY <2>1, CountGrows
    <3>2. j \in Int /\ k \in Int OBVIOUS
    <3> QED BY <1>2, <2>1, <3>1, <3>2
  <2> QED BY <2>1, <2>2, <2>3
<1> QED BY <1>2 DEF at

(* The elements of t stand in s in this order, at places in S.             *)
InOrder(s, S, t) ==
  \A k, h \in 1..Len(t) :
    k < h => \E i, j \in S \cap 1..Len(s) : i < j /\ t[k] = s[i] /\ t[h] = s[j]

(* Selected has the elements at the places in S, in the order in which     *)
(* they come in s.                                                         *)
LEMMA SelectedElements ==
  ASSUME NEW V, NEW s \in Seq(V), NEW S
  PROVE  /\ Selected(s, S) \in Seq(V)
         /\ \A j \in S \cap 1..Len(s) : \E k \in 1..Len(Selected(s, S)) : Selected(s, S)[k] = s[j]
         /\ \A k \in 1..Len(Selected(s, S)) :
              \E j \in S \cap 1..Len(s) : Selected(s, S)[k] = s[j]
         /\ InOrder(s, S, Selected(s, S))
<1> DEFINE P == S \cap 1..Len(s)
           at == Ascending(S, Len(s))
           n == Len(at)
           t == [k \in DOMAIN at |-> s[at[k]]]
<1>1. Len(s) \in Nat /\ DOMAIN s = 1..Len(s) /\ \A j \in 1..Len(s) : s[j] \in V
  BY LenProperties, ElementOfSeq
<1>2. Enumerates(at, P) /\ \A j, k \in 1..n : j < k => at[j] < at[k]
  <2> HIDE DEF P
  <2> QED BY <1>1, AscendingLists, AscendingOrder DEF P
<1>3. at \in Seq(P) /\ \A j \in P : \E k \in 1..n : at[k] = j
  <2> HIDE DEF at, P
  <2> QED BY <1>2 DEF Enumerates, n
<1>4. DOMAIN at = 1..n /\ n \in Nat /\ \A k \in 1..n : at[k] \in P
  <2> HIDE DEF at, P
  <2> QED BY <1>3, LenProperties, ElementOfSeq DEF n
<1> HIDE DEF at, n
<1>5. t \in [1..n -> V] BY <1>1, <1>4
<1>6. t \in Seq(V) /\ Len(t) = n
  <2> HIDE DEF t
  <2> QED BY <1>4, <1>5, FunctionSeq
<1>7. \A k \in 1..n : t[k] = s[at[k]] BY <1>4
<1>8. Selected(s, S) = t BY DEF Selected, at
<1>9. \A j \in P : \E k \in 1..n : t[k] = s[j]
  <2> HIDE DEF t, P
  <2> QED BY <1>3, <1>7
<1>10. \A k \in 1..n : \E j \in P : t[k] = s[j]
  <2> HIDE DEF t, P
  <2> QED BY <1>4, <1>7
<1>11. ASSUME NEW k \in 1..n, NEW h \in 1..n, k < h
       PROVE  \E i, j \in P : i < j /\ t[k] = s[i] /\ t[h] = s[j]
  <2>1. at[k] \in P /\ at[h] \in P /\ at[k] < at[h]
    <3> HIDE DEF P
    <3> QED BY <1>2, <1>4, <1>11
  <2> HIDE DEF t, P
  <2> QED BY <1>7, <2>1
<1> DEFINE u == Selected(s, S)
<1>12. u = t /\ Len(u) = n
  <2> HIDE DEF t
  <2> QED BY <1>6, <1>8
<1> HIDE DEF t, u
<1>13. /\ u \in Seq(V)
       /\ \A j \in P : \E k \in 1..Len(u) : u[k] = s[j]
       /\ \A k \in 1..Len(u) : \E j \in P : u[k] = s[j]
  BY <1>6, <1>9, <1>10, <1>12
<1>14. \A k, h \in 1..Len(u) : k < h => \E i, j \in P : i < j /\ u[k] = s[i] /\ u[h] = s[j]
  BY <1>11, <1>12
<1>15. InOrder(s, S, u) BY <1>14 DEF InOrder
<1> QED BY <1>13, <1>15 DEF u

=============================================================================
