------------------------- MODULE SparseMatrixProofs -------------------------
(***************************************************************************)
(* What is proved of the compressed rows: every operation leaves the       *)
(* matrix canonical (CanonicalAlways), seen through get it does to every   *)
(* entry what the operation of a matrix does (ImplementsAlways), and       *)
(* csr_diagonal finds what is on the diagonal (DiagonalAlways). Canonical  *)
(* is inductive as it stands; that every operation keeps it rests on       *)
(* lemmas about what each of them builds: Pack lays the rows out one       *)
(* behind the other, the binary searches find what is in a row or where it *)
(* belongs, merging two rows gives the row of the results.                 *)
(***************************************************************************)
EXTENDS SparseMatrix, SequenceLemmas

(* An entry of a row: a column and its value.                              *)
Entry(col) == [col : 1..col, val : Value]

(* The columns of a row ascend.                                            *)
AscendingLine(line) == \A k \in 1..(Len(line) - 1) : line[k].col < line[k + 1].col

(* What the rows of a canonical matrix are.                                *)
Rows(row, col) ==
  {lines \in [1..row -> Seq(Entry(col))] : \A i \in 1..row : AscendingLine(lines[i])}

(* P has the lines one behind the other, p says where each starts.         *)
Packed(P, row, col, lines) ==
  /\ P \in Matrices /\ P.row = row /\ P.col = col
  /\ Len(P.p) = row + 1
  /\ \A i \in 1..(row + 1) : P.p[i] = Before(lines, i - 1)
  /\ Len(P.j) = Before(lines, row) /\ Len(P.x) = Before(lines, row)
  /\ \A k \in 1..Before(lines, row) :
       /\ P.j[k] = FlattenSeq(lines)[k].col /\ P.j[k] \in 1..col
       /\ P.x[k] = FlattenSeq(lines)[k].val

(* That is what Pack makes of them.                                        *)
LEMMA PackParts ==
  ASSUME NEW row \in Nat \ {0}, NEW col \in Nat \ {0}, NEW lines \in [1..row -> Seq(Entry(col))],
         NEW P, P = Pack(row, col, lines)
  PROVE  Packed(P, row, col, lines)
<1> DEFINE all == FlattenSeq(lines)
           p == [i \in 1..(row + 1) |-> Before(lines, i - 1)]
           j == [k \in DOMAIN all |-> all[k].col]
           x == [k \in DOMAIN all |-> all[k].val]
<1>1. P = [row |-> row, col |-> col, p |-> p, j |-> j, x |-> x]
  BY DEF Pack, Before
<1>2. all \in Seq(Entry(col)) /\ Len(all) = Before(lines, row)
  <2>1. Layout(Entry(col), row, lines) BY FlattenLayout
  <2> QED BY <2>1 DEF Layout
<1>3. p \in Seq(Nat) /\ Len(p) = row + 1
  <2>1. \A i \in 1..(row + 1) : Before(lines, i - 1) \in Nat
    <3> TAKE i \in 1..(row + 1)
    <3>1. i - 1 \in 0..row OBVIOUS
    <3> QED BY <3>1, BeforeStep
  <2>2. p \in [1..(row + 1) -> Nat] BY <2>1
  <2> QED BY <2>2
<1> HIDE DEF all
<1>4. DOMAIN all = 1..Len(all) /\ Len(all) \in Nat /\ \A k \in 1..Len(all) : all[k] \in Entry(col)
  BY <1>2
<1>5. \A k \in 1..Len(all) : all[k].col \in 1..col /\ all[k].val \in Value
  BY <1>4 DEF Entry
<1>6. j \in [1..Len(all) -> Nat] /\ x \in [1..Len(all) -> Value]
  BY <1>4, <1>5
<1>7. j \in Seq(Nat) /\ Len(j) = Len(all) /\ x \in Seq(Value) /\ Len(x) = Len(all)
  BY <1>4, <1>6
<1>8. P \in Matrices BY <1>1, <1>3, <1>7 DEF Matrices
<1>9. \A k \in 1..Len(all) : j[k] = all[k].col /\ x[k] = all[k].val
  BY <1>4
<1>10. \A i \in 1..(row + 1) : p[i] = Before(lines, i - 1)
  OBVIOUS
<1> HIDE DEF p, j, x
<1> QED BY <1>1, <1>2, <1>3, <1>5, <1>7, <1>8, <1>9, <1>10 DEF all, Packed

(* Rows that ascend are packed into a canonical matrix, and are what Line  *)
(* gives back.                                                             *)
LEMMA PackLines ==
  ASSUME NEW row \in Nat \ {0}, NEW col \in Nat \ {0}, NEW lines \in Rows(row, col),
         NEW P, P = Pack(row, col, lines)
  PROVE  /\ IsCanonical(P) /\ P.row = row /\ P.col = col
         /\ \A i \in 1..row : Line(P, i) = lines[i]
<1>1. lines \in [1..row -> Seq(Entry(col))] /\ \A i \in 1..row : AscendingLine(lines[i])
  BY DEF Rows
<1> DEFINE at(i) == Before(lines, i)
           all == FlattenSeq(lines)
<1>2. /\ P \in Matrices /\ P.row = row /\ P.col = col
      /\ Len(P.p) = row + 1
      /\ \A i \in 1..(row + 1) : P.p[i] = at(i - 1)
      /\ Len(P.j) = at(row) /\ Len(P.x) = at(row)
      /\ \A k \in 1..at(row) : /\ P.j[k] = all[k].col /\ P.j[k] \in 1..col
                               /\ P.x[k] = all[k].val
  <2>1. Packed(P, row, col, lines) BY <1>1, PackParts
  <2> QED BY <2>1 DEF Packed
<1>3. /\ at(0) = 0
      /\ \A i \in 0..row : at(i) \in Nat
      /\ \A i \in 1..row : at(i) = at(i - 1) + Len(lines[i])
  BY <1>1, BeforeStep
<1>4. \A i \in 1..row : \A k \in 1..Len(lines[i]) : all[at(i - 1) + k] = lines[i][k]
  <2>1. Layout(Entry(col), row, lines) BY <1>1, FlattenLayout
  <2> QED BY <2>1 DEF Layout
<1>5. ASSUME NEW i \in 1..row
      PROVE  /\ P.p[i] = at(i - 1) /\ P.p[i + 1] = at(i)
             /\ at(i - 1) \in Nat /\ at(i) \in Nat /\ Len(lines[i]) \in Nat
             /\ at(i) = at(i - 1) + Len(lines[i])
             /\ at(i) <= at(row) /\ at(row) \in Nat
  <2>1. i \in 1..(row + 1) /\ i + 1 \in 1..(row + 1) /\ (i + 1) - 1 = i
        /\ i \in 0..row /\ i - 1 \in 0..row /\ row \in i..row /\ row \in 0..row
    OBVIOUS
  <2>2. P.p[i] = at(i - 1) /\ P.p[i + 1] = at((i + 1) - 1) BY <1>2, <2>1
  <2>3. P.p[i + 1] = at(i) BY <2>1, <2>2
  <2>4. at(i - 1) \in Nat /\ at(i) \in Nat /\ at(row) \in Nat BY <1>3, <2>1
  <2>5. lines[i] \in Seq(Entry(col)) BY <1>1
  <2>6. Len(lines[i]) \in Nat BY <2>5
  <2>7. at(i) <= at(row) BY <1>1, <2>1, BeforeMonotone
  <2> QED BY <1>3, <2>2, <2>3, <2>4, <2>6, <2>7
<1>6. ASSUME NEW i \in 1..row, NEW k \in 1..Len(lines[i])
      PROVE  /\ at(i - 1) + k \in 1..at(row)
             /\ P.j[at(i - 1) + k] = lines[i][k].col /\ P.x[at(i - 1) + k] = lines[i][k].val
  <2>1. at(i - 1) \in Nat /\ Len(lines[i]) \in Nat /\ at(i - 1) + Len(lines[i]) <= at(row)
        /\ at(row) \in Nat
    BY <1>5
  <2>2. at(i - 1) + k \in 1..at(row) BY <2>1
  <2>3. all[at(i - 1) + k] = lines[i][k] BY <1>4
  <2> QED BY <1>2, <2>2, <2>3
<1>7. ASSUME NEW i \in 1..row PROVE Line(P, i) = lines[i]
  <2>1. P.p[i + 1] - P.p[i] = Len(lines[i])
    <3>1. /\ P.p[i] = at(i - 1) /\ P.p[i + 1] = at(i) /\ at(i) = at(i - 1) + Len(lines[i])
          /\ at(i - 1) \in Nat /\ Len(lines[i]) \in Nat
      BY <1>5
    <3>2. P.p[i + 1] = P.p[i] + Len(lines[i]) BY <3>1, Zenon
    <3>3. P.p[i] \in Nat BY <3>1, Zenon
    <3> HIDE DEF at
    <3> QED BY <3>1, <3>2, <3>3
  <2>2. lines[i] \in Seq(Entry(col)) BY <1>1
  <2>3. \A k \in 1..Len(lines[i]) : lines[i][k] \in Entry(col) BY <2>2
  <2>4. \A k \in 1..Len(lines[i]) : lines[i][k] = [col |-> lines[i][k].col, val |-> lines[i][k].val]
    BY <2>3 DEF Entry
  <2>5. lines[i] = [k \in 1..Len(lines[i]) |-> lines[i][k]] BY <2>2
  <2>6. \A k \in 1..Len(lines[i]) :
          [col |-> P.j[P.p[i] + k], val |-> P.x[P.p[i] + k]] = lines[i][k]
    <3> TAKE k \in 1..Len(lines[i])
    <3>1. P.p[i] = at(i - 1) BY <1>5
    <3>2. P.j[P.p[i] + k] = lines[i][k].col /\ P.x[P.p[i] + k] = lines[i][k].val
      BY <1>6, <3>1
    <3> QED BY <2>4, <3>2
  <2>7. Line(P, i) = [k \in 1..Len(lines[i]) |->
                        [col |-> P.j[P.p[i] + k], val |-> P.x[P.p[i] + k]]]
    BY <2>1 DEF Line
  <2> QED BY <2>5, <2>6, <2>7, Zenon
<1>8. ASSUME NEW i \in 1..row
      PROVE  /\ P.p[i] <= P.p[i + 1]
             /\ \A k \in (P.p[i] + 1)..(P.p[i + 1] - 1) : P.j[k] < P.j[k + 1]
  <2>0. /\ P.p[i] = at(i - 1) /\ P.p[i + 1] = at(i)
        /\ at(i - 1) \in Nat /\ at(i) \in Nat /\ Len(lines[i]) \in Nat
        /\ at(i) = at(i - 1) + Len(lines[i])
    BY <1>5
  <2>1. P.p[i] <= P.p[i + 1] BY <2>0
  <2> SUFFICES ASSUME NEW k \in (P.p[i] + 1)..(P.p[i + 1] - 1) PROVE P.j[k] < P.j[k + 1]
    BY <2>1
  <2> DEFINE q == k - at(i - 1)
  <2>11. k \in Int /\ at(i - 1) + 1 <= k /\ k <= at(i - 1) + Len(lines[i]) - 1 BY <2>0
  <2>12. at(i - 1) \in Nat /\ Len(lines[i]) \in Nat BY <2>0
  <2>13. q \in Int /\ 1 <= q /\ q <= Len(lines[i]) - 1 /\ at(i - 1) + q = k
    BY <2>11, <2>12, SMTT(40)
  <2>14. at(i - 1) + (q + 1) = k + 1 BY <2>11, <2>12
  <2>2. /\ q \in 1..(Len(lines[i]) - 1) /\ q \in 1..Len(lines[i]) /\ q + 1 \in 1..Len(lines[i])
        /\ at(i - 1) + q = k /\ at(i - 1) + (q + 1) = k + 1
    <3> HIDE DEF q
    <3>1. q \in 1..(Len(lines[i]) - 1) BY <2>12, <2>13
    <3>2. q \in 1..Len(lines[i]) /\ q + 1 \in 1..Len(lines[i]) BY <2>12, <2>13
    <3> QED BY <2>13, <2>14, <3>1, <3>2
  <2>3. P.j[k] = lines[i][q].col
    <3> HIDE DEF q
    <3>1. P.j[at(i - 1) + q] = lines[i][q].col BY <1>6, <2>2
    <3> QED BY <3>1, <2>2
  <2>4. P.j[k + 1] = lines[i][q + 1].col
    <3> HIDE DEF q
    <3>1. P.j[at(i - 1) + (q + 1)] = lines[i][q + 1].col BY <1>6, <2>2
    <3> QED BY <3>1, <2>2
  <2>5. lines[i][q].col < lines[i][q + 1].col
    <3> HIDE DEF q
    <3> QED BY <1>1, <2>2 DEF AscendingLine
  <2> QED BY <2>3, <2>4, <2>5
<1>9. P.p[1] = 0 /\ P.p[row + 1] = at(row)
  <2>1. 1 \in 1..(row + 1) /\ row + 1 \in 1..(row + 1) /\ (row + 1) - 1 = row /\ 1 - 1 = 0 OBVIOUS
  <2>2. P.p[1] = at(1 - 1) /\ P.p[row + 1] = at((row + 1) - 1) BY <1>2, <2>1
  <2> QED BY <1>3, <2>1, <2>2
<1>10. \A k \in DOMAIN P.j : P.j[k] \in 1..P.col
  <2>1. P.j \in Seq(Nat) BY <1>2 DEF Matrices
  <2>2. DOMAIN P.j = 1..at(row) BY <1>2, <2>1
  <2> QED BY <1>2, <2>2
<1> QED BY <1>2, <1>7, <1>8, <1>9, <1>10 DEF IsCanonical

(* Columns that ascend from one entry to the next ascend over any distance.*)
LEMMA AscendingFar ==
  ASSUME NEW line, NEW n \in Nat, Len(line) = n, \A k \in 1..n : line[k].col \in Int,
         AscendingLine(line), NEW k \in 1..n, NEW l \in 1..n, k < l
  PROVE  line[k].col < line[l].col
<1> DEFINE S == {d \in Nat : k + 1 + d <= n => line[k].col < line[k + 1 + d].col}
<1>1. 0 \in S
  <2> SUFFICES ASSUME k + 1 <= n PROVE line[k].col < line[k + 1].col
    OBVIOUS
  <2>1. k \in 1..(n - 1) OBVIOUS
  <2> QED BY <2>1 DEF AscendingLine
<1>2. ASSUME NEW d \in Nat, d \in S PROVE d + 1 \in S
  <2> SUFFICES ASSUME k + 1 + (d + 1) <= n PROVE line[k].col < line[k + 1 + (d + 1)].col
    OBVIOUS
  <2> DEFINE q == k + 1 + d
  <2>1. q \in 1..(n - 1) /\ q \in 1..n /\ q + 1 \in 1..n /\ k + 1 + (d + 1) = q + 1 OBVIOUS
  <2>2. line[k].col < line[q].col BY <1>2, <2>1
  <2> HIDE DEF q
  <2>3. line[q].col < line[q + 1].col BY <2>1 DEF AscendingLine
  <2>4. line[k].col \in Int /\ line[q].col \in Int /\ line[q + 1].col \in Int BY <2>1
  <2>5. line[k].col < line[q + 1].col BY <2>2, <2>3, <2>4
  <2> QED BY <2>1, <2>5
<1>3. Nat \subseteq S
  <2> HIDE DEF S
  <2> QED BY <1>1, <1>2, NatSetInduction
<1>4. l - k - 1 \in Nat /\ k + 1 + (l - k - 1) = l /\ l <= n OBVIOUS
<1> QED BY <1>3, <1>4

(* The positions of a row are among those of the matrix.                   *)
LEMMA RowsInside ==
  ASSUME NEW A, IsCanonical(A), NEW i \in 1..A.row
  PROVE  /\ A.row \in Nat /\ A.p[i] \in Nat /\ A.p[i + 1] \in Nat
         /\ A.p[i] <= A.p[i + 1] /\ A.p[i + 1] <= Len(A.j)
         /\ Len(A.j) \in Nat /\ Len(A.x) = Len(A.j)
<1>1. /\ A.row \in Nat /\ A.p \in Seq(Nat) /\ A.j \in Seq(Nat)
      /\ Len(A.p) = A.row + 1 /\ Len(A.j) = A.p[A.row + 1] /\ Len(A.x) = A.p[A.row + 1]
      /\ \A h \in 1..A.row : A.p[h] <= A.p[h + 1]
  BY DEF IsCanonical, Matrices
<1>2. \A h \in 1..(A.row + 1) : A.p[h] \in Nat
  <2>1. A.p \in [1..(A.row + 1) -> Nat] BY <1>1, LenProperties
  <2> QED BY <2>1
<1> DEFINE S == {d \in Nat : i + 1 + d <= A.row + 1 => A.p[i + 1] <= A.p[i + 1 + d]}
<1>3. 0 \in S
  <2>1. i + 1 \in 1..(A.row + 1) /\ i + 1 + 0 = i + 1 BY <1>1
  <2>2. A.p[i + 1] \in Nat BY <1>2, <2>1
  <2> QED BY <2>1, <2>2
<1>4. ASSUME NEW d \in Nat, d \in S PROVE d + 1 \in S
  <2> SUFFICES ASSUME i + 1 + (d + 1) <= A.row + 1 PROVE A.p[i + 1] <= A.p[i + 1 + (d + 1)]
    OBVIOUS
  <2> DEFINE q == i + 1 + d
  <2>1. /\ q \in 1..A.row /\ q \in 1..(A.row + 1) /\ q + 1 \in 1..(A.row + 1)
        /\ i + 1 \in 1..(A.row + 1) /\ i + 1 + (d + 1) = q + 1
    <3>1. i \in Int /\ d \in Int /\ A.row \in Int /\ 1 <= i /\ i <= A.row /\ 0 <= d
          /\ i + 1 + (d + 1) <= A.row + 1
      BY <1>1
    <3>2. q \in 1..A.row BY <3>1
    <3>3. q \in 1..(A.row + 1) /\ q + 1 \in 1..(A.row + 1) BY <3>1
    <3>4. i + 1 \in 1..(A.row + 1) /\ i + 1 + (d + 1) = q + 1 BY <3>1
    <3> QED BY <3>2, <3>3, <3>4
  <2>2. A.p[i + 1] <= A.p[q] BY <1>1, <1>4, <2>1
  <2> HIDE DEF q
  <2>3. A.p[q] <= A.p[q + 1] BY <1>1, <2>1
  <2>4. A.p[i + 1] \in Nat /\ A.p[q] \in Nat /\ A.p[q + 1] \in Nat BY <1>2, <2>1
  <2>5. A.p[i + 1] <= A.p[q + 1] BY <2>2, <2>3, <2>4
  <2> QED BY <2>1, <2>5
<1>5. Nat \subseteq S
  <2> HIDE DEF S
  <2> QED BY <1>3, <1>4, NatSetInduction
<1>6. /\ A.row - i \in Nat /\ i + 1 + (A.row - i) = A.row + 1
      /\ i + 1 + (A.row - i) <= A.row + 1
  <2>1. A.row \in Nat BY <1>1
  <2> QED BY <2>1
<1>7. A.p[i + 1] <= A.p[A.row + 1]
  <2>1. A.row - i \in S BY <1>5, <1>6
  <2> QED BY <1>6, <2>1
<1>8. /\ i \in 1..(A.row + 1) /\ i + 1 \in 1..(A.row + 1)
      /\ A.row + 1 \in 1..(A.row + 1)
  BY <1>1, SMTT(40)
<1>9. A.p[i] \in Nat /\ A.p[i + 1] \in Nat /\ A.p[A.row + 1] \in Nat BY <1>2, <1>8
<1>10. A.p[i + 1] <= Len(A.j) /\ Len(A.j) \in Nat BY <1>1, <1>7, <1>9
<1> QED BY <1>1, <1>9, <1>10

(* A row of a canonical matrix ascends.                                    *)
LEMMA LineOf ==
  ASSUME NEW A, IsCanonical(A), NEW i \in 1..A.row
  PROVE  /\ Line(A, i) \in Seq(Entry(A.col)) /\ AscendingLine(Line(A, i))
         /\ Len(Line(A, i)) = A.p[i + 1] - A.p[i]
         /\ \A k \in 1..(A.p[i + 1] - A.p[i]) :
              /\ Line(A, i)[k] = [col |-> A.j[A.p[i] + k], val |-> A.x[A.p[i] + k]]
              /\ A.j[A.p[i] + k] \in 1..A.col /\ A.x[A.p[i] + k] \in Value
<1>1. /\ A.p[i] \in Nat /\ A.p[i + 1] \in Nat /\ A.p[i] <= A.p[i + 1] /\ A.p[i + 1] <= Len(A.j)
      /\ Len(A.j) \in Nat /\ Len(A.x) = Len(A.j)
  BY RowsInside
<1>2. /\ A.j \in Seq(Nat) /\ A.x \in Seq(Value) /\ A.col \in Nat
      /\ \A k \in DOMAIN A.j : A.j[k] \in 1..A.col
      /\ \A k \in (A.p[i] + 1)..(A.p[i + 1] - 1) : A.j[k] < A.j[k + 1]
  BY DEF IsCanonical, Matrices
<1> DEFINE n == A.p[i + 1] - A.p[i]
<1>3. n \in Nat BY <1>1
<1>4. ASSUME NEW k \in 1..n
      PROVE  A.j[A.p[i] + k] \in 1..A.col /\ A.x[A.p[i] + k] \in Value
  <2>1. A.p[i] + k \in 1..Len(A.j) BY <1>1, SMTT(40)
  <2>2. DOMAIN A.j = 1..Len(A.j) BY <1>2
  <2>3. A.x[A.p[i] + k] \in Value BY <1>1, <1>2, <2>1, ElementOfSeq
  <2> QED BY <1>2, <2>1, <2>2, <2>3
<1>5. Line(A, i) = [k \in 1..n |-> [col |-> A.j[A.p[i] + k], val |-> A.x[A.p[i] + k]]]
  BY DEF Line
<1>6. \A k \in 1..n : [col |-> A.j[A.p[i] + k], val |-> A.x[A.p[i] + k]] \in Entry(A.col)
  BY <1>4 DEF Entry
<1>7. Line(A, i) \in [1..n -> Entry(A.col)]
  <2> HIDE DEF n
  <2> QED BY <1>5, <1>6
<1>8. Line(A, i) \in Seq(Entry(A.col)) /\ Len(Line(A, i)) = n
  <2> HIDE DEF n
  <2> QED BY <1>3, <1>7
<1>9. \A k \in 1..n : Line(A, i)[k] = [col |-> A.j[A.p[i] + k], val |-> A.x[A.p[i] + k]]
  <2> HIDE DEF n
  <2> QED BY <1>5
<1>10. AscendingLine(Line(A, i))
  <2> SUFFICES ASSUME NEW k \in 1..(n - 1)
               PROVE  Line(A, i)[k].col < Line(A, i)[k + 1].col
    BY <1>8 DEF AscendingLine
  <2>1. k \in 1..n /\ k + 1 \in 1..n BY <1>3
  <2>2. Line(A, i)[k].col = A.j[A.p[i] + k]
    <3>1. Line(A, i)[k] = [col |-> A.j[A.p[i] + k], val |-> A.x[A.p[i] + k]]
      BY <1>9, <2>1, Zenon
    <3> QED BY <3>1
  <2>3. Line(A, i)[k + 1].col = A.j[A.p[i] + (k + 1)]
    <3>1. Line(A, i)[k + 1] = [col |-> A.j[A.p[i] + (k + 1)], val |-> A.x[A.p[i] + (k + 1)]]
      BY <1>9, <2>1, Zenon
    <3> QED BY <3>1
  <2>4. A.p[i] + k \in (A.p[i] + 1)..(A.p[i + 1] - 1) /\ A.p[i] + (k + 1) = (A.p[i] + k) + 1
    <3>1. A.p[i] \in Int /\ A.p[i + 1] \in Int BY <1>1
    <3>2. k \in Int /\ 1 <= k /\ k <= n - 1 BY <1>3
    <3>3. k <= A.p[i + 1] - A.p[i] - 1 BY <3>1, <3>2
    <3>4. A.p[i] + k \in Int /\ A.p[i] + 1 <= A.p[i] + k /\ A.p[i] + k <= A.p[i + 1] - 1
      BY <3>1, <3>2, <3>3
    <3>5. A.p[i] + (k + 1) = (A.p[i] + k) + 1 BY <3>1, <3>2
    <3> QED BY <3>1, <3>4, <3>5
  <2>5. A.j[A.p[i] + k] < A.j[(A.p[i] + k) + 1] BY <1>2, <2>4
  <2> QED BY <2>2, <2>3, <2>4, <2>5
<1> QED BY <1>4, <1>8, <1>9, <1>10

(* The position a binary search looks at.                                  *)
Mid(s) == (s.first + s.end) \div 2

(* It is between the two, and so are the spans the search of get goes on   *)
(* with.                                                                   *)
LEMMA SpanParts ==
  ASSUME NEW A, Len(A.j) \in Nat, NEW s \in Span(A), s.first < s.end
  PROVE  /\ s.first \in 0..Len(A.j) /\ s.end \in 0..Len(A.j)
         /\ Mid(s) \in Nat /\ s.first <= Mid(s) /\ Mid(s) < s.end
         /\ Mid(s) + 1 \in 1..Len(A.j)
         /\ [first |-> Mid(s) + 1, end |-> s.end] \in Span(A)
         /\ [first |-> s.first, end |-> Mid(s)] \in Span(A)
<1>1. s.first \in 0..Len(A.j) /\ s.end \in 0..Len(A.j) BY DEF Span
<1>2. Mid(s) \in Nat /\ s.first <= Mid(s) /\ Mid(s) < s.end BY <1>1 DEF Mid
<1>3. Mid(s) + 1 \in 0..Len(A.j) /\ Mid(s) \in 0..Len(A.j) /\ Mid(s) + 1 \in 1..Len(A.j)
  BY <1>1, <1>2
<1> QED BY <1>1, <1>2, <1>3 DEF Span

(* What the search of get does at one span.                                *)
SearchStep(A, j, s, search) ==
  IF s.first >= s.end THEN Zero
  ELSE IF AtPos(A.j, Mid(s)) = j THEN AtPos(A.x, Mid(s))
  ELSE IF AtPos(A.j, Mid(s)) < j THEN search[[first |-> Mid(s) + 1, end |-> s.end]]
  ELSE search[[first |-> s.first, end |-> Mid(s)]]

(* The search of get does this at every span.                              *)
LEMMA SearchEquation ==
  ASSUME NEW A, NEW j, Len(A.j) \in Nat, A.x \in Seq(Value), Len(A.x) = Len(A.j)
  PROVE  \A s \in Span(A) : Search(A, j)[s] = SearchStep(A, j, s, Search(A, j))
<1> DEFINE D == Span(A)
           n == Len(A.j)
           rank == [s \in D |-> IF s.first < s.end THEN s.end - s.first ELSE 0]
           F == [s \in D |-> [h \in [D -> Value] |-> SearchStep(A, j, s, h)]]
           g == CHOOSE g : g = [s \in D |->
                  LET k == (s.first + s.end) \div 2
                  IN IF s.first >= s.end THEN Zero
                     ELSE IF AtPos(A.j, k) = j THEN AtPos(A.x, k)
                     ELSE IF AtPos(A.j, k) < j THEN g[[first |-> k + 1, end |-> s.end]]
                     ELSE g[[first |-> s.first, end |-> k]]]
<1>1. Value # {} /\ n \in Nat BY EntryAssumption
<1>2. rank \in [D -> 0..n] BY DEF Span
<1>3. F \in [D -> [[D -> Value] -> Value]]
  <2> SUFFICES ASSUME NEW s \in D, NEW h \in [D -> Value] PROVE SearchStep(A, j, s, h) \in Value
    OBVIOUS
  <2>1. CASE s.first >= s.end BY <2>1, EntryAssumption DEF SearchStep
  <2>2. CASE ~(s.first >= s.end)
    <3>1. s.first < s.end BY <2>2 DEF Span
    <3>2. /\ Mid(s) + 1 \in 1..Len(A.j)
          /\ [first |-> Mid(s) + 1, end |-> s.end] \in D
          /\ [first |-> s.first, end |-> Mid(s)] \in D
      BY <3>1, SpanParts
    <3>3. A.x[Mid(s) + 1] \in Value BY <3>2, ElementOfSeq
    <3>4. /\ h[[first |-> Mid(s) + 1, end |-> s.end]] \in Value
          /\ h[[first |-> s.first, end |-> Mid(s)]] \in Value
      BY <3>2
    <3> QED BY <2>2, <3>3, <3>4, Zenon DEF SearchStep, AtPos
  <2> QED BY <2>1, <2>2
<1>4. ByRank(D, Value, rank, F)
  <2> SUFFICES ASSUME NEW s \in D, NEW x \in [D -> Value], NEW y \in [D -> Value],
                      \A e \in D : rank[e] < rank[s] => x[e] = y[e]
               PROVE  F[s][x] = F[s][y]
    BY DEF ByRank
  <2> SUFFICES SearchStep(A, j, s, x) = SearchStep(A, j, s, y)
    OBVIOUS
  <2>1. CASE s.first >= s.end BY <2>1 DEF SearchStep
  <2>2. CASE ~(s.first >= s.end)
    <3> DEFINE right == [first |-> Mid(s) + 1, end |-> s.end]
               left == [first |-> s.first, end |-> Mid(s)]
    <3>1. s.first < s.end BY <2>2 DEF Span
    <3>2. /\ right \in D /\ left \in D /\ Mid(s) \in Nat /\ s.first <= Mid(s) /\ Mid(s) < s.end
          /\ s.first \in Nat /\ s.end \in Nat
      BY <3>1, SpanParts
    <3>3. rank[s] = s.end - s.first BY <3>1
    <3>4. rank[right] < rank[s] BY <3>2, <3>3
    <3>5. rank[left] < rank[s] BY <3>2, <3>3
    <3>6. x[right] = y[right] /\ x[left] = y[left]
      <4> HIDE DEF right, left, rank
      <4> QED BY <3>2, <3>4, <3>5
    <3> QED BY <2>2, <3>6, Zenon DEF SearchStep
  <2> QED BY <2>1, <2>2
<1>5. PICK x \in [D -> Value] : x = [s \in D |-> F[s][x]]
  <2> HIDE DEF D, rank, F, n
  <2>1. Recursive(D, Value, F) BY <1>1, <1>2, <1>3, <1>4, BoundedRecursion, Zenon
  <2> QED BY <2>1 DEF Recursive
<1>6. x = [s \in D |->
                  LET k == (s.first + s.end) \div 2
                  IN IF s.first >= s.end THEN Zero
                     ELSE IF AtPos(A.j, k) = j THEN AtPos(A.x, k)
                     ELSE IF AtPos(A.j, k) < j THEN x[[first |-> k + 1, end |-> s.end]]
                     ELSE x[[first |-> s.first, end |-> k]]]
  <2>1. \A s \in D : F[s][x] = SearchStep(A, j, s, x) OBVIOUS
  <2> HIDE DEF F, D
  <2>2. x = [s \in D |-> SearchStep(A, j, s, x)] BY <1>5, <2>1
  <2> QED BY <2>2, Zenon DEF SearchStep, Mid
<1>7. g = [s \in D |->
                  LET k == (s.first + s.end) \div 2
                  IN IF s.first >= s.end THEN Zero
                     ELSE IF AtPos(A.j, k) = j THEN AtPos(A.x, k)
                     ELSE IF AtPos(A.j, k) < j THEN g[[first |-> k + 1, end |-> s.end]]
                     ELSE g[[first |-> s.first, end |-> k]]]
  <2> HIDE DEF D
  <2> QED BY <1>6, Zenon
<1>8. Search(A, j) = g BY DEF Search
<1>9. \A s \in D : g[s] = SearchStep(A, j, s, g)
  <2> HIDE DEF g, D
  <2> QED BY <1>7, Zenon DEF SearchStep, Mid
<1> HIDE DEF g
<1> QED BY <1>8, <1>9

(* v is what is in column j between two positions, or zero if there is     *)
(* nothing.                                                                *)
Found(A, j, first, end, v) ==
  \/ \E k \in (first + 1)..end : A.j[k] = j /\ v = A.x[k]
  \/ v = Zero /\ \A k \in (first + 1)..end : A.j[k] # j

(* Between two positions the columns ascend.                               *)
Sorted(A, first, end) == \A k, l \in (first + 1)..end : k < l => A.j[k] < A.j[l]

(* Every position has a column and a value.                                *)
Columns(A) ==
  /\ Len(A.j) \in Nat /\ A.x \in Seq(Value) /\ Len(A.x) = Len(A.j)
  /\ \A k \in 1..Len(A.j) : A.j[k] \in Nat

(* Where the columns ascend, the search of get ends with what is in column *)
(* j.                                                                      *)
LEMMA SearchFinds ==
  ASSUME NEW A, Columns(A), NEW j \in Nat,
         NEW s \in Span(A), Sorted(A, s.first, s.end)
  PROVE  Found(A, j, s.first, s.end, Search(A, j)[s])
<1> DEFINE n == Len(A.j)
           Holds(r) == Sorted(A, r.first, r.end) =>
                         Found(A, j, r.first, r.end, Search(A, j)[r])
           S == {d \in Nat : \A r \in Span(A) : r.end - r.first <= d => Holds(r)}
<1>1. n \in Nat /\ \A k \in 1..n : A.j[k] \in Nat BY DEF Columns
<1>2. \A r \in Span(A) : Search(A, j)[r] = SearchStep(A, j, r, Search(A, j))
  BY SearchEquation DEF Columns
<1>3. ASSUME NEW r \in Span(A), r.first >= r.end PROVE Holds(r)
  <2>1. Search(A, j)[r] = Zero BY <1>2, <1>3, Zenon DEF SearchStep
  <2>2. \A k \in (r.first + 1)..r.end : FALSE BY <1>3 DEF Span
  <2> QED BY <2>1, <2>2 DEF Found
<1>4. 0 \in S
  <2>1. \A r \in Span(A) : r.end - r.first <= 0 => r.first >= r.end BY DEF Span
  <2> HIDE DEF Holds
  <2> QED BY <1>3, <2>1
<1>5. ASSUME NEW d \in Nat, d \in S PROVE d + 1 \in S
  <2> SUFFICES ASSUME NEW r \in Span(A), r.end - r.first <= d + 1, Sorted(A, r.first, r.end)
               PROVE  Found(A, j, r.first, r.end, Search(A, j)[r])
    OBVIOUS
  <2>1. CASE r.first >= r.end BY <1>3, <2>1
  <2>2. CASE ~(r.first >= r.end)
    <3> DEFINE k == Mid(r)
               right == [first |-> k + 1, end |-> r.end]
               left == [first |-> r.first, end |-> k]
    <3>1. r.first < r.end BY <2>2 DEF Span
    <3>2. /\ r.first \in 0..n /\ r.end \in 0..n
          /\ k \in Nat /\ r.first <= k /\ k < r.end /\ k + 1 \in 1..n
          /\ right \in Span(A) /\ left \in Span(A)
      BY <1>1, <3>1, SpanParts
    <3>3. A.j[k + 1] \in Nat BY <1>1, <3>2
    <3>4. k + 1 \in (r.first + 1)..r.end BY <3>2
    <3>5. CASE A.j[k + 1] = j
      <4>1. Search(A, j)[r] = A.x[k + 1] BY <1>2, <2>2, <3>5, Zenon DEF SearchStep, AtPos
      <4> QED BY <3>4, <3>5, <4>1 DEF Found
    <3>6. CASE A.j[k + 1] # j /\ A.j[k + 1] < j
      <4>1. Search(A, j)[r] = Search(A, j)[right]
        BY <1>2, <2>2, <3>6, Zenon DEF SearchStep, AtPos
      <4>2. right.end - right.first <= d BY <3>2
      <4>7. \A l \in (right.first + 1)..right.end : l \in (r.first + 1)..r.end BY <3>2
      <4>3. Sorted(A, right.first, right.end)
        <5> HIDE DEF right
        <5>1. Sorted(A, r.first, r.end) OBVIOUS
        <5> QED BY <4>7, <5>1, Zenon DEF Sorted
      <4>4. Found(A, j, right.first, right.end, Search(A, j)[right])
        <5> HIDE DEF right
        <5> QED BY <1>5, <3>2, <4>2, <4>3
      <4>5. \A l \in (r.first + 1)..(k + 1) : A.j[l] # j
        <5> TAKE l \in (r.first + 1)..(k + 1)
        <5>1. l \in (r.first + 1)..r.end /\ l \in 1..n BY <3>2, SMTT(40)
        <5>2. A.j[l] \in Nat BY <1>1, <5>1
        <5>3. l < k + 1 => A.j[l] < A.j[k + 1] BY <3>4, <5>1 DEF Sorted
        <5> QED BY <3>2, <3>3, <3>6, <5>2, <5>3, SMTT(40)
      <4>6. \A l \in (r.first + 1)..r.end :
              l \in (r.first + 1)..(k + 1) \/ l \in (right.first + 1)..right.end
        BY <3>2
      <4> HIDE DEF right
      <4> QED BY <4>1, <4>4, <4>5, <4>6, <4>7 DEF Found
    <3>7. CASE A.j[k + 1] # j /\ ~(A.j[k + 1] < j)
      <4>1. Search(A, j)[r] = Search(A, j)[left]
        BY <1>2, <2>2, <3>7, Zenon DEF SearchStep, AtPos
      <4>2. left.end - left.first <= d BY <3>2
      <4>7. \A l \in (left.first + 1)..left.end : l \in (r.first + 1)..r.end BY <3>2
      <4>3. Sorted(A, left.first, left.end)
        <5> HIDE DEF left
        <5>1. Sorted(A, r.first, r.end) OBVIOUS
        <5> QED BY <4>7, <5>1, Zenon DEF Sorted
      <4>4. Found(A, j, left.first, left.end, Search(A, j)[left])
        <5> HIDE DEF left
        <5> QED BY <1>5, <3>2, <4>2, <4>3
      <4>5. \A l \in (k + 1)..r.end : A.j[l] # j
        <5> TAKE l \in (k + 1)..r.end
        <5>1. l \in (r.first + 1)..r.end /\ l \in 1..n BY <3>2, SMTT(40)
        <5>2. A.j[l] \in Nat BY <1>1, <5>1
        <5>3. k + 1 < l => A.j[k + 1] < A.j[l] BY <3>4, <5>1 DEF Sorted
        <5> QED BY <3>2, <3>3, <3>7, <5>2, <5>3
      <4>6. \A l \in (r.first + 1)..r.end :
              l \in (k + 1)..r.end \/ l \in (left.first + 1)..left.end
        BY <3>2
      <4> HIDE DEF left
      <4> QED BY <4>1, <4>4, <4>5, <4>6, <4>7 DEF Found
    <3> QED BY <3>5, <3>6, <3>7
  <2> QED BY <2>1, <2>2
<1>6. Nat \subseteq S
  <2> HIDE DEF S
  <2> QED BY <1>4, <1>5, NatSetInduction
<1>7. n \in S BY <1>1, <1>6
<1>8. s.end - s.first <= n BY <1>1 DEF Span
<1>9. Holds(s)
  <2> HIDE DEF Holds
  <2> QED BY <1>7, <1>8
<1> QED BY <1>9

(* v is what a row has in column c, or zero if there is nothing.           *)
Has(line, c, v) ==
  \/ \E k \in 1..Len(line) : line[k].col = c /\ v = line[k].val
  \/ v = Zero /\ \A k \in 1..Len(line) : line[k].col # c

(* There is one such value in a row that ascends.                          *)
LEMMA HasUnique ==
  ASSUME NEW col \in Nat, NEW line \in Seq(Entry(col)), AscendingLine(line),
         NEW c, NEW v, NEW w, Has(line, c, v), Has(line, c, w)
  PROVE  v = w
<1>1. Len(line) \in Nat /\ \A k \in 1..Len(line) : line[k].col \in Int
  <2>1. \A k \in 1..Len(line) : line[k] \in Entry(col) OBVIOUS
  <2> QED BY <2>1 DEF Entry
<1>2. ASSUME NEW k \in 1..Len(line), NEW l \in 1..Len(line), line[k].col = line[l].col
      PROVE  k = l
  <2>1. ASSUME k < l PROVE FALSE
    <3>1. line[k].col < line[l].col BY <1>1, <2>1, AscendingFar
    <3> QED BY <1>1, <1>2, <3>1
  <2>2. ASSUME l < k PROVE FALSE
    <3>1. line[l].col < line[k].col BY <1>1, <2>2, AscendingFar
    <3> QED BY <1>1, <1>2, <3>1
  <2> QED BY <1>1, <2>1, <2>2
<1>3. CASE \E k \in 1..Len(line) : line[k].col = c
  <2>1. PICK k \in 1..Len(line) : line[k].col = c /\ v = line[k].val BY <1>3 DEF Has
  <2>2. PICK l \in 1..Len(line) : line[l].col = c /\ w = line[l].val BY <1>3 DEF Has
  <2>3. k = l BY <1>2, <2>1, <2>2
  <2> QED BY <2>1, <2>2, <2>3
<1>4. CASE ~ \E k \in 1..Len(line) : line[k].col = c
  BY <1>4 DEF Has
<1> QED BY <1>3, <1>4

(* In a canonical matrix every position has a column and a value.          *)
LEMMA CanonicalColumns ==
  ASSUME NEW A, IsCanonical(A)
  PROVE  Columns(A)
<1>1. A.j \in Seq(Nat) /\ A.x \in Seq(Value) /\ A.row \in Nat \ {0} BY DEF IsCanonical, Matrices
<1>2. Len(A.j) \in Nat /\ \A k \in 1..Len(A.j) : A.j[k] \in Nat BY <1>1, ElementOfSeq
<1>3. Len(A.x) = Len(A.j) BY DEF IsCanonical
<1> QED BY <1>1, <1>2, <1>3 DEF Columns

(* In each of its rows the columns ascend.                                 *)
LEMMA RowSorted ==
  ASSUME NEW A, IsCanonical(A), NEW i \in 1..A.row
  PROVE  Bounds(A, i) \in Span(A) /\ Sorted(A, A.p[i], A.p[i + 1])
<1>1. /\ A.p[i] \in Nat /\ A.p[i + 1] \in Nat /\ A.p[i] <= A.p[i + 1]
      /\ A.p[i + 1] <= Len(A.j) /\ Len(A.j) \in Nat
  BY RowsInside
<1>2. A.p[i] \in 0..Len(A.j) /\ A.p[i + 1] \in 0..Len(A.j) BY <1>1
<1>3. Bounds(A, i) \in Span(A) BY <1>2 DEF Bounds, Span
<1> DEFINE line == Line(A, i)
           n == A.p[i + 1] - A.p[i]
<1>4. /\ line \in Seq(Entry(A.col)) /\ AscendingLine(line) /\ Len(line) = n
      /\ \A k \in 1..n : /\ line[k] = [col |-> A.j[A.p[i] + k], val |-> A.x[A.p[i] + k]]
                         /\ A.j[A.p[i] + k] \in 1..A.col /\ A.x[A.p[i] + k] \in Value
  BY LineOf
<1>5. n \in Nat BY <1>1
<1> HIDE DEF line
<1>6. ASSUME NEW k \in (A.p[i] + 1)..A.p[i + 1], NEW l \in (A.p[i] + 1)..A.p[i + 1], k < l
      PROVE  A.j[k] < A.j[l]
  <2> DEFINE a == k - A.p[i]
             b == l - A.p[i]
  <2>1. a \in 1..n /\ b \in 1..n /\ a < b /\ A.p[i] + a = k /\ A.p[i] + b = l
    <3>1. A.p[i] \in Int /\ A.p[i + 1] \in Int BY <1>1
    <3>2. k \in Int /\ A.p[i] + 1 <= k /\ k <= A.p[i + 1] BY <3>1
    <3>3. l \in Int /\ A.p[i] + 1 <= l /\ l <= A.p[i + 1] BY <3>1
    <3>4. a \in Int /\ 1 <= a /\ a <= n /\ A.p[i] + a = k BY <3>1, <3>2
    <3>5. b \in Int /\ 1 <= b /\ b <= n /\ A.p[i] + b = l BY <3>1, <3>3
    <3>6. a < b BY <1>6, <3>1, <3>2, <3>3
    <3>7. n \in Int BY <3>1
    <3> HIDE DEF a, b, n
    <3> QED BY <3>4, <3>5, <3>6, <3>7
  <2> HIDE DEF a, b, n
  <2>2. line[a] = [col |-> A.j[A.p[i] + a], val |-> A.x[A.p[i] + a]]
        /\ line[b] = [col |-> A.j[A.p[i] + b], val |-> A.x[A.p[i] + b]]
    BY <1>4, <2>1, Zenon
  <2>3. line[a].col = A.j[k] /\ line[b].col = A.j[l] BY <2>1, <2>2
  <2>4. \A h \in 1..n : line[h].col \in Int
    <3>1. \A h \in 1..n : line[h] \in Entry(A.col) BY <1>4
    <3> QED BY <3>1 DEF Entry
  <2>5. line[a].col < line[b].col BY <1>4, <1>5, <2>1, <2>4, AscendingFar
  <2> QED BY <2>3, <2>5
<1>7. Sorted(A, A.p[i], A.p[i + 1]) BY <1>6 DEF Sorted
<1> QED BY <1>3, <1>7

(* get finds what is in column j of row i,                                 *)
LEMMA GetFinds ==
  ASSUME NEW A, IsCanonical(A), NEW i \in 1..A.row, NEW j \in Nat
  PROVE  Found(A, j, A.p[i], A.p[i + 1], Get(A, i, j))
<1>1. Columns(A) /\ Bounds(A, i) \in Span(A) /\ Sorted(A, A.p[i], A.p[i + 1])
  BY CanonicalColumns, RowSorted
<1>2. Bounds(A, i).first = A.p[i] /\ Bounds(A, i).end = A.p[i + 1] BY DEF Bounds
<1>3. Sorted(A, Bounds(A, i).first, Bounds(A, i).end) BY <1>1, <1>2
<1>4. Found(A, j, Bounds(A, i).first, Bounds(A, i).end, Search(A, j)[Bounds(A, i)])
  BY <1>1, <1>3, SearchFinds
<1> QED BY <1>2, <1>4 DEF Get

(* which is what the row has there.                                        *)
LEMMA GetLine ==
  ASSUME NEW A, IsCanonical(A), NEW i \in 1..A.row, NEW j \in Nat
  PROVE  Has(Line(A, i), j, Get(A, i, j)) /\ Get(A, i, j) \in Value
<1>1. Found(A, j, A.p[i], A.p[i + 1], Get(A, i, j)) BY GetFinds
<1>2. /\ A.p[i] \in Nat /\ A.p[i + 1] \in Nat /\ A.p[i] <= A.p[i + 1]
  BY RowsInside
<1> DEFINE line == Line(A, i)
           n == A.p[i + 1] - A.p[i]
           v == Get(A, i, j)
<1>3. /\ Len(line) = n
      /\ \A k \in 1..n : /\ line[k] = [col |-> A.j[A.p[i] + k], val |-> A.x[A.p[i] + k]]
                         /\ A.j[A.p[i] + k] \in 1..A.col /\ A.x[A.p[i] + k] \in Value
  BY LineOf
<1> HIDE DEF line, v
<1>4. ASSUME NEW k \in 1..n
      PROVE  line[k].col = A.j[A.p[i] + k] /\ line[k].val = A.x[A.p[i] + k]
  <2>1. line[k] = [col |-> A.j[A.p[i] + k], val |-> A.x[A.p[i] + k]] BY <1>3, Zenon
  <2> QED BY <2>1
<1>5. CASE \E k \in (A.p[i] + 1)..A.p[i + 1] : A.j[k] = j /\ v = A.x[k]
  <2>1. PICK k \in (A.p[i] + 1)..A.p[i + 1] : A.j[k] = j /\ v = A.x[k] BY <1>5
  <2> DEFINE a == k - A.p[i]
  <2>2. k \in Int /\ A.p[i] + 1 <= k /\ k <= A.p[i + 1] BY <1>2
  <2>3. a \in 1..n /\ A.p[i] + a = k BY <1>2, <2>2
  <2> HIDE DEF a
  <2>4. line[a].col = j /\ v = line[a].val /\ v \in Value BY <1>3, <1>4, <2>1, <2>3
  <2> QED BY <1>3, <2>3, <2>4 DEF Has, line, v
<1>6. CASE v = Zero /\ \A k \in (A.p[i] + 1)..A.p[i + 1] : A.j[k] # j
  <2>1. \A k \in 1..n : line[k].col # j
    <3> TAKE k \in 1..n
    <3>1. A.p[i] + k \in (A.p[i] + 1)..A.p[i + 1] BY <1>2
    <3>2. A.j[A.p[i] + k] # j BY <1>6, <3>1
    <3> QED BY <1>4, <3>2
  <2> QED BY <1>3, <1>6, <2>1, EntryAssumption DEF Has, line, v
<1> QED BY <1>1, <1>5, <1>6 DEF Found, v

(* A piece of a row with at most the column c.                             *)
Single(line, c) ==
  \/ line = <<>>
  \/ Len(line) = 1 /\ line[1].col = c

(* Such pieces, one for every column, make a row that ascends, and what it *)
(* has in a column is what the piece has.                                  *)
LEMMA FlattenSingles ==
  ASSUME NEW n \in Nat, NEW lines \in [1..n -> Seq(Entry(n))],
         \A c \in 1..n : Single(lines[c], c)
  PROVE  /\ FlattenSeq(lines) \in Seq(Entry(n)) /\ AscendingLine(FlattenSeq(lines))
         /\ \A c \in 1..n : \A v : Has(lines[c], c, v) => Has(FlattenSeq(lines), c, v)
<1> DEFINE at(i) == Before(lines, i)
           all == FlattenSeq(lines)
<1>1. Layout(Entry(n), n, lines) BY FlattenLayout
<1>2. /\ all \in Seq(Entry(n)) /\ Len(all) = at(n)
      /\ \A i \in 1..n : \A k \in 1..Len(lines[i]) : all[at(i - 1) + k] = lines[i][k]
      /\ \A q \in 1..at(n) : \E i \in 1..n : \E k \in 1..Len(lines[i]) : q = at(i - 1) + k
  BY <1>1 DEF Layout
<1>3. /\ \A i \in 0..n : at(i) \in Nat
      /\ \A i \in 1..n : at(i) = at(i - 1) + Len(lines[i])
  BY BeforeStep
<1>4. ASSUME NEW c \in 1..n, Len(lines[c]) = 1
      PROVE  at(c) \in 1..at(n) /\ at(c) \in Nat /\ at(n) \in Nat
             /\ all[at(c)] = lines[c][1] /\ lines[c][1].col = c
  <2>1. c \in 0..n /\ c - 1 \in 0..n /\ n \in 0..n /\ n \in c..n OBVIOUS
  <2>2. at(c - 1) \in Nat /\ at(c) \in Nat /\ at(n) \in Nat BY <1>3, <2>1
  <2>3. at(c) = at(c - 1) + 1 BY <1>3, <1>4
  <2>4. at(c) <= at(n) BY <2>1, BeforeMonotone
  <2>5. at(c) \in 1..at(n) BY <2>2, <2>3, <2>4
  <2>6. 1 \in 1..Len(lines[c]) BY <1>4
  <2>7. all[at(c - 1) + 1] = lines[c][1] BY <1>2, <2>6
  <2>8. lines[c][1].col = c
    <3>1. Single(lines[c], c) OBVIOUS
    <3>2. lines[c] # <<>>
      <4>1. lines[c] = <<>> => Len(lines[c]) = 0 BY EmptySeq, Zenon
      <4> QED BY <1>4, <4>1
    <3> QED BY <3>1, <3>2 DEF Single
  <2> QED BY <2>2, <2>3, <2>5, <2>7, <2>8
<1>5. ASSUME NEW q \in 1..at(n)
      PROVE  \E c \in 1..n : Len(lines[c]) = 1 /\ q = at(c)
  <2>1. PICK c \in 1..n : \E k \in 1..Len(lines[c]) : q = at(c - 1) + k BY <1>2
  <2>2. PICK k \in 1..Len(lines[c]) : q = at(c - 1) + k BY <2>1
  <2>3. Single(lines[c], c) OBVIOUS
  <2>4. lines[c] # <<>>
    <3>1. lines[c] \in Seq(Entry(n)) /\ Len(lines[c]) \in Nat OBVIOUS
    <3>2. 1 <= Len(lines[c]) BY <2>2, <3>1
    <3>3. (lines[c] = <<>>) <=> (Len(lines[c]) = 0) BY <3>1, EmptySeq, Zenon
    <3>4. Len(lines[c]) # 0 BY <3>1, <3>2
    <3> QED BY <3>3, <3>4, Zenon
  <2>5. Len(lines[c]) = 1 BY <2>3, <2>4 DEF Single
  <2>6. k = 1 BY <2>2, <2>5
  <2>7. q = at(c) BY <1>3, <2>2, <2>5, <2>6
  <2> QED BY <2>5, <2>7
<1>6. ASSUME NEW c \in 1..n, NEW d \in 1..n, at(c) < at(d) PROVE c < d
  <2>1. c \in 0..n /\ d \in 0..n OBVIOUS
  <2>2. at(c) \in Nat /\ at(d) \in Nat BY <1>3, <2>1
  <2> SUFFICES ASSUME ~(c < d) PROVE FALSE
    OBVIOUS
  <2>3. c \in d..n OBVIOUS
  <2>4. at(d) <= at(c) BY <2>1, <2>3, BeforeMonotone
  <2> QED BY <1>6, <2>2, <2>4
<1>7. AscendingLine(all)
  <2> SUFFICES ASSUME NEW q \in 1..(at(n) - 1) PROVE all[q].col < all[q + 1].col
    BY <1>2 DEF AscendingLine
  <2>0. n \in 0..n OBVIOUS
  <2>1. at(n) \in Nat BY <1>3, <2>0
  <2>2. q \in 1..at(n) /\ q + 1 \in 1..at(n) BY <2>1
  <2>3. PICK c \in 1..n : Len(lines[c]) = 1 /\ q = at(c) BY <1>5, <2>2
  <2>4. PICK d \in 1..n : Len(lines[d]) = 1 /\ q + 1 = at(d) BY <1>5, <2>2
  <2>5. all[q].col = c BY <1>4, <2>3
  <2>6. all[q + 1].col = d BY <1>4, <2>4
  <2>7. at(c) < at(d)
    <3>1. q < q + 1 OBVIOUS
    <3> QED BY <2>3, <2>4, <3>1
  <2>8. c < d BY <1>6, <2>7
  <2> QED BY <2>5, <2>6, <2>8
<1>8. ASSUME NEW c \in 1..n, NEW v, Has(lines[c], c, v) PROVE Has(all, c, v)
  <2>1. Single(lines[c], c) OBVIOUS
  <2>2. CASE Len(lines[c]) = 1
    <3>1. v = lines[c][1].val /\ lines[c][1].col = c
      <4>1. lines[c][1].col = c BY <1>4, <2>2
      <4>2. 1 \in 1..Len(lines[c]) /\ \A k \in 1..Len(lines[c]) : k = 1 BY <2>2
      <4> QED BY <1>8, <4>1, <4>2 DEF Has
    <3>2. at(c) \in 1..Len(all) /\ all[at(c)] = lines[c][1] BY <1>2, <1>4, <2>2
    <3> HIDE DEF all, at
    <3> QED BY <3>1, <3>2 DEF Has
  <2>3. CASE Len(lines[c]) # 1
    <3>1. lines[c] = <<>> BY <2>1, <2>3 DEF Single
    <3>2. v = Zero
      <4>1. Len(lines[c]) = 0 BY <3>1
      <4> QED BY <1>8, <4>1 DEF Has
    <3>3. ASSUME NEW q \in 1..at(n) PROVE all[q].col # c
      <4>1. PICK d \in 1..n : Len(lines[d]) = 1 /\ q = at(d) BY <1>5
      <4>2. all[q].col = d BY <1>4, <4>1
      <4>3. d # c BY <2>3, <4>1
      <4> QED BY <4>2, <4>3
    <3> QED BY <1>2, <3>2, <3>3 DEF Has
  <2> QED BY <2>2, <2>3
<1> QED BY <1>2, <1>7, <1>8

(* A row with one entry at most, for column c.                             *)
Short(line, c, n) == line \in Seq(Entry(n)) /\ Single(line, c)

(* One entry is a row in order, and get finds it there.                    *)
LEMMA OneEntry ==
  ASSUME NEW n \in Nat, NEW c \in 1..n, NEW v \in Value
  PROVE  /\ Short(<<[col |-> c, val |-> v]>>, c, n) /\ Short(<<>>, c, n)
         /\ Has(<<[col |-> c, val |-> v]>>, c, v) /\ Has(<<>>, c, Zero)
<1>1. [col |-> c, val |-> v] \in Entry(n) BY DEF Entry
<1>2. <<[col |-> c, val |-> v]>> \in Seq(Entry(n)) /\ Len(<<[col |-> c, val |-> v]>>) = 1
      /\ <<[col |-> c, val |-> v]>>[1] = [col |-> c, val |-> v]
  BY <1>1
<1>3. <<>> \in Seq(Entry(n)) /\ Len(<<>>) = 0 BY EmptySeq
<1>4. Has(<<[col |-> c, val |-> v]>>, c, v) BY <1>2 DEF Has
<1>5. Has(<<>>, c, Zero) BY <1>3 DEF Has
<1>6. Single(<<[col |-> c, val |-> v]>>, c) BY <1>2 DEF Single
<1>7. Single(<<>>, c)
  <2> DEFINE empty == <<>>
  <2>1. empty = <<>> OBVIOUS
  <2> HIDE DEF empty
  <2>2. Single(empty, c) BY <2>1 DEF Single
  <2> QED BY <2>1, <2>2, Zenon
<1> QED BY <1>2, <1>3, <1>4, <1>5, <1>6, <1>7 DEF Short

(* A value that is not zero is stored, and zero is found without.          *)
LEMMA KeptEntry ==
  ASSUME NEW n \in Nat, NEW c \in 1..n, NEW v \in Value
  PROVE  Short(Kept(c, v), c, n) /\ Has(Kept(c, v), c, v)
<1>1. CASE v = Zero
  <2>1. Kept(c, v) = <<>> BY <1>1 DEF Kept
  <2> QED BY <1>1, <2>1, OneEntry
<1>2. CASE v # Zero
  <2>1. Kept(c, v) = <<[col |-> c, val |-> v]>> BY <1>2 DEF Kept
  <2> QED BY <2>1, OneEntry
<1> QED BY <1>1, <1>2

(* A matrix with short rows for its columns is in order.                   *)
LEMMA ShortRows ==
  ASSUME NEW row \in Nat \ {0}, NEW col \in Nat \ {0}, NEW parts \in [1..row -> [1..col -> Seq(Entry(col))]],
         \A i \in 1..row : \A c \in 1..col : Single(parts[i][c], c)
  PROVE  /\ [i \in 1..row |-> FlattenSeq(parts[i])] \in Rows(row, col)
         /\ \A i \in 1..row : \A c \in 1..col : \A v :
              Has(parts[i][c], c, v) => Has(FlattenSeq(parts[i]), c, v)
<1>1. ASSUME NEW i \in 1..row
      PROVE  /\ FlattenSeq(parts[i]) \in Seq(Entry(col)) /\ AscendingLine(FlattenSeq(parts[i]))
             /\ \A c \in 1..col : \A v : Has(parts[i][c], c, v) => Has(FlattenSeq(parts[i]), c, v)
  <2> DEFINE part == parts[i]
  <2>1. part \in [1..col -> Seq(Entry(col))] /\ \A c \in 1..col : Single(part[c], c) OBVIOUS
  <2>2. col \in Nat OBVIOUS
  <2> HIDE DEF part
  <2>3. /\ FlattenSeq(part) \in Seq(Entry(col)) /\ AscendingLine(FlattenSeq(part))
        /\ \A c \in 1..col : \A v : Has(part[c], c, v) => Has(FlattenSeq(part), c, v)
    BY <2>1, <2>2, FlattenSingles
  <2> QED BY <2>3 DEF part
<1>2. [i \in 1..row |-> FlattenSeq(parts[i])] \in Rows(row, col)
  <2> DEFINE lines == [i \in 1..row |-> FlattenSeq(parts[i])]
  <2>1. lines \in [1..row -> Seq(Entry(col))] BY <1>1
  <2>2. \A i \in 1..row : lines[i] = FlattenSeq(parts[i]) OBVIOUS
  <2>3. \A i \in 1..row : AscendingLine(lines[i]) BY <1>1, <2>2
  <2> HIDE DEF lines
  <2> QED BY <2>1, <2>3 DEF Rows, lines
<1> QED BY <1>1, <1>2

(* A matrix in order in which get finds what the rows have.                *)
Gets(A, row, col, lines) ==
  /\ IsCanonical(A) /\ A.row = row /\ A.col = col
  /\ \A i \in 1..row : \A c \in 1..col : \A v : Has(lines[i], c, v) => Get(A, i, c) = v

(* What get finds in a packed matrix is what its row has.                  *)
LEMMA PackGet ==
  ASSUME NEW row \in Nat \ {0}, NEW col \in Nat \ {0}, NEW lines \in Rows(row, col),
         NEW A, A = Pack(row, col, lines)
  PROVE  Gets(A, row, col, lines)
<1>1. /\ IsCanonical(A) /\ A.row = row /\ A.col = col
      /\ \A i \in 1..row : Line(A, i) = lines[i]
  BY PackLines
<1>2. ASSUME NEW i \in 1..row, NEW c \in 1..col, NEW v, Has(lines[i], c, v)
      PROVE  Get(A, i, c) = v
  <2>1. i \in 1..A.row /\ c \in Nat BY <1>1
  <2>2. Has(Line(A, i), c, Get(A, i, c)) BY <1>1, <2>1, GetLine
  <2>3. Has(lines[i], c, Get(A, i, c)) BY <1>1, <2>2
  <2>4. lines[i] \in Seq(Entry(col)) /\ AscendingLine(lines[i]) BY DEF Rows
  <2>5. col \in Nat OBVIOUS
  <2> QED BY <1>2, <2>3, <2>4, <2>5, HasUnique
<1> QED BY <1>1, <1>2 DEF Gets

(* The matrix of zeros.                                                    *)
LEMMA EmptyCanonical ==
  ASSUME NEW row \in Nat \ {0}, NEW col \in Nat \ {0}
  PROVE  IsCanonical(Empty(row, col)) /\ Empty(row, col).row = row /\ Empty(row, col).col = col
<1> DEFINE lines == [i \in 1..row |-> <<>>]
<1>1. <<>> \in Seq(Entry(col)) /\ Len(<<>>) = 0 BY EmptySeq
<1>2. lines \in [1..row -> Seq(Entry(col))] BY <1>1
<1>3. AscendingLine(<<>>) BY <1>1 DEF AscendingLine
<1>4. \A i \in 1..row : AscendingLine(lines[i]) BY <1>3
<1>5. lines \in Rows(row, col)
  <2> HIDE DEF lines
  <2> QED BY <1>2, <1>4 DEF Rows
<1>6. Empty(row, col) = Pack(row, col, lines) BY DEF Empty
<1> HIDE DEF lines
<1>7. Gets(Empty(row, col), row, col, lines) BY <1>5, <1>6, PackGet
<1> QED BY <1>7 DEF Gets

(* The matrix of a table, with its zeros left out.                         *)
LEMMA JacobianGet ==
  ASSUME NEW row \in Nat \ {0}, NEW col \in Nat \ {0}, NEW d \in Tables(row, col, Value),
         NEW A, A = Jacobian(row, col, d)
  PROVE  /\ IsCanonical(A) /\ A.row = row /\ A.col = col
         /\ \A i \in 1..row : \A c \in 1..col : Get(A, i, c) = d[i][c]
<1> DEFINE parts == [i \in 1..row |-> [c \in 1..col |-> Kept(c, d[i][c])]]
           lines == [i \in 1..row |-> FlattenSeq(parts[i])]
<1>1. ASSUME NEW i \in 1..row, NEW c \in 1..col
      PROVE  Kept(c, d[i][c]) \in Seq(Entry(col)) /\ Single(Kept(c, d[i][c]), c)
             /\ Has(Kept(c, d[i][c]), c, d[i][c])
  <2>1. d[i][c] \in Value BY DEF Tables
  <2>2. col \in Nat OBVIOUS
  <2> QED BY <2>1, <2>2, KeptEntry DEF Short
<1>2. parts \in [1..row -> [1..col -> Seq(Entry(col))]] BY <1>1
<1>3. \A i \in 1..row : \A c \in 1..col : parts[i][c] = Kept(c, d[i][c]) OBVIOUS
<1>4. A = Pack(row, col, lines)
  <2>1. \A i \in 1..row : parts[i] = [c \in 1..col |-> Kept(c, d[i][c])] OBVIOUS
  <2> QED BY <2>1 DEF Jacobian
<1> HIDE DEF parts
<1>5. \A i \in 1..row : \A c \in 1..col : Single(parts[i][c], c) BY <1>1, <1>3
<1>6. /\ lines \in Rows(row, col)
      /\ \A i \in 1..row : \A c \in 1..col : \A v :
           Has(parts[i][c], c, v) => Has(FlattenSeq(parts[i]), c, v)
  BY <1>2, <1>5, ShortRows
<1>7. \A i \in 1..row : lines[i] = FlattenSeq(parts[i]) OBVIOUS
<1>8. \A i \in 1..row : \A c \in 1..col : Has(lines[i], c, d[i][c]) BY <1>1, <1>3, <1>6, <1>7
<1> HIDE DEF lines
<1>9. Gets(A, row, col, lines) BY <1>4, <1>6, PackGet
<1> QED BY <1>8, <1>9 DEF Gets

(* What from_coo sums up is a value.                                       *)
LEMMA TotalValue ==
  ASSUME NEW row \in Nat, NEW col \in Nat, NEW n \in Nat,
         NEW list \in [1..n -> [row : 1..row, col : 1..col, val : Value]], NEW i, NEW c
  PROVE  Total(list, i, c) \in Value
<1> DEFINE D == 0..n
           V == Value
           rank == [k \in D |-> k]
           Body(k, h) == IF k = 0 THEN Zero
                         ELSE IF list[k].row = i /\ list[k].col = c THEN add[h[k - 1]][list[k].val]
                         ELSE h[k - 1]
           F == [k \in D |-> [h \in [D -> V] |-> Body(k, h)]]
           g == CHOOSE g : g = [k \in D |->
                  IF k = 0 THEN Zero
                  ELSE IF list[k].row = i /\ list[k].col = c THEN add[g[k - 1]][list[k].val]
                  ELSE g[k - 1]]
<1>1. V # {} /\ n \in Nat /\ rank \in [D -> 0..n] BY EntryAssumption
<1>2. ASSUME NEW k \in D, NEW h \in [D -> V] PROVE Body(k, h) \in V
  <2>1. CASE k = 0 BY <2>1, EntryAssumption
  <2>2. CASE k # 0
    <3>1. k - 1 \in D /\ k \in 1..n BY <2>2
    <3>2. h[k - 1] \in Value BY <3>1
    <3>3. list[k].val \in Value BY <3>1
    <3>4. add[h[k - 1]][list[k].val] \in Value BY <3>2, <3>3, EntryAssumption
    <3> QED BY <2>2, <3>2, <3>4
  <2> QED BY <2>1, <2>2
<1>3. F \in [D -> [[D -> V] -> V]]
  <2> HIDE DEF Body, D, V
  <2> QED BY <1>2
<1>4. ByRank(D, V, rank, F)
  <2> SUFFICES ASSUME NEW d \in D, NEW x \in [D -> V], NEW y \in [D -> V],
                      \A e \in D : rank[e] < rank[d] => x[e] = y[e]
               PROVE  F[d][x] = F[d][y]
    BY DEF ByRank
  <2>1. CASE d = 0 BY <2>1
  <2>2. CASE d # 0
    <3>1. d - 1 \in D /\ rank[d - 1] < rank[d] BY <2>2
    <3>2. x[d - 1] = y[d - 1] BY <3>1
    <3> QED BY <3>2
  <2> QED BY <2>1, <2>2
<1>5. PICK x \in [D -> V] : x = [d \in D |-> F[d][x]]
  <2> HIDE DEF D, V, rank, F
  <2>1. Recursive(D, V, F) BY <1>1, <1>3, <1>4, BoundedRecursion, Zenon
  <2> QED BY <2>1 DEF Recursive
<1>6. x = [k \in D |->
             IF k = 0 THEN Zero
             ELSE IF list[k].row = i /\ list[k].col = c THEN add[x[k - 1]][list[k].val]
             ELSE x[k - 1]]
  <2>1. \A k \in D : F[k][x] = Body(k, x) OBVIOUS
  <2> QED BY <2>1, <1>5
<1>7. g = [k \in D |->
             IF k = 0 THEN Zero
             ELSE IF list[k].row = i /\ list[k].col = c THEN add[g[k - 1]][list[k].val]
             ELSE g[k - 1]]
  <2> HIDE DEF D
  <2> QED BY <1>6, Zenon
<1>8. Len(list) = n OBVIOUS
<1>9. Total(list, i, c) = g[n] BY <1>8 DEF Total
<1> HIDE DEF g
<1>10. \A k \in D : g[k] = Body(k, g)
  <2> HIDE DEF D
  <2> QED BY <1>7, Zenon
<1> DEFINE S == {k \in Nat : k \in D => g[k] \in Value}
<1>11. 0 \in S
  <2>1. 0 \in D OBVIOUS
  <2>2. g[0] = Zero BY <1>10, <2>1
  <2> QED BY <2>2, EntryAssumption
<1>12. ASSUME NEW k \in Nat, k \in S PROVE k + 1 \in S
  <2> SUFFICES ASSUME k + 1 \in D PROVE g[k + 1] \in Value
    OBVIOUS
  <2>1. k \in D /\ k + 1 \in 1..n /\ k + 1 # 0 /\ (k + 1) - 1 = k OBVIOUS
  <2>2. g[k] \in Value BY <1>12, <2>1
  <2>3. g[k + 1] = Body(k + 1, g) BY <1>10
  <2>4. \/ g[k + 1] = add[g[(k + 1) - 1]][list[k + 1].val]
        \/ g[k + 1] = g[(k + 1) - 1]
    BY <2>1, <2>3
  <2>5. g[(k + 1) - 1] \in Value BY <2>1, <2>2
  <2>6. list[k + 1].val \in Value BY <2>1
  <2>7. add[g[(k + 1) - 1]][list[k + 1].val] \in Value BY <2>5, <2>6, EntryAssumption
  <2> QED BY <2>4, <2>5, <2>7
<1>13. Nat \subseteq S
  <2> HIDE DEF S
  <2> QED BY <1>11, <1>12, NatSetInduction
<1>14. n \in S /\ n \in D BY <1>13
<1> QED BY <1>9, <1>14

(* The lists given to from_coo.                                            *)
Lists(n, row, col) == [1..n -> [row : 1..row, col : 1..col, val : Value]]

(* What from_coo builds is in order, also where the list repeats an entry. *)
LEMMA FromCooCanonical ==
  ASSUME NEW row \in Nat \ {0}, NEW col \in Nat \ {0}, NEW n \in Nat,
         NEW list \in Lists(n, row, col), NEW A, A = FromCoo(row, col, list)
  PROVE  IsCanonical(A) /\ A.row = row /\ A.col = col
<1> USE DEF Lists
<1> DEFINE part(i, c) == IF Listed(list, i, c) THEN <<[col |-> c, val |-> Total(list, i, c)]>> ELSE <<>>
           parts == [i \in 1..row |-> [c \in 1..col |-> part(i, c)]]
           lines == [i \in 1..row |-> FlattenSeq(parts[i])]
<1>1. ASSUME NEW i \in 1..row, NEW c \in 1..col
      PROVE  part(i, c) \in Seq(Entry(col)) /\ Single(part(i, c), c)
  <2>1. Total(list, i, c) \in Value
    <3>1. row \in Nat /\ col \in Nat OBVIOUS
    <3> QED BY <3>1, TotalValue
  <2>2. col \in Nat OBVIOUS
  <2>3. Short(<<[col |-> c, val |-> Total(list, i, c)]>>, c, col) /\ Short(<<>>, c, col)
    BY <2>1, <2>2, OneEntry
  <2> QED BY <2>3 DEF Short
<1>2. FromCoo(row, col, list) = Pack(row, col, lines)
  <2>1. \A i \in 1..row : parts[i] = [c \in 1..col |-> part(i, c)] OBVIOUS
  <2> QED BY <2>1 DEF FromCoo
<1> HIDE DEF part
<1>3. parts \in [1..row -> [1..col -> Seq(Entry(col))]] BY <1>1
<1>4. \A i \in 1..row : \A c \in 1..col : Single(parts[i][c], c) BY <1>1
<1> HIDE DEF parts
<1>5. lines \in Rows(row, col) BY <1>3, <1>4, ShortRows
<1> HIDE DEF lines
<1>6. Gets(FromCoo(row, col, list), row, col, lines) BY <1>2, <1>5, PackGet
<1> QED BY <1>6 DEF Gets

(* Pieces with at most one entry, and one at most with one.                *)
Once(lines, n) ==
  /\ \A k \in 1..n : Len(lines[k]) \in {0, 1}
  /\ \A k, l \in 1..n : Len(lines[k]) = 1 /\ Len(lines[l]) = 1 => k = l

(* The one with an entry is what is left of them.                          *)
LEMMA FlattenOnce ==
  ASSUME NEW E, NEW n \in Nat, NEW lines \in [1..n -> Seq(E)], Once(lines, n)
  PROVE  /\ FlattenSeq(lines) \in Seq(E)
         /\ (\A k \in 1..n : Len(lines[k]) = 0) => FlattenSeq(lines) = <<>>
         /\ \A k \in 1..n : Len(lines[k]) = 1 =>
              Len(FlattenSeq(lines)) = 1 /\ FlattenSeq(lines)[1] = lines[k][1]
<1> DEFINE all == FlattenSeq(lines)
           at(i) == Before(lines, i)
<1>1. Layout(E, n, lines) BY FlattenLayout
<1>2. /\ all \in Seq(E) /\ Len(all) = at(n)
      /\ \A i \in 1..n : \A k \in 1..Len(lines[i]) : all[at(i - 1) + k] = lines[i][k]
      /\ \A q \in 1..at(n) : \E i \in 1..n : \E k \in 1..Len(lines[i]) : q = at(i - 1) + k
  BY <1>1 DEF Layout
<1>3. at(n) \in Nat
  <2>1. n \in 0..n OBVIOUS
  <2> QED BY <2>1, BeforeStep
<1>8. \A i \in 1..n : at(i) = at(i - 1) + Len(lines[i]) BY BeforeStep
<1>4. ASSUME NEW q \in 1..at(n)
      PROVE  \E i \in 1..n : Len(lines[i]) = 1 /\ q = at(i - 1) + 1
  <2>1. PICK i \in 1..n : \E k \in 1..Len(lines[i]) : q = at(i - 1) + k BY <1>2
  <2>2. PICK k \in 1..Len(lines[i]) : q = at(i - 1) + k BY <2>1
  <2>3. Len(lines[i]) \in {0, 1} BY DEF Once
  <2>4. Len(lines[i]) = 1 /\ k = 1
    <3> HIDE DEF at, all
    <3>1. Len(lines[i]) = 1 BY <2>2, <2>3
    <3> QED BY <2>2, <3>1
  <2> QED BY <2>2, <2>4
<1>5. at(n) <= 1
  <2> SUFFICES ASSUME ~(at(n) <= 1) PROVE FALSE
    OBVIOUS
  <2>1. 1 \in 1..at(n) /\ 2 \in 1..at(n) BY <1>3
  <2>2. PICK i \in 1..n : Len(lines[i]) = 1 /\ 1 = at(i - 1) + 1 BY <1>4, <2>1
  <2>3. PICK l \in 1..n : Len(lines[l]) = 1 /\ 2 = at(l - 1) + 1 BY <1>4, <2>1
  <2>4. i = l BY <2>2, <2>3 DEF Once
  <2>5. at(i - 1) + 1 = at(l - 1) + 1 BY <2>4
  <2>6. 1 = 2 BY <2>2, <2>3, <2>5
  <2> QED BY <2>6
<1>6. ASSUME \A k \in 1..n : Len(lines[k]) = 0 PROVE all = <<>>
  <2>1. ASSUME NEW q \in 1..at(n) PROVE FALSE
    <3>1. PICK i \in 1..n : Len(lines[i]) = 1 BY <1>4
    <3>2. Len(lines[i]) = 0 BY <1>6
    <3>3. 1 = 0 BY <3>1, <3>2, Zenon
    <3> QED BY <3>3
  <2>2. Len(all) = 0 BY <1>2, <1>3, <2>1
  <2> HIDE DEF all
  <2> QED BY <1>2, <2>2, EmptySeq
<1>7. ASSUME NEW k \in 1..n, Len(lines[k]) = 1
      PROVE  Len(all) = 1 /\ all[1] = lines[k][1]
  <2>1. k - 1 \in 0..n /\ k \in 0..n /\ n \in k..n /\ 1 \in 1..Len(lines[k]) BY <1>7
  <2>5. at(k - 1) \in Nat BY <2>1, BeforeStep
  <2>6. at(k) = at(k - 1) + Len(lines[k]) BY <1>8
  <2>2. at(k - 1) \in Nat /\ at(k) = at(k - 1) + Len(lines[k]) /\ at(k) <= at(n)
    BY <2>1, <2>5, <2>6, BeforeMonotone
  <2>3. at(k - 1) = 0 /\ at(n) = 1 BY <1>3, <1>5, <1>7, <2>2
  <2>4. all[at(k - 1) + 1] = lines[k][1] BY <1>2, <2>1
  <2> QED BY <1>2, <2>3, <2>4
<1> QED BY <1>2, <1>6, <1>7

(* The entries that transpose moves from row i of the original.            *)
Moved(line, i, c, f) ==
  FlattenSeq([k \in 1..Len(line) |->
    IF line[k].col = c THEN <<[col |-> i, val |-> f[line[k].val]]>> ELSE <<>>])

(* At most one entry is moved, and it is the one of column c.              *)
LEMMA MovedOnce ==
  ASSUME NEW col \in Nat, NEW line \in Seq(Entry(col)), AscendingLine(line),
         NEW n \in Nat, NEW i \in 1..n, NEW c,
         NEW f, f[Zero] = Zero, \A v \in Value : f[v] \in Value
  PROVE  /\ Moved(line, i, c, f) \in Seq(Entry(n)) /\ Single(Moved(line, i, c, f), i)
         /\ \A v : Has(line, c, v) => Has(Moved(line, i, c, f), i, f[v])
<1> DEFINE part(k) == IF line[k].col = c THEN <<[col |-> i, val |-> f[line[k].val]]>> ELSE <<>>
           parts == [k \in 1..Len(line) |-> part(k)]
           moved == FlattenSeq(parts)
<1>1. Len(line) \in Nat /\ \A k \in 1..Len(line) : line[k].col \in Int /\ line[k].val \in Value
  <2>1. \A k \in 1..Len(line) : line[k] \in Entry(col) OBVIOUS
  <2> QED BY <2>1 DEF Entry
<1>2. ASSUME NEW k \in 1..Len(line)
      PROVE  /\ part(k) \in Seq(Entry(n)) /\ Len(part(k)) \in {0, 1}
             /\ Len(part(k)) = 1 <=> line[k].col = c
             /\ Len(part(k)) = 1 => part(k)[1] = [col |-> i, val |-> f[line[k].val]]
  <2> DEFINE e == [col |-> i, val |-> f[line[k].val]]
  <2>1. e \in Entry(n) BY <1>1 DEF Entry
  <2> HIDE DEF e
  <2>2. <<e>> \in Seq(Entry(n)) /\ Len(<<e>>) = 1 /\ <<e>>[1] = e BY <2>1
  <2>3. <<>> \in Seq(Entry(n)) /\ Len(<<>>) = 0 BY EmptySeq
  <2>4. CASE line[k].col = c
    <3>1. part(k) = <<e>> BY <2>4 DEF e
    <3> HIDE DEF part
    <3> QED BY <2>2, <2>4, <3>1 DEF e
  <2>5. CASE line[k].col # c
    <3>1. part(k) = <<>> BY <2>5
    <3> HIDE DEF part
    <3> QED BY <2>3, <2>5, <3>1
  <2> QED BY <2>4, <2>5
<1>3. \A k \in 1..Len(line) : parts[k] = part(k) OBVIOUS
<1>4. Moved(line, i, c, f) = moved BY DEF Moved
<1>5. parts \in [1..Len(line) -> Seq(Entry(n))]
  <2> HIDE DEF part
  <2> QED BY <1>2
<1> HIDE DEF part, parts
<1>6. ASSUME NEW k \in 1..Len(line), NEW l \in 1..Len(line), line[k].col = line[l].col
      PROVE  k = l
  <2>1. ASSUME k < l PROVE FALSE
    <3>1. line[k].col < line[l].col BY <1>1, <2>1, AscendingFar
    <3> QED BY <1>1, <1>6, <3>1
  <2>2. ASSUME l < k PROVE FALSE
    <3>1. line[l].col < line[k].col BY <1>1, <2>2, AscendingFar
    <3> QED BY <1>1, <1>6, <3>1
  <2> QED BY <1>1, <2>1, <2>2
<1>7. Once(parts, Len(line))
  <2>1. \A k \in 1..Len(line) : Len(parts[k]) \in {0, 1} BY <1>2, <1>3
  <2>2. ASSUME NEW k \in 1..Len(line), NEW l \in 1..Len(line),
               Len(parts[k]) = 1, Len(parts[l]) = 1
        PROVE  k = l
    <3>1. line[k].col = c /\ line[l].col = c BY <1>2, <1>3, <2>2
    <3> QED BY <1>6, <3>1
  <2> QED BY <2>1, <2>2 DEF Once
<1>8. /\ moved \in Seq(Entry(n))
      /\ (\A k \in 1..Len(line) : Len(parts[k]) = 0) => moved = <<>>
      /\ \A k \in 1..Len(line) : Len(parts[k]) = 1 => Len(moved) = 1 /\ moved[1] = parts[k][1]
  BY <1>1, <1>5, <1>7, FlattenOnce
<1> HIDE DEF moved
<1>9. CASE \E k \in 1..Len(line) : line[k].col = c
  <2>1. PICK k \in 1..Len(line) : line[k].col = c BY <1>9
  <2>2. Len(parts[k]) = 1 /\ parts[k][1] = [col |-> i, val |-> f[line[k].val]]
    BY <1>2, <1>3, <2>1
  <2>3. Len(moved) = 1 /\ moved[1] = [col |-> i, val |-> f[line[k].val]] BY <1>8, <2>2
  <2>4. Len(moved) = 1 /\ moved[1].col = i /\ moved[1].val = f[line[k].val] BY <2>3
  <2>5. Single(moved, i) BY <2>4 DEF Single
  <2>6. ASSUME NEW v, Has(line, c, v) PROVE Has(moved, i, f[v])
    <3>1. PICK l \in 1..Len(line) : line[l].col = c /\ v = line[l].val
      BY <2>1, <2>6 DEF Has
    <3>2. l = k BY <1>6, <2>1, <3>1
    <3>3. 1 \in 1..Len(moved) /\ moved[1].col = i /\ f[v] = moved[1].val BY <2>4, <3>1, <3>2
    <3> QED BY <3>3 DEF Has
  <2> QED BY <1>4, <1>8, <2>5, <2>6
<1>10. CASE ~ \E k \in 1..Len(line) : line[k].col = c
  <2>1. \A k \in 1..Len(line) : Len(parts[k]) = 0 BY <1>2, <1>3, <1>10
  <2>2. moved = <<>> BY <1>8, <2>1
  <2>3. Single(moved, i) BY <2>2 DEF Single
  <2>4. Len(moved) = 0 BY <2>2, EmptySeq
  <2>5. ASSUME NEW v, Has(line, c, v) PROVE Has(moved, i, f[v])
    <3>1. v = Zero BY <1>10, <2>5 DEF Has
    <3> QED BY <2>4, <3>1 DEF Has
  <2> QED BY <1>4, <1>8, <2>3, <2>5
<1> QED BY <1>9, <1>10

(* Row c of the transpose has at i what row i had at c.                    *)
LEMMA TransposedGet ==
  ASSUME NEW A, IsCanonical(A), NEW f, f[Zero] = Zero, \A v \in Value : f[v] \in Value,
         NEW B, B = Transposed(A, f)
  PROVE  /\ IsCanonical(B) /\ B.row = A.col /\ B.col = A.row
         /\ \A c \in 1..A.col : \A i \in 1..A.row : Get(B, c, i) = f[Get(A, i, c)]
<1>1. A.row \in Nat \ {0} /\ A.col \in Nat \ {0} BY DEF IsCanonical, Matrices
<1> DEFINE parts == [c \in 1..A.col |-> [i \in 1..A.row |-> Moved(Line(A, i), i, c, f)]]
           lines == [c \in 1..A.col |-> FlattenSeq(parts[c])]
<1>2. ASSUME NEW c \in 1..A.col, NEW i \in 1..A.row
      PROVE  /\ Moved(Line(A, i), i, c, f) \in Seq(Entry(A.row))
             /\ Single(Moved(Line(A, i), i, c, f), i)
             /\ Has(Moved(Line(A, i), i, c, f), i, f[Get(A, i, c)])
  <2>1. Line(A, i) \in Seq(Entry(A.col)) /\ AscendingLine(Line(A, i)) BY LineOf
  <2>2. c \in Nat /\ A.col \in Nat /\ A.row \in Nat BY <1>1
  <2>3. Has(Line(A, i), c, Get(A, i, c)) BY <2>2, GetLine
  <2> QED BY <2>1, <2>2, <2>3, MovedOnce
<1>3. parts \in [1..A.col -> [1..A.row -> Seq(Entry(A.row))]] BY <1>2
<1>4. \A c \in 1..A.col : \A i \in 1..A.row : parts[c][i] = Moved(Line(A, i), i, c, f) OBVIOUS
<1>5. B = Pack(A.col, A.row, lines)
  <2>1. \A c \in 1..A.col : parts[c] = [i \in 1..A.row |-> Moved(Line(A, i), i, c, f)] OBVIOUS
  <2> QED BY <2>1 DEF Transposed, Moved
<1> HIDE DEF parts
<1>6. \A c \in 1..A.col : \A i \in 1..A.row : Single(parts[c][i], i) BY <1>2, <1>4
<1>7. /\ lines \in Rows(A.col, A.row)
      /\ \A c \in 1..A.col : \A i \in 1..A.row : \A v :
           Has(parts[c][i], i, v) => Has(FlattenSeq(parts[c]), i, v)
  BY <1>1, <1>3, <1>6, ShortRows
<1>8. \A c \in 1..A.col : lines[c] = FlattenSeq(parts[c]) OBVIOUS
<1>9. \A c \in 1..A.col : \A i \in 1..A.row : Has(lines[c], i, f[Get(A, i, c)])
  BY <1>2, <1>4, <1>7, <1>8
<1> HIDE DEF lines
<1>10. Gets(B, A.col, A.row, lines) BY <1>1, <1>5, <1>7, PackGet
<1> QED BY <1>9, <1>10 DEF Gets

(* As Has, but only from position k of the row on.                         *)
HasFrom(line, k, c, v) ==
  \/ \E q \in k..Len(line) : line[q].col = c /\ v = line[q].val
  \/ v = Zero /\ \A q \in k..Len(line) : line[q].col # c

(* From entry k on the columns of a row are above b.                       *)
Above(line, k, b) == \A q \in k..Len(line) : b < line[q].col

(* An entry put before a row that begins after it.                         *)
Put(r, n, c, v, rest) ==
  /\ r \in Seq(Entry(n)) /\ AscendingLine(r) /\ Has(r, c, v)
  /\ \A d, w : d # c /\ Has(rest, d, w) => Has(r, d, w)
  /\ \A b \in Int : b < c => Above(r, 1, b)

(* A merged entry goes before the rest of the merge.                       *)
LEMMA PutFirst ==
  ASSUME NEW n \in Nat, NEW c \in 1..n, NEW v \in Value,
         NEW rest \in Seq(Entry(n)), AscendingLine(rest), Above(rest, 1, c)
  PROVE  Put(Kept(c, v) \o rest, n, c, v, rest)
<1>1. /\ Len(rest) \in Nat
      /\ \A q \in 1..Len(rest) : rest[q].col \in Int /\ c < rest[q].col
  <2>1. \A q \in 1..Len(rest) : rest[q] \in Entry(n) OBVIOUS
  <2>2. Len(rest) \in Nat /\ \A q \in 1..Len(rest) : rest[q].col \in Int BY <2>1 DEF Entry
  <2>3. \A q \in 1..Len(rest) : c < rest[q].col BY DEF Above
  <2> QED BY <2>2, <2>3
<1>2. ASSUME NEW b \in Int, b < c PROVE Above(rest, 1, b) BY <1>1, <1>2 DEF Above
<1>3. CASE v = Zero
  <2>1. Kept(c, v) = <<>> BY <1>3 DEF Kept
  <2>2. <<>> \o rest = rest BY ConcatEmptySeq
  <2>3. Kept(c, v) \o rest = rest BY <2>1, <2>2, Zenon
  <2>4. Has(rest, c, v) BY <1>1, <1>3 DEF Has
  <2> QED BY <1>2, <2>3, <2>4 DEF Put
<1>4. CASE v # Zero
  <2> DEFINE e == [col |-> c, val |-> v]
             r == <<e>> \o rest
  <2>1. Kept(c, v) \o rest = r BY <1>4 DEF Kept
  <2>2. e \in Entry(n) /\ e.col = c /\ e.val = v BY DEF Entry
  <2> HIDE DEF e
  <2>3. <<e>> \in Seq(Entry(n)) /\ Len(<<e>>) = 1 /\ <<e>>[1] = e BY <2>2
  <2>4. /\ r \in Seq(Entry(n)) /\ Len(r) = 1 + Len(rest) /\ r[1] = e
        /\ \A q \in 1..Len(rest) : r[q + 1] = rest[q]
    <3>1. /\ r \in Seq(Entry(n)) /\ Len(r) = Len(<<e>>) + Len(rest)
          /\ \A q \in 1..(Len(<<e>>) + Len(rest)) :
               r[q] = IF q <= Len(<<e>>) THEN <<e>>[q] ELSE rest[q - Len(<<e>>)]
      BY <2>3, ConcatProperties
    <3> HIDE DEF r
    <3>2. \A q \in 1..(1 + Len(rest)) : r[q] = IF q <= 1 THEN <<e>>[q] ELSE rest[q - 1]
      BY <2>3, <3>1
    <3>3. r[1] = e BY <1>1, <2>3, <3>2
    <3>4. ASSUME NEW q \in 1..Len(rest) PROVE r[q + 1] = rest[q]
      <4>1. q + 1 \in 1..(1 + Len(rest)) /\ ~(q + 1 <= 1) /\ (q + 1) - 1 = q BY <1>1
      <4>2. r[q + 1] = rest[(q + 1) - 1] BY <3>2, <4>1
      <4> QED BY <4>1, <4>2
    <3> QED BY <2>3, <3>1, <3>3, <3>4
  <2> HIDE DEF r
  <2>5. \A q \in 2..Len(r) : q - 1 \in 1..Len(rest) /\ r[q] = rest[q - 1]
    <3> TAKE q \in 2..Len(r)
    <3>1. q - 1 \in 1..Len(rest) /\ (q - 1) + 1 = q BY <1>1, <2>4
    <3>2. r[(q - 1) + 1] = rest[q - 1] BY <2>4, <3>1
    <3> QED BY <3>1, <3>2
  <2>6. AscendingLine(r)
    <3> SUFFICES ASSUME NEW q \in 1..(Len(r) - 1) PROVE r[q].col < r[q + 1].col
      BY DEF AscendingLine
    <3>1. q \in 1..Len(rest) /\ r[q + 1] = rest[q] BY <1>1, <2>4
    <3>2. CASE q = 1 BY <1>1, <2>2, <2>4, <3>1, <3>2
    <3>3. CASE q # 1
      <4>1. q - 1 \in 1..(Len(rest) - 1) /\ (q - 1) + 1 = q /\ q \in 2..Len(r) BY <1>1, <2>4, <3>1, <3>3
      <4>2. rest[q - 1].col < rest[(q - 1) + 1].col BY <4>1 DEF AscendingLine
      <4>3. r[q] = rest[q - 1] BY <2>5, <4>1
      <4> QED BY <3>1, <4>1, <4>2, <4>3
    <3> QED BY <3>2, <3>3
  <2>7. Has(r, c, v)
    <3>1. 1 \in 1..Len(r) BY <1>1, <2>4
    <3> QED BY <2>2, <2>4, <3>1 DEF Has
  <2>8. ASSUME NEW d, NEW w, d # c, Has(rest, d, w) PROVE Has(r, d, w)
    <3>1. CASE \E q \in 1..Len(rest) : rest[q].col = d /\ w = rest[q].val
      <4>1. PICK q \in 1..Len(rest) : rest[q].col = d /\ w = rest[q].val BY <3>1
      <4>2. q + 1 \in 1..Len(r) /\ r[q + 1] = rest[q] BY <1>1, <2>4
      <4> QED BY <4>1, <4>2 DEF Has
    <3>2. CASE w = Zero /\ \A q \in 1..Len(rest) : rest[q].col # d
      <4>1. \A q \in 1..Len(r) : r[q].col # d
        <5> TAKE q \in 1..Len(r)
        <5>1. CASE q = 1 BY <2>2, <2>4, <2>8, <5>1
        <5>2. CASE q # 1
          <6>1. q \in 2..Len(r) BY <1>1, <2>4, <5>2
          <6> QED BY <2>5, <3>2, <6>1
        <5> QED BY <5>1, <5>2
      <4> QED BY <3>2, <4>1 DEF Has
    <3> QED BY <2>8, <3>1, <3>2 DEF Has
  <2>9. ASSUME NEW b \in Int, b < c PROVE Above(r, 1, b)
    <3> SUFFICES ASSUME NEW q \in 1..Len(r) PROVE b < r[q].col
      BY DEF Above
    <3>1. CASE q = 1 BY <2>2, <2>4, <2>9, <3>1
    <3>2. CASE q # 1
      <4>1. q \in 2..Len(r) BY <1>1, <2>4, <3>2
      <4>2. q - 1 \in 1..Len(rest) /\ r[q] = rest[q - 1] BY <2>5, <4>1
      <4>3. b < rest[q - 1].col BY <1>2, <2>9, <4>2 DEF Above
      <4> QED BY <4>2, <4>3
    <3> QED BY <3>1, <3>2
  <2> QED BY <2>1, <2>4, <2>6, <2>7, <2>8, <2>9 DEF Put
<1> QED BY <1>3, <1>4

(* From position k on column c has the value v, and from position next on  *)
(* there is nothing up to c while all other columns are still there.       *)
Behind(line, k, c, v, next) ==
  /\ \A w : HasFrom(line, k, c, w) => w = v
  /\ \A d, w : d # c /\ HasFrom(line, k, d, w) => HasFrom(line, next, d, w)
  /\ Above(line, next, c)
  /\ \A b \in Int : Above(line, k, b) => Above(line, next, b) /\ (next # k => b < c)

(* One step over an entry.                                                 *)
LEMMA StepOver ==
  ASSUME NEW n \in Nat, NEW line \in Seq(Entry(n)), AscendingLine(line), NEW k \in 1..Len(line)
  PROVE  Behind(line, k, line[k].col, line[k].val, k + 1)
<1>1. Len(line) \in Nat /\ \A q \in 1..Len(line) : line[q].col \in Int
  <2>1. \A q \in 1..Len(line) : line[q] \in Entry(n) OBVIOUS
  <2> QED BY <2>1 DEF Entry
<1>2. Above(line, k + 1, line[k].col)
  <2> SUFFICES ASSUME NEW q \in (k + 1)..Len(line) PROVE line[k].col < line[q].col
    BY DEF Above
  <2>1. q \in 1..Len(line) /\ k < q BY <1>1
  <2> QED BY <1>1, <2>1, AscendingFar
<1>3. \A q \in (k + 1)..Len(line) : line[q].col # line[k].col /\ q \in k..Len(line)
  <2> TAKE q \in (k + 1)..Len(line)
  <2>1. line[k].col < line[q].col /\ q \in 1..Len(line) /\ q \in k..Len(line)
    BY <1>1, <1>2 DEF Above
  <2> QED BY <1>1, <2>1
<1>4. \A q \in k..Len(line) : q = k \/ q \in (k + 1)..Len(line) BY <1>1
<1>5. k \in k..Len(line) BY <1>1
<1>6. ASSUME NEW w, HasFrom(line, k, line[k].col, w) PROVE w = line[k].val
  BY <1>3, <1>4, <1>5, <1>6, Zenon DEF HasFrom
<1>7. ASSUME NEW d, NEW w, d # line[k].col, HasFrom(line, k, d, w) PROVE HasFrom(line, k + 1, d, w)
  BY <1>3, <1>4, <1>7, Zenon DEF HasFrom
<1>8. ASSUME NEW b \in Int, Above(line, k, b) PROVE Above(line, k + 1, b) /\ b < line[k].col
  BY <1>3, <1>5, <1>8, Zenon DEF Above
<1> QED BY <1>2, <1>6, <1>7, <1>8 DEF Behind

(* No step where nothing is up to column c.                                *)
LEMMA StayBefore ==
  ASSUME NEW line, NEW k, NEW c, Above(line, k, c), c \in Int,
         \A q \in k..Len(line) : line[q].col \in Int
  PROVE  Behind(line, k, c, Zero, k)
<1>1. \A q \in k..Len(line) : line[q].col # c
  <2> TAKE q \in k..Len(line)
  <2>1. c < line[q].col /\ line[q].col \in Int BY DEF Above
  <2> QED BY <2>1
<1>2. \A w : HasFrom(line, k, c, w) => w = Zero BY <1>1, Zenon DEF HasFrom
<1> QED BY <1>2, Zenon DEF Behind

(* What is merged from two positions on.                                   *)
Merges(r, n, s, t, op, k, l) ==
  /\ r \in Seq(Entry(n)) /\ AscendingLine(r)
  /\ \A b \in Int : Above(s, k, b) /\ Above(t, l, b) => Above(r, 1, b)
  /\ \A c, v, w : HasFrom(s, k, c, v) /\ HasFrom(t, l, c, w) => Has(r, c, op[v][w])

(* One step of the merge.                                                  *)
LEMMA MergePut ==
  ASSUME NEW n \in Nat, NEW s, NEW t, NEW op, NEW c \in 1..n, NEW v, NEW w, op[v][w] \in Value,
         NEW k, NEW l, NEW k2, NEW l2, k2 # k \/ l2 # l,
         Behind(s, k, c, v, k2), Behind(t, l, c, w, l2),
         NEW rest, Merges(rest, n, s, t, op, k2, l2)
  PROVE  Merges(Kept(c, op[v][w]) \o rest, n, s, t, op, k, l)
<1> DEFINE r == Kept(c, op[v][w]) \o rest
<1>1. rest \in Seq(Entry(n)) /\ AscendingLine(rest) BY DEF Merges
<1>2. Above(rest, 1, c)
  <2>1. Above(s, k2, c) /\ Above(t, l2, c) BY DEF Behind
  <2>2. c \in Int OBVIOUS
  <2> QED BY <2>1, <2>2 DEF Merges
<1>3. Put(r, n, c, op[v][w], rest)
  BY <1>1, <1>2, PutFirst
<1> HIDE DEF r
<1>4. ASSUME NEW b \in Int, Above(s, k, b), Above(t, l, b) PROVE Above(r, 1, b)
  <2>1. b < c BY <1>4 DEF Behind
  <2> QED BY <1>3, <2>1 DEF Put
<1>5. ASSUME NEW d, NEW x, NEW y, HasFrom(s, k, d, x), HasFrom(t, l, d, y)
      PROVE  Has(r, d, op[x][y])
  <2>1. CASE d = c
    <3>1. x = v /\ y = w BY <1>5, <2>1, Zenon DEF Behind
    <3> QED BY <1>3, <2>1, <3>1 DEF Put
  <2>2. CASE d # c
    <3>1. HasFrom(s, k2, d, x) /\ HasFrom(t, l2, d, y) BY <1>5, <2>2, Zenon DEF Behind
    <3>2. Has(rest, d, op[x][y]) BY <3>1, Zenon DEF Merges
    <3> QED BY <1>3, <2>2, <3>2 DEF Put
  <2> QED BY <2>1, <2>2
<1>6. r \in Seq(Entry(n)) /\ AscendingLine(r) BY <1>3 DEF Put
<1>7. Merges(r, n, s, t, op, k, l) BY <1>4, <1>5, <1>6 DEF Merges
<1> QED BY <1>7 DEF r

(* Where a merge goes on from a place, and what it does at one.            *)
NextS(at) == [s |-> at.s + 1, t |-> at.t]
NextT(at) == [s |-> at.s, t |-> at.t + 1]
NextST(at) == [s |-> at.s + 1, t |-> at.t + 1]

(* Which of the two rows merging takes its next entry from.                *)
TakesS(s, t, at) == at.t > Len(t) \/ (at.s <= Len(s) /\ s[at.s].col < t[at.t].col)
TakesT(s, t, at) == at.s > Len(s) \/ t[at.t].col < s[at.s].col

(* What merging does at one pair of places.                                *)
MergeStep(s, t, op, at, merge) ==
  IF at.s > Len(s) /\ at.t > Len(t) THEN <<>>
  ELSE IF TakesS(s, t, at) THEN Kept(s[at.s].col, op[s[at.s].val][Zero]) \o merge[NextS(at)]
  ELSE IF TakesT(s, t, at) THEN Kept(t[at.t].col, op[Zero][t[at.t].val]) \o merge[NextT(at)]
  ELSE Kept(s[at.s].col, op[s[at.s].val][t[at.t].val]) \o merge[NextST(at)]

(* An operation that the merge can be used for.                            *)
Binary(op) == op[Zero][Zero] = Zero /\ \A a, b \in Value : op[a][b] \in Value

(* How much of the two rows a merge has before it.                         *)
Left(s, t, at) == (Len(s) + 1 - at.s) + (Len(t) + 1 - at.t)

(* The places it goes on with leave less to do.                            *)
Later(s, t, at, next) == next \in Places(s, t) /\ Left(s, t, next) < Left(s, t, at)

(* Where the merge goes on is a place that leaves less.                    *)
GoesOn(s, t, at) ==
  /\ at.s \in 1..(Len(s) + 1) /\ at.t \in 1..(Len(t) + 1) /\ Left(s, t, at) \in Nat
  /\ at.s + 1 # at.s /\ at.t + 1 # at.t
  /\ TakesS(s, t, at) => at.s \in 1..Len(s) /\ Later(s, t, at, NextS(at))
  /\ ~TakesS(s, t, at) => at.t \in 1..Len(t)
  /\ ~TakesS(s, t, at) /\ TakesT(s, t, at) => Later(s, t, at, NextT(at))
  /\ ~TakesT(s, t, at) => at.s \in 1..Len(s)
  /\ ~TakesS(s, t, at) /\ ~TakesT(s, t, at) => Later(s, t, at, NextST(at))

(* One more is one less of what is left.                                   *)
LEMMA LeftLess ==
  \A a, b, c, d \in Int :
    /\ (c + 1 - (a + 1)) + (d + 1 - b) < (c + 1 - a) + (d + 1 - b)
    /\ (c + 1 - a) + (d + 1 - (b + 1)) < (c + 1 - a) + (d + 1 - b)
    /\ (c + 1 - (a + 1)) + (d + 1 - (b + 1)) < (c + 1 - a) + (d + 1 - b)
  OBVIOUS

(* Wherever merging is not at its end, it goes on.                         *)
LEMMA MergePlaces ==
  ASSUME NEW s, NEW t, Len(s) \in Nat, Len(t) \in Nat, NEW at \in Places(s, t),
         ~(at.s > Len(s) /\ at.t > Len(t))
  PROVE  GoesOn(s, t, at)
<1>2. at.s \in 1..(Len(s) + 1) /\ at.t \in 1..(Len(t) + 1) BY DEF Places
<1>3. TakesS(s, t, at) => at.s \in 1..Len(s) BY <1>2 DEF TakesS
<1>4. ~TakesS(s, t, at) => at.t \in 1..Len(t) BY <1>2 DEF TakesS
<1>5. ~TakesT(s, t, at) => at.s \in 1..Len(s) BY <1>2 DEF TakesT
<1>6. at.s \in 1..Len(s) => at.s + 1 \in 1..(Len(s) + 1) OBVIOUS
<1>7. at.t \in 1..Len(t) => at.t + 1 \in 1..(Len(t) + 1) OBVIOUS
<1>8. at.s \in 1..Len(s) => NextS(at) \in Places(s, t) BY <1>2, <1>6 DEF NextS, Places
<1>9. at.t \in 1..Len(t) => NextT(at) \in Places(s, t) BY <1>2, <1>7 DEF NextT, Places
<1>10. at.s \in 1..Len(s) /\ at.t \in 1..Len(t) => NextST(at) \in Places(s, t)
  BY <1>6, <1>7 DEF NextST, Places
<1>11. NextS(at).s = at.s + 1 /\ NextS(at).t = at.t BY DEF NextS
<1>12. NextT(at).s = at.s /\ NextT(at).t = at.t + 1 BY DEF NextT
<1>13. NextST(at).s = at.s + 1 /\ NextST(at).t = at.t + 1 BY DEF NextST
<1>18. at.s \in Int /\ at.t \in Int /\ Len(s) \in Int /\ Len(t) \in Int BY <1>2
<1>19. Left(s, t, at) = (Len(s) + 1 - at.s) + (Len(t) + 1 - at.t) BY Zenon DEF Left
<1>14. Left(s, t, NextS(at)) < Left(s, t, at)
  <2>1. Left(s, t, NextS(at)) = (Len(s) + 1 - (at.s + 1)) + (Len(t) + 1 - at.t)
    BY <1>11, Zenon DEF Left
  <2> QED BY <1>18, <1>19, <2>1, LeftLess, ZenonT(60)
<1>15. Left(s, t, NextT(at)) < Left(s, t, at)
  <2>1. Left(s, t, NextT(at)) = (Len(s) + 1 - at.s) + (Len(t) + 1 - (at.t + 1))
    BY <1>12, Zenon DEF Left
  <2> QED BY <1>18, <1>19, <2>1, LeftLess, ZenonT(60)
<1>16. Left(s, t, NextST(at)) < Left(s, t, at)
  <2>1. Left(s, t, NextST(at)) = (Len(s) + 1 - (at.s + 1)) + (Len(t) + 1 - (at.t + 1))
    BY <1>13, Zenon DEF Left
  <2> QED BY <1>18, <1>19, <2>1, LeftLess, ZenonT(60)
<1>17. Left(s, t, at) \in Nat /\ at.s + 1 # at.s /\ at.t + 1 # at.t BY <1>2, SMTT(40) DEF Left
<1> QED
  BY <1>2, <1>3, <1>4, <1>5, <1>8, <1>9, <1>10, <1>14, <1>15, <1>16, <1>17, Zenon
  DEF GoesOn, Later

(* One step gives a row of entries.                                        *)
LEMMA MergeTyped ==
  ASSUME NEW n \in Nat, NEW s \in Seq(Entry(n)), NEW t \in Seq(Entry(n)), NEW op, Binary(op),
         NEW at \in Places(s, t), NEW h \in [Places(s, t) -> Seq(Entry(n))]
  PROVE  MergeStep(s, t, op, at, h) \in Seq(Entry(n))
<1>1. CASE at.s > Len(s) /\ at.t > Len(t)
  <2>1. <<>> \in Seq(Entry(n)) BY EmptySeq
  <2> QED BY <1>1, <2>1 DEF MergeStep
<1>2. CASE ~(at.s > Len(s) /\ at.t > Len(t))
  <2>0. Len(s) \in Nat /\ Len(t) \in Nat OBVIOUS
  <2>1. GoesOn(s, t, at) BY <1>2, <2>0, MergePlaces
  <2>2. ASSUME NEW c \in 1..n, NEW v \in Value, NEW rest \in Seq(Entry(n))
        PROVE  Kept(c, v) \o rest \in Seq(Entry(n))
    <3>1. Kept(c, v) \in Seq(Entry(n)) BY KeptEntry DEF Short
    <3> QED BY <3>1, ConcatProperties
  <2>3. /\ \A q \in 1..Len(s) : s[q].col \in 1..n /\ s[q].val \in Value
        /\ \A q \in 1..Len(t) : t[q].col \in 1..n /\ t[q].val \in Value
    <3>1. \A q \in 1..Len(s) : s[q] \in Entry(n) OBVIOUS
    <3>2. \A q \in 1..Len(t) : t[q] \in Entry(n) OBVIOUS
    <3> QED BY <3>1, <3>2 DEF Entry
  <2>4. Zero \in Value /\ \A a, b \in Value : op[a][b] \in Value BY EntryAssumption DEF Binary
  <2>5. CASE TakesS(s, t, at)
    <3>1. at.s \in 1..Len(s) /\ h[NextS(at)] \in Seq(Entry(n))
      BY <2>1, <2>5 DEF GoesOn, Later
    <3>2. s[at.s].col \in 1..n /\ op[s[at.s].val][Zero] \in Value BY <2>3, <2>4, <3>1
    <3>3. Kept(s[at.s].col, op[s[at.s].val][Zero]) \o h[NextS(at)] \in Seq(Entry(n))
      BY <2>2, <3>1, <3>2
    <3> QED BY <1>2, <2>5, <3>3, Zenon DEF MergeStep
  <2>6. CASE ~TakesS(s, t, at) /\ TakesT(s, t, at)
    <3>1. at.t \in 1..Len(t) /\ h[NextT(at)] \in Seq(Entry(n))
      BY <2>1, <2>6 DEF GoesOn, Later
    <3>2. t[at.t].col \in 1..n /\ op[Zero][t[at.t].val] \in Value BY <2>3, <2>4, <3>1
    <3>3. Kept(t[at.t].col, op[Zero][t[at.t].val]) \o h[NextT(at)] \in Seq(Entry(n))
      BY <2>2, <3>1, <3>2
    <3> QED BY <1>2, <2>6, <3>3, Zenon DEF MergeStep
  <2>7. CASE ~TakesS(s, t, at) /\ ~TakesT(s, t, at)
    <3>1. at.s \in 1..Len(s) /\ at.t \in 1..Len(t) /\ h[NextST(at)] \in Seq(Entry(n))
      BY <2>1, <2>7 DEF GoesOn, Later
    <3>2. s[at.s].col \in 1..n /\ op[s[at.s].val][t[at.t].val] \in Value BY <2>3, <2>4, <3>1
    <3>3. Kept(s[at.s].col, op[s[at.s].val][t[at.t].val]) \o h[NextST(at)] \in Seq(Entry(n))
      BY <2>2, <3>1, <3>2
    <3> QED BY <1>2, <2>7, <3>3, Zenon DEF MergeStep
  <2> QED BY <2>5, <2>6, <2>7
<1> QED BY <1>1, <1>2

(* What has the result of every step.                                      *)
MergeTable(s, t, op, g) == \A at \in Places(s, t) : g[at] = MergeStep(s, t, op, at, g)

(* What Merged computes by recursion.                                      *)
LEMMA MergeRecursion ==
  ASSUME NEW n \in Nat, NEW s \in Seq(Entry(n)), NEW t \in Seq(Entry(n)), NEW op, Binary(op)
  PROVE  \E g : Merged(s, t, op) = g[[s |-> 1, t |-> 1]] /\ MergeTable(s, t, op, g)
<1> DEFINE D == Places(s, t)
           V == Seq(Entry(n))
           N == Len(s) + Len(t) + 2
           rank == [at \in D |-> Left(s, t, at)]
           F == [at \in D |-> [h \in [D -> V] |-> MergeStep(s, t, op, at, h)]]
           g == CHOOSE g : g = [at \in D |->
                  IF at.s > Len(s) /\ at.t > Len(t) THEN <<>>
                  ELSE IF at.t > Len(t) \/ (at.s <= Len(s) /\ s[at.s].col < t[at.t].col)
                    THEN Kept(s[at.s].col, op[s[at.s].val][Zero]) \o g[[s |-> at.s + 1, t |-> at.t]]
                  ELSE IF at.s > Len(s) \/ t[at.t].col < s[at.s].col
                    THEN Kept(t[at.t].col, op[Zero][t[at.t].val]) \o g[[s |-> at.s, t |-> at.t + 1]]
                  ELSE Kept(s[at.s].col, op[s[at.s].val][t[at.t].val]) \o g[[s |-> at.s + 1, t |-> at.t + 1]]]
<1>1. V # {} /\ N \in Nat
  <2>1. <<>> \in V BY EmptySeq
  <2> QED BY <2>1
<1>2. rank \in [D -> 0..N]
  <2>1. Len(s) \in Nat /\ Len(t) \in Nat OBVIOUS
  <2>2. \A at \in D : at.s \in 1..(Len(s) + 1) /\ at.t \in 1..(Len(t) + 1) BY DEF Places
  <2>3. \A at \in D : Left(s, t, at) \in 0..N BY <2>1, <2>2, SMTT(40) DEF Left
  <2> HIDE DEF D, N
  <2> QED BY <2>3
<1>3. F \in [D -> [[D -> V] -> V]]
  <2>1. \A at \in D : \A h \in [D -> V] : MergeStep(s, t, op, at, h) \in V BY MergeTyped
  <2> HIDE DEF D, V
  <2> QED BY <2>1
<1>4. ByRank(D, V, rank, F)
  <2> SUFFICES ASSUME NEW d \in D, NEW x \in [D -> V], NEW y \in [D -> V],
                      \A e \in D : rank[e] < rank[d] => x[e] = y[e]
               PROVE  F[d][x] = F[d][y]
    BY DEF ByRank
  <2>1. F[d][x] = MergeStep(s, t, op, d, x) /\ F[d][y] = MergeStep(s, t, op, d, y)
    <3> HIDE DEF D, V
    <3> QED OBVIOUS
  <2>2. CASE d.s > Len(s) /\ d.t > Len(t) BY <2>1, <2>2, Zenon DEF MergeStep
  <2>3. CASE ~(d.s > Len(s) /\ d.t > Len(t))
    <3>0. Len(s) \in Nat /\ Len(t) \in Nat OBVIOUS
    <3>1. GoesOn(s, t, d) BY <2>3, <3>0, MergePlaces
    <3>2. ASSUME NEW e, Later(s, t, d, e) PROVE x[e] = y[e]
      <4>1. e \in D /\ Left(s, t, e) < Left(s, t, d) BY <3>2 DEF Later
      <4>2. rank[e] = Left(s, t, e) /\ rank[d] = Left(s, t, d)
        <5> HIDE DEF D
        <5> QED BY <4>1
      <4> QED BY <4>1, <4>2
    <3>3. CASE TakesS(s, t, d)
      <4>1. x[NextS(d)] = y[NextS(d)] BY <3>1, <3>2, <3>3 DEF GoesOn
      <4> QED BY <2>1, <2>3, <3>3, <4>1, Zenon DEF MergeStep
    <3>4. CASE ~TakesS(s, t, d) /\ TakesT(s, t, d)
      <4>1. x[NextT(d)] = y[NextT(d)] BY <3>1, <3>2, <3>4 DEF GoesOn
      <4> QED BY <2>1, <2>3, <3>4, <4>1, Zenon DEF MergeStep
    <3>5. CASE ~TakesS(s, t, d) /\ ~TakesT(s, t, d)
      <4>1. x[NextST(d)] = y[NextST(d)] BY <3>1, <3>2, <3>5 DEF GoesOn
      <4> QED BY <2>1, <2>3, <3>5, <4>1, Zenon DEF MergeStep
    <3> QED BY <3>3, <3>4, <3>5
  <2> QED BY <2>2, <2>3
<1>5. PICK x \in [D -> V] : x = [d \in D |-> F[d][x]]
  <2> HIDE DEF D, V, rank, F, N
  <2>1. Recursive(D, V, F) BY <1>1, <1>2, <1>3, <1>4, BoundedRecursion, Zenon
  <2> QED BY <2>1 DEF Recursive
<1>6. x = [at \in D |-> MergeStep(s, t, op, at, x)]
  <2> HIDE DEF D, V
  <2>1. \A d \in D : F[d][x] = MergeStep(s, t, op, d, x) OBVIOUS
  <2> QED BY <2>1, <1>5
<1>7. x = [at \in D |->
                  IF at.s > Len(s) /\ at.t > Len(t) THEN <<>>
                  ELSE IF at.t > Len(t) \/ (at.s <= Len(s) /\ s[at.s].col < t[at.t].col)
                    THEN Kept(s[at.s].col, op[s[at.s].val][Zero]) \o x[[s |-> at.s + 1, t |-> at.t]]
                  ELSE IF at.s > Len(s) \/ t[at.t].col < s[at.s].col
                    THEN Kept(t[at.t].col, op[Zero][t[at.t].val]) \o x[[s |-> at.s, t |-> at.t + 1]]
                  ELSE Kept(s[at.s].col, op[s[at.s].val][t[at.t].val]) \o x[[s |-> at.s + 1, t |-> at.t + 1]]]
  <2> HIDE DEF D
  <2> QED BY <1>6, Zenon DEF MergeStep, NextS, NextT, NextST, TakesS, TakesT
<1>8. g = [at \in D |->
                  IF at.s > Len(s) /\ at.t > Len(t) THEN <<>>
                  ELSE IF at.t > Len(t) \/ (at.s <= Len(s) /\ s[at.s].col < t[at.t].col)
                    THEN Kept(s[at.s].col, op[s[at.s].val][Zero]) \o g[[s |-> at.s + 1, t |-> at.t]]
                  ELSE IF at.s > Len(s) \/ t[at.t].col < s[at.s].col
                    THEN Kept(t[at.t].col, op[Zero][t[at.t].val]) \o g[[s |-> at.s, t |-> at.t + 1]]
                  ELSE Kept(s[at.s].col, op[s[at.s].val][t[at.t].val]) \o g[[s |-> at.s + 1, t |-> at.t + 1]]]
  <2> HIDE DEF D
  <2> QED BY <1>7, Zenon
<1>9. Merged(s, t, op) = g[[s |-> 1, t |-> 1]]
  <2>1. MergedFrom(s, t, op) = g BY DEF MergedFrom
  <2> HIDE DEF g
  <2> QED BY <2>1 DEF Merged
<1>10. \A at \in D : g[at] = MergeStep(s, t, op, at, g)
  <2> HIDE DEF g, D
  <2> QED BY <1>8, Zenon DEF MergeStep, NextS, NextT, NextST, TakesS, TakesT
<1> HIDE DEF g
<1>11. MergeTable(s, t, op, g) BY <1>10 DEF MergeTable
<1> QED BY <1>9, <1>11

(* The rest of the merge from any place on is right.                       *)
LEMMA MergeRight ==
  ASSUME NEW n \in Nat, NEW s \in Seq(Entry(n)), NEW t \in Seq(Entry(n)), NEW op, Binary(op),
         AscendingLine(s), AscendingLine(t),
         NEW g, MergeTable(s, t, op, g),
         NEW at \in Places(s, t)
  PROVE  Merges(g[at], n, s, t, op, at.s, at.t)
<1> DEFINE S == {d \in Nat : \A p \in Places(s, t) :
                    Left(s, t, p) <= d => Merges(g[p], n, s, t, op, p.s, p.t)}
<1>1. Len(s) \in Nat /\ Len(t) \in Nat OBVIOUS
<1>2. \A p \in Places(s, t) : p.s \in 1..(Len(s) + 1) /\ p.t \in 1..(Len(t) + 1) BY DEF Places
<1>3. /\ \A q \in 1..Len(s) : s[q].col \in 1..n /\ s[q].val \in Value
      /\ \A q \in 1..Len(t) : t[q].col \in 1..n /\ t[q].val \in Value
  <2>1. \A q \in 1..Len(s) : s[q] \in Entry(n) OBVIOUS
  <2>2. \A q \in 1..Len(t) : t[q] \in Entry(n) OBVIOUS
  <2> QED BY <2>1, <2>2 DEF Entry
<1>4. Zero \in Value /\ op[Zero][Zero] = Zero /\ \A a, b \in Value : op[a][b] \in Value
  BY EntryAssumption DEF Binary
<1>5. ASSUME NEW p \in Places(s, t), p.s > Len(s), p.t > Len(t)
      PROVE  Merges(g[p], n, s, t, op, p.s, p.t)
  <2>1. g[p] = <<>> BY <1>5, Zenon DEF MergeTable, MergeStep
  <2>2. g[p] \in Seq(Entry(n)) /\ Len(g[p]) = 0 BY <2>1, EmptySeq
  <2>3. AscendingLine(g[p]) /\ \A b \in Int : Above(g[p], 1, b) BY <2>2 DEF AscendingLine, Above
  <2>4. (\A q \in p.s..Len(s) : FALSE) /\ (\A q \in p.t..Len(t) : FALSE) BY <1>1, <1>2, <1>5
  <2>5. ASSUME NEW c, NEW v, NEW w, HasFrom(s, p.s, c, v), HasFrom(t, p.t, c, w)
        PROVE  Has(g[p], c, op[v][w])
    <3>1. v = Zero /\ w = Zero BY <2>4, <2>5 DEF HasFrom
    <3> QED BY <1>4, <2>2, <3>1 DEF Has
  <2> QED BY <2>2, <2>3, <2>5 DEF Merges
<1>6. 0 \in S
  <2> SUFFICES ASSUME NEW p \in Places(s, t), Left(s, t, p) <= 0
               PROVE  Merges(g[p], n, s, t, op, p.s, p.t)
    OBVIOUS
  <2>1. p.s \in 1..(Len(s) + 1) /\ p.t \in 1..(Len(t) + 1) BY <1>2
  <2>2. p.s > Len(s) /\ p.t > Len(t) BY <1>1, <2>1, SMTT(40) DEF Left
  <2> QED BY <1>5, <2>2
<1>7. ASSUME NEW d \in Nat, d \in S PROVE d + 1 \in S
  <2> SUFFICES ASSUME NEW p \in Places(s, t), Left(s, t, p) <= d + 1
               PROVE  Merges(g[p], n, s, t, op, p.s, p.t)
    OBVIOUS
  <2>1. CASE p.s > Len(s) /\ p.t > Len(t) BY <1>5, <2>1
  <2>2. CASE ~(p.s > Len(s) /\ p.t > Len(t))
    <3>0. GoesOn(s, t, p) BY <1>1, <2>2, MergePlaces
    <3>1. /\ p.s \in 1..(Len(s) + 1) /\ p.t \in 1..(Len(t) + 1)
          /\ TakesS(s, t, p) => p.s \in 1..Len(s)
          /\ ~TakesS(s, t, p) => p.t \in 1..Len(t)
          /\ ~TakesT(s, t, p) => p.s \in 1..Len(s)
      BY <3>0 DEF GoesOn
    <3>2. p.s + 1 # p.s /\ p.t + 1 # p.t BY <3>0 DEF GoesOn
    <3>6. ASSUME NEW e, Later(s, t, p, e) PROVE Merges(g[e], n, s, t, op, e.s, e.t)
      <4>1. e \in Places(s, t) /\ Left(s, t, e) < Left(s, t, p) BY <3>6 DEF Later
      <4>2. e.s \in Int /\ e.t \in Int /\ p.s \in Int /\ p.t \in Int BY <1>2, <4>1
      <4>3. Left(s, t, e) \in Int /\ Left(s, t, p) \in Int
        <5>1. Len(s) \in Int /\ Len(t) \in Int BY <1>1
        <5>2. (Len(s) + 1 - e.s) + (Len(t) + 1 - e.t) \in Int BY <4>2, <5>1, SMTT(40)
        <5>3. (Len(s) + 1 - p.s) + (Len(t) + 1 - p.t) \in Int BY <4>2, <5>1, SMTT(40)
        <5> QED BY <5>2, <5>3, Zenon DEF Left
      <4>4. Left(s, t, e) <= d BY <4>1, <4>3
      <4> QED BY <1>7, <4>1, <4>4
    <3>3. CASE TakesS(s, t, p)
      <4> DEFINE c == s[p.s].col
                 v == s[p.s].val
      <4>1. p.s \in 1..Len(s) BY <3>1, <3>3
      <4>10. NextS(p).s = p.s + 1 /\ NextS(p).t = p.t BY DEF NextS
      <4>2. g[p] = Kept(c, op[v][Zero]) \o g[NextS(p)] BY <2>2, <3>3, Zenon DEF MergeTable, MergeStep
      <4>3. Behind(s, p.s, c, v, p.s + 1) BY <4>1, StepOver
      <4>4. c \in 1..n /\ v \in Value /\ c \in Int BY <1>3, <4>1
      <4>5. \A q \in p.t..Len(t) : q \in 1..Len(t) /\ t[q].col \in Int /\ c < t[q].col
        <5> TAKE q \in p.t..Len(t)
        <5>1. q \in 1..Len(t) /\ p.t \in 1..Len(t) /\ p.t <= q BY <1>1, <3>1
        <5>2. c < t[p.t].col BY <1>1, <3>3, <5>1 DEF TakesS
        <5>3. \A h \in 1..Len(t) : t[h].col \in Int BY <1>3
        <5>4. CASE p.t < q
          <6>1. t[p.t].col < t[q].col BY <1>1, <5>1, <5>3, <5>4, AscendingFar
          <6>2. t[p.t].col \in Int /\ t[q].col \in Int BY <5>1, <5>3
          <6> HIDE DEF c
          <6> QED BY <4>4, <5>1, <5>2, <6>1, <6>2
        <5>5. CASE p.t = q BY <5>1, <5>2, <5>3, <5>5
        <5> QED BY <5>1, <5>4, <5>5
      <4>6. Behind(t, p.t, c, Zero, p.t)
        <5> HIDE DEF c
        <5>1. Above(t, p.t, c) BY <4>5 DEF Above
        <5> QED BY <4>4, <4>5, <5>1, StayBefore
      <4>7. Merges(g[NextS(p)], n, s, t, op, NextS(p).s, NextS(p).t)
        BY <3>0, <3>6, <3>3 DEF GoesOn
      <4>8. Merges(g[NextS(p)], n, s, t, op, p.s + 1, p.t) BY <4>7, <4>10
      <4>9. op[v][Zero] \in Value BY <1>4, <4>4
      <4> HIDE DEF c, v
      <4> QED BY <3>2, <4>2, <4>3, <4>4, <4>6, <4>8, <4>9, MergePut
    <3>4. CASE ~TakesS(s, t, p) /\ TakesT(s, t, p)
      <4> DEFINE c == t[p.t].col
                 w == t[p.t].val
      <4>1. p.t \in 1..Len(t) BY <3>1, <3>4
      <4>10. NextT(p).s = p.s /\ NextT(p).t = p.t + 1 BY DEF NextT
      <4>2. g[p] = Kept(c, op[Zero][w]) \o g[NextT(p)] BY <2>2, <3>4, Zenon DEF MergeTable, MergeStep
      <4>3. Behind(t, p.t, c, w, p.t + 1) BY <4>1, StepOver
      <4>4. c \in 1..n /\ w \in Value /\ c \in Int BY <1>3, <4>1
      <4>5. \A q \in p.s..Len(s) : q \in 1..Len(s) /\ s[q].col \in Int /\ c < s[q].col
        <5> TAKE q \in p.s..Len(s)
        <5>1. q \in 1..Len(s) /\ p.s \in 1..Len(s) /\ p.s <= q BY <1>1, <3>1
        <5>2. c < s[p.s].col BY <1>1, <3>4, <5>1 DEF TakesT
        <5>3. \A h \in 1..Len(s) : s[h].col \in Int BY <1>3
        <5>4. CASE p.s < q
          <6>1. s[p.s].col < s[q].col BY <1>1, <5>1, <5>3, <5>4, AscendingFar
          <6>2. s[p.s].col \in Int /\ s[q].col \in Int BY <5>1, <5>3
          <6> HIDE DEF c
          <6> QED BY <4>4, <5>1, <5>2, <6>1, <6>2
        <5>5. CASE p.s = q BY <5>1, <5>2, <5>3, <5>5
        <5> QED BY <5>1, <5>4, <5>5
      <4>6. Behind(s, p.s, c, Zero, p.s)
        <5> HIDE DEF c
        <5>1. Above(s, p.s, c) BY <4>5 DEF Above
        <5> QED BY <4>4, <4>5, <5>1, StayBefore
      <4>7. Merges(g[NextT(p)], n, s, t, op, NextT(p).s, NextT(p).t)
        BY <3>0, <3>6, <3>4 DEF GoesOn
      <4>8. Merges(g[NextT(p)], n, s, t, op, p.s, p.t + 1) BY <4>7, <4>10
      <4>9. op[Zero][w] \in Value BY <1>4, <4>4
      <4> HIDE DEF c, w
      <4> QED BY <3>2, <4>2, <4>3, <4>4, <4>6, <4>8, <4>9, MergePut
    <3>5. CASE ~TakesS(s, t, p) /\ ~TakesT(s, t, p)
      <4> DEFINE c == s[p.s].col
                 v == s[p.s].val
                 w == t[p.t].val
      <4>1. p.s \in 1..Len(s) /\ p.t \in 1..Len(t) BY <3>1, <3>5
      <4>10. NextST(p).s = p.s + 1 /\ NextST(p).t = p.t + 1 BY DEF NextST
      <4>2. g[p] = Kept(c, op[v][w]) \o g[NextST(p)] BY <2>2, <3>5, Zenon DEF MergeTable, MergeStep
      <4>11. s[p.s].col \in 1..n /\ s[p.s].val \in Value BY <1>3, <4>1
      <4>12. t[p.t].col \in 1..n /\ t[p.t].val \in Value BY <1>3, <4>1
      <4>4. c \in 1..n /\ v \in Value /\ c \in Int /\ w \in Value /\ t[p.t].col \in Int
        BY <4>11, <4>12
      <4>5. t[p.t].col = c
        <5>1. ~(s[p.s].col < t[p.t].col) /\ ~(t[p.t].col < s[p.s].col)
          BY <1>1, <3>5, <4>1 DEF TakesS, TakesT
        <5> QED BY <4>4, <5>1
      <4>3. Behind(s, p.s, c, v, p.s + 1) BY <4>1, StepOver
      <4>6. Behind(t, p.t, c, w, p.t + 1)
        <5>1. Behind(t, p.t, t[p.t].col, t[p.t].val, p.t + 1) BY <4>1, StepOver
        <5> QED BY <4>5, <5>1
      <4>7. Merges(g[NextST(p)], n, s, t, op, NextST(p).s, NextST(p).t)
        BY <3>0, <3>6, <3>5 DEF GoesOn
      <4>8. Merges(g[NextST(p)], n, s, t, op, p.s + 1, p.t + 1) BY <4>7, <4>10
      <4>9. op[v][w] \in Value BY <1>4, <4>4
      <4> HIDE DEF c, v, w
      <4> QED BY <3>2, <4>2, <4>3, <4>4, <4>6, <4>8, <4>9, MergePut
    <3> QED BY <3>3, <3>4, <3>5
  <2> QED BY <2>1, <2>2
<1>8. Nat \subseteq S
  <2> HIDE DEF S
  <2> QED BY <1>6, <1>7, NatSetInduction
<1>12. at.s \in 1..(Len(s) + 1) /\ at.t \in 1..(Len(t) + 1) BY <1>2
<1>9. Left(s, t, at) \in Nat BY <1>1, <1>12, SMTT(40) DEF Left
<1>10. Left(s, t, at) \in S BY <1>8, <1>9
<1>11. Left(s, t, at) <= Left(s, t, at) BY <1>9
<1> QED BY <1>10, <1>11

(* The merge of two rows in order is one, and has at every column what the *)
(* operation makes of what the rows have there.                            *)
LEMMA MergedHas ==
  ASSUME NEW n \in Nat, NEW s \in Seq(Entry(n)), NEW t \in Seq(Entry(n)), NEW op, Binary(op),
         AscendingLine(s), AscendingLine(t)
  PROVE  /\ Merged(s, t, op) \in Seq(Entry(n)) /\ AscendingLine(Merged(s, t, op))
         /\ \A c, v, w : Has(s, c, v) /\ Has(t, c, w) => Has(Merged(s, t, op), c, op[v][w])
<1> DEFINE first == [s |-> 1, t |-> 1]
<1>1. PICK g : Merged(s, t, op) = g[first] /\ MergeTable(s, t, op, g) BY MergeRecursion
<1>2. first \in Places(s, t) /\ first.s = 1 /\ first.t = 1
  <2>1. Len(s) \in Nat /\ Len(t) \in Nat OBVIOUS
  <2>2. 1 \in 1..(Len(s) + 1) /\ 1 \in 1..(Len(t) + 1) BY <2>1
  <2> QED BY <2>2 DEF Places
<1> HIDE DEF first
<1>3. Merges(g[first], n, s, t, op, 1, 1)
  <2>1. Merges(g[first], n, s, t, op, first.s, first.t) BY <1>1, <1>2, MergeRight
  <2> QED BY <1>2, <2>1
<1>4. Merges(Merged(s, t, op), n, s, t, op, 1, 1) BY <1>1, <1>3
<1>5. \A line, c, v : Has(line, c, v) => HasFrom(line, 1, c, v) BY Zenon DEF Has, HasFrom
<1> QED BY <1>4, <1>5, Zenon DEF Merges

(* Both operations the matrices are combined with can be merged.           *)
LEMMA BothBinary == Binary(add) /\ Binary(mul)
  BY EntryAssumption DEF Binary

(* A binary operation on two matrices of the same shape.                   *)
LEMMA ElementwiseGet ==
  ASSUME NEW A, IsCanonical(A), NEW B, IsCanonical(B), B.row = A.row, B.col = A.col,
         NEW op, Binary(op),
         NEW C, C = Pack(A.row, A.col, [i \in 1..A.row |-> Merged(Line(A, i), Line(B, i), op)])
  PROVE  /\ IsCanonical(C) /\ C.row = A.row /\ C.col = A.col
         /\ \A i \in 1..A.row : \A c \in 1..A.col : Get(C, i, c) = op[Get(A, i, c)][Get(B, i, c)]
<1> DEFINE lines == [i \in 1..A.row |-> Merged(Line(A, i), Line(B, i), op)]
<1>1. A.row \in Nat \ {0} /\ A.col \in Nat \ {0} BY DEF IsCanonical, Matrices
<1>2. ASSUME NEW i \in 1..A.row
      PROVE  /\ Merged(Line(A, i), Line(B, i), op) \in Seq(Entry(A.col))
             /\ AscendingLine(Merged(Line(A, i), Line(B, i), op))
             /\ \A c \in 1..A.col :
                  Has(Merged(Line(A, i), Line(B, i), op), c, op[Get(A, i, c)][Get(B, i, c)])
  <2>1. Line(A, i) \in Seq(Entry(A.col)) /\ AscendingLine(Line(A, i)) BY LineOf
  <2>2. Line(B, i) \in Seq(Entry(A.col)) /\ AscendingLine(Line(B, i)) BY LineOf
  <2>3. ASSUME NEW c \in 1..A.col
        PROVE  Has(Line(A, i), c, Get(A, i, c)) /\ Has(Line(B, i), c, Get(B, i, c))
    <3>1. c \in Nat BY <1>1
    <3>2. i \in 1..B.row OBVIOUS
    <3> QED BY <3>1, <3>2, GetLine
  <2>4. A.col \in Nat BY <1>1
  <2>5. /\ Merged(Line(A, i), Line(B, i), op) \in Seq(Entry(A.col))
        /\ AscendingLine(Merged(Line(A, i), Line(B, i), op))
        /\ \A c, v, w : Has(Line(A, i), c, v) /\ Has(Line(B, i), c, w)
                          => Has(Merged(Line(A, i), Line(B, i), op), c, op[v][w])
    BY <2>1, <2>2, <2>4, MergedHas
  <2> QED BY <2>3, <2>5
<1>3. lines \in [1..A.row -> Seq(Entry(A.col))] BY <1>2
<1>4. \A i \in 1..A.row : lines[i] = Merged(Line(A, i), Line(B, i), op) OBVIOUS
<1>5. C = Pack(A.row, A.col, lines) OBVIOUS
<1> HIDE DEF lines
<1>6. lines \in Rows(A.row, A.col)
  <2>1. \A i \in 1..A.row : AscendingLine(lines[i]) BY <1>2, <1>4
  <2> QED BY <1>3, <2>1 DEF Rows
<1>7. Gets(C, A.row, A.col, lines) BY <1>1, <1>5, <1>6, PackGet
<1>8. \A i \in 1..A.row : \A c \in 1..A.col :
        Has(lines[i], c, op[Get(A, i, c)][Get(B, i, c)])
  BY <1>2, <1>4
<1> QED BY <1>7, <1>8 DEF Gets

(* Other values for the same columns of a row.                             *)
Revalued(line, other, n) ==
  /\ other \in Seq(Entry(n)) /\ Len(other) = Len(line)
  /\ \A k \in 1..Len(line) : other[k].col = line[k].col

(* They are in the same order.                                             *)
LEMMA RevaluedAscending ==
  ASSUME NEW n \in Nat, NEW line \in Seq(Entry(n)), AscendingLine(line), NEW other, Revalued(line, other, n)
  PROVE  AscendingLine(other)
<1>1. Len(line) \in Nat /\ Len(other) = Len(line)
      /\ \A k \in 1..Len(line) : other[k].col = line[k].col
  BY DEF Revalued
<1> SUFFICES ASSUME NEW k \in 1..(Len(other) - 1) PROVE other[k].col < other[k + 1].col
  BY DEF AscendingLine
<1>2. k \in 1..(Len(line) - 1) /\ k \in 1..Len(line) /\ k + 1 \in 1..Len(line) BY <1>1
<1>3. line[k].col < line[k + 1].col BY <1>2 DEF AscendingLine
<1> QED BY <1>1, <1>2, <1>3

(* scale_rows, where it does not end in an error before row i.             *)
LEMMA ScaledLine ==
  ASSUME NEW n \in Nat, NEW line \in Seq(Entry(n)), NEW z \in Value,
         NEW other,
         other = [k \in DOMAIN line |-> [col |-> line[k].col, val |-> mul[line[k].val][z]]]
  PROVE  /\ Revalued(line, other, n)
         /\ \A c, v : Has(line, c, v) => Has(other, c, mul[v][z])
<1>1. Len(line) \in Nat /\ DOMAIN line = 1..Len(line)
      /\ \A k \in 1..Len(line) : line[k] \in Entry(n)
  OBVIOUS
<1>2. \A k \in 1..Len(line) : line[k].col \in 1..n /\ line[k].val \in Value BY <1>1 DEF Entry
<1>3. \A k \in 1..Len(line) : mul[line[k].val][z] \in Value BY <1>2, EntryAssumption
<1>4. \A k \in 1..Len(line) : [col |-> line[k].col, val |-> mul[line[k].val][z]] \in Entry(n)
  BY <1>2, <1>3 DEF Entry
<1>5. other \in [1..Len(line) -> Entry(n)] BY <1>1, <1>4
<1>6. other \in Seq(Entry(n)) /\ Len(other) = Len(line) BY <1>1, <1>5
<1>7. ASSUME NEW k \in 1..Len(line)
      PROVE  other[k].col = line[k].col /\ other[k].val = mul[line[k].val][z]
  <2>1. other[k] = [col |-> line[k].col, val |-> mul[line[k].val][z]] BY <1>1, Zenon
  <2> QED BY <2>1
<1>8. Revalued(line, other, n) BY <1>6, <1>7 DEF Revalued
<1>9. mul[Zero][z] = Zero
  <2>1. Zero \in Value BY EntryAssumption
  <2>2. mul[z][Zero] = Zero BY EntryAssumption
  <2>3. mul[Zero][z] = mul[z][Zero] BY <2>1, EntryAssumption
  <2> QED BY <2>2, <2>3
<1>10. ASSUME NEW c, NEW v, Has(line, c, v) PROVE Has(other, c, mul[v][z])
  <2>1. CASE \E k \in 1..Len(line) : line[k].col = c /\ v = line[k].val
    BY <1>6, <1>7, <2>1 DEF Has
  <2>2. CASE v = Zero /\ \A k \in 1..Len(line) : line[k].col # c
    BY <1>6, <1>7, <1>9, <2>2 DEF Has
  <2> QED BY <1>10, <2>1, <2>2, Zenon DEF Has
<1> QED BY <1>8, <1>10

(* The scaled rows above a factor zero, and the others as they were.       *)
LEMMA ScaleRowsGet ==
  ASSUME NEW A, IsCanonical(A), NEW X \in [1..A.row -> Value],
         NEW C, C = Pack(A.row, A.col, [i \in 1..A.row |->
                      IF \A h \in 1..i : X[h] # Zero
                        THEN [k \in DOMAIN Line(A, i) |->
                                [col |-> Line(A, i)[k].col, val |-> mul[Line(A, i)[k].val][X[i]]]]
                        ELSE Line(A, i)])
  PROVE  /\ IsCanonical(C) /\ C.row = A.row /\ C.col = A.col
         /\ \A i \in 1..A.row : \A c \in 1..A.col :
              Get(C, i, c) = IF \A h \in 1..i : X[h] # Zero THEN mul[Get(A, i, c)][X[i]]
                             ELSE Get(A, i, c)
<1> DEFINE good(i) == \A h \in 1..i : X[h] # Zero
           scaled(i) == [k \in DOMAIN Line(A, i) |->
                           [col |-> Line(A, i)[k].col, val |-> mul[Line(A, i)[k].val][X[i]]]]
           line(i) == IF good(i) THEN scaled(i) ELSE Line(A, i)
           lines == [i \in 1..A.row |-> line(i)]
           what(i, c) == IF good(i) THEN mul[Get(A, i, c)][X[i]] ELSE Get(A, i, c)
<1>1. A.row \in Nat \ {0} /\ A.col \in Nat \ {0} BY DEF IsCanonical, Matrices
<1>2. ASSUME NEW i \in 1..A.row
      PROVE  /\ line(i) \in Seq(Entry(A.col)) /\ AscendingLine(line(i))
             /\ \A c \in 1..A.col : Has(line(i), c, what(i, c))
  <2>1. Line(A, i) \in Seq(Entry(A.col)) /\ AscendingLine(Line(A, i)) BY LineOf
  <2>2. \A c \in 1..A.col : Has(Line(A, i), c, Get(A, i, c))
    <3> TAKE c \in 1..A.col
    <3>1. c \in Nat BY <1>1
    <3> QED BY <3>1, GetLine
  <2>3. X[i] \in Value /\ A.col \in Nat BY <1>1
  <2>4. /\ Revalued(Line(A, i), scaled(i), A.col)
        /\ \A c, v : Has(Line(A, i), c, v) => Has(scaled(i), c, mul[v][X[i]])
    BY <2>1, <2>3, ScaledLine
  <2> HIDE DEF scaled, good
  <2>5. scaled(i) \in Seq(Entry(A.col)) BY <2>4 DEF Revalued
  <2>6. AscendingLine(scaled(i)) BY <2>1, <2>3, <2>4, RevaluedAscending
  <2>7. CASE good(i) BY <2>2, <2>4, <2>5, <2>6, <2>7
  <2>8. CASE ~good(i) BY <2>1, <2>2, <2>8
  <2> QED BY <2>7, <2>8
<1>3. C = Pack(A.row, A.col, lines) OBVIOUS
<1> HIDE DEF line, what
<1>4. lines \in [1..A.row -> Seq(Entry(A.col))] BY <1>2
<1>5. \A i \in 1..A.row : lines[i] = line(i) OBVIOUS
<1> HIDE DEF lines
<1>6. lines \in Rows(A.row, A.col)
  <2>1. \A i \in 1..A.row : AscendingLine(lines[i]) BY <1>2, <1>5
  <2> QED BY <1>4, <2>1 DEF Rows
<1>7. Gets(C, A.row, A.col, lines) BY <1>1, <1>3, <1>6, PackGet
<1>8. \A i \in 1..A.row : \A c \in 1..A.col : Has(lines[i], c, what(i, c)) BY <1>2, <1>5, Zenon
<1>9. \A i \in 1..A.row : \A c \in 1..A.col : Get(C, i, c) = what(i, c) BY <1>7, <1>8 DEF Gets
<1>10. IsCanonical(C) /\ C.row = A.row /\ C.col = A.col BY <1>7 DEF Gets
<1> QED BY <1>9, <1>10 DEF what

(* What a search may find in a row is what get finds.                      *)
LEMMA GetIs ==
  ASSUME NEW A, IsCanonical(A), NEW i \in 1..A.row, NEW j \in Nat,
         NEW v, Found(A, j, A.p[i], A.p[i + 1], v)
  PROVE  Get(A, i, j) = v
<1> DEFINE w == Get(A, i, j)
           R == (A.p[i] + 1)..A.p[i + 1]
<1>1. Found(A, j, A.p[i], A.p[i + 1], w) BY GetFinds
<1>2. /\ A.p[i] \in Nat /\ A.p[i + 1] \in Nat /\ A.p[i + 1] <= Len(A.j) /\ Len(A.j) \in Nat
  BY RowsInside
<1>3. Sorted(A, A.p[i], A.p[i + 1]) BY RowSorted
<1>4. \A k \in R : k \in Int /\ A.j[k] \in Nat
  <2> TAKE k \in R
  <2>1. k \in 1..Len(A.j) BY <1>2, SMTT(40)
  <2>2. Columns(A) BY CanonicalColumns
  <2> QED BY <2>1, <2>2 DEF Columns
<1> HIDE DEF w
<1>5. ASSUME NEW k \in R, NEW l \in R, A.j[k] = j, A.j[l] = j PROVE k = l
  <2>1. k \in Int /\ l \in Int BY <1>4
  <2>2. ~(k < l)
    <3>1. k < l => A.j[k] < A.j[l] BY <1>3, Zenon DEF Sorted
    <3> QED BY <1>5, <3>1
  <2>3. ~(l < k)
    <3>1. l < k => A.j[l] < A.j[k] BY <1>3, Zenon DEF Sorted
    <3> QED BY <1>5, <3>1
  <2> QED BY <2>1, <2>2, <2>3
<1>6. /\ (\E k \in R : A.j[k] = j /\ v = A.x[k]) \/ (v = Zero /\ \A k \in R : A.j[k] # j)
      /\ (\E k \in R : A.j[k] = j /\ w = A.x[k]) \/ (w = Zero /\ \A k \in R : A.j[k] # j)
  BY <1>1 DEF Found
<1> HIDE DEF R
<1>7. v = w
  <2>1. CASE \A k \in R : A.j[k] # j BY <1>6, <2>1
  <2>2. CASE \E k \in R : A.j[k] = j
    <3>1. PICK k \in R : A.j[k] = j /\ v = A.x[k] BY <1>6, <2>2
    <3>2. PICK l \in R : A.j[l] = j /\ w = A.x[l] BY <1>6, <2>2
    <3>3. k = l BY <1>5, <3>1, <3>2
    <3> QED BY <3>1, <3>2, <3>3
  <2> QED BY <2>1, <2>2
<1> QED BY <1>7 DEF w

(* Five parts of the right types are a matrix.                              *)
LEMMA MatrixOfParts ==
  ASSUME NEW row \in Nat \ {0}, NEW col \in Nat \ {0},
         NEW p \in Seq(Nat), NEW j \in Seq(Nat), NEW x \in Seq(Value)
  PROVE  [row |-> row, col |-> col, p |-> p, j |-> j, x |-> x] \in Matrices
BY DEF Matrices

(* A change of values for every column, that leaves zero alone.            *)
Termwise(f, n) == \A c \in 1..n : f[c][Zero] = Zero /\ \A v \in Value : f[c][v] \in Value

(* B is A with the entries of every column c changed by f[c].              *)
ChangedBy(A, B, f) ==
  /\ IsCanonical(B) /\ B.row = A.row /\ B.col = A.col
  /\ \A i \in 1..A.row : \A c \in 1..A.col : Get(B, i, c) = f[c][Get(A, i, c)]

(* Values changed where they are, depending on their columns.              *)
LEMMA InPlace ==
  ASSUME NEW A, IsCanonical(A), NEW f, Termwise(f, A.col), NEW B,
         B = [row |-> A.row, col |-> A.col, p |-> A.p, j |-> A.j,
              x |-> [k \in DOMAIN A.x |-> f[A.j[k]][A.x[k]]]]
  PROVE  ChangedBy(A, B, f)
<1> DEFINE x == [k \in DOMAIN A.x |-> f[A.j[k]][A.x[k]]]
<1>0. \A c \in 1..A.col : f[c][Zero] = Zero /\ \A v \in Value : f[c][v] \in Value BY DEF Termwise
<1>1. /\ A \in Matrices /\ A.row \in Nat \ {0} /\ A.col \in Nat \ {0}
      /\ A.p \in Seq(Nat) /\ A.j \in Seq(Nat) /\ A.x \in Seq(Value)
      /\ Len(A.p) = A.row + 1 /\ A.p[1] = 0
      /\ Len(A.j) = A.p[A.row + 1] /\ Len(A.x) = A.p[A.row + 1]
      /\ \A k \in DOMAIN A.j : A.j[k] \in 1..A.col
      /\ \A i \in 1..A.row :
           /\ A.p[i] <= A.p[i + 1]
           /\ \A k \in (A.p[i] + 1)..(A.p[i + 1] - 1) : A.j[k] < A.j[k + 1]
  BY DEF IsCanonical, Matrices
<1>2. Len(A.j) \in Nat /\ DOMAIN A.x = 1..Len(A.j) /\ DOMAIN A.j = 1..Len(A.j)
      /\ A.x \in [1..Len(A.j) -> Value]
  <2>1. Len(A.x) = Len(A.j) BY <1>1
  <2>2. A.x \in [1..Len(A.x) -> Value] /\ DOMAIN A.x = 1..Len(A.x) /\ Len(A.x) \in Nat
    BY <1>1, LenProperties
  <2>3. DOMAIN A.j = 1..Len(A.j) BY <1>1, LenProperties
  <2> QED BY <2>1, <2>2, <2>3
<1>3. \A k \in 1..Len(A.j) : A.j[k] \in 1..A.col /\ A.x[k] \in Value /\ f[A.j[k]][A.x[k]] \in Value
  <2> TAKE k \in 1..Len(A.j)
  <2>1. A.j[k] \in 1..A.col BY <1>1, <1>2
  <2>2. A.x[k] \in Value BY <1>2
  <2> QED BY <1>0, <2>1, <2>2
<1>4. x \in [1..Len(A.j) -> Value] BY <1>2, <1>3
<1>5. x \in Seq(Value) /\ Len(x) = Len(A.j) BY <1>2, <1>4
<1>6. \A k \in 1..Len(A.j) : x[k] = f[A.j[k]][A.x[k]] BY <1>2
<1>7. B.row = A.row /\ B.col = A.col /\ B.p = A.p /\ B.j = A.j /\ B.x = x OBVIOUS
<1>8. B \in Matrices
  <2> HIDE DEF x
  <2>1. B = [row |-> A.row, col |-> A.col, p |-> A.p, j |-> A.j, x |-> x] BY DEF x
  <2>2. A.row \in Nat \ {0} /\ A.col \in Nat \ {0} BY <1>1
  <2>3. A.p \in Seq(Nat) /\ A.j \in Seq(Nat) /\ x \in Seq(Value) BY <1>1, <1>5
  <2>4. [row |-> A.row, col |-> A.col, p |-> A.p, j |-> A.j, x |-> x] \in Matrices
    BY <2>2, <2>3, MatrixOfParts, Zenon
  <2> QED BY <2>1, <2>4
<1> HIDE DEF x
<1>9. IsCanonical(B)
  <2>1. Len(B.x) = B.p[B.row + 1] BY <1>1, <1>5, <1>7
  <2>2. /\ Len(B.p) = B.row + 1 /\ B.p[1] = 0
        /\ Len(B.j) = B.p[B.row + 1]
        /\ \A k \in DOMAIN B.j : B.j[k] \in 1..B.col
        /\ \A i \in 1..B.row :
             /\ B.p[i] <= B.p[i + 1]
             /\ \A k \in (B.p[i] + 1)..(B.p[i + 1] - 1) : B.j[k] < B.j[k + 1]
    BY <1>1, <1>7, Zenon
  <2> QED BY <1>8, <2>1, <2>2, Zenon DEF IsCanonical
<1>10. ASSUME NEW i \in 1..A.row, NEW c \in 1..A.col PROVE Get(B, i, c) = f[c][Get(A, i, c)]
  <2> DEFINE v == Get(A, i, c)
  <2>1. Found(A, c, A.p[i], A.p[i + 1], v)
    <3>1. c \in Nat BY <1>1
    <3> QED BY <3>1, GetFinds
  <2>2. /\ A.p[i] \in Nat /\ A.p[i + 1] \in Nat /\ A.p[i + 1] <= Len(A.j)
    BY RowsInside
  <2> HIDE DEF v
  <2>3. \A k \in (A.p[i] + 1)..A.p[i + 1] : k \in 1..Len(A.j) BY <1>2, <2>2
  <2>4. Found(B, c, A.p[i], A.p[i + 1], f[c][v])
    <3>1. CASE \E k \in (A.p[i] + 1)..A.p[i + 1] : A.j[k] = c /\ v = A.x[k]
      <4>1. PICK k \in (A.p[i] + 1)..A.p[i + 1] : A.j[k] = c /\ v = A.x[k] BY <3>1
      <4>2. B.j[k] = c /\ f[c][v] = B.x[k] BY <1>6, <1>7, <2>3, <4>1
      <4> QED BY <4>2 DEF Found
    <3>2. CASE v = Zero /\ \A k \in (A.p[i] + 1)..A.p[i + 1] : A.j[k] # c
      <4>1. f[c][v] = Zero BY <1>0, <3>2
      <4> QED BY <1>7, <3>2, <4>1 DEF Found
    <3> QED BY <2>1, <3>1, <3>2 DEF Found
  <2>5. Found(B, c, B.p[i], B.p[i + 1], f[c][v]) BY <1>7, <2>4
  <2>6. i \in 1..B.row /\ c \in Nat BY <1>1, <1>7
  <2>7. Get(B, i, c) = f[c][v] BY <1>9, <2>5, <2>6, GetIs
  <2> QED BY <2>7 DEF v
<1> QED BY <1>7, <1>9, <1>10, Zenon DEF ChangedBy

(* What the search of set does at one span.                                *)
PlaceStep(A, j, s, place) ==
  IF s.first >= s.end THEN s.first
  ELSE IF Mid(s) = s.first THEN IF AtPos(A.j, Mid(s)) < j THEN Mid(s) + 1 ELSE Mid(s)
  ELSE IF AtPos(A.j, Mid(s) - 1) >= j THEN place[[first |-> s.first, end |-> Mid(s) - 1]]
  ELSE IF AtPos(A.j, Mid(s)) >= j THEN Mid(s)
  ELSE place[[first |-> Mid(s) + 1, end |-> s.end]]

(* Where it goes on.                                                       *)
LEMMA PlaceParts ==
  ASSUME NEW A, Len(A.j) \in Nat, NEW s \in Span(A), s.first < s.end
  PROVE  /\ s.first \in 0..Len(A.j) /\ s.end \in 0..Len(A.j)
         /\ Mid(s) \in Nat /\ s.first <= Mid(s) /\ Mid(s) < s.end
         /\ Mid(s) \in 0..Len(A.j) /\ Mid(s) + 1 \in 0..Len(A.j)
         /\ [first |-> Mid(s) + 1, end |-> s.end] \in Span(A)
         /\ Mid(s) # s.first => /\ [first |-> s.first, end |-> Mid(s) - 1] \in Span(A)
                                /\ s.first <= Mid(s) - 1 /\ Mid(s) - 1 \in Nat
<1>1. s.first \in 0..Len(A.j) /\ s.end \in 0..Len(A.j) BY DEF Span
<1>2. Mid(s) \in Nat /\ s.first <= Mid(s) /\ Mid(s) < s.end BY <1>1 DEF Mid
<1>3. Mid(s) + 1 \in 0..Len(A.j) /\ Mid(s) \in 0..Len(A.j) BY <1>1, <1>2
<1>4. ASSUME Mid(s) # s.first
      PROVE  Mid(s) - 1 \in 0..Len(A.j) /\ s.first <= Mid(s) - 1 /\ Mid(s) - 1 \in Nat
  BY <1>1, <1>2, <1>4
<1> QED BY <1>1, <1>2, <1>3, <1>4 DEF Span

(* The search of set does this at every span.                              *)
LEMMA PlaceEquation ==
  ASSUME NEW A, NEW j, Len(A.j) \in Nat
  PROVE  \A s \in Span(A) : PlaceIn(A, j)[s] = PlaceStep(A, j, s, PlaceIn(A, j))
<1> DEFINE D == Span(A)
           n == Len(A.j)
           V == 0..n
           rank == [s \in D |-> IF s.first < s.end THEN s.end - s.first ELSE 0]
           F == [s \in D |-> [h \in [D -> V] |-> PlaceStep(A, j, s, h)]]
           g == CHOOSE g : g = [s \in D |->
                  LET mid == (s.first + s.end) \div 2
                  IN IF s.first >= s.end THEN s.first
                     ELSE IF mid = s.first THEN IF AtPos(A.j, mid) < j THEN mid + 1 ELSE mid
                     ELSE IF AtPos(A.j, mid - 1) >= j THEN g[[first |-> s.first, end |-> mid - 1]]
                     ELSE IF AtPos(A.j, mid) >= j THEN mid
                     ELSE g[[first |-> mid + 1, end |-> s.end]]]
<1>1. V # {} /\ n \in Nat OBVIOUS
<1>2. rank \in [D -> 0..n] BY DEF Span
<1>3. F \in [D -> [[D -> V] -> V]]
  <2> SUFFICES ASSUME NEW s \in D, NEW h \in [D -> V] PROVE PlaceStep(A, j, s, h) \in V
    OBVIOUS
  <2>1. CASE s.first >= s.end
    <3>1. s.first \in V BY DEF Span
    <3> QED BY <2>1, <3>1, Zenon DEF PlaceStep
  <2>2. CASE ~(s.first >= s.end)
    <3>1. s.first < s.end BY <2>2 DEF Span
    <3>2. /\ Mid(s) \in V /\ Mid(s) + 1 \in V
          /\ [first |-> Mid(s) + 1, end |-> s.end] \in D
          /\ Mid(s) # s.first => [first |-> s.first, end |-> Mid(s) - 1] \in D
      BY <3>1, PlaceParts
    <3>3. /\ h[[first |-> Mid(s) + 1, end |-> s.end]] \in V
          /\ Mid(s) # s.first => h[[first |-> s.first, end |-> Mid(s) - 1]] \in V
      <4> HIDE DEF V, D
      <4> QED BY <3>2
    <3> HIDE DEF V, D
    <3> QED BY <2>2, <3>2, <3>3, Zenon DEF PlaceStep
  <2> QED BY <2>1, <2>2
<1>4. ByRank(D, V, rank, F)
  <2> SUFFICES ASSUME NEW s \in D, NEW x \in [D -> V], NEW y \in [D -> V],
                      \A e \in D : rank[e] < rank[s] => x[e] = y[e]
               PROVE  F[s][x] = F[s][y]
    BY DEF ByRank
  <2> SUFFICES PlaceStep(A, j, s, x) = PlaceStep(A, j, s, y)
    OBVIOUS
  <2>1. CASE s.first >= s.end BY <2>1, Zenon DEF PlaceStep
  <2>2. CASE ~(s.first >= s.end)
    <3> DEFINE right == [first |-> Mid(s) + 1, end |-> s.end]
               left == [first |-> s.first, end |-> Mid(s) - 1]
    <3>1. s.first < s.end BY <2>2 DEF Span
    <3>2. /\ right \in D /\ Mid(s) \in Nat /\ s.first <= Mid(s) /\ Mid(s) < s.end
          /\ s.first \in Nat /\ s.end \in Nat
          /\ Mid(s) # s.first => left \in D /\ s.first <= Mid(s) - 1
      BY <3>1, PlaceParts
    <3>3. rank[s] = s.end - s.first BY <3>1
    <3>4. rank[right] < rank[s] BY <3>2, <3>3, SMTT(40)
    <3>5. Mid(s) # s.first => rank[left] < rank[s]
      <4> SUFFICES ASSUME Mid(s) # s.first PROVE rank[left] < rank[s]
        OBVIOUS
      <4>1. left \in D /\ left.first = s.first /\ left.end = Mid(s) - 1 BY <3>2
      <4>2. rank[left] = IF left.first < left.end THEN left.end - left.first ELSE 0
        <5> HIDE DEF left
        <5> QED BY <4>1
      <4> HIDE DEF left, rank
      <4> QED BY <3>2, <3>3, <4>1, <4>2, SMTT(40)
    <3>6. x[right] = y[right] /\ (Mid(s) # s.first => x[left] = y[left])
      <4> HIDE DEF right, left, rank
      <4> QED BY <3>2, <3>4, <3>5
    <3> QED BY <2>2, <3>6, Zenon DEF PlaceStep
  <2> QED BY <2>1, <2>2
<1>5. PICK x \in [D -> V] : x = [s \in D |-> F[s][x]]
  <2> HIDE DEF D, rank, F, n, V
  <2>1. Recursive(D, V, F) BY <1>1, <1>2, <1>3, <1>4, BoundedRecursion, Zenon
  <2> QED BY <2>1 DEF Recursive
<1>6. x = [s \in D |->
                  LET mid == (s.first + s.end) \div 2
                  IN IF s.first >= s.end THEN s.first
                     ELSE IF mid = s.first THEN IF AtPos(A.j, mid) < j THEN mid + 1 ELSE mid
                     ELSE IF AtPos(A.j, mid - 1) >= j THEN x[[first |-> s.first, end |-> mid - 1]]
                     ELSE IF AtPos(A.j, mid) >= j THEN mid
                     ELSE x[[first |-> mid + 1, end |-> s.end]]]
  <2>1. \A s \in D : F[s][x] = PlaceStep(A, j, s, x)
    <3> HIDE DEF D, V
    <3> QED OBVIOUS
  <2> HIDE DEF F, D
  <2>2. x = [s \in D |-> PlaceStep(A, j, s, x)] BY <1>5, <2>1
  <2> QED BY <2>2, Zenon DEF PlaceStep, Mid
<1>7. g = [s \in D |->
                  LET mid == (s.first + s.end) \div 2
                  IN IF s.first >= s.end THEN s.first
                     ELSE IF mid = s.first THEN IF AtPos(A.j, mid) < j THEN mid + 1 ELSE mid
                     ELSE IF AtPos(A.j, mid - 1) >= j THEN g[[first |-> s.first, end |-> mid - 1]]
                     ELSE IF AtPos(A.j, mid) >= j THEN mid
                     ELSE g[[first |-> mid + 1, end |-> s.end]]]
  <2> HIDE DEF D
  <2> QED BY <1>6, Zenon
<1>8. PlaceIn(A, j) = g BY DEF PlaceIn
<1>9. \A s \in D : g[s] = PlaceStep(A, j, s, g)
  <2> HIDE DEF g, D
  <2> QED BY <1>7, Zenon DEF PlaceStep, Mid
<1> HIDE DEF g
<1> QED BY <1>8, <1>9

(* Before position k the columns are smaller than j, and from k on not.    *)
Placed(A, j, first, end, k) ==
  /\ k \in first..end
  /\ \A q \in (first + 1)..k : A.j[q] < j
  /\ \A q \in (k + 1)..end : A.j[q] >= j

(* That is where the search of set ends.                                   *)
LEMMA PlaceFinds ==
  ASSUME NEW A, Columns(A), NEW j \in Nat,
         NEW s \in Span(A), s.first <= s.end, Sorted(A, s.first, s.end)
  PROVE  Placed(A, j, s.first, s.end, PlaceIn(A, j)[s])
<1> DEFINE n == Len(A.j)
           Holds(r) == r.first <= r.end /\ Sorted(A, r.first, r.end) =>
                         Placed(A, j, r.first, r.end, PlaceIn(A, j)[r])
           S == {d \in Nat : \A r \in Span(A) : r.end - r.first <= d => Holds(r)}
<1>1. n \in Nat /\ \A k \in 1..n : A.j[k] \in Nat BY DEF Columns
<1>2. \A r \in Span(A) : PlaceIn(A, j)[r] = PlaceStep(A, j, r, PlaceIn(A, j))
  BY <1>1, PlaceEquation
<1>3. ASSUME NEW r \in Span(A), r.first >= r.end PROVE Holds(r)
  <2>1. PlaceIn(A, j)[r] = r.first BY <1>2, <1>3, Zenon DEF PlaceStep
  <2> SUFFICES ASSUME r.first <= r.end PROVE Placed(A, j, r.first, r.end, PlaceIn(A, j)[r])
    OBVIOUS
  <2>2. r.first \in Int /\ r.end \in Int BY DEF Span
  <2>3. r.first \in r.first..r.end BY <2>2
  <2>4. (\A q \in (r.first + 1)..r.first : FALSE) /\ (\A q \in (r.first + 1)..r.end : FALSE)
    BY <1>3, <2>2
  <2> QED BY <2>1, <2>3, <2>4, Zenon DEF Placed
<1>4. 0 \in S
  <2>1. \A r \in Span(A) : r.end - r.first <= 0 => r.first >= r.end BY DEF Span
  <2> HIDE DEF Holds
  <2> QED BY <1>3, <2>1
<1>5. ASSUME NEW d \in Nat, d \in S PROVE d + 1 \in S
  <2> SUFFICES ASSUME NEW r \in Span(A), r.end - r.first <= d + 1,
                      r.first <= r.end, Sorted(A, r.first, r.end)
               PROVE  Placed(A, j, r.first, r.end, PlaceIn(A, j)[r])
    OBVIOUS
  <2>1. CASE r.first >= r.end BY <1>3, <2>1
  <2>2. CASE ~(r.first >= r.end)
    <3> DEFINE k == Mid(r)
               right == [first |-> k + 1, end |-> r.end]
               left == [first |-> r.first, end |-> k - 1]
    <3>1. r.first < r.end BY <2>2 DEF Span
    <3>2. /\ r.first \in 0..n /\ r.end \in 0..n
          /\ k \in Nat /\ r.first <= k /\ k < r.end /\ k \in 0..n /\ k + 1 \in 0..n
          /\ right \in Span(A)
          /\ k # r.first => left \in Span(A) /\ r.first <= k - 1 /\ k - 1 \in Nat
      BY <1>1, <3>1, PlaceParts
    <3>3. \A q \in (r.first + 1)..r.end : q \in 1..n /\ A.j[q] \in Nat
      <4> TAKE q \in (r.first + 1)..r.end
      <4>1. q \in 1..n BY <3>2
      <4> QED BY <1>1, <4>1
    <3>4. \A q, l \in (r.first + 1)..r.end : q < l => A.j[q] < A.j[l] BY DEF Sorted
    <3>5. k + 1 \in (r.first + 1)..r.end BY <3>2
    <3> HIDE DEF k
    <3>6. ASSUME A.j[k + 1] < j, NEW q \in (r.first + 1)..(k + 1) PROVE A.j[q] < j
      <4>1. q \in (r.first + 1)..r.end BY <3>2
      <4>2. q = k + 1 \/ A.j[q] < A.j[k + 1] BY <3>2, <3>4, <3>5, <4>1
      <4>3. A.j[q] \in Nat /\ A.j[k + 1] \in Nat BY <3>3, <3>5, <4>1
      <4> QED BY <3>6, <4>2, <4>3
    <3>7. ASSUME NEW l \in (r.first + 1)..r.end, A.j[l] >= j, NEW q \in l..r.end PROVE A.j[q] >= j
      <4>1. q \in (r.first + 1)..r.end BY <3>2
      <4>2. q = l \/ A.j[l] < A.j[q] BY <3>2, <3>4, <4>1, SMTT(40)
      <4>3. A.j[q] \in Nat /\ A.j[l] \in Nat BY <3>3, <4>1
      <4> QED BY <3>7, <4>2, <4>3
    <3>8. CASE k = r.first /\ A.j[k + 1] < j
      <4>1. PlaceIn(A, j)[r] = k + 1
        BY <1>2, <2>2, <3>8, Zenon DEF PlaceStep, AtPos, k
      <4>2. \A q \in (k + 1 + 1)..r.end : q \in (r.first + 1)..r.end /\ A.j[k + 1] < A.j[q]
        <5> TAKE q \in (k + 1 + 1)..r.end
        <5>1. q \in (r.first + 1)..r.end /\ k + 1 < q BY <3>2
        <5> QED BY <3>4, <3>5, <5>1
      <4>3. r.end <= k + 1 \/ r.end > k + 1 BY <3>2
      <4>4. r.end = k + 1
        <5>1. k = (r.first + r.end) \div 2 BY DEF k, Mid
        <5>2. r.first \in Int /\ r.end \in Int /\ r.first < r.end BY <3>1, <3>2
        <5>3. r.first = (r.first + r.end) \div 2 BY <3>8, <5>1
        <5>4. r.end = r.first + 1 BY <5>2, <5>3
        <5> QED BY <3>8, <5>4
      <4>5. k + 1 \in r.first..r.end /\ \A q \in (k + 1 + 1)..r.end : FALSE BY <3>2, <4>4
      <4> QED BY <3>6, <3>8, <4>1, <4>5 DEF Placed
    <3>9. CASE k = r.first /\ ~(A.j[k + 1] < j)
      <4>1. PlaceIn(A, j)[r] = k
        BY <1>2, <2>2, <3>9, Zenon DEF PlaceStep, AtPos, k
      <4>2. A.j[k + 1] >= j
        <5>1. A.j[k + 1] \in Nat BY <3>3, <3>5
        <5> QED BY <3>9, <5>1
      <4>3. \A q \in (k + 1)..r.end : A.j[q] >= j BY <3>5, <3>7, <4>2
      <4>4. k \in r.first..r.end /\ \A q \in (r.first + 1)..k : FALSE BY <3>2, <3>9
      <4> QED BY <4>1, <4>3, <4>4 DEF Placed
    <3>10. CASE k # r.first /\ A.j[(k - 1) + 1] >= j
      <4>1. PlaceIn(A, j)[r] = PlaceIn(A, j)[left]
        BY <1>2, <2>2, <3>10, Zenon DEF PlaceStep, AtPos, k
      <4>2. left.first = r.first /\ left.end = k - 1 /\ left \in Span(A) BY <3>2, <3>10
      <4> HIDE DEF left
      <4>3. left.end - left.first <= d /\ left.first <= left.end BY <3>2, <3>10, <4>2, SMTT(40)
      <4>4. \A q \in (left.first + 1)..left.end : q \in (r.first + 1)..r.end BY <3>2, <3>10, <4>2, SMTT(40)
      <4>5. Sorted(A, left.first, left.end) BY <3>4, <4>4, Zenon DEF Sorted
      <4>6. Placed(A, j, left.first, left.end, PlaceIn(A, j)[left]) BY <1>5, <4>2, <4>3, <4>5
      <4> DEFINE w == PlaceIn(A, j)[left]
      <4>7. /\ w \in r.first..(k - 1)
            /\ \A q \in (r.first + 1)..w : A.j[q] < j
            /\ \A q \in (w + 1)..(k - 1) : A.j[q] >= j
        BY <4>2, <4>6 DEF Placed
      <4> HIDE DEF w
      <4>8. k \in (r.first + 1)..r.end /\ A.j[k] >= j
        <5>1. (k - 1) + 1 = k /\ k \in (r.first + 1)..r.end BY <3>2, <3>10, SMTT(40)
        <5> QED BY <3>10, <5>1
      <4>9. \A q \in k..r.end : A.j[q] >= j BY <3>7, <4>8
      <4>10. \A q \in (w + 1)..r.end : q \in (w + 1)..(k - 1) \/ q \in k..r.end BY <3>2, <4>7
      <4>11. w \in r.first..r.end BY <3>2, <4>7
      <4>12. Placed(A, j, r.first, r.end, w) BY <4>7, <4>9, <4>10, <4>11, Zenon DEF Placed
      <4> QED BY <4>1, <4>12 DEF w
    <3>11. CASE k # r.first /\ ~(A.j[(k - 1) + 1] >= j) /\ A.j[k + 1] >= j
      <4>1. PlaceIn(A, j)[r] = k
        BY <1>2, <2>2, <3>11, Zenon DEF PlaceStep, AtPos, k
      <4>2. (k - 1) + 1 = k /\ k \in (r.first + 1)..r.end /\ k \in r.first..r.end BY <3>2, <3>11, SMTT(40)
      <4>3. A.j[k] \in Nat /\ ~(A.j[k] >= j) BY <3>3, <3>11, <4>2
      <4>4. A.j[k] < j BY <4>3
      <4>5. ASSUME NEW q \in (r.first + 1)..k PROVE A.j[q] < j
        <5>1. q \in (r.first + 1)..r.end BY <3>2
        <5>2. q = k \/ A.j[q] < A.j[k] BY <3>2, <3>4, <4>2, <5>1
        <5>3. A.j[q] \in Nat BY <3>3, <5>1
        <5> QED BY <4>3, <4>4, <5>2, <5>3
      <4>6. \A q \in (k + 1)..r.end : A.j[q] >= j BY <3>5, <3>7, <3>11
      <4> QED BY <4>1, <4>2, <4>5, <4>6 DEF Placed
    <3>12. CASE k # r.first /\ ~(A.j[(k - 1) + 1] >= j) /\ ~(A.j[k + 1] >= j)
      <4>1. PlaceIn(A, j)[r] = PlaceIn(A, j)[right]
        BY <1>2, <2>2, <3>12, Zenon DEF PlaceStep, AtPos, k
      <4>2. right.first = k + 1 /\ right.end = r.end /\ right \in Span(A) BY <3>2
      <4> HIDE DEF right
      <4>3. right.end - right.first <= d /\ right.first <= right.end BY <3>2, <4>2
      <4>4. \A q \in (right.first + 1)..right.end : q \in (r.first + 1)..r.end BY <3>2, <4>2
      <4>5. Sorted(A, right.first, right.end) BY <3>4, <4>4, Zenon DEF Sorted
      <4>6. Placed(A, j, right.first, right.end, PlaceIn(A, j)[right]) BY <1>5, <4>2, <4>3, <4>5
      <4> DEFINE w == PlaceIn(A, j)[right]
      <4>7. /\ w \in (k + 1)..r.end
            /\ \A q \in (k + 1 + 1)..w : A.j[q] < j
            /\ \A q \in (w + 1)..r.end : A.j[q] >= j
        BY <4>2, <4>6 DEF Placed
      <4> HIDE DEF w
      <4>8. A.j[k + 1] < j
        <5>1. A.j[k + 1] \in Nat BY <3>3, <3>5
        <5> QED BY <3>12, <5>1
      <4>9. \A q \in (r.first + 1)..(k + 1) : A.j[q] < j BY <3>6, <4>8
      <4>10. \A q \in (r.first + 1)..w : q \in (r.first + 1)..(k + 1) \/ q \in (k + 1 + 1)..w
        BY <3>2, <4>7
      <4>11. w \in r.first..r.end BY <3>2, <4>7
      <4>12. Placed(A, j, r.first, r.end, w) BY <4>7, <4>9, <4>10, <4>11, Zenon DEF Placed
      <4> QED BY <4>1, <4>12 DEF w
    <3> QED BY <3>8, <3>9, <3>10, <3>11, <3>12
  <2> QED BY <2>1, <2>2
<1>6. Nat \subseteq S
  <2> HIDE DEF S
  <2> QED BY <1>4, <1>5, NatSetInduction
<1>7. n \in S BY <1>1, <1>6
<1>8. s.end - s.first <= n BY <1>1 DEF Span
<1>9. Holds(s)
  <2> HIDE DEF Holds
  <2> QED BY <1>7, <1>8
<1> QED BY <1>9

(* The matrices that csr_scale_columns and conjugate leave behind.          *)
ColumnsScaled(A, X) == [A EXCEPT !.x = [k \in DOMAIN A.x |-> mul[A.x[k]][X[A.j[k]]]]]
Conjugated(A) ==
  [A EXCEPT !.row = A.col, !.col = A.row, !.x = [k \in DOMAIN A.x |-> conjugate[A.x[k]]]]

(* C is A with every entry multiplied with its column's factor.            *)
ScaledTo(A, X, C) ==
  /\ IsCanonical(C) /\ C.row = A.row /\ C.col = A.col
  /\ \A i \in 1..A.row : \A c \in 1..A.col : Get(C, i, c) = mul[Get(A, i, c)][X[c]]

(* csr_scale_columns scales the columns.                                   *)
LEMMA ScaleColumnsGet ==
  ASSUME NEW A, IsCanonical(A), NEW X \in [1..A.col -> Value],
         NEW C, C = ColumnsScaled(A, X)
  PROVE  ScaledTo(A, X, C)
<1> DEFINE f == [c \in 1..A.col |-> [v \in Value |-> mul[v][X[c]]]]
<1>1. Termwise(f, A.col)
  <2>1. ASSUME NEW c \in 1..A.col
        PROVE  /\ mul[Zero][X[c]] = Zero /\ Zero \in Value
               /\ \A v \in Value : mul[v][X[c]] \in Value
    <3> DEFINE a == X[c]
    <3>1. a \in Value OBVIOUS
    <3> HIDE DEF a
    <3>2. Zero \in Value /\ mul[a][Zero] = Zero /\ mul[Zero][a] = mul[a][Zero]
      BY <3>1, EntryAssumption
    <3>3. \A v \in Value : mul[v][a] \in Value BY <3>1, EntryAssumption
    <3> QED BY <3>2, <3>3 DEF a
  <2>2. \A c \in 1..A.col : f[c] = [v \in Value |-> mul[v][X[c]]] OBVIOUS
  <2> HIDE DEF f
  <2>3. ASSUME NEW c \in 1..A.col PROVE f[c][Zero] = Zero /\ \A v \in Value : f[c][v] \in Value
    <3>1. f[c] = [v \in Value |-> mul[v][X[c]]] BY <2>2
    <3> QED BY <2>1, <3>1
  <2> QED BY <2>3 DEF Termwise
<1>2. A \in Matrices /\ \A k \in DOMAIN A.j : A.j[k] \in 1..A.col BY DEF IsCanonical
<1>3. DOMAIN A.x = DOMAIN A.j /\ A.x \in [DOMAIN A.x -> Value]
  <2>1. A.x \in Seq(Value) /\ A.j \in Seq(Nat) BY <1>2 DEF Matrices
  <2>2. Len(A.x) = Len(A.j) BY DEF IsCanonical
  <2> QED BY <2>1, <2>2
<1>4. [k \in DOMAIN A.x |-> mul[A.x[k]][X[A.j[k]]]] = [k \in DOMAIN A.x |-> f[A.j[k]][A.x[k]]]
  <2> SUFFICES ASSUME NEW k \in DOMAIN A.x PROVE mul[A.x[k]][X[A.j[k]]] = f[A.j[k]][A.x[k]]
    OBVIOUS
  <2>1. A.j[k] \in 1..A.col /\ A.x[k] \in Value BY <1>2, <1>3
  <2> QED BY <2>1
<1> HIDE DEF f
<1>5. C = [row |-> A.row, col |-> A.col, p |-> A.p, j |-> A.j,
           x |-> [k \in DOMAIN A.x |-> f[A.j[k]][A.x[k]]]]
  BY <1>2, <1>4 DEF Matrices, ColumnsScaled
<1>6. /\ IsCanonical(C) /\ C.row = A.row /\ C.col = A.col
      /\ \A i \in 1..A.row : \A c \in 1..A.col : Get(C, i, c) = f[c][Get(A, i, c)]
  <2>1. ChangedBy(A, C, f) BY <1>1, <1>5, InPlace
  <2> QED BY <2>1, Zenon DEF ChangedBy
<1>7. ASSUME NEW i \in 1..A.row, NEW c \in 1..A.col
      PROVE  f[c][Get(A, i, c)] = mul[Get(A, i, c)][X[c]]
  <2>1. c \in Nat BY <1>2 DEF Matrices
  <2>2. Get(A, i, c) \in Value BY <2>1, GetLine
  <2> QED BY <2>2 DEF f
<1> QED BY <1>6, <1>7 DEF ScaledTo

(* conjugate of a square matrix: every entry is conjugated.                *)
LEMMA ConjugateGet ==
  ASSUME NEW A, IsCanonical(A), A.row = A.col,
         NEW C, C = Conjugated(A)
  PROVE  /\ IsCanonical(C) /\ C.row = A.row /\ C.col = A.col
         /\ \A i \in 1..A.row : \A c \in 1..A.col : Get(C, i, c) = conjugate[Get(A, i, c)]
<1> DEFINE f == [c \in 1..A.col |-> conjugate]
<1>1. Termwise(f, A.col) BY EntryAssumption DEF Termwise
<1>2. A \in Matrices /\ \A k \in DOMAIN A.j : A.j[k] \in 1..A.col BY DEF IsCanonical
<1>3. DOMAIN A.x = DOMAIN A.j
  <2>1. A.x \in Seq(Value) /\ A.j \in Seq(Nat) BY <1>2 DEF Matrices
  <2>2. Len(A.x) = Len(A.j) BY DEF IsCanonical
  <2> QED BY <2>1, <2>2
<1>4. [k \in DOMAIN A.x |-> conjugate[A.x[k]]] = [k \in DOMAIN A.x |-> f[A.j[k]][A.x[k]]]
  BY <1>2, <1>3
<1>5. \A c \in 1..A.col : f[c] = conjugate OBVIOUS
<1> HIDE DEF f
<1>6. C = [row |-> A.row, col |-> A.col, p |-> A.p, j |-> A.j,
           x |-> [k \in DOMAIN A.x |-> f[A.j[k]][A.x[k]]]]
  BY <1>2, <1>4 DEF Matrices, Conjugated
<1>7. /\ IsCanonical(C) /\ C.row = A.row /\ C.col = A.col
      /\ \A i \in 1..A.row : \A c \in 1..A.col : Get(C, i, c) = f[c][Get(A, i, c)]
  <2>1. ChangedBy(A, C, f) BY <1>1, <1>6, InPlace
  <2> QED BY <2>1, Zenon DEF ChangedBy
<1> QED BY <1>5, <1>7

(* The rows of a matrix follow each other.                                 *)
LEMMA RowsApart ==
  ASSUME NEW A, IsCanonical(A), NEW g \in 1..A.row, NEW h \in 1..A.row, g < h
  PROVE  A.p[g + 1] <= A.p[h]
<1>1. A.row \in Nat BY DEF IsCanonical, Matrices
<1> DEFINE S == {d \in Nat : g + 1 + d \in 1..A.row => A.p[g + 1] <= A.p[g + 1 + d]}
<1>2. 0 \in S
  <2>1. A.p[g + 1] \in Nat BY RowsInside
  <2>2. g + 1 + 0 = g + 1 OBVIOUS
  <2> QED BY <2>1, <2>2
<1>3. ASSUME NEW d \in Nat, d \in S PROVE d + 1 \in S
  <2> SUFFICES ASSUME g + 1 + (d + 1) \in 1..A.row PROVE A.p[g + 1] <= A.p[g + 1 + (d + 1)]
    OBVIOUS
  <2>1. g + 1 + d \in 1..A.row /\ (g + 1 + d) + 1 = g + 1 + (d + 1) BY <1>1
  <2>2. A.p[g + 1] <= A.p[g + 1 + d] BY <1>3, <2>1
  <2>3. /\ A.p[g + 1 + d] \in Nat /\ A.p[(g + 1 + d) + 1] \in Nat
        /\ A.p[g + 1 + d] <= A.p[(g + 1 + d) + 1]
    BY <2>1, RowsInside
  <2>4. A.p[g + 1] \in Nat BY RowsInside
  <2> QED BY <2>1, <2>2, <2>3, <2>4
<1>4. Nat \subseteq S
  <2> HIDE DEF S
  <2> QED BY <1>2, <1>3, NatSetInduction
<1>5. h - (g + 1) \in Nat /\ g + 1 + (h - (g + 1)) = h BY <1>1
<1> QED BY <1>4, <1>5

(* What is at position q of A is at position r of C.                       *)
SameAt(A, C, q, r) == C.j[r] = A.j[q] /\ C.x[r] = A.x[q]

(* Row h of C is that of A, t positions further on.                        *)
MovedRow(A, C, h, t) ==
  /\ t \in Int /\ C.p[h] = A.p[h] + t /\ C.p[h + 1] = A.p[h + 1] + t
  /\ \A q \in (A.p[h] + 1)..A.p[h + 1] : SameAt(A, C, q, q + t)

(* A row that moved still ascends and has the same entries.                *)
LEMMA MovedRowKept ==
  ASSUME NEW A, IsCanonical(A), NEW h \in 1..A.row, NEW C, NEW t, MovedRow(A, C, h, t)
  PROVE  /\ C.p[h] <= C.p[h + 1]
         /\ \A k \in (C.p[h] + 1)..(C.p[h + 1] - 1) : C.j[k] < C.j[k + 1]
         /\ \A c, v : Found(A, c, A.p[h], A.p[h + 1], v) => Found(C, c, C.p[h], C.p[h + 1], v)
<1>1. A.p[h] \in Nat /\ A.p[h + 1] \in Nat /\ A.p[h] <= A.p[h + 1] BY RowsInside
<1>2. /\ t \in Int /\ C.p[h] = A.p[h] + t /\ C.p[h + 1] = A.p[h + 1] + t
      /\ \A q \in (A.p[h] + 1)..A.p[h + 1] : C.j[q + t] = A.j[q] /\ C.x[q + t] = A.x[q]
  BY DEF MovedRow, SameAt
<1>3. C.p[h] <= C.p[h + 1] BY <1>1, <1>2
<1>4. ASSUME NEW k \in (C.p[h] + 1)..(C.p[h + 1] - 1) PROVE C.j[k] < C.j[k + 1]
  <2> DEFINE q == k - t
  <2>1. /\ q \in (A.p[h] + 1)..(A.p[h + 1] - 1) /\ q + 1 \in (A.p[h] + 1)..A.p[h + 1]
        /\ q \in (A.p[h] + 1)..A.p[h + 1] /\ q + t = k /\ q + 1 + t = k + 1
    BY <1>1, <1>2
  <2>2. A.j[q] < A.j[q + 1] BY <2>1 DEF IsCanonical
  <2>3. C.j[q + t] = A.j[q] /\ C.j[q + 1 + t] = A.j[q + 1] BY <1>2, <2>1
  <2> QED BY <2>1, <2>2, <2>3
<1>5. ASSUME NEW c, NEW v, Found(A, c, A.p[h], A.p[h + 1], v)
      PROVE  Found(C, c, C.p[h], C.p[h + 1], v)
  <2>1. CASE \E q \in (A.p[h] + 1)..A.p[h + 1] : A.j[q] = c /\ v = A.x[q]
    <3>1. PICK q \in (A.p[h] + 1)..A.p[h + 1] : A.j[q] = c /\ v = A.x[q] BY <2>1
    <3>2. q + t \in (C.p[h] + 1)..C.p[h + 1] BY <1>1, <1>2
    <3>3. C.j[q + t] = c /\ v = C.x[q + t] BY <1>2, <3>1
    <3> QED BY <3>2, <3>3, Zenon DEF Found
  <2>2. CASE v = Zero /\ \A q \in (A.p[h] + 1)..A.p[h + 1] : A.j[q] # c
    <3>1. ASSUME NEW k \in (C.p[h] + 1)..C.p[h + 1] PROVE C.j[k] # c
      <4>1. k - t \in (A.p[h] + 1)..A.p[h + 1] /\ (k - t) + t = k BY <1>1, <1>2
      <4>2. C.j[(k - t) + t] = A.j[k - t] BY <1>2, <4>1
      <4> QED BY <2>2, <4>1, <4>2
    <3> QED BY <2>2, <3>1, Zenon DEF Found
  <2> QED BY <1>5, <2>1, <2>2, Zenon DEF Found
<1> QED BY <1>3, <1>4, <1>5, Zenon

(* C is A but for what is in row i, which has d entries more.              *)
Edited(A, C, i, d) ==
  /\ C \in Matrices /\ C.row = A.row /\ C.col = A.col
  /\ d \in Int /\ A.p[i] <= A.p[i + 1] + d
  /\ Len(C.p) = A.row + 1
  /\ \A l \in 1..(A.row + 1) : C.p[l] = IF l > i THEN A.p[l] + d ELSE A.p[l]
  /\ Len(C.j) = Len(A.j) + d /\ Len(C.x) = Len(A.j) + d
  /\ \A q \in 1..Len(C.j) : C.j[q] \in 1..A.col
  /\ \A q \in 1..A.p[i] : SameAt(A, C, q, q)
  /\ \A q \in (A.p[i + 1] + 1)..Len(A.j) : SameAt(A, C, q, q + d)
  /\ \A q \in (A.p[i] + 1)..(A.p[i + 1] + d - 1) : C.j[q] < C.j[q + 1]

(* What set may do to row i leaves the matrix canonical and the other rows *)
(* as they were.                                                           *)
LEMMA EditedRows ==
  ASSUME NEW A, IsCanonical(A), NEW i \in 1..A.row, NEW d, NEW C, Edited(A, C, i, d)
  PROVE  /\ IsCanonical(C) /\ C.p[i] = A.p[i] /\ C.p[i + 1] = A.p[i + 1] + d
         /\ \A h \in 1..A.row : h # i => \E t : MovedRow(A, C, h, t)
<1>1. /\ A.row \in Nat \ {0} /\ Len(A.p) = A.row + 1 /\ A.p[1] = 0
      /\ Len(A.j) = A.p[A.row + 1] /\ Len(A.j) \in Nat
      /\ A.p[i] \in Nat /\ A.p[i + 1] \in Nat
  BY RowsInside DEF IsCanonical, Matrices
<1>2. /\ C \in Matrices /\ C.row = A.row /\ C.col = A.col
      /\ d \in Int /\ A.p[i] <= A.p[i + 1] + d
      /\ Len(C.p) = A.row + 1
      /\ \A l \in 1..(A.row + 1) : C.p[l] = IF l > i THEN A.p[l] + d ELSE A.p[l]
      /\ Len(C.j) = Len(A.j) + d /\ Len(C.x) = Len(A.j) + d
      /\ \A q \in 1..Len(C.j) : C.j[q] \in 1..A.col
      /\ \A q \in 1..A.p[i] : SameAt(A, C, q, q)
      /\ \A q \in (A.p[i + 1] + 1)..Len(A.j) : SameAt(A, C, q, q + d)
      /\ \A q \in (A.p[i] + 1)..(A.p[i + 1] + d - 1) : C.j[q] < C.j[q + 1]
  BY DEF Edited
<1>0. A.row \in Nat /\ i \in Int /\ 1 <= i /\ i <= A.row BY <1>1
<1>3. C.p[i] = A.p[i] /\ C.p[i + 1] = A.p[i + 1] + d
  <2>1. i \in 1..(A.row + 1) /\ i + 1 \in 1..(A.row + 1) /\ ~(i > i) /\ i + 1 > i BY <1>0
  <2> QED BY <1>2, <2>1
<1>4. ASSUME NEW h \in 1..A.row, h < i PROVE MovedRow(A, C, h, 0)
  <2>1. A.p[h] \in Nat /\ A.p[h + 1] \in Nat /\ A.p[h] <= A.p[h + 1] BY RowsInside
  <2>2. A.p[h + 1] <= A.p[i] BY <1>4, RowsApart
  <2>3. h \in 1..(A.row + 1) /\ h + 1 \in 1..(A.row + 1) /\ ~(h > i) /\ ~(h + 1 > i)
    BY <1>0, <1>4
  <2>4. C.p[h] = A.p[h] /\ C.p[h + 1] = A.p[h + 1] BY <1>2, <2>3
  <2>5. C.p[h] = A.p[h] + 0 /\ C.p[h + 1] = A.p[h + 1] + 0 BY <2>1, <2>4
  <2>6. ASSUME NEW q \in (A.p[h] + 1)..A.p[h + 1] PROVE SameAt(A, C, q, q + 0)
    <3>1. A.p[i] \in Nat BY <1>1
    <3>2. q \in 1..A.p[i] /\ q + 0 = q BY <2>1, <2>2, <3>1
    <3> QED BY <1>2, <3>2
  <2> QED BY <2>5, <2>6 DEF MovedRow
<1>5. ASSUME NEW h \in 1..A.row, h > i PROVE MovedRow(A, C, h, d)
  <2>1. A.p[h] \in Nat /\ A.p[h + 1] \in Nat /\ A.p[h + 1] <= Len(A.j) BY RowsInside
  <2>2. A.p[i + 1] <= A.p[h]
    <3>1. i < h BY <1>5
    <3> QED BY <3>1, RowsApart
  <2>3. h \in 1..(A.row + 1) /\ h + 1 \in 1..(A.row + 1) /\ h > i /\ h + 1 > i
    BY <1>0, <1>5
  <2>4. C.p[h] = A.p[h] + d /\ C.p[h + 1] = A.p[h + 1] + d BY <1>2, <2>3
  <2>5. ASSUME NEW q \in (A.p[h] + 1)..A.p[h + 1] PROVE SameAt(A, C, q, q + d)
    <3>1. A.p[i + 1] \in Nat /\ Len(A.j) \in Nat BY <1>1
    <3>2. q \in Int /\ A.p[h] + 1 <= q /\ q <= A.p[h + 1] BY <2>1
    <3>3. A.p[i + 1] + 1 <= q /\ q <= Len(A.j) BY <2>1, <2>2, <3>1, <3>2, SMTT(40)
    <3>4. q \in (A.p[i + 1] + 1)..Len(A.j) BY <3>1, <3>2, <3>3
    <3> QED BY <1>2, <3>4
  <2> QED BY <1>2, <2>4, <2>5 DEF MovedRow
<1>6. ASSUME NEW h \in 1..A.row, h # i PROVE \E t : MovedRow(A, C, h, t)
  <2>1. h < i \/ h > i BY <1>6
  <2> QED BY <1>4, <1>5, <2>1
<1>7. ASSUME NEW h \in 1..A.row
      PROVE  /\ C.p[h] <= C.p[h + 1]
             /\ \A k \in (C.p[h] + 1)..(C.p[h + 1] - 1) : C.j[k] < C.j[k + 1]
  <2>1. CASE h = i
    <3>1. C.p[i] <= C.p[i + 1] BY <1>2, <1>3
    <3>2. A.p[i] \in Nat /\ A.p[i + 1] \in Nat /\ d \in Int BY <1>1, <1>2
    <3>3. ASSUME NEW k \in (C.p[i] + 1)..(C.p[i + 1] - 1) PROVE C.j[k] < C.j[k + 1]
      <4>1. k \in (A.p[i] + 1)..(A.p[i + 1] + d - 1) BY <1>3, <3>2
      <4> QED BY <1>2, <4>1
    <3> QED BY <2>1, <3>1, <3>3
  <2>2. CASE h # i
    <3>1. PICK t : MovedRow(A, C, h, t) BY <1>6, <2>2
    <3> QED BY <3>1, MovedRowKept
  <2> QED BY <2>1, <2>2
<1>8. C.p[1] = 0 /\ Len(C.j) = C.p[C.row + 1]
  <2>1. 1 \in 1..(A.row + 1) /\ ~(1 > i) /\ A.row + 1 \in 1..(A.row + 1) /\ A.row + 1 > i BY <1>0
  <2> QED BY <1>1, <1>2, <2>1
<1>9. DOMAIN C.j = 1..Len(C.j)
  <2>1. C.j \in Seq(Nat) BY <1>2 DEF Matrices
  <2> QED BY <2>1
<1>10. IsCanonical(C)
  <2>1. \A k \in DOMAIN C.j : C.j[k] \in 1..C.col BY <1>2, <1>9
  <2>2. Len(C.x) = C.p[C.row + 1] /\ Len(C.p) = C.row + 1 BY <1>2, <1>8
  <2> QED BY <1>2, <1>7, <1>8, <2>1, <2>2, Zenon DEF IsCanonical
<1> QED BY <1>3, <1>6, <1>10, Zenon

(* A matrix with the entry at row i and column j set to e.                 *)
SetTo(A, C, i, j, e) ==
  /\ IsCanonical(C) /\ C.row = A.row /\ C.col = A.col
  /\ \A h \in 1..A.row : \A c \in 1..A.col :
       Get(C, h, c) = IF h = i /\ c = j THEN e ELSE Get(A, h, c)

(* It is enough to find e in column j of row i, and in its other columns   *)
(* what was there.                                                         *)
LEMMA EditedSet ==
  ASSUME NEW A, IsCanonical(A), NEW i \in 1..A.row, NEW j \in 1..A.col, NEW e,
         NEW d, NEW C, Edited(A, C, i, d),
         Found(C, j, A.p[i], A.p[i + 1] + d, e),
         \A c \in 1..A.col : c # j =>
           \A v : Found(A, c, A.p[i], A.p[i + 1], v) => Found(C, c, A.p[i], A.p[i + 1] + d, v)
  PROVE  SetTo(A, C, i, j, e)
<1>1. /\ IsCanonical(C) /\ C.p[i] = A.p[i] /\ C.p[i + 1] = A.p[i + 1] + d
      /\ \A h \in 1..A.row : h # i => \E t : MovedRow(A, C, h, t)
  BY EditedRows
<1>2. C.row = A.row /\ C.col = A.col /\ A.col \in Nat
  <2>1. C.row = A.row /\ C.col = A.col BY DEF Edited
  <2>2. A.col \in Nat BY DEF IsCanonical, Matrices
  <2> QED BY <2>1, <2>2
<1>3. ASSUME NEW h \in 1..A.row, NEW c \in 1..A.col, NEW v, Found(C, c, C.p[h], C.p[h + 1], v)
      PROVE  Get(C, h, c) = v
  <2>1. h \in 1..C.row /\ c \in Nat BY <1>2
  <2> QED BY <1>1, <1>3, <2>1, GetIs
<1>4. Get(C, i, j) = e BY <1>1, <1>3
<1>5. ASSUME NEW c \in 1..A.col, c # j PROVE Get(C, i, c) = Get(A, i, c)
  <2> DEFINE v == Get(A, i, c)
  <2>1. c \in Nat BY <1>2
  <2>2. Found(A, c, A.p[i], A.p[i + 1], v) BY <2>1, GetFinds
  <2> HIDE DEF v
  <2>3. Found(C, c, A.p[i], A.p[i + 1] + d, v) BY <1>5, <2>2
  <2>4. Found(C, c, C.p[i], C.p[i + 1], v) BY <1>1, <2>3
  <2>5. Get(C, i, c) = v BY <1>3, <2>4
  <2> QED BY <2>5 DEF v
<1>6. ASSUME NEW h \in 1..A.row, h # i, NEW c \in 1..A.col PROVE Get(C, h, c) = Get(A, h, c)
  <2> DEFINE v == Get(A, h, c)
  <2>1. c \in Nat BY <1>2
  <2>2. Found(A, c, A.p[h], A.p[h + 1], v) BY <2>1, GetFinds
  <2> HIDE DEF v
  <2>3. PICK t : MovedRow(A, C, h, t) BY <1>1, <1>6
  <2>4. Found(C, c, C.p[h], C.p[h + 1], v) BY <2>2, <2>3, MovedRowKept
  <2>5. Get(C, h, c) = v BY <1>3, <2>4
  <2> QED BY <2>5 DEF v
<1>7. ASSUME NEW h \in 1..A.row, NEW c \in 1..A.col
      PROVE  Get(C, h, c) = IF h = i /\ c = j THEN e ELSE Get(A, h, c)
  BY <1>4, <1>5, <1>6
<1> QED BY <1>1, <1>2, <1>7 DEF SetTo

(* Where the rows start when those below row i move by d.                  *)
Starts(A, i, d) == [l \in DOMAIN A.p |-> IF l > i THEN A.p[l] + d ELSE A.p[l]]

(* They can move up as far as row i has entries.                           *)
LEMMA StartsMove ==
  ASSUME NEW A, IsCanonical(A), NEW i \in 1..A.row, NEW d \in Int, A.p[i + 1] + d >= 0
  PROVE  /\ Starts(A, i, d) \in Seq(Nat) /\ Len(Starts(A, i, d)) = A.row + 1
         /\ \A l \in 1..(A.row + 1) :
              Starts(A, i, d)[l] = IF l > i THEN A.p[l] + d ELSE A.p[l]
<1>1. /\ A.row \in Nat \ {0} /\ A.p \in Seq(Nat) /\ Len(A.p) = A.row + 1
      /\ Len(A.j) = A.p[A.row + 1]
  BY DEF IsCanonical, Matrices
<1>2. DOMAIN A.p = 1..(A.row + 1) /\ \A l \in 1..(A.row + 1) : A.p[l] \in Nat
  BY <1>1, SeqFunction
<1>3. ASSUME NEW l \in 1..(A.row + 1), l > i PROVE A.p[l] + d \in Nat
  <2>1. A.p[i + 1] \in Nat /\ A.p[i + 1] <= Len(A.j) BY RowsInside
  <2>2. A.p[i + 1] <= A.p[l]
    <3>1. CASE l = A.row + 1 BY <1>1, <2>1, <3>1
    <3>2. CASE l # A.row + 1
      <4>1. A.row \in Nat /\ l \in 1..A.row /\ i < l BY <1>1, <1>3, <3>2
      <4> QED BY <4>1, RowsApart
    <3> QED BY <3>1, <3>2
  <2>3. A.p[l] \in Nat BY <1>2
  <2> QED BY <2>1, <2>2, <2>3
<1>4. Starts(A, i, d) = [l \in 1..(A.row + 1) |-> IF l > i THEN A.p[l] + d ELSE A.p[l]]
  BY <1>2 DEF Starts
<1>5. Starts(A, i, d) \in [1..(A.row + 1) -> Nat] BY <1>2, <1>3, <1>4
<1>6. A.row + 1 \in Nat
  <2>1. A.row \in Nat BY <1>1
  <2> QED BY <2>1
<1>7. Starts(A, i, d) \in Seq(Nat) /\ Len(Starts(A, i, d)) = A.row + 1
  BY <1>5, <1>6, FunctionSeq
<1> QED BY <1>4, <1>7

(* What a canonical matrix is made of, its columns taken with their range. *)
LEMMA CanonicalParts ==
  ASSUME NEW A, IsCanonical(A)
  PROVE  /\ A.row \in Nat \ {0} /\ A.col \in Nat \ {0}
         /\ A.j \in Seq(1..A.col) /\ A.x \in Seq(Value) /\ A.p \in Seq(Nat)
         /\ Len(A.x) = Len(A.j) /\ Len(A.j) \in Nat
         /\ A = [row |-> A.row, col |-> A.col, p |-> A.p, j |-> A.j, x |-> A.x]
<1>1. /\ A \in Matrices /\ A.row \in Nat \ {0} /\ A.col \in Nat \ {0}
      /\ A.j \in Seq(Nat) /\ A.x \in Seq(Value) /\ A.p \in Seq(Nat)
      /\ Len(A.x) = Len(A.j)
      /\ \A k \in DOMAIN A.j : A.j[k] \in 1..A.col
  BY DEF IsCanonical, Matrices
<1>2. Len(A.j) \in Nat /\ A.j \in [1..Len(A.j) -> Nat] /\ DOMAIN A.j = 1..Len(A.j)
  BY <1>1, LenProperties
<1>3. A.j \in [1..Len(A.j) -> 1..A.col] BY <1>1, <1>2
<1>4. A.j \in Seq(1..A.col) BY <1>2, <1>3, FunctionSeq
<1> QED BY <1>1, <1>2, <1>4 DEF Matrices

(* Columns in their range are columns of a matrix.                         *)
LEMMA ColumnsTyped ==
  ASSUME NEW n \in Nat, NEW s \in Seq(1..n)
  PROVE  s \in Seq(Nat) /\ \A q \in 1..Len(s) : s[q] \in 1..n
<1>1. Len(s) \in Nat /\ s \in [1..Len(s) -> 1..n] BY LenProperties
<1>2. s \in [1..Len(s) -> Nat] BY <1>1
<1> QED BY <1>1, <1>2

(* set where the column is stored already.                                 *)
LEMMA SetReplaces ==
  ASSUME NEW A, IsCanonical(A), NEW i \in 1..A.row, NEW j \in 1..A.col, NEW e \in Value,
         NEW k \in A.p[i]..(A.p[i + 1] - 1), A.j[k + 1] = j,
         NEW C, C = [A EXCEPT !.x[k + 1] = e]
  PROVE  SetTo(A, C, i, j, e)
<1> DEFINE a == A.p[i]
           b == A.p[i + 1]
           n == Len(A.j)
           x == [A.x EXCEPT ![k + 1] = e]
<1>1. a \in Nat /\ b \in Nat /\ a <= b /\ b <= n /\ n \in Nat /\ k \in a..(b - 1)
  BY RowsInside
<1>2. /\ A.row \in Nat \ {0} /\ A.col \in Nat \ {0}
      /\ A.j \in Seq(1..A.col) /\ A.x \in Seq(Value) /\ A.p \in Seq(Nat)
      /\ Len(A.x) = n
      /\ A = [row |-> A.row, col |-> A.col, p |-> A.p, j |-> A.j, x |-> A.x]
  BY CanonicalParts
<1>3. C = [row |-> A.row, col |-> A.col, p |-> A.p, j |-> A.j, x |-> x] BY <1>2
<1>4. C.row = A.row /\ C.col = A.col /\ C.p = A.p /\ C.j = A.j /\ C.x = x BY <1>3
<1>5. A.j \in Seq(Nat) /\ \A q \in 1..n : A.j[q] \in 1..A.col BY <1>2, ColumnsTyped
<1>6. Len(A.p) = A.row + 1 /\ \A l \in 1..(A.row + 1) : A.p[l] \in Nat
  <2>1. Len(A.p) = A.row + 1 BY DEF IsCanonical
  <2> QED BY <1>2, <2>1, SeqFunction
<1> HIDE DEF a, b, n
<1>7. k + 1 \in (a + 1)..b /\ k + 1 \in 1..n BY <1>1
<1>8. x \in Seq(Value) /\ Len(x) = n /\ x[k + 1] = e
      /\ \A q \in 1..n : q # k + 1 => x[q] = A.x[q]
  <2>1. A.x \in [1..n -> Value] BY <1>2, SeqFunction
  <2>2. x \in [1..n -> Value] BY <2>1
  <2>3. x[k + 1] = e /\ \A q \in 1..n : q # k + 1 => x[q] = A.x[q] BY <1>7, <2>1
  <2> HIDE DEF x
  <2> QED BY <1>1, <2>2, <2>3, FunctionSeq
<1> HIDE DEF x
<1>9. C \in Matrices
  <2> USE <1>2, <1>5, <1>8
  <2>1. [row |-> A.row, col |-> A.col, p |-> A.p, j |-> A.j, x |-> x] \in Matrices
    BY MatrixOfParts
  <2> QED BY <1>3, <2>1
<1>10. Edited(A, C, i, 0)
  <2>1. \A l \in 1..(A.row + 1) : C.p[l] = IF l > i THEN A.p[l] + 0 ELSE A.p[l]
    BY <1>4, <1>6
  <2>2. Len(C.p) = A.row + 1 /\ b + 0 = b /\ n + 0 = n /\ a <= b + 0 /\ 0 \in Int
    BY <1>1, <1>4, <1>6
  <2>3. \A q \in 1..a : SameAt(A, C, q, q)
    <3> TAKE q \in 1..a
    <3>1. q \in 1..n /\ q # k + 1 BY <1>1
    <3> QED BY <1>4, <1>8, <3>1 DEF SameAt
  <2>4. \A q \in (b + 1)..n : SameAt(A, C, q, q + 0)
    <3> TAKE q \in (b + 1)..n
    <3>1. q \in 1..n /\ q # k + 1 /\ q + 0 = q BY <1>1
    <3> QED BY <1>4, <1>8, <3>1 DEF SameAt
  <2>5. \A q \in (a + 1)..(b + 0 - 1) : C.j[q] < C.j[q + 1]
    <3>1. \A q \in (a + 1)..(b - 1) : A.j[q] < A.j[q + 1] BY DEF IsCanonical, a, b
    <3>2. \A q \in (a + 1)..(b + 0 - 1) : q \in (a + 1)..(b - 1) BY <1>1
    <3> QED BY <1>4, <3>1, <3>2, Zenon
  <2>6. /\ Len(C.j) = n + 0 /\ Len(C.x) = n + 0
        /\ \A q \in 1..Len(C.j) : C.j[q] \in 1..A.col
    BY <1>4, <1>5, <1>8, <2>2 DEF n
  <2> QED BY <1>4, <1>9, <2>1, <2>2, <2>3, <2>4, <2>5, <2>6, Zenon DEF Edited, a, b, n
<1>11. b + 0 = b BY <1>1
<1>12. Found(C, j, a, b + 0, e)
  <2>1. C.j[k + 1] = j /\ e = C.x[k + 1] BY <1>4, <1>8
  <2> QED BY <1>7, <1>11, <2>1, Zenon DEF Found
<1>13. ASSUME NEW c \in 1..A.col, c # j, NEW v, Found(A, c, a, b, v)
       PROVE  Found(C, c, a, b + 0, v)
  <2>1. CASE \E q \in (a + 1)..b : A.j[q] = c /\ v = A.x[q]
    <3>1. PICK q \in (a + 1)..b : A.j[q] = c /\ v = A.x[q] BY <2>1
    <3>2. q \in 1..n /\ q # k + 1 BY <1>1, <1>13, <3>1
    <3>3. C.j[q] = c /\ v = C.x[q] BY <1>4, <1>8, <3>1, <3>2
    <3> QED BY <1>11, <3>3, Zenon DEF Found
  <2>2. CASE v = Zero /\ \A q \in (a + 1)..b : A.j[q] # c
    BY <1>4, <1>11, <2>2, Zenon DEF Found
  <2> QED BY <1>13, <2>1, <2>2, Zenon DEF Found
<1> QED BY <1>10, <1>12, <1>13, EditedSet DEF a, b

(* set where the column is stored and zero is written: it goes.            *)
LEMMA SetRemoves ==
  ASSUME NEW A, IsCanonical(A), NEW i \in 1..A.row, NEW j \in 1..A.col,
         NEW k \in A.p[i]..(A.p[i + 1] - 1), A.j[k + 1] = j,
         NEW C, C = [A EXCEPT !.x = RemoveAt(@, k + 1), !.j = RemoveAt(@, k + 1),
                              !.p = Starts(A, i, 0 - 1)]
  PROVE  SetTo(A, C, i, j, Zero)
<1> DEFINE a == A.p[i]
           b == A.p[i + 1]
           n == Len(A.j)
           d == 0 - 1
           x == RemoveAt(A.x, k + 1)
           s == RemoveAt(A.j, k + 1)
           p == Starts(A, i, d)
<1>1. a \in Nat /\ b \in Nat /\ a <= b /\ b <= n /\ n \in Nat /\ k \in a..(b - 1)
  BY RowsInside
<1>2. /\ A.row \in Nat \ {0} /\ A.col \in Nat \ {0}
      /\ A.j \in Seq(1..A.col) /\ A.x \in Seq(Value) /\ A.p \in Seq(Nat)
      /\ Len(A.x) = n
      /\ A = [row |-> A.row, col |-> A.col, p |-> A.p, j |-> A.j, x |-> A.x]
  BY CanonicalParts
<1>3. C = [row |-> A.row, col |-> A.col, p |-> p, j |-> s, x |-> x] BY <1>2
<1>4. C.row = A.row /\ C.col = A.col /\ C.p = p /\ C.j = s /\ C.x = x BY <1>3
<1>5. d \in Int /\ d = 0 - 1 OBVIOUS
<1>6. Sorted(A, a, b) BY RowSorted
<1>7. \A q \in (a + 1)..(b - 1) : A.j[q] < A.j[q + 1] BY DEF IsCanonical
<1>8. /\ p \in Seq(Nat) /\ Len(p) = A.row + 1
      /\ \A l \in 1..(A.row + 1) : p[l] = IF l > i THEN A.p[l] + d ELSE A.p[l]
  <2>1. A.p[i + 1] + d >= 0 BY <1>1
  <2> HIDE DEF d
  <2> QED BY <1>5, <2>1, StartsMove
<1> HIDE DEF a, b, n, d, p
<1>9. k + 1 \in 1..n /\ k + 1 \in (a + 1)..b /\ (k + 1) - 1 = k /\ n - 1 = n + d
  BY <1>1, <1>5
<1>10. /\ x \in Seq(Value) /\ Len(x) = n + d
       /\ \A q \in 1..k : x[q] = A.x[q]
       /\ \A q \in (k + 1)..(n - 1) : x[q] = A.x[q + 1]
  <2>1. /\ RemoveAt(A.x, k + 1) \in Seq(Value) /\ Len(RemoveAt(A.x, k + 1)) = Len(A.x) - 1
        /\ \A q \in 1..((k + 1) - 1) : RemoveAt(A.x, k + 1)[q] = A.x[q]
        /\ \A q \in (k + 1)..(Len(A.x) - 1) : RemoveAt(A.x, k + 1)[q] = A.x[q + 1]
    BY <1>2, <1>9, Removed
  <2> QED BY <1>2, <1>9, <2>1
<1>11. /\ s \in Seq(1..A.col) /\ Len(s) = n + d
       /\ \A q \in 1..k : s[q] = A.j[q]
       /\ \A q \in (k + 1)..(n - 1) : s[q] = A.j[q + 1]
  <2>1. /\ RemoveAt(A.j, k + 1) \in Seq(1..A.col) /\ Len(RemoveAt(A.j, k + 1)) = n - 1
        /\ \A q \in 1..((k + 1) - 1) : RemoveAt(A.j, k + 1)[q] = A.j[q]
        /\ \A q \in (k + 1)..(n - 1) : RemoveAt(A.j, k + 1)[q] = A.j[q + 1]
    BY <1>2, <1>9, Removed DEF n
  <2> QED BY <1>9, <2>1
<1> HIDE DEF x, s
<1>12. s \in Seq(Nat) /\ \A q \in 1..Len(s) : s[q] \in 1..A.col
  <2>1. A.col \in Nat BY <1>2
  <2> QED BY <1>11, <2>1, ColumnsTyped
<1>13. C \in Matrices
  <2> USE <1>2, <1>8, <1>10, <1>12
  <2>1. [row |-> A.row, col |-> A.col, p |-> p, j |-> s, x |-> x] \in Matrices
    BY MatrixOfParts
  <2> QED BY <1>3, <2>1
<1>14. \A q \in 1..k : C.j[q] = A.j[q] /\ C.x[q] = A.x[q] BY <1>4, <1>10, <1>11
<1>15. \A q \in (k + 1)..(n - 1) : C.j[q] = A.j[q + 1] /\ C.x[q] = A.x[q + 1]
  BY <1>4, <1>10, <1>11
<1>16. \A q, l \in (a + 1)..b : q < l => A.j[q] < A.j[l] BY <1>6 DEF Sorted
<1>17. \A q \in 1..n : A.j[q] \in Nat
  <2>1. A.j \in Seq(Nat) BY <1>2, ColumnsTyped
  <2> QED BY <2>1, SeqFunction DEF n
<1>18. Edited(A, C, i, d)
  <2>1. \A q \in 1..a : SameAt(A, C, q, q)
    <3> TAKE q \in 1..a
    <3>1. q \in 1..k BY <1>1
    <3> QED BY <1>14, <3>1 DEF SameAt
  <2>2. \A q \in (b + 1)..n : SameAt(A, C, q, q + d)
    <3> TAKE q \in (b + 1)..n
    <3>1. q + d \in (k + 1)..(n - 1) /\ (q + d) + 1 = q BY <1>1, <1>5
    <3>2. C.j[q + d] = A.j[(q + d) + 1] /\ C.x[q + d] = A.x[(q + d) + 1] BY <1>15, <3>1
    <3> QED BY <3>1, <3>2 DEF SameAt
  <2>3. \A q \in (a + 1)..(b + d - 1) : C.j[q] < C.j[q + 1]
    <3> TAKE q \in (a + 1)..(b + d - 1)
    <3>1. q \in Int /\ a + 1 <= q /\ q <= b - 2 BY <1>1, <1>5
    <3>2. CASE q + 1 <= k
      <4>1. q \in 1..k /\ q + 1 \in 1..k /\ q \in (a + 1)..(b - 1) BY <1>1, <3>1, <3>2
      <4> QED BY <1>7, <1>14, <4>1
    <3>3. CASE q = k
      <4>1. q \in 1..k /\ q + 1 \in (k + 1)..(n - 1) /\ q \in (a + 1)..b
            /\ (q + 1) + 1 \in (a + 1)..b /\ q < (q + 1) + 1
        BY <1>1, <3>1, <3>3
      <4>2. A.j[q] < A.j[(q + 1) + 1] BY <1>16, <4>1
      <4> QED BY <1>14, <1>15, <4>1, <4>2
    <3>4. CASE q > k
      <4>1. q \in (k + 1)..(n - 1) /\ q + 1 \in (k + 1)..(n - 1) /\ q + 1 \in (a + 1)..(b - 1)
        BY <1>1, <3>1, <3>4
      <4>2. A.j[q + 1] < A.j[(q + 1) + 1] BY <1>7, <4>1
      <4> QED BY <1>15, <4>1, <4>2
    <3>5. q + 1 <= k \/ q = k \/ q > k BY <1>1, <3>1
    <3> QED BY <3>2, <3>3, <3>4, <3>5
  <2>4. /\ Len(C.p) = A.row + 1 /\ Len(C.j) = n + d /\ Len(C.x) = n + d
        /\ \A l \in 1..(A.row + 1) : C.p[l] = IF l > i THEN A.p[l] + d ELSE A.p[l]
        /\ \A q \in 1..Len(C.j) : C.j[q] \in 1..A.col
    BY <1>4, <1>8, <1>10, <1>11, <1>12, Zenon
  <2>5. a <= b + d BY <1>1, <1>5
  <2> QED BY <1>4, <1>5, <1>13, <2>1, <2>2, <2>3, <2>4, <2>5, Zenon DEF Edited, a, b, n
<1>19. Found(C, j, a, b + d, Zero)
  <2>1. ASSUME NEW q \in (a + 1)..(b + d) PROVE C.j[q] # j
    <3>0. q \in Int /\ a + 1 <= q /\ q <= b - 1 BY <1>1, <1>5
    <3>1. CASE q <= k
      <4>1. q \in 1..k /\ q \in (a + 1)..b /\ q < k + 1 /\ q \in 1..n BY <1>1, <3>0, <3>1
      <4>2. A.j[q] < A.j[k + 1] BY <1>9, <1>16, <4>1
      <4>3. A.j[q] \in Nat /\ C.j[q] = A.j[q] BY <1>14, <1>17, <4>1
      <4> QED BY <4>2, <4>3
    <3>2. CASE q > k
      <4>1. q \in (k + 1)..(n - 1) /\ q + 1 \in (a + 1)..b /\ k + 1 < q + 1 /\ q + 1 \in 1..n
        BY <1>1, <3>0, <3>2
      <4>2. A.j[k + 1] < A.j[q + 1] BY <1>9, <1>16, <4>1
      <4>3. A.j[q + 1] \in Nat /\ C.j[q] = A.j[q + 1] BY <1>15, <1>17, <4>1
      <4> QED BY <4>2, <4>3
    <3> QED BY <1>1, <3>0, <3>1, <3>2
  <2> QED BY <2>1, Zenon DEF Found
<1>20. ASSUME NEW c \in 1..A.col, c # j, NEW v, Found(A, c, a, b, v)
       PROVE  Found(C, c, a, b + d, v)
  <2>1. CASE \E q \in (a + 1)..b : A.j[q] = c /\ v = A.x[q]
    <3>1. PICK q \in (a + 1)..b : A.j[q] = c /\ v = A.x[q] BY <2>1
    <3>2. q # k + 1 BY <1>20, <3>1
    <3>3. CASE q <= k
      <4>1. q \in 1..k /\ q \in (a + 1)..(b + d) BY <1>1, <1>5, <3>3
      <4>2. C.j[q] = c /\ v = C.x[q] BY <1>14, <3>1, <4>1
      <4> QED BY <4>1, <4>2, Zenon DEF Found
    <3>4. CASE q > k
      <4>1. q - 1 \in (k + 1)..(n - 1) /\ q - 1 \in (a + 1)..(b + d) /\ (q - 1) + 1 = q
        BY <1>1, <1>5, <3>2, <3>4
      <4>2. C.j[q - 1] = c /\ v = C.x[q - 1]
        <5>1. C.j[q - 1] = A.j[(q - 1) + 1] /\ C.x[q - 1] = A.x[(q - 1) + 1] BY <1>15, <4>1
        <5> QED BY <3>1, <4>1, <5>1
      <4> QED BY <4>1, <4>2, Zenon DEF Found
    <3>5. q <= k \/ q > k BY <1>1
    <3> QED BY <3>3, <3>4, <3>5
  <2>2. CASE v = Zero /\ \A q \in (a + 1)..b : A.j[q] # c
    <3>1. ASSUME NEW q \in (a + 1)..(b + d) PROVE C.j[q] # c
      <4>1. q \in Int /\ a + 1 <= q /\ q <= b - 1 BY <1>1, <1>5
      <4>2. CASE q <= k
        <5>1. q \in 1..k /\ q \in (a + 1)..b BY <1>1, <4>1, <4>2
        <5> QED BY <1>14, <2>2, <5>1
      <4>3. CASE q > k
        <5>1. q \in (k + 1)..(n - 1) /\ q + 1 \in (a + 1)..b BY <1>1, <4>1, <4>3
        <5> QED BY <1>15, <2>2, <5>1
      <4> QED BY <1>1, <4>1, <4>2, <4>3
    <3> QED BY <2>2, <3>1, Zenon DEF Found
  <2> QED BY <1>20, <2>1, <2>2, Zenon DEF Found
<1> QED BY <1>18, <1>19, <1>20, EditedSet DEF a, b

(* set where the column is not stored: it comes in between.                *)
LEMMA SetInserts ==
  ASSUME NEW A, IsCanonical(A), NEW i \in 1..A.row, NEW j \in 1..A.col, NEW e \in Value,
         NEW k \in A.p[i]..A.p[i + 1],
         \A q \in (A.p[i] + 1)..k : A.j[q] < j,
         \A q \in (k + 1)..A.p[i + 1] : j < A.j[q],
         NEW C, C = [A EXCEPT !.x = InsertAt(@, k + 1, e), !.j = InsertAt(@, k + 1, j),
                              !.p = Starts(A, i, 1)]
  PROVE  SetTo(A, C, i, j, e)
<1> DEFINE a == A.p[i]
           b == A.p[i + 1]
           n == Len(A.j)
           x == InsertAt(A.x, k + 1, e)
           s == InsertAt(A.j, k + 1, j)
           p == Starts(A, i, 1)
<1>1. a \in Nat /\ b \in Nat /\ a <= b /\ b <= n /\ n \in Nat /\ k \in a..b
  BY RowsInside
<1>2. /\ A.row \in Nat \ {0} /\ A.col \in Nat \ {0}
      /\ A.j \in Seq(1..A.col) /\ A.x \in Seq(Value) /\ A.p \in Seq(Nat)
      /\ Len(A.x) = n
      /\ A = [row |-> A.row, col |-> A.col, p |-> A.p, j |-> A.j, x |-> A.x]
  BY CanonicalParts
<1>3. C = [row |-> A.row, col |-> A.col, p |-> p, j |-> s, x |-> x] BY <1>2
<1>4. C.row = A.row /\ C.col = A.col /\ C.p = p /\ C.j = s /\ C.x = x BY <1>3
<1>5. (\A q \in (a + 1)..k : A.j[q] < j) /\ (\A q \in (k + 1)..b : j < A.j[q]) OBVIOUS
<1>6. \A q \in (a + 1)..(b - 1) : A.j[q] < A.j[q + 1] BY DEF IsCanonical
<1>7. /\ p \in Seq(Nat) /\ Len(p) = A.row + 1
      /\ \A l \in 1..(A.row + 1) : p[l] = IF l > i THEN A.p[l] + 1 ELSE A.p[l]
  <2>1. A.p[i + 1] + 1 >= 0 /\ 1 \in Int BY <1>1
  <2> QED BY <2>1, StartsMove
<1> HIDE DEF a, b, n, p
<1>8. k + 1 \in 1..(n + 1) /\ k + 1 \in (a + 1)..(b + 1) /\ (k + 1) - 1 = k BY <1>1
<1>9. /\ x \in Seq(Value) /\ Len(x) = n + 1
      /\ \A q \in 1..k : x[q] = A.x[q]
      /\ x[k + 1] = e
      /\ \A q \in (k + 1)..n : x[q + 1] = A.x[q]
  <2>0. A.x \in Seq(Value) BY <1>2
  <2>1. k + 1 \in 1..(Len(A.x) + 1) BY <1>2, <1>8
  <2>2. x \in Seq(Value) /\ Insertion(A.x, x, k + 1, e) BY <2>0, <2>1, Inserted
  <2> HIDE DEF x
  <2> QED BY <1>2, <1>8, <2>2 DEF Insertion
<1>10. /\ s \in Seq(1..A.col) /\ Len(s) = n + 1
       /\ \A q \in 1..k : s[q] = A.j[q]
       /\ s[k + 1] = j
       /\ \A q \in (k + 1)..n : s[q + 1] = A.j[q]
  <2>0. A.j \in Seq(1..A.col) BY <1>2
  <2>1. k + 1 \in 1..(Len(A.j) + 1) BY <1>8 DEF n
  <2>2. s \in Seq(1..A.col) /\ Insertion(A.j, s, k + 1, j) BY <2>0, <2>1, Inserted
  <2> HIDE DEF s
  <2> QED BY <1>8, <2>2 DEF Insertion, n
<1> HIDE DEF x, s
<1>11. s \in Seq(Nat) /\ \A q \in 1..Len(s) : s[q] \in 1..A.col
  <2>1. A.col \in Nat BY <1>2
  <2> QED BY <1>10, <2>1, ColumnsTyped
<1>12. C \in Matrices
  <2> USE <1>2, <1>7, <1>9, <1>11
  <2>1. [row |-> A.row, col |-> A.col, p |-> p, j |-> s, x |-> x] \in Matrices
    BY MatrixOfParts
  <2> QED BY <1>3, <2>1
<1>13. \A q \in 1..k : C.j[q] = A.j[q] /\ C.x[q] = A.x[q] BY <1>4, <1>9, <1>10
<1>14. C.j[k + 1] = j /\ C.x[k + 1] = e BY <1>4, <1>9, <1>10
<1>15. \A q \in (k + 1)..n : C.j[q + 1] = A.j[q] /\ C.x[q + 1] = A.x[q]
  BY <1>4, <1>9, <1>10
<1>16. Edited(A, C, i, 1)
  <2>1. \A q \in 1..a : SameAt(A, C, q, q)
    <3> TAKE q \in 1..a
    <3>1. q \in 1..k BY <1>1
    <3> QED BY <1>13, <3>1 DEF SameAt
  <2>2. \A q \in (b + 1)..n : SameAt(A, C, q, q + 1)
    <3> TAKE q \in (b + 1)..n
    <3>1. q \in (k + 1)..n BY <1>1
    <3> QED BY <1>15, <3>1 DEF SameAt
  <2>3. \A q \in (a + 1)..(b + 1 - 1) : C.j[q] < C.j[q + 1]
    <3> TAKE q \in (a + 1)..(b + 1 - 1)
    <3>1. q \in Int /\ a + 1 <= q /\ q <= b BY <1>1
    <3>2. CASE q + 1 <= k
      <4>1. q \in 1..k /\ q + 1 \in 1..k /\ q \in (a + 1)..(b - 1) BY <1>1, <3>1, <3>2
      <4> QED BY <1>6, <1>13, <4>1
    <3>3. CASE q = k
      <4>1. q \in 1..k /\ q \in (a + 1)..k BY <1>1, <3>1, <3>3
      <4> QED BY <1>5, <1>13, <1>14, <3>3, <4>1
    <3>4. CASE q = k + 1
      <4>1. q \in (k + 1)..n /\ q \in (k + 1)..b BY <1>1, <3>1, <3>4
      <4> QED BY <1>5, <1>14, <1>15, <3>4, <4>1
    <3>5. CASE q > k + 1
      <4>1. q - 1 \in (k + 1)..n /\ q \in (k + 1)..n /\ q - 1 \in (a + 1)..(b - 1)
            /\ (q - 1) + 1 = q
        BY <1>1, <3>1, <3>5
      <4>2. A.j[q - 1] < A.j[(q - 1) + 1] BY <1>6, <4>1
      <4>3. C.j[(q - 1) + 1] = A.j[q - 1] /\ C.j[q + 1] = A.j[q] BY <1>15, <4>1
      <4> QED BY <4>1, <4>2, <4>3
    <3>6. q + 1 <= k \/ q = k \/ q = k + 1 \/ q > k + 1 BY <1>1, <3>1
    <3> QED BY <3>2, <3>3, <3>4, <3>5, <3>6
  <2>4. /\ Len(C.p) = A.row + 1 /\ Len(C.j) = n + 1 /\ Len(C.x) = n + 1
        /\ \A l \in 1..(A.row + 1) : C.p[l] = IF l > i THEN A.p[l] + 1 ELSE A.p[l]
        /\ \A q \in 1..Len(C.j) : C.j[q] \in 1..A.col
    BY <1>4, <1>7, <1>9, <1>10, <1>11, Zenon
  <2>5. a <= b + 1 /\ 1 \in Int BY <1>1
  <2> QED BY <1>4, <1>12, <2>1, <2>2, <2>3, <2>4, <2>5, Zenon DEF Edited, a, b, n
<1>17. Found(C, j, a, b + 1, e) BY <1>8, <1>14, Zenon DEF Found
<1>18. ASSUME NEW c \in 1..A.col, c # j, NEW v, Found(A, c, a, b, v)
       PROVE  Found(C, c, a, b + 1, v)
  <2>1. CASE \E q \in (a + 1)..b : A.j[q] = c /\ v = A.x[q]
    <3>1. PICK q \in (a + 1)..b : A.j[q] = c /\ v = A.x[q] BY <2>1
    <3>2. CASE q <= k
      <4>1. q \in 1..k /\ q \in (a + 1)..(b + 1) BY <1>1, <3>2
      <4>2. C.j[q] = c /\ v = C.x[q] BY <1>13, <3>1, <4>1
      <4> QED BY <4>1, <4>2, Zenon DEF Found
    <3>3. CASE q > k
      <4>1. q \in (k + 1)..n /\ q + 1 \in (a + 1)..(b + 1) BY <1>1, <3>3
      <4>2. C.j[q + 1] = c /\ v = C.x[q + 1] BY <1>15, <3>1, <4>1
      <4> QED BY <4>1, <4>2, Zenon DEF Found
    <3>4. q <= k \/ q > k BY <1>1
    <3> QED BY <3>2, <3>3, <3>4
  <2>2. CASE v = Zero /\ \A q \in (a + 1)..b : A.j[q] # c
    <3>1. ASSUME NEW q \in (a + 1)..(b + 1) PROVE C.j[q] # c
      <4>1. q \in Int /\ a + 1 <= q /\ q <= b + 1 BY <1>1
      <4>2. CASE q <= k
        <5>1. q \in 1..k /\ q \in (a + 1)..b BY <1>1, <4>1, <4>2
        <5> QED BY <1>13, <2>2, <5>1
      <4>3. CASE q = k + 1 BY <1>14, <1>18, <4>3
      <4>4. CASE q > k + 1
        <5>1. q - 1 \in (k + 1)..n /\ q - 1 \in (a + 1)..b /\ (q - 1) + 1 = q
          BY <1>1, <4>1, <4>4
        <5>2. C.j[(q - 1) + 1] = A.j[q - 1] BY <1>15, <5>1
        <5> QED BY <2>2, <5>1, <5>2
      <4> QED BY <1>1, <4>1, <4>2, <4>3, <4>4
    <3> QED BY <2>2, <3>1, Zenon DEF Found
  <2> QED BY <1>18, <2>1, <2>2, Zenon DEF Found
<1> QED BY <1>16, <1>17, <1>18, EditedSet DEF a, b

(* set where nothing is stored and zero is written changes nothing.        *)
LEMMA SetNothing ==
  ASSUME NEW A, IsCanonical(A), NEW i \in 1..A.row, NEW j \in 1..A.col,
         \A q \in (A.p[i] + 1)..A.p[i + 1] : A.j[q] # j
  PROVE  SetTo(A, A, i, j, Zero)
<1>1. j \in Nat BY CanonicalParts
<1>2. Found(A, j, A.p[i], A.p[i + 1], Zero) BY DEF Found
<1>3. Get(A, i, j) = Zero BY <1>1, <1>2, GetIs
<1> QED BY <1>3 DEF SetTo

(* The matrix that set leaves behind.                                      *)
SetResult(A, i, j, e, k) ==
  IF Present(A, i, j, k)
    THEN IF e # Zero THEN [A EXCEPT !.x[k + 1] = e]
         ELSE [A EXCEPT !.x = RemoveAt(@, k + 1), !.j = RemoveAt(@, k + 1),
                        !.p = Starts(A, i, 0 - 1)]
    ELSE IF e = Zero THEN A
         ELSE [A EXCEPT !.x = InsertAt(@, k + 1, e), !.j = InsertAt(@, k + 1, j),
                        !.p = Starts(A, i, 1)]

(* set: the position its binary search finds is where the column is or     *)
(* belongs, so that the matrix stays canonical, and get finds e at row i   *)
(* and column j and everywhere else what it found before.                  *)
LEMMA SetGet ==
  ASSUME NEW A, IsCanonical(A), NEW i \in 1..A.row, NEW j \in 1..A.col, NEW e \in Value
  PROVE  SetTo(A, SetResult(A, i, j, e, Place(A, i, j)), i, j, e)
<1> DEFINE a == A.p[i]
           b == A.p[i + 1]
           k == Place(A, i, j)
<1>1. a \in Nat /\ b \in Nat /\ a <= b /\ b <= Len(A.j) /\ Len(A.j) \in Nat
  BY RowsInside
<1>2. Columns(A) /\ Bounds(A, i) \in Span(A) /\ Sorted(A, a, b) BY CanonicalColumns, RowSorted
<1>3. j \in Nat BY CanonicalParts
<1>4. Bounds(A, i).first = a /\ Bounds(A, i).end = b BY DEF Bounds
<1>5. Placed(A, j, a, b, k)
  <2>1. Bounds(A, i).first <= Bounds(A, i).end /\ Sorted(A, Bounds(A, i).first, Bounds(A, i).end)
    BY <1>1, <1>2, <1>4
  <2>2. Placed(A, j, Bounds(A, i).first, Bounds(A, i).end, PlaceIn(A, j)[Bounds(A, i)])
    BY <1>2, <1>3, <2>1, PlaceFinds
  <2> QED BY <1>4, <2>2 DEF Place
<1>6. \A q \in 1..Len(A.j) : A.j[q] \in Nat BY <1>2 DEF Columns
<1> HIDE DEF k
<1>7. /\ k \in a..b
      /\ \A q \in (a + 1)..k : A.j[q] < j
      /\ \A q \in (k + 1)..b : A.j[q] >= j
  BY <1>5 DEF Placed
<1>8. \A q, l \in (a + 1)..b : q < l => A.j[q] < A.j[l] BY <1>2 DEF Sorted
<1>9. Present(A, i, j, k) <=> k < b /\ A.j[k + 1] = j BY DEF Present, AtPos
<1>10. CASE Present(A, i, j, k) /\ e # Zero
  <2>1. k \in a..(b - 1) /\ A.j[k + 1] = j BY <1>1, <1>7, <1>9, <1>10
  <2>2. SetResult(A, i, j, e, k) = [A EXCEPT !.x[k + 1] = e] BY <1>10 DEF SetResult
  <2> QED BY <2>1, <2>2, SetReplaces DEF k
<1>11. CASE Present(A, i, j, k) /\ e = Zero
  <2>1. k \in a..(b - 1) /\ A.j[k + 1] = j BY <1>1, <1>7, <1>9, <1>11
  <2>2. SetResult(A, i, j, e, k) =
          [A EXCEPT !.x = RemoveAt(@, k + 1), !.j = RemoveAt(@, k + 1),
                    !.p = Starts(A, i, 0 - 1)]
    BY <1>11 DEF SetResult
  <2> QED BY <1>11, <2>1, <2>2, SetRemoves DEF k
<1>12. ASSUME ~Present(A, i, j, k), NEW q \in (k + 1)..b PROVE j < A.j[q]
  <2>1. k + 1 \in (a + 1)..b /\ q \in (a + 1)..b /\ k < b /\ k + 1 \in (k + 1)..b
        /\ k + 1 \in 1..Len(A.j) /\ q \in 1..Len(A.j)
    <3>1. k \in Int /\ a <= k BY <1>1, <1>7
    <3>2. q \in Int /\ k + 1 <= q /\ q <= b BY <1>1, <3>1
    <3> HIDE DEF a, b
    <3> QED BY <1>1, <3>1, <3>2
  <2>2. A.j[k + 1] # j /\ A.j[k + 1] >= j BY <1>7, <1>9, <1>12, <2>1
  <2>3. A.j[k + 1] \in Nat /\ A.j[q] \in Nat BY <1>6, <2>1
  <2>4. q = k + 1 \/ k + 1 < q BY <1>1, <1>7
  <2>5. q = k + 1 \/ A.j[k + 1] < A.j[q] BY <1>8, <2>1, <2>4
  <2> QED BY <1>3, <2>2, <2>3, <2>5
<1>13. CASE ~Present(A, i, j, k) /\ e = Zero
  <2>1. ASSUME NEW q \in (a + 1)..b PROVE A.j[q] # j
    <3>1. q \in 1..Len(A.j) /\ (q \in (a + 1)..k \/ q \in (k + 1)..b) BY <1>1, <1>7, SMTT(40)
    <3>2. A.j[q] \in Nat /\ (A.j[q] < j \/ j < A.j[q]) BY <1>6, <1>7, <1>12, <1>13, <3>1
    <3> QED BY <1>3, <3>2
  <2>2. SetTo(A, A, i, j, Zero) BY <2>1, SetNothing
  <2>3. SetResult(A, i, j, e, k) = A BY <1>13 DEF SetResult
  <2> QED BY <1>13, <2>2, <2>3 DEF k
<1>14. CASE ~Present(A, i, j, k) /\ e # Zero
  <2>1. SetResult(A, i, j, e, k) =
          [A EXCEPT !.x = InsertAt(@, k + 1, e), !.j = InsertAt(@, k + 1, j),
                    !.p = Starts(A, i, 1)]
    BY <1>14 DEF SetResult
  <2>2. \A q \in (k + 1)..b : j < A.j[q] BY <1>12, <1>14
  <2> QED BY <1>7, <2>1, <2>2, SetInserts DEF k
<1> QED BY <1>10, <1>11, <1>13, <1>14

(* The matrices the constructors make are canonical.                       *)
LEMMA InitCanonical ==
  ASSUME Init
  PROVE  Canonical /\ \E shape \in Shapes : m.row = shape.row /\ m.col = shape.col
<1>1. PICK shape \in Shapes :
        \/ m = Empty(shape.row, shape.col)
        \/ \E n \in 1..MaxCoo :
             \E list \in Lists(n, shape.row, shape.col) :
               m = FromCoo(shape.row, shape.col, list)
        \/ \E d \in Tables(shape.row, shape.col, Operand) : m = Jacobian(shape.row, shape.col, d)
  BY DEF Init, Lists
<1> DEFINE r == shape.row
           c == shape.col
<1>2. r \in Nat \ {0} /\ c \in Nat \ {0} BY EntryAssumption
<1> HIDE DEF r, c
<1>3. ASSUME m = Empty(r, c) PROVE IsCanonical(m) /\ m.row = r /\ m.col = c
  BY <1>2, <1>3, EmptyCanonical
<1>4. ASSUME NEW n \in 1..MaxCoo, NEW list \in Lists(n, r, c), m = FromCoo(r, c, list)
      PROVE  IsCanonical(m) /\ m.row = r /\ m.col = c
  <2>1. n \in Nat BY EntryAssumption
  <2> QED BY <1>2, <1>4, <2>1, FromCooCanonical
<1>5. ASSUME NEW d \in Tables(r, c, Operand), m = Jacobian(r, c, d)
      PROVE  IsCanonical(m) /\ m.row = r /\ m.col = c
  <2>1. d \in Tables(r, c, Value) BY EntryAssumption DEF Tables
  <2> QED BY <1>2, <1>5, <2>1, JacobianGet
<1>6. IsCanonical(m) /\ m.row = r /\ m.col = c
  BY <1>1, <1>3, <1>4, <1>5, Zenon DEF r, c
<1> QED BY <1>6 DEF Canonical, r, c

(* What an operation makes of the matrix is canonical, and what it makes   *)
(* of what the users see is what the operation of a matrix does.           *)
LEMMA SetStep ==
  ASSUME Canonical, NEW i \in 1..m.row, NEW j \in 1..m.col, NEW e \in Value, Set(i, j, e)
  PROVE  Canonical' /\ M!Set(i, j, e)
<1>1. IsCanonical(m) BY DEF Canonical
<1>2. m' = SetResult(m, i, j, e, Place(m, i, j)) BY Zenon DEF Set, SetResult, Starts
<1>3. SetTo(m, m', i, j, e) BY <1>1, <1>2, SetGet
<1>4. /\ IsCanonical(m') /\ m'.row = m.row /\ m'.col = m.col
      /\ \A h \in 1..m.row : \A c \in 1..m.col :
           Get(m', h, c) = IF h = i /\ c = j THEN e ELSE Get(m, h, c)
  BY <1>3 DEF SetTo
<1>5. [h \in 1..m'.row |-> [c \in 1..m'.col |-> Get(m', h, c)]] =
        [[h \in 1..m.row |-> [c \in 1..m.col |-> Get(m, h, c)]] EXCEPT ![i][j] = e]
  BY <1>4
<1> QED BY <1>4, <1>5 DEF Canonical, M!Set

(* transpose, and conjugate_transpose.                                     *)
LEMMA TransposeStep ==
  ASSUME Canonical, NEW f, f[Zero] = Zero, \A v \in Value : f[v] \in Value, Transpose(f)
  PROVE  Canonical' /\ M!Transpose(f)
<1>1. IsCanonical(m) /\ m' = Transposed(m, f) BY DEF Canonical, Transpose
<1>2. /\ IsCanonical(m') /\ m'.row = m.col /\ m'.col = m.row
      /\ \A c \in 1..m.col : \A i \in 1..m.row : Get(m', c, i) = f[Get(m, i, c)]
  BY <1>1, TransposedGet
<1>3. [c \in 1..m'.row |-> [i \in 1..m'.col |-> Get(m', c, i)]] =
        [c \in 1..m.col |-> [i \in 1..m.row |->
           f[[h \in 1..m.row |-> [l \in 1..m.col |-> Get(m, h, l)]][i][c]]]]
  BY <1>2
<1> QED BY <1>2, <1>3 DEF Canonical, M!Transpose

(* conjugate, of a square matrix.                                          *)
LEMMA ConjugateStep ==
  ASSUME Canonical, Conjugate
  PROVE  Canonical' /\ M!Conjugate
<1>1. IsCanonical(m) /\ m.row = m.col /\ m' = Conjugated(m)
  BY DEF Canonical, Conjugate, Conjugated
<1>2. /\ IsCanonical(m') /\ m'.row = m.row /\ m'.col = m.col
      /\ \A i \in 1..m.row : \A c \in 1..m.col : Get(m', i, c) = conjugate[Get(m, i, c)]
  BY <1>1, ConjugateGet
<1>3. [i \in 1..m'.row |-> [c \in 1..m'.col |-> Get(m', i, c)]] =
        [i \in 1..m.row |-> [c \in 1..m.col |->
           conjugate[[h \in 1..m.row |-> [l \in 1..m.col |-> Get(m, h, l)]][i][c]]]]
  BY <1>2
<1> QED BY <1>2, <1>3 DEF Canonical, M!Conjugate

(* The sum and the product, entry by entry, with any matrix of the same    *)
(* shape.                                                                  *)
LEMMA ElementwiseStep ==
  ASSUME Canonical, NEW op, Binary(op), NEW d \in Tables(m.row, m.col, Operand),
         Elementwise(op, Jacobian(m.row, m.col, d))
  PROVE  Canonical' /\ M!Elementwise(op, d)
<1> DEFINE B == Jacobian(m.row, m.col, d)
<1>1. IsCanonical(m) /\ m.row \in Nat \ {0} /\ m.col \in Nat \ {0}
  BY DEF Canonical, IsCanonical, Matrices
<1>2. d \in Tables(m.row, m.col, Value) BY EntryAssumption DEF Tables
<1>3. /\ IsCanonical(B) /\ B.row = m.row /\ B.col = m.col
      /\ \A i \in 1..m.row : \A c \in 1..m.col : Get(B, i, c) = d[i][c]
  BY <1>1, <1>2, JacobianGet
<1>4. m' = Pack(m.row, m.col, [i \in 1..m.row |-> Merged(Line(m, i), Line(B, i), op)])
  BY DEF Elementwise
<1> HIDE DEF B
<1>5. /\ IsCanonical(m') /\ m'.row = m.row /\ m'.col = m.col
      /\ \A i \in 1..m.row : \A c \in 1..m.col :
           Get(m', i, c) = op[Get(m, i, c)][Get(B, i, c)]
  BY <1>1, <1>3, <1>4, ElementwiseGet
<1>6. [i \in 1..m'.row |-> [c \in 1..m'.col |-> Get(m', i, c)]] =
        [i \in 1..m.row |-> [c \in 1..m.col |->
           op[[h \in 1..m.row |-> [l \in 1..m.col |-> Get(m, h, l)]][i][c]][d[i][c]]]]
  BY <1>3, <1>5
<1> QED BY <1>5, <1>6 DEF Canonical, M!Elementwise

(* csr_scale_rows, also where it stops at a factor zero.                   *)
LEMMA ScaleRowsStep ==
  ASSUME Canonical, NEW X \in [1..m.row -> Operand], ScaleRows(X)
  PROVE  Canonical' /\ M!ScaleRows(X)
<1>1. IsCanonical(m) BY DEF Canonical
<1>2. X \in [1..m.row -> Value] BY EntryAssumption
<1>3. m' = Pack(m.row, m.col, [i \in 1..m.row |->
                 IF \A h \in 1..i : X[h] # Zero
                   THEN [k \in DOMAIN Line(m, i) |->
                           [col |-> Line(m, i)[k].col, val |-> mul[Line(m, i)[k].val][X[i]]]]
                   ELSE Line(m, i)])
  BY SMTT(40) DEF ScaleRows
<1>4. /\ IsCanonical(m') /\ m'.row = m.row /\ m'.col = m.col
      /\ \A i \in 1..m.row : \A c \in 1..m.col :
           Get(m', i, c) = IF \A h \in 1..i : X[h] # Zero THEN mul[Get(m, i, c)][X[i]]
                           ELSE Get(m, i, c)
  BY <1>1, <1>2, <1>3, ScaleRowsGet
<1>5. [i \in 1..m'.row |-> [c \in 1..m'.col |-> Get(m', i, c)]] =
        [i \in 1..m.row |-> [c \in 1..m.col |->
           IF \A h \in 1..i : X[h] # Zero
             THEN mul[[h \in 1..m.row |-> [l \in 1..m.col |-> Get(m, h, l)]][i][c]][X[i]]
             ELSE [h \in 1..m.row |-> [l \in 1..m.col |-> Get(m, h, l)]][i][c]]]
  BY <1>4
<1> QED BY <1>4, <1>5 DEF Canonical, M!ScaleRows

(* csr_scale_columns.                                                      *)
LEMMA ScaleColumnsStep ==
  ASSUME Canonical, NEW X \in [1..m.col -> Operand], ScaleColumns(X)
  PROVE  Canonical' /\ M!ScaleColumns(X)
<1>0. IsCanonical(m) BY DEF Canonical
<1>1. IsCanonical(m) /\ \A c \in 1..m.col : X[c] # Zero BY DEF Canonical, ScaleColumns
<1>2. X \in [1..m.col -> Value] BY EntryAssumption
<1>3. m' = ColumnsScaled(m, X) BY DEF ScaleColumns, ColumnsScaled
<1>4. /\ IsCanonical(m') /\ m'.row = m.row /\ m'.col = m.col
      /\ \A i \in 1..m.row : \A c \in 1..m.col : Get(m', i, c) = mul[Get(m, i, c)][X[c]]
  <2>1. ASSUME NEW C, C = ColumnsScaled(m, X) PROVE ScaledTo(m, X, C)
    BY <1>0, <1>2, <2>1, ScaleColumnsGet
  <2> QED BY <1>3, <2>1 DEF ScaledTo
<1>5. [i \in 1..m'.row |-> [c \in 1..m'.col |-> Get(m', i, c)]] =
        [i \in 1..m.row |-> [c \in 1..m.col |->
           mul[[h \in 1..m.row |-> [l \in 1..m.col |-> Get(m, h, l)]][i][c]][X[c]]]]
  BY <1>4
<1> QED BY <1>1, <1>4, <1>5 DEF Canonical, M!ScaleColumns

(* A step that leaves the matrix alone.                                    *)
LEMMA StutterStep ==
  ASSUME Canonical, UNCHANGED m
  PROVE  Canonical' /\ UNCHANGED M!vars
BY DEF Canonical, M!vars

(* Every step keeps the matrix canonical, and is a step of the matrix its  *)
(* users see or changes nothing they see.                                  *)
LEMMA NextStep ==
  ASSUME Canonical, [Next]_vars
  PROVE  Canonical' /\ [M!Next]_(M!vars)
<1>1. ASSUME NEW i \in 1..m.row, NEW j \in 1..m.col, NEW e \in Value, Set(i, j, e)
      PROVE  Canonical' /\ M!Next
  BY <1>1, SetStep DEF M!Next
<1>2. ASSUME Transpose(Same) PROVE Canonical' /\ M!Next
  <2>1. Same[Zero] = Zero /\ \A v \in Value : Same[v] \in Value BY EntryAssumption DEF Same
  <2>2. Canonical' /\ M!Transpose(Same) BY <1>2, <2>1, TransposeStep
  <2>3. M!Same = Same BY DEF M!Same, Same
  <2> QED BY <2>2, <2>3 DEF M!Next
<1>3. ASSUME Transpose(conjugate) PROVE Canonical' /\ M!Next
  <2>1. conjugate[Zero] = Zero /\ \A v \in Value : conjugate[v] \in Value BY EntryAssumption
  <2>2. Canonical' /\ M!Transpose(conjugate) BY <1>3, <2>1, TransposeStep
  <2> QED BY <2>2 DEF M!Next
<1>4. ASSUME Conjugate PROVE Canonical' /\ M!Next
  BY <1>4, ConjugateStep DEF M!Next
<1>5. ASSUME NEW d \in Tables(m.row, m.col, Operand), NEW op \in {add, mul},
             Elementwise(op, Jacobian(m.row, m.col, d))
      PROVE  Canonical' /\ M!Next
  <2>1. Binary(op) BY BothBinary
  <2>2. Canonical' /\ M!Elementwise(op, d) BY <1>5, <2>1, ElementwiseStep
  <2>3. d \in M!Entries(m.row, m.col, Operand) BY DEF M!Entries, Tables
  <2> QED BY <2>2, <2>3 DEF M!Next
<1>6. ASSUME NEW X \in [1..m.row -> Operand], ScaleRows(X) PROVE Canonical' /\ M!Next
  BY <1>6, ScaleRowsStep DEF M!Next
<1>7. ASSUME NEW X \in [1..m.col -> Operand], ScaleColumns(X) PROVE Canonical' /\ M!Next
  BY <1>7, ScaleColumnsStep DEF M!Next
<1>8. ASSUME Diagonal \/ UNCHANGED vars PROVE Canonical' /\ UNCHANGED M!vars
  <2>1. UNCHANGED m BY <1>8 DEF Diagonal, vars
  <2> QED BY <2>1, StutterStep
<1> QED BY <1>1, <1>2, <1>3, <1>4, <1>5, <1>6, <1>7, <1>8 DEF Next

(* Whatever was created and in whatever order it was changed, the matrix   *)
(* is one on which the binary searches of get and set work.                *)
THEOREM CanonicalAlways == Spec => []Canonical
<1>1. Init => Canonical BY InitCanonical
<1>2. Canonical /\ [Next]_vars => Canonical' BY NextStep
<1> QED BY <1>1, <1>2, PTL DEF Spec

(* What the constructors make is, seen through get, one of the matrices the*)
(* abstract specification starts with.                                     *)
LEMMA InitStep ==
  ASSUME Init
  PROVE  M!Init
<1>1. IsCanonical(m) BY InitCanonical DEF Canonical
<1>2. PICK shape \in Shapes : m.row = shape.row /\ m.col = shape.col BY InitCanonical
<1>3. ASSUME NEW i \in 1..m.row, NEW j \in 1..m.col PROVE Get(m, i, j) \in Value
  <2>1. j \in Nat BY <1>1, CanonicalParts
  <2> QED BY <1>1, <2>1, GetLine
<1>4. [i \in 1..m.row |-> [j \in 1..m.col |-> Get(m, i, j)]] \in M!Entries(m.row, m.col, Value)
  BY <1>3 DEF M!Entries
<1> QED BY <1>2, <1>4 DEF M!Init

(* The compressed rows implement the matrix: every operation, seen through *)
(* get, does to every entry, stored or not, what it says.                  *)
THEOREM ImplementsAlways == Spec => ImplementsMatrix
<1>1. Init => M!Init BY InitStep
<1>2. Canonical /\ [Next]_vars => [M!Next]_(M!vars) BY NextStep
<1> QED BY <1>1, <1>2, CanonicalAlways, PTL DEF Spec, ImplementsMatrix, M!Spec

(* The spans csr_diagonal looks at, and what it does at one of them.       *)
Wide(A) == [first : 0..(Len(A.j) + 1), end : 0..Len(A.j)]

DiagonalStep(A, i, s, search) ==
  IF s.first > s.end THEN Zero
  ELSE IF Mid(s) >= Len(A.j) THEN Undefined
  ELSE IF AtPos(A.j, Mid(s)) = i THEN AtPos(A.x, Mid(s))
  ELSE IF AtPos(A.j, Mid(s)) < i THEN search[[first |-> Mid(s) + 1, end |-> s.end]]
  ELSE IF Mid(s) = 0 THEN Undefined
  ELSE search[[first |-> s.first, end |-> Mid(s) - 1]]

(* Where it goes on.                                                       *)
LEMMA WideParts ==
  ASSUME NEW A, Len(A.j) \in Nat, NEW s \in Wide(A), s.first <= s.end
  PROVE  /\ s.first \in 0..Len(A.j) /\ s.end \in 0..Len(A.j)
         /\ Mid(s) \in Nat /\ s.first <= Mid(s) /\ Mid(s) <= s.end
         /\ [first |-> Mid(s) + 1, end |-> s.end] \in Wide(A)
         /\ Mid(s) < Len(A.j) => Mid(s) + 1 \in 1..Len(A.j)
         /\ Mid(s) # 0 => [first |-> s.first, end |-> Mid(s) - 1] \in Wide(A)
<1>1. s.first \in 0..(Len(A.j) + 1) /\ s.end \in 0..Len(A.j) BY DEF Wide
<1>2. s.first \in 0..Len(A.j) BY <1>1
<1>3. Mid(s) \in Nat /\ s.first <= Mid(s) /\ Mid(s) <= s.end BY <1>1 DEF Mid
<1>4. Mid(s) + 1 \in 0..(Len(A.j) + 1) /\ (Mid(s) < Len(A.j) => Mid(s) + 1 \in 1..Len(A.j))
  BY <1>1, <1>3
<1>5. Mid(s) # 0 => Mid(s) - 1 \in 0..Len(A.j) BY <1>1, <1>3
<1> QED BY <1>1, <1>2, <1>3, <1>4, <1>5 DEF Wide

(* The search of csr_diagonal is a function that does this at every span.  *)
DiagonalTable(A, i, g) ==
  /\ \A s \in Wide(A) : g[s] = DiagonalStep(A, i, s, g)
  /\ \A from : SearchFrom(A, i, from) = g[[first |-> from, end |-> A.p[i + 1]]]

(* There is such a function.                                               *)
LEMMA DiagonalEquation ==
  ASSUME NEW A, NEW i, Len(A.j) \in Nat, A.x \in Seq(Value), Len(A.x) = Len(A.j)
  PROVE  \E g : DiagonalTable(A, i, g)
<1> DEFINE D == Wide(A)
           n == Len(A.j)
           V == Value \cup {Undefined}
           rank == [s \in D |-> IF s.first <= s.end THEN s.end - s.first + 1 ELSE 0]
           F == [s \in D |-> [h \in [D -> V] |-> DiagonalStep(A, i, s, h)]]
           g == CHOOSE g : g = [s \in [first : 0..(Len(A.j) + 1), end : 0..Len(A.j)] |->
                  LET k == (s.first + s.end) \div 2
                  IN IF s.first > s.end THEN Zero
                     ELSE IF k >= Len(A.j) THEN Undefined
                     ELSE IF AtPos(A.j, k) = i THEN AtPos(A.x, k)
                     ELSE IF AtPos(A.j, k) < i THEN g[[first |-> k + 1, end |-> s.end]]
                     ELSE IF k = 0 THEN Undefined
                     ELSE g[[first |-> s.first, end |-> k - 1]]]
<1>1. V # {} /\ n + 1 \in Nat /\ Zero \in V /\ Undefined \in V BY EntryAssumption
<1>2. rank \in [D -> 0..(n + 1)] BY DEF Wide
<1>3. F \in [D -> [[D -> V] -> V]]
  <2> SUFFICES ASSUME NEW s \in D, NEW h \in [D -> V] PROVE DiagonalStep(A, i, s, h) \in V
    OBVIOUS
  <2>1. CASE s.first > s.end BY <1>1, <2>1, Zenon DEF DiagonalStep
  <2>2. CASE ~(s.first > s.end)
    <3>1. s.first <= s.end BY <2>2 DEF Wide
    <3>2. /\ Mid(s) < n => Mid(s) + 1 \in 1..n
          /\ [first |-> Mid(s) + 1, end |-> s.end] \in D
          /\ Mid(s) # 0 => [first |-> s.first, end |-> Mid(s) - 1] \in D
          /\ Mid(s) >= n \/ Mid(s) < n
      BY <3>1, WideParts
    <3>3. Mid(s) < n => A.x[Mid(s) + 1] \in V
      <4>1. \A k \in 1..n : A.x[k] \in Value BY SeqFunction
      <4> QED BY <3>2, <4>1
    <3>4. /\ h[[first |-> Mid(s) + 1, end |-> s.end]] \in V
          /\ Mid(s) # 0 => h[[first |-> s.first, end |-> Mid(s) - 1]] \in V
      <4> HIDE DEF V, D
      <4> QED BY <3>2
    <3>5. CASE Mid(s) >= n
      <4>1. DiagonalStep(A, i, s, h) = Undefined BY <2>2, <3>5, Zenon DEF DiagonalStep
      <4> QED BY <1>1, <4>1
    <3>6. CASE ~(Mid(s) >= n) /\ Mid(s) < n
      <4> HIDE DEF V, D
      <4>1. A.x[Mid(s) + 1] \in V BY <3>3, <3>6
      <4> QED BY <1>1, <2>2, <3>4, <3>6, <4>1, Zenon DEF DiagonalStep, AtPos
    <3> QED BY <3>2, <3>5, <3>6
  <2> QED BY <2>1, <2>2
<1>4. ByRank(D, V, rank, F)
  <2> SUFFICES ASSUME NEW s \in D, NEW x \in [D -> V], NEW y \in [D -> V],
                      \A e \in D : rank[e] < rank[s] => x[e] = y[e]
               PROVE  F[s][x] = F[s][y]
    BY DEF ByRank
  <2> SUFFICES DiagonalStep(A, i, s, x) = DiagonalStep(A, i, s, y)
    OBVIOUS
  <2>1. CASE s.first > s.end BY <2>1, Zenon DEF DiagonalStep
  <2>2. CASE ~(s.first > s.end)
    <3> DEFINE right == [first |-> Mid(s) + 1, end |-> s.end]
               left == [first |-> s.first, end |-> Mid(s) - 1]
    <3>1. s.first <= s.end BY <2>2 DEF Wide
    <3>2. /\ right \in D /\ Mid(s) \in Nat /\ s.first <= Mid(s) /\ Mid(s) <= s.end
          /\ s.first \in Nat /\ s.end \in Nat
          /\ Mid(s) # 0 => left \in D
      BY <3>1, WideParts
    <3>3. rank[s] = s.end - s.first + 1 BY <3>1
    <3>4. rank[right] < rank[s]
      <4>1. right \in D /\ right.first = Mid(s) + 1 /\ right.end = s.end BY <3>2
      <4>2. rank[right] = IF right.first <= right.end THEN right.end - right.first + 1 ELSE 0
        <5> HIDE DEF right
        <5> QED BY <4>1
      <4> HIDE DEF right, rank
      <4> QED BY <3>2, <3>3, <4>1, <4>2
    <3>5. Mid(s) # 0 => rank[left] < rank[s]
      <4> SUFFICES ASSUME Mid(s) # 0 PROVE rank[left] < rank[s]
        OBVIOUS
      <4>1. left \in D /\ left.first = s.first /\ left.end = Mid(s) - 1 BY <3>2
      <4>2. rank[left] = IF left.first <= left.end THEN left.end - left.first + 1 ELSE 0
        <5> HIDE DEF left
        <5> QED BY <4>1
      <4> HIDE DEF left, rank
      <4> QED BY <3>2, <3>3, <4>1, <4>2
    <3>6. x[right] = y[right] /\ (Mid(s) # 0 => x[left] = y[left])
      <4> HIDE DEF right, left, rank
      <4> QED BY <3>2, <3>4, <3>5
    <3> QED BY <2>2, <3>6, Zenon DEF DiagonalStep
  <2> QED BY <2>1, <2>2
<1>5. PICK x \in [D -> V] : x = [s \in D |-> F[s][x]]
  <2> HIDE DEF D, rank, F, n, V
  <2>1. Recursive(D, V, F) BY <1>1, <1>2, <1>3, <1>4, BoundedRecursion, Zenon
  <2> QED BY <2>1 DEF Recursive
<1>6. x = [s \in [first : 0..(Len(A.j) + 1), end : 0..Len(A.j)] |->
                  LET k == (s.first + s.end) \div 2
                  IN IF s.first > s.end THEN Zero
                     ELSE IF k >= Len(A.j) THEN Undefined
                     ELSE IF AtPos(A.j, k) = i THEN AtPos(A.x, k)
                     ELSE IF AtPos(A.j, k) < i THEN x[[first |-> k + 1, end |-> s.end]]
                     ELSE IF k = 0 THEN Undefined
                     ELSE x[[first |-> s.first, end |-> k - 1]]]
  <2>1. \A s \in D : F[s][x] = DiagonalStep(A, i, s, x)
    <3> HIDE DEF D, V
    <3> QED OBVIOUS
  <2> HIDE DEF F, D
  <2>2. x = [s \in D |-> DiagonalStep(A, i, s, x)] BY <1>5, <2>1
  <2> QED BY <2>2, Zenon DEF DiagonalStep, Mid, D, Wide
<1>7. g = [s \in [first : 0..(Len(A.j) + 1), end : 0..Len(A.j)] |->
                  LET k == (s.first + s.end) \div 2
                  IN IF s.first > s.end THEN Zero
                     ELSE IF k >= Len(A.j) THEN Undefined
                     ELSE IF AtPos(A.j, k) = i THEN AtPos(A.x, k)
                     ELSE IF AtPos(A.j, k) < i THEN g[[first |-> k + 1, end |-> s.end]]
                     ELSE IF k = 0 THEN Undefined
                     ELSE g[[first |-> s.first, end |-> k - 1]]]
  BY <1>6, Zenon
<1>8. \A from : SearchFrom(A, i, from) = g[[first |-> from, end |-> A.p[i + 1]]]
  BY DEF SearchFrom
<1>9. \A s \in D : g[s] = DiagonalStep(A, i, s, g)
  <2> HIDE DEF g
  <2>1. g = [s \in D |-> DiagonalStep(A, i, s, g)] BY <1>7, Zenon DEF DiagonalStep, Mid, Wide
  <2> HIDE DEF D
  <2> QED BY <2>1, Zenon
<1> HIDE DEF g
<1> QED BY <1>8, <1>9, Zenon DEF DiagonalTable

(* As long as the column is between the two positions, the search ends at  *)
(* it, though it may look one position beyond the row.                     *)
LEMMA DiagonalSearch ==
  ASSUME NEW A, IsCanonical(A), NEW i \in 1..A.row, NEW g, DiagonalTable(A, i, g),
         NEW q \in (A.p[i] + 1)..A.p[i + 1], A.j[q] = i
  PROVE  SearchFrom(A, i, A.p[i]) = A.x[q]
<1> DEFINE a == A.p[i]
           b == A.p[i + 1]
           n == Len(A.j)
           Around(s) == a <= s.first /\ s.first <= q - 1 /\ q - 1 <= s.end /\ s.end <= b
           S == {d \in Nat : \A s \in Wide(A) :
                   s.end - s.first <= d /\ Around(s) => g[s] = A.x[q]}
<1>1. a \in Nat /\ b \in Nat /\ a <= b /\ b <= n /\ n \in Nat /\ q \in (a + 1)..b
  BY RowsInside
<1>2. Sorted(A, a, b) BY RowSorted
<1>3. \A k, l \in (a + 1)..b : k < l => A.j[k] < A.j[l] BY <1>2 DEF Sorted
<1>4. \A k \in 1..n : A.j[k] \in Nat
  <2>1. Columns(A) BY CanonicalColumns
  <2> QED BY <2>1 DEF Columns
<1>5. \A s \in Wide(A) : g[s] = DiagonalStep(A, i, s, g) BY DEF DiagonalTable
<1>6. i \in Nat
  <2>1. A.row \in Nat BY RowsInside
  <2> QED BY <2>1
<1> HIDE DEF a, b, n
<1>7. ASSUME NEW s \in Wide(A), Around(s),
             \A r \in Wide(A) : r.end - r.first < s.end - s.first /\ Around(r) => g[r] = A.x[q]
      PROVE  g[s] = A.x[q]
  <2> DEFINE k == Mid(s)
             right == [first |-> k + 1, end |-> s.end]
             left == [first |-> s.first, end |-> k - 1]
  <2>1. s.first \in Nat /\ s.end \in Nat /\ s.first <= s.end BY <1>1, <1>7 DEF Wide
  <2>2. /\ k \in Nat /\ s.first <= k /\ k <= s.end
        /\ right \in Wide(A) /\ (k # 0 => left \in Wide(A))
    BY <1>1, <2>1, WideParts DEF n
  <2>3. k < b
    <3>1. k = (s.first + s.end) \div 2 BY DEF k, Mid
    <3>2. s.first <= b - 1 /\ s.end <= b /\ b \in Nat BY <1>1, <1>7, <2>1
    <3> HIDE DEF k
    <3> QED BY <2>1, <3>1, <3>2
  <2> HIDE DEF k
  <2>4. ~(s.first > s.end) /\ ~(k >= n) BY <1>1, <2>1, <2>2, <2>3
  <2>5. k + 1 \in (a + 1)..b /\ k + 1 \in 1..n /\ q \in 1..n BY <1>1, <1>7, <2>1, <2>2, <2>3
  <2>6. A.j[k + 1] \in Nat BY <1>4, <2>5
  <2>7. CASE A.j[k + 1] = i
    <3>1. g[s] = A.x[k + 1]
      BY <1>5, <2>4, <2>7, Zenon DEF DiagonalStep, AtPos, k, n
    <3>2. k + 1 = q
      <4>1. ~(k + 1 < q)
        <5>1. k + 1 < q => A.j[k + 1] < A.j[q] BY <1>1, <1>3, <2>5
        <5> QED BY <1>6, <2>7, <5>1
      <4>2. ~(q < k + 1)
        <5>1. q < k + 1 => A.j[q] < A.j[k + 1] BY <1>1, <1>3, <2>5
        <5> QED BY <1>6, <2>7, <5>1
      <4>3. q \in Nat BY <1>1
      <4> QED BY <2>2, <4>1, <4>2, <4>3
    <3> QED BY <3>1, <3>2
  <2>8. CASE A.j[k + 1] < i
    <3>1. A.j[k + 1] # i BY <1>6, <2>6, <2>8
    <3>2. g[s] = g[right]
      BY <1>5, <2>4, <2>8, <3>1, Zenon DEF DiagonalStep, AtPos, k, n
    <3>3. right.first = k + 1 /\ right.end = s.end OBVIOUS
    <3>4. k + 1 <= q - 1
      <4>1. ~(q < k + 1)
        <5>1. q < k + 1 => A.j[q] < A.j[k + 1] BY <1>1, <1>3, <2>5
        <5> QED BY <1>6, <2>6, <2>8, <5>1
      <4>2. q # k + 1 BY <3>1
      <4>3. q \in Nat BY <1>1
      <4> QED BY <2>2, <4>1, <4>2, <4>3
    <3> HIDE DEF right
    <3>5. right.end - right.first < s.end - s.first BY <2>1, <2>2, <3>3
    <3>6. Around(right) BY <1>1, <1>7, <2>1, <2>2, <3>3, <3>4
    <3>7. g[right] = A.x[q]
      <4> HIDE DEF Around
      <4> QED BY <1>7, <2>2, <3>5, <3>6
    <3> QED BY <3>2, <3>7
  <2>9. CASE A.j[k + 1] # i /\ ~(A.j[k + 1] < i)
    <3>1. q - 1 <= k - 1
      <4>1. ~(k + 1 < q)
        <5>1. k + 1 < q => A.j[k + 1] < A.j[q] BY <1>1, <1>3, <2>5
        <5> QED BY <2>9, <5>1
      <4>2. q # k + 1 BY <2>9
      <4>3. q \in Nat BY <1>1
      <4> QED BY <2>2, <4>1, <4>2, <4>3
    <3>2. k # 0 BY <1>1, <3>1
    <3>3. g[s] = g[left]
      BY <1>5, <2>4, <2>9, <3>2, Zenon DEF DiagonalStep, AtPos, k, n
    <3>4. left.first = s.first /\ left.end = k - 1 /\ left \in Wide(A) BY <2>2, <3>2
    <3> HIDE DEF left
    <3>5. left.end - left.first < s.end - s.first BY <2>1, <2>2, <3>4
    <3>6. Around(left) BY <1>1, <1>7, <2>1, <2>2, <2>3, <3>1, <3>4
    <3>7. g[left] = A.x[q]
      <4> HIDE DEF Around
      <4> QED BY <1>7, <3>4, <3>5, <3>6
    <3> QED BY <3>3, <3>7
  <2> QED BY <2>7, <2>8, <2>9
<1>8. \A s \in Wide(A) : s.first \in Int /\ s.end \in Int BY DEF Wide
<1>9. \A s \in Wide(A) : Around(s) => s.end - s.first >= 0 BY <1>1, <1>8
<1> HIDE DEF Around
<1>10. 0 \in S
  <2> SUFFICES ASSUME NEW s \in Wide(A), s.end - s.first <= 0, Around(s) PROVE g[s] = A.x[q]
    OBVIOUS
  <2>1. ASSUME NEW r \in Wide(A), r.end - r.first < s.end - s.first, Around(r) PROVE FALSE
    <3>1. r.end - r.first >= 0 BY <1>9, <2>1
    <3> QED BY <1>8, <2>1, <3>1
  <2> QED BY <1>7, <2>1
<1>11. ASSUME NEW d \in Nat, d \in S PROVE d + 1 \in S
  <2> SUFFICES ASSUME NEW s \in Wide(A), s.end - s.first <= d + 1, Around(s)
               PROVE  g[s] = A.x[q]
    OBVIOUS
  <2>1. ASSUME NEW r \in Wide(A), r.end - r.first < s.end - s.first, Around(r)
        PROVE  g[r] = A.x[q]
    <3>1. r.end - r.first <= d BY <1>8, <2>1
    <3> QED BY <1>11, <2>1, <3>1
  <2> QED BY <1>7, <2>1
<1>12. Nat \subseteq S
  <2> HIDE DEF S
  <2> QED BY <1>10, <1>11, NatSetInduction
<1> DEFINE whole == [first |-> a, end |-> b]
<1>13. whole \in Wide(A) /\ Around(whole) /\ whole.end - whole.first \in Nat
  BY <1>1 DEF Around, Wide, n
<1> HIDE DEF whole
<1>14. g[whole] = A.x[q] BY <1>8, <1>12, <1>13
<1>15. SearchFrom(A, i, a) = g[whole] BY Zenon DEF DiagonalTable, whole, b
<1> QED BY <1>14, <1>15 DEF a

(* csr_diagonal finds every diagonal entry that is not zero.               *)
LEMMA DiagonalFinds ==
  ASSUME NEW A, IsCanonical(A), NEW i \in 1..A.row, Get(A, i, i) # Zero
  PROVE  DiagonalAt(A, i) = Get(A, i, i)
<1>1. i \in Nat
  <2>1. A.row \in Nat BY RowsInside
  <2> QED BY <2>1
<1>2. Found(A, i, A.p[i], A.p[i + 1], Get(A, i, i)) BY <1>1, GetFinds
<1>3. PICK q \in (A.p[i] + 1)..A.p[i + 1] : A.j[q] = i /\ Get(A, i, i) = A.x[q]
  BY <1>2 DEF Found
<1>4. Len(A.j) \in Nat /\ A.x \in Seq(Value) /\ Len(A.x) = Len(A.j) BY CanonicalParts
<1>5. PICK g : DiagonalTable(A, i, g) BY <1>4, DiagonalEquation
<1>6. SearchFrom(A, i, A.p[i]) = A.x[q] BY <1>3, <1>5, DiagonalSearch
<1> QED BY <1>3, <1>6 DEF DiagonalAt

(* Whatever the matrix has become, csr_diagonal finds what is on its       *)
(* diagonal.                                                               *)
THEOREM DiagonalAlways == Spec => DiagonalFound
<1> DEFINE Right == diagonal' # <<>> =>
                      \A i \in DOMAIN diagonal' : Get(m, i, i) # Zero => diagonal'[i] = Get(m, i, i)
<1>1. ASSUME Canonical, Next PROVE Right
  <2>1. CASE diagonal' = <<>> BY <2>1
  <2>2. CASE Diagonal
    <3>1. diagonal' = [i \in 1..Least(m.row, m.col) |-> DiagonalAt(m, i)] BY <2>2 DEF Diagonal
    <3>2. \A i \in 1..Least(m.row, m.col) : i \in 1..m.row
      <4>1. m.row \in Nat /\ m.col \in Nat BY <1>1, CanonicalParts DEF Canonical
      <4> QED BY <4>1 DEF Least
    <3>3. ASSUME NEW i \in 1..Least(m.row, m.col), Get(m, i, i) # Zero
          PROVE  diagonal'[i] = Get(m, i, i)
      <4>1. i \in 1..m.row /\ IsCanonical(m) BY <1>1, <3>2 DEF Canonical
      <4>2. DiagonalAt(m, i) = Get(m, i, i) BY <3>3, <4>1, DiagonalFinds
      <4> QED BY <3>1, <4>2
    <3>4. DOMAIN diagonal' = 1..Least(m.row, m.col) BY <3>1
    <3> QED BY <3>3, <3>4
  <2> QED BY <1>1, <2>1, <2>2
        DEF Next, Set, Transpose, Conjugate, Elementwise, ScaleRows, ScaleColumns
<1>2. Canonical /\ [Next]_vars => [Right]_vars BY <1>1
<1> QED BY <1>2, CanonicalAlways, PTL DEF Spec, DiagonalFound

=============================================================================
