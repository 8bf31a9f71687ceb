---------------------------- MODULE DenseMatrix ----------------------------
(***************************************************************************)
(* The algorithms of dense_matrix.cpp: eliminations, factorisations,       *)
(* solvers, inverses, determinants, definiteness, and the edits that move  *)
(* entries inside one vector.  A behaviour is one call on one matrix.      *)
(*                                                                         *)
(* Entries are the numbers modulo the prime P: the algorithms use nothing  *)
(* of a number but the operations of a field and whether it is zero.  Only *)
(* the questions about definiteness take the entries for integers.         *)
(***************************************************************************)
EXTENDS Integers, Sequences, FiniteSets, SequencesExt, FiniteSetsExt, TLC

CONSTANTS
    P,          \* a prime
    Questions,  \* the calls: records with op and the operands
    Pending     \* the answer before there is one

VARIABLES question, answer

vars == <<question, answer>>

-----------------------------------------------------------------------------
(* Entries.  What a division by zero gives is no number: nothing is asked  *)
(* of results that one went into, and any value will do.                   *)

Inv(a) == IF a % P = 0 THEN 0 ELSE CHOOSE b \in 1..(P - 1) : (a * b) % P = 1
Over(a, b) == (a * Inv(b)) % P
IsSquare(a) == \E r \in 0..(P - 1) : (r * r) % P = a
SquareRoot(a) == IF IsSquare(a) THEN CHOOSE r \in 0..(P - 1) : (r * r) % P = a ELSE 0

Sum(S, f(_)) == MapThenSumSet(f, S)

RowOf(k, c) == ((k - 1) \div c) + 1
ColOf(k, c) == ((k - 1) % c) + 1

\* row_, col_ and the vector m_, row after row
Make(r, c, f(_, _)) ==
    [row |-> r, col |-> c, m |-> [k \in 1..(r * c) |-> f(RowOf(k, c), ColOf(k, c))]]
At(A, i, j) == A.m[(i - 1) * A.col + j]
Set(A, i, j, e) == [A EXCEPT !.m[(i - 1) * A.col + j] = e]
UpTo(n) == [i \in 1..n |-> i]
Down(n) == [i \in 1..n |-> n + 1 - i]

Zeros(r, c) == Make(r, c, LAMBDA i, j : 0)
Transpose(A) == Make(A.col, A.row, LAMBDA i, j : At(A, j, i))
MulMatrix(A, B) ==
    Make(A.row, B.col,
         LAMBDA i, j : Sum(1..A.col, LAMBDA k : At(A, i, k) * At(B, k, j)) % P)
MulScalar(A, e) == Make(A.row, A.col, LAMBDA i, j : (At(A, i, j) * e) % P)

\* diag(A, v, k) and eye: v along the k-th diagonal, above the main one if k > 0
Diag(r, c, v, k) ==
    IF k >= 0 THEN Make(r, c, LAMBDA i, j : IF j = i + k THEN v[i] ELSE 0)
              ELSE Make(r, c, LAMBDA i, j : IF i = j - k THEN v[j] ELSE 0)
Eye(r, c, k) == Diag(r, c, [i \in 1..(IF k > 0 THEN c - k ELSE r + k) |-> 1], k)

-----------------------------------------------------------------------------
(* Edits in place.  The vector is resized, its entries move one by one.    *)

Resize(A, r, c) ==
    [row |-> r, col |-> c,
     m |-> [k \in 1..(r * c) |-> IF k <= Len(A.m) THEN A.m[k] ELSE 0]]
Move(m, to, from) == [m EXCEPT ![to] = m[from]]

\* row_insert: the rows from pos on move up, the last entry first.
RowInsert(A, B, pos) ==
    LET room == Resize(A, A.row + B.row, A.col)
        shifted == FoldLeft(LAMBDA m, k : Move(m, k + B.row * A.col, k), room.m,
                            [k \in 1..((A.row - pos) * A.col) |-> A.row * A.col + 1 - k])
    IN  [room EXCEPT !.m = FoldLeft(LAMBDA m, k : [m EXCEPT ![pos * A.col + k] = B.m[k]],
                                    shifted, UpTo(B.row * A.col))]

\* col_insert: every entry moves to its place in longer rows, the last first.
ColInsert(A, B, pos) ==
    LET c == A.col + B.col
        Place(i, j) == (i - 1) * c + j
        To(k) == Place(RowOf(k, A.col),
                       ColOf(k, A.col) + (IF ColOf(k, A.col) > pos THEN B.col ELSE 0))
        room == Resize(A, A.row, c)
        shifted == FoldLeft(LAMBDA m, k : Move(m, To(k), k), room.m, Down(A.row * A.col))
        Slot(k) == Place(RowOf(k, B.col), ColOf(k, B.col) + pos)
    IN  [room EXCEPT !.m = FoldLeft(LAMBDA m, k : [m EXCEPT ![Slot(k)] = B.m[k]],
                                    shifted, UpTo(A.row * B.col))]

RowExchange(A, i, j) ==
    Make(A.row, A.col, LAMBDA r, c : At(A, IF r = i THEN j ELSE IF r = j THEN i ELSE r, c))
PermuteFwd(A, pl) == FoldLeft(LAMBDA B, p : RowExchange(B, p[1], p[2]), A, pl)
RowMulScalar(A, i, e) ==
    Make(A.row, A.col, LAMBDA r, c : IF r = i THEN (At(A, r, c) * e) % P ELSE At(A, r, c))
RowAddRow(A, i, j, e) ==
    Make(A.row, A.col,
         LAMBDA r, c : IF r = i THEN (At(A, r, c) + e * At(A, j, c)) % P ELSE At(A, r, c))

\* row_del bubbles the row to the end; col_del closes the gaps from the front.
RowDel(A, k) ==
    IF A.row = 1 THEN Resize(A, 0, 0)
    ELSE Resize(FoldLeft(LAMBDA B, i : RowExchange(B, i, i + 1), A,
                         [i \in 1..(A.row - k) |-> k + i - 1]), A.row - 1, A.col)
ColDel(A, k) ==
    IF A.col = 1 THEN Resize(A, 0, 0)
    ELSE LET kept == SelectSeq(UpTo(A.row * A.col), LAMBDA n : ColOf(n, A.col) # k)
         IN  Resize([A EXCEPT !.m = FoldLeft(LAMBDA m, n : Move(m, n, kept[n]), A.m,
                                             UpTo(Len(kept)))], A.row, A.col - 1)

SubMatrix(A, r1, c1, r2, c2) ==
    Make(r2 - r1 + 1, c2 - c1 + 1, LAMBDA i, j : At(A, r1 + i - 1, c1 + j - 1))

-----------------------------------------------------------------------------
(* Eliminations.  One round reads the pivot's row and column and writes    *)
(* the other rows: no entry it reads is written before it is read.         *)

Round(B, p, i, d, Rows, Cols, clear) ==
    Make(B.row, B.col, LAMBDA r, c :
        IF r \notin Rows THEN At(B, r, c)
        ELSE IF c \in Cols
               THEN Over(At(B, p, i) * At(B, r, c) - At(B, r, i) * At(B, p, c), d)
        ELSE IF c = i /\ clear THEN 0 ELSE At(B, r, c))

Pivot(B, r, c) ==
    LET rows == {k \in r..B.row : At(B, k, c) # 0}
    IN  IF rows = {} THEN B.row + 1 ELSE Min(rows)

\* Brings the pivot of column i to row index; s holds B, index, pl, d.
Found(s, i) == s.index <= s.B.row /\ Pivot(s.B, s.index, i) <= s.B.row
Swapped(s, i) ==
    LET k == Pivot(s.B, s.index, i)
    IN  IF k = s.index THEN s
        ELSE [s EXCEPT !.B = RowExchange(s.B, k, s.index), !.pl = Append(@, <<k, s.index>>)]
Start(A) == [B |-> A, index |-> 1, pl |-> <<>>, d |-> 1]

\* The row of the pivot is index, but these two go on with row i: the same as
\* long as every column before had a pivot.
PivotedGaussian(A) ==
    LET Step(s, i) ==
            IF ~Found(s, i) THEN s
            ELSE LET t == Swapped(s, i)
                     B == RowMulScalar(t.B, t.index, Inv(At(t.B, t.index, i)))
                     R == (i + 1)..A.row
                 IN  [t EXCEPT !.index = @ + 1, !.B = Make(A.row, A.col, LAMBDA r, c :
                        IF r \notin R \/ c < i THEN At(B, r, c)
                        ELSE IF c = i THEN 0
                        ELSE (At(B, r, c) - At(B, r, i) * At(B, i, c)) % P)]
    IN  FoldLeft(Step, Start(A), UpTo(A.col - 1))

PivotedFractionFreeGaussian(A) ==
    LET Step(s, i) ==
            IF ~Found(s, i) THEN s
            ELSE LET t == Swapped(s, i)
                 IN  [t EXCEPT !.index = @ + 1,
                        !.B = IF i >= A.row THEN t.B
                              ELSE Round(t.B, i, i, IF i = 1 THEN 1 ELSE At(t.B, i - 1, i - 1),
                                         (i + 1)..A.row, (i + 1)..A.col, TRUE)]
    IN  FoldLeft(Step, Start(A), UpTo(A.col - 1))

\* Without pivots: columns in order, the divisor is the pivot before.
Divisor(B, i) == IF i = 1 THEN 1 ELSE At(B, i - 1, i - 1)
FractionFreeGaussian(A) ==
    FoldLeft(LAMBDA B, i : Round(B, i, i, Divisor(B, i), (i + 1)..A.row, (i + 1)..A.col, TRUE),
             A, UpTo(IF A.col - 1 < A.row THEN A.col - 1 ELSE A.row))

FractionFreeGaussJordan(A) ==
    FoldLeft(LAMBDA B, i : Round(B, i, i, Divisor(B, i), (1..A.row) \ {i}, (1..A.col) \ {i}, TRUE),
             A, UpTo(A.col))

PivotedGaussJordan(A) ==
    LET Step(s, i) ==
            IF ~Found(s, i) THEN s
            ELSE LET t == Swapped(s, i)
                     B == RowMulScalar(t.B, t.index, Inv(At(t.B, t.index, i)))
                     Clear(C, j) == IF j = t.index THEN C
                                    ELSE RowAddRow(C, j, t.index, -At(C, j, i))
                 IN  [t EXCEPT !.index = @ + 1, !.B = FoldLeft(Clear, B, UpTo(A.row))]
    IN  FoldLeft(Step, Start(A), UpTo(A.col))

\* Slip: the divisor is the pivot of this column, not of the one before.
JordanNewDivisor(A) ==
    LET Step(s, i) ==
            IF ~Found(s, i) THEN s
            ELSE LET t == Swapped(s, i)
                     d == At(t.B, t.index, i)
                 IN  [t EXCEPT !.index = @ + 1, !.d = d,
                        !.B = Round(t.B, t.index, i, IF t.index = 1 THEN 1 ELSE d,
                                    (1..A.row) \ {t.index}, (1..A.col) \ {i}, TRUE)]
    IN  FoldLeft(Step, Start(A), UpTo(A.col))

PivotedFractionFreeGaussJordan(A) ==
    LET Step(s, i) ==
            IF ~Found(s, i) THEN s
            ELSE LET t == Swapped(s, i)
                 IN  [t EXCEPT !.index = @ + 1, !.d = At(t.B, t.index, i),
                        !.B = Round(t.B, t.index, i, IF t.index = 1 THEN 1 ELSE t.d,
                                    (1..A.row) \ {t.index}, (1..A.col) \ {i}, TRUE)]
    IN  FoldLeft(Step, Start(A), UpTo(A.col))

\* The walk down the steps, and the first pivot made one for all rows.
ReducedRowEchelon(A, normalize_last) ==
    LET b == IF normalize_last THEN PivotedFractionFreeGaussJordan(A).B
                               ELSE PivotedGaussJordan(A).B
        Step(s, col) ==
            IF s.row > A.row \/ At(s.b, s.row, col) = 0 THEN s
            ELSE [row |-> s.row + 1, pivot_cols |-> Append(s.pivot_cols, col),
                  b |-> IF s.row = 1 /\ normalize_last
                          THEN MulScalar(s.b, Inv(At(s.b, s.row, col))) ELSE s.b]
    IN  FoldLeft(Step, [row |-> 1, pivot_cols |-> <<>>, b |-> b], UpTo(A.col))

-----------------------------------------------------------------------------
(* Systems of equations.  All columns of b are solved at once. *)

DiagonalSolve(A, b) == Make(b.row, b.col, LAMBDA i, k : Over(At(b, i, k), At(A, i, i)))

BackSubstitution(U, b) ==
    LET Step(x, i) ==
            Make(x.row, x.col, LAMBDA r, k : IF r # i THEN At(x, r, k) ELSE
                Over(At(x, i, k) - Sum((i + 1)..U.col, LAMBDA j : At(U, i, j) * At(x, j, k)),
                     At(U, i, i)))
    IN  FoldLeft(Step, b, Down(U.col))

\* Fraction-free, which for the unit diagonal of an L is the plain one.
ForwardSubstitution(A, b) ==
    LET Step(x, i) ==
            Make(x.row, x.col, LAMBDA r, k : IF r <= i THEN At(x, r, k) ELSE
                Over(At(A, i, i) * At(x, r, k) - At(A, r, i) * At(x, i, k), Divisor(A, i)))
    IN  FoldLeft(Step, b, UpTo(A.col - 1))

Joined(A, b) == ColInsert(A, b, A.col)
Left(M, n) == SubMatrix(M, 1, 1, M.row, n)
Right(M, n) == SubMatrix(M, 1, n + 1, M.row, M.col)

FractionFreeGaussianSolve(A, b) ==
    LET n == A.col
        M == FoldLeft(LAMBDA B, i : Round(B, i, i, Divisor(B, i), (i + 1)..n,
                                          (i + 1)..B.col, TRUE),
                      Joined(A, b), UpTo(n - 1))
    IN  BackSubstitution(Left(M, n), Right(M, n))

\* Slip: the rows of b are not exchanged with those of A.
GaussJordanSolveStay(A, b, pivot) ==
    LET n == A.col
        Step(B, i) ==
            LET p == IF pivot THEN Pivot(B, i, i) ELSE i
                C == Make(B.row, B.col, LAMBDA r, c :
                        IF c <= n THEN At(RowExchange(B, p, i), r, c) ELSE At(B, r, c))
            IN  Round(C, i, i, Divisor(C, i), (1..n) \ {i}, (1..B.col) \ {i}, TRUE)
        M == FoldLeft(Step, Joined(A, b), UpTo(n))
    IN  DiagonalSolve(Left(M, n), Right(M, n))

GaussJordanSolve(A, b, pivot) ==
    LET n == A.col
        Step(B, i) ==
            LET C == IF pivot THEN RowExchange(B, Pivot(B, i, i), i) ELSE B
            IN  Round(C, i, i, Divisor(B, i), (1..n) \ {i}, (1..B.col) \ {i}, TRUE)
        M == FoldLeft(Step, Joined(A, b), UpTo(n))
    IN  DiagonalSolve(Left(M, n), Right(M, n))

FractionFreeLU(A) ==
    FoldLeft(LAMBDA B, i : Round(B, i, i, Divisor(B, i), (i + 1)..A.row, (i + 1)..A.row, FALSE),
             A, UpTo(A.row - 1))

\* Column j of L and U in one matrix, from the columns before it
LUColumn(U, j) ==
    FoldLeft(LAMBDA V, i : Set(V, i, j,
                (At(V, i, j) - Sum(1..((IF i < j THEN i ELSE j) - 1),
                                   LAMBDA k : At(V, i, k) * At(V, k, j))) % P),
             U, UpTo(U.row))
LUScaled(U, j) ==
    Make(U.row, U.col, LAMBDA r, c : IF r > j /\ c = j THEN Over(At(U, r, c), At(U, j, j))
                                                      ELSE At(U, r, c))
Lower(U) == Make(U.row, U.col, LAMBDA i, j : IF j < i THEN At(U, i, j) ELSE IF i = j THEN 1 ELSE 0)
Upper(U) == Make(U.row, U.col, LAMBDA i, j : IF j < i THEN 0 ELSE At(U, i, j))

LU(A) ==
    LET U == FoldLeft(LAMBDA V, j : LUScaled(LUColumn(V, j), j), A, UpTo(A.row))
    IN  <<Lower(U), Upper(U)>>

\* With exchanges of rows; "Matrix is rank deficient" where there is no pivot.
PivotedLU(A) ==
    LET Step(s, j) ==
            LET V == LUColumn(s.LU, j)
                k == Pivot(V, j, j)
            IN  IF ~s.found \/ k > A.row THEN [s EXCEPT !.found = FALSE]
                ELSE [s EXCEPT !.LU = LUScaled(IF k = j THEN V ELSE RowExchange(V, k, j), j),
                               !.pl = IF k = j THEN @ ELSE Append(@, <<k, j>>)]
    IN  FoldLeft(Step, [found |-> TRUE, LU |-> A, pl |-> <<>>], UpTo(A.row))

FractionFreeLDU(A) ==
    LET n == A.row
        Step(s, k) ==
            [L |-> Make(n, n, LAMBDA i, j : IF j = k /\ i >= k THEN At(s.U, i, k) ELSE At(s.L, i, j)),
             D |-> Set(s.D, k, k, (s.old * At(s.U, k, k)) % P),
             U |-> Round(s.U, k, k, s.old, (k + 1)..n, (k + 1)..n, TRUE),
             old |-> At(s.U, k, k)]
        s == FoldLeft(Step, [L |-> Eye(n, n, 0), D |-> Zeros(n, n), U |-> A, old |-> 1],
                      UpTo(n - 1))
    IN  <<s.L, Set(s.D, n, n, s.old), s.U>>

LDL(A) ==
    LET n == A.row
        Off(s, i, j) ==
            Set(s.L, i, j, (Inv(At(s.D, j, j)) * (At(A, i, j) -
                Sum(1..(j - 1), LAMBDA k : At(s.L, i, k) * At(s.L, j, k) * At(s.D, k, k)))) % P)
        Step(s, i) ==
            LET t == FoldLeft(LAMBDA u, j : [u EXCEPT !.L = Off(u, i, j)], s, UpTo(i - 1))
            IN  [t EXCEPT !.D = Set(@, i, i, (At(A, i, i) -
                    Sum(1..(i - 1), LAMBDA k : At(t.L, i, k) * At(t.L, i, k) * At(t.D, k, k))) % P)]
    IN  FoldLeft(Step, [L |-> Eye(n, n, 0), D |-> Zeros(n, n)], UpTo(n))

\* fails where a root is not to be had (over the numbers it would be complex)
Cholesky(A) ==
    LET Off(L, i, j) ==
            Set(L, i, j, (Inv(At(L, j, j)) * (At(A, i, j) -
                Sum(1..(j - 1), LAMBDA k : At(L, i, k) * At(L, j, k)))) % P)
        Step(L, i) ==
            LET M == FoldLeft(LAMBDA N, j : Off(N, i, j), L, UpTo(i - 1))
            IN  Set(M, i, i, SquareRoot((At(A, i, i) -
                    Sum(1..(i - 1), LAMBDA k : At(M, i, k) * At(M, i, k))) % P))
    IN  FoldLeft(Step, Zeros(A.row, A.row), UpTo(A.row))

QR(A) ==
    LET Dot(M, i, N, j) == Sum(1..A.row, LAMBDA k : At(M, k, i) * At(N, k, j)) % P
        Step(s, j) ==
            LET tmp == Make(A.row, 1, LAMBDA k, c : (At(A, k, j) -
                        Sum(1..(j - 1), LAMBDA i : At(s.Q, k, i) * Dot(A, j, s.Q, i))) % P)
                t == SquareRoot(Dot(tmp, 1, tmp, 1))
            IN  [Q |-> Make(A.row, A.col, LAMBDA k, c : IF c = j THEN Over(At(tmp, k, 1), t)
                                                                ELSE At(s.Q, k, c)),
                 R |-> Make(A.col, A.col, LAMBDA i, c :
                          IF c # j THEN At(s.R, i, c) ELSE IF i = j THEN t
                          ELSE IF i < j THEN Dot(s.Q, i, A, j) ELSE 0)]
    IN  FoldLeft(Step, [Q |-> Zeros(A.row, A.col), R |-> Zeros(A.col, A.col)], UpTo(A.col))

FractionFreeLUSolve(A, b) == LET F == FractionFreeLU(A)
                             IN  BackSubstitution(F, ForwardSubstitution(F, b))
LUSolve(A, b) == LET F == LU(A) IN BackSubstitution(F[2], ForwardSubstitution(F[1], b))
PivotedLUSolve(A, b) ==
    LET s == PivotedLU(A)
    IN  BackSubstitution(Upper(s.LU), ForwardSubstitution(Lower(s.LU), PermuteFwd(b, s.pl)))
LDLSolve(A, b) ==
    LET s == LDL(A)
    IN  BackSubstitution(Transpose(s.L), DiagonalSolve(s.D, ForwardSubstitution(s.L, b)))

InverseFractionFreeLU(A) == FractionFreeLUSolve(A, Eye(A.row, A.row, 0))
InverseLU(A) == LUSolve(A, Eye(A.row, A.row, 0))
InversePivotedLU(A) == PivotedLUSolve(A, Eye(A.row, A.row, 0))
InverseGaussJordan(A) == GaussJordanSolve(A, Eye(A.row, A.row, 0), TRUE)

-----------------------------------------------------------------------------
(* Determinants *)

IsLower(A) == \A i \in 2..A.row : \A j \in 1..(i - 1) : At(A, i, j) = 0
IsUpper(A) == \A i \in 1..(A.row - 1) : \A j \in (i + 1)..A.row : At(A, i, j) = 0

\* Slip: an exchange of rows does not change the sign.
DetNoSign(A) ==
    LET n == A.row
        Step(s, k) ==
            LET i == Pivot(s.B, k, k)
            IN  IF s.zero \/ i > n THEN [s EXCEPT !.zero = TRUE]
                ELSE LET B == IF i = k THEN s.B ELSE RowExchange(s.B, i, k)
                     IN  [s EXCEPT !.B = Round(B, k, k, Divisor(B, k), (k + 1)..n, (k + 1)..n, FALSE)]
        s == FoldLeft(Step, [B |-> A, sign |-> 1, zero |-> FALSE], UpTo(n - 1))
    IN  IF s.zero THEN 0 ELSE At(s.B, n, n)

\* The formulas for n < 4 are Leibniz' sum written out.
DetBareis(A) ==
    LET n == A.row
        Step(s, k) ==
            LET i == Pivot(s.B, k, k)
            IN  IF s.zero \/ i > n THEN [s EXCEPT !.zero = TRUE]
                ELSE LET B == IF i = k THEN s.B ELSE RowExchange(s.B, i, k)
                     IN  [s EXCEPT !.sign = IF i = k THEN @ ELSE -@,
                            !.B = Round(B, k, k, Divisor(B, k), (k + 1)..n, (k + 1)..n, FALSE)]
        s == FoldLeft(Step, [B |-> A, sign |-> 1, zero |-> FALSE], UpTo(n - 1))
        a == A.m
    IN  CASE n = 1 -> a[1]
          [] n = 2 -> (a[1] * a[4] - a[2] * a[3]) % P
          [] n = 3 -> (a[1] * a[5] * a[9] + a[2] * a[6] * a[7] + a[3] * a[4] * a[8]
                       - a[3] * a[5] * a[7] - a[2] * a[4] * a[9] - a[1] * a[6] * a[8]) % P
          [] OTHER -> IF IsLower(A) \/ IsUpper(A)
                        THEN FoldLeft(LAMBDA d, i : (d * At(A, i, i)) % P, 1, UpTo(n))
                      ELSE IF s.zero THEN 0 ELSE (s.sign * At(s.B, n, n)) % P

\* The characteristic polynomials of the leading minors, each from the one
\* before it by a Toeplitz matrix of the new row and column.
CharPoly(A) ==
    LET Items(n) ==
            LET R == SubMatrix(A, n, 1, n, n - 1)
                M == SubMatrix(A, 1, 1, n - 1, n - 1)
                C == FoldLeft(LAMBDA l, i : Append(l, MulMatrix(M, Last(l))),
                              <<SubMatrix(A, 1, n, n - 1, n)>>, UpTo(n - 2))
            IN  <<1, (-At(A, n, n)) % P>> \o [i \in 1..(n - 1) |-> (-At(MulMatrix(R, C[i]), 1, 1)) % P]
        Toeplitz(n) == LET items == Items(n)
                       IN  Make(n + 1, n, LAMBDA i, j : IF i >= j THEN items[i - j + 1] ELSE 0)
    IN  FoldLeft(LAMBDA poly, n : MulMatrix(Toeplitz(n), poly),
                 [row |-> 2, col |-> 1, m |-> <<1, (-At(A, 1, 1)) % P>>],
                 [i \in 1..(A.row - 1) |-> i + 1])

DetBerkowitz(A) ==
    LET c == At(CharPoly(A), A.row + 1, 1) IN IF A.row % 2 = 1 THEN (-c) % P ELSE c

-----------------------------------------------------------------------------
(* Definiteness, with integer entries *)

Abs(a) == IF a < 0 THEN -a ELSE a
IsSymmetric(A) == \A i, j \in 1..A.row : At(A, i, j) = At(A, j, i)
StrictlyDominant(A) ==
    \A i \in 1..A.row :
        Abs(At(A, i, i)) > Sum((1..A.row) \ {i}, LAMBDA j : Abs(At(A, i, j)))

\* Elimination without a division: the rows below grow by the pivot.
RECURSIVE PositiveByGE(_, _)
PositiveByGE(A, i) ==
    i > A.row \/
        /\ At(A, i, i) > 0
        /\ PositiveByGE(
             Make(A.row, A.row, LAMBDA j, k :
                IF j > i /\ k > i THEN At(A, i, i) * At(A, j, k) - At(A, j, i) * At(A, i, k)
                                  ELSE At(A, j, k)), i + 1)

IsPositiveDefinite(A) ==
    LET H == IF IsSymmetric(A) THEN A
             ELSE Make(A.row, A.row, LAMBDA i, j : At(A, i, j) + At(A, j, i))
    IN  /\ \A i \in 1..A.row : At(H, i, i) > 0
        /\ StrictlyDominant(H) \/ PositiveByGE(H, 1)

IsNegativeDefinite(A) ==
    IsPositiveDefinite(Make(A.row, A.row, LAMBDA i, j : -At(A, i, j)))

-----------------------------------------------------------------------------
(* One call *)

Init == question \in Questions /\ answer = Pending

Answer(op, a) ==
    /\ answer = Pending /\ question.op = op
    /\ answer' = a
    /\ UNCHANGED question

CallEdit ==
    LET A == question.A
        B == question.B
        k == question.pos
    IN  Answer("edit",
            [rows |-> IF A.col = B.col /\ k <= A.row THEN RowInsert(A, B, k) ELSE A,
             cols |-> IF A.row = B.row /\ k <= A.col THEN ColInsert(A, B, k) ELSE A,
             row_del |-> IF k < A.row THEN RowDel(A, k + 1) ELSE A,
             col_del |-> IF k < A.col THEN ColDel(A, k + 1) ELSE A])

CallEliminate ==
    LET A == question.A
    IN  Answer("eliminate",
            [gauss |-> PivotedGaussian(A).B,
             free |-> PivotedFractionFreeGaussian(A).B,
             jordan |-> PivotedGaussJordan(A).B,
             free_jordan |-> PivotedFractionFreeGaussJordan(A).B,
             plain |-> FractionFreeGaussian(A),
             plain_jordan |-> IF A.row = A.col THEN FractionFreeGaussJordan(A) ELSE A,
             rref |-> ReducedRowEchelon(A, FALSE),
             rref_last |-> ReducedRowEchelon(A, TRUE)])

\* A solver with pivots throws, or asserts, where there is no pivot left.
CallSolve ==
    LET A == question.A
        b == question.b
    IN  Answer("solve",
            [lu |-> LU(A), plu |-> PivotedLU(A), ldu |-> FractionFreeLDU(A), ldl |-> LDL(A),
             cholesky |-> Cholesky(A), qr |-> QR(A),
             pivoted |-> IF PivotedLU(A).found
                           THEN <<PivotedLUSolve(A, b), GaussJordanSolve(A, b, TRUE)>> ELSE <<>>,
             plain |-> <<FractionFreeGaussianSolve(A, b), GaussJordanSolve(A, b, FALSE),
                         FractionFreeLUSolve(A, b), LUSolve(A, b)>>,
             symmetric |-> LDLSolve(A, b),
             inverses |-> IF PivotedLU(A).found
                            THEN <<InversePivotedLU(A), InverseGaussJordan(A)>> ELSE <<>>,
             plain_inverses |-> <<InverseFractionFreeLU(A), InverseLU(A)>>])

CallDeterminant ==
    Answer("det", [bareis |-> DetBareis(question.A), berkowitz |-> DetBerkowitz(question.A),
                   poly |-> CharPoly(question.A)])

CallDefinite ==
    Answer("definite", [positive |-> IsPositiveDefinite(question.A),
                        negative |-> IsNegativeDefinite(question.A)])

Next == CallEdit \/ CallEliminate \/ CallSolve \/ CallDeterminant \/ CallDefinite

Spec == Init /\ [][Next]_vars

-----------------------------------------------------------------------------
(* Properties *)

Answered(op) == answer # Pending /\ question.op = op

\* Leibniz' sum over all permutations, not reduced modulo P.
Permutations4 == [n \in 1..4 |-> {f \in [1..n -> 1..n] : \A i, j \in 1..n : i # j => f[i] # f[j]}]
Odd(f) == Cardinality({p \in (DOMAIN f) \X (DOMAIN f) : p[1] < p[2] /\ f[p[1]] > f[p[2]]}) % 2 = 1
Determinant(A) ==
    Sum(Permutations4[A.row], LAMBDA f :
        (IF Odd(f) THEN -1 ELSE 1) * FoldLeft(LAMBDA d, i : d * At(A, i, f[i]), 1, UpTo(A.row)))
Minor(A, k) == SubMatrix(A, 1, 1, k, k)
MinorsNonzero(A) == \A k \in 1..A.row : Determinant(Minor(A, k)) % P # 0
Regular(A) == Determinant(A) % P # 0

\* row_insert, col_insert, row_del and col_del move the entries of one vector
\* over each other and still only insert and delete.
EditsExact ==
    Answered("edit") =>
        LET A == question.A
            B == question.B
            k == question.pos
        IN  /\ A.col = B.col /\ k <= A.row => answer.rows = Make(A.row + B.row, A.col, LAMBDA i, j :
                    IF i <= k THEN At(A, i, j)
                    ELSE IF i <= k + B.row THEN At(B, i - k, j) ELSE At(A, i - B.row, j))
            /\ A.row = B.row /\ k <= A.col => answer.cols = Make(A.row, A.col + B.col, LAMBDA i, j :
                    IF j <= k THEN At(A, i, j)
                    ELSE IF j <= k + B.col THEN At(B, i, j - k) ELSE At(A, i, j - B.col))
            /\ k < A.row /\ A.row > 1 => answer.row_del = Make(A.row - 1, A.col, LAMBDA i, j :
                    At(A, IF i <= k THEN i ELSE i + 1, j))
            /\ k < A.col /\ A.col > 1 => answer.col_del = Make(A.row, A.col - 1, LAMBDA i, j :
                    At(A, i, IF j <= k THEN j ELSE j + 1))

\* The combinations of the rows
RowSpace(A) == {[j \in 1..A.col |-> Sum(1..A.row, LAMBDA i : c[i] * At(A, i, j)) % P] :
                c \in [1..A.row -> 0..(P - 1)]}
Lead(B, i) == LET used == {j \in 1..B.col : At(B, i, j) # 0}
              IN  IF used = {} THEN B.col + i ELSE Min(used)
Steps(B) == \A i \in 1..(B.row - 1) : Lead(B, i) < Lead(B, i + 1)
Reduced(B, one) ==
    \A i \in 1..B.row : Lead(B, i) <= B.col =>
        /\ one => At(B, i, Lead(B, i)) = 1
        /\ \A r \in (1..B.row) \ {i} : At(B, r, Lead(B, i)) = 0

\* The eliminations end in the echelon form of the same rows, also where a
\* column has no pivot; the two that stop below the diagonal, and before the
\* last column, need a pivot in every column they go through, and as many
\* columns as rows; those without pivots need minors that are not zero.
EveryPivot(A) ==
    LET n == IF A.col - 1 < A.row THEN A.col - 1 ELSE A.row
    IN  A.row <= A.col /\ \A i \in 1..n : Lead(PivotedGaussJordan(A).B, i) = i
EchelonExact ==
    Answered("eliminate") =>
        LET A == question.A
        IN  /\ \A B \in {answer.jordan, answer.free_jordan, answer.rref.b, answer.rref_last.b} :
                 RowSpace(B) = RowSpace(A) /\ Steps(B)
            /\ Reduced(answer.jordan, TRUE) /\ Reduced(answer.free_jordan, FALSE)
            /\ answer.rref = [answer.rref_last EXCEPT !.b = answer.jordan]
            /\ answer.rref_last.b = answer.jordan
            /\ EveryPivot(A) =>
                 \A B \in {answer.gauss, answer.free} :
                    RowSpace(B) = RowSpace(A) /\ \A i \in 1..B.row : Lead(B, i) >= i
            /\ A.row <= A.col /\ MinorsNonzero(A) =>
                 /\ RowSpace(answer.plain) = RowSpace(A) /\ \A i \in 1..A.row : Lead(answer.plain, i) = i
                 /\ RowSpace(answer.plain_jordan) = RowSpace(A)
                 /\ A.row = A.col => Reduced(answer.plain_jordan, FALSE)

\* Every solver solves and every factorisation multiplies to the matrix, those
\* with pivots where there is a solution, the others where no pivot is zero.
SolutionsExact ==
    Answered("solve") =>
        LET A == question.A
            n == A.row
            b == Make(n, question.b.col, LAMBDA i, j : At(question.b, i, j) % P)
            plu == answer.plu
            Solves(x) == MulMatrix(A, x) = b
            Inverts(x) == MulMatrix(A, x) = Eye(n, n, 0)
            L == answer.cholesky
            Q == answer.qr.Q
            Norms == \A j \in 1..n : At(answer.qr.R, j, j) # 0
        IN  /\ plu.found <=> Regular(A)
            /\ Regular(A) =>
                 /\ MulMatrix(Lower(plu.LU), Upper(plu.LU)) = PermuteFwd(A, plu.pl)
                 /\ \A i \in DOMAIN answer.pivoted : Solves(answer.pivoted[i])
                 /\ \A i \in DOMAIN answer.inverses : Inverts(answer.inverses[i])
            /\ MinorsNonzero(A) =>
                 /\ MulMatrix(answer.lu[1], answer.lu[2]) = A
                 /\ LET D == answer.ldu[2]
                    IN  MulMatrix(MulMatrix(answer.ldu[1], DiagonalSolve(D, Eye(n, n, 0))),
                                  answer.ldu[3]) = A
                 /\ \A i \in DOMAIN answer.plain : Solves(answer.plain[i])
                 /\ \A i \in DOMAIN answer.plain_inverses : Inverts(answer.plain_inverses[i])
            /\ MinorsNonzero(A) /\ A = Transpose(A) =>
                 /\ MulMatrix(MulMatrix(answer.ldl.L, answer.ldl.D), Transpose(answer.ldl.L)) = A
                 /\ Solves(answer.symmetric)
                 /\ (\A i \in 1..n : IsSquare(At(answer.ldl.D, i, i))) => MulMatrix(L, Transpose(L)) = A
            /\ Norms => /\ MulMatrix(Q, answer.qr.R) = A
                        /\ MulMatrix(Transpose(Q), Q) = Eye(n, n, 0)

\* Both determinants are Leibniz' sum; the coefficients of the characteristic
\* polynomial are the sums of the principal minors, with alternating signs.
DeterminantsExact ==
    Answered("det") =>
        LET A == question.A
            n == A.row
            Sub(S) == LET at == [i \in 1..Cardinality(S) |->
                                    CHOOSE s \in S : Cardinality({t \in S : t <= s}) = i]
                      IN  Make(Cardinality(S), Cardinality(S), LAMBDA i, j : At(A, at[i], at[j]))
        IN  /\ answer.bareis = Determinant(A) % P
            /\ answer.berkowitz = Determinant(A) % P
            /\ \A k \in 1..n :
                 At(answer.poly, k + 1, 1) =
                    ((-1)^k * Sum({S \in SUBSET (1..n) : Cardinality(S) = k},
                                  LAMBDA S : Determinant(Sub(S)))) % P

\* The answers about definiteness are Sylvester's criterion on the symmetric
\* part, although a shortcut and an elimination without it decide.
DefiniteExact ==
    Answered("definite") =>
        LET A == question.A
            H == Make(A.row, A.row, LAMBDA i, j : At(A, i, j) + At(A, j, i))
        IN  /\ answer.positive <=> \A k \in 1..A.row : Determinant(Minor(H, k)) > 0
            /\ answer.negative <=> \A k \in 1..A.row : (-1)^k * Determinant(Minor(H, k)) > 0

\* What is computed without a solution: determinants and definiteness.
ValuesExact == DeterminantsExact /\ DefiniteExact
=============================================================================
