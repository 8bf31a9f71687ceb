---------------------------- MODULE SparseMatrix ----------------------------
(***************************************************************************)
(* Compressed sparse rows: class CSRMatrix of src/symengine/matrix.h and   *)
(* src/symengine/sparse_matrix.cpp.                                        *)
(*                                                                         *)
(* The entries of row i (from 1 here) are at the positions p[i] up to      *)
(* p[i + 1], without it, of the column numbers j and the values x; p and   *)
(* the positions count from 0 as in the code, and AtPos(s, k) is s_[k].    *)
(* get and set find a column by two different binary searches; a matrix    *)
(* they can be used on is "canonical": columns ascend and none is          *)
(* repeated.  from_coo, transpose and the binary operations build the      *)
(* vectors of a whole matrix.                                              *)
(***************************************************************************)
EXTENDS Integers, Sequences, SequencesExt

CONSTANTS
  Value, Zero, add, mul, conjugate, Shapes, Operand,  \* see Matrix
  MaxCoo,    \* bound on the length of the lists given to from_coo
  Undefined  \* what undefined behaviour results in

ASSUME EntryAssumption ==
  /\ Zero \in Value /\ Operand \subseteq Value /\ Zero \in Operand
  /\ \A a, b \in Value : /\ add[a][b] \in Value /\ add[a][b] = add[b][a]
                         /\ mul[a][b] \in Value /\ mul[a][b] = mul[b][a]
                         /\ \A c \in Value : add[add[a][b]][c] = add[a][add[b][c]]
  /\ \A a \in Value : /\ add[a][Zero] = a /\ mul[a][Zero] = Zero
                      /\ conjugate[a] \in Value
  /\ conjugate[Zero] = Zero
  /\ Shapes \subseteq [row : Nat \ {0}, col : Nat \ {0}]
  /\ MaxCoo \in Nat /\ Undefined \notin Value

VARIABLES
  m,        \* the matrix: row, col, p, j, x
  diagonal  \* what csr_diagonal(m, D) has just written to D, or nothing

vars == <<m, diagonal>>

AtPos(s, k) == s[k + 1]

(* Row i as a sequence of columns with their values, and back.             *)
Line(A, i) ==
  [k \in 1..(A.p[i + 1] - A.p[i]) |->
     [col |-> A.j[A.p[i] + k], val |-> A.x[A.p[i] + k]]]

Pack(row, col, lines) ==
  LET all == FlattenSeq(lines)
  IN [row |-> row, col |-> col,
      p |-> [i \in 1..(row + 1) |-> Len(FlattenSeq(SubSeq(lines, 1, i - 1)))],
      j |-> [k \in DOMAIN all |-> all[k].col],
      x |-> [k \in DOMAIN all |-> all[k].val]]

Kept(c, v) == IF v = Zero THEN <<>> ELSE <<[col |-> c, val |-> v]>>

-----------------------------------------------------------------------------
(* get and set.  The positions a search still looks at are first up to     *)
(* end, without it.                                                        *)

Span(A) == [first : 0..Len(A.j), end : 0..Len(A.j)]

Bounds(A, i) == [first |-> A.p[i], end |-> A.p[i + 1]]

(* A slip: the search ends before it has looked at the last candidate.     *)
SearchShort(A, j) ==
  LET search[s \in Span(A)] ==
        LET k == (s.first + s.end) \div 2
        IN IF s.first + 1 >= s.end THEN Zero
           ELSE IF AtPos(A.j, k) = j THEN AtPos(A.x, k)
           ELSE IF AtPos(A.j, k) < j THEN search[[first |-> k + 1, end |-> s.end]]
           ELSE search[[first |-> s.first, end |-> k]]
  IN search

(* The value of column j between two positions.                            *)
Search(A, j) ==
  LET search[s \in Span(A)] ==
        LET k == (s.first + s.end) \div 2
        IN IF s.first >= s.end THEN Zero
           ELSE IF AtPos(A.j, k) = j THEN AtPos(A.x, k)
           ELSE IF AtPos(A.j, k) < j THEN search[[first |-> k + 1, end |-> s.end]]
           ELSE search[[first |-> s.first, end |-> k]]
  IN search

Get(A, i, j) == Search(A, j)[Bounds(A, i)]

(* A slip: the last step over a smaller column is forgotten.               *)
PlaceInShort(A, j) ==
  LET place[s \in Span(A)] ==
        LET mid == (s.first + s.end) \div 2
        IN IF s.first >= s.end \/ mid = s.first THEN s.first
           ELSE IF AtPos(A.j, mid - 1) >= j THEN place[[first |-> s.first, end |-> mid - 1]]
           ELSE IF AtPos(A.j, mid) >= j THEN mid
           ELSE place[[first |-> mid + 1, end |-> s.end]]
  IN place

(* Where column j is or belongs between two positions.                     *)
PlaceIn(A, j) ==
  LET place[s \in Span(A)] ==
        LET mid == (s.first + s.end) \div 2
        IN IF s.first >= s.end THEN s.first
           ELSE IF mid = s.first THEN IF AtPos(A.j, mid) < j THEN mid + 1 ELSE mid
           ELSE IF AtPos(A.j, mid - 1) >= j THEN place[[first |-> s.first, end |-> mid - 1]]
           ELSE IF AtPos(A.j, mid) >= j THEN mid
           ELSE place[[first |-> mid + 1, end |-> s.end]]
  IN place

Place(A, i, j) == PlaceIn(A, j)[Bounds(A, i)]

Present(A, i, j, k) == k < A.p[i + 1] /\ AtPos(A.j, k) = j

Set(i, j, e) ==
  LET k == Place(m, i, j)
      moved(by) == [l \in DOMAIN m.p |-> IF l > i THEN m.p[l] + by ELSE m.p[l]]
  IN /\ m' =
          IF Present(m, i, j, k)
            THEN IF e # Zero THEN [m EXCEPT !.x[k + 1] = e]
                 ELSE [m EXCEPT !.x = RemoveAt(@, k + 1), !.j = RemoveAt(@, k + 1),
                                !.p = moved(0 - 1)]
            ELSE IF e = Zero THEN m
                 ELSE [m EXCEPT !.x = InsertAt(@, k + 1, e), !.j = InsertAt(@, k + 1, j),
                                !.p = moved(1)]
     /\ diagonal' = <<>>

-----------------------------------------------------------------------------
(* Whole matrices.                                                         *)

(* The constructor of a zero matrix.                                       *)
Empty(row, col) == Pack(row, col, [i \in 1..row |-> <<>>])

(* csr_sum_duplicates after csr_sort_indices: what a list has at row i and *)
(* column c.                                                               *)
Total(list, i, c) ==
  LET total[k \in 0..Len(list)] ==
        IF k = 0 THEN Zero
        ELSE IF list[k].row = i /\ list[k].col = c THEN add[total[k - 1]][list[k].val]
        ELSE total[k - 1]
  IN total[Len(list)]

Listed(list, i, c) == \E k \in DOMAIN list : list[k].row = i /\ list[k].col = c

(* from_coo: values that cancel stay, as entries with the value zero.      *)
FromCoo(row, col, list) ==
  Pack(row, col,
    [i \in 1..row |->
       FlattenSeq([c \in 1..col |->
         IF Listed(list, i, c) THEN <<[col |-> c, val |-> Total(list, i, c)]>> ELSE <<>>])])

(* jacobian, where d is the table of the derivatives.                      *)
Jacobian(row, col, d) ==
  Pack(row, col, [i \in 1..row |-> FlattenSeq([c \in 1..col |-> Kept(c, d[i][c])])])

(* transpose: an entry goes to the end of the row of its column.           *)
Transposed(A, f) ==
  LET here(i, c) ==
        FlattenSeq([k \in 1..Len(Line(A, i)) |->
          IF Line(A, i)[k].col = c THEN <<[col |-> i, val |-> f[Line(A, i)[k].val]]>> ELSE <<>>])
  IN Pack(A.col, A.row, [c \in 1..A.col |-> FlattenSeq([i \in 1..A.row |-> here(i, c)])])

Same == [v \in Value |-> v]

Transpose(f) ==
  /\ m' = Transposed(m, f)
  /\ diagonal' = <<>>

(* The constructor that conjugate calls is given the columns as rows; it   *)
(* asserts that the result is canonical, which needs a square matrix.      *)
Conjugate ==
  /\ m.row = m.col
  /\ m' = [m EXCEPT !.row = m.col, !.col = m.row,
                    !.x = [k \in DOMAIN m.x |-> conjugate[m.x[k]]]]
  /\ diagonal' = <<>>

(* csr_binop_csr_canonical for one row of each operand.                    *)
Places(s, t) == [s : 1..(Len(s) + 1), t : 1..(Len(t) + 1)]

MergedFrom(s, t, op) ==
  LET merge[at \in Places(s, t)] ==
        IF at.s > Len(s) /\ at.t > Len(t) THEN <<>>
        ELSE IF at.t > Len(t) \/ (at.s <= Len(s) /\ s[at.s].col < t[at.t].col)
          THEN Kept(s[at.s].col, op[s[at.s].val][Zero]) \o merge[[s |-> at.s + 1, t |-> at.t]]
        ELSE IF at.s > Len(s) \/ t[at.t].col < s[at.s].col
          THEN Kept(t[at.t].col, op[Zero][t[at.t].val]) \o merge[[s |-> at.s, t |-> at.t + 1]]
        ELSE Kept(s[at.s].col, op[s[at.s].val][t[at.t].val]) \o merge[[s |-> at.s + 1, t |-> at.t + 1]]
  IN merge

Merged(s, t, op) == MergedFrom(s, t, op)[[s |-> 1, t |-> 1]]

(* elementwise_mul_matrix, and any other binary operation; the result is   *)
(* not one of the operands.                                                *)
Elementwise(op, B) ==
  /\ m' = Pack(m.row, m.col, [i \in 1..m.row |-> Merged(Line(m, i), Line(B, i), op)])
  /\ diagonal' = <<>>

(* csr_scale_rows throws at the first factor zero, with the rows above     *)
(* that one already scaled.                                                *)
ScaleRows(X) ==
  LET scaled(i) ==
        IF \A h \in 1..i : X[h] # Zero
          THEN [k \in DOMAIN Line(m, i) |->
                  [col |-> Line(m, i)[k].col, val |-> mul[Line(m, i)[k].val][X[i]]]]
          ELSE Line(m, i)
  IN /\ m' = Pack(m.row, m.col, [i \in 1..m.row |-> scaled(i)])
     /\ diagonal' = <<>>

(* csr_scale_columns looks at all factors first.                           *)
ScaleColumns(X) ==
  /\ \A c \in 1..m.col : X[c] # Zero
  /\ m' = [m EXCEPT !.x = [k \in DOMAIN m.x |-> mul[m.x[k]][X[m.j[k]]]]]
  /\ diagonal' = <<>>

-----------------------------------------------------------------------------
(* csr_diagonal searches the positions up to p[i + 1] included.  What it   *)
(* reads beyond the end of the vectors, and what it does after jj - 1      *)
(* wrapped around, is undefined.                                           *)

SearchFrom(A, i, from) ==
  LET search[s \in [first : 0..(Len(A.j) + 1), end : 0..Len(A.j)]] ==
        LET k == (s.first + s.end) \div 2
        IN IF s.first > s.end THEN Zero
           ELSE IF k >= Len(A.j) THEN Undefined
           ELSE IF AtPos(A.j, k) = i THEN AtPos(A.x, k)
           ELSE IF AtPos(A.j, k) < i THEN search[[first |-> k + 1, end |-> s.end]]
           ELSE IF k = 0 THEN Undefined
           ELSE search[[first |-> s.first, end |-> k - 1]]
  IN search[[first |-> from, end |-> A.p[i + 1]]]

(* A slip: the first entry of the row is passed over.                      *)
DiagonalAtLate(A, i) == SearchFrom(A, i, A.p[i] + 1)

DiagonalAt(A, i) == SearchFrom(A, i, A.p[i])

Least(a, b) == IF a < b THEN a ELSE b

Diagonal ==
  /\ diagonal' = [i \in 1..Least(m.row, m.col) |-> DiagonalAt(m, i)]
  /\ UNCHANGED m

-----------------------------------------------------------------------------

Tables(r, c, V) == [1..r -> [1..c -> V]]

Init ==
  /\ \E shape \in Shapes :
       LET r == shape.row
           c == shape.col
       IN \/ m = Empty(r, c)
          \/ \E n \in 1..MaxCoo :
               \E list \in [1..n -> [row : 1..r, col : 1..c, val : Value]] :
                 m = FromCoo(r, c, list)
          \/ \E d \in Tables(r, c, Operand) : m = Jacobian(r, c, d)
  /\ diagonal = <<>>

Next ==
  \/ \E i \in 1..m.row, j \in 1..m.col, e \in Value : Set(i, j, e)
  \/ Transpose(Same)
  \/ Transpose(conjugate)
  \/ Conjugate
  \/ \E d \in Tables(m.row, m.col, Operand) :
       LET B == Jacobian(m.row, m.col, d)
       IN Elementwise(add, B) \/ Elementwise(mul, B)
  \/ \E X \in [1..m.row -> Operand] : ScaleRows(X)
  \/ \E X \in [1..m.col -> Operand] : ScaleColumns(X)
  \/ Diagonal

Spec == Init /\ [][Next]_vars

-----------------------------------------------------------------------------
(* Properties.                                                             *)

(* p has an entry for every row and one more and counts the entries of j   *)
(* and x (is_canonical), and within a row the columns ascend and none is   *)
(* repeated (csr_has_canonical_format).                                    *)
Matrices ==
  [row : Nat \ {0}, col : Nat \ {0}, p : Seq(Nat), j : Seq(Nat), x : Seq(Value)]

IsCanonical(A) ==
  /\ A \in Matrices
  /\ Len(A.p) = A.row + 1 /\ A.p[1] = 0
  /\ Len(A.j) = A.p[A.row + 1] /\ Len(A.x) = A.p[A.row + 1]
  /\ \A k \in DOMAIN A.j : A.j[k] \in 1..A.col
  /\ \A i \in 1..A.row :
       /\ A.p[i] <= A.p[i + 1]
       /\ \A k \in (A.p[i] + 1)..(A.p[i + 1] - 1) : A.j[k] < A.j[k + 1]

(* Every operation leaves a matrix on which the binary searches of the     *)
(* next one work.                                                          *)
Canonical == IsCanonical(m)

(* Seen through get, each operation is that of a matrix: set changes one   *)
(* entry and no other, transpose, conjugate, scaling and the binary        *)
(* operations do what they say for every entry, stored or not.             *)
M == INSTANCE Matrix WITH
       row <- m.row, col <- m.col,
       entry <- [i \in 1..m.row |-> [j \in 1..m.col |-> Get(m, i, j)]]

ImplementsMatrix == M!Spec

(* csr_diagonal, whose binary search takes the end of a row for a part of  *)
(* it, still finds every entry that is there.  Where there is none it can  *)
(* return one of the next row, or what lies outside of the vectors.        *)
DiagonalFound ==
  [][diagonal' # <<>> =>
       \A i \in DOMAIN diagonal' : Get(m, i, i) # Zero => diagonal'[i] = Get(m, i, i)]_vars

=============================================================================
