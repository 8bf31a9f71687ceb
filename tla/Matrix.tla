------------------------------- MODULE Matrix -------------------------------
(***************************************************************************)
(* What a matrix is to its users: a value for every row and column, and    *)
(* the operations of MatrixBase that CSRMatrix implements, on all entries  *)
(* at once.  SparseMatrix is shown to implement this.                      *)
(***************************************************************************)
EXTENDS Naturals

CONSTANTS
  Value,      \* the entries
  Zero,       \* zero
  add,        \* add[a][b] is their sum,
  mul,        \* mul[a][b] their product
  conjugate,  \* and conjugate[a] their complex conjugate
  Shapes,     \* the numbers of rows and columns a matrix is created with
  Operand     \* the values in the second operand of an operation

VARIABLES
  row,    \* nrows()
  col,    \* ncols()
  entry   \* entry[i][j] is get(i, j)

vars == <<row, col, entry>>

Entries(r, c, V) == [1..r -> [1..c -> V]]

Init ==
  \E shape \in Shapes :
    /\ row = shape.row /\ col = shape.col
    /\ entry \in Entries(row, col, Value)

Set(i, j, e) ==
  /\ entry' = [entry EXCEPT ![i][j] = e]
  /\ UNCHANGED <<row, col>>

Transpose(f) ==
  /\ row' = col /\ col' = row
  /\ entry' = [j \in 1..col |-> [i \in 1..row |-> f[entry[i][j]]]]

Conjugate ==
  /\ entry' = [i \in 1..row |-> [j \in 1..col |-> conjugate[entry[i][j]]]]
  /\ UNCHANGED <<row, col>>

Elementwise(op, B) ==
  /\ entry' = [i \in 1..row |-> [j \in 1..col |-> op[entry[i][j]][B[i][j]]]]
  /\ UNCHANGED <<row, col>>

(* The factor zero is an error, after which the rows above that factor are *)
(* scaled and the rest is not.                                             *)
ScaleRows(X) ==
  /\ entry' = [i \in 1..row |-> [j \in 1..col |->
                 IF \A h \in 1..i : X[h] # Zero THEN mul[entry[i][j]][X[i]] ELSE entry[i][j]]]
  /\ UNCHANGED <<row, col>>

(* Here a factor zero leaves the whole matrix as it was.                   *)
ScaleColumns(X) ==
  /\ \A j \in 1..col : X[j] # Zero
  /\ entry' = [i \in 1..row |-> [j \in 1..col |-> mul[entry[i][j]][X[j]]]]
  /\ UNCHANGED <<row, col>>

Same == [v \in Value |-> v]

Next ==
  \/ \E i \in 1..row, j \in 1..col, e \in Value : Set(i, j, e)
  \/ Transpose(Same)
  \/ Transpose(conjugate)
  \/ Conjugate
  \/ \E X \in [1..row -> Operand] : ScaleRows(X)
  \/ \E X \in [1..col -> Operand] : ScaleColumns(X)
  \/ \E B \in Entries(row, col, Operand) : Elementwise(add, B) \/ Elementwise(mul, B)

Spec == Init /\ [][Next]_vars

=============================================================================
