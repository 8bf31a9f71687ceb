---------------------------- MODULE MCCanonical ----------------------------
(***************************************************************************)
(* What is kept in a canonical form: a behaviour is a chain of operations  *)
(* on a sparse matrix, or one on an expression (MCExpressions).            *)
(*                                                                         *)
(* SparseMatrix is over the field with four elements: sums and products of *)
(* entries can cancel, as among expressions, and squaring is a conjugation *)
(* that is not the identity.                                               *)
(***************************************************************************)
EXTENDS SparseMatrix

CONSTANT Depth  \* bound on the operations on an expression

VARIABLES expr, meaning, depth  \* see Expressions

Four == 0..3

Sum == [a \in Four |-> [b \in Four |->
  LET rows == << <<0, 1, 2, 3>>, <<1, 0, 3, 2>>, <<2, 3, 0, 1>>, <<3, 2, 1, 0>> >>
  IN rows[a + 1][b + 1]]]

Product ==
  [a \in Four |-> [b \in Four |-> IF a = 0 \/ b = 0 THEN 0 ELSE ((a + b - 2) % 3) + 1]]

Square == [a \in Four |-> Product[a][a]]

Two == {[row |-> 2, col |-> 2], [row |-> 1, col |-> 4]}

-----------------------------------------------------------------------------

Given == INSTANCE MCExpressions
         WITH Starts <- {}, Operands <- {}, Exponents <- {}, Valuations <- {}
Terms == INSTANCE MCExpressions
         WITH Starts <- Given!MCStarts, Operands <- Given!MCOperands,
              Exponents <- Given!MCExponents, Valuations <- Given!MCValuations

NoMatrix == m = Empty(2, 2) /\ diagonal = <<>>
\* After every operation, also after the last
NoExpr == depth = Depth + 2 /\ expr = Given!zero /\ meaning = {}

MCInit == \/ Init /\ NoExpr
          \/ NoMatrix /\ Terms!Init
MCNext == \/ NoExpr /\ Next /\ UNCHANGED <<expr, meaning, depth>>
          \/ Terms!MCNext /\ UNCHANGED vars
MCSpec == MCInit /\ [][MCNext]_<<vars, expr, meaning, depth>>

\* However sums, products and powers are added, multiplied, divided, raised and
\* expanded, the expression keeps its value (add.cpp, mul.cpp, pow.cpp, expand.cpp).
ValueKept == ~NoExpr => Terms!ValueKept
\* It passes the assertions of the constructors, but for two forms (mul.cpp:278).
FormKept == Terms!FormKept
\* One expression for one sum or product, from whatever side it is reached.
OneForm == ~NoExpr => Terms!OneForm
\* expand multiplies a polynomial out, in canonical form (expand.cpp).
ExpandExact == Terms!ExpandExact
=============================================================================
