------------------------- MODULE MatrixExpressions -------------------------
(***************************************************************************)
(* Matrix expressions (symengine/matrices): sums, products, Hadamard       *)
(* products, transposes and conjugates of zero, identity, diagonal and     *)
(* dense matrices and of matrix symbols, which have no size.  A node is    *)
(* simplified when it is made; size, trace and the is_ visitors answer     *)
(* what can be known of it.                                                *)
(*                                                                         *)
(* What a symbol stands for is given by a world.  A scalar is its value in *)
(* every world: one that differs is an expression with a symbol, of which  *)
(* the tests on scalars know nothing.                                      *)
(***************************************************************************)
EXTENDS Integers, FiniteSets, Sequences, SequencesExt

CONSTANTS Worlds,       \* the values of the symbols
          Stands,       \* [symbol -> [world -> its matrix]]
          Operands,     \* matrices to compute with
          Scalars,      \* scalars to multiply with
          Length        \* bound on the operations of a computation

VARIABLES expr,         \* the expression computed so far
          meaning,      \* the matrix it should be, in each world
          length

vars == <<expr, meaning, length>>

-----------------------------------------------------------------------------
\* Scalars: complex integers, one for each world.

Plus(a, b) == [w \in Worlds |-> <<a[w][1] + b[w][1], a[w][2] + b[w][2]>>]
Times(a, b) == [w \in Worlds |-> <<a[w][1] * b[w][1] - a[w][2] * b[w][2],
                                   a[w][1] * b[w][2] + a[w][2] * b[w][1]>>]
Minus(a, b) == [w \in Worlds |-> <<a[w][1] - b[w][1], a[w][2] - b[w][2]>>]
Conj(a) == [w \in Worlds |-> <<a[w][1], -a[w][2]>>]
Constant(k) == [w \in Worlds |-> <<k, 0>>]
Zero == Constant(0)
One == Constant(1)
Total(list) == FoldLeft(Plus, Zero, list)

Decided(a, P(_)) == LET values == {a[w] : w \in Worlds}
                    IN IF Cardinality(values) > 1 THEN "unknown"
                       ELSE IF \A z \in values : P(z) THEN "true" ELSE "false"
IsZero(a) == Decided(a, LAMBDA z : z = <<0, 0>>)
IsReal(a) == Decided(a, LAMBDA z : z[2] = 0)
Equal(a, b) == IsZero(Minus(a, b))

\* The size that a matrix symbol has.
Unknown == Constant(-1)
IsInteger(n) == n # Unknown /\ Cardinality({n[w] : w \in Worlds}) = 1

-----------------------------------------------------------------------------
\* Nodes.

Node(sort, name, dims, entries, parts) ==
    [sort |-> sort, name |-> name, dims |-> dims, entries |-> entries, parts |-> parts]

Symbol(name) == Node("symbol", name, <<Unknown, Unknown>>, <<>>, <<>>)
IdentityMatrix(n) == Node("identity", "", <<n, n>>, <<>>, <<>>)
ZeroMatrix(m, n) == Node("zero", "", <<m, n>>, <<>>, <<>>)
Diag(v) == Node("diagonal", "", <<Constant(Len(v)), Constant(Len(v))>>, v, <<>>)
Dense(m, n, v) == Node("dense", "", <<Constant(m), Constant(n)>>, v, <<>>)
Scalar(a) == Node("scalar", "", <<>>, <<a>>, <<>>)
Compound(sort, parts) == Node(sort, "", <<>>, <<>>, parts)
Product(scalar, factors) == Node("product", "", <<>>, <<scalar>>, factors)
Refused == Node("refused", "", <<>>, <<>>, <<>>)

Rows(e) == e.dims[1][CHOOSE w \in Worlds : TRUE][1]
Cols(e) == e.dims[2][CHOOSE w \in Worlds : TRUE][1]
At(e, i, j) == e.entries[(i - 1) * Cols(e) + j]

\* m x n entries, row by row
Fill(m, n, F(_, _)) == [k \in 1..(m * n) |-> F(((k - 1) \div n) + 1, ((k - 1) % n) + 1)]

\* diagonal_matrix, immutable_dense_matrix
DiagonalMatrix(v) ==
    CASE \A k \in DOMAIN v : v[k] = Zero -> ZeroMatrix(Constant(Len(v)), Constant(Len(v)))
      [] \A k \in DOMAIN v : v[k] = One -> IdentityMatrix(Constant(Len(v)))
      [] OTHER -> Diag(v)

ImmutableDenseMatrix(m, n, v) ==
    LET e == Dense(m, n, v)
    IN IF \A k \in DOMAIN v : v[k] = Zero THEN ZeroMatrix(Constant(m), Constant(n))
       ELSE IF m = n /\ \A i, j \in 1..m : i # j => At(e, i, j) = Zero
         THEN DiagonalMatrix([i \in 1..m |-> At(e, i, i)])
       ELSE e

-----------------------------------------------------------------------------
\* Sizes, as far as they are known: integers before other expressions.

Better(a, b) == IF b # Unknown /\ (IsInteger(b) \/ a = Unknown) THEN b ELSE a
Refine(s, t) == IF IsInteger(s[1]) /\ IsInteger(s[2]) THEN s
                ELSE <<Better(s[1], t[1]), Better(s[2], t[2])>>
AllSameSize(sizes) == FoldLeft(Refine, sizes[1], Tail(sizes))

RECURSIVE Size(_)
Size(e) ==
    CASE e.sort \in {"symbol", "identity", "zero", "diagonal", "dense"} -> e.dims
      [] e.sort \in {"sum", "hadamard"} -> AllSameSize([k \in DOMAIN e.parts |-> Size(e.parts[k])])
      [] e.sort = "product" -> <<Size(e.parts[1])[1], Size(Last(e.parts))[2]>>
      [] e.sort \in {"transpose", "conjugate"} -> <<Unknown, Unknown>>

\* check_matching_sizes looks at every two terms
Pairs(parts) == LET sizes == [k \in DOMAIN parts |-> Size(parts[k])]
                IN {<<sizes[i], sizes[j]>> : i \in 1..(Len(parts) - 1), j \in 2..Len(parts)}
RowsKnown(pair) == pair[1][1] # Unknown /\ pair[2][1] # Unknown
SizesDiffer(parts) ==
    \E pair \in Pairs(parts) : RowsKnown(pair) /\ \E d \in 1..2 : Equal(pair[1][d], pair[2][d]) = "false"

\* and subtracts the columns where the rows are known, be they known or not.
ReadsNull(parts) ==
    \E pair \in Pairs(parts) : RowsKnown(pair) /\ Unknown \in {pair[1][2], pair[2][2]}

\* check_matching_mul_sizes
MulSizesDiffer(parts) ==
    \E k \in 1..(Len(parts) - 1) :
        LET inner == <<Size(parts[k])[2], Size(parts[k + 1])[1]>>
        IN Unknown \notin {inner[1], inner[2]} /\ Equal(inner[1], inner[2]) = "false"

-----------------------------------------------------------------------------
\* What the constructors share.

Flat(sort, list) ==
    FlattenSeq([k \in DOMAIN list |-> IF list[k].sort = sort THEN list[k].parts ELSE <<list[k]>>])
OfSort(list, sort) == SelectSeq(list, LAMBDA e : e.sort = sort)

\* All of them entry by entry, as one matrix, if there is one
Merged(list, Op(_, _)) ==
    IF list = <<>> THEN <<>>
    ELSE <<FoldLeft(LAMBDA e, f : [e EXCEPT !.entries = [k \in DOMAIN @ |-> Op(@[k], f.entries[k])]],
                    list[1], Tail(list))>>

Single(sort, keep) == IF Len(keep) = 1 THEN keep[1] ELSE Compound(sort, keep)

\* matrix_add
MatrixAdd(terms) ==
    LET expanded == Flat("sum", terms)
        diag == Merged(OfSort(expanded, "diagonal"), Plus)
        dense == Merged(OfSort(expanded, "dense"), Plus)
        others == SelectSeq(expanded, LAMBDA e : e.sort \notin {"zero", "diagonal", "dense"})
        Raised == LET d == dense[1]
                  IN Dense(Rows(d), Cols(d), Fill(Rows(d), Cols(d), LAMBDA i, j :
                         IF i = j THEN Plus(At(d, i, j), diag[1].entries[i]) ELSE At(d, i, j)))
        keep == others \o (IF diag # <<>> /\ dense # <<>> THEN <<Raised>> ELSE diag \o dense)
    IN CASE SizesDiffer(expanded) -> Refused
         [] ~SizesDiffer(expanded) /\ keep = <<>> -> Last(expanded)
         [] OTHER -> Single("sum", keep)

\* hadamard_product: of several identities the first is kept.
Hadamard(factors) ==
    LET expanded == Flat("hadamard", factors)
        zeros == OfSort(expanded, "zero")
        diag == Merged(OfSort(expanded, "diagonal"), Times)
        dense == Merged(OfSort(expanded, "dense"), Times)
        others == SelectSeq(expanded, LAMBDA e : e.sort \notin {"diagonal", "dense"})
        identities == {k \in DOMAIN others : others[k].sort = "identity"}
        kept == {k \in DOMAIN others : \A i \in identities : k \in identities => k <= i}
        Crossed == Diag([i \in DOMAIN diag[1].entries |->
                            Times(At(dense[1], i, i), diag[1].entries[i])])
        keep == [k \in 1..Cardinality(kept) |-> others[SetToSortSeq(kept, <)[k]]]
                \o (IF diag # <<>> /\ dense # <<>> THEN <<Crossed>> ELSE dense \o diag)
    IN CASE SizesDiffer(expanded) -> Refused
         [] ~SizesDiffer(expanded) /\ zeros # <<>> -> zeros[1]
         [] OTHER -> Single("hadamard", keep)

\* mul_diag_diag, mul_dense_dense, mul_diag_dense, mul_dense_diag
MulDiagDiag(a, b) == Diag([k \in DOMAIN a.entries |-> Times(a.entries[k], b.entries[k])])
MulDenseDense(a, b) ==
    Dense(Rows(a), Cols(b), Fill(Rows(a), Cols(b), LAMBDA i, j :
        Total([k \in 1..Cols(a) |-> Times(At(a, i, k), At(b, k, j))])))
MulDiagDense(a, b) ==
    Dense(Rows(b), Cols(b), Fill(Rows(b), Cols(b), LAMBDA i, j : Times(At(b, i, j), a.entries[i])))
MulDenseDiag(a, b) ==
    Dense(Rows(a), Cols(a), Fill(Rows(a), Cols(a), LAMBDA i, j : Times(At(a, i, j), b.entries[j])))

MulPair(a, b) ==
    CASE a.sort = "diagonal" /\ b.sort = "diagonal" -> MulDiagDiag(a, b)
      [] a.sort = "dense" /\ b.sort = "dense" -> MulDenseDense(a, b)
      [] a.sort = "diagonal" /\ b.sort = "dense" -> MulDiagDense(a, b)
      [] a.sort = "dense" /\ b.sort = "diagonal" -> MulDenseDiag(a, b)

\* Slip: what is held stays held past a factor of another sort.
MulStepPast(state, f) ==
    CASE f.sort = "identity" -> state
      [] f.sort \in {"diagonal", "dense"} ->
           [state EXCEPT !.held = IF @ = <<>> THEN <<f>> ELSE <<MulPair(@[1], f)>>]
      [] OTHER -> [state EXCEPT !.keep = Append(@, f)]

\* The diagonal or dense matrix held goes before a factor of another sort.
MulStep(state, f) ==
    CASE f.sort = "identity" -> state
      [] f.sort \in {"diagonal", "dense"} ->
           [state EXCEPT !.held = IF @ = <<>> THEN <<f>> ELSE <<MulPair(@[1], f)>>]
      [] OTHER -> [keep |-> state.keep \o state.held \o <<f>>, held |-> <<>>]

\* matrix_mul
Factors(list) == SelectSeq(Flat("product", list), LAMBDA e : e.sort # "scalar")
Coefficient(list) ==
    FoldLeft(LAMBDA a, e : IF e.sort \in {"scalar", "product"} THEN Times(a, e.entries[1]) ELSE a,
             One, list)

MatrixMul(factors) ==
    LET expanded == Factors(factors)
        scalar == Coefficient(factors)
        zeros == OfSort(factors, "zero")
        end == FoldLeft(MulStep, [keep |-> <<>>, held |-> <<>>], expanded)
        keep == end.keep \o end.held
    IN CASE MulSizesDiffer(expanded) -> Refused
         [] ~MulSizesDiffer(expanded) /\ zeros # <<>> -> zeros[1]
         [] OTHER -> IF Len(keep) = 1 /\ scalar = One THEN keep[1]
                     ELSE IF keep = <<>> THEN Last(expanded)
                     ELSE Product(scalar, keep)

-----------------------------------------------------------------------------
\* transpose and conjugate_matrix

RECURSIVE Transpose(_), Conjugate(_)
Transpose(e) ==
    CASE e.sort \in {"identity", "diagonal"} -> e
      [] e.sort = "zero" -> ZeroMatrix(e.dims[2], e.dims[1])
      [] e.sort = "dense" -> Dense(Cols(e), Rows(e), Fill(Cols(e), Rows(e), LAMBDA i, j : At(e, j, i)))
      [] e.sort = "transpose" -> e.parts[1]
      [] e.sort \in {"sum", "hadamard"} ->
           Compound(e.sort, [k \in DOMAIN e.parts |-> Transpose(e.parts[k])])
      [] e.sort \in {"symbol", "product", "conjugate"} -> Compound("transpose", <<e>>)

Conjugate(e) ==
    CASE e.sort \in {"identity", "zero"} -> e
      [] e.sort \in {"diagonal", "dense"} -> [e EXCEPT !.entries = [k \in DOMAIN @ |-> Conj(@[k])]]
      [] e.sort = "conjugate" -> e.parts[1]
      [] e.sort = "transpose" -> Compound("transpose", <<Compound("conjugate", e.parts)>>)
      [] e.sort \in {"sum", "hadamard"} ->
           Compound(e.sort, [k \in DOMAIN e.parts |-> Conjugate(e.parts[k])])
      [] e.sort \in {"symbol", "product"} -> Compound("conjugate", <<e>>)

-----------------------------------------------------------------------------
\* Stands as such, row by row: what the nodes mean in a world.

Undefined == [row |-> 0, col |-> 0, m |-> <<>>]
Make(r, c, F(_, _)) == [row |-> r, col |-> c, m |-> Fill(r, c, F)]
Entry(M, i, j) == M.m[(i - 1) * M.col + j]

CPlus(a, b) == <<a[1] + b[1], a[2] + b[2]>>
CTimes(a, b) == <<a[1] * b[1] - a[2] * b[2], a[1] * b[2] + a[2] * b[1]>>
CTotal(list) == FoldLeft(CPlus, <<0, 0>>, list)

SameShape(M, N) == M # Undefined /\ M.row = N.row /\ M.col = N.col
EachEntry(M, N, Op(_, _)) ==
    IF SameShape(M, N) THEN [M EXCEPT !.m = [k \in DOMAIN @ |-> Op(@[k], N.m[k])]] ELSE Undefined
PlainAdd(M, N) == EachEntry(M, N, CPlus)
PlainHadamard(M, N) == EachEntry(M, N, CTimes)
PlainMul(M, N) ==
    IF M # Undefined /\ M.col = N.row
    THEN Make(M.row, N.col, LAMBDA i, j : CTotal([k \in 1..M.col |-> CTimes(Entry(M, i, k), Entry(N, k, j))]))
    ELSE Undefined
PlainScale(a, M) == [M EXCEPT !.m = [k \in DOMAIN @ |-> CTimes(a, @[k])]]
PlainTranspose(M) ==
    IF M = Undefined THEN M ELSE Make(M.col, M.row, LAMBDA i, j : Entry(M, j, i))
PlainConjugate(M) == [M EXCEPT !.m = [k \in DOMAIN @ |-> <<@[k][1], -@[k][2]>>]]
PlainTrace(M) == CTotal([k \in 1..M.row |-> Entry(M, k, k)])

RECURSIVE Denotes(_, _)
Denotes(e, w) ==
    LET Part(k) == Denotes(e.parts[k], w)
        Folded(Op(_, _)) == FoldLeft(LAMBDA M, k : Op(M, Part(k)), Part(1), [k \in 1..(Len(e.parts) - 1) |-> k + 1])
        m == e.dims[1][w][1]
        n == e.dims[2][w][1]
    IN CASE e.sort = "symbol" -> Stands[e.name][w]
         [] e.sort = "zero" -> Make(m, n, LAMBDA i, j : <<0, 0>>)
         [] e.sort = "identity" -> Make(m, n, LAMBDA i, j : <<IF i = j THEN 1 ELSE 0, 0>>)
         [] e.sort = "diagonal" -> Make(m, n, LAMBDA i, j : IF i = j THEN e.entries[i][w] ELSE <<0, 0>>)
         [] e.sort = "dense" -> Make(m, n, LAMBDA i, j : At(e, i, j)[w])
         [] e.sort = "sum" -> Folded(PlainAdd)
         [] e.sort = "hadamard" -> Folded(PlainHadamard)
         [] e.sort = "product" -> PlainScale(e.entries[1][w], Folded(PlainMul))
         [] e.sort = "transpose" -> PlainTranspose(Part(1))
         [] e.sort = "conjugate" -> PlainConjugate(Part(1))

-----------------------------------------------------------------------------
\* Tests.

And(answers) == IF "false" \in answers THEN "false"
                ELSE IF "unknown" \in answers THEN "unknown" ELSE "true"
Entries(e) == {e.entries[k] : k \in DOMAIN e.entries}

IsZeroMatrix(e) ==
    CASE e.sort = "identity" -> "false"
      [] e.sort = "zero" -> "true"
      [] e.sort \in {"diagonal", "dense"} -> And({IsZero(a) : a \in Entries(e)})
      [] OTHER -> "unknown"

IsRealMatrix(e) ==
    CASE e.sort \in {"identity", "zero"} -> "true"
      [] e.sort \in {"diagonal", "dense"} -> And({IsReal(a) : a \in Entries(e)})
      [] OTHER -> "unknown"

\* The first part whose answer is known
RECURSIVE IsSquare(_)
IsSquare(e) ==
    LET answers == [k \in DOMAIN e.parts |-> IsSquare(e.parts[k])]
        known == SelectSeq(answers, LAMBDA a : a # "unknown")
    IN CASE e.sort \in {"identity", "diagonal"} -> "true"
         [] e.sort \in {"zero", "dense"} -> Equal(e.dims[1], e.dims[2])
         [] e.sort \in {"sum", "hadamard"} -> IF known = <<>> THEN "unknown" ELSE known[1]
         [] e.sort \in {"symbol", "product", "transpose", "conjugate"} -> "unknown"

\* The loop over the terms of a sum ends at an answer that is not known, or at
\* the second that is false.
SumAnswer(answers) ==
    LET Where(a) == {k \in DOMAIN answers : answers[k] = a}
    IN CASE \E k \in Where("unknown") : Cardinality(Where("false") \intersect 1..k) < 2 -> "unknown"
         [] Where("unknown") = {} /\ Where("false") = {} -> "true"
         [] OTHER -> "false"

\* is_diagonal, is_lower, is_upper ask for zeros in these places.
Shapes == {"diagonal", "lower", "upper"}
Outside(shape, i, j) == CASE shape = "diagonal" -> i # j
                          [] shape = "lower" -> i < j
                          [] shape = "upper" -> i > j

RECURSIVE HasShape(_, _)
HasShape(shape, e) ==
    LET answers == [k \in DOMAIN e.parts |-> HasShape(shape, e.parts[k])]
    IN CASE e.sort \in {"identity", "diagonal"} -> "true"
         [] e.sort = "zero" -> IsSquare(e)
         [] e.sort = "dense" ->
              IF Rows(e) # Cols(e) THEN "false"
              ELSE And({IsZero(At(e, p[1], p[2])) : p \in {q \in (1..Rows(e)) \X (1..Rows(e)) : Outside(shape, q[1], q[2])}})
         [] e.sort = "sum" -> SumAnswer(answers)
         [] e.sort = "hadamard" -> IF \E k \in DOMAIN answers : answers[k] = "true" THEN "true" ELSE "unknown"
         [] e.sort \in {"symbol", "product", "transpose", "conjugate"} -> "unknown"

RECURSIVE IsSymmetric(_)
IsSymmetric(e) ==
    CASE e.sort \in {"identity", "diagonal"} -> "true"
      [] e.sort = "zero" -> IsSquare(e)
      [] e.sort = "dense" ->
           IF Rows(e) # Cols(e) THEN "false"
           ELSE And({Equal(At(e, p[1], p[2]), At(e, p[2], p[1])) :
                     p \in {q \in (1..Rows(e)) \X (1..Rows(e)) : q[2] < q[1]}})
      [] e.sort \in {"sum", "hadamard"} -> SumAnswer([k \in DOMAIN e.parts |-> IsSymmetric(e.parts[k])])
      [] e.sort \in {"symbol", "product", "transpose", "conjugate"} -> "unknown"

\* Each entry against the first one of its diagonal.
IsToeplitz(e) ==
    CASE e.sort \in {"identity", "zero"} -> "true"
      [] e.sort = "diagonal" -> And({Equal(e.entries[1], a) : a \in Entries(e)})
      [] e.sort = "dense" ->
           And({Equal(At(e, p[1] - p[3], p[2] - p[3]), At(e, p[1], p[2])) :
                p \in {q \in (2..Rows(e)) \X (2..Cols(e)) \X (1..Rows(e)) :
                         q[3] = (IF q[1] < q[2] THEN q[1] ELSE q[2]) - 1}})
      [] OTHER -> "unknown"

\* trace, in a world: a Trace node stands for the trace of its argument.
RECURSIVE Trace(_, _)
Trace(e, w) ==
    CASE e.sort = "identity" -> e.dims[1][w]
      [] e.sort = "zero" -> <<0, 0>>
      [] e.sort = "diagonal" -> Total(e.entries)[w]
      [] e.sort = "dense" -> Total([k \in 1..Rows(e) |-> At(e, k, k)])[w]
      [] e.sort = "sum" -> CTotal([k \in DOMAIN e.parts |-> Trace(e.parts[k], w)])
      [] OTHER -> PlainTrace(Denotes(e, w))

\* A matrix that is known not to be square is refused.
RECURSIVE TraceRefused(_)
TraceRefused(e) == \/ e.sort \in {"zero", "dense"} /\ IsSquare(e) = "false"
                   \/ e.sort = "sum" /\ \E k \in DOMAIN e.parts : TraceRefused(e.parts[k])

-----------------------------------------------------------------------------
\* A computation.

Means(e) == [w \in Worlds |-> Denotes(e, w)]

Init == expr \in Operands /\ meaning = Means(expr) /\ length = 0

Continue == expr # Refused /\ length < Length /\ length' = length + 1
Becomes(next, plain) == expr' = next /\ meaning' = plain

BothOrders(e, f) == {<<e, f>>, <<f, e>>}

CallAdd == Continue /\ \E o \in Operands : \E list \in BothOrders(expr, o) :
    /\ ~ReadsNull(Flat("sum", list))
    /\ Becomes(MatrixAdd(list), [w \in Worlds |-> PlainAdd(meaning[w], Denotes(o, w))])

CallHadamard == Continue /\ \E o \in Operands : \E list \in BothOrders(expr, o) :
    /\ ~ReadsNull(Flat("hadamard", list))
    /\ Becomes(Hadamard(list), [w \in Worlds |-> PlainHadamard(meaning[w], Denotes(o, w))])

\* A product with a zero matrix is that matrix, whatever its size should be, and
\* a product of a scalar and identities loses the scalar: these are left out.
ComesOutRight(list, plain) ==
    /\ \A z \in Range(OfSort(list, "zero")) : \A w \in Worlds :
          plain[w] # Undefined => SameShape(Denotes(z, w), plain[w])
    /\ (\A f \in Range(Factors(list)) : f.sort = "identity") => Coefficient(list) = One

CallMul ==
    /\ Continue
    /\ \/ \E o \in Operands :
            \E turn \in {[list |-> <<expr, o>>, plain |-> [w \in Worlds |-> PlainMul(meaning[w], Denotes(o, w))]],
                         [list |-> <<o, expr>>, plain |-> [w \in Worlds |-> PlainMul(Denotes(o, w), meaning[w])]]} :
                /\ ComesOutRight(turn.list, turn.plain)
                /\ Becomes(MatrixMul(turn.list), turn.plain)
       \/ \E a \in Scalars : LET plain == [w \in Worlds |-> PlainScale(a[w], meaning[w])]
                             IN /\ ComesOutRight(<<expr, Scalar(a)>>, plain)
                                /\ Becomes(MatrixMul(<<expr, Scalar(a)>>), plain)

CallTranspose ==
    Continue /\ Becomes(Transpose(expr), [w \in Worlds |-> PlainTranspose(meaning[w])])

CallConjugate ==
    Continue /\ Becomes(Conjugate(expr), [w \in Worlds |-> PlainConjugate(meaning[w])])

Next == CallAdd \/ CallHadamard \/ CallMul \/ CallTranspose \/ CallConjugate

Spec == Init /\ [][Next]_vars

-----------------------------------------------------------------------------

Defined == {w \in Worlds : meaning[w] # Undefined}

\* What was refused has no meaning in any world, and the rest keeps its own.
MeaningKept ==
    IF expr = Refused THEN Defined = {}
    ELSE \A w \in Defined : Denotes(expr, w) = meaning[w]

\* A size that is known, and a trace, are those of the matrix.
MeasuresRight ==
    expr # Refused => \A w \in Defined :
        LET M == meaning[w]
            size == Size(expr)
        IN /\ size[1] # Unknown => size[1][w] = <<M.row, 0>>
           /\ size[2] # Unknown => size[2][w] = <<M.col, 0>>
           /\ TraceRefused(expr) => M.row # M.col
           /\ M.row = M.col => Trace(expr, w) = PlainTrace(M)

RECURSIVE HasHadamard(_)
HasHadamard(e) == e.sort = "hadamard" \/ \E k \in DOMAIN e.parts : HasHadamard(e.parts[k])

Agrees(answer, P(_)) == \A w \in Defined : /\ answer = "true" => P(meaning[w])
                                           /\ answer = "false" => ~P(meaning[w])
ShapeOf(shape, M) ==
    M.row = M.col /\ \A i, j \in 1..M.row : Outside(shape, i, j) => Entry(M, i, j) = <<0, 0>>

\* A definite answer of a test is right whatever the symbols stand for.  Of
\* Hadamard products is_symmetric knows only the rule for sums.
AnswersRight ==
    expr # Refused =>
        /\ Agrees(IsZeroMatrix(expr), LAMBDA M : \A k \in DOMAIN M.m : M.m[k] = <<0, 0>>)
        /\ Agrees(IsRealMatrix(expr), LAMBDA M : \A k \in DOMAIN M.m : M.m[k][2] = 0)
        /\ Agrees(IsSquare(expr), LAMBDA M : M.row = M.col)
        /\ \A shape \in Shapes : Agrees(HasShape(shape, expr), LAMBDA M : ShapeOf(shape, M))
        /\ ~HasHadamard(expr) => Agrees(IsSymmetric(expr), LAMBDA M : PlainTranspose(M) = M)
        /\ Agrees(IsToeplitz(expr), LAMBDA M :
               \A i \in 2..M.row, j \in 2..M.col : Entry(M, i, j) = Entry(M, i - 1, j - 1))

\* What is_canonical asks of dense and diagonal matrices: entries for their size,
\* and no simpler node for them.
IsLeaf(e) == e.sort \in {"diagonal", "dense"}
WellSized(e) == Rows(e) >= 1 /\ Cols(e) >= 1
                /\ Len(e.entries) = (IF e.sort = "dense" THEN Rows(e) * Cols(e) ELSE Rows(e))
IsReduced(e) ==
    /\ Entries(e) # {Zero}
    /\ e.sort = "diagonal" => Entries(e) # {One}
    /\ e.sort = "dense" /\ Rows(e) = Cols(e) =>
          \E i, j \in 1..Rows(e) : i # j /\ At(e, i, j) # Zero

\* The leaves that no operation merged: those of the operands, also transposed
\* and conjugated.
Unmerged == LET leaves == {o \in Operands : IsLeaf(o)}
                turned == leaves \cup {Transpose(o) : o \in leaves}
            IN turned \cup {Conjugate(o) : o \in turned}

\* What is_canonical asks of a node and its parts.  Two forms escape: the conjugate
\* of a conjugate under a transpose, and a leaf merged of two, whose entries are
\* computed and put into a new node as they are, be it zero, an identity or, for a
\* dense one, diagonal (matrix_add.cpp:123, hadamard_product.cpp:123,
\* matrix_mul.cpp:115).
Mergeable(parts) == {k \in DOMAIN parts : IsLeaf(parts[k])}
RECURSIVE Canonical(_)
Canonical(e) ==
    LET sorts == {e.parts[k].sort : k \in DOMAIN e.parts}
    IN /\ \A k \in DOMAIN e.parts : Canonical(e.parts[k])
       /\ IsLeaf(e) => WellSized(e) /\ (IsReduced(e) \/ e \notin Unmerged)
       /\ e.sort \in {"sum", "hadamard"} =>
             Len(e.parts) >= 2 /\ Cardinality(Mergeable(e.parts)) <= 1 /\ {e.sort, "zero"} \intersect sorts = {}
       /\ e.sort = "hadamard" => Len(OfSort(e.parts, "identity")) <= 1
       /\ e.sort = "product" =>
             /\ e.parts # <<>> /\ (Len(e.parts) = 1 => e.entries[1] # One)
             /\ {"zero", "identity", "product"} \intersect sorts = {}
             /\ \A k \in Mergeable(e.parts) : k + 1 \notin Mergeable(e.parts)
       /\ e.sort \in {"transpose", "conjugate"} =>
             {"identity", "zero", "diagonal", "dense", "transpose", "sum", "hadamard"} \intersect sorts = {}

\* However matrices are added, multiplied, transposed and conjugated, the
\* expression is the matrix that plain arithmetic gives, for everything that its
\* symbols can stand for, in a canonical form but for the two that escape; what
\* is refused could not be computed; sizes, traces and definite answers are those
\* of the matrix (symengine/matrices).
SymbolicExact == /\ MeaningKept /\ MeasuresRight /\ AnswersRight
                 /\ expr # Refused => Canonical(expr)
=============================================================================
