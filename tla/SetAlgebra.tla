----------------------------- MODULE SetAlgebra -----------------------------
(***************************************************************************)
(* Sets (sets.cpp): unions, intersections and complements of the sets of   *)
(* numbers, finite sets and intervals.  Each class has its own rules and   *)
(* hands the others' cases over, to the other operand or to the functions  *)
(* set_union, set_intersection and set_complement_helper, which hand them  *)
(* back: the answer must be right, and come at all.                        *)
(*                                                                         *)
(* Numbers are quarters: a multiple of 4 is an Integer, an odd number of   *)
(* halves a Rational, and an odd quarter stands for a RealDouble, which is *)
(* real and no rational.  Imaginary is a complex number and Other no       *)
(* number.  Symbols, and so condition sets, image sets and intersections   *)
(* left as they are, do not occur: whether a set contains a number is      *)
(* always known.                                                           *)
(***************************************************************************)
EXTENDS Integers, FiniteSets, Sequences

CONSTANTS Operands,     \* the sets a computation combines
          Width,        \* bound on the numbers: quarters in -Width .. Width
          Depth,        \* bound on the operations of a computation
          Stack         \* bound on the calls inside one another

VARIABLES set,          \* the set computed so far
          members,      \* the points that belong to it, by plain set operations
          depth

vars == <<set, members, depth>>

Imaginary == 1000
Other == 1001
Numbers == -Width .. Width
Points == Numbers \union {Imaginary, Other}

-----------------------------------------------------------------------------
\* Sets.

Node(sort, points, ends, parts) ==
    [sort |-> sort, points |-> points, ends |-> ends, parts |-> parts]

Named(sort) == Node(sort, {}, <<>>, <<>>)
Empty == Named("empty")
Universal == Named("universal")
Complexes == Named("complexes")
Reals == Named("reals")
Rationals == Named("rationals")
Integers1 == Named("integers")
Naturals1 == Named("naturals")
Naturals0 == Named("naturals0")

\* The value of a computation that calls itself for ever.
Endless == Named("endless")

\* finiteset and interval, the functions that make nodes.
Finite(points) == IF points = {} THEN Empty ELSE Node("finite", points, <<>>, <<>>)
Interval(lo, hi, lopen, ropen) ==
    CASE lo < hi -> Node("interval", {}, <<lo, hi, lopen, ropen>>, <<>>)
      [] lo = hi /\ ~(lopen \/ ropen) -> Finite({lo})
      [] OTHER -> Empty
ComplementNode(universe, container) ==
    Node("complement", {}, <<>>, <<universe, container>>)

\* The sets of numbers, each in the next.
Ladder == <<"naturals", "naturals0", "integers", "rationals", "reals", "complexes">>
Level(s) == IF \E i \in 1 .. Len(Ladder) : Ladder[i] = s.sort
            THEN CHOOSE i \in 1 .. Len(Ladder) : Ladder[i] = s.sort ELSE 0
IsNamed(s) == Level(s) > 0
Below(s, o) == Level(s) \in 1 .. Level(o)

\* contains, and for the points that are no numbers the meaning of the classes.
RECURSIVE Has(_, _)
Has(s, p) ==
    LET number == p \in Numbers
        lo == s.ends[1]
        hi == s.ends[2]
    IN CASE s.sort = "empty" -> FALSE
         [] s.sort = "universal" -> TRUE
         [] s.sort = "complexes" -> p # Other
         [] s.sort = "reals" -> number
         [] s.sort = "rationals" -> number /\ p % 2 = 0
         [] s.sort = "integers" -> number /\ p % 4 = 0
         [] s.sort = "naturals" -> number /\ p % 4 = 0 /\ p > 0
         [] s.sort = "naturals0" -> number /\ p % 4 = 0 /\ p >= 0
         [] s.sort = "finite" -> p \in s.points
         [] s.sort = "interval" -> /\ number
                                   /\ IF p = lo THEN ~s.ends[3]
                                      ELSE IF p = hi THEN ~s.ends[4]
                                      ELSE p \in lo .. hi
         [] s.sort = "union" -> \E i \in DOMAIN s.parts : Has(s.parts[i], p)
         [] s.sort = "complement" -> Has(s.parts[1], p) /\ ~Has(s.parts[2], p)

MembersOf(s) == {p \in Points : Has(s, p)}

\* A set of sets is ordered by hashes: that of a named set is the small number
\* of its class, those of the others are scattered; CHOOSE settles their order.
ClassOrder == <<"empty", "complexes", "reals", "rationals", "integers",
                "naturals", "naturals0", "universal">>
Rank(s) == IF \E i \in 1 .. Len(ClassOrder) : ClassOrder[i] = s.sort
           THEN CHOOSE i \in 1 .. Len(ClassOrder) : ClassOrder[i] = s.sort ELSE 9
First(S) == CHOOSE s \in S : \A t \in S : Rank(s) <= Rank(t)

RECURSIVE Ordered(_)
Ordered(S) == IF S = {} THEN <<>> ELSE <<First(S)>> \o Ordered(S \ {First(S)})

PartsOf(s) == {s.parts[i] : i \in DOMAIN s.parts}

\* make_set_union.
UnionNode(S) == IF Endless \in S THEN Endless
                ELSE IF Cardinality(S) > 1 THEN Node("union", {}, <<>>, Ordered(S))
                ELSE First(S)

\* A set of numbers is ordered by hashes too: the naturals, then the fractions
\* from the largest down, then the negative integers.
HashRank(p) == IF p % 4 # 0 THEN 1000 - p ELSE IF p >= 0 THEN p ELSE 2000 + p
FirstPoint(P) == CHOOSE p \in P : \A q \in P : HashRank(p) <= HashRank(q)

RECURSIVE InHashOrder(_)
InHashOrder(P) == IF P = {} THEN <<>>
                  ELSE <<FirstPoint(P)>> \o InHashOrder(P \ {FirstPoint(P)})

Lesser(a, b) == IF a < b THEN a ELSE b
Greater(a, b) == IF a < b THEN b ELSE a
Filter(s, o) == Finite({p \in s.points : Has(o, p)})

-----------------------------------------------------------------------------
\* The rules for two sets of one class.

\* A slip: intervals that touch are merged, whatever their ends.
IntervalUnionTouching(a, o) ==
    LET lo == Lesser(a.ends[1], o.ends[1])
        hi == Greater(a.ends[2], o.ends[2])
    IN IF Lesser(a.ends[2], o.ends[2]) < Greater(a.ends[1], o.ends[1])
       THEN UnionNode({a, o})
       ELSE Interval(lo, hi,
                     \A s \in {a, o} : s.ends[1] = lo => s.ends[3],
                     \A s \in {a, o} : s.ends[2] = hi => s.ends[4])

\* Interval::set_union of two intervals.
IntervalUnion(a, o) ==
    LET late == Greater(a.ends[1], o.ends[1])
        early == Lesser(a.ends[2], o.ends[2])
        lo == Lesser(a.ends[1], o.ends[1])
        hi == Greater(a.ends[2], o.ends[2])
        apart == \/ early < late
                 \/ /\ early = late
                    /\ \/ early = a.ends[2] /\ a.ends[4]
                       \/ early = o.ends[2] /\ o.ends[4]
    IN IF apart THEN UnionNode({a, o})
       ELSE Interval(lo, hi,
                     \A s \in {a, o} : s.ends[1] = lo => s.ends[3],
                     \A s \in {a, o} : s.ends[2] = hi => s.ends[4])

\* Interval::set_intersection of two intervals.
IntervalIntersection(a, o) ==
    LET lo == Greater(a.ends[1], o.ends[1])
        hi == Lesser(a.ends[2], o.ends[2])
    IN IF a.ends[1] <= o.ends[2] /\ o.ends[1] <= a.ends[2]
       THEN Interval(lo, hi,
                     \E s \in {a, o} : s.ends[1] = lo /\ s.ends[3],
                     \E s \in {a, o} : s.ends[2] = hi /\ s.ends[4])
       ELSE Empty

\* The integers of an interval, and the naturals of them.
IntervalIntegers(a, o) ==
    LET first == CHOOSE n \in a.ends[1] .. a.ends[1] + 3 : n % 4 = 0
        last == CHOOSE n \in a.ends[2] - 3 .. a.ends[2] : n % 4 = 0
        start == CASE o.sort = "naturals" /\ first <= 0 -> 4
                   [] o.sort = "naturals0" /\ first < 0 -> 0
                   [] OTHER -> first
        lo == IF start = a.ends[1] /\ a.ends[3] THEN start + 4 ELSE start
        hi == IF last = a.ends[2] /\ a.ends[4] THEN last - 4 ELSE last
    IN Finite({n \in lo .. hi : n % 4 = 0})

\* FiniteSet::set_union with an interval: a point can close an open end.
FiniteWithInterval(a, o) ==
    LET left == o.ends[3] /\ o.ends[1] \notin a.points
        right == o.ends[4] /\ o.ends[2] \notin a.points
        outside == a.points \ (o.ends[1] .. o.ends[2])
        closed == Interval(o.ends[1], o.ends[2], left, right)
    IN UnionNode({closed} \union (IF outside = {} THEN {} ELSE {Finite(outside)}))

\* FiniteSet::set_complement in an interval: the pieces between the points,
\* which are met in the order of the set.
PiecesWithout(a, o) ==
    LET points == InHashOrder(a.points)
        lo == o.ends[1]
        hi == o.ends[2]
        Start == [last |-> lo, lopen |-> o.ends[3], ropen |-> o.ends[4],
                  pieces |-> {}, over |-> FALSE]
        Step[i \in 0 .. Len(points)] ==
          IF i = 0 THEN Start
          ELSE LET w == Step[i - 1]
                   p == points[i]
               IN CASE w.over -> w
                    [] ~w.over /\ p <= lo -> [w EXCEPT !.lopen = @ \/ p = lo]
                    [] ~w.over /\ p > lo /\ p >= hi ->
                         [w EXCEPT !.ropen = @ \/ p = hi, !.over = TRUE]
                    [] OTHER -> [w EXCEPT !.pieces = @ \union {Interval(w.last, p, w.lopen, TRUE)},
                                          !.last = p, !.lopen = TRUE]
        end == Step[Len(points)]
        tail == IF end.last <= hi
                THEN {Interval(end.last, hi, end.lopen, end.ropen)} ELSE {}
    IN UnionNode(end.pieces \union tail)

-----------------------------------------------------------------------------
\* The rules of each class, which call one another; k calls are left.

RECURSIVE Unite(_, _, _), UniteBroad(_, _, _), UniteWhole(_, _, _), UniteFinite(_, _, _),
          UniteInterval(_, _, _), UniteComplement(_, _, _), UniteAll(_, _), UniteNext(_, _, _),
          Absorb(_, _, _, _),
          Meet(_, _, _), MeetBroad(_, _, _), MeetWhole(_, _, _), MeetFinite(_, _, _),
          MeetInterval(_, _, _), MeetAll(_, _), MeetNext(_, _, _),
          Less(_, _, _), LessNamed(_, _, _), LessFinite(_, _, _), LessInterval(_, _, _),
          LessIn(_, _, _)

Broad == {"complexes", "reals", "rationals"}
Whole == {"integers", "naturals", "naturals0"}

\* a->set_union(o).
Unite(a, o, k) ==
    CASE k = 0 \/ Endless \in {a, o} -> Endless
      [] k > 0 /\ Endless \notin {a, o} ->
           CASE a.sort = "empty" -> o
             [] a.sort = "universal" -> Universal
             [] a.sort \in Broad -> UniteBroad(a, o, k - 1)
             [] a.sort \in Whole -> UniteWhole(a, o, k - 1)
             [] a.sort = "finite" -> UniteFinite(a, o, k - 1)
             [] a.sort = "interval" -> UniteInterval(a, o, k - 1)
             [] a.sort = "union" -> Absorb(PartsOf(a), o, a.parts, k - 1)
             [] a.sort = "complement" -> UniteComplement(a, o, k - 1)

UniteBroad(a, o, k) ==
    CASE o.sort = "empty" \/ Below(o, a)
           \/ (o.sort = "interval" /\ a.sort # "rationals") -> a
      [] o.sort = "finite" \/ Level(o) > Level(a) -> Unite(o, a, k)
      [] OTHER -> UniteAll({o, a}, k)

UniteWhole(a, o, k) ==
    CASE o.sort = "empty" \/ Below(o, a) -> a
      [] Level(o) > Level(a) \/ o.sort = "universal" -> o
      [] o.sort = "finite" -> Unite(o, a, k)
      [] OTHER -> UnionNode({a, o})

UniteFinite(a, o, k) ==
    CASE o.sort = "finite" -> Finite(a.points \union o.points)
      [] o.sort = "interval" -> FiniteWithInterval(a, o)
      [] o.sort \in Broad -> o
      [] o.sort \in Whole ->
           LET outside == {p \in a.points : ~Has(o, p)}
           IN IF outside = {} THEN o ELSE UnionNode({o, Finite(outside)})
      [] o.sort \in {"universal", "empty", "union"} -> Unite(o, a, k)
      [] OTHER -> UnionNode({a, o})

UniteInterval(a, o, k) ==
    CASE o.sort = "interval" -> IntervalUnion(a, o)
      [] o.sort \in {"universal", "empty", "finite", "union"} \/ IsNamed(o) -> Unite(o, a, k)
      [] OTHER -> UnionNode({a, o})

\* Complement::set_union.
UniteComplement(a, o, k) ==
    LET outside == Less(o, a.parts[1], k)
    IN Less(MeetAll({a.parts[2], outside}, k), a.parts[1], k)

\* Union::set_union: the first part that combines with o is replaced.
Absorb(S, o, rest, k) ==
    IF rest = <<>> THEN UnionNode(S \union {o})
    ELSE LET both == Unite(o, Head(rest), k)
         IN CASE both = Endless -> Endless
              [] both # Endless /\ both # UnionNode({o, Head(rest)}) ->
                   UniteAll((S \ {Head(rest)}) \union {both}, k)
              [] OTHER -> Absorb(S, o, Tail(rest), k)

\* set_union.
UniteAll(S, k) ==
    LET points == UNION {s.points : s \in {t \in S : t.sort = "finite"}}
        input == {s \in S : s.sort \notin {"finite", "empty"}}
    IN CASE k = 0 \/ Endless \in S -> Endless
         [] k > 0 /\ Endless \notin S /\ Universal \in S -> Universal
         [] k > 0 /\ Endless \notin S /\ Universal \notin S /\ input = {} -> Finite(points)
         [] /\ k > 0 /\ Endless \notin S /\ Universal \notin S
            /\ points = {} /\ Cardinality(input) = 1 -> First(input)
         [] OTHER -> UniteNext(Finite(points), Ordered(input), k - 1)

UniteNext(s, rest, k) == IF rest = <<>> THEN s
                         ELSE UniteNext(Unite(s, Head(rest), k), Tail(rest), k)

\* a->set_intersection(o).
Meet(a, o, k) ==
    CASE k = 0 \/ Endless \in {a, o} -> Endless
      [] k > 0 /\ Endless \notin {a, o} ->
           CASE a.sort = "empty" -> Empty
             [] a.sort = "universal" -> o
             [] a.sort \in Broad -> MeetBroad(a, o, k - 1)
             [] a.sort \in Whole -> MeetWhole(a, o, k - 1)
             [] a.sort = "finite" -> MeetFinite(a, o, k - 1)
             [] a.sort = "interval" -> MeetInterval(a, o, k - 1)
             [] a.sort = "union" -> UniteAll({Meet(p, o, k - 1) : p \in PartsOf(a)}, k - 1)
             [] a.sort = "complement" -> MeetAll({a, o}, k - 1)

MeetBroad(a, o, k) ==
    CASE o.sort = "empty" \/ Below(o, a)
           \/ (o.sort = "interval" /\ a.sort # "rationals") -> o
      [] o.sort = "finite" \/ Level(o) > Level(a) -> Meet(o, a, k)
      [] OTHER -> MeetAll({a, o}, k)

MeetWhole(a, o, k) ==
    CASE o.sort = "empty" \/ Below(o, a) -> o
      [] Level(o) > Level(a) -> a
      [] o.sort \in {"finite", "interval"} -> Meet(o, a, k)
      [] OTHER -> MeetAll({a, o}, k)

MeetFinite(a, o, k) ==
    CASE o.sort = "finite" -> MeetAll({a, o}, k)
      [] o.sort = "interval" \/ IsNamed(o) -> Filter(a, o)
      [] o.sort \in {"universal", "empty", "union"} -> Meet(o, a, k)

MeetInterval(a, o, k) ==
    CASE o.sort = "interval" -> IntervalIntersection(a, o)
      [] o.sort \in Whole -> IntervalIntegers(a, o)
      [] OTHER -> Meet(o, a, k)

\* set_intersection.
MeetAll(S, k) ==
    LET sets == S \ {Universal}
        finite == {s \in sets : s.sort = "finite"}
        unions == {s \in sets : s.sort = "union"}
        complements == {s \in sets : s.sort = "complement"}
        u == First(unions)
        c == First(complements)
    IN IF k = 0 \/ Endless \in S THEN Endless
       ELSE IF Empty \in S THEN Empty
       ELSE IF sets = {} THEN Universal
       ELSE IF Cardinality(sets) = 1 THEN First(sets)
       ELSE IF finite # {}
         THEN Finite({p \in First(finite).points : \A s \in sets : Has(s, p)})
       ELSE IF unions # {}
         THEN LET other == MeetAll(sets \ {u}, k - 1)
              IN UniteAll({MeetAll({p, other}, k - 1) : p \in PartsOf(u)}, k - 1)
       ELSE IF complements # {}
         THEN LET other == MeetAll((sets \ {c}) \union {c.parts[1]}, k - 1)
              IN Less(c.parts[2], other, k - 1)
       ELSE MeetNext(First(sets), Tail(Ordered(sets)), k - 1)

MeetNext(s, rest, k) == IF rest = <<>> THEN s
                        ELSE MeetNext(Meet(s, Head(rest), k), Tail(rest), k)

\* a->set_complement(o), which is o without a.
Less(a, o, k) ==
    CASE k = 0 \/ Endless \in {a, o} -> Endless
      [] k > 0 /\ Endless \notin {a, o} ->
           CASE a.sort = "empty" -> o
             [] a.sort = "universal" -> Empty
             [] IsNamed(a) -> LessNamed(a, o, k - 1)
             [] a.sort = "finite" -> LessFinite(a, o, k - 1)
             [] a.sort = "interval" -> LessInterval(a, o, k - 1)
             [] a.sort = "union" -> MeetAll({Less(p, o, k - 1) : p \in PartsOf(a)}, k - 1)
             [] a.sort = "complement" ->
                  Less(a.parts[2], UniteAll({o, a.parts[1]}, k - 1), k - 1)

LessNamed(a, o, k) ==
    CASE o.sort = "empty" \/ Below(o, a)
           \/ (o.sort = "interval" /\ a.sort \in {"complexes", "reals"}) -> Empty
      [] \/ o.sort = "universal" \/ Level(o) > Level(a)
         \/ o.sort = "interval" /\ a.sort = "rationals" ->
           ComplementNode(o, IF a.sort = "naturals0" THEN Naturals1 ELSE a)
      [] OTHER -> LessIn(a, o, k)

LessFinite(a, o, k) ==
    CASE o.sort = "finite" -> Finite(o.points \ a.points)
      [] o.sort = "interval" -> PiecesWithout(a, o)
      [] OTHER -> LessIn(a, o, k)

LessInterval(a, o, k) ==
    LET left == Interval(o.ends[1], a.ends[1], o.ends[3], ~a.ends[3])
        right == Interval(a.ends[2], o.ends[2], ~a.ends[4], o.ends[4])
    IN IF o.sort # "interval" THEN LessIn(a, o, k)
       ELSE UniteAll((IF o.ends[1] <= a.ends[1] THEN {left} ELSE {})
                     \union (IF a.ends[2] <= o.ends[2] THEN {right} ELSE {}), k)

\* A slip: what has no rule is handed back to the first set.
LessInHandsBack(a, o, k) ==
    CASE k = 0 -> Endless
      [] k > 0 /\ o.sort = "union" -> UniteAll({Less(a, p, k - 1) : p \in PartsOf(o)}, k - 1)
      [] k > 0 /\ o.sort = "empty" -> Empty
      [] k > 0 /\ o.sort = "finite" -> Finite({p \in o.points : ~Has(a, p)})
      [] OTHER -> Less(a, o, k - 1)

\* set_complement_helper.
LessIn(a, o, k) ==
    CASE k = 0 -> Endless
      [] k > 0 /\ o.sort = "union" -> UniteAll({Less(a, p, k - 1) : p \in PartsOf(o)}, k - 1)
      [] k > 0 /\ o.sort = "empty" -> Empty
      [] k > 0 /\ o.sort = "finite" -> Finite({p \in o.points : ~Has(a, p)})
      [] OTHER -> ComplementNode(o, a)

-----------------------------------------------------------------------------
\* A computation.

RECURSIVE HasComplement(_)
HasComplement(s) == \/ s.sort = "complement"
                    \/ s.sort = "union" /\ \E i \in DOMAIN s.parts : HasComplement(s.parts[i])

\* The differences o without a that come out right.  The others: intervals that
\* lie apart; points that hashes put out of order; Naturals0 in a larger set; and
\* unions that get a complement for a part, whose rule for unions is for sets
\* within its universe.
RECURSIVE ComesOutRight(_, _)
ComesOutRight(a, o) ==
    /\ a.sort = "union" => \A p \in PartsOf(a) : ComesOutRight(p, o)
    /\ o.sort = "union" => \A p \in PartsOf(o) :
         ComesOutRight(a, p) /\ ~HasComplement(Less(a, p, Stack))
    /\ a.sort = "interval" /\ o.sort = "interval" =>
         a.ends[1] < o.ends[2] /\ o.ends[1] < a.ends[2]
    /\ a.sort = "finite" /\ o.sort = "interval" =>
         LET points == InHashOrder(a.points)
         IN \A i \in 1 .. Len(points) - 1 : points[i] < points[i + 1]
    /\ a.sort = "naturals0" => o.sort # "universal" /\ Level(o) <= Level(a)

Init == /\ set \in Operands
        /\ members = MembersOf(set)
        /\ depth = 0

Becomes(next, plain) == /\ set # Endless
                        /\ depth < Depth
                        /\ depth' = depth + 1
                        /\ set' = next
                        /\ members' = plain

CallUnion(o) == /\ ~HasComplement(set)
                /\ Becomes(UniteAll({set, o}, Stack), members \union MembersOf(o))

CallUnionOf(o) == /\ ~HasComplement(set)
                  /\ Becomes(Unite(o, set, Stack), members \union MembersOf(o))

CallIntersection(o) == /\ ~HasComplement(set)
                       /\ Becomes(MeetAll({set, o}, Stack), members \intersect MembersOf(o))

CallComplement(o) == /\ ~HasComplement(set)
                     /\ ComesOutRight(set, o)
                     /\ Becomes(Less(set, o, Stack), MembersOf(o) \ members)

CallWithout(o) == /\ ~HasComplement(set)
                  /\ ComesOutRight(o, set)
                  /\ Becomes(Less(o, set, Stack), members \ MembersOf(o))

Next == \E o \in Operands : \/ CallUnion(o) \/ CallUnionOf(o) \/ CallIntersection(o)
                            \/ CallComplement(o) \/ CallWithout(o)

Spec == Init /\ [][Next]_vars

-----------------------------------------------------------------------------

\* However unions, intersections and complements are chained, and whichever
\* class answers, the set that comes out holds exactly the points that plain set
\* operations give: nothing is lost or added at the ends of intervals that
\* touch, when a point closes an open end, when parts of a union combine, or when
\* one class hands the case over to another (sets.cpp).
AlgebraExact == set # Endless => MembersOf(set) = members

\* The pairs that are handed round for ever: a large named set asks set_union
\* or set_intersection, which asks the set again.
CircularSorts(s, t) == \/ s \in {"complexes", "reals", "rationals"} /\ t = "union"
                       \/ s = "rationals" /\ t = "interval"
SortsOf(s) == {s.sort} \union {p.sort : p \in PartsOf(s)}
Circular(a, o) == \E s \in SortsOf(a) \union SortsOf(o), t \in SortsOf(a) \union SortsOf(o) :
                      CircularSorts(s, t)

\* Every other pair gets an answer from each of the operations: the classes
\* that hand a case over are never handed it back (sets.cpp).  A difference with
\* a union makes a union of complements, whose rule asks for ever too.
AnswersUnlessCircular ==
    \A o \in Operands :
        set # Endless /\ ~HasComplement(set) /\ ~Circular(set, o) =>
            /\ Endless \notin {UniteAll({set, o}, Stack), Unite(set, o, Stack),
                               Unite(o, set, Stack), MeetAll({set, o}, Stack),
                               Meet(set, o, Stack), Meet(o, set, Stack)}
            /\ set.sort # "union" => Endless \notin {Less(set, o, Stack), Less(o, set, Stack)}
=============================================================================
