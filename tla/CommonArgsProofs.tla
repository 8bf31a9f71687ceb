------------------------- MODULE CommonArgsProofs -------------------------
(***************************************************************************)
(* Theorems about module CommonArgs, for every number of expressions and   *)
(* of arguments: the two indexes agree (IndexesAlwaysAgree), and, when no  *)
(* expression is an argument of another one, nothing that could be shared  *)
(* is left (NothingSharedIsLeft), no replacement leads back to itself      *)
(* (ReplacementsEnd), the expressions stay what they are (SumsAlwaysKept)  *)
(* and every rewriting saves operations (RewritingSaves).                  *)
(*                                                                         *)
(* The invariants build on each other.  IndexInv is about the indexes and  *)
(* the order of the candidates.  LeftInv says that arguments which have a  *)
(* name are in no expression any more, so that a new name has a number     *)
(* that no expression has yet, and that whatever i still shares is waiting *)
(* to be compared.  Founded gives every value a bound on the expressions   *)
(* in it: the names in an expression lead to earlier ones only.  MadeInv   *)
(* says that a value is made of values with smaller numbers, so that what  *)
(* is in it is well defined and stays when new ones come.                  *)
(***************************************************************************)
EXTENDS CommonArgs, SequenceLemmas, FiniteSetTheorems

-----------------------------------------------------------------------------
(* The sequences that the code makes.                                      *)

(* What goes from k - 1 to k in Numbered.                                  *)
Meets(v, known) == IF Contains(known, v) THEN known ELSE Append(known, v)

(* The recursion in Numbered.                                              *)
LEMMA NumberedSteps ==
  ASSUME NEW V, NEW args, FlattenSeq(args) \in Seq(V)
  PROVE  \E known : /\ known[0] = <<>>
                    /\ \A k \in 1..Len(FlattenSeq(args)) :
                         known[k] = Meets(FlattenSeq(args)[k], known[k - 1])
                    /\ Numbered(args) = known[Len(FlattenSeq(args))]
<1> DEFINE all == FlattenSeq(args)
           last == Len(all)
           W == Seq(V)
           step == [k \in 1..last |-> [s \in W |-> Meets(all[k], s)]]
           Body(g, k) == IF k = 0 THEN <<>>
                         ELSE IF Contains(g[k - 1], all[k]) THEN g[k - 1]
                              ELSE Append(g[k - 1], all[k])
           g == CHOOSE g : g = [k \in 0..last |-> Body(g, k)]
<1>1. <<>> \in W /\ last \in Nat
  <2> HIDE DEF all
  <2>1. all \in Seq(V) BY DEF all
  <2> QED BY <2>1, LenProperties
<1>2. step \in [1..last -> [W -> W]]
  <2>1. ASSUME NEW k \in 1..last, NEW s \in W PROVE Meets(all[k], s) \in W
    <3> HIDE DEF all
    <3>1. all[k] \in V BY ElementOfSeq DEF all
    <3> QED BY <3>1, AppendProperties DEF Meets
  <2> HIDE DEF W, all, last
  <2> QED BY <2>1
<1>3. PICK x : Iterates(last, W, <<>>, step, x)
  <2> HIDE DEF W, step, last
  <2> QED BY <1>1, <1>2, Iteration
<1>4. x = [k \in 0..last |-> Body(x, k)]
  <2>1. x \in [0..last -> W] /\ x[0] = <<>> BY <1>3 DEF Iterates
  <2>2. ASSUME NEW k \in 1..last PROVE x[k] = Body(x, k)
    <3>1. x[k] = step[k][x[k - 1]] BY <1>3 DEF Iterates
    <3>2. x[k - 1] \in W
      <4>1. k - 1 \in 0..last BY <1>1
      <4> HIDE DEF W, last
      <4> QED BY <2>1, <4>1
    <3>3. step[k][x[k - 1]] = Meets(all[k], x[k - 1])
      <4> HIDE DEF W, all, last
      <4> QED BY <3>2
    <3>4. k # 0 OBVIOUS
    <3> HIDE DEF step, W, all, last
    <3> QED BY <3>1, <3>3, <3>4 DEF Meets
  <2>3. ASSUME NEW k \in 0..last PROVE x[k] = Body(x, k)
    <3>1. CASE k = 0 BY <2>1, <3>1
    <3>2. CASE k # 0
      <4>1. k \in 1..last BY <1>1, <3>2
      <4> HIDE DEF Body
      <4> QED BY <2>2, <4>1
    <3> QED BY <3>1, <3>2
  <2> HIDE DEF W, Body, last
  <2> QED BY <2>1, <2>3
<1>5. g = [k \in 0..last |-> Body(g, k)]
  <2> HIDE DEF Body, last
  <2> QED BY <1>4, Zenon
<1>6. Numbered(args) = g[last] BY DEF Numbered
<1>8. ASSUME NEW k \in 0..last PROVE g[k] = Body(g, k)
  <2> HIDE DEF Body, g, last
  <2> QED BY <1>5
<1>9. g[0] = <<>>
  <2>1. 0 \in 0..last BY <1>1
  <2>2. g[0] = Body(g, 0)
    <3> HIDE DEF g, Body, last
    <3> QED BY <1>8, <2>1
  <2> HIDE DEF g, last
  <2> QED BY <2>2
<1>10. ASSUME NEW k \in 1..last PROVE g[k] = Meets(all[k], g[k - 1])
  <2>1. k \in 0..last /\ k # 0 BY <1>1
  <2>2. g[k] = Body(g, k)
    <3> HIDE DEF g, Body, last
    <3> QED BY <1>8, <2>1
  <2> HIDE DEF g, all
  <2> QED BY <2>1, <2>2 DEF Meets
<1> HIDE DEF g
<1> QED BY <1>6, <1>9, <1>10

(* Every value that comes gets a number, and nothing else.                 *)
LEMMA NumberedLists ==
  ASSUME NEW V, NEW args, FlattenSeq(args) \in Seq(V)
  PROVE  Enumerates(Numbered(args), ToSet(FlattenSeq(args)))
<1> DEFINE all == FlattenSeq(args)
           last == Len(all)
           Upto(k) == {all[q] : q \in 1..k}
<1>1. last \in Nat /\ DOMAIN all = 1..last
  <2> HIDE DEF all
  <2>1. all \in Seq(V) BY DEF all
  <2> QED BY <2>1, LenProperties
<1>2. PICK known : /\ known[0] = <<>>
                   /\ \A k \in 1..last : known[k] = Meets(all[k], known[k - 1])
                   /\ Numbered(args) = known[last]
  BY NumberedSteps
<1> HIDE DEF all, last
<1> DEFINE T == {k \in Nat : k <= last => Enumerates(known[k], Upto(k))}
<1>3. 0 \in T
  <2>1. Upto(0) = {} OBVIOUS
  <2>2. Enumerates(<<>>, {}) BY DEF Enumerates
  <2> HIDE DEF Upto
  <2> QED BY <1>2, <2>1, <2>2
<1>4. ASSUME NEW k \in Nat, k \in T PROVE k + 1 \in T
  <2> SUFFICES ASSUME k + 1 <= last PROVE Enumerates(known[k + 1], Upto(k + 1))
    OBVIOUS
  <2>1. k + 1 \in 1..last /\ (k + 1) - 1 = k /\ k <= last BY <1>1
  <2>2. known[k + 1] = Meets(all[k + 1], known[k]) BY <1>2, <2>1
  <2>3. Enumerates(known[k], Upto(k)) BY <1>4, <2>1
  <2>4. Upto(k + 1) = Upto(k) \cup {all[k + 1]}
    <3>1. 1..(k + 1) = (1..k) \cup {k + 1} OBVIOUS
    <3> QED BY <3>1
  <2>6. Contains(known[k], all[k + 1]) <=> all[k + 1] \in Upto(k)
    <3> HIDE DEF Upto
    <3> QED BY <2>3, EnumeratesContain
  <2>7. CASE all[k + 1] \in Upto(k)
    <3>1. Upto(k + 1) = Upto(k)
      <4> HIDE DEF Upto
      <4> QED BY <2>4, <2>7
    <3> HIDE DEF Upto
    <3> QED BY <2>2, <2>3, <2>6, <2>7, <3>1 DEF Meets
  <2>8. CASE all[k + 1] \notin Upto(k)
    <3> HIDE DEF Upto
    <3> QED BY <2>2, <2>3, <2>4, <2>6, <2>8, EnumeratesAppend DEF Meets
  <2> QED BY <2>7, <2>8
<1>5. last \in T
  <2> HIDE DEF T
  <2> QED BY <1>1, <1>3, <1>4, NatSetInduction
<1>6. Upto(last) = ToSet(all) BY <1>1 DEF ToSet
<1> HIDE DEF Upto
<1> QED BY <1>1, <1>2, <1>5, <1>6 DEF all

-----------------------------------------------------------------------------
(* The invariants.                                                         *)

TypeOK ==
  /\ values \in Seq(Value)
  /\ arg_to_funcset \in [DOMAIN values -> SUBSET Funcs]
  /\ func_to_argset \in [Funcs -> SUBSET DOMAIN values]
  /\ i \in 1..(N + 1)
  /\ matching \in BOOLEAN
  /\ queue \in Seq(Funcs)

(* The candidates come after i, and there are some only while i is         *)
(* compared.                                                               *)
Ahead ==
  /\ \A k \in 1..Len(queue) : queue[k] > i
  /\ matching => i \in Funcs
  /\ ~matching => queue = <<>>

IndexInv == TypeOK /\ Ahead /\ IndexesAgree

(* The arguments are values, and atoms when no expression is one.          *)
LEMMA ArgumentsType ==
  /\ Arguments \in Seq(Value)
  /\ ~Nested => \A v \in ToSet(Arguments) : v.kind = "atom"
<1> USE CommonArgsAssumption
<1> DEFINE s == [n \in 1..A |-> Atom(n)]
           t == [f \in Funcs |-> Func(f)]
<1>1. s \in Seq(Value) /\ \A k \in 1..Len(s) : s[k].kind = "atom"
  <2>1. s \in [1..A -> Value]
    <3>1. \A n \in 1..A : Atom(n) \in Value BY EmptySeq DEF Atom, Value
    <3> QED BY <3>1
  <2>2. s \in Seq(Value) BY <2>1
  <2>3. DOMAIN s = 1..Len(s)
    <3> HIDE DEF s
    <3> QED BY <2>2, LenProperties
  <2>4. \A k \in 1..A : s[k].kind = "atom" BY DEF Atom
  <2> QED BY <2>2, <2>3, <2>4
<1>2. t \in Seq(Value)
  <2>1. \A f \in Funcs : Func(f) \in Value BY EmptySeq DEF Func, Value, Funcs
  <2>2. t \in [1..N -> Value] BY <2>1 DEF Funcs
  <2> QED BY <2>2
<1>3. Arguments = IF Nested THEN s \o t ELSE s \o <<>>
  BY DEF Arguments
<1>4. s \o t \in Seq(Value) /\ s \o <<>> = s
  <2> HIDE DEF s, t
  <2> QED BY <1>1, <1>2, ConcatProperties, ConcatEmptySeq
<1>5. DOMAIN s = 1..Len(s)
  <2> HIDE DEF s
  <2> QED BY <1>1, LenProperties
<1>6. \A v \in ToSet(s) : v.kind = "atom"
  <2> HIDE DEF s
  <2> QED BY <1>1, <1>5 DEF ToSet
<1> HIDE DEF s, t
<1> QED BY <1>1, <1>3, <1>4, <1>6

(* get_args lists arguments.                                               *)
LEMMA ListedType ==
  ASSUME NEW S
  PROVE  Listed(S) \in Seq(ToSet(Arguments))
<1> DEFINE V == ToSet(Arguments)
           P == {k \in DOMAIN Arguments : Arguments[k] \in S}
<1>1. Len(Arguments) \in Nat /\ DOMAIN Arguments = 1..Len(Arguments)
  BY ArgumentsType, LenProperties
<1>2. Arguments \in Seq(V)
  <2>1. \A k \in 1..Len(Arguments) : Arguments[k] \in V BY <1>1 DEF ToSet
  <2>2. Arguments \in [1..Len(Arguments) -> V]
    <3> HIDE DEF V
    <3> QED BY <1>1, <2>1, ArgumentsType, SeqFunction
  <2> HIDE DEF V
  <2> QED BY <1>1, <2>2, FunctionSeq
<1>3. Selected(Arguments, P) \in Seq(V)
  <2> HIDE DEF V, P
  <2> QED BY <1>2, SelectedElements
<1> QED BY <1>3 DEF Listed

(* At the start the values are the arguments of the expressions.           *)
LEMMA InitValues ==
  ASSUME Init
  PROVE  /\ Enumerates(values, ToSet(FlattenSeq(given)))
         /\ ToSet(FlattenSeq(given)) \subseteq ToSet(Arguments)
         /\ \A f \in Funcs : ToSet(given[f]) \subseteq ToSet(FlattenSeq(given))
<1> DEFINE V == ToSet(Arguments)
<1>1. given \in [1..N -> Seq(V)]
  <2>1. PICK g : given = [f \in Funcs |-> Listed(g[f])] BY DEF Init
  <2> HIDE DEF V
  <2> QED BY <2>1, ListedType DEF Funcs, V
<1>2. FlattenSeq(given) \in Seq(V) /\ ToSet(FlattenSeq(given)) = UNION {ToSet(given[k]) : k \in 1..N}
  <2> HIDE DEF V
  <2> QED BY <1>1, CommonArgsAssumption, FlattenElements
<1>3. Enumerates(values, ToSet(FlattenSeq(given)))
  <2> HIDE DEF V
  <2> QED BY <1>2, NumberedLists DEF Init
<1>4. ToSet(FlattenSeq(given)) \subseteq V
  <2>1. \A k \in 1..Len(FlattenSeq(given)) : FlattenSeq(given)[k] \in V
    <3> HIDE DEF V
    <3> QED BY <1>2, ElementOfSeq
  <2>2. DOMAIN FlattenSeq(given) = 1..Len(FlattenSeq(given))
    <3> HIDE DEF V
    <3> QED BY <1>2, LenProperties
  <2> HIDE DEF V
  <2> QED BY <2>1, <2>2 DEF ToSet
<1> QED BY <1>2, <1>3, <1>4 DEF Funcs

(* A value that is listed has a number.                                    *)
LEMMA NumberIn ==
  ASSUME NEW S, NEW s, Enumerates(s, S), NEW v \in S
  PROVE  Number(v, s) \in DOMAIN s /\ s[Number(v, s)] = v
<1>1. DOMAIN s = 1..Len(s) BY LenProperties DEF Enumerates
<1>2. \E k \in DOMAIN s : s[k] = v BY <1>1 DEF Enumerates
<1> QED BY <1>2 DEF Number

(* The constructor of FuncArgTracker makes indexes that agree.             *)
LEMMA InitIndex == Init => IndexInv
<1> SUFFICES ASSUME Init PROVE IndexInv
  OBVIOUS
<1>1. values \in Seq(Value)
  <2> DEFINE V == ToSet(FlattenSeq(given))
  <2>1. values \in Seq(V) /\ V \subseteq ToSet(Arguments)
    BY InitValues DEF Enumerates
  <2>2. ToSet(Arguments) \subseteq Value
    <3>1. Arguments \in Seq(Value) BY ArgumentsType
    <3>2. DOMAIN Arguments = 1..Len(Arguments) BY <3>1, LenProperties
    <3>3. \A k \in 1..Len(Arguments) : Arguments[k] \in Value BY <3>1, ElementOfSeq
    <3> QED BY <3>2, <3>3 DEF ToSet
  <2> HIDE DEF V
  <2> QED BY <2>1, <2>2
<1>2. func_to_argset \in [Funcs -> SUBSET DOMAIN values]
  <2>1. ASSUME NEW f \in Funcs, NEW v \in ToSet(given[f]) PROVE Number(v, values) \in DOMAIN values
    BY InitValues, NumberIn
  <2>2. \A f \in Funcs : {Number(v, values) : v \in ToSet(given[f])} \in SUBSET DOMAIN values
    BY <2>1
  <2> QED BY <2>2 DEF Init
<1>3. arg_to_funcset \in [DOMAIN values -> SUBSET Funcs]
  BY DEF Init
<1>4. i = 1 /\ queue = <<>> /\ matching = FALSE
  BY DEF Init
<1>5. IndexesAgree
  BY <1>4 DEF Init, IndexesAgree, Funcs
<1>6. i \in 1..(N + 1) /\ queue \in Seq(Funcs) /\ Len(queue) = 0
  BY <1>4, CommonArgsAssumption
<1>7. Ahead
  BY <1>4, <1>6 DEF Ahead
<1> QED BY <1>1, <1>2, <1>3, <1>4, <1>5, <1>6, <1>7 DEF IndexInv, TypeOK

-----------------------------------------------------------------------------
(* The indexes agree.                                                      *)

(* The arguments that f has of those in argset, by the other index.        *)
Shared(argset, f) == {a \in argset : f \in arg_to_funcset[a]}

(* The candidates are the expressions that share two arguments or more.    *)
LEMMA CandidatesType ==
  ASSUME TypeOK, NEW argset \in SUBSET DOMAIN values, NEW from \in 1..(N + 1)
  PROVE  /\ Candidates(argset, from) \in Seq(from..N)
         /\ ToSet(Candidates(argset, from))
              = {f \in from..N : Cardinality(Shared(argset, f)) >= 2}
<1> DEFINE n == Len(values)
           with(c) == IF c >= 2 THEN {f \in from..N : Cardinality(Shared(argset, f)) = c} ELSE {}
           lines == [c \in 1..n |-> Ascending(with(c), N)]
<1>1. N \in Nat /\ n \in Nat /\ DOMAIN values = 1..n
  BY CommonArgsAssumption, LenProperties DEF TypeOK
<1>2. Candidates(argset, from) = FlattenSeq(lines)
  BY DEF Candidates, Shared
<1>3. ASSUME NEW c \in 1..n PROVE Enumerates(lines[c], with(c))
  <2>1. with(c) \cap 1..N = with(c) BY <1>1
  <2>2. lines[c] = Ascending(with(c), N) OBVIOUS
  <2> HIDE DEF with, lines
  <2> QED BY <1>1, <2>1, <2>2, AscendingLists
<1>4. ASSUME NEW c \in 1..n PROVE lines[c] \in Seq(from..N) /\ ToSet(lines[c]) = with(c)
  <2>1. with(c) \subseteq from..N OBVIOUS
  <2>2. lines[c] \in Seq(with(c)) /\ ToSet(lines[c]) = with(c)
    <3> HIDE DEF with, lines
    <3> QED BY <1>3, EnumeratesSet
  <2>3. with(c) = with(c) \cap (from..N) BY <2>1
  <2> HIDE DEF with, lines
  <2>4. lines[c] \in Seq(with(c) \cap (from..N)) BY <2>2, <2>3
  <2> QED BY <2>2, <2>4, SeqWider
<1>5. lines \in [1..n -> Seq(from..N)]
  <2>1. DOMAIN lines = 1..n /\ lines = [c \in 1..n |-> lines[c]] OBVIOUS
  <2> HIDE DEF lines, with
  <2> QED BY <1>4, <2>1
<1>6. /\ FlattenSeq(lines) \in Seq(from..N)
      /\ ToSet(FlattenSeq(lines)) = UNION {ToSet(lines[c]) : c \in 1..n}
  <2> HIDE DEF lines, n
  <2>1. n \in Nat BY <1>1
  <2> QED BY <2>1, <1>5, FlattenElements, Zenon
<1>7. UNION {ToSet(lines[c]) : c \in 1..n} = UNION {with(c) : c \in 1..n}
  <2> HIDE DEF lines, with, n
  <2> QED BY <1>4
<1>8. ASSUME NEW f \in from..N PROVE Cardinality(Shared(argset, f)) \in 0..n
  <2>1. IsFiniteSet(1..n) /\ Cardinality(1..n) = n BY <1>1, FS_Interval, SMTT(40)
  <2>2. Shared(argset, f) \subseteq 1..n BY <1>1 DEF Shared
  <2>3. /\ IsFiniteSet(Shared(argset, f))
        /\ Cardinality(Shared(argset, f)) <= Cardinality(1..n)
    <3> HIDE DEF n
    <3> QED BY <2>1, <2>2, FS_Subset
  <2>4. Cardinality(Shared(argset, f)) \in Nat BY <2>3, FS_CardinalityType
  <2> HIDE DEF n
  <2> QED BY <1>1, <2>1, <2>3, <2>4
<1>9. UNION {with(c) : c \in 1..n} = {f \in from..N : Cardinality(Shared(argset, f)) >= 2}
  <2>1. ASSUME NEW c \in 1..n, NEW f \in with(c) PROVE f \in from..N /\ Cardinality(Shared(argset, f)) >= 2
    BY <2>1
  <2>2. ASSUME NEW f \in from..N, Cardinality(Shared(argset, f)) >= 2
        PROVE  f \in with(Cardinality(Shared(argset, f))) /\ Cardinality(Shared(argset, f)) \in 1..n
    <3> DEFINE c == Cardinality(Shared(argset, f))
    <3>1. c \in 0..n /\ c >= 2 BY <1>8, <2>2
    <3>2. c \in 1..n
      <4> HIDE DEF c, n
      <4> QED BY <1>1, <3>1
    <3> QED BY <3>1, <3>2
  <2> HIDE DEF with, n
  <2> QED BY <2>1, <2>2
<1> HIDE DEF lines, with
<1> QED BY <1>2, <1>6, <1>7, <1>9

(* Some expressions have the arguments common replaced by number.          *)
Replaced(args, funcs, common, number) ==
  [f \in Funcs |-> IF f \in funcs THEN (args[f] \ common) \cup {number} ELSE args[f]]

(* The values after one is looked up or added, and its number.             *)
Known(known, number, value) ==
  /\ known \in Seq(Value) /\ number \in DOMAIN known
  /\ DOMAIN values \subseteq DOMAIN known
  /\ \A a \in DOMAIN values : known[a] = values[a]
  /\ known[number] = value
  /\ \A a \in DOMAIN known : a \in DOMAIN values \/ a = number

(* Looking a value up, or adding it, gives its number.                     *)
LEMMA ValueAdded ==
  ASSUME TypeOK, NEW value \in Value
  PROVE  LET known == IF Contains(values, value) THEN values ELSE Append(values, value)
         IN Known(known, Number(value, known), value)
<1>1. DOMAIN values = 1..Len(values) /\ Len(values) \in Nat /\ values \in Seq(Value)
  BY LenProperties DEF TypeOK
<1>2. CASE Contains(values, value)
  <2>1. \E k \in DOMAIN values : values[k] = value BY <1>1, <1>2 DEF Contains
  <2>2. Number(value, values) \in DOMAIN values /\ values[Number(value, values)] = value
    BY <2>1 DEF Number
  <2> QED BY <1>1, <1>2, <2>1, <2>2 DEF Known
<1>3. CASE ~Contains(values, value)
  <2> DEFINE s == Append(values, value)
             n == Len(values)
  <2>1. /\ s \in Seq(Value) /\ Len(s) = n + 1
        /\ \A k \in 1..n : s[k] = values[k]
        /\ s[n + 1] = value
    BY <1>1, AppendProperties
  <2>2. DOMAIN s = 1..(n + 1)
    <3> HIDE DEF s, n
    <3> QED BY <2>1, LenProperties
  <2>3. \A k \in DOMAIN values : values[k] # value BY <1>1, <1>3 DEF Contains
  <2>4. n + 1 \in DOMAIN s /\ s[n + 1] = value /\ 1..n \subseteq 1..(n + 1)
    <3> HIDE DEF s
    <3> QED BY <1>1, <2>1, <2>2
  <2>5. Number(value, s) \in DOMAIN s /\ s[Number(value, s)] = value
    <3> HIDE DEF s
    <3> QED BY <2>4 DEF Number
  <2>6. Number(value, s) = n + 1
    <3> HIDE DEF s
    <3> QED BY <1>1, <2>1, <2>2, <2>3, <2>5
  <2>7. Known(s, Number(value, s), value)
    <3>1. \A a \in DOMAIN s : a \in DOMAIN values \/ a = n + 1
      <4> HIDE DEF s
      <4> QED BY <1>1, <2>2
    <3>2. n + 1 \notin DOMAIN values BY <1>1
    <3> HIDE DEF s, n
    <3> QED BY <1>1, <2>1, <2>2, <2>4, <2>5, <2>6, <3>1, <3>2 DEF Known, n
  <2> QED BY <1>3, <2>7
<1> QED BY <1>2, <1>3

(* Both indexes after expressions from i on are rewritten.                 *)
LEMMA RewriteIndex ==
  ASSUME IndexInv, NEW funcs \in SUBSET (i..N), NEW common, NEW value \in Value,
         Rewrite(funcs, common, value)
  PROVE  /\ \E number : /\ Known(values', number, value)
                        /\ func_to_argset' = Replaced(func_to_argset, funcs, common, number)
         /\ values' \in Seq(Value)
         /\ arg_to_funcset' \in [DOMAIN values' -> SUBSET Funcs]
         /\ func_to_argset' \in [Funcs -> SUBSET DOMAIN values']
         /\ \A a \in DOMAIN values', f \in Funcs :
              f \in arg_to_funcset'[a] <=> f >= i /\ a \in func_to_argset'[f]
<1> DEFINE known == IF Contains(values, value) THEN values ELSE Append(values, value)
           number == Number(value, known)
           index == [a \in DOMAIN known |-> IF a \in DOMAIN values THEN arg_to_funcset[a] ELSE {}]
           args == [f \in Funcs |-> IF f \in funcs
                                      THEN (func_to_argset[f] \ common) \cup {number}
                                      ELSE func_to_argset[f]]
<1>1. Known(known, number, value)
  BY ValueAdded DEF IndexInv
<1>2. values' = known BY DEF Rewrite
<1>3. func_to_argset' = args BY DEF Rewrite
<1>4. arg_to_funcset' = Reindexed(index, func_to_argset, args) BY DEF Rewrite
<1>5. args = Replaced(func_to_argset, funcs, common, number) BY DEF Replaced
<1> HIDE DEF known, number
<1>6. /\ arg_to_funcset \in [DOMAIN values -> SUBSET Funcs]
      /\ func_to_argset \in [Funcs -> SUBSET DOMAIN values]
      /\ i \in 1..(N + 1)
  BY DEF IndexInv, TypeOK
<1>7. funcs \subseteq Funcs /\ \A f \in funcs : f >= i
  BY <1>6 DEF Funcs
<1>8. args \in [Funcs -> SUBSET DOMAIN known]
  BY <1>1, <1>6 DEF Known
<1>9. index \in [DOMAIN known -> SUBSET Funcs]
  BY <1>6
<1>10. ASSUME NEW a \in DOMAIN known
       PROVE  arg_to_funcset'[a]
                = (index[a] \ {f \in Funcs : a \in func_to_argset[f] \ args[f]})
                    \cup {f \in Funcs : a \in args[f] \ func_to_argset[f]}
  <2> HIDE DEF args
  <2> QED BY <1>4, <1>9 DEF Reindexed
<1>11. arg_to_funcset' \in [DOMAIN known -> SUBSET Funcs]
  <2>1. DOMAIN index = DOMAIN known OBVIOUS
  <2>2. \A a \in DOMAIN known :
          (index[a] \ {f \in Funcs : a \in func_to_argset[f] \ args[f]})
             \cup {f \in Funcs : a \in args[f] \ func_to_argset[f]} \in SUBSET Funcs
    <3> HIDE DEF index, args
    <3> QED BY <1>9
  <2> HIDE DEF index, args
  <2> QED BY <1>4, <2>1, <2>2 DEF Reindexed
<1>12. ASSUME NEW a \in DOMAIN known, NEW f \in Funcs
       PROVE  f \in index[a] <=> f >= i /\ a \in func_to_argset[f]
  <2>1. CASE a \in DOMAIN values
    BY <2>1 DEF IndexInv, IndexesAgree
  <2>2. CASE a \notin DOMAIN values
    BY <1>6, <2>2
  <2> QED BY <2>1, <2>2
<1>13. ASSUME NEW f \in Funcs, ~(f >= i) PROVE args[f] = func_to_argset[f]
  BY <1>7, <1>13
<1>14. ASSUME NEW a \in DOMAIN known, NEW f \in Funcs
       PROVE  f \in arg_to_funcset'[a] <=> f >= i /\ a \in args[f]
  <2> HIDE DEF args, index
  <2> QED BY <1>10, <1>12, <1>13
<1> HIDE DEF args, index
<1> QED BY <1>1, <1>2, <1>3, <1>5, <1>8, <1>11, <1>14 DEF Known

(* The next candidate and the ones behind it come after i.                 *)
LEMMA QueueType ==
  ASSUME IndexInv, matching, queue # <<>>
  PROVE  /\ Head(queue) \in (i + 1)..N
         /\ Head(queue) \in ToSet(queue)
         /\ Tail(queue) \in Seq(Funcs)
         /\ \A k \in 1..Len(Tail(queue)) : Tail(queue)[k] > i
         /\ ToSet(queue) = ToSet(Tail(queue)) \cup {Head(queue)}
         /\ ToSet(Tail(queue)) \subseteq (i + 1)..N
         /\ i \in Funcs
<1>1. queue \in Seq(Funcs) /\ i \in Funcs /\ \A k \in 1..Len(queue) : queue[k] > i
  BY DEF IndexInv, TypeOK, Ahead
<1>2. Len(queue) \in Nat /\ Len(queue) >= 1 /\ DOMAIN queue = 1..Len(queue)
  BY <1>1, LenProperties, EmptySeq
<1>3. /\ Head(queue) = queue[1] /\ Tail(queue) \in Seq(Funcs)
      /\ Len(Tail(queue)) = Len(queue) - 1
      /\ \A k \in 1..Len(Tail(queue)) : Tail(queue)[k] = queue[k + 1]
  BY <1>1, HeadTailProperties
<1>4. DOMAIN Tail(queue) = 1..(Len(queue) - 1) BY <1>3, LenProperties
<1>5. 1 \in 1..Len(queue) /\ queue[1] \in Funcs /\ queue[1] > i BY <1>1, <1>2, ElementOfSeq
<1>6. queue[1] \in (i + 1)..N BY <1>1, <1>5 DEF Funcs
<1>7. Head(queue) \in ToSet(queue) BY <1>2, <1>3, <1>5 DEF ToSet
<1>8. \A k \in 1..(Len(queue) - 1) : k + 1 \in 1..Len(queue) /\ Tail(queue)[k] = queue[k + 1]
  BY <1>2, <1>3
<1>9. \A k \in 1..Len(Tail(queue)) : Tail(queue)[k] > i
  BY <1>1, <1>3, <1>8
<1>10. \A k \in 1..Len(queue) : k = 1 \/ (k - 1 \in 1..(Len(queue) - 1) /\ (k - 1) + 1 = k)
  BY <1>2
<1>11. ToSet(queue) = ToSet(Tail(queue)) \cup {Head(queue)}
  <2>1. ASSUME NEW v \in ToSet(queue) PROVE v = Head(queue) \/ v \in ToSet(Tail(queue))
    <3>1. PICK k \in 1..Len(queue) : queue[k] = v BY <1>2 DEF ToSet
    <3>2. CASE k = 1 BY <1>3, <3>1, <3>2
    <3>3. CASE k # 1
      <4>1. k - 1 \in 1..(Len(queue) - 1) /\ (k - 1) + 1 = k BY <1>10, <3>3
      <4>2. Tail(queue)[k - 1] = v BY <1>8, <3>1, <4>1
      <4> QED BY <1>4, <4>1, <4>2 DEF ToSet
    <3> QED BY <3>2, <3>3
  <2>2. ASSUME NEW v \in ToSet(Tail(queue)) PROVE v \in ToSet(queue)
    <3>1. PICK k \in 1..(Len(queue) - 1) : Tail(queue)[k] = v BY <1>4 DEF ToSet
    <3> QED BY <1>2, <1>8, <3>1 DEF ToSet
  <2> QED BY <1>7, <2>1, <2>2
<1>12. ToSet(Tail(queue)) \subseteq (i + 1)..N
  <2>1. ASSUME NEW k \in 1..Len(Tail(queue)) PROVE Tail(queue)[k] \in (i + 1)..N
    <3>1. Tail(queue)[k] \in Funcs /\ Tail(queue)[k] > i BY <1>3, <1>9, ElementOfSeq
    <3> QED BY <1>1, <3>1 DEF Funcs
  <2>2. DOMAIN Tail(queue) = 1..Len(Tail(queue)) BY <1>3, LenProperties
  <2> QED BY <2>1, <2>2 DEF ToSet
<1> QED BY <1>1, <1>3, <1>6, <1>7, <1>9, <1>11, <1>12

(* What is looked up while i is compared is a value.                       *)
LEMMA NamesType ==
  ASSUME IndexInv, matching, NEW argset \in SUBSET DOMAIN values
  PROVE  /\ Com(Sorted(argset)) \in Value /\ ToSet(Sorted(argset)) = argset
         /\ Func(i) \in Value
<1>1. values \in Seq(Value) /\ i \in Nat
  BY CommonArgsAssumption DEF IndexInv, TypeOK
<1>2. Len(values) \in Nat /\ DOMAIN values = 1..Len(values)
  BY <1>1, LenProperties
<1>3. Enumerates(Sorted(argset), argset)
  <2>1. argset \cap 1..Len(values) = argset BY <1>2
  <2> QED BY <1>2, <2>1, AscendingLists DEF Sorted
<1>4. Sorted(argset) \in Seq(argset) /\ ToSet(Sorted(argset)) = argset
  BY <1>3, EnumeratesSet
<1>5. Sorted(argset) \in Seq(Nat)
  <2>1. argset = argset \cap Nat BY <1>2
  <2>2. Sorted(argset) \in Seq(argset \cap Nat) BY <1>4, <2>1
  <2> QED BY <2>2, SeqWider
<1> QED BY <1>1, <1>4, <1>5, EmptySeq DEF Com, Func, Value

(* The expressions that a step rewrites come from i on.                    *)
LEMMA RewrittenFuncs ==
  ASSUME IndexInv, matching, queue # <<>>, NEW argset
  PROVE  {i, Head(queue)} \cup SubsetCandidates(argset, ToSet(Tail(queue))) \subseteq i..N
<1>1. Head(queue) \in (i + 1)..N /\ ToSet(Tail(queue)) \subseteq (i + 1)..N /\ i \in Funcs
  BY QueueType
<1>2. i \in i..N /\ (i + 1)..N \subseteq i..N BY <1>1 DEF Funcs
<1>3. SubsetCandidates(argset, ToSet(Tail(queue))) \subseteq ToSet(Tail(queue))
  BY DEF SubsetCandidates
<1> QED BY <1>1, <1>2, <1>3

(* Giving arguments a name keeps the indexes in agreement.                 *)
LEMMA ExtractIndex ==
  ASSUME IndexInv, matching, queue # <<>>, NEW funcs \in SUBSET (i..N), NEW common,
         NEW value \in Value, Rewrite(funcs, common, value), queue' = Tail(queue),
         UNCHANGED <<i, matching>>
  PROVE  IndexInv'
<1>1. /\ values' \in Seq(Value)
      /\ arg_to_funcset' \in [DOMAIN values' -> SUBSET Funcs]
      /\ func_to_argset' \in [Funcs -> SUBSET DOMAIN values']
      /\ \A a \in DOMAIN values', f \in Funcs :
           f \in arg_to_funcset'[a] <=> f >= i /\ a \in func_to_argset'[f]
  BY RewriteIndex
<1>2. TypeOK'
  BY <1>1, QueueType DEF IndexInv, TypeOK
<1>3. Ahead'
  BY QueueType DEF Ahead
<1>4. IndexesAgree'
  BY <1>1 DEF IndexesAgree
<1> QED BY <1>2, <1>3, <1>4 DEF IndexInv

(* What i and the candidate have in common are values.                     *)
LEMMA CommonType ==
  ASSUME IndexInv, matching, queue # <<>>
  PROVE  /\ Common(Head(queue)) \in SUBSET DOMAIN values
         /\ IsFiniteSet(Common(Head(queue)))
<1>1. Head(queue) \in Funcs /\ i \in Funcs BY QueueType DEF IndexInv, TypeOK, Funcs
<1>2. Common(Head(queue)) \in SUBSET DOMAIN values
  BY <1>1 DEF Common, IndexInv, TypeOK
<1>3. IsFiniteSet(DOMAIN values)
  <2>1. DOMAIN values = 1..Len(values) /\ Len(values) \in Nat
    BY LenProperties DEF IndexInv, TypeOK
  <2> QED BY <2>1, FS_Interval
<1> QED BY <1>2, <1>3, FS_Subset

(* Every step keeps the indexes in agreement.                              *)
LEMMA IndexStep ==
  ASSUME IndexInv, [Next]_vars
  PROVE  IndexInv'
<1>1. CASE Begin
  <2>1. i \in 1..N /\ ~matching /\ matching' /\ func_to_argset[i] \in SUBSET DOMAIN values /\ i + 1 \in 1..(N + 1)
    BY <1>1, CommonArgsAssumption DEF Begin, IndexInv, TypeOK, Funcs
  <2>2. queue' \in Seq((i + 1)..N)
    BY <1>1, <2>1, CandidatesType DEF Begin, IndexInv
  <2>3. (i + 1)..N = ((i + 1)..N) \cap Funcs BY <2>1 DEF Funcs
  <2>4. queue' \in Seq(((i + 1)..N) \cap Funcs) BY <2>2, <2>3
  <2>5. queue' \in Seq(Funcs) BY <2>4, SeqWider
  <2>6. \A k \in 1..Len(queue') : queue'[k] \in (i + 1)..N BY <2>2, ElementOfSeq
  <2>7. UNCHANGED <<values, arg_to_funcset, func_to_argset, i>> BY <1>1 DEF Begin
  <2>8. TypeOK' BY <1>1, <2>5, <2>7 DEF IndexInv, TypeOK, Begin
  <2>9. Ahead' BY <2>1, <2>6, <2>7 DEF Ahead, Funcs
  <2>10. IndexesAgree' BY <2>7 DEF IndexInv, IndexesAgree
  <2> QED BY <2>8, <2>9, <2>10 DEF IndexInv
<1>2. CASE Skip
  <2>1. matching /\ queue # <<>> /\ queue' = Tail(queue) BY <1>2 DEF Skip
  <2>2. UNCHANGED <<values, arg_to_funcset, func_to_argset, i, matching>> BY <1>2 DEF Skip
  <2>3. TypeOK' BY <2>1, <2>2, QueueType DEF IndexInv, TypeOK
  <2>4. Ahead' BY <2>1, <2>2, QueueType DEF Ahead
  <2>5. IndexesAgree' BY <2>2 DEF IndexInv, IndexesAgree
  <2> QED BY <2>3, <2>4, <2>5 DEF IndexInv
<1>3. CASE ExtractPart
  <2> DEFINE common == Common(Head(queue))
             funcs == {i, Head(queue)} \cup SubsetCandidates(common, ToSet(Tail(queue)))
             value == Com(Sorted(common))
  <2>1. /\ matching /\ queue # <<>> /\ queue' = Tail(queue) /\ UNCHANGED <<i, matching>>
        /\ Rewrite(funcs, common, value)
    BY <1>3 DEF ExtractPart
  <2>2. value \in Value BY <2>1, NamesType, CommonType
  <2>3. funcs \in SUBSET (i..N) BY <2>1, RewrittenFuncs
  <2> HIDE DEF funcs, value, common
  <2> QED BY <2>1, <2>2, <2>3, ExtractIndex
<1>4. CASE ExtractWhole
  <2> DEFINE common == Common(Head(queue))
             funcs == {Head(queue)} \cup SubsetCandidates(common, ToSet(Tail(queue)))
             value == Func(i)
  <2>1. /\ matching /\ queue # <<>> /\ queue' = Tail(queue) /\ UNCHANGED <<i, matching>>
        /\ Rewrite(funcs, common, value)
    BY <1>4 DEF ExtractWhole
  <2>2. value \in Value BY <2>1, NamesType, CommonType
  <2>3. funcs \in SUBSET (i..N) BY <2>1, RewrittenFuncs
  <2> HIDE DEF funcs, value, common
  <2> QED BY <2>1, <2>2, <2>3, ExtractIndex
<1>5. CASE Finish
  <2>1. /\ matching /\ queue = <<>> /\ i' = i + 1 /\ ~matching'
        /\ UNCHANGED <<values, func_to_argset, queue>>
        /\ arg_to_funcset' = [a \in DOMAIN arg_to_funcset |->
                                IF a \in func_to_argset[i] THEN arg_to_funcset[a] \ {i}
                                                           ELSE arg_to_funcset[a]]
        /\ matching' \in BOOLEAN
    BY <1>5 DEF Finish
  <2>2. i \in 1..N BY <2>1 DEF IndexInv, Ahead, Funcs
  <2>3. /\ arg_to_funcset \in [DOMAIN values -> SUBSET Funcs]
        /\ func_to_argset \in [Funcs -> SUBSET DOMAIN values]
    BY DEF IndexInv, TypeOK
  <2>4. arg_to_funcset' \in [DOMAIN values -> SUBSET Funcs] BY <2>1, <2>3
  <2>5. i + 1 \in 1..(N + 1) BY <2>2, CommonArgsAssumption
  <2>6. TypeOK' BY <2>1, <2>4, <2>5 DEF IndexInv, TypeOK
  <2>7. Ahead'
    <3>1. Len(queue) = 0 BY <2>1
    <3> QED BY <2>1, <3>1 DEF Ahead
  <2>8. ASSUME NEW a \in DOMAIN values, NEW f \in Funcs
        PROVE  f \in arg_to_funcset'[a] <=> f >= i + 1 /\ a \in func_to_argset[f]
    <3>1. f \in arg_to_funcset[a] <=> f >= i /\ a \in func_to_argset[f]
      BY DEF IndexInv, IndexesAgree
    <3>2. f \in arg_to_funcset'[a] <=> f \in arg_to_funcset[a] /\ ~(a \in func_to_argset[i] /\ f = i)
      BY <2>1, <2>3
    <3>3. f >= i + 1 <=> f >= i /\ f # i BY <2>2 DEF Funcs
    <3> QED BY <3>1, <3>2, <3>3
  <2>9. IndexesAgree' BY <2>1, <2>8 DEF IndexesAgree
  <2> QED BY <2>6, <2>7, <2>9 DEF IndexInv
<1>6. CASE UNCHANGED vars
  BY <1>6 DEF vars, IndexInv, TypeOK, Ahead, IndexesAgree
<1> QED BY <1>1, <1>2, <1>3, <1>4, <1>5, <1>6 DEF Next, Done

(* IndexesAgree: update_func_argset, in every order in which               *)
(* match_common_args rewrites expressions and stops to track them, keeps   *)
(* the index from arguments to expressions and the one from expressions to *)
(* arguments in agreement. It needs nothing but the types and that the     *)
(* candidates come after i.                                                *)
THEOREM IndexesAlwaysAgree == Spec => []IndexesAgree
<1>1. Init => IndexInv BY InitIndex
<1>2. IndexInv /\ [Next]_vars => IndexInv' BY IndexStep
<1>3. IndexInv => IndexesAgree BY DEF IndexInv
<1> QED BY <1>1, <1>2, <1>3, PTL DEF Spec

-----------------------------------------------------------------------------
(* Nothing that could be shared is left.                                   *)

(* No expression has all the arguments of one that stands for several: it  *)
(* has the name instead.                                                   *)
NamesUsed ==
  \A a \in DOMAIN values :
    values[a].kind = "com" =>
      /\ ToSet(values[a].args) \subseteq DOMAIN values
      /\ \A f \in Funcs : ~ (ToSet(values[a].args) \subseteq func_to_argset[f])

(* The later expressions that i still has two arguments in common with are *)
(* waiting to be compared.                                                 *)
Compared ==
  matching => \A g \in (i + 1)..N : g \in ToSet(queue) \/ Cardinality(Common(g)) <= 1

(* Once all of i has been named by i itself, no later expression has all   *)
(* of i.                                                                   *)
WholeOnce ==
  \A a \in DOMAIN values :
    values[a].kind = "func" =>
      \/ values[a].n < i
      \/ /\ values[a].n = i /\ matching
         /\ \A g \in (i + 1)..N : ~ (func_to_argset[i] \subseteq func_to_argset[g])

LeftInv == NamesUsed /\ Compared /\ WholeOnce /\ NothingLeft

(* A set with at most one element has no two different ones.               *)
LEMMA OneAtMost ==
  ASSUME NEW S, IsFiniteSet(S)
  PROVE  Cardinality(S) <= 1 <=> \A x, y \in S : x = y
<1>1. Cardinality(S) \in Nat BY FS_CardinalityType
<1>2. CASE S = {}
  <2>1. Cardinality(S) = 0 BY <1>2, FS_EmptySet
  <2> QED BY <1>2, <2>1
<1>3. CASE S # {}
  <2>1. PICK x \in S : TRUE BY <1>3
  <2>2. IsFiniteSet(S \ {x}) /\ Cardinality(S \ {x}) = Cardinality(S) - 1
    BY <2>1, FS_RemoveElement
  <2>3. Cardinality(S \ {x}) \in Nat /\ (Cardinality(S \ {x}) = 0 <=> S \ {x} = {})
    BY <2>2, FS_CardinalityType, FS_EmptySet
  <2>4. Cardinality(S) <= 1 <=> S \ {x} = {} BY <1>1, <2>2, <2>3
  <2>5. S \ {x} = {} <=> \A y, z \in S : y = z BY <2>1
  <2> QED BY <2>4, <2>5
<1> QED BY <1>2, <1>3

(* Two expressions have at most one argument in common.                    *)
Apart(args, f, g) == \A x, y \in args[f] \cap args[g] : x = y

(* At most one argument in common, without counting.                       *)
LEMMA ApartCardinality ==
  ASSUME NEW known \in Seq(Value), NEW args \in [Funcs -> SUBSET DOMAIN known],
         NEW f \in Funcs, NEW g \in Funcs
  PROVE  Cardinality(args[f] \cap args[g]) <= 1 <=> Apart(args, f, g)
<1>1. DOMAIN known = 1..Len(known) /\ Len(known) \in Nat BY LenProperties
<1>2. IsFiniteSet(DOMAIN known) BY <1>1, FS_Interval
<1>3. args[f] \cap args[g] \in SUBSET DOMAIN known OBVIOUS
<1>4. IsFiniteSet(args[f] \cap args[g]) BY <1>2, <1>3, FS_Subset
<1> QED BY <1>4, OneAtMost DEF Apart

(* The same after a step.                                                  *)
LEMMA ApartPrimed ==
  ASSUME TypeOK', NEW f \in Funcs, NEW g \in Funcs, Apart(func_to_argset', f, g)
  PROVE  Cardinality(func_to_argset'[f] \cap func_to_argset'[g]) <= 1
  BY ApartCardinality DEF TypeOK

(* A step that gives common a number of its own.                           *)
Names(funcs, common, number, value) ==
  /\ Known(values', number, value) /\ number \notin DOMAIN values
  /\ func_to_argset' = Replaced(func_to_argset, funcs, common, number)
  /\ common = Common(Head(queue))
  /\ ~ Apart(func_to_argset, i, Head(queue))
  /\ funcs \subseteq i..N /\ Head(queue) \in funcs
  /\ \A f \in funcs : common \subseteq func_to_argset[f]
  /\ \A g \in (i + 1)..N : common \subseteq func_to_argset[g] => g \in funcs
  /\ matching /\ queue # <<>> /\ queue' = Tail(queue) /\ UNCHANGED <<i, matching>>

(* The arguments after a name is given.                                    *)
LEMMA NamesArgs ==
  ASSUME IndexInv, NEW funcs, NEW common, NEW number, NEW value,
         Names(funcs, common, number, value)
  PROVE  /\ \A f \in Funcs : /\ number \notin func_to_argset[f]
                             /\ func_to_argset[f] \subseteq DOMAIN values
                             /\ f \in funcs => func_to_argset'[f] = (func_to_argset[f] \ common) \cup {number}
                             /\ f \notin funcs => func_to_argset'[f] = func_to_argset[f]
         /\ i \in Funcs /\ Head(queue) \in (i + 1)..N
         /\ common = func_to_argset[i] \cap func_to_argset[Head(queue)]
         /\ \E x, y \in common : x # y
         /\ number \notin common
<1>1. \A f \in Funcs : func_to_argset[f] \subseteq DOMAIN values
  BY DEF IndexInv, TypeOK
<1>2. i \in Funcs /\ Head(queue) \in (i + 1)..N
  BY QueueType DEF Names
<1>3. \A f \in Funcs : func_to_argset'[f] = IF f \in funcs THEN (func_to_argset[f] \ common) \cup {number}
                                            ELSE func_to_argset[f]
  BY DEF Names, Replaced
<1>4. common = func_to_argset[i] \cap func_to_argset[Head(queue)]
  BY DEF Names, Common
<1>5. \E x, y \in common : x # y
  BY <1>4 DEF Names, Apart
<1>6. number \notin DOMAIN values BY DEF Names
<1> QED BY <1>1, <1>2, <1>3, <1>4, <1>5, <1>6

(* A name shares nothing new with the expressions that are finished.       *)
LEMMA NamesNothingLeft ==
  ASSUME IndexInv, NothingLeft, TypeOK', NEW funcs, NEW common, NEW number, NEW value,
         Names(funcs, common, number, value)
  PROVE  NothingLeft'
<1> SUFFICES ASSUME NEW f \in 1..(i - 1), NEW g \in Funcs, f # g
             PROVE  Cardinality(func_to_argset'[f] \cap func_to_argset'[g]) <= 1
  BY DEF NothingLeft, Names
<1>1. f \in Funcs /\ f \notin funcs
  <2>1. i \in 1..(N + 1) /\ funcs \subseteq i..N BY DEF IndexInv, TypeOK, Names
  <2> QED BY <2>1, CommonArgsAssumption DEF Funcs
<1>2. func_to_argset'[f] = func_to_argset[f] /\ number \notin func_to_argset[f]
  BY <1>1, NamesArgs
<1>3. func_to_argset'[g] \subseteq func_to_argset[g] \cup {number}
  BY NamesArgs
<1>4. Apart(func_to_argset, f, g)
  <2>1. Cardinality(func_to_argset[f] \cap func_to_argset[g]) <= 1 BY DEF NothingLeft
  <2>2. values \in Seq(Value) /\ func_to_argset \in [Funcs -> SUBSET DOMAIN values]
    BY DEF IndexInv, TypeOK
  <2> QED BY <1>1, <2>1, <2>2, ApartCardinality
<1>5. Apart(func_to_argset', f, g)
  BY <1>2, <1>3, <1>4 DEF Apart
<1>6. Cardinality(func_to_argset'[f] \cap func_to_argset'[g]) <= 1 <=> Apart(func_to_argset', f, g)
  <2>1. values' \in Seq(Value) /\ func_to_argset' \in [Funcs -> SUBSET DOMAIN values']
    BY DEF TypeOK
  <2> QED BY <1>1, <2>1, ApartCardinality
<1> QED BY <1>5, <1>6

(* It is used wherever its arguments were.                                 *)
LEMMA NamesNamesUsed ==
  ASSUME IndexInv, NothingLeft, NamesUsed, NEW funcs, NEW common, NEW number, NEW value,
         Names(funcs, common, number, value),
         value.kind = "func" \/ (ToSet(value.args) = common /\ i \in funcs)
  PROVE  NamesUsed'
<1> SUFFICES ASSUME NEW a \in DOMAIN values', values'[a].kind = "com"
             PROVE  /\ ToSet(values'[a].args) \subseteq DOMAIN values'
                    /\ \A f \in Funcs : ~ (ToSet(values'[a].args) \subseteq func_to_argset'[f])
  BY DEF NamesUsed
<1>1. /\ DOMAIN values \subseteq DOMAIN values'
      /\ \A b \in DOMAIN values : values'[b] = values[b]
      /\ values'[number] = value
      /\ a \in DOMAIN values \/ a = number
      /\ number \notin DOMAIN values
  BY DEF Names, Known
<1>2. CASE a \in DOMAIN values
  <2> DEFINE e == ToSet(values[a].args)
  <2>1. e \subseteq DOMAIN values /\ \A f \in Funcs : ~ (e \subseteq func_to_argset[f])
    BY <1>1, <1>2 DEF NamesUsed
  <2>2. values'[a] = values[a] BY <1>1, <1>2
  <2>3. ASSUME NEW f \in Funcs, e \subseteq func_to_argset'[f] PROVE e \subseteq func_to_argset[f]
    <3>1. func_to_argset'[f] \subseteq func_to_argset[f] \cup {number} BY NamesArgs
    <3> HIDE DEF e
    <3> QED BY <1>1, <2>1, <2>3, <3>1
  <2> QED BY <1>1, <2>1, <2>2, <2>3
<1>3. CASE a = number
  <2>1. ToSet(values'[a].args) = common /\ i \in funcs
    BY <1>1, <1>3
  <2>2. common \subseteq func_to_argset[i] /\ i \in Funcs /\ func_to_argset[i] \subseteq DOMAIN values
    BY NamesArgs
  <2>3. ASSUME NEW f \in Funcs, common \subseteq func_to_argset'[f] PROVE FALSE
    <3>1. PICK x \in common, y \in common : x # y BY NamesArgs
    <3>2. f \notin funcs BY <2>3, <3>1, NamesArgs
    <3>3. common \subseteq func_to_argset[f] BY <2>3, <3>2, NamesArgs
    <3>4. f \notin (i + 1)..N BY <3>2, <3>3 DEF Names
    <3>5. f # i BY <2>1, <3>2
    <3>6. f \in 1..(i - 1) BY <2>2, <3>4, <3>5, CommonArgsAssumption DEF Funcs
    <3>7. Cardinality(func_to_argset[f] \cap func_to_argset[i]) <= 1
      BY <2>2, <3>5, <3>6 DEF NothingLeft
    <3>8. Apart(func_to_argset, f, i)
      BY <2>2, <3>7, ApartCardinality DEF IndexInv, TypeOK
    <3> QED BY <2>2, <3>1, <3>3, <3>8 DEF Apart
  <2> QED BY <1>1, <2>1, <2>2, <2>3
<1> QED BY <1>1, <1>2, <1>3

(* The expressions that are not waiting share no more with i than before.  *)
LEMMA NamesCompared ==
  ASSUME IndexInv, Compared, TypeOK', NEW funcs, NEW common, NEW number, NEW value,
         Names(funcs, common, number, value),
         i \in funcs \/ common = func_to_argset[i]
  PROVE  Compared'
<1> SUFFICES ASSUME NEW g \in (i + 1)..N, g \notin ToSet(Tail(queue))
             PROVE  Cardinality(func_to_argset'[i] \cap func_to_argset'[g]) <= 1
  <2>1. i' = i /\ queue' = Tail(queue) BY DEF Names
  <2> QED BY <2>1 DEF Compared, Common
<1>1. i \in Funcs /\ g \in Funcs
  BY NamesArgs, CommonArgsAssumption DEF Funcs
<1>2. CASE g = Head(queue)
  <2>1. g \in funcs BY <1>2 DEF Names
  <2>2. func_to_argset'[g] = (func_to_argset[g] \ common) \cup {number} BY <1>1, <2>1, NamesArgs
  <2>3. common = func_to_argset[i] \cap func_to_argset[g] BY <1>2, NamesArgs
  <2>4. CASE i \in funcs
    <3>1. func_to_argset'[i] = (func_to_argset[i] \ common) \cup {number} BY <1>1, <2>4, NamesArgs
    <3> QED BY <1>1, <2>2, <2>3, <3>1, ApartPrimed DEF Apart
  <2>5. CASE i \notin funcs
    <3>1. func_to_argset'[i] = func_to_argset[i] /\ number \notin func_to_argset[i] BY <1>1, <2>5, NamesArgs
    <3> QED BY <1>1, <2>2, <2>3, <2>5, <3>1, ApartPrimed DEF Apart
  <2> QED BY <2>4, <2>5
<1>3. CASE g # Head(queue)
  <2>1. g \notin ToSet(queue) BY <1>3, QueueType DEF Names
  <2>2. Cardinality(func_to_argset[i] \cap func_to_argset[g]) <= 1
    BY <2>1 DEF Compared, Common, Names
  <2>3. Apart(func_to_argset, i, g)
    BY <1>1, <2>2, ApartCardinality DEF IndexInv, TypeOK
  <2>4. PICK x \in common, y \in common : x # y BY NamesArgs
  <2>5. x \in func_to_argset[i] /\ y \in func_to_argset[i] BY <2>4, NamesArgs
  <2>6. ~ (common \subseteq func_to_argset[g]) BY <2>3, <2>4, <2>5 DEF Apart
  <2>7. g \notin funcs BY <2>6 DEF Names
  <2>8. func_to_argset'[g] = func_to_argset[g] /\ number \notin func_to_argset[g]
    BY <1>1, <2>7, NamesArgs
  <2>9. func_to_argset'[i] \subseteq func_to_argset[i] \cup {number}
    BY <1>1, NamesArgs
  <2> QED BY <1>1, <2>3, <2>8, <2>9, ApartPrimed DEF Apart
<1> QED BY <1>2, <1>3

(* An expression is a name for itself once.                                *)
LEMMA NamesWholeOnce ==
  ASSUME IndexInv, WholeOnce, NEW funcs, NEW common, NEW number, NEW value,
         Names(funcs, common, number, value),
         \/ i \in funcs /\ value.kind = "com"
         \/ common = func_to_argset[i] /\ value = Func(i) /\ i \notin funcs
  PROVE  WholeOnce'
<1>1. /\ \A b \in DOMAIN values : values'[b] = values[b]
      /\ values'[number] = value
      /\ \A a \in DOMAIN values' : a \in DOMAIN values \/ a = number
      /\ number \notin DOMAIN values
      /\ i' = i /\ matching' /\ matching
  BY DEF Names, Known
<1>2. i \in Funcs /\ \A g \in (i + 1)..N : g \in Funcs
  BY NamesArgs, CommonArgsAssumption DEF Funcs
<1>3. CASE i \in funcs /\ value.kind = "com"
  <2>1. ASSUME NEW a \in DOMAIN values', values'[a].kind = "func",
               ~ (values'[a].n < i), NEW g \in (i + 1)..N
        PROVE  values'[a].n = i /\ ~ (func_to_argset'[i] \subseteq func_to_argset'[g])
    <3>1. a \in DOMAIN values /\ values'[a] = values[a] BY <1>1, <1>3, <2>1
    <3>2. values[a].n = i /\ ~ (func_to_argset[i] \subseteq func_to_argset[g])
      BY <2>1, <3>1 DEF WholeOnce
    <3>3. func_to_argset'[i] = (func_to_argset[i] \ common) \cup {number}
      BY <1>2, <1>3, NamesArgs
    <3>4. CASE g \in funcs
      <4>1. func_to_argset'[g] = (func_to_argset[g] \ common) \cup {number}
        BY <1>2, <3>4, NamesArgs
      <4>2. common \subseteq func_to_argset[g] BY <3>4 DEF Names
      <4>3. number \notin func_to_argset[i] BY <1>2, NamesArgs
      <4> QED BY <3>1, <3>2, <3>3, <4>1, <4>2, <4>3
    <3>5. CASE g \notin funcs
      <4>1. func_to_argset'[g] = func_to_argset[g] /\ number \notin func_to_argset[g]
        BY <1>2, <3>5, NamesArgs
      <4> QED BY <3>1, <3>2, <3>3, <4>1
    <3> QED BY <3>4, <3>5
  <2>2. ASSUME NEW a \in DOMAIN values', values'[a].kind = "func", ~ (values'[a].n < i)
        PROVE  values'[a].n = i
    <3>1. a \in DOMAIN values /\ values'[a] = values[a] BY <1>1, <1>3, <2>2
    <3> QED BY <2>2, <3>1 DEF WholeOnce
  <2> QED BY <1>1, <2>1, <2>2 DEF WholeOnce
<1>4. CASE common = func_to_argset[i] /\ value = Func(i) /\ i \notin funcs
  <2>1. ASSUME NEW g \in (i + 1)..N
        PROVE  ~ (func_to_argset'[i] \subseteq func_to_argset'[g])
    <3>1. func_to_argset'[i] = common BY <1>2, <1>4, NamesArgs
    <3>2. PICK x \in common, y \in common : x # y BY NamesArgs
    <3>3. CASE g \in funcs
      <4>1. func_to_argset'[g] = (func_to_argset[g] \ common) \cup {number}
        BY <1>2, <3>3, NamesArgs
      <4>2. number \notin common BY NamesArgs
      <4> QED BY <3>1, <3>2, <4>1, <4>2
    <3>4. CASE g \notin funcs
      <4>1. func_to_argset'[g] = func_to_argset[g] BY <1>2, <3>4, NamesArgs
      <4>2. ~ (common \subseteq func_to_argset[g]) BY <3>4 DEF Names
      <4> QED BY <3>1, <4>1, <4>2
    <3> QED BY <3>3, <3>4
  <2>2. ASSUME NEW a \in DOMAIN values', values'[a].kind = "func"
        PROVE  values'[a].n < i \/ values'[a].n = i
    <3>1. CASE a = number BY <1>1, <1>4, <3>1 DEF Func
    <3>2. CASE a \in DOMAIN values
      BY <1>1, <2>2, <3>2 DEF WholeOnce
    <3> QED BY <1>1, <3>1, <3>2
  <2> QED BY <1>1, <2>1, <2>2 DEF WholeOnce
<1> QED BY <1>3, <1>4

(* Both ways to extract what is common give it a number of its own.        *)
LEMMA ExtractNames ==
  ASSUME IndexInv, Compared, matching, queue # <<>>, NEW common, common = Common(Head(queue)),
         Cardinality(common) >= 2, NEW self \in SUBSET {i}, NEW funcs,
         funcs = self \cup {Head(queue)} \cup SubsetCandidates(common, ToSet(Tail(queue))),
         NEW value \in Value, \A a \in DOMAIN values : values[a] # value,
         Rewrite(funcs, common, value), queue' = Tail(queue), UNCHANGED <<i, matching>>
  PROVE  \E number : Names(funcs, common, number, value)
<1> DEFINE j == Head(queue)
<1>1. j \in (i + 1)..N /\ j \in Funcs /\ i \in Funcs /\ (i + 1)..N \subseteq Funcs
  BY QueueType, CommonArgsAssumption DEF Funcs
<1>2. common = func_to_argset[i] \cap func_to_argset[j]
  BY DEF Common
<1>3. ~ Apart(func_to_argset, i, j)
  <2>1. ~ (Cardinality(common) <= 1)
    <3>1. IsFiniteSet(common) BY CommonType
    <3>2. Cardinality(common) \in Nat BY <3>1, FS_CardinalityType
    <3> QED BY <3>2
  <2> HIDE DEF j
  <2> QED BY <1>1, <1>2, <2>1, ApartCardinality DEF IndexInv, TypeOK
<1>4. common \subseteq DOMAIN values BY CommonType
<1>5. funcs \subseteq i..N
  <2>1. {i, j} \cup SubsetCandidates(common, ToSet(Tail(queue))) \subseteq i..N BY RewrittenFuncs
  <2> QED BY <2>1
<1>6. PICK number : /\ Known(values', number, value)
                    /\ func_to_argset' = Replaced(func_to_argset, funcs, common, number)
  BY <1>5, RewriteIndex
<1>7. number \notin DOMAIN values
  BY <1>6 DEF Known
<1>8. ASSUME NEW f \in funcs PROVE common \subseteq func_to_argset[f]
  <2>1. CASE f = i \/ f = j BY <1>2, <2>1
  <2>2. CASE f \in SubsetCandidates(common, ToSet(Tail(queue)))
    <3>1. \A a \in common : f \in arg_to_funcset[a] BY <2>2 DEF SubsetCandidates
    <3>2. f \in Funcs BY <1>1, <1>5, <1>8 DEF Funcs
    <3> QED BY <1>4, <3>1, <3>2 DEF IndexInv, IndexesAgree
  <2> QED BY <2>1, <2>2
<1>9. ASSUME NEW g \in (i + 1)..N, common \subseteq func_to_argset[g] PROVE g \in funcs
  <2>1. g \in Funcs BY <1>1
  <2>2. ~ Apart(func_to_argset, i, g)
    BY <1>2, <1>3, <1>9 DEF Apart
  <2>3. ~ (Cardinality(Common(g)) <= 1)
    BY <1>1, <2>1, <2>2, ApartCardinality DEF Common, IndexInv, TypeOK
  <2>4. g \in ToSet(queue) BY <2>3 DEF Compared
  <2>5. g = j \/ g \in ToSet(Tail(queue)) BY <2>4, QueueType
  <2>6. \A a \in common : g \in arg_to_funcset[a]
    <3>1. g >= i BY <1>1 DEF Funcs
    <3> QED BY <1>4, <1>9, <2>1, <3>1 DEF IndexInv, IndexesAgree
  <2> QED BY <2>5, <2>6 DEF SubsetCandidates
<1> QED BY <1>3, <1>5, <1>6, <1>7, <1>8, <1>9 DEF Names

(* At the start no expression is finished and there are no names.          *)
LEMMA InitLeft ==
  ASSUME ~Nested, Init
  PROVE  LeftInv
<1>1. \A a \in DOMAIN values : values[a].kind = "atom"
  <2>1. /\ Enumerates(values, ToSet(FlattenSeq(given)))
        /\ ToSet(FlattenSeq(given)) \subseteq ToSet(Arguments)
    BY InitValues
  <2>2. DOMAIN values = 1..Len(values) /\ values \in Seq(ToSet(FlattenSeq(given)))
    BY <2>1, LenProperties DEF Enumerates
  <2>3. \A a \in 1..Len(values) : values[a] \in ToSet(FlattenSeq(given))
    BY <2>2, ElementOfSeq
  <2> QED BY <2>1, <2>2, <2>3, ArgumentsType
<1>2. i = 1 /\ ~matching BY DEF Init
<1> QED BY <1>1, <1>2 DEF LeftInv, NamesUsed, Compared, WholeOnce, NothingLeft

(* Every step keeps the invariant.                                         *)
LEMMA LeftStep ==
  ASSUME IndexInv, LeftInv, [Next]_vars
  PROVE  LeftInv'
<1>0. IndexInv' BY IndexStep
<1>00. TypeOK /\ TypeOK' BY <1>0 DEF IndexInv
<1>1. CASE Begin
  <2>1. /\ i \in Funcs /\ ~matching /\ matching'
        /\ queue' = Candidates(func_to_argset[i], i + 1)
        /\ UNCHANGED <<values, func_to_argset, i>>
    BY <1>1 DEF Begin
  <2>2. NamesUsed' BY <2>1 DEF LeftInv, NamesUsed
  <2>3. NothingLeft' BY <2>1 DEF LeftInv, NothingLeft
  <2>4. WholeOnce' BY <2>1 DEF LeftInv, WholeOnce
  <2>5. ASSUME NEW g \in (i + 1)..N, ~ (Cardinality(Common(g)) <= 1)
        PROVE  g \in ToSet(queue')
    <3>1. func_to_argset[i] \in SUBSET DOMAIN values /\ i + 1 \in 1..(N + 1)
      BY <2>1, <1>00, CommonArgsAssumption DEF TypeOK, Funcs
    <3>2. g \in Funcs /\ g >= i BY <2>1, CommonArgsAssumption DEF Funcs
    <3>3. Shared(func_to_argset[i], g) = Common(g)
      BY <3>1, <3>2 DEF Shared, Common, IndexInv, IndexesAgree
    <3>4. Cardinality(Common(g)) \in Nat
      <4>1. DOMAIN values = 1..Len(values) /\ Len(values) \in Nat BY <1>00, LenProperties DEF TypeOK
      <4>2. IsFiniteSet(DOMAIN values) BY <4>1, FS_Interval
      <4>3. Common(g) \in SUBSET DOMAIN values BY <3>1 DEF Common
      <4> QED BY <4>2, <4>3, FS_Subset, FS_CardinalityType
    <3>5. Cardinality(Common(g)) >= 2 BY <2>5, <3>4
    <3>6. ToSet(queue') = {f \in (i + 1)..N : Cardinality(Shared(func_to_argset[i], f)) >= 2}
      BY <1>00, <2>1, <3>1, CandidatesType
    <3> QED BY <3>3, <3>5, <3>6
  <2>6. Compared' BY <2>1, <2>5 DEF Compared, Common
  <2> QED BY <2>2, <2>3, <2>4, <2>6 DEF LeftInv
<1>2. CASE Skip
  <2>1. /\ matching /\ queue # <<>> /\ queue' = Tail(queue) /\ Cardinality(Common(Head(queue))) <= 1
        /\ UNCHANGED <<values, func_to_argset, i, matching>>
    BY <1>2 DEF Skip
  <2>2. NamesUsed' BY <2>1 DEF LeftInv, NamesUsed
  <2>3. NothingLeft' BY <2>1 DEF LeftInv, NothingLeft
  <2>4. WholeOnce' BY <2>1 DEF LeftInv, WholeOnce
  <2>5. ToSet(queue) = ToSet(Tail(queue)) \cup {Head(queue)} BY <2>1, QueueType
  <2>6. Compared' BY <2>1, <2>5 DEF LeftInv, Compared, Common
  <2> QED BY <2>2, <2>3, <2>4, <2>6 DEF LeftInv
<1>3. CASE ExtractPart
  <2> DEFINE common == Common(Head(queue))
             funcs == {i, Head(queue)} \cup SubsetCandidates(common, ToSet(Tail(queue)))
             value == Com(Sorted(common))
  <2>1. /\ matching /\ queue # <<>> /\ queue' = Tail(queue) /\ UNCHANGED <<i, matching>>
        /\ Cardinality(common) >= 2
        /\ Rewrite(funcs, common, value)
    BY <1>3 DEF ExtractPart
  <2>2. /\ value \in Value /\ value.kind = "com" /\ ToSet(value.args) = common
        /\ common \subseteq func_to_argset[i]
    BY <2>1, NamesType, CommonType DEF Com, Common
  <2>3. i \in Funcs BY <2>1 DEF IndexInv, Ahead
  <2>4. \A a \in DOMAIN values : values[a] # value
    BY <2>2, <2>3 DEF LeftInv, NamesUsed
  <2>5. funcs = {i} \cup {Head(queue)} \cup SubsetCandidates(common, ToSet(Tail(queue))) /\ i \in funcs
    OBVIOUS
  <2>6. common = Common(Head(queue)) OBVIOUS
  <2> HIDE DEF common, funcs, value
  <2>7. PICK number : Names(funcs, common, number, value)
    BY <2>1, <2>2, <2>4, <2>5, <2>6, ExtractNames DEF LeftInv
  <2>8. NothingLeft' BY <1>00, <2>7, NamesNothingLeft DEF LeftInv
  <2>9. NamesUsed' BY <2>2, <2>5, <2>7, NamesNamesUsed DEF LeftInv
  <2>10. Compared' BY <1>00, <2>5, <2>7, NamesCompared DEF LeftInv
  <2>11. WholeOnce' BY <2>2, <2>5, <2>7, NamesWholeOnce DEF LeftInv
  <2> QED BY <2>8, <2>9, <2>10, <2>11 DEF LeftInv
<1>4. CASE ExtractWhole
  <2> DEFINE common == Common(Head(queue))
             funcs == {Head(queue)} \cup SubsetCandidates(common, ToSet(Tail(queue)))
             value == Func(i)
  <2>1. /\ matching /\ queue # <<>> /\ queue' = Tail(queue) /\ UNCHANGED <<i, matching>>
        /\ Cardinality(common) >= 2 /\ common = func_to_argset[i]
        /\ Rewrite(funcs, common, value)
    BY <1>4 DEF ExtractWhole
  <2>2. /\ value \in Value /\ value.kind = "func" /\ value.n = i
        /\ common \subseteq func_to_argset[Head(queue)]
    BY <2>1, NamesType, CommonType DEF Func, Common
  <2>3. i \in Nat /\ Head(queue) \in (i + 1)..N /\ ToSet(Tail(queue)) \subseteq (i + 1)..N
    BY <2>1, QueueType DEF Funcs
  <2>4. \A a \in DOMAIN values : values[a] # value
    BY <2>1, <2>2, <2>3 DEF LeftInv, WholeOnce
  <2>5. i \notin funcs
    BY <2>3 DEF SubsetCandidates
  <2>6. funcs = {} \cup {Head(queue)} \cup SubsetCandidates(common, ToSet(Tail(queue)))
    OBVIOUS
  <2>7. common = Common(Head(queue)) /\ value = Func(i) OBVIOUS
  <2> HIDE DEF common, funcs, value
  <2>8. PICK number : Names(funcs, common, number, value)
    BY <2>1, <2>2, <2>4, <2>6, <2>7, ExtractNames DEF LeftInv
  <2>9. NothingLeft' BY <1>00, <2>8, NamesNothingLeft DEF LeftInv
  <2>10. NamesUsed' BY <2>2, <2>8, NamesNamesUsed DEF LeftInv
  <2>11. Compared' BY <1>00, <2>1, <2>8, NamesCompared DEF LeftInv
  <2>12. WholeOnce' BY <2>1, <2>5, <2>7, <2>8, NamesWholeOnce DEF LeftInv
  <2> QED BY <2>9, <2>10, <2>11, <2>12 DEF LeftInv
<1>5. CASE Finish
  <2>1. /\ matching /\ queue = <<>> /\ i' = i + 1 /\ ~matching'
        /\ UNCHANGED <<values, func_to_argset>>
    BY <1>5 DEF Finish
  <2>2. i \in Funcs /\ i \in Nat BY <2>1 DEF IndexInv, Ahead, Funcs
  <2>3. NamesUsed' BY <2>1 DEF LeftInv, NamesUsed
  <2>4. Compared' BY <2>1 DEF Compared
  <2>5. WholeOnce'
    <3>1. \A a \in DOMAIN values : values[a].n \in Nat
      <4>1. \A a \in 1..Len(values) : values[a] \in Value BY <1>00, ElementOfSeq DEF TypeOK
      <4>2. DOMAIN values = 1..Len(values) BY <1>00, LenProperties DEF TypeOK
      <4> QED BY <4>1, <4>2 DEF Value
    <3>2. \A a \in DOMAIN values : values[a].kind = "func" => values[a].n < i + 1
      BY <2>2, <3>1 DEF LeftInv, WholeOnce
    <3> QED BY <2>1, <3>2 DEF WholeOnce
  <2>6. ASSUME NEW f \in 1..i, NEW g \in Funcs, f # g
        PROVE  Cardinality(func_to_argset[f] \cap func_to_argset[g]) <= 1
    <3>1. CASE f < i
      <4>1. f \in 1..(i - 1) BY <2>2, <3>1
      <4> QED BY <2>6, <4>1 DEF LeftInv, NothingLeft
    <3>2. CASE f = i /\ g < i
      <4>1. g \in 1..(i - 1) /\ func_to_argset[f] \cap func_to_argset[g] = func_to_argset[g] \cap func_to_argset[i]
        BY <2>2, <3>2 DEF Funcs
      <4>2. Cardinality(func_to_argset[g] \cap func_to_argset[i]) <= 1
        BY <2>2, <3>2, <2>6, <4>1 DEF LeftInv, NothingLeft
      <4> QED BY <4>1, <4>2
    <3>3. CASE f = i /\ g > i
      <4>1. g \in (i + 1)..N BY <2>2, <3>3 DEF Funcs
      <4>2. ToSet(queue) = {} BY <2>1 DEF ToSet
      <4> QED BY <2>1, <3>3, <4>1, <4>2 DEF LeftInv, Compared, Common
    <3> QED BY <2>2, <2>6, <3>1, <3>2, <3>3 DEF Funcs
  <2>7. NothingLeft'
    <3>1. (i + 1) - 1 = i BY <2>2
    <3> QED BY <2>1, <2>6, <3>1 DEF NothingLeft
  <2> QED BY <2>3, <2>4, <2>5, <2>7 DEF LeftInv
<1>6. CASE UNCHANGED vars
  <2>1. UNCHANGED <<values, func_to_argset, i, queue, matching>> BY <1>6 DEF vars
  <2>2. NamesUsed' BY <2>1 DEF LeftInv, NamesUsed
  <2>3. NothingLeft' BY <2>1 DEF LeftInv, NothingLeft
  <2>4. WholeOnce' BY <2>1 DEF LeftInv, WholeOnce
  <2>5. Compared' BY <2>1 DEF LeftInv, Compared, Common
  <2> QED BY <2>2, <2>3, <2>4, <2>5 DEF LeftInv
<1> QED BY <1>1, <1>2, <1>3, <1>4, <1>5, <1>6 DEF Next, Done

(* NothingLeft: when no expression is an argument of another one, a        *)
(* finished expression shares at most one argument with any other: the     *)
(* candidates, which are computed once and are not looked for again after  *)
(* a rewriting, are enough.                                                *)
THEOREM NothingSharedIsLeft == ~Nested => (Spec => []NothingLeft)
<1> SUFFICES ASSUME ~Nested PROVE Spec => []NothingLeft
  OBVIOUS
<1>1. Init => IndexInv /\ LeftInv BY InitIndex, InitLeft
<1>2. (IndexInv /\ LeftInv) /\ [Next]_vars => (IndexInv /\ LeftInv)'
  BY IndexStep, LeftStep
<1>3. LeftInv => NothingLeft BY DEF LeftInv
<1> QED BY <1>1, <1>2, <1>3, PTL DEF Spec

-----------------------------------------------------------------------------
(* The replacements lead to earlier expressions only.                      *)

(* What the values hold: an expression i is named when it is compared, so  *)
(* the names that an expression has lead to earlier ones.                  *)
Bounds(bound) ==
  /\ \A a \in DOMAIN values :
       /\ values[a].kind = "func" => values[a].n \in 1..bound[a]
       /\ values[a].kind = "com" =>
            \A b \in ToSet(values[a].args) : b \in DOMAIN values /\ b < a /\ bound[b] <= bound[a]
  /\ \A f \in Funcs : \A a \in func_to_argset[f] : bound[a] < f
  /\ \A f \in Funcs : \A a \in ToSet(opt_subs[f]) : a \in DOMAIN values /\ bound[a] < f

Founded ==
  /\ \A f \in Funcs : \A v \in ToSet(given[f]) : v.kind = "atom"
  /\ DOMAIN opt_subs = Funcs
  /\ \E bound \in [DOMAIN values -> Nat] : Bounds(bound)

(* The recursion in FuncsIn.                                               *)
LEMMA FuncsInRecursion ==
  ASSUME values \in Seq(Value),
         \A a \in DOMAIN values : values[a].kind = "com" =>
           \A b \in ToSet(values[a].args) : b \in DOMAIN values /\ b < a
  PROVE  \E in : /\ \A a \in DOMAIN values : in[a] = Holds(in, a)
                 /\ \A args : FuncsIn(args) = UNION {in[a] : a \in args}
<1> DEFINE D == DOMAIN values
           V == SUBSET Nat
           rank == [a \in D |-> a]
           F == [a \in D |-> [h \in [D -> V] |-> Holds(h, a)]]
           g == CHOOSE g : g = [a \in D |-> Holds(g, a)]
<1>1. D = 1..Len(values) /\ Len(values) \in Nat BY LenProperties
<1>2. \A a \in D : values[a] \in Value BY <1>1, ElementOfSeq
<1>3. \A a \in D : values[a].kind \in {"atom", "func", "com"} /\ values[a].n \in Nat
  BY <1>2 DEF Value
<1>4. F \in [D -> [[D -> V] -> V]]
  <2>1. ASSUME NEW a \in D, NEW h \in [D -> V] PROVE Holds(h, a) \in V
    <3>1. values[a].kind = "com" => \A b \in ToSet(values[a].args) : h[b] \in V
      OBVIOUS
    <3> QED BY <1>3, <3>1 DEF Holds
  <2> HIDE DEF D, V
  <2> QED BY <2>1
<1>5. ByRank(D, V, rank, F)
  <2> SUFFICES ASSUME NEW a \in D, NEW h1 \in [D -> V], NEW h2 \in [D -> V],
                      \A e \in D : rank[e] < rank[a] => h1[e] = h2[e]
               PROVE  F[a][h1] = F[a][h2]
    <3> HIDE DEF D, V, rank, F
    <3> QED BY DEF ByRank
  <2>1. Holds(h1, a) = Holds(h2, a)
    <3>1. values[a].kind = "com" => \A b \in ToSet(values[a].args) : h1[b] = h2[b]
      OBVIOUS
    <3> QED BY <1>3, <3>1 DEF Holds
  <2>2. F[a][h1] = Holds(h1, a) /\ F[a][h2] = Holds(h2, a)
    <3> HIDE DEF D, V
    <3> QED OBVIOUS
  <2> QED BY <2>1, <2>2
<1>6. Recursive(D, V, F)
  <2>1. rank \in [D -> 0..Len(values)] BY <1>1
  <2>2. V # {} OBVIOUS
  <2> HIDE DEF D, V, rank, F
  <2> QED BY <1>1, <1>4, <1>5, <2>1, <2>2, BoundedRecursion
<1>7. PICK x \in [D -> V] : x = [a \in D |-> F[a][x]]
  BY <1>6, Zenon DEF Recursive
<1>8. x = [a \in D |-> Holds(x, a)]
  <2>1. ASSUME NEW a \in D PROVE F[a][x] = Holds(x, a)
    <3>1. F[a] = [h \in [D -> V] |-> Holds(h, a)]
      <4> HIDE DEF D, V, g
      <4> QED OBVIOUS
    <3> HIDE DEF D, V, F, g
    <3> QED BY <1>7, <3>1
  <2> HIDE DEF D, V, F, g
  <2> QED BY <1>7, <2>1
<1>9. g = [a \in D |-> Holds(g, a)]
  <2> HIDE DEF D
  <2> QED BY <1>8, Zenon
<1>10. ASSUME NEW args PROVE FuncsIn(args) = UNION {g[a] : a \in args}
  BY Zenon DEF FuncsIn
<1>11. ASSUME NEW a \in D PROVE g[a] = Holds(g, a)
  <2> HIDE DEF D, g
  <2> QED BY <1>9
<1> HIDE DEF g
<1> QED BY <1>10, <1>11

(* What a value holds is below its bound.                                  *)
LEMMA FuncsInBound ==
  ASSUME values \in Seq(Value), NEW bound \in [DOMAIN values -> Nat], Bounds(bound),
         NEW args \in SUBSET DOMAIN values, NEW top \in Nat,
         \A a \in args : bound[a] < top
  PROVE  FuncsIn(args) \subseteq 1..(top - 1)
<1>1. PICK in : /\ \A a \in DOMAIN values : in[a] = Holds(in, a)
                /\ FuncsIn(args) = UNION {in[a] : a \in args}
  BY FuncsInRecursion DEF Bounds
<1>2. DOMAIN values = 1..Len(values) /\ Len(values) \in Nat BY LenProperties
<1>3. \A a \in DOMAIN values : values[a].kind \in {"atom", "func", "com"}
  <2>1. \A a \in 1..Len(values) : values[a] \in Value BY ElementOfSeq
  <2> QED BY <1>2, <2>1 DEF Value
<1> DEFINE T == {n \in Nat : \A a \in DOMAIN values : a <= n => in[a] \subseteq 1..bound[a]}
<1>4. 0 \in T BY <1>2
<1>5. ASSUME NEW n \in Nat, n \in T PROVE n + 1 \in T
  <2> SUFFICES ASSUME NEW a \in DOMAIN values, a <= n + 1 PROVE in[a] \subseteq 1..bound[a]
    OBVIOUS
  <2>1. in[a] = Holds(in, a) BY <1>1
  <2>2. CASE values[a].kind = "atom" BY <2>1, <2>2 DEF Holds
  <2>3. CASE values[a].kind = "func"
    <3>1. values[a].n \in 1..bound[a] BY <2>3 DEF Bounds
    <3>2. in[a] = {values[a].n} BY <2>1, <2>3 DEF Holds
    <3> QED BY <3>1, <3>2
  <2>4. CASE values[a].kind = "com"
    <3>1. in[a] = UNION {in[b] : b \in ToSet(values[a].args)} BY <2>1, <2>4 DEF Holds
    <3>2. ASSUME NEW b \in ToSet(values[a].args) PROVE in[b] \subseteq 1..bound[a]
      <4>1. b \in DOMAIN values /\ b < a /\ bound[b] <= bound[a] BY <2>4 DEF Bounds
      <4>2. b <= n BY <1>2, <4>1
      <4>3. in[b] \subseteq 1..bound[b] BY <1>5, <4>1, <4>2
      <4>4. bound[a] \in Nat /\ bound[b] \in Nat BY <4>1
      <4>5. 1..bound[b] \subseteq 1..bound[a] BY <4>1, <4>4
      <4> QED BY <4>3, <4>5
    <3> QED BY <3>1, <3>2
  <2> QED BY <1>3, <2>2, <2>3, <2>4
<1>6. Nat \subseteq T
  <2> HIDE DEF T
  <2> QED BY <1>4, <1>5, NatSetInduction
<1>7. ASSUME NEW a \in args PROVE in[a] \subseteq 1..(top - 1)
  <2>1. in[a] \subseteq 1..bound[a] BY <1>2, <1>6
  <2>2. bound[a] \in Nat /\ bound[a] < top OBVIOUS
  <2>3. 1..bound[a] \subseteq 1..(top - 1) BY <2>2
  <2> QED BY <2>1, <2>3
<1> QED BY <1>1, <1>7

(* An expression whose parts, and theirs, come before it is not among them. *)
LEMMA WithinSmaller ==
  ASSUME NEW parts, \A f \in Funcs : parts[f] \subseteq 1..(f - 1),
         NEW top \in 0..N, NEW found \in SUBSET (1..top)
  PROVE  Within(parts, found) \subseteq 1..top
<1> DEFINE V == SUBSET (1..top)
           More(s) == s \cup UNION {parts[f] : f \in s}
           step == [n \in 1..N |-> [s \in V |-> More(s)]]
           Body(g, n) == IF n = 0 THEN found
                         ELSE g[n - 1] \cup UNION {parts[f] : f \in g[n - 1]}
           g == CHOOSE g : g = [n \in 0..N |-> Body(g, n)]
<1>1. N \in Nat /\ top \in Nat BY CommonArgsAssumption
<1>2. ASSUME NEW s \in V PROVE More(s) \in V
  <2>1. ASSUME NEW f \in s PROVE parts[f] \subseteq 1..top
    <3>1. f \in 1..top OBVIOUS
    <3>2. f \in Funcs /\ f \in Nat /\ f <= top BY <1>1, <3>1 DEF Funcs
    <3>3. 1..(f - 1) \subseteq 1..top BY <1>1, <3>2
    <3>4. parts[f] \subseteq 1..(f - 1) BY <3>2
    <3> QED BY <3>3, <3>4
  <2> QED BY <2>1
<1>3. PICK x : Iterates(N, V, found, step, x)
  <2>1. step \in [1..N -> [V -> V]]
    <3> HIDE DEF V, More
    <3> QED BY <1>2
  <2>2. found \in V OBVIOUS
  <2> HIDE DEF V, step
  <2> QED BY <1>1, <2>1, <2>2, Iteration
<1>4. x \in [0..N -> V] /\ x[0] = found /\ \A n \in 1..N : x[n] = step[n][x[n - 1]]
  <2> HIDE DEF V, step
  <2> QED BY <1>3 DEF Iterates
<1>5. x = [n \in 0..N |-> Body(x, n)]
  <2>1. ASSUME NEW n \in 1..N PROVE x[n] = Body(x, n)
    <3>1. n - 1 \in 0..N /\ n # 0 BY <1>1
    <3>2. x[n - 1] \in V
      <4> HIDE DEF V
      <4> QED BY <1>4, <3>1
    <3>3. step[n][x[n - 1]] = More(x[n - 1])
      <4> HIDE DEF V, More
      <4> QED BY <3>2
    <3>4. x[n] = More(x[n - 1]) BY <1>4, <3>3
    <3> HIDE DEF V, step
    <3> QED BY <3>1, <3>4
  <2>2. x[0] = Body(x, 0) BY <1>4
  <2>3. ASSUME NEW n \in 0..N PROVE x[n] = Body(x, n)
    <3>1. n = 0 \/ n \in 1..N BY <1>1
    <3> HIDE DEF Body
    <3> QED BY <2>1, <2>2, <3>1
  <2> HIDE DEF V, step, Body
  <2> QED BY <1>4, <2>3
<1>6. g = [n \in 0..N |-> Body(g, n)]
  <2> HIDE DEF Body
  <2> QED BY <1>5, Zenon
<1>7. Within(parts, found) = g[N] BY DEF Within
<1>8. ASSUME NEW n \in 0..N PROVE g[n] = Body(g, n)
  <2> HIDE DEF Body, g
  <2> QED BY <1>6
<1> DEFINE T == {n \in Nat : n <= N => g[n] \in V}
<1>9. 0 \in T
  <2>1. 0 \in 0..N BY <1>1
  <2>2. g[0] = found
    <3> HIDE DEF g
    <3> QED BY <1>8, <2>1
  <2> HIDE DEF g
  <2> QED BY <2>2
<1>10. ASSUME NEW n \in Nat, n \in T PROVE n + 1 \in T
  <2> SUFFICES ASSUME n + 1 <= N PROVE g[n + 1] \in V
    <3> HIDE DEF g, V
    <3> QED OBVIOUS
  <2>1. n <= N /\ n + 1 \in 0..N /\ n + 1 # 0 /\ (n + 1) - 1 = n BY <1>1
  <2>2. g[n] \in V
    <3> HIDE DEF g, V
    <3> QED BY <1>10, <2>1
  <2>3. g[n + 1] = More(g[n])
    <3>1. g[n + 1] = Body(g, n + 1)
      <4> HIDE DEF g, Body
      <4> QED BY <1>8, <2>1
    <3> HIDE DEF g
    <3> QED BY <2>1, <3>1
  <2> HIDE DEF g, V, More
  <2> QED BY <1>2, <2>2, <2>3
<1>11. Nat \subseteq T
  <2> HIDE DEF T
  <2> QED BY <1>9, <1>10, NatSetInduction
<1>12. g[N] \in V
  <2> HIDE DEF g, V
  <2> QED BY <1>1, <1>11
<1> HIDE DEF g
<1> QED BY <1>7, <1>12

(* No expression leads to itself when its parts come before it.            *)
LEMMA PartsBefore ==
  ASSUME NEW parts, \A f \in Funcs : parts[f] \subseteq 1..(f - 1)
  PROVE  NoLoop(parts)
<1> SUFFICES ASSUME NEW f \in Funcs PROVE f \notin Within(parts, parts[f])
  BY DEF NoLoop
<1>1. f \in Nat /\ f - 1 \in 0..N /\ f \notin 1..(f - 1)
  BY CommonArgsAssumption DEF Funcs
<1>2. Within(parts, parts[f]) \subseteq 1..(f - 1)
  BY <1>1, WithinSmaller
<1> QED BY <1>1, <1>2

(* Below its bound an expression leads to earlier ones.                    *)
LEMMA FoundedAcyclic ==
  ASSUME TypeOK, Founded
  PROVE  Acyclic
<1> DEFINE parts == [f \in Funcs |->
                       IF opt_subs[f] = <<>> THEN {v.n : v \in {w \in ToSet(given[f]) : w.kind = "func"}}
                                             ELSE FuncsIn(ToSet(opt_subs[f]))]
<1>1. PICK bound \in [DOMAIN values -> Nat] : Bounds(bound) BY DEF Founded
<1>2. ASSUME NEW f \in Funcs PROVE parts[f] \subseteq 1..(f - 1)
  <2>1. CASE opt_subs[f] = <<>>
    <3>1. parts[f] = {} BY <2>1 DEF Founded
    <3> QED BY <3>1
  <2>2. CASE opt_subs[f] # <<>>
    <3>1. parts[f] = FuncsIn(ToSet(opt_subs[f])) BY <2>2
    <3>2. \A a \in ToSet(opt_subs[f]) : a \in DOMAIN values /\ bound[a] < f BY <1>1 DEF Bounds
    <3>3. f \in Nat /\ values \in Seq(Value) BY DEF Funcs, TypeOK
    <3>4. FuncsIn(ToSet(opt_subs[f])) \subseteq 1..(f - 1)
      BY <1>1, <3>2, <3>3, FuncsInBound
    <3> QED BY <3>1, <3>4
  <2> QED BY <2>1, <2>2
<1>3. NoLoop(parts)
  <2> HIDE DEF parts
  <2> QED BY <1>2, PartsBefore
<1> QED BY <1>3 DEF Acyclic

(* At the start there are atoms only.                                      *)
LEMMA InitFounded ==
  ASSUME ~Nested, Init
  PROVE  Founded
<1>1. /\ Enumerates(values, ToSet(FlattenSeq(given)))
      /\ ToSet(FlattenSeq(given)) \subseteq ToSet(Arguments)
      /\ \A f \in Funcs : ToSet(given[f]) \subseteq ToSet(FlattenSeq(given))
  BY InitValues
<1>2. \A v \in ToSet(FlattenSeq(given)) : v.kind = "atom" BY <1>1, ArgumentsType
<1>3. \A a \in DOMAIN values : values[a].kind = "atom"
  <2>1. DOMAIN values = 1..Len(values) /\ values \in Seq(ToSet(FlattenSeq(given)))
    BY <1>1, LenProperties DEF Enumerates
  <2>2. \A a \in 1..Len(values) : values[a] \in ToSet(FlattenSeq(given))
    BY <2>1, ElementOfSeq
  <2> QED BY <1>2, <2>1, <2>2
<1>4. opt_subs = [f \in Funcs |-> <<>>] BY DEF Init
<1>5. \A f \in Funcs : ToSet(opt_subs[f]) = {} BY <1>4 DEF ToSet
<1>6. func_to_argset \in [Funcs -> SUBSET DOMAIN values]
  BY InitIndex DEF IndexInv, TypeOK
<1> DEFINE bound == [a \in DOMAIN values |-> 0]
<1>7. bound \in [DOMAIN values -> Nat] OBVIOUS
<1>8. Bounds(bound)
  <2>1. \A f \in Funcs : \A a \in func_to_argset[f] : bound[a] < f
    <3>1. \A f \in Funcs : \A a \in func_to_argset[f] : bound[a] = 0 BY <1>6
    <3> HIDE DEF bound
    <3> QED BY <3>1 DEF Funcs
  <2> QED BY <1>3, <1>5, <2>1 DEF Bounds
<1> QED BY <1>1, <1>2, <1>4, <1>7, <1>8 DEF Founded

(* A name for a part of i holds less than i, and one for all of i is in    *)
(* later expressions only.                                                 *)
LEMMA NamesFounded ==
  ASSUME IndexInv, TypeOK', Founded, NEW funcs, NEW common, NEW number, NEW value,
         Names(funcs, common, number, value), UNCHANGED <<given, opt_subs>>,
         \/ value.kind = "com" /\ ToSet(value.args) = common
         \/ value.kind = "func" /\ value.n = i /\ i \notin funcs
  PROVE  Founded'
<1>1. /\ DOMAIN values \subseteq DOMAIN values' /\ number \in DOMAIN values'
      /\ \A a \in DOMAIN values : values'[a] = values[a]
      /\ values'[number] = value
      /\ \A a \in DOMAIN values' : a \in DOMAIN values \/ a = number
      /\ number \notin DOMAIN values
      /\ funcs \subseteq i..N
  BY DEF Names, Known
<1>2. PICK bound \in [DOMAIN values -> Nat] : Bounds(bound) BY DEF Founded
<1>3. i \in Funcs /\ i \in Nat /\ i >= 1 BY NamesArgs DEF Funcs
<1>4. \A a \in DOMAIN values : a < number
  <2>1. DOMAIN values = 1..Len(values) /\ Len(values) \in Nat
    BY LenProperties DEF IndexInv, TypeOK
  <2>2. DOMAIN values' = 1..Len(values') /\ Len(values') \in Nat
    BY LenProperties DEF TypeOK
  <2>3. number \in Nat /\ number >= 1 BY <1>1, <2>2
  <2>4. number > Len(values) BY <1>1, <2>1, <2>3
  <2> QED BY <2>1, <2>3, <2>4
<1> DEFINE top == IF value.kind = "com" THEN i - 1 ELSE i
<1>5. top \in Nat /\ \A f \in funcs : top < f
  <2>1. \A f \in funcs : f \in Nat /\ f >= i BY <1>1, <1>3
  <2>2. CASE value.kind = "com" BY <1>3, <2>1, <2>2
  <2>3. CASE value.kind # "com"
    <3>1. top = i /\ i \notin funcs BY <2>3
    <3>2. \A f \in funcs : f # i BY <3>1
    <3> HIDE DEF top
    <3> QED BY <1>3, <2>1, <3>1, <3>2
  <2> QED BY <2>2, <2>3
<1>6. PICK next \in [DOMAIN values' -> Nat] :
        (\A a \in DOMAIN values : next[a] = bound[a]) /\ next[number] = top
  <2> DEFINE b == [a \in DOMAIN values' |-> IF a \in DOMAIN values THEN bound[a] ELSE top]
  <2> HIDE DEF top
  <2>1. b \in [DOMAIN values' -> Nat] BY <1>5
  <2>2. (\A a \in DOMAIN values : b[a] = bound[a]) /\ b[number] = top BY <1>1
  <2> HIDE DEF b
  <2> QED BY <2>1, <2>2
<1>7. (\A a \in DOMAIN values : next[a] = bound[a]) /\ next[number] = top
  BY <1>6
<1>8. ASSUME NEW a \in DOMAIN values'
      PROVE  /\ values'[a].kind = "func" => values'[a].n \in 1..next[a]
             /\ values'[a].kind = "com" =>
                  \A b \in ToSet(values'[a].args) :
                    b \in DOMAIN values' /\ b < a /\ next[b] <= next[a]
  <2>1. CASE a \in DOMAIN values
    <3>1. values'[a] = values[a] /\ next[a] = bound[a] BY <1>1, <1>7, <2>1
    <3>2. values[a].kind = "func" => values[a].n \in 1..bound[a] BY <1>2, <2>1 DEF Bounds
    <3>3. ASSUME values[a].kind = "com", NEW b \in ToSet(values[a].args)
          PROVE  b \in DOMAIN values' /\ b < a /\ next[b] <= next[a]
      <4>1. b \in DOMAIN values /\ b < a /\ bound[b] <= bound[a] BY <1>2, <2>1, <3>3 DEF Bounds
      <4> QED BY <1>1, <1>7, <3>1, <4>1
    <3> QED BY <3>1, <3>2, <3>3
  <2>2. CASE a = number
    <3>1. values'[a] = value /\ next[a] = top BY <1>1, <1>7, <2>2
    <3>2. CASE value.kind = "com" /\ ToSet(value.args) = common
      <4>1. ASSUME NEW b \in common PROVE b \in DOMAIN values' /\ b < a /\ next[b] <= next[a]
        <5>1. b \in func_to_argset[i] /\ b \in DOMAIN values BY <1>3, NamesArgs
        <5>2. bound[b] < i /\ bound[b] \in Nat BY <1>2, <1>3, <5>1 DEF Bounds
        <5>3. top = i - 1 BY <3>2
        <5>4. bound[b] <= top
          <6> HIDE DEF top
          <6> QED BY <1>3, <5>2, <5>3
        <5> HIDE DEF top
        <5> QED BY <1>1, <1>4, <1>7, <2>2, <3>1, <5>1, <5>4
      <4> HIDE DEF top
      <4> QED BY <3>1, <3>2, <4>1
    <3>3. CASE value.kind = "func" /\ value.n = i
      <4>1. top = i BY <3>3
      <4> HIDE DEF top
      <4> QED BY <1>3, <3>1, <3>3, <4>1
    <3> QED BY <3>2, <3>3
  <2> QED BY <1>1, <2>1, <2>2
<1>9. ASSUME NEW f \in Funcs, NEW a \in func_to_argset'[f] PROVE next[a] < f
  <2> HIDE DEF top
  <2>1. \A b \in func_to_argset[f] : next[b] < f
    <3>1. func_to_argset[f] \subseteq DOMAIN values BY NamesArgs
    <3> QED BY <1>2, <1>7, <3>1 DEF Bounds
  <2>2. CASE f \in funcs
    <3>1. a \in func_to_argset[f] \/ a = number BY <2>2, NamesArgs
    <3> QED BY <1>5, <1>7, <2>1, <2>2, <3>1
  <2>3. CASE f \notin funcs
    <3>1. a \in func_to_argset[f] BY <2>3, NamesArgs
    <3> QED BY <2>1, <3>1
  <2> QED BY <2>2, <2>3
<1>10. ASSUME NEW f \in Funcs, NEW a \in ToSet(opt_subs'[f])
       PROVE  a \in DOMAIN values' /\ next[a] < f
  <2>1. a \in ToSet(opt_subs[f]) BY <1>10
  <2>2. a \in DOMAIN values /\ bound[a] < f BY <1>2, <2>1 DEF Bounds
  <2> QED BY <1>1, <1>7, <2>2
<1>11. Bounds(next)' BY <1>8, <1>9, <1>10 DEF Bounds
<1> QED BY <1>6, <1>11 DEF Founded

(* A step that gives a part of i, or all of it, a name.                    *)
Named(funcs, common, number, value) ==
  /\ Names(funcs, common, number, value)
  /\ UNCHANGED <<given, opt_subs>>
  /\ \/ /\ value.kind = "com" /\ ToSet(value.args) = common
        /\ Len(value.args) = Cardinality(common) /\ i \in funcs
     \/ value.kind = "func" /\ value.n = i /\ i \notin funcs /\ common = func_to_argset[i]

(* What the two extractions have in common.                                *)
LEMMA ExtractNamed ==
  ASSUME IndexInv, LeftInv, ExtractPart \/ ExtractWhole
  PROVE  \E funcs, common, number, value : Named(funcs, common, number, value)
<1>1. CASE ExtractPart
  <2> DEFINE common == Common(Head(queue))
             funcs == {i, Head(queue)} \cup SubsetCandidates(common, ToSet(Tail(queue)))
             value == Com(Sorted(common))
  <2>1. /\ matching /\ queue # <<>> /\ queue' = Tail(queue) /\ UNCHANGED <<i, matching>>
        /\ Cardinality(common) >= 2 /\ UNCHANGED <<given, opt_subs>>
        /\ Rewrite(funcs, common, value)
    BY <1>1 DEF ExtractPart
  <2>2. value \in Value /\ value.kind = "com" /\ ToSet(value.args) = common
    BY <2>1, NamesType, CommonType DEF Com
  <2>3. \A a \in DOMAIN values : values[a] # value
    <3>1. i \in Funcs /\ common \subseteq func_to_argset[i] BY <2>1 DEF IndexInv, Ahead, Common
    <3> QED BY <2>2, <3>1 DEF LeftInv, NamesUsed
  <2>4. funcs = {i} \cup {Head(queue)} \cup SubsetCandidates(common, ToSet(Tail(queue)))
        /\ common = Common(Head(queue)) /\ i \in funcs
    OBVIOUS
  <2>5. Len(value.args) = Cardinality(common)
    <3>1. Len(values) \in Nat /\ DOMAIN values = 1..Len(values)
      BY LenProperties DEF IndexInv, TypeOK
    <3>2. common \cap 1..Len(values) = common BY <2>1, <3>1, CommonType
    <3>3. Len(Ascending(common, Len(values))) = CountUpto(common, Len(values))
      <4> HIDE DEF common
      <4> QED BY <3>1, AscendingAt
    <3>4. value.args = Ascending(common, Len(values)) BY DEF Com, Sorted
    <3> HIDE DEF common, value
    <3> QED BY <3>2, <3>3, <3>4 DEF CountUpto
  <2> HIDE DEF common, funcs, value
  <2>6. PICK number : Names(funcs, common, number, value)
    BY <2>1, <2>2, <2>3, <2>4, ExtractNames DEF LeftInv
  <2> QED BY <2>1, <2>2, <2>4, <2>5, <2>6 DEF Named
<1>2. CASE ExtractWhole
  <2> DEFINE common == Common(Head(queue))
             funcs == {Head(queue)} \cup SubsetCandidates(common, ToSet(Tail(queue)))
             value == Func(i)
  <2>1. /\ matching /\ queue # <<>> /\ queue' = Tail(queue) /\ UNCHANGED <<i, matching>>
        /\ Cardinality(common) >= 2 /\ common = func_to_argset[i] /\ UNCHANGED <<given, opt_subs>>
        /\ Rewrite(funcs, common, value)
    BY <1>2 DEF ExtractWhole
  <2>2. /\ value \in Value /\ value.kind = "func" /\ value.n = i
        /\ common \subseteq func_to_argset[Head(queue)]
    BY <2>1, NamesType, CommonType DEF Func, Common
  <2>3. i \in Nat /\ Head(queue) \in (i + 1)..N /\ ToSet(Tail(queue)) \subseteq (i + 1)..N
    BY <2>1, QueueType DEF Funcs
  <2>4. \A a \in DOMAIN values : values[a] # value
    BY <2>1, <2>2, <2>3 DEF LeftInv, WholeOnce
  <2>5. i \notin funcs
    BY <2>3 DEF SubsetCandidates
  <2>6. funcs = {} \cup {Head(queue)} \cup SubsetCandidates(common, ToSet(Tail(queue)))
        /\ common = Common(Head(queue))
    OBVIOUS
  <2> HIDE DEF common, funcs, value
  <2>7. PICK number : Names(funcs, common, number, value)
    BY <2>1, <2>2, <2>4, <2>6, ExtractNames DEF LeftInv
  <2> QED BY <2>1, <2>2, <2>5, <2>7 DEF Named
<1> QED BY <1>1, <1>2

(* Every step keeps the bounds.                                            *)
LEMMA FoundedStep ==
  ASSUME IndexInv, LeftInv, Founded, [Next]_vars
  PROVE  Founded'
<1>1. IndexInv' BY IndexStep
<1>2. TypeOK /\ TypeOK' BY <1>1 DEF IndexInv
<1>3. ASSUME UNCHANGED <<given, values, func_to_argset, opt_subs>> PROVE Founded'
  <2>1. PICK bound \in [DOMAIN values -> Nat] : Bounds(bound) BY DEF Founded
  <2>2. Bounds(bound)' BY <1>3, <2>1 DEF Bounds
  <2> QED BY <1>3, <2>1, <2>2 DEF Founded
<1>4. CASE Begin BY <1>3, <1>4 DEF Begin
<1>5. CASE Skip BY <1>3, <1>5 DEF Skip
<1>6. CASE ExtractPart \/ ExtractWhole
  <2>1. PICK funcs, common, number, value : Named(funcs, common, number, value)
    BY <1>6, ExtractNamed
  <2> QED BY <1>2, <2>1, NamesFounded DEF Named
<1>7. CASE Finish
  <2>1. /\ i \in Funcs /\ UNCHANGED <<given, values, func_to_argset>>
        /\ opt_subs' = [opt_subs EXCEPT ![i] = IF i \in changed THEN Sorted(func_to_argset[i])
                                                                ELSE <<>>]
        /\ matching
    BY <1>7 DEF Finish, IndexInv, Ahead
  <2>2. PICK bound \in [DOMAIN values -> Nat] : Bounds(bound) BY DEF Founded
  <2>3. func_to_argset[i] \subseteq DOMAIN values BY <1>2, <2>1 DEF TypeOK
  <2>4. ToSet(opt_subs'[i]) \subseteq func_to_argset[i]
    <3>1. opt_subs'[i] = IF i \in changed THEN Sorted(func_to_argset[i]) ELSE <<>>
      BY <2>1 DEF Founded
    <3>2. ToSet(Sorted(func_to_argset[i])) = func_to_argset[i] BY <2>1, <2>3, NamesType
    <3>3. ToSet(<<>>) = {} BY DEF ToSet
    <3> QED BY <3>1, <3>2, <3>3
  <2>5. ASSUME NEW f \in Funcs, NEW a \in ToSet(opt_subs'[f])
        PROVE  a \in DOMAIN values /\ bound[a] < f
    <3>1. CASE f = i
      <4>1. a \in func_to_argset[i] BY <2>4, <2>5, <3>1
      <4> QED BY <2>1, <2>2, <2>3, <3>1, <4>1 DEF Bounds
    <3>2. CASE f # i
      <4>1. opt_subs'[f] = opt_subs[f] BY <2>1, <3>2 DEF Founded
      <4> QED BY <2>2, <2>5, <4>1 DEF Bounds
    <3> QED BY <3>1, <3>2
  <2>6. Bounds(bound)' BY <2>1, <2>2, <2>5 DEF Bounds
  <2>7. DOMAIN opt_subs' = Funcs BY <2>1 DEF Founded
  <2> QED BY <2>1, <2>2, <2>6, <2>7 DEF Founded
<1>8. CASE UNCHANGED vars BY <1>3, <1>8 DEF vars
<1> QED BY <1>4, <1>5, <1>6, <1>7, <1>8 DEF Next, Done

(* Acyclic: when no expression is an argument of another one, following    *)
(* the replacements, as tree_cse does without a check, comes to an end.    *)
THEOREM ReplacementsEnd == ~Nested => (Spec => []Acyclic)
<1> SUFFICES ASSUME ~Nested PROVE Spec => []Acyclic
  OBVIOUS
<1>1. Init => IndexInv /\ LeftInv /\ Founded BY InitIndex, InitLeft, InitFounded
<1>2. (IndexInv /\ LeftInv /\ Founded) /\ [Next]_vars => (IndexInv /\ LeftInv /\ Founded)'
  BY IndexStep, LeftStep, FoundedStep
<1>3. IndexInv /\ Founded => Acyclic BY FoundedAcyclic DEF IndexInv
<1> QED BY <1>1, <1>2, <1>3, PTL DEF Spec

-----------------------------------------------------------------------------
(* Sums.                                                                   *)

(* A count for each of the numbers in args.                                *)
Countable(count, args) == \A n \in args : count[n] \in Int

(* What number n adds to the sum.                                          *)
Addend(count, args, n) == IF n \in args THEN count[n] ELSE 0

(* The sums up to each number.                                             *)
Sums(upTo, count, args, last) ==
  /\ upTo \in [0..last -> Int]
  /\ upTo[0] = 0
  /\ \A n \in 1..last : upTo[n] = upTo[n - 1] + Addend(count, args, n)
  /\ Total(count, args, last) = upTo[last]

(* The recursion in Total.                                                 *)
LEMMA TotalSteps ==
  ASSUME NEW count, NEW args, Countable(count, args), NEW last \in Nat
  PROVE  \E upTo : Sums(upTo, count, args, last)
<1> DEFINE add(n) == Addend(count, args, n)
           step == [n \in 1..last |-> [s \in Int |-> s + add(n)]]
           Body(g, n) == IF n = 0 THEN 0
                         ELSE g[n - 1] + (IF n \in args THEN count[n] ELSE 0)
           g == CHOOSE g : g = [n \in 0..last |-> Body(g, n)]
<1>1. \A n \in 1..last : add(n) \in Int BY DEF Addend, Countable
<1>2. PICK x : Iterates(last, Int, 0, step, x)
  <2>1. step \in [1..last -> [Int -> Int]]
    <3> HIDE DEF add
    <3> QED BY <1>1
  <2>2. PICK V : V = Int OBVIOUS
  <2>3. step \in [1..last -> [V -> V]] /\ 0 \in V BY <2>1, <2>2
  <2> HIDE DEF step
  <2>4. \E x : Iterates(last, V, 0, step, x) BY <2>3, Iteration
  <2> QED BY <2>2, <2>4
<1>3. x \in [0..last -> Int] /\ x[0] = 0 /\ \A n \in 1..last : x[n] = step[n][x[n - 1]]
  <2> HIDE DEF step
  <2> QED BY <1>2 DEF Iterates
<1>4. ASSUME NEW n \in 1..last PROVE x[n] = x[n - 1] + add(n)
  <2>1. n - 1 \in 0..last OBVIOUS
  <2>2. x[n - 1] \in Int BY <1>3, <2>1
  <2>3. step[n][x[n - 1]] = x[n - 1] + add(n)
    <3> HIDE DEF add
    <3> QED BY <2>2
  <2> HIDE DEF step
  <2> QED BY <1>3, <2>3
<1>5. x = [n \in 0..last |-> Body(x, n)]
  <2>1. ASSUME NEW n \in 0..last PROVE x[n] = Body(x, n)
    <3>1. CASE n = 0 BY <1>3, <3>1
    <3>2. CASE n # 0
      <4>1. n \in 1..last BY <3>2
      <4> QED BY <1>4, <3>2, <4>1 DEF Addend
    <3> QED BY <3>1, <3>2
  <2> HIDE DEF Body
  <2> QED BY <1>3, <2>1
<1>6. g = [n \in 0..last |-> Body(g, n)]
  <2> HIDE DEF Body
  <2> QED BY <1>5, Zenon
<1>7. Total(count, args, last) = g[last] BY DEF Total
<1>8. ASSUME NEW n \in 0..last PROVE g[n] = Body(g, n)
  <2> HIDE DEF Body, g
  <2> QED BY <1>6
<1> HIDE DEF g
<1> DEFINE T == {n \in Nat : n <= last => g[n] = x[n]}
<1>9. 0 \in T BY <1>3, <1>8
<1>10. ASSUME NEW n \in Nat, n \in T PROVE n + 1 \in T
  <2> SUFFICES ASSUME n + 1 <= last PROVE g[n + 1] = x[n + 1]
    OBVIOUS
  <2>1. n + 1 \in 1..last /\ n + 1 \in 0..last /\ (n + 1) - 1 = n /\ n + 1 # 0 OBVIOUS
  <2>2. g[n] = x[n] BY <1>10, <2>1
  <2>3. g[n + 1] = g[n] + add(n + 1) BY <1>8, <2>1 DEF Addend
  <2>4. x[n + 1] = x[n] + add(n + 1)
    <3> HIDE DEF add
    <3> QED BY <1>4, <2>1
  <2> QED BY <2>2, <2>3, <2>4
<1>11. last \in T
  <2> HIDE DEF T
  <2> QED BY <1>9, <1>10, NatSetInduction
<1> QED BY <1>3, <1>4, <1>7, <1>11 DEF Sums

(* A sum from one number to the next.                                      *)
LEMMA TotalNext ==
  ASSUME NEW count, NEW args, Countable(count, args)
  PROVE  /\ Total(count, args, 0) = 0
         /\ \A n \in Nat : /\ Total(count, args, n) \in Int
                           /\ Total(count, args, n + 1)
                                = Total(count, args, n) + Addend(count, args, n + 1)
<1>1. ASSUME NEW n \in Nat
      PROVE  /\ Total(count, args, n) \in Int
             /\ Total(count, args, n + 1) = Total(count, args, n) + Addend(count, args, n + 1)
  <2>1. PICK x : Sums(x, count, args, n) BY TotalSteps
  <2>2. n + 1 \in Nat OBVIOUS
  <2>3. PICK y : Sums(y, count, args, n + 1) BY <2>2, TotalSteps
  <2> DEFINE T == {m \in Nat : m <= n => y[m] = x[m]}
  <2>4. 0 \in T BY <2>1, <2>3 DEF Sums
  <2>5. ASSUME NEW m \in Nat, m \in T PROVE m + 1 \in T
    <3> SUFFICES ASSUME m + 1 <= n PROVE y[m + 1] = x[m + 1]
      OBVIOUS
    <3>1. m + 1 \in 1..n /\ m + 1 \in 1..(n + 1) /\ (m + 1) - 1 = m OBVIOUS
    <3>2. x[m + 1] = x[m] + Addend(count, args, m + 1) BY <2>1, <3>1 DEF Sums
    <3>3. y[m + 1] = y[m] + Addend(count, args, m + 1) BY <2>3, <3>1 DEF Sums
    <3> QED BY <2>5, <3>2, <3>3
  <2>6. n \in T
    <3> HIDE DEF T
    <3> QED BY <2>4, <2>5, NatSetInduction
  <2>7. n \in 0..n /\ n + 1 \in 1..(n + 1) /\ (n + 1) - 1 = n OBVIOUS
  <2>8. y[n + 1] = y[n] + Addend(count, args, n + 1) BY <2>3, <2>7 DEF Sums
  <2> QED BY <2>1, <2>3, <2>6, <2>7, <2>8 DEF Sums
<1>2. Total(count, args, 0) = 0
  <2>1. 0 \in Nat OBVIOUS
  <2>2. PICK x : Sums(x, count, args, 0) BY <2>1, TotalSteps
  <2> QED BY <2>2 DEF Sums
<1> QED BY <1>1, <1>2

(* Equal counts have equal sums, and numbers beyond those in args add      *)
(* nothing.                                                                *)
LEMMA TotalKept ==
  ASSUME NEW count, NEW other, NEW last \in Nat, NEW longer \in Nat, last <= longer,
         NEW args \in SUBSET (1..last), Countable(count, args),
         \A n \in args : other[n] = count[n]
  PROVE  Total(other, args, longer) = Total(count, args, last)
<1>1. Countable(other, args) BY DEF Countable
<1>2. \A n : Addend(other, args, n) = Addend(count, args, n) BY DEF Addend
<1> DEFINE T == {n \in Nat : Total(other, args, n) = Total(count, args, n)}
<1>3. 0 \in T BY <1>1, TotalNext
<1>4. ASSUME NEW n \in Nat, n \in T PROVE n + 1 \in T
  <2>1. Total(other, args, n + 1) = Total(other, args, n) + Addend(other, args, n + 1)
    BY <1>1, TotalNext
  <2>2. Total(count, args, n + 1) = Total(count, args, n) + Addend(count, args, n + 1)
    BY TotalNext
  <2> QED BY <1>2, <1>4, <2>1, <2>2
<1>5. last \in T
  <2> HIDE DEF T
  <2> QED BY <1>3, <1>4, NatSetInduction
<1> DEFINE U == {n \in Nat : Total(other, args, last + n) = Total(other, args, last)}
<1>6. 0 \in U OBVIOUS
<1>7. ASSUME NEW n \in Nat, n \in U PROVE n + 1 \in U
  <2>1. last + n \in Nat /\ (last + n) + 1 = last + (n + 1) OBVIOUS
  <2>2. (last + n) + 1 \notin args OBVIOUS
  <2>3. Total(other, args, (last + n) + 1) = Total(other, args, last + n) + 0
    BY <1>1, <2>1, <2>2, TotalNext DEF Addend
  <2>4. Total(other, args, last + n) \in Int BY <1>1, <2>1, TotalNext
  <2> QED BY <1>7, <2>1, <2>3, <2>4
<1>8. longer - last \in Nat /\ last + (longer - last) = longer OBVIOUS
<1>9. longer - last \in U
  <2> HIDE DEF U
  <2> QED BY <1>6, <1>7, <1>8, NatSetInduction
<1> QED BY <1>5, <1>8, <1>9

(* Two disjoint sets.                                                      *)
LEMMA TotalDisjoint ==
  ASSUME NEW count, NEW args, NEW more, args \cap more = {},
         Countable(count, args), Countable(count, more), NEW last \in Nat
  PROVE  Total(count, args \cup more, last)
           = Total(count, args, last) + Total(count, more, last)
<1> DEFINE both == args \cup more
           T == {n \in Nat : Total(count, both, n) = Total(count, args, n) + Total(count, more, n)}
<1>1. Countable(count, both) BY DEF Countable
<1>2. ASSUME NEW n
      PROVE  /\ Addend(count, both, n) = Addend(count, args, n) + Addend(count, more, n)
             /\ Addend(count, args, n) \in Int /\ Addend(count, more, n) \in Int
  BY DEF Addend, Countable
<1> HIDE DEF both
<1>3. 0 \in T BY <1>1, TotalNext
<1>4. ASSUME NEW n \in Nat, n \in T PROVE n + 1 \in T
  <2>1. Total(count, both, n + 1) = Total(count, both, n) + Addend(count, both, n + 1)
    BY <1>1, TotalNext
  <2>2. /\ Total(count, args, n + 1) = Total(count, args, n) + Addend(count, args, n + 1)
        /\ Total(count, more, n + 1) = Total(count, more, n) + Addend(count, more, n + 1)
        /\ Total(count, args, n) \in Int /\ Total(count, more, n) \in Int
    BY TotalNext
  <2> QED BY <1>2, <1>4, <2>1, <2>2
<1>5. last \in T
  <2> HIDE DEF T
  <2> QED BY <1>3, <1>4, NatSetInduction
<1> QED BY <1>5 DEF both

(* One number.                                                             *)
LEMMA TotalOne ==
  ASSUME NEW count, NEW last \in Nat, NEW k \in 1..last, count[k] \in Int
  PROVE  Total(count, {k}, last) = count[k]
<1> DEFINE T == {n \in Nat : Total(count, {k}, n) = IF n < k THEN 0 ELSE count[k]}
<1>1. Countable(count, {k}) BY DEF Countable
<1>2. 0 \in T BY <1>1, TotalNext
<1>3. ASSUME NEW n \in Nat, n \in T PROVE n + 1 \in T
  <2>1. Total(count, {k}, n + 1) = Total(count, {k}, n) + Addend(count, {k}, n + 1)
    BY <1>1, TotalNext
  <2>2. Addend(count, {k}, n + 1) = IF n + 1 = k THEN count[k] ELSE 0 BY DEF Addend
  <2>3. Total(count, {k}, n) = IF n < k THEN 0 ELSE count[k] BY <1>3
  <2>4. k \in Nat OBVIOUS
  <2> QED BY <2>1, <2>2, <2>3, <2>4
<1>4. last \in T
  <2> HIDE DEF T
  <2> QED BY <1>2, <1>3, NatSetInduction
<1> QED BY <1>4

(* Smaller counts have a smaller sum.                                      *)
LEMMA TotalSmaller ==
  ASSUME NEW count, NEW other, NEW args, Countable(count, args), Countable(other, args),
         \A n \in args : other[n] <= count[n], NEW last \in Nat
  PROVE  Total(other, args, last) <= Total(count, args, last)
<1>1. \A n : /\ Addend(other, args, n) <= Addend(count, args, n)
             /\ Addend(other, args, n) \in Int /\ Addend(count, args, n) \in Int
  BY DEF Addend, Countable
<1> DEFINE T == {n \in Nat : Total(other, args, n) <= Total(count, args, n)}
<1>2. 0 \in T BY TotalNext
<1>3. ASSUME NEW n \in Nat, n \in T PROVE n + 1 \in T
  <2>1. /\ Total(other, args, n + 1) = Total(other, args, n) + Addend(other, args, n + 1)
        /\ Total(count, args, n + 1) = Total(count, args, n) + Addend(count, args, n + 1)
        /\ Total(other, args, n) \in Int /\ Total(count, args, n) \in Int
    BY TotalNext
  <2> QED BY <1>1, <1>3, <2>1
<1>4. last \in T
  <2> HIDE DEF T
  <2> QED BY <1>2, <1>3, NatSetInduction
<1> QED BY <1>4

(* A sum without one of the numbers.                                       *)
LEMMA TotalWithout ==
  ASSUME NEW count, NEW args, Countable(count, args), NEW last \in Nat,
         NEW p \in args, p \in 1..last
  PROVE  Total(count, args, last) = Total(count, args \ {p}, last) + count[p]
<1> DEFINE rest == args \ {p}
<1>1. rest \cup {p} = args /\ rest \cap {p} = {} OBVIOUS
<1>2. Countable(count, rest) /\ Countable(count, {p}) /\ count[p] \in Int
  BY DEF Countable
<1> HIDE DEF rest
<1>3. Total(count, {p}, last) = count[p] BY <1>2, TotalOne
<1>4. Total(count, rest \cup {p}, last) = Total(count, rest, last) + Total(count, {p}, last)
  BY <1>1, <1>2, TotalDisjoint
<1> QED BY <1>1, <1>3, <1>4 DEF rest

(* Smaller counts, and p has a smaller one: the sum falls as much.         *)
LEMMA TotalLess ==
  ASSUME NEW count, NEW other, NEW args, Countable(count, args), Countable(other, args),
         \A n \in args : other[n] <= count[n], NEW last \in Nat, NEW p \in args, p \in 1..last
  PROVE  Total(other, args, last) + (count[p] - other[p]) <= Total(count, args, last)
<1> DEFINE rest == args \ {p}
<1>1. Countable(count, rest) /\ Countable(other, rest) /\ count[p] \in Int /\ other[p] \in Int
  BY DEF Countable
<1>2. Total(count, args, last) = Total(count, rest, last) + count[p] BY TotalWithout
<1>3. Total(other, args, last) = Total(other, rest, last) + other[p] BY TotalWithout
<1>4. \A n \in rest : other[n] <= count[n] OBVIOUS
<1> HIDE DEF rest
<1>5. Total(other, rest, last) <= Total(count, rest, last)
  BY <1>1, <1>4, TotalSmaller
<1>6. Total(other, rest, last) \in Int /\ Total(count, rest, last) \in Int
  BY <1>1, TotalNext
<1> QED BY <1>1, <1>2, <1>3, <1>5, <1>6

-----------------------------------------------------------------------------
(* Rewriting does not change what an expression is.                        *)

(* The numbers of what a value is made of.                                 *)
Made(a) ==
  CASE values[a].kind = "atom" -> {}
    [] values[a].kind = "func" -> Own(values[a].n)
    [] values[a].kind = "com" -> ToSet(values[a].args)

(* Expressions are made of values, and values of earlier ones.             *)
MadeInv ==
  /\ \A f \in Funcs : Own(f) \subseteq DOMAIN values
  /\ \A a \in DOMAIN values : /\ Made(a) \subseteq 1..(a - 1)
                              /\ values[a].kind = "func" => values[a].n \in Funcs

(* The recursion in Content.                                               *)
ContentFits ==
  \A n \in 1..A : /\ Content(n) \in [DOMAIN values -> Int]
                  /\ \A a \in DOMAIN values : Content(n)[a] = Occurs(Content(n), n, a)

LEMMA ContentRecursion == TypeOK /\ MadeInv => ContentFits
<1> SUFFICES ASSUME TypeOK, MadeInv, NEW n \in 1..A
             PROVE  /\ Content(n) \in [DOMAIN values -> Int]
                    /\ \A a \in DOMAIN values : Content(n)[a] = Occurs(Content(n), n, a)
  BY DEF ContentFits
<1> DEFINE D == DOMAIN values
           rank == [a \in D |-> a]
           F == [a \in D |-> [h \in [D -> Int] |-> Occurs(h, n, a)]]
           g == CHOOSE g : g = [a \in D |-> Occurs(g, n, a)]
<1>1. D = 1..Len(values) /\ Len(values) \in Nat BY LenProperties DEF TypeOK
<1>2. \A a \in D : values[a].kind \in {"atom", "func", "com"}
  <2>1. \A a \in D : values[a] \in Value BY <1>1, ElementOfSeq DEF TypeOK
  <2> QED BY <2>1 DEF Value
<1>3. ASSUME NEW a \in D, NEW h1 \in [D -> Int], NEW h2 \in [D -> Int],
             \A e \in D : e < a => h1[e] = h2[e]
      PROVE  Occurs(h1, n, a) = Occurs(h2, n, a) /\ Occurs(h1, n, a) \in Int
  <2>1. Made(a) \subseteq 1..(a - 1) BY DEF MadeInv
  <2>2. Made(a) \subseteq 1..Len(values) /\ \A e \in Made(a) : e \in D /\ e < a
    BY <1>1, <2>1
  <2>3. (\A e \in Made(a) : h2[e] = h1[e]) /\ Countable(h1, Made(a))
    <3> HIDE DEF D
    <3> QED BY <1>3, <2>2 DEF Countable
  <2>4. Total(h2, Made(a), Len(values)) = Total(h1, Made(a), Len(values))
    <3>1. PICK args \in SUBSET (1..Len(values)) : args = Made(a) BY <2>2
    <3>2. (\A e \in args : h2[e] = h1[e]) /\ Countable(h1, args) BY <2>3, <3>1
    <3>3. Len(values) \in Nat /\ Len(values) <= Len(values) BY <1>1
    <3>4. Total(h2, args, Len(values)) = Total(h1, args, Len(values))
      <4> HIDE DEF D, F, g, rank
      <4> QED BY <3>2, <3>3, TotalKept, SMTT(40)
    <3> QED BY <3>1, <3>4
  <2>5. Total(h1, Made(a), Len(values)) \in Int
    BY <1>1, <2>3, TotalNext
  <2>6. CASE values[a].kind = "atom" BY <2>6 DEF Occurs
  <2>7. CASE values[a].kind = "func" BY <2>4, <2>5, <2>7 DEF Occurs, Made
  <2>8. CASE values[a].kind = "com" BY <2>4, <2>5, <2>8 DEF Occurs, Made
  <2> QED BY <1>2, <2>6, <2>7, <2>8
<1>4. F \in [D -> [[D -> Int] -> Int]]
  <2>1. \A a \in D : \A h \in [D -> Int] : Occurs(h, n, a) \in Int
    <3> HIDE DEF D
    <3> QED BY <1>3
  <2> HIDE DEF D
  <2> QED BY <2>1
<1>5. PICK V : V = Int OBVIOUS
<1>6. ByRank(D, V, rank, F)
  <2> SUFFICES ASSUME NEW a \in D, NEW h1 \in [D -> V], NEW h2 \in [D -> V],
                      \A e \in D : rank[e] < rank[a] => h1[e] = h2[e]
               PROVE  F[a][h1] = F[a][h2]
    <3> HIDE DEF D, rank, F
    <3> QED BY DEF ByRank
  <2>1. h1 \in [D -> Int] /\ h2 \in [D -> Int] BY <1>5
  <2>2. \A e \in D : e < a => h1[e] = h2[e] OBVIOUS
  <2>3. Occurs(h1, n, a) = Occurs(h2, n, a)
    <3> HIDE DEF D
    <3> QED BY <1>3, <2>1, <2>2
  <2>4. F[a][h1] = Occurs(h1, n, a) /\ F[a][h2] = Occurs(h2, n, a)
    <3> HIDE DEF D
    <3> QED BY <2>1
  <2> QED BY <2>3, <2>4
<1>7. Recursive(D, V, F)
  <2>1. rank \in [D -> 0..Len(values)] BY <1>1
  <2>2. V # {} BY <1>5
  <2>3. F \in [D -> [[D -> V] -> V]]
    <3> HIDE DEF D, F
    <3> QED BY <1>4, <1>5, Zenon
  <2> HIDE DEF D, rank, F
  <2> QED BY <1>1, <1>6, <2>1, <2>2, <2>3, BoundedRecursion
<1>8. PICK x \in [D -> V] : x = [a \in D |-> F[a][x]]
  BY <1>7, Zenon DEF Recursive
<1>9. x = [a \in D |-> Occurs(x, n, a)]
  <2>1. x \in [D -> Int] BY <1>5
  <2>2. ASSUME NEW a \in D PROVE F[a][x] = Occurs(x, n, a)
    <3>1. F[a] = [h \in [D -> Int] |-> Occurs(h, n, a)]
      <4> HIDE DEF D, g
      <4> QED OBVIOUS
    <3> HIDE DEF D, F, g
    <3> QED BY <2>1, <3>1
  <2> HIDE DEF D, F, g
  <2> QED BY <1>8, <2>2
<1>10. g = [a \in D |-> Occurs(g, n, a)]
  <2> HIDE DEF D
  <2> QED BY <1>9, Zenon
<1>11. Content(n) = g BY Zenon DEF Content
<1>12. DOMAIN g = D /\ \A a \in D : g[a] = Occurs(g, n, a)
  <2> HIDE DEF D, g
  <2> QED BY <1>10
<1> HIDE DEF g
<1> DEFINE T == {m \in Nat : \A a \in D : a <= m => g[a] = x[a]}
<1>13. 0 \in T BY <1>1
<1>14. ASSUME NEW m \in Nat, m \in T PROVE m + 1 \in T
  <2> SUFFICES ASSUME NEW a \in D, a <= m + 1 PROVE g[a] = x[a]
    OBVIOUS
  <2>1. a \in Nat BY <1>1
  <2>2. Made(a) \subseteq 1..(a - 1) BY DEF MadeInv
  <2>3. Made(a) \subseteq 1..Len(values) /\ \A e \in Made(a) : e \in D /\ e <= m
    BY <1>1, <2>1, <2>2
  <2>4. \A e \in Made(a) : g[e] = x[e] BY <1>14, <2>3
  <2>5. Countable(x, Made(a))
    <3> HIDE DEF D
    <3> QED BY <1>5, <2>3 DEF Countable
  <2>6. Total(g, Made(a), Len(values)) = Total(x, Made(a), Len(values))
    BY <1>1, <2>3, <2>4, <2>5, TotalKept
  <2>7. Occurs(g, n, a) = Occurs(x, n, a)
    <3>1. CASE values[a].kind = "atom" BY <3>1 DEF Occurs
    <3>2. CASE values[a].kind = "func" BY <2>6, <3>2 DEF Occurs, Made
    <3>3. CASE values[a].kind = "com" BY <2>6, <3>3 DEF Occurs, Made
    <3> QED BY <1>2, <3>1, <3>2, <3>3
  <2>8. x[a] = Occurs(x, n, a)
    <3> HIDE DEF D
    <3> QED BY <1>9
  <2> QED BY <1>12, <2>7, <2>8
<1>15. Nat \subseteq T
  <2> HIDE DEF T
  <2> QED BY <1>13, <1>14, NatSetInduction
<1>16. \A a \in D : g[a] \in Int
  <2>1. \A a \in D : g[a] = x[a] BY <1>1, <1>15
  <2> HIDE DEF D
  <2> QED BY <1>5, <2>1
<1>17. g \in [D -> Int]
  <2> HIDE DEF D
  <2> QED BY <1>10, <1>12, <1>16
<1> QED BY <1>11, <1>12, <1>17

(* The recursion in Content, after a step.                                 *)
LEMMA ContentPrimed == (TypeOK /\ MadeInv => ContentFits)'
<1>1. TypeOK /\ MadeInv => ContentFits BY ContentRecursion
<1> QED BY <1>1, PTL

(* SumKept, for one atom.                                                  *)
Keeps(n) ==
  \A f \in Funcs :
    Total(Content(n), func_to_argset[f], Len(values)) = Total(Content(n), Own(f), Len(values))

(* The number of a value that is known stays when one is added.            *)
LEMMA NumberKept ==
  ASSUME NEW s, NEW t, NEW v, DOMAIN s \subseteq DOMAIN t, \A k \in DOMAIN s : t[k] = s[k],
         \A k \in DOMAIN t : k \in DOMAIN s \/ t[k] # v
  PROVE  Number(v, t) = Number(v, s)
<1>1. \A k : (k \in DOMAIN t /\ t[k] = v) <=> (k \in DOMAIN s /\ s[k] = v)
  OBVIOUS
<1> QED BY <1>1, Zenon DEF Number

(* What a step that gives a name knows of the values.                      *)
LEMMA NamesValues ==
  ASSUME IndexInv, TypeOK', MadeInv, NEW funcs, NEW common, NEW number, NEW value,
         Names(funcs, common, number, value), given' = given,
         \A f \in Funcs : \A v \in ToSet(given[f]) : v # value
  PROVE  /\ number = Len(values) + 1 /\ Len(values') = number /\ Len(values) \in Nat
         /\ DOMAIN values = 1..Len(values) /\ DOMAIN values' = 1..number
         /\ \A a \in DOMAIN values : values'[a] = values[a]
         /\ values'[number] = value
         /\ \A f \in Funcs : Own(f)' = Own(f)
<1>1. /\ DOMAIN values \subseteq DOMAIN values' /\ number \in DOMAIN values'
      /\ \A a \in DOMAIN values : values'[a] = values[a]
      /\ values'[number] = value
      /\ \A a \in DOMAIN values' : a \in DOMAIN values \/ a = number
      /\ number \notin DOMAIN values
  BY DEF Names, Known
<1>2. DOMAIN values = 1..Len(values) /\ Len(values) \in Nat
  BY LenProperties DEF IndexInv, TypeOK
<1>3. DOMAIN values' = 1..Len(values') /\ Len(values') \in Nat
  BY LenProperties DEF TypeOK
<1>4. number = Len(values) + 1 /\ Len(values') = number
  <2>1. PICK l \in Nat : l = Len(values) BY <1>2
  <2>2. PICK m \in Nat : m = Len(values') BY <1>3
  <2>3. number \in 1..m /\ number \notin 1..l
    <3>1. DOMAIN values = 1..l /\ DOMAIN values' = 1..m BY <1>2, <1>3, <2>1, <2>2
    <3>2. number \in DOMAIN values' /\ number \notin DOMAIN values BY <1>1
    <3> QED BY <3>1, <3>2
  <2>4. 1..l \subseteq 1..m /\ \A a \in 1..m : a \in 1..l \/ a = number
    BY <1>1, <1>2, <1>3, <2>1, <2>2
  <2>5. number >= l + 1 /\ number <= m BY <2>3
  <2>6. l + 1 \in 1..m /\ l + 1 \notin 1..l BY <2>3, <2>5
  <2>7. number = l + 1 BY <2>4, <2>6
  <2>8. (m \in 1..m /\ m \notin 1..l) \/ m = l + 1 BY <2>5, <2>7
  <2>9. m = number BY <2>4, <2>7, <2>8
  <2> QED BY <2>1, <2>2, <2>7, <2>9, SMTT(40)
<1>5. ASSUME NEW f \in Funcs PROVE Own(f)' = Own(f)
  <2>1. ASSUME NEW v \in ToSet(given[f]) PROVE Number(v, values') = Number(v, values)
    <3>1. \A a \in DOMAIN values' : a \in DOMAIN values \/ values'[a] # v BY <1>1
    <3> QED BY <1>1, <3>1, NumberKept
  <2>2. Own(f)' = {Number(v, values') : v \in ToSet(given[f])} BY DEF Own
  <2> QED BY <2>1, <2>2 DEF Own
<1> QED BY <1>1, <1>2, <1>3, <1>4, <1>5

(* The values that there were keep what they hold: c before, d after.      *)
LEMMA ContentKept ==
  ASSUME TypeOK, TypeOK', MadeInv, MadeInv', NEW n \in 1..A,
         Len(values) <= Len(values'), \A a \in DOMAIN values : values'[a] = values[a],
         \A f \in Funcs : Own(f)' = Own(f)
  PROVE  \E c, d : /\ c = Content(n) /\ d = Content(n)'
                   /\ \A a \in DOMAIN values : c[a] = Occurs(c, n, a)
                   /\ \A a \in DOMAIN values' : d[a] = Occurs(d, n, a)' /\ d[a] \in Int
                   /\ \A args \in SUBSET DOMAIN values :
                        /\ Total(d, args, Len(values')) = Total(c, args, Len(values))
                        /\ Countable(c, args) /\ Countable(d, args)
<1>9. PICK c : c = Content(n) OBVIOUS
<1>10. PICK d : d = Content(n)' OBVIOUS
<1>11. PICK L \in Nat : L = Len(values) /\ DOMAIN values = 1..L
  BY LenProperties DEF TypeOK
<1>12. PICK M \in Nat : M = Len(values') /\ DOMAIN values' = 1..M
  BY LenProperties DEF TypeOK
<1>1. L <= M /\ \A a \in 1..L : a \in 1..M
  BY <1>11, <1>12
<1>2. /\ c \in [1..L -> Int]
      /\ \A a \in 1..L : c[a] = Occurs(c, n, a)
  BY <1>9, <1>11, ContentRecursion DEF ContentFits
<1>3. /\ d \in [1..M -> Int]
      /\ \A a \in 1..M : d[a] = Occurs(d, n, a)'
  BY <1>10, <1>12, ContentPrimed DEF ContentFits
<1>4. ASSUME NEW a \in 1..L PROVE values[a].kind \in {"atom", "func", "com"}
  <2>1. values[a] \in Value BY <1>11, <1>4, ElementOfSeq DEF TypeOK
  <2> QED BY <2>1 DEF Value
<1> DEFINE T == {m \in Nat : \A a \in 1..L : a <= m => d[a] = c[a]}
<1>5. 0 \in T OBVIOUS
<1>6. ASSUME NEW m \in Nat, m \in T PROVE m + 1 \in T
  <2> SUFFICES ASSUME NEW a \in 1..L, a <= m + 1 PROVE d[a] = c[a]
    OBVIOUS
  <2>1. a \in Nat /\ a \in DOMAIN values /\ a \in 1..M BY <1>11, <1>1
  <2>2. Made(a) \subseteq 1..(a - 1) BY <2>1 DEF MadeInv
  <2>3. Made(a) \subseteq 1..L /\ \A e \in Made(a) : e <= m BY <2>1, <2>2
  <2>4. (\A e \in Made(a) : d[e] = c[e]) /\ Countable(c, Made(a))
    BY <1>2, <1>6, <2>3 DEF Countable
  <2>5. Total(d, Made(a), M) = Total(c, Made(a), L)
    <3> HIDE DEF T
    <3> QED BY <1>1, <2>3, <2>4, TotalKept
  <2>6. values'[a] = values[a] BY <2>1
  <2>7. c[a] = Occurs(c, n, a) /\ d[a] = Occurs(d, n, a)' BY <1>2, <1>3, <2>1
  <2>8. CASE values[a].kind = "atom"
    BY <2>6, <2>7, <2>8 DEF Occurs
  <2>9. CASE values[a].kind = "func"
    <3>1. PICK f \in Funcs : f = values[a].n BY <2>1, <2>9 DEF MadeInv
    <3>2. Own(f)' = Own(f) /\ Made(a) = Own(f) BY <2>9, <3>1 DEF Made
    <3>3. c[a] = Total(c, Own(f), L) BY <1>11, <2>7, <2>9, <3>1 DEF Occurs
    <3>4. d[a] = Total(d, Own(f)', M) BY <1>12, <2>6, <2>7, <2>9, <3>1 DEF Occurs
    <3> QED BY <2>5, <3>2, <3>3, <3>4
  <2>10. CASE values[a].kind = "com"
    <3>1. c[a] = Total(c, Made(a), L) BY <1>11, <2>7, <2>10 DEF Occurs, Made
    <3>2. d[a] = Total(d, Made(a), M) BY <1>12, <2>6, <2>7, <2>10 DEF Occurs, Made
    <3> QED BY <2>5, <3>1, <3>2
  <2> QED BY <1>4, <2>8, <2>9, <2>10
<1>7. \A a \in 1..L : d[a] = c[a]
  <2>1. Nat \subseteq T
    <3> HIDE DEF T
    <3> QED BY <1>5, <1>6, NatSetInduction
  <2> QED BY <2>1
<1>8. ASSUME NEW args \in SUBSET (1..L)
      PROVE  Total(d, args, M) = Total(c, args, L) /\ Countable(c, args) /\ Countable(d, args)
  <2>1. Countable(c, args) /\ \A e \in args : d[e] = c[e] BY <1>2, <1>7 DEF Countable
  <2>2. Total(d, args, M) = Total(c, args, L)
    <3>1. PICK S \in SUBSET (1..L) : S = args OBVIOUS
    <3>2. (\A e \in S : d[e] = c[e]) /\ Countable(c, S) BY <2>1, <3>1
    <3>3. Total(d, S, M) = Total(c, S, L)
      <4>1. L <= M BY <1>1
      <4> HIDE DEF T
      <4> QED BY <3>2, <4>1, TotalKept, SMTT(60)
    <3> QED BY <3>1, <3>3
  <2> QED BY <2>1, <2>2 DEF Countable
<1> QED BY <1>9, <1>10, <1>11, <1>12, <1>2, <1>3, <1>8

(* A name stands for the sum of the arguments that it replaces.            *)
LEMMA NamesKeep ==
  ASSUME IndexInv, TypeOK', MadeInv, MadeInv', NEW funcs, NEW common, NEW number, NEW value,
         Names(funcs, common, number, value), given' = given,
         \A f \in Funcs : \A v \in ToSet(given[f]) : v # value,
         \/ value.kind = "com" /\ ToSet(value.args) = common
         \/ value.kind = "func" /\ value.n = i /\ common = func_to_argset[i],
         NEW n \in 1..A, Keeps(n)
  PROVE  Keeps(n)'
<1>1. /\ number = Len(values) + 1 /\ Len(values') = number /\ Len(values) \in Nat
      /\ DOMAIN values = 1..Len(values) /\ DOMAIN values' = 1..number
      /\ \A a \in DOMAIN values : values'[a] = values[a]
      /\ values'[number] = value
      /\ \A f \in Funcs : Own(f)' = Own(f)
  BY NamesValues
<1>2. PICK L \in Nat : L = Len(values) BY <1>1
<1>5. number \in Nat /\ L <= number /\ number \in 1..number
  BY <1>1, <1>2
<1>3. PICK c, d : /\ c = Content(n) /\ d = Content(n)'
                  /\ \A a \in DOMAIN values' : d[a] = Occurs(d, n, a)' /\ d[a] \in Int
                  /\ \A args \in SUBSET DOMAIN values :
                       /\ Total(d, args, Len(values')) = Total(c, args, Len(values))
                       /\ Countable(c, args) /\ Countable(d, args)
  <2>1. Len(values) <= Len(values') BY <1>1
  <2> QED BY <1>1, <2>1, ContentKept DEF IndexInv
<1>4. \A f \in Funcs : Total(c, func_to_argset[f], L) = Total(c, Own(f), L)
  BY <1>2, <1>3 DEF Keeps
<1>10. \A args \in SUBSET (1..L) : /\ Total(d, args, number) = Total(c, args, L)
                                   /\ Countable(c, args) /\ Countable(d, args)
  BY <1>1, <1>2, <1>3
<1>11. /\ \A f \in Funcs : func_to_argset[f] \subseteq 1..L /\ number \notin func_to_argset[f]
       /\ \A f \in Funcs : Own(f) \subseteq 1..L
       /\ i \in Funcs /\ common \subseteq func_to_argset[i]
       /\ funcs \subseteq Funcs /\ \A f \in funcs : common \subseteq func_to_argset[f]
  <2>1. i \in Funcs /\ funcs \subseteq i..N BY NamesArgs DEF Names
  <2>2. funcs \subseteq Funcs BY <2>1, CommonArgsAssumption DEF Funcs
  <2>3. \A f \in Funcs : Own(f) \subseteq 1..L BY <1>1, <1>2 DEF MadeInv
  <2>4. \A f \in Funcs : func_to_argset[f] \subseteq DOMAIN values /\ number \notin func_to_argset[f]
    BY NamesArgs
  <2>5. common \subseteq func_to_argset[i] BY NamesArgs
  <2>6. \A f \in funcs : common \subseteq func_to_argset[f] BY DEF Names
  <2> QED BY <1>1, <1>2, <2>1, <2>2, <2>3, <2>4, <2>5, <2>6
<1>12. d[number] = Total(c, common, L)
  <2>1. common \subseteq 1..L BY <1>11
  <2>2. number \in DOMAIN values' BY <1>1
  <2>3. d[number] = Occurs(d, n, number)' BY <1>3, <2>2
  <2>4. CASE value.kind = "com" /\ ToSet(value.args) = common
    <3>1. d[number] = Total(d, common, number) BY <1>1, <2>3, <2>4 DEF Occurs
    <3> QED BY <1>10, <2>1, <3>1
  <2>5. CASE value.kind = "func" /\ value.n = i /\ common = func_to_argset[i]
    <3>1. PICK f \in Funcs : f = i BY <1>11
    <3>2. Own(f)' = Own(f) /\ Own(f) \subseteq 1..L BY <1>1, <1>11
    <3>3. d[number] = Total(d, Own(f)', number) BY <1>1, <2>3, <2>5, <3>1 DEF Occurs
    <3>4. Total(d, Own(f), number) = Total(c, Own(f), L) BY <1>10, <3>2
    <3>5. Total(c, func_to_argset[f], L) = Total(c, Own(f), L) BY <1>4
    <3> QED BY <2>5, <3>1, <3>2, <3>3, <3>4, <3>5
  <2> QED BY <2>4, <2>5
<1>13. ASSUME NEW f \in Funcs
       PROVE  Total(d, func_to_argset'[f], number) = Total(c, func_to_argset[f], L)
  <2>1. CASE f \notin funcs
    <3>1. func_to_argset'[f] = func_to_argset[f] BY <2>1, NamesArgs
    <3> QED BY <1>10, <1>11, <3>1
  <2>2. CASE f \in funcs
    <3> DEFINE rest == func_to_argset[f] \ common
    <3>1. /\ func_to_argset'[f] = rest \cup {number}
          /\ rest \cap {number} = {} /\ rest \subseteq 1..L
          /\ func_to_argset[f] = rest \cup common /\ rest \cap common = {}
          /\ common \subseteq 1..L
      BY <1>11, <2>2, NamesArgs
    <3> HIDE DEF rest
    <3>2. number \in Nat /\ number \in 1..number /\ d[number] \in Int BY <1>5, <1>1, <1>3
    <3>3. Countable(d, {number}) BY <3>2 DEF Countable
    <3>4. /\ Countable(d, rest) /\ Countable(c, rest) /\ Countable(c, common)
          /\ Total(d, rest, number) = Total(c, rest, L)
      BY <1>10, <3>1
    <3>5. Total(d, rest \cup {number}, number) = Total(d, rest, number) + Total(d, {number}, number)
      BY <3>1, <3>2, <3>3, <3>4, TotalDisjoint
    <3>6. Total(d, {number}, number) = d[number] BY <3>2, TotalOne
    <3>7. Total(c, rest \cup common, L) = Total(c, rest, L) + Total(c, common, L)
      <4>1. L \in Nat OBVIOUS
      <4>2. rest \cap common = {} /\ Countable(c, rest) /\ Countable(c, common) BY <3>1, <3>4
      <4> QED BY <4>1, <4>2, TotalDisjoint
    <3> QED BY <1>12, <3>1, <3>4, <3>5, <3>6, <3>7
  <2> QED BY <2>1, <2>2
<1>14. ASSUME NEW f \in Funcs
       PROVE  Total(d, func_to_argset'[f], number) = Total(d, Own(f)', number)
  <2>1. Own(f)' = Own(f) /\ Own(f) \subseteq 1..L BY <1>1, <1>11
  <2>2. Total(d, Own(f), number) = Total(c, Own(f), L) BY <1>10, <2>1
  <2> QED BY <1>4, <1>13, <2>1, <2>2
<1>15. \A f \in Funcs : Total(d, func_to_argset'[f], Len(values')) = Total(d, Own(f)', Len(values'))
  BY <1>1, <1>14
<1> QED BY <1>3, <1>15 DEF Keeps

(* At the start every expression has its own arguments.                    *)
LEMMA InitKept ==
  ASSUME ~Nested, Init
  PROVE  MadeInv /\ SumKept
<1>1. /\ Enumerates(values, ToSet(FlattenSeq(given)))
      /\ ToSet(FlattenSeq(given)) \subseteq ToSet(Arguments)
      /\ \A f \in Funcs : ToSet(given[f]) \subseteq ToSet(FlattenSeq(given))
  BY InitValues
<1>2. \A a \in DOMAIN values : values[a].kind = "atom"
  <2>1. DOMAIN values = 1..Len(values) /\ values \in Seq(ToSet(FlattenSeq(given)))
    BY <1>1, LenProperties DEF Enumerates
  <2>2. \A a \in 1..Len(values) : values[a] \in ToSet(FlattenSeq(given))
    BY <2>1, ElementOfSeq
  <2> QED BY <1>1, <2>1, <2>2, ArgumentsType
<1>3. ASSUME NEW f \in Funcs PROVE Own(f) \subseteq DOMAIN values
  <2>1. ASSUME NEW v \in ToSet(given[f]) PROVE Number(v, values) \in DOMAIN values
    BY <1>1, NumberIn
  <2> QED BY <2>1 DEF Own
<1>4. \A f \in Funcs : func_to_argset[f] = Own(f) BY DEF Init, Own
<1> QED BY <1>2, <1>3, <1>4 DEF MadeInv, Made, SumKept

(* A name is made of numbers before its own.                               *)
LEMMA NamesMade ==
  ASSUME IndexInv, TypeOK', Founded, MadeInv, NEW funcs, NEW common, NEW number, NEW value,
         Named(funcs, common, number, value)
  PROVE  MadeInv' /\ \A f \in Funcs : \A v \in ToSet(given[f]) : v # value
<1>1. \A f \in Funcs : \A v \in ToSet(given[f]) : v # value
  BY DEF Founded, Named
<1>2. Names(funcs, common, number, value) /\ given' = given BY DEF Named
<1>3. /\ number = Len(values) + 1 /\ Len(values') = number /\ Len(values) \in Nat
      /\ DOMAIN values = 1..Len(values) /\ DOMAIN values' = 1..number
      /\ \A a \in DOMAIN values : values'[a] = values[a]
      /\ values'[number] = value
      /\ \A f \in Funcs : Own(f)' = Own(f)
  BY <1>1, <1>2, NamesValues
<1>4. \A f \in Funcs : Own(f)' \subseteq DOMAIN values'
  BY <1>3 DEF MadeInv
<1>5. i \in Funcs /\ common \subseteq DOMAIN values
  BY <1>2, NamesArgs
<1>6. ASSUME NEW a \in DOMAIN values'
      PROVE  /\ Made(a)' \subseteq 1..(a - 1)
             /\ values'[a].kind = "func" => values'[a].n \in Funcs
  <2>1. CASE a \in DOMAIN values
    <3>1. values'[a] = values[a] BY <1>3, <2>1
    <3>2. values[a].kind = "func" => values[a].n \in Funcs BY <2>1 DEF MadeInv
    <3>3. Made(a)' = Made(a) BY <1>3, <3>1, <3>2 DEF Made
    <3> QED BY <2>1, <3>1, <3>2, <3>3 DEF MadeInv
  <2>2. CASE a = number
    <3>1. values'[a] = value /\ 1..(a - 1) = DOMAIN values BY <1>3, <2>2
    <3>2. CASE value.kind = "com" /\ ToSet(value.args) = common
      <4>1. Made(a)' = common BY <3>1, <3>2 DEF Made
      <4> QED BY <1>5, <3>1, <3>2, <4>1
    <3>3. CASE value.kind = "func" /\ value.n = i
      <4>1. PICK f \in Funcs : f = i BY <1>5
      <4>2. Made(a)' = Own(f)' BY <3>1, <3>3, <4>1 DEF Made
      <4>3. Own(f)' = Own(f) /\ Own(f) \subseteq DOMAIN values BY <1>3 DEF MadeInv
      <4> QED BY <3>1, <3>3, <4>1, <4>2, <4>3
    <3> QED BY <3>2, <3>3 DEF Named
  <2> QED BY <1>3, <2>1, <2>2
<1> QED BY <1>1, <1>4, <1>6 DEF MadeInv

(* Every step keeps the sums.                                              *)
LEMMA KeptStep ==
  ASSUME IndexInv, LeftInv, Founded, MadeInv, SumKept, [Next]_vars
  PROVE  MadeInv' /\ SumKept'
<1>1. TypeOK' BY IndexStep DEF IndexInv
<1>2. CASE ExtractPart \/ ExtractWhole
  <2>1. PICK funcs, common, number, value : Named(funcs, common, number, value)
    BY <1>2, ExtractNamed
  <2>2. MadeInv' /\ \A f \in Funcs : \A v \in ToSet(given[f]) : v # value
    BY <1>1, <2>1, NamesMade
  <2>3. Names(funcs, common, number, value) /\ given' = given
    BY <2>1 DEF Named
  <2>4. \/ value.kind = "com" /\ ToSet(value.args) = common
        \/ value.kind = "func" /\ value.n = i /\ common = func_to_argset[i]
    BY <2>1 DEF Named
  <2>5. ASSUME NEW n \in 1..A PROVE Keeps(n)'
    <3>1. Keeps(n) BY DEF SumKept, Keeps
    <3> QED BY <1>1, <2>2, <2>3, <2>4, <3>1, NamesKeep
  <2> QED BY <2>2, <2>5 DEF SumKept, Keeps
<1>3. CASE UNCHANGED <<given, values, func_to_argset>>
  <2>1. MadeInv' BY <1>3 DEF MadeInv, Made, Own
  <2>2. ASSUME NEW n \in 1..A PROVE Keeps(n)'
    <3>1. Keeps(n) BY DEF SumKept, Keeps
    <3>2. given' = given /\ values' = values /\ func_to_argset' = func_to_argset BY <1>3
    <3>3. \A f \in Funcs : Own(f)' = Own(f) BY <3>2 DEF Own
    <3>4. TypeOK /\ Len(values) <= Len(values')
      <4>1. Len(values) \in Nat BY LenProperties DEF IndexInv, TypeOK
      <4> QED BY <3>2, <4>1 DEF IndexInv
    <3>5. PICK c, d : /\ c = Content(n) /\ d = Content(n)'
                      /\ \A args \in SUBSET DOMAIN values :
                           Total(d, args, Len(values')) = Total(c, args, Len(values))
      BY <1>1, <2>1, <3>2, <3>3, <3>4, ContentKept
    <3>6. \A f \in Funcs : func_to_argset[f] \subseteq DOMAIN values /\ Own(f) \subseteq DOMAIN values
      BY <3>4 DEF TypeOK, MadeInv
    <3> QED BY <3>1, <3>2, <3>3, <3>5, <3>6 DEF Keeps
  <2> QED BY <2>1, <2>2 DEF SumKept, Keeps
<1> QED BY <1>2, <1>3 DEF Next, Begin, Skip, Finish, Done, vars

(* The invariant when no expression is an argument of another one.         *)
KeptInv == IndexInv /\ LeftInv /\ Founded /\ MadeInv /\ SumKept

(* SumKept: when no expression is an argument of another one, rewriting    *)
(* never changes what an expression is. Whatever order the names are given *)
(* and used in, expanding them gives each argument as often as before.     *)
THEOREM SumsAlwaysKept == ~Nested => (Spec => []SumKept)
<1> SUFFICES ASSUME ~Nested PROVE Spec => []SumKept
  OBVIOUS
<1>1. Init => KeptInv BY InitIndex, InitLeft, InitFounded, InitKept DEF KeptInv
<1>2. KeptInv /\ [Next]_vars => KeptInv' BY IndexStep, LeftStep, FoundedStep, KeptStep DEF KeptInv
<1>3. KeptInv => SumKept BY DEF KeptInv
<1> QED BY <1>1, <1>2, <1>3, PTL DEF Spec

-----------------------------------------------------------------------------
(* Rewriting saves operations.                                             *)

(* The operations in the expressions and in the names.                     *)
Sizes(args) == [f \in Funcs |-> Cardinality(args[f]) - 1]

Weight(v) == IF v.kind = "com" THEN Len(v.args) - 1 ELSE 0

Weights(known) == [a \in DOMAIN known |-> Weight(known[a])]

(* Operations is the sum of both.                                          *)
LEMMA OperationsParts ==
  Operations = Total(Sizes(func_to_argset), Funcs, N) + Total(Weights(values), DOMAIN values, Len(values))
BY DEF Operations, Sizes, Weights, Weight

(* The same after a step.                                                  *)
LEMMA OperationsPrimed ==
  Operations' = Total(Sizes(func_to_argset'), Funcs, N) + Total(Weights(values'), DOMAIN values', Len(values'))
BY DEF Operations, Sizes, Weights, Weight

(* An expression that has common gets one argument for all of it.          *)
LEMMA NamesSizes ==
  ASSUME IndexInv, NEW funcs, NEW common, NEW number, NEW value,
         Names(funcs, common, number, value)
  PROVE  /\ Cardinality(common) \in Nat /\ Cardinality(common) >= 2
         /\ funcs \subseteq Funcs
         /\ \A f \in Funcs :
              /\ Sizes(func_to_argset)[f] \in Int /\ Sizes(func_to_argset')[f] \in Int
              /\ f \notin funcs => Sizes(func_to_argset')[f] = Sizes(func_to_argset)[f]
              /\ f \in funcs => Sizes(func_to_argset')[f]
                                  = Sizes(func_to_argset)[f] - (Cardinality(common) - 1)
<1>1. i \in Funcs /\ common \subseteq func_to_argset[i] /\ \E x, y \in common : x # y
  BY NamesArgs
<1>2. funcs \subseteq Funcs /\ \A f \in funcs : common \subseteq func_to_argset[f]
  BY <1>1, CommonArgsAssumption DEF Names, Funcs
<1>3. \A f \in Funcs : IsFiniteSet(func_to_argset[f]) /\ Cardinality(func_to_argset[f]) \in Nat
  <2>1. DOMAIN values = 1..Len(values) /\ Len(values) \in Nat
    BY LenProperties DEF IndexInv, TypeOK
  <2>2. IsFiniteSet(DOMAIN values) BY <2>1, FS_Interval
  <2>3. \A f \in Funcs : func_to_argset[f] \subseteq DOMAIN values BY DEF IndexInv, TypeOK
  <2>4. \A f \in Funcs : IsFiniteSet(func_to_argset[f]) BY <2>2, <2>3, FS_Subset
  <2> QED BY <2>4, FS_CardinalityType
<1>4. IsFiniteSet(common) BY <1>1, <1>3, FS_Subset
<1>5. Cardinality(common) \in Nat BY <1>4, FS_CardinalityType
<1>6. Cardinality(common) >= 2
  <2>1. ~ (Cardinality(common) <= 1) BY <1>1, <1>4, OneAtMost
  <2> QED BY <1>5, <2>1
<1>7. ASSUME NEW f \in Funcs, f \in funcs
      PROVE  Cardinality(func_to_argset'[f]) = Cardinality(func_to_argset[f]) - Cardinality(common) + 1
             /\ Cardinality(func_to_argset'[f]) \in Int
  <2> DEFINE rest == func_to_argset[f] \ common
  <2>1. func_to_argset'[f] = rest \cup {number} /\ number \notin rest
    <3>1. number \notin func_to_argset[f] BY NamesArgs
    <3>2. func_to_argset'[f] = (func_to_argset[f] \ common) \cup {number} BY <1>7, NamesArgs
    <3> QED BY <3>1, <3>2
  <2>2. func_to_argset[f] \cap common = common BY <1>2, <1>7
  <2>3. IsFiniteSet(rest) /\ Cardinality(rest) = Cardinality(func_to_argset[f]) - Cardinality(common)
    <3>1. PICK S : S = func_to_argset[f] OBVIOUS
    <3>2. IsFiniteSet(S) BY <1>3, <3>1
    <3>3. IsFiniteSet(S \ common) /\ Cardinality(S \ common) = Cardinality(S) - Cardinality(S \cap common)
      BY <3>2, FS_Difference
    <3> QED BY <2>2, <3>1, <3>3
  <2> HIDE DEF rest
  <2>4. Cardinality(rest \cup {number}) = Cardinality(rest) + 1 BY <2>1, <2>3, FS_AddElement
  <2> QED BY <1>3, <1>5, <2>1, <2>3, <2>4
<1>8. ASSUME NEW f \in Funcs, f \notin funcs PROVE func_to_argset'[f] = func_to_argset[f]
  BY <1>8, NamesArgs
<1>9. ASSUME NEW f \in Funcs
      PROVE  /\ Sizes(func_to_argset)[f] = Cardinality(func_to_argset[f]) - 1
             /\ Sizes(func_to_argset')[f] = Cardinality(func_to_argset'[f]) - 1
  BY DEF Sizes
<1>10. ASSUME NEW f \in Funcs
       PROVE  /\ Sizes(func_to_argset)[f] \in Int /\ Sizes(func_to_argset')[f] \in Int
              /\ f \notin funcs => Sizes(func_to_argset')[f] = Sizes(func_to_argset)[f]
              /\ f \in funcs => Sizes(func_to_argset')[f]
                                  = Sizes(func_to_argset)[f] - (Cardinality(common) - 1)
  <2>1. CASE f \in funcs BY <1>3, <1>5, <1>7, <1>9, <2>1
  <2>2. CASE f \notin funcs BY <1>3, <1>8, <1>9, <2>2
  <2> QED BY <2>1, <2>2
<1> QED BY <1>2, <1>5, <1>6, <1>10

(* A name adds its own operations to those of the names before.            *)
LEMMA NamesWeights ==
  ASSUME IndexInv, TypeOK', Founded, MadeInv, NEW funcs, NEW common, NEW number, NEW value,
         Named(funcs, common, number, value), Weight(value) \in Int
  PROVE  /\ Total(Weights(values), DOMAIN values, Len(values)) \in Int
         /\ Total(Weights(values'), DOMAIN values', Len(values'))
              = Total(Weights(values), DOMAIN values, Len(values)) + Weight(value)
<1>1. \A f \in Funcs : \A v \in ToSet(given[f]) : v # value
  BY DEF Founded, Named
<1>2. /\ number = Len(values) + 1 /\ Len(values') = number
      /\ DOMAIN values = 1..Len(values) /\ DOMAIN values' = 1..number
      /\ \A a \in DOMAIN values : values'[a] = values[a]
      /\ values'[number] = value /\ Len(values) \in Nat
  BY <1>1, NamesValues DEF Named
<1>3. PICK L \in Nat : L = Len(values) BY <1>2
<1>4. number = L + 1 /\ 1..number = (1..L) \cup {number} /\ (1..L) \cap {number} = {}
      /\ number \in Nat /\ number \in 1..number /\ L <= number
  BY <1>2, <1>3
<1> DEFINE w == Weights(values)
           next == Weights(values')
<1>5. \A a \in 1..L : w[a] = Weight(values[a]) /\ next[a] = w[a]
  BY <1>2, <1>3, <1>4 DEF Weights
<1>6. next[number] = Weight(value) BY <1>2, <1>4 DEF Weights
<1>7. \A a \in 1..L : Weight(values[a]) \in Int
  <2>1. ASSUME NEW a \in 1..L PROVE Weight(values[a]) \in Int
    <3>1. values[a] \in Value BY <1>2, <1>3, ElementOfSeq DEF IndexInv, TypeOK
    <3>2. values[a].args \in Seq(Nat) BY <3>1 DEF Value
    <3>3. Len(values[a].args) \in Nat BY <3>2, LenProperties
    <3> QED BY <3>3 DEF Weight
  <2> QED BY <2>1
<1> HIDE DEF w, next
<1>8. Countable(w, 1..L) /\ Countable(next, 1..L) /\ Countable(next, {number})
  BY <1>5, <1>6, <1>7 DEF Countable
<1>9. Total(next, (1..L) \cup {number}, number) = Total(next, 1..L, number) + Total(next, {number}, number)
  BY <1>4, <1>8, TotalDisjoint
<1>10. Total(next, 1..L, number) = Total(w, 1..L, L)
  <2>1. PICK S \in SUBSET (1..L) : S = 1..L OBVIOUS
  <2>2. (\A a \in S : next[a] = w[a]) /\ Countable(w, S) BY <1>5, <1>8, <2>1
  <2>3. Total(next, S, number) = Total(w, S, L) BY <1>4, <2>2, TotalKept
  <2> QED BY <2>1, <2>3
<1>11. Total(next, {number}, number) = Weight(value)
  BY <1>4, <1>6, TotalOne
<1>12. Total(w, 1..L, L) \in Int BY <1>8, TotalNext
<1> QED BY <1>2, <1>3, <1>4, <1>9, <1>10, <1>11, <1>12 DEF w, next

(* A name costs less than what it replaces: a part of i is replaced in i   *)
(* and in the candidate, and all of i costs nothing more.                  *)
LEMMA NamesSave ==
  ASSUME IndexInv, TypeOK', Founded, MadeInv, NEW funcs, NEW common, NEW number, NEW value,
         Named(funcs, common, number, value)
  PROVE  Operations' < Operations
<1> DEFINE x == Sizes(func_to_argset)
           y == Sizes(func_to_argset')
           k == Cardinality(common)
           j == Head(queue)
           W == Total(Weights(values), DOMAIN values, Len(values))
           V == Total(Weights(values'), DOMAIN values', Len(values'))
<1>1. Names(funcs, common, number, value) BY DEF Named
<1>2. /\ k \in Nat /\ k >= 2 /\ funcs \subseteq Funcs
      /\ \A f \in Funcs : /\ x[f] \in Int /\ y[f] \in Int
                          /\ f \notin funcs => y[f] = x[f]
                          /\ f \in funcs => y[f] = x[f] - (k - 1)
  BY <1>1, NamesSizes
<1>3. Operations = Total(x, Funcs, N) + W /\ Operations' = Total(y, Funcs, N) + V
  BY OperationsParts, OperationsPrimed
<1>4. /\ j \in funcs /\ j \in Funcs /\ j # i /\ i \in Funcs
      /\ j \in 1..N /\ i \in 1..N /\ N \in Nat
  <2>1. i \in Funcs /\ j \in (i + 1)..N BY <1>1, NamesArgs
  <2>2. j # i BY <2>1 DEF Funcs
  <2> QED BY <1>1, <1>2, <2>1, <2>2, CommonArgsAssumption DEF Names, Funcs
<1>5. Weight(value) \in Int => W \in Int /\ V = W + Weight(value)
  BY NamesWeights
<1> HIDE DEF x, y, k, j, W, V
<1>6. \A f \in Funcs : y[f] <= x[f]
  <2>1. ASSUME NEW f \in Funcs PROVE y[f] <= x[f]
    <3>1. f \in funcs \/ f \notin funcs OBVIOUS
    <3> QED BY <1>2, <3>1
  <2> QED BY <2>1
<1>7. Countable(x, Funcs) /\ Countable(y, Funcs)
      /\ Countable(x, Funcs \ {i}) /\ Countable(y, Funcs \ {i})
  BY <1>2 DEF Countable
<1>8. Total(x, Funcs, N) \in Int /\ Total(y, Funcs, N) \in Int
      /\ Total(x, Funcs \ {i}, N) \in Int /\ Total(y, Funcs \ {i}, N) \in Int
  BY <1>4, <1>7, TotalNext
<1>9. CASE value.kind = "com" /\ Len(value.args) = Cardinality(common) /\ i \in funcs
  <2>1. Weight(value) = k - 1 BY <1>9 DEF Weight, k
  <2>2. W \in Int /\ V = W + (k - 1) BY <1>2, <1>5, <2>1
  <2>3. x[i] - y[i] = k - 1 /\ x[j] - y[j] = k - 1 BY <1>2, <1>4, <1>9
  <2>4. j \in Funcs \ {i} /\ \A f \in Funcs \ {i} : y[f] <= x[f] BY <1>4, <1>6
  <2>5. Total(y, Funcs \ {i}, N) + (x[j] - y[j]) <= Total(x, Funcs \ {i}, N)
    BY <1>4, <1>7, <2>4, TotalLess
  <2>6. /\ Total(x, Funcs, N) = Total(x, Funcs \ {i}, N) + x[i]
        /\ Total(y, Funcs, N) = Total(y, Funcs \ {i}, N) + y[i]
    BY <1>4, <1>7, TotalWithout
  <2>7. x[i] \in Int /\ y[i] \in Int BY <1>2, <1>4
  <2>8. Total(y, Funcs, N) + (k - 1) + (k - 1) <= Total(x, Funcs, N)
    BY <1>2, <1>8, <2>3, <2>5, <2>6, <2>7
  <2> QED BY <1>2, <1>3, <1>8, <2>2, <2>8
<1>10. CASE value.kind = "func"
  <2>1. Weight(value) = 0 BY <1>10 DEF Weight
  <2>2. W \in Int /\ V = W BY <1>5, <2>1
  <2>3. x[j] - y[j] = k - 1 BY <1>2, <1>4
  <2>4. Total(y, Funcs, N) + (x[j] - y[j]) <= Total(x, Funcs, N)
    BY <1>4, <1>6, <1>7, TotalLess
  <2>5. Total(y, Funcs, N) + (k - 1) <= Total(x, Funcs, N) BY <2>3, <2>4
  <2> QED BY <1>2, <1>3, <1>8, <2>2, <2>5
<1> QED BY <1>9, <1>10 DEF Named

(* EachStepSaves: when no expression is an argument of another one, every  *)
(* rewriting leaves fewer additions (or multiplications) to do.            *)
THEOREM RewritingSaves == ~Nested => (Spec => EachStepSaves)
<1> SUFFICES ASSUME ~Nested PROVE Spec => EachStepSaves
  OBVIOUS
<1>1. Init => KeptInv BY InitIndex, InitLeft, InitFounded, InitKept DEF KeptInv
<1>2. KeptInv /\ [Next]_vars => KeptInv' BY IndexStep, LeftStep, FoundedStep, KeptStep DEF KeptInv
<1>3. KeptInv /\ [Next]_vars => [func_to_argset' # func_to_argset => Operations' < Operations]_vars
  <2> SUFFICES ASSUME KeptInv, [Next]_vars, func_to_argset' # func_to_argset
               PROVE  Operations' < Operations
    OBVIOUS
  <2>1. TypeOK' BY IndexStep DEF IndexInv, KeptInv
  <2>2. ExtractPart \/ ExtractWhole BY DEF Next, Begin, Skip, Finish, Done, vars
  <2>3. PICK funcs, common, number, value : Named(funcs, common, number, value)
    BY <2>2, ExtractNamed DEF KeptInv
  <2> QED BY <2>1, <2>3, NamesSave DEF KeptInv
<1> QED BY <1>1, <1>2, <1>3, PTL DEF Spec, EachStepSaves

=============================================================================
