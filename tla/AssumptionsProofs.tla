------------------------- MODULE AssumptionsProofs -------------------------
(***************************************************************************)
(* What Assumptions answers about a symbol follows from its statements,    *)
(* for any symbols, statements and values.                                 *)
(*                                                                         *)
(* Each statement enters only what it says (the lemma Consequences), so    *)
(* EntriesSound is kept by every step; and where two entries clash, a      *)
(* value that made both statements true would be in a map and not in it.   *)
(***************************************************************************)
EXTENDS Assumptions, TLAPS

\* What entries say of m is true of v.
EntryTrue(entries, m, v) == /\ entries[m] = "true" => Means(m, v)
                            /\ entries[m] = "false" => ~Means(m, v)

\* What reading s enters: the sets and the entries.
Enters(s, sets, entries) ==
  /\ sets \in SUBSET Sorts
  /\ entries \in [Maps -> Tribool]
  /\ \A v \in Values : Says(s, v) =>
       /\ \A set \in sets : InSet(set, v)
       /\ \A m \in Maps : EntryTrue(entries, m, v)

LEMMA EntersTypes ==
  /\ Nothing \in [Maps -> Tribool]
  /\ EntersPositive \in [Maps -> Tribool]
  /\ EntersNegative \in [Maps -> Tribool]
  /\ EntersZero \in [Maps -> Tribool]
  /\ EntersNonzero \in [Maps -> Tribool]
  /\ EntersNonnegative \in [Maps -> Tribool]
  /\ EntersNonpositive \in [Maps -> Tribool]
BY DEF Nothing, EntersPositive, EntersNegative, EntersZero, EntersNonzero,
       EntersNonnegative, EntersNonpositive, Truth, Tribool, Maps

\* The entries say what their names say.
LEMMA EntriesMean ==
  ASSUME NEW v \in Number, NEW m \in Maps
  PROVE  /\ IsPositive(v) => EntryTrue(EntersPositive, m, v)
         /\ IsNegative(v) => EntryTrue(EntersNegative, m, v)
         /\ IsZero(v) => EntryTrue(EntersZero, m, v)
         /\ ~IsZero(v) => EntryTrue(EntersNonzero, m, v)
         /\ IsReal(v) /\ v.re >= 0 => EntryTrue(EntersNonnegative, m, v)
         /\ IsReal(v) /\ v.re <= 0 => EntryTrue(EntersNonpositive, m, v)
         /\ EntryTrue(Nothing, m, v)
<1>1. v.re \in Int /\ v.im \in Int
  BY DEF Number
<1>2. IsPositive(v) => EntryTrue(EntersPositive, m, v)
  BY <1>1 DEF EntryTrue, Maps, EntersPositive, Truth, Means, IsPositive, IsNegative, IsZero, IsReal
<1>3. IsNegative(v) => EntryTrue(EntersNegative, m, v)
  BY <1>1 DEF EntryTrue, Maps, EntersNegative, Truth, Means, IsPositive, IsNegative, IsZero, IsReal
<1>4. IsZero(v) => EntryTrue(EntersZero, m, v)
  BY <1>1 DEF EntryTrue, Maps, EntersZero, Truth, Means, IsPositive, IsNegative, IsZero, IsReal
<1>5. ~IsZero(v) => EntryTrue(EntersNonzero, m, v)
  BY <1>1 DEF EntryTrue, Maps, Nothing, EntersNonzero, Means
<1>6. IsReal(v) /\ v.re >= 0 => EntryTrue(EntersNonnegative, m, v)
  BY <1>1 DEF EntryTrue, Maps, Nothing, EntersNonnegative, Means, IsNegative, IsReal
<1>7. IsReal(v) /\ v.re <= 0 => EntryTrue(EntersNonpositive, m, v)
  BY <1>1 DEF EntryTrue, Maps, Nothing, EntersNonpositive, Means, IsPositive, IsReal
<1>8. EntryTrue(Nothing, m, v)
  BY DEF EntryTrue, Nothing
<1> QED
  BY <1>2, <1>3, <1>4, <1>5, <1>6, <1>7, <1>8

LEMMA LessThanEntersTrue ==
  ASSUME NEW s \in Statements, s.rel = "le"
  PROVE  Enters(s, {"real"}, LessThanEnters(s))
<1>1. s \in Statement /\ IsReal(s.number) /\ s.number \in Number
  BY AssumptionsAssumption DEF Statement
<1>2. LessThanEnters(s) \in [Maps -> Tribool]
  BY EntersTypes DEF LessThanEnters
<1>3. ASSUME NEW v \in Values, Says(s, v), NEW m \in Maps
      PROVE  EntryTrue(LessThanEnters(s), m, v)
  <2>1. v \in Number
    BY AssumptionsAssumption
  <2>2. IsReal(v) /\ (IF s.first THEN v.re <= s.number.re ELSE s.number.re <= v.re)
    BY <1>3 DEF Says
  <2>3. /\ s.first /\ IsNegative(s.number) => IsNegative(v)
        /\ s.first /\ IsZero(s.number) => v.re <= 0
        /\ ~s.first /\ IsPositive(s.number) => IsPositive(v)
        /\ ~s.first /\ IsZero(s.number) => v.re >= 0
    BY <1>1, <2>1, <2>2 DEF IsNegative, IsPositive, IsZero, IsReal, Number
  <2> QED
    BY <2>1, <2>2, <2>3, EntriesMean DEF LessThanEnters
<1>4. ASSUME NEW v \in Values, Says(s, v) PROVE InSet("real", v)
  BY <1>4 DEF Says, InSet
<1> QED
  BY <1>2, <1>3, <1>4 DEF Enters, Sorts

LEMMA StrictLessThanEntersTrue ==
  ASSUME NEW s \in Statements, s.rel = "lt"
  PROVE  Enters(s, {"real"}, StrictLessThanEnters(s))
<1>1. s \in Statement /\ IsReal(s.number) /\ s.number \in Number
  BY AssumptionsAssumption DEF Statement
<1>2. StrictLessThanEnters(s) \in [Maps -> Tribool]
  BY EntersTypes DEF StrictLessThanEnters
<1>3. ASSUME NEW v \in Values, Says(s, v), NEW m \in Maps
      PROVE  EntryTrue(StrictLessThanEnters(s), m, v)
  <2>1. v \in Number
    BY AssumptionsAssumption
  <2>2. IsReal(v) /\ (IF s.first THEN v.re < s.number.re ELSE s.number.re < v.re)
    BY <1>3 DEF Says
  <2>3. /\ s.first /\ ~IsPositive(s.number) => IsNegative(v)
        /\ ~s.first /\ ~IsNegative(s.number) => IsPositive(v)
    BY <1>1, <2>1, <2>2 DEF IsNegative, IsPositive, IsReal, Number
  <2> QED
    BY <2>1, <2>2, <2>3, EntriesMean DEF StrictLessThanEnters
<1>4. ASSUME NEW v \in Values, Says(s, v) PROVE InSet("real", v)
  BY <1>4 DEF Says, InSet
<1> QED
  BY <1>2, <1>3, <1>4 DEF Enters, Sorts

LEMMA EqualityEntersTrue ==
  ASSUME NEW s \in Statements, s.rel = "eq"
  PROVE  /\ IsZero(s.number) => Enters(s, Sorts, EntersZero)
         /\ ~IsZero(s.number) => Enters(s, {"complex"}, EntersNonzero)
<1>1. ASSUME NEW v \in Values, Says(s, v) PROVE v \in Number /\ v = s.number
  BY <1>1, AssumptionsAssumption DEF Says
<1>2. ASSUME IsZero(s.number) PROVE Enters(s, Sorts, EntersZero)
  <2>1. ASSUME NEW v \in Values, Says(s, v), NEW set \in Sorts PROVE InSet(set, v)
    BY <1>1, <1>2, <2>1 DEF InSet, IsZero, IsReal, Sorts
  <2> QED
    BY <1>1, <1>2, <2>1, EntersTypes, EntriesMean DEF Enters
<1>3. ASSUME ~IsZero(s.number) PROVE Enters(s, {"complex"}, EntersNonzero)
  <2>1. ASSUME NEW v \in Values PROVE InSet("complex", v)
    BY DEF InSet
  <2> QED
    BY <1>1, <1>3, <2>1, EntersTypes, EntriesMean DEF Enters, Sorts
<1> QED
  BY <1>2, <1>3

LEMMA UnequalityEntersTrue ==
  ASSUME NEW s \in Statements, s.rel = "ne"
  PROVE  Enters(s, {}, IF IsZero(s.number) THEN EntersNonzero ELSE Nothing)
<1>1. s.number \in Number
  BY AssumptionsAssumption DEF Statement
<1>2. ASSUME NEW v \in Values, Says(s, v), IsZero(s.number) PROVE v \in Number /\ ~IsZero(v)
  BY <1>1, <1>2, AssumptionsAssumption DEF Says, IsZero, Number
<1> QED
  BY <1>2, EntersTypes, EntriesMean, AssumptionsAssumption DEF Enters

LEMMA ContainsEntersTrue ==
  ASSUME NEW s \in Statements, s.rel = "contains"
  PROVE  Enters(s, Above(s.set), Nothing)
<1>1. s.set \in Sorts \cup {"other"}
  BY AssumptionsAssumption DEF Statement
<1>2. Above(s.set) \in SUBSET Sorts
  BY DEF Above, Sorts
<1>3. ASSUME NEW v \in Values, Says(s, v), NEW set \in Above(s.set) PROVE InSet(set, v)
  <2>1. v.re \in Int
    BY AssumptionsAssumption DEF Number
  <2>2. v.re % 4 = 0 => v.re % 2 = 0
    BY <2>1
  <2>3. InSet(s.set, v)
    BY <1>3 DEF Says
  <2> QED
    BY <1>1, <1>3, <2>2, <2>3 DEF InSet, Above, Sorts
<1> QED
  BY <1>2, <1>3, EntersTypes, EntriesMean, AssumptionsAssumption DEF Enters

LEMMA OtherEntersTrue ==
  ASSUME NEW s \in Statements PROVE Enters(s, {}, Nothing)
BY EntersTypes, EntriesMean, AssumptionsAssumption DEF Enters

\* Every step reads one statement and enters consequences of it.
LEMMA Consequences ==
  ASSUME TypeOK, Next
  PROVE  ~thrown /\ \E s \in left, sets \in SUBSET Sorts, entries \in [Maps -> Tribool] :
           Enters(s, sets, entries) /\ Enter(s, sets, entries)
<1>1. ~thrown
  BY DEF Next
<1>2. PICK s \in left : \/ ReadContains(s) \/ ReadLessThan(s) \/ ReadStrictLessThan(s)
                        \/ ReadEquality(s) \/ ReadUnequality(s) \/ ReadOther(s)
  BY DEF Next
<1>3. s \in Statements
  BY DEF TypeOK
<1> SUFFICES \E sets, entries : Enters(s, sets, entries) /\ Enter(s, sets, entries)
  BY <1>1 DEF Enters
<1>4. CASE ReadContains(s)
  BY <1>3, <1>4, ContainsEntersTrue DEF ReadContains
<1>5. CASE ReadLessThan(s)
  BY <1>3, <1>5, LessThanEntersTrue DEF ReadLessThan
<1>6. CASE ReadStrictLessThan(s)
  BY <1>3, <1>6, StrictLessThanEntersTrue DEF ReadStrictLessThan
<1>7. CASE ReadEquality(s)
  BY <1>3, <1>7, EqualityEntersTrue DEF ReadEquality
<1>8. CASE ReadUnequality(s)
  BY <1>3, <1>8, UnequalityEntersTrue DEF ReadUnequality
<1>9. CASE ReadOther(s)
  BY <1>3, <1>9, OtherEntersTrue DEF ReadOther
<1> QED
  BY <1>2, <1>4, <1>5, <1>6, <1>7, <1>8, <1>9

IInv == TypeOK /\ FactsSound

LEMMA Initially == Init => IInv
<1> SUFFICES ASSUME Init PROVE IInv
  OBVIOUS
<1>1. TypeOK
  BY EntersTypes DEF Init, TypeOK
<1>2. EntriesSound
  BY EntersTypes, EntriesMean, AssumptionsAssumption
  DEF Init, EntriesSound, EntriesTrue, EntryTrue, Nothing
<1>3. RefusalsJustified
  BY DEF Init, RefusalsJustified
<1> QED
  BY <1>1, <1>2, <1>3 DEF IInv, FactsSound

LEMMA Inductive == IInv /\ [Next]_vars => IInv'
<1> SUFFICES ASSUME IInv, [Next]_vars PROVE IInv'
  OBVIOUS
<1> USE DEF IInv, FactsSound
<1>1. CASE UNCHANGED vars
  BY <1>1 DEF vars, TypeOK, EntriesSound, EntriesTrue, Possible, RefusalsJustified
<1>2. CASE Next
  <2>1. PICK s \in left, sets \in SUBSET Sorts, entries \in [Maps -> Tribool] :
          Enters(s, sets, entries) /\ Enter(s, sets, entries)
    BY <1>2, Consequences
  <2>2. /\ s \in Statements /\ s \in given /\ s.symbol \in Symbols
        /\ left' = left \ {s} /\ given' = given /\ ~thrown
    <3>1. s \in Statements /\ s \in given
      BY DEF TypeOK
    <3>2. s.symbol \in Symbols
      BY <3>1, AssumptionsAssumption DEF Statement
    <3>3. left' = left \ {s} /\ given' = given
      BY <2>1 DEF Enter
    <3>4. ~thrown
      BY <1>2 DEF Next
    <3> QED
      BY <3>1, <3>2, <3>3, <3>4
  <2>3. given' \ left' = (given \ left) \cup {s}
    BY <2>2 DEF TypeOK
  \* a value possible after the step was possible before, and s says so of its symbol
  <2>4. ASSUME NEW x \in Symbols, NEW v \in Values, Possible((given \ left) \cup {s}, x, v)
        PROVE  /\ EntriesTrue(x, v)
               /\ s.symbol = x => Says(s, v)
    BY <2>4 DEF Possible, EntriesSound
  <2>5. CASE Clashes(s.symbol, entries)
    <3>1. thrown' /\ sorts' = sorts /\ known' = known
      BY <2>1, <2>5 DEF Enter
    <3>2. TypeOK'
      BY <2>2, <3>1 DEF TypeOK
    <3>3. EntriesSound'
      BY <2>3, <2>4, <3>1 DEF EntriesSound, EntriesTrue
    <3>4. ASSUME NEW v \in Values, Possible(given, s.symbol, v) PROVE FALSE
      <4>1. Possible((given \ left) \cup {s}, s.symbol, v)
        BY <2>2, <3>4 DEF Possible
      <4>2. EntriesTrue(s.symbol, v) /\ Says(s, v)
        BY <2>2, <2>4, <4>1
      <4>3. PICK m \in Maps : /\ known[s.symbol][m] # "indeterminate" /\ entries[m] # "indeterminate"
                              /\ known[s.symbol][m] # entries[m]
        BY <2>5 DEF Clashes
      <4>4. known[s.symbol][m] \in Tribool /\ entries[m] \in Tribool
        BY <2>2 DEF TypeOK
      <4> QED
        BY <2>1, <4>2, <4>3, <4>4 DEF Enters, EntryTrue, EntriesTrue, Tribool
    <3>5. RefusalsJustified'
      BY <2>2, <3>4 DEF RefusalsJustified
    <3> QED
      BY <3>2, <3>3, <3>5
  <2>6. CASE ~Clashes(s.symbol, entries)
    <3> DEFINE merged == [m \in Maps |-> IF entries[m] = "indeterminate"
                                          THEN known[s.symbol][m] ELSE entries[m]]
    <3>1. /\ ~thrown' /\ thrown' = thrown
          /\ sorts' = [sorts EXCEPT ![s.symbol] = @ \cup sets]
          /\ known' = [known EXCEPT ![s.symbol] = merged]
      BY <2>1, <2>2, <2>6 DEF Enter
    <3>2. merged \in [Maps -> Tribool]
      BY <2>2 DEF TypeOK
    <3>3. TypeOK'
      <4>1. sorts' \in [Symbols -> SUBSET Sorts]
        BY <2>2, <3>1 DEF TypeOK
      <4>2. known' \in [Symbols -> [Maps -> Tribool]]
        <5> HIDE DEF merged
        <5> QED
          BY <2>2, <3>1, <3>2 DEF TypeOK
      <4>3. given' \subseteq Statements /\ left' \subseteq given'
        BY <2>2 DEF TypeOK
      <4>4. thrown' \in BOOLEAN
        BY <3>1 DEF TypeOK
      <4> QED
        BY <4>1, <4>2, <4>3, <4>4 DEF TypeOK
    <3>4. ASSUME NEW x \in Symbols, NEW v \in Values, Possible((given \ left) \cup {s}, x, v)
          PROVE  EntriesTrue(x, v)'
      <4>1. EntriesTrue(x, v)
        BY <2>4, <3>4
      <4>2. CASE x # s.symbol
        BY <3>1, <4>1, <4>2 DEF EntriesTrue, TypeOK
      <4>3. CASE x = s.symbol
        <5>1. Says(s, v)
          BY <2>4, <3>4, <4>3
        <5>2. sorts'[x] = sorts[x] \cup sets /\ known'[x] = merged
          BY <3>1, <4>3, <2>2 DEF TypeOK
        <5>3. \A set \in sorts'[x] : InSet(set, v)
          BY <2>1, <4>1, <5>1, <5>2 DEF Enters, EntriesTrue
        <5>4. ASSUME NEW m \in Maps
              PROVE  /\ known'[x][m] = "true" => Means(m, v)
                     /\ known'[x][m] = "false" => ~Means(m, v)
          BY <2>1, <4>1, <4>3, <5>1, <5>2 DEF Enters, EntryTrue, EntriesTrue
        <5> QED
          BY <5>3, <5>4 DEF EntriesTrue
      <4> QED
        BY <4>2, <4>3
    <3>5. EntriesSound'
      BY <2>3, <3>4 DEF EntriesSound
    <3> QED
      BY <3>1, <3>3, <3>5 DEF RefusalsJustified
  <2> QED
    BY <2>5, <2>6
<1> QED
  BY <1>1, <1>2

\* Types: every entry is a truth value and every set holds sets of numbers.
THEOREM TypesCorrect == Spec => []TypeOK
<1>1. IInv => TypeOK
  BY DEF IInv
<1> QED
  BY Initially, Inductive, <1>1, PTL DEF Spec

\* What an Assumptions object says of a symbol is true of every value that its
\* statements leave the symbol, in whatever order they were read, and the
\* constructor throws only where they leave a symbol none (assumptions.cpp).
THEOREM FactsAreSound == Spec => []FactsSound
<1>1. IInv => FactsSound
  BY DEF IInv
<1> QED
  BY Initially, Inductive, <1>1, PTL DEF Spec
=============================================================================
