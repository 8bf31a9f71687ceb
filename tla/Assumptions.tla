---------------------------- MODULE Assumptions ----------------------------
(***************************************************************************)
(* The constructor of Assumptions (assumptions.cpp): a set of statements   *)
(* about symbols is read in the order of their hashes, so in any order,    *)
(* into four sets of symbols and six maps from symbols to truth values.    *)
(* Each statement enters what it says into some of them; a contradiction   *)
(* is noticed only when two statements meet in one map.                    *)
(*                                                                         *)
(* A number is a pair of quarters.  An odd quarter stands for a number     *)
(* that is not rational.  Infinities do not occur.                         *)
(***************************************************************************)
EXTENDS Integers, FiniteSets

CONSTANTS Symbols,
          Statements,   \* the statements a set can have
          Values,       \* the values a symbol can have
          MaxGiven      \* bound on the statements given at once

Number == [re : Int, im : Int]

IsZero(v) == v.re = 0 /\ v.im = 0
IsReal(v) == v.im = 0
IsPositive(v) == v.im = 0 /\ v.re > 0
IsNegative(v) == v.im = 0 /\ v.re < 0

Sorts == {"complex", "real", "rational", "integer"}
Maps == {"positive", "nonnegative", "negative", "nonpositive", "nonzero", "zero"}
Tribool == {"true", "false", "indeterminate"}

\* A statement about a symbol: that it is contained in a set, or how it
\* compares to a number, the symbol being the first or the second argument.
\* The rest, of which the constructor takes no notice, are "other".
Statement ==
  [rel : {"contains", "le", "lt", "eq", "ne", "other"}, symbol : Symbols, first : BOOLEAN,
   number : Number, set : Sorts \cup {"other"}]

\* Le and Lt refuse complex numbers.
ASSUME AssumptionsAssumption ==
  /\ Values \subseteq Number
  /\ Statements \subseteq Statement
  /\ \A s \in Statements : s.rel \in {"le", "lt"} => IsReal(s.number)
  /\ MaxGiven \in Nat

VARIABLES
  given,    \* the statements of the set
  left,     \* those not read yet
  sorts,    \* complex_symbols_, real_symbols_, rational_symbols_, integer_symbols_
  known,    \* the six maps; an absent key is "indeterminate"
  thrown    \* the constructor has thrown

vars == <<given, left, sorts, known, thrown>>

-----------------------------------------------------------------------------
(* What a statement enters in the six maps. *)

Nothing == [m \in Maps |-> "indeterminate"]
Truth(b) == IF b THEN "true" ELSE "false"
EntersPositive == [m \in Maps |-> Truth(m \in {"positive", "nonnegative", "nonzero"})]
EntersNegative == [m \in Maps |-> Truth(m \in {"negative", "nonpositive", "nonzero"})]
EntersZero == [m \in Maps |-> Truth(m \in {"zero", "nonpositive", "nonnegative"})]
EntersNonzero == [Nothing EXCEPT !["zero"] = "false", !["nonzero"] = "true"]
EntersNonnegative == [Nothing EXCEPT !["nonnegative"] = "true", !["negative"] = "false"]
EntersNonpositive == [Nothing EXCEPT !["nonpositive"] = "true", !["positive"] = "false"]

\* x <= 0 read as x < 0.
LessThanEntersStrict(s) ==
  IF s.first /\ IsZero(s.number) THEN EntersNegative ELSE Nothing

LessThanEnters(s) ==
  IF s.first
  THEN IF IsNegative(s.number) THEN EntersNegative
       ELSE IF IsZero(s.number) THEN EntersNonpositive ELSE Nothing
  ELSE IF IsPositive(s.number) THEN EntersPositive
       ELSE IF IsZero(s.number) THEN EntersNonnegative ELSE Nothing

StrictLessThanEnters(s) ==
  IF s.first
  THEN IF ~IsPositive(s.number) THEN EntersNegative ELSE Nothing
  ELSE IF ~IsNegative(s.number) THEN EntersPositive ELSE Nothing

\* The sets of numbers that hold a set of numbers.
Above(set) ==
  CASE set = "complex" -> {"complex"}
    [] set = "real" -> {"complex", "real"}
    [] set = "rational" -> {"complex", "real", "rational"}
    [] set = "integer" -> Sorts
    [] OTHER -> {}

-----------------------------------------------------------------------------

Init ==
  /\ \E n \in 0 .. MaxGiven : \E f \in [1 .. n -> Statements] : given = {f[i] : i \in 1 .. n}
  /\ left = given
  /\ sorts = [x \in Symbols |-> {}]
  /\ known = [x \in Symbols |-> Nothing]
  /\ thrown = FALSE

\* set_map throws when the map has the other value.
Clashes(x, entries) ==
  \E m \in Maps : /\ known[x][m] # "indeterminate" /\ entries[m] # "indeterminate"
                  /\ known[x][m] # entries[m]

\* What every statement does: s.symbol joins sets, and entries go to the maps.
Enter(s, sets, entries) ==
  /\ left' = left \ {s}
  /\ UNCHANGED given
  /\ IF Clashes(s.symbol, entries)
     THEN thrown' = TRUE /\ UNCHANGED <<sorts, known>>
     ELSE /\ sorts' = [sorts EXCEPT ![s.symbol] = @ \cup sets]
          /\ known' = [known EXCEPT ![s.symbol] =
               [m \in Maps |-> IF entries[m] = "indeterminate" THEN @[m] ELSE entries[m]]]
          /\ UNCHANGED thrown

ReadContains(s) == s.rel = "contains" /\ Enter(s, Above(s.set), Nothing)

ReadLessThan(s) == s.rel = "le" /\ Enter(s, {"real"}, LessThanEnters(s))

ReadStrictLessThan(s) == s.rel = "lt" /\ Enter(s, {"real"}, StrictLessThanEnters(s))

\* Eq and Ne put the number first.
ReadEquality(s) ==
  /\ s.rel = "eq" /\ ~s.first
  /\ IF IsZero(s.number) THEN Enter(s, Sorts, EntersZero)
                         ELSE Enter(s, {"complex"}, EntersNonzero)

ReadUnequality(s) ==
  /\ s.rel = "ne" /\ ~s.first
  /\ Enter(s, {}, IF IsZero(s.number) THEN EntersNonzero ELSE Nothing)

ReadOther(s) ==
  /\ s.rel = "other" \/ (s.rel \in {"eq", "ne"} /\ s.first)
  /\ Enter(s, {}, Nothing)

Next ==
  /\ ~thrown
  /\ \E s \in left :
       \/ ReadContains(s) \/ ReadLessThan(s) \/ ReadStrictLessThan(s)
       \/ ReadEquality(s) \/ ReadUnequality(s) \/ ReadOther(s)

Spec == Init /\ [][Next]_vars

-----------------------------------------------------------------------------
(* The meaning of sets, maps and statements. *)

InSet(set, v) ==
  CASE set = "real" -> IsReal(v)
    [] set = "rational" -> IsReal(v) /\ v.re % 2 = 0
    [] set = "integer" -> IsReal(v) /\ v.re % 4 = 0
    [] OTHER -> TRUE

Means(m, v) ==
  CASE m = "positive" -> IsPositive(v)
    [] m = "nonnegative" -> IsReal(v) /\ v.re >= 0
    [] m = "negative" -> IsNegative(v)
    [] m = "nonpositive" -> IsReal(v) /\ v.re <= 0
    [] m = "zero" -> IsZero(v)
    [] OTHER -> ~IsZero(v)

Says(s, v) ==
  CASE s.rel = "contains" -> InSet(s.set, v)
    [] s.rel = "le" -> IsReal(v) /\ (IF s.first THEN v.re <= s.number.re ELSE s.number.re <= v.re)
    [] s.rel = "lt" -> IsReal(v) /\ (IF s.first THEN v.re < s.number.re ELSE s.number.re < v.re)
    [] s.rel = "eq" -> v = s.number
    [] s.rel = "ne" -> v # s.number
    [] OTHER -> TRUE

\* v is a value that x can have by the statements of S
Possible(S, x, v) == \A s \in S : s.symbol = x => Says(s, v)

TypeOK ==
  /\ given \subseteq Statements
  /\ left \subseteq given
  /\ sorts \in [Symbols -> SUBSET Sorts]
  /\ known \in [Symbols -> [Maps -> Tribool]]
  /\ thrown \in BOOLEAN

EntriesTrue(x, v) ==
  /\ \A set \in sorts[x] : InSet(set, v)
  /\ \A m \in Maps : /\ known[x][m] = "true" => Means(m, v)
                     /\ known[x][m] = "false" => ~Means(m, v)

\* Whatever order the statements are read in, what the sets and maps say of a
\* symbol is true of every value that the statements read so far leave it
\* (Assumptions::Assumptions).
EntriesSound ==
  \A x \in Symbols : \A v \in Values : Possible(given \ left, x, v) => EntriesTrue(x, v)

\* The constructor throws only when the statements leave some symbol no value
\* (set_map).
RefusalsJustified ==
  thrown => \E x \in Symbols : \A v \in Values : ~Possible(given, x, v)

FactsSound == EntriesSound /\ RefusalsJustified
=============================================================================
