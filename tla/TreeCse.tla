------------------------------ MODULE TreeCse ------------------------------
(***************************************************************************)
(* tree_cse of src/symengine/cse.cpp, with the part of opt_cse that        *)
(* rewrites negative products and powers: find_repeated goes through the   *)
(* expressions, then RebuildVisitor puts a fresh symbol in the place of    *)
(* every repeated subexpression.  Both follow the replacements of opt_cse  *)
(* instead of the expressions they replace, both keep their sets from one  *)
(* expression to the next, and a derivative is looked into by the first    *)
(* and left alone by the second.                                           *)
(*                                                                         *)
(* What match_common_args adds to opt_cse (module CommonArgs) is a choice  *)
(* here: any sum or product may have had two of its operands named.        *)
(***************************************************************************)
EXTENDS Integers, FiniteSets, SequencesExt

CONSTANTS
  Symbols,   \* the symbols of the inputs: the numbers k of their names x<k>
  Name,      \* the name of the function of the inputs
  MaxExprs   \* bound on the number of expressions

VARIABLES
  exprs,          \* what cse is called with
  opt_subs,       \* a function on the expressions it replaces
  seen_subexp, to_eliminate, excluded_symbols,
  subs,           \* a function on the expressions a symbol stands for
  replacements, reduced_exprs, next_symbol_index,
  found           \* the number of expressions find_repeated is done with

vars == <<exprs, opt_subs, seen_subexp, to_eliminate, excluded_symbols, subs,
          replacements, reduced_exprs, next_symbol_index, found>>

-----------------------------------------------------------------------------
(* Expressions.                                                            *)

Term(op, n, args) == [op |-> op, n |-> n, args |-> args]
Symbol(k) == Term("symbol", k, <<>>)
Number(n) == Term("number", n, <<>>)
Add(args) == Term("Add", 0, args)
Mul(args) == Term("Mul", 0, args)
Pow(base, exp) == Term("Pow", 0, <<base, exp>>)
Derivative(arg, x) == Term("Derivative", 0, <<arg, x>>)
FunctionSymbol(name, args) == Term(name, 0, args)   \* names are in small letters

IsAtom(t) == t.op \in {"symbol", "number"}

(* The inputs: expressions of each kind in two symbols.                    *)
Expressions ==
  UNION {LET p == Symbol(k)
             q == Symbol(j)
             sum == Add(<<p, q>>)
             f(t) == FunctionSymbol(Name, <<t>>)
         IN {sum, Add(<<Number(2), p, q>>), Add(<<p, q, Mul(<<p, q>>)>>),
             Mul(<<Number(-1), p, q>>), Mul(<<Number(-1), p>>), Mul(<<p, q>>),
             Pow(p, Number(-2)), Pow(sum, Number(-1)),
             Mul(<<Number(-2), p, sum>>), Mul(<<p, sum, f(sum)>>),
             f(sum), Pow(f(sum), Number(-2)), Derivative(f(sum), p)} :
           <<k, j>> \in {kj \in Symbols \X Symbols : kj[1] < kj[2]}}

(* What OptsCSEVisitor comes to: not what is below a derivative.           *)
RECURSIVE Visited(_)
Visited(t) ==
  IF IsAtom(t) \/ t.op = "Derivative" THEN {}
  ELSE {t} \cup UNION {Visited(a) : a \in ToSet(t.args)}

Negative(t) == t.op = "number" /\ t.n < 0

(* neg(t) for a product with a negative coefficient.                       *)
Neg(t) ==
  LET rest == IF t.args[1].n = -1 THEN Tail(t.args)
              ELSE <<Number(-t.args[1].n)>> \o Tail(t.args)
  IN IF Len(rest) = 1 THEN rest[1] ELSE Mul(rest)

(* pow(base, neg(exp)) for a power with a negative exponent.               *)
Positive(t) ==
  IF t.args[2].n = -1 THEN t.args[1] ELSE Pow(t.args[1], Number(-t.args[2].n))

IsNegativeMul(t) == t.op = "Mul" /\ Negative(t.args[1]) /\ Neg(t).op # "symbol"
IsNegativePow(t) == t.op = "Pow" /\ Negative(t.args[2])

(* A slip: the sign of the exponent is lost.                               *)
OppositeLost(t) ==
  IF IsNegativePow(t) THEN FunctionSymbol("pow", <<Positive(t), Number(1)>>)
                      ELSE FunctionSymbol("mul", <<Number(-1), Neg(t)>>)

(* OptsCSEVisitor::bvisit(Pow) and bvisit(Mul).                            *)
Opposite(t) ==
  IF IsNegativePow(t) THEN FunctionSymbol("pow", <<Positive(t), Number(-1)>>)
                      ELSE FunctionSymbol("mul", <<Number(-1), Neg(t)>>)

(* What match_common_args can replace a sum or product of the set by: two  *)
(* of its operands get a name, which is the expression that is just them,  *)
(* if there is one.                                                        *)
Matches(t, all) ==
  LET name == IF t.op = "Add" THEN "add" ELSE "mul"
      rest(com) == SelectSeq(t.args, LAMBDA a : a \notin com)
      named(com) ==
        LET whole == {u \in all : u.op = t.op /\ ToSet(u.args) = com}
            part == SelectSeq(t.args, LAMBDA a : a \in com)
        IN IF whole = {} THEN FunctionSymbol(name, part) ELSE CHOOSE u \in whole : TRUE
  IN {FunctionSymbol(name, Append(rest(com), named(com))) :
        com \in {c \in SUBSET ToSet(t.args) : Cardinality(c) = 2}}

(* opt_cse: every function on a set of expressions that it can return.     *)
OptSubs(inputs) ==
  LET visited == UNION {Visited(t) : t \in inputs}
      opposites == {t \in visited : IsNegativeMul(t) \/ IsNegativePow(t)}
      all == (visited \cup {Neg(t) : t \in {u \in visited : IsNegativeMul(u)}}) \ opposites
      matched == {t \in all : t.op \in {"Add", "Mul"} /\ Len(t.args) > 2}
  IN UNION {{[t \in opposites \cup s |-> IF t \in s THEN m[t] ELSE Opposite(t)] :
               m \in {h \in [s -> UNION {Matches(t, all) : t \in s}] :
                        \A t \in s : h[t] \in Matches(t, all)}} :
              s \in SUBSET matched}

Init ==
  /\ exprs \in BoundedSeq(Expressions, MaxExprs)
  /\ opt_subs \in OptSubs(ToSet(exprs))
  /\ seen_subexp = {} /\ to_eliminate = {} /\ excluded_symbols = {}
  /\ subs = [t \in {} |-> t]
  /\ replacements = <<>> /\ reduced_exprs = <<>>
  /\ next_symbol_index = 0 /\ found = 0

(* An expression, or what opt_cse replaced it by.                          *)
Optimized(t) == IF t \in DOMAIN opt_subs THEN opt_subs[t] ELSE t

-----------------------------------------------------------------------------
(* find_repeated, on a record of the sets it changes.                      *)

(* A slip: symbols are only excluded when they are seen again.             *)
RECURSIVE FindLate(_, _)
FindLate(s, t) ==
  IF t.op = "number" THEN s
  ELSE IF t \in s.seen
    THEN [s EXCEPT !.eliminate = @ \cup {t},
                   !.excluded = IF t.op = "symbol" THEN @ \cup {t} ELSE @]
    ELSE FoldLeft(FindLate, [s EXCEPT !.seen = @ \cup {t}], Optimized(t).args)

RECURSIVE Find(_, _)
Find(s, t) ==
  IF t.op = "number" THEN s
  ELSE LET s1 == IF t.op = "symbol" THEN [s EXCEPT !.excluded = @ \cup {t}] ELSE s
       IN IF t \in s.seen THEN [s1 EXCEPT !.eliminate = @ \cup {t}]
          ELSE FoldLeft(Find, [s1 EXCEPT !.seen = @ \cup {t}], Optimized(t).args)

FindRepeated ==
  /\ found < Len(exprs)
  /\ LET s == Find([seen |-> seen_subexp, eliminate |-> to_eliminate,
                    excluded |-> excluded_symbols], exprs[found + 1])
     IN /\ seen_subexp' = s.seen
        /\ to_eliminate' = s.eliminate
        /\ excluded_symbols' = s.excluded
  /\ found' = found + 1
  /\ UNCHANGED <<exprs, opt_subs, subs, replacements, reduced_exprs, next_symbol_index>>

-----------------------------------------------------------------------------
(* RebuildVisitor, on a record of what it changes and its result_.         *)

(* next_symbol: the index of the symbol it returns.                        *)
NextSymbol(index) ==
  CHOOSE k \in index..(index + Cardinality(excluded_symbols)) :
    /\ Symbol(k) \notin excluded_symbols
    /\ \A j \in index..(k - 1) : Symbol(j) \in excluded_symbols

(* A slip: the symbol of an expression is not remembered.                  *)
IntroduceForget(s, t) ==
  LET k == NextSymbol(s.next)
  IN [s EXCEPT !.result = Symbol(k), !.next = k + 1,
               !.replacements = Append(@, <<Symbol(k), s.result>>)]

(* A fresh symbol for t, whose rebuilt form is the result.                 *)
Introduce(s, t) ==
  LET k == NextSymbol(s.next)
  IN [s EXCEPT !.result = Symbol(k), !.next = k + 1,
               !.subs = [u \in DOMAIN @ \cup {t} |-> IF u = t THEN Symbol(k) ELSE @[u]],
               !.replacements = Append(@, <<Symbol(k), s.result>>)]

(* What is built of the rebuilt operands: a FunctionSymbol with the name   *)
(* of an operation is that operation.                                      *)
Create(t, args) ==
  CASE t.op = "add" -> Add(args)
    [] t.op = "mul" -> Mul(args)
    [] t.op = "pow" -> Pow(args[1], args[2])
    [] OTHER -> [t EXCEPT !.args = args]

RECURSIVE Apply(_, _)
Apply(s, t) ==
  IF IsAtom(t) THEN [s EXCEPT !.result = t]
  ELSE IF t \in DOMAIN s.subs THEN [s EXCEPT !.result = s.subs[t]]
  ELSE LET expr == Optimized(t)
           operand(acc, a) == LET r == Apply(acc.s, a)
                              IN [s |-> r, args |-> Append(acc.args, r.result)]
           all == FoldLeft(operand, [s |-> s, args |-> <<>>], expr.args)
           rebuilt == IF expr.op = "Derivative" THEN [s EXCEPT !.result = expr]
                      ELSE [all.s EXCEPT !.result = Create(expr, all.args)]
       IN IF t \in to_eliminate THEN Introduce(rebuilt, t) ELSE rebuilt

Rebuild ==
  /\ found = Len(exprs) /\ Len(reduced_exprs) < Len(exprs)
  /\ LET s == Apply([subs |-> subs, replacements |-> replacements,
                     next |-> next_symbol_index, result |-> Number(0)],
                    exprs[Len(reduced_exprs) + 1])
     IN /\ subs' = s.subs
        /\ replacements' = s.replacements
        /\ next_symbol_index' = s.next
        /\ reduced_exprs' = Append(reduced_exprs, s.result)
  /\ UNCHANGED <<exprs, opt_subs, seen_subexp, to_eliminate, excluded_symbols, found>>

Done ==
  /\ Len(reduced_exprs) = Len(exprs)
  /\ found = Len(exprs)
  /\ UNCHANGED vars

Next == FindRepeated \/ Rebuild \/ Done

Spec == Init /\ [][Next]_vars

-----------------------------------------------------------------------------
(* Properties.                                                             *)

RECURSIVE SymbolsIn(_)
SymbolsIn(t) ==
  IF t.op = "symbol" THEN {t} ELSE UNION {SymbolsIn(a) : a \in ToSet(t.args)}

Given == UNION {SymbolsIn(t) : t \in ToSet(exprs)}

(* The symbol of a replacement is new, and its expression only needs the   *)
(* given symbols and the replacements before it: they can be evaluated in  *)
(* order, as LambdaDoubleVisitor and the code printers do.                 *)
InOrder ==
  \A k \in DOMAIN replacements :
    LET before == {replacements[j][1] : j \in 1..(k - 1)}
    IN /\ replacements[k][1] \notin Given \cup before
       /\ SymbolsIn(replacements[k][2]) \subseteq Given \cup before

(* The meaning of an expression, in the integers modulo 101: x gives each  *)
(* symbol a value, functions and derivatives are arbitrary polynomials.    *)
RECURSIVE Power(_, _)
Power(v, n) == IF n = 0 THEN 1 ELSE (v * Power(v, n - 1)) % 101

RECURSIVE Value(_, _)
Value(t, x) ==
  LET v == [k \in DOMAIN t.args |-> Value(t.args[k], x)]
  IN CASE t.op = "symbol" -> x[t.n]
       [] t.op = "number" -> t.n % 101
       [] t.op = "Add" -> FoldLeft(LAMBDA a, b : (a + b) % 101, 0, v)
       [] t.op = "Mul" -> FoldLeft(LAMBDA a, b : (a * b) % 101, 1, v)
       [] t.op = "Pow" -> Power(v[1], t.args[2].n % 100)
       [] t.op = "Derivative" -> (v[1] + 5 * v[2] + 17) % 101
       [] OTHER -> FoldLeft(LAMBDA a, b : (3 * a * a + 7 * b + 11) % 101, 1, v)

Valuation == [k \in Symbols |-> 2 + 7 * k * k + 3 * k]

(* The values with which the reduced expressions are evaluated: those of   *)
(* the given symbols, and of the replacements, one after the other.        *)
Extended ==
  FoldLeft(LAMBDA x, r : r[1].n :> Value(r[2], x) @@ x, Valuation, replacements)

(* The reduced expressions, with the replacements put back, are the given  *)
(* expressions.                                                            *)
Sound ==
  InOrder => \A k \in DOMAIN reduced_exprs :
               Value(reduced_exprs[k], Extended) = Value(exprs[k], Valuation)

(* When cse is done no expression is left that would be computed twice.    *)
RECURSIVE Occurrences(_, _)
Occurrences(u, t) ==
  (IF t = u THEN 1 ELSE 0) +
    IF t.op = "Derivative" THEN 0
    ELSE FoldLeft(LAMBDA n, a : n + Occurrences(u, a), 0, t.args)

Results == reduced_exprs \o [k \in DOMAIN replacements |-> replacements[k][2]]

NothingTwice ==
  Len(reduced_exprs) = Len(exprs) =>
    \A u \in UNION {Visited(t) : t \in ToSet(Results)} :
      FoldLeft(LAMBDA n, t : n + Occurrences(u, t), 0, Results) = 1

=============================================================================
