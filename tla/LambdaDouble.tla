--------------------------- MODULE LambdaDouble ---------------------------
(***************************************************************************)
(* LambdaDoubleVisitor (src/symengine/lambda_double.h): init turns         *)
(* expressions into functions, and call evaluates them.  With cse = true   *)
(* init first takes the common subexpressions out (module TreeCse); a      *)
(* function that needs one reads it through a pointer into                 *)
(* cse_intermediate_results, which call fills first.                       *)
(*                                                                         *)
(* A visitor is used again and again: init can follow init, it can be left *)
(* by an exception, and a visitor can be moved, with the vector that its   *)
(* functions point into.                                                   *)
(*                                                                         *)
(* An expression is a sequence of parts and a part is one symbol, or two   *)
(* with an operation between them: the subexpressions that can be common.  *)
(* Its value is a sum, weighted so that no two parts are interchangeable.  *)
(***************************************************************************)
EXTENDS Integers, FiniteSets, SequencesExt, Ordering

CONSTANTS
  Visitors,
  Requests,      \* what init is called with: lists of symbols and of expressions
  Vectors        \* the numbers that the values of the inputs are made from

(* The names x0, x1, ... of the symbols that cse introduces.               *)
FreshNames == <<"x0", "x1", "x2">>

VARIABLES
  lambda,    \* the visitors
  memory     \* the memory that each address points to; Free if none

lambdaVars == <<lambda, memory>>

NoRequest == [inputs |-> <<>>, outputs |-> <<>>]
Free == <<>>
Null == 0
Addresses == 1..(Cardinality(Visitors) + 1)

(* A visitor after its default constructor.  ready is init's request when  *)
(* it returned, and capacity how much was allocated at data.               *)
New == [results |-> <<>>, cse_fns |-> <<>>, cse_map |-> <<>>, symbols |-> <<>>,
        data |-> Null, size |-> 0, capacity |-> 0, ready |-> NoRequest]

LambdaInit ==
  /\ lambda = [v \in Visitors |-> New]
  /\ memory = [a \in Addresses |-> Free]

-----------------------------------------------------------------------------
(* cse, as far as a visitor can tell: each part that occurs twice gets the *)
(* next name that is no symbol of the expressions.                         *)

AllParts(outputs) == FlattenSeq(outputs)
SymbolsOf(outputs) == UNION {ToSet(p) : p \in ToSet(AllParts(outputs))}

Repeated(outputs) ==
  LET all == AllParts(outputs)
  IN Selected(all, {k \in DOMAIN all :
                      /\ Len(all[k]) = 2
                      /\ \E j \in DOMAIN all : j > k /\ all[j] = all[k]
                      /\ \A j \in DOMAIN all : j < k => all[j] # all[k]})

(* numbered_symbols.                                                       *)
Unused(outputs) ==
  Selected(FreshNames, {k \in DOMAIN FreshNames : FreshNames[k] \notin SymbolsOf(outputs)})

(* What init is called with: a part is one symbol or two, and there are    *)
(* names enough.                                                           *)
RequestsFit ==
  /\ IsFiniteSet(Visitors) /\ Vectors \subseteq Int
  /\ \A r \in Requests :
       /\ r.inputs \in Seq(STRING) /\ r.outputs \in Seq(Seq(Seq(STRING)))
       /\ \A p \in ToSet(AllParts(r.outputs)) : Len(p) \in {1, 2}
       /\ Len(Repeated(r.outputs)) <= Len(Unused(r.outputs))

(* An input that is called like a symbol of cse occurs in the expressions, *)
(* and such a symbol in them is an input.  Otherwise it would hide what it *)
(* is called like, or be taken for what an init that threw left behind.    *)
NamesKnown ==
  \A r \in Requests :
    ToSet(r.inputs) \cap ToSet(FreshNames) = SymbolsOf(r.outputs) \cap ToSet(FreshNames)

Place(s, x) == CHOOSE k \in DOMAIN s : s[k] = x

Reduced(outputs) ==
  LET parts == Repeated(outputs)
      reduced(p) == IF Contains(parts, p) THEN <<Unused(outputs)[Place(parts, p)]>> ELSE p
  IN [k \in DOMAIN outputs |-> [j \in DOMAIN outputs[k] |-> reduced(outputs[k][j])]]

-----------------------------------------------------------------------------
(* init.                                                                   *)

(* What the function of a symbol reads: an input, or the memory of a       *)
(* common subexpression; Throw if bvisit(Symbol) finds neither.            *)
Throw == [from |-> "nowhere", address |-> Null, index |-> 0]
Input(k) == [from |-> "input", address |-> Null, index |-> k]
Slot(a, k) == [from |-> "memory", address |-> a, index |-> k]

(* bvisit(Symbol), while init has these symbols, cse_intermediate_fns_map  *)
(* and address of the vector: the inputs first.                            *)
Lookup(now, x) ==
  IF x \in ToSet(now.symbols) THEN Input(Place(now.symbols, x))
  ELSE IF x \in DOMAIN now.cse_map THEN Slot(now.data, now.cse_map[x])
  ELSE Throw

(* apply, for a part and for an expression.                                *)
Function(now, part) == [k \in DOMAIN part |-> Lookup(now, part[k])]
Functions(now, expr) == [k \in DOMAIN expr |-> Function(now, expr[k])]

Throws(f) == \E k \in DOMAIN f : f[k] = Throw
AnyThrows(fs) == \E k \in DOMAIN fs : Throws(fs[k])

(* Of what is done in order, that before the first that throws.            *)
UpToThrow(s, throwing) == [k \in {h \in DOMAIN s : \A j \in throwing : h < j} |-> s[k]]

(* map after cse_intermediate_fns_map[name] = index for the first n names. *)
Named(map, names, n) ==
  [x \in DOMAIN map \cup {names[k] : k \in 1..n} |->
     IF \E k \in 1..n : names[k] = x THEN CHOOSE k \in 1..n : names[k] = x ELSE map[x]]

(* What init does once the vector has its room: a function for each        *)
(* replacement, then one for each expression, until one of them throws.    *)
Compiled(map, room, r, cse) ==
  LET parts == IF cse THEN Repeated(r.outputs) ELSE <<>>
      exprs == IF cse THEN Reduced(r.outputs) ELSE r.outputs
      after(n) == [symbols |-> r.inputs, data |-> room.data,
                   cse_map |-> Named(map, Unused(r.outputs), n)]
      fns == [k \in DOMAIN parts |-> Function(after(k - 1), parts[k])]
      cse_fns == UpToThrow(fns, {k \in DOMAIN fns : Throws(fns[k])})
      now == after(Cardinality(DOMAIN cse_fns))
      all == [k \in DOMAIN exprs |-> Functions(now, exprs[k])]
      results == IF DOMAIN cse_fns # DOMAIN fns THEN <<>>
                 ELSE UpToThrow(all, {k \in DOMAIN all : AnyThrows(all[k])})
      returned == DOMAIN cse_fns = DOMAIN fns /\ DOMAIN results = DOMAIN all
      cleared == cse /\ returned
  IN [results |-> results, cse_fns |-> cse_fns,
      cse_map |-> IF cleared THEN <<>> ELSE now.cse_map,
      symbols |-> IF cleared THEN <<>> ELSE r.inputs,
      data |-> room.data, size |-> room.size, capacity |-> room.capacity,
      ready |-> IF returned THEN r ELSE NoRequest]

(* cse_intermediate_results.resize(n): within the capacity in place, else  *)
(* at address.                                                             *)
Resized(l, n, address) ==
  IF n <= l.capacity THEN [data |-> l.data, size |-> n, capacity |-> l.capacity]
                     ELSE [data |-> address, size |-> n, capacity |-> n]

(* The vector at data moves to address, where it has room for n.           *)
Reallocated(l, n, address) ==
  [a \in Addresses |->
     IF a = address THEN [k \in 1..n |-> IF k <= l.size THEN memory[l.data][k] ELSE 0]
     ELSE IF a = l.data THEN Free ELSE memory[a]]

(* A slip: the vector is resized after the functions are made.             *)
InitLate(v) ==
  \E r \in Requests, cse \in BOOLEAN :
    LET l == lambda[v]
        n == Len(Repeated(r.outputs))
        fresh == CHOOSE a \in Addresses : memory[a] = Free
        room == Resized(l, n, fresh)
        done == Compiled(l.cse_map, l, r, cse)
    IN /\ lambda' = [lambda EXCEPT ![v] =
                       IF cse THEN [done EXCEPT !.data = room.data, !.size = room.size,
                                                !.capacity = room.capacity]
                              ELSE done]
       /\ memory' = IF cse /\ n > l.capacity THEN Reallocated(l, n, fresh) ELSE memory

InitVisitor(v) ==
  \E r \in Requests, cse \in BOOLEAN :
    LET l == lambda[v]
        n == Len(Repeated(r.outputs))
        fresh == CHOOSE a \in Addresses : memory[a] = Free
        room == IF cse THEN Resized(l, n, fresh) ELSE l
    IN /\ lambda' = [lambda EXCEPT ![v] = Compiled(l.cse_map, room, r, cse)]
       /\ memory' = IF cse /\ n > l.capacity THEN Reallocated(l, n, fresh) ELSE memory

-----------------------------------------------------------------------------
(* call.                                                                   *)

(* The value of the kth input.                                             *)
InputValue(vector, k) == vector * 10 + k * k

Read(mem, vector, f) ==
  IF f.from = "input" THEN InputValue(vector, f.index) ELSE mem[f.address][f.index]

PartValue(mem, vector, part) ==
  IF Len(part) = 1 THEN Read(mem, vector, part[1])
  ELSE Read(mem, vector, part[1]) + 3 * Read(mem, vector, part[2])

SumOf(values) == FoldLeft(LAMBDA sum, x : 2 * sum + x, 0, values)

(* A slip: the intermediate results are computed when there are none yet.  *)
FilledOnce(l, vector) ==
  LET filled[k \in 0..Len(l.cse_fns)] ==
        IF k = 0 THEN memory
        ELSE IF memory[l.data][k] # 0 THEN filled[k - 1]
        ELSE [filled[k - 1] EXCEPT ![l.data][k] =
                PartValue(filled[k - 1], vector, l.cse_fns[k])]
  IN filled[Len(l.cse_fns)]

(* The intermediate results, in order, each of which can need the earlier. *)
Filled(l, vector) ==
  LET filled[k \in 0..Len(l.cse_fns)] ==
        IF k = 0 THEN memory
        ELSE [filled[k - 1] EXCEPT ![l.data][k] =
                PartValue(filled[k - 1], vector, l.cse_fns[k])]
  IN filled[Len(l.cse_fns)]

(* What call returns.                                                      *)
Outs(l, vector) ==
  LET mem == Filled(l, vector)
      out(fs) == SumOf([k \in DOMAIN fs |-> PartValue(mem, vector, fs[k])])
  IN [k \in DOMAIN l.results |-> out(l.results[k])]

(* call on a visitor whose last init returned.                             *)
Call(v) ==
  /\ lambda[v].ready # NoRequest
  /\ \E vector \in Vectors : memory' = Filled(lambda[v], vector)
  /\ UNCHANGED lambda

(* w = std::move(v): w frees its vector and takes all that v has.          *)
Move(v, w) ==
  /\ v # w
  /\ lambda' = [lambda EXCEPT ![w] = lambda[v], ![v] = New]
  /\ memory' = [a \in Addresses |->
                  IF a = lambda[w].data THEN Free ELSE memory[a]]

LambdaNext ==
  \/ \E v \in Visitors : InitVisitor(v) \/ Call(v)
  \/ \E v, w \in Visitors : Move(v, w)

LambdaSpec == LambdaInit /\ [][LambdaNext]_lambdaVars

-----------------------------------------------------------------------------
(* Properties.                                                             *)

(* The pointers that a visitor's functions hold go into its own vector,    *)
(* and within its size, whatever was resized, freed or moved since.        *)
Reads(l) ==
  UNION {ToSet(f) : f \in ToSet(l.cse_fns) \cup UNION {ToSet(fs) : fs \in ToSet(l.results)}}

PointersStayGood ==
  \A v \in Visitors :
    \A f \in Reads(lambda[v]) :
      f.from = "memory" => f.address = lambda[v].data /\ f.index \in 1..lambda[v].size

(* The value of an expression, by the values of the inputs.                *)
Expected(r, vector, expr) ==
  LET value(x) == InputValue(vector, Place(r.inputs, x))
      part(p) == IF Len(p) = 1 THEN value(p[1]) ELSE value(p[1]) + 3 * value(p[2])
  IN SumOf([k \in DOMAIN expr |-> part(expr[k])])

(* A visitor that accepts expressions knows all their symbols.             *)
UndefinedRaises ==
  \A v \in Visitors :
    SymbolsOf(lambda[v].ready.outputs) \subseteq ToSet(lambda[v].ready.inputs)

Evaluates ==
  \A v \in Visitors, vector \in Vectors :
    LET r == lambda[v].ready
    IN r # NoRequest /\ SymbolsOf(r.outputs) \subseteq ToSet(r.inputs) =>
         Outs(lambda[v], vector) =
           [k \in DOMAIN r.outputs |-> Expected(r, vector, r.outputs[k])]

(* call returns the values of the expressions of the last init, with and   *)
(* without cse, whatever the visitor and others were used for before; and  *)
(* init accepts only those whose symbols it knows.                         *)
CallEvaluates == UndefinedRaises /\ Evaluates

=============================================================================
