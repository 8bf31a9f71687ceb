---------------------------- MODULE CommonArgs ----------------------------
(***************************************************************************)
(* match_common_args of src/symengine/cse.cpp: the part of common          *)
(* subexpression elimination that looks for two or more arguments shared   *)
(* by several sums (or by several products), gives what they share a name  *)
(* of its own, and rewrites every expression that has it.                  *)
(*                                                                         *)
(* The work is done on numbers: FuncArgTracker numbers the arguments and   *)
(* keeps, in both directions, which expression has which argument.  An     *)
(* expression is worked on while it is compared with the ones after it,    *)
(* and those are rewritten under it, so the two directions, the queue of   *)
(* candidates and the counts they were sorted by change at different       *)
(* times.                                                                  *)
(*                                                                         *)
(* Expressions and values are numbered from 1 here and from 0 in the code. *)
(***************************************************************************)
EXTENDS Integers, FiniteSets, SequencesExt, Ordering

CONSTANTS
  N,       \* number of expressions
  A,       \* number of different arguments that are no expression themselves
  Nested   \* whether an expression can be an argument of another one

ASSUME CommonArgsAssumption == N \in Nat /\ A \in Nat /\ Nested \in BOOLEAN

Funcs == 1..N

(* The values that get a number: an argument, one of the expressions, or a *)
(* function_symbol that stands for the arguments with the given numbers.   *)
Atom(n) == [kind |-> "atom", n |-> n, args |-> <<>>]
Func(f) == [kind |-> "func", n |-> f, args |-> <<>>]
Com(args) == [kind |-> "com", n |-> 0, args |-> args]
Value == [kind : {"atom", "func", "com"}, n : Nat, args : Seq(Nat)]

VARIABLES
  given,           \* funcs: the arguments of each expression, in order
  values,          \* value_number_to_value; value_numbers is its inverse
  arg_to_funcset,  \* for each value, the expressions that have it
  func_to_argset,  \* for each expression, its arguments now
  changed,         \* the expressions that were rewritten
  opt_subs,        \* what a finished expression is replaced by, or <<>>
  i,               \* the expression of the outer loop
  queue,           \* common_arg_candidates
  matching         \* whether the inner loop is running

vars == <<given, values, arg_to_funcset, func_to_argset, changed, opt_subs,
          i, queue, matching>>

-----------------------------------------------------------------------------
(* What match_common_args is called with: different sums, or different     *)
(* products, sorted by their number of arguments.  Renaming the atoms      *)
(* gives the same behaviours, so they are taken in order of appearance;    *)
(* no expression is a part of itself.                                      *)

Arguments ==
  [n \in 1..A |-> Atom(n)] \o (IF Nested THEN [f \in Funcs |-> Func(f)] ELSE <<>>)

InOrderOfAppearance(g) ==
  \A f \in Funcs : \E k \in 0..A :
    {n \in 1..A : \E h \in 1..f : Atom(n) \in g[h]} = 1..k

Parts(g, f) == {h \in Funcs : Func(h) \in g[f]}

(* The expressions that those in found lead to.                            *)
Within(parts, found) ==
  LET within[n \in 0..N] ==
        IF n = 0 THEN found
        ELSE within[n - 1] \cup UNION {parts[f] : f \in within[n - 1]}
  IN within[N]

NoLoop(parts) == \A f \in Funcs : f \notin Within(parts, parts[f])

Inputs ==
  {g \in [Funcs -> {s \in SUBSET ToSet(Arguments) : Cardinality(s) >= 2}] :
     /\ \A f, h \in Funcs : f < h => /\ g[f] # g[h]
                                     /\ Cardinality(g[f]) <= Cardinality(g[h])
     /\ InOrderOfAppearance(g)
     /\ NoLoop([f \in Funcs |-> Parts(g, f)])}

(* FuncArgTracker::FuncArgTracker: each value gets its number when it is   *)
(* met for the first time.                                                 *)
Numbered(args) ==
  LET all == FlattenSeq(args)
      known[k \in 0..Len(all)] ==
        IF k = 0 THEN <<>>
        ELSE IF Contains(known[k - 1], all[k]) THEN known[k - 1]
             ELSE Append(known[k - 1], all[k])
  IN known[Len(all)]

(* get_args, for the values in S.                                          *)
Listed(S) == Selected(Arguments, {k \in DOMAIN Arguments : Arguments[k] \in S})

Number(v, known) == CHOOSE k \in DOMAIN known : known[k] = v

Init ==
  /\ \E g \in Inputs :
       given = [f \in Funcs |-> Listed(g[f])]
  /\ values = Numbered(given)
  /\ func_to_argset =
       [f \in Funcs |-> {Number(v, values) : v \in ToSet(given[f])}]
  /\ arg_to_funcset =
       [a \in DOMAIN values |-> {f \in Funcs : a \in func_to_argset[f]}]
  /\ changed = {}
  /\ opt_subs = [f \in Funcs |-> <<>>]
  /\ i = 1 /\ queue = <<>> /\ matching = FALSE

-----------------------------------------------------------------------------
(* FuncArgTracker.                                                         *)

(* The numbers in a set, in value order.                                   *)
Sorted(argset) == Ascending(argset, Len(values))

(* get_common_arg_candidates, sorted: the expressions from number from on  *)
(* with at least two arguments of argset, the ones with fewer of them      *)
(* first.                                                                  *)
Candidates(argset, from) ==
  LET count(f) == Cardinality({a \in argset : f \in arg_to_funcset[a]})
      with(c) == IF c >= 2 THEN {f \in from..N : count(f) = c} ELSE {}
  IN FlattenSeq([c \in 1..Len(values) |-> Ascending(with(c), N)])

(* A slip: the candidates that have any of the arguments.                  *)
AnyCandidates(argset, funcs) ==
  {f \in funcs : \E a \in argset : f \in arg_to_funcset[a]}

(* get_subset_candidates: those that have all of them.                     *)
SubsetCandidates(argset, funcs) ==
  {f \in funcs : \A a \in argset : f \in arg_to_funcset[a]}

(* update_func_argset, for all the expressions of one step: index follows  *)
(* the differences between their old and their new arguments.              *)
Reindexed(index, old, new) ==
  [a \in DOMAIN index |->
     (index[a] \ {f \in Funcs : a \in old[f] \ new[f]})
        \cup {f \in Funcs : a \in new[f] \ old[f]}]

-----------------------------------------------------------------------------
(* The loops of match_common_args.                                         *)

(* A slip: the next expression is not compared.                            *)
BeginLate ==
  /\ ~matching /\ i \in Funcs
  /\ queue' = Candidates(func_to_argset[i], i + 2)
  /\ matching' = TRUE
  /\ UNCHANGED <<given, values, arg_to_funcset, func_to_argset, changed, opt_subs, i>>

(* The candidates of the next expression.                                  *)
Begin ==
  /\ ~matching /\ i \in Funcs
  /\ queue' = Candidates(func_to_argset[i], i + 1)
  /\ matching' = TRUE
  /\ UNCHANGED <<given, values, arg_to_funcset, func_to_argset, changed, opt_subs, i>>

Common(j) == func_to_argset[i] \cap func_to_argset[j]

(* The candidate has no two arguments in common any more.                  *)
Skip ==
  /\ matching /\ queue # <<>> /\ Cardinality(Common(Head(queue))) <= 1
  /\ queue' = Tail(queue)
  /\ UNCHANGED <<given, values, arg_to_funcset, func_to_argset, changed, opt_subs,
                 i, matching>>

(* A slip: the arguments that got a name stay.                             *)
RewriteKeep(funcs, common, value) ==
  LET known == IF Contains(values, value) THEN values ELSE Append(values, value)
      number == Number(value, known)
      index == [a \in DOMAIN known |->
                  IF a \in DOMAIN values THEN arg_to_funcset[a] ELSE {}]
      args == [f \in Funcs |-> IF f \in funcs THEN func_to_argset[f] \cup {number}
                                               ELSE func_to_argset[f]]
  IN /\ values' = known
     /\ func_to_argset' = args
     /\ arg_to_funcset' = Reindexed(index, func_to_argset, args)
     /\ changed' = changed \cup funcs

(* The arguments common get a name, in the expressions funcs: value.       *)
Rewrite(funcs, common, value) ==
  LET known == IF Contains(values, value) THEN values ELSE Append(values, value)
      number == Number(value, known)
      index == [a \in DOMAIN known |->
                  IF a \in DOMAIN values THEN arg_to_funcset[a] ELSE {}]
      args == [f \in Funcs |-> IF f \in funcs
                                 THEN (func_to_argset[f] \ common) \cup {number}
                                 ELSE func_to_argset[f]]
  IN /\ values' = known
     /\ func_to_argset' = args
     /\ arg_to_funcset' = Reindexed(index, func_to_argset, args)
     /\ changed' = changed \cup funcs

(* What i and j have in common is a part of i: it becomes a new            *)
(* function_symbol, in i, in j and in every later candidate that has it.   *)
ExtractPart ==
  /\ matching /\ queue # <<>>
  /\ LET j == Head(queue)
         common == Common(j)
     IN /\ Cardinality(common) >= 2 /\ common # func_to_argset[i]
        /\ Rewrite({i, j} \cup SubsetCandidates(common, ToSet(Tail(queue))),
                   common, Com(Sorted(common)))
  /\ queue' = Tail(queue)
  /\ UNCHANGED <<given, opt_subs, i, matching>>

(* A slip: i is rewritten too, to itself.                                  *)
ExtractWholeSelf ==
  /\ matching /\ queue # <<>>
  /\ LET j == Head(queue)
         common == Common(j)
     IN /\ Cardinality(common) >= 2 /\ common = func_to_argset[i]
        /\ Rewrite({i, j} \cup SubsetCandidates(common, ToSet(Tail(queue))),
                   common, Func(i))
  /\ queue' = Tail(queue)
  /\ UNCHANGED <<given, opt_subs, i, matching>>

(* All of i is common: the expression itself is the name.                  *)
ExtractWhole ==
  /\ matching /\ queue # <<>>
  /\ LET j == Head(queue)
         common == Common(j)
     IN /\ Cardinality(common) >= 2 /\ common = func_to_argset[i]
        /\ Rewrite({j} \cup SubsetCandidates(common, ToSet(Tail(queue))),
                   common, Func(i))
  /\ queue' = Tail(queue)
  /\ UNCHANGED <<given, opt_subs, i, matching>>

(* A slip: the finished expression is not forgotten.                       *)
FinishUntracked ==
  /\ matching /\ queue = <<>>
  /\ opt_subs' = [opt_subs EXCEPT ![i] = IF i \in changed
                                           THEN Sorted(func_to_argset[i]) ELSE <<>>]
  /\ i' = i + 1 /\ matching' = FALSE
  /\ UNCHANGED <<given, values, arg_to_funcset, func_to_argset, changed, queue>>

(* i is compared with all: it is replaced if it was rewritten, and its     *)
(* arguments forget it (stop_arg_tracking).                                *)
Finish ==
  /\ matching /\ queue = <<>>
  /\ opt_subs' = [opt_subs EXCEPT ![i] = IF i \in changed
                                           THEN Sorted(func_to_argset[i]) ELSE <<>>]
  /\ arg_to_funcset' = [a \in DOMAIN arg_to_funcset |->
                          IF a \in func_to_argset[i] THEN arg_to_funcset[a] \ {i}
                                                     ELSE arg_to_funcset[a]]
  /\ i' = i + 1 /\ matching' = FALSE
  /\ UNCHANGED <<given, values, func_to_argset, changed, queue>>

Done ==
  /\ ~matching /\ i > N
  /\ UNCHANGED vars

Next == Begin \/ Skip \/ ExtractPart \/ ExtractWhole \/ Finish \/ Done

Spec == Init /\ [][Next]_vars

-----------------------------------------------------------------------------
(* Properties.                                                             *)

(* The two directions of the index agree on every expression that is still *)
(* tracked, and only on those: the candidates are found through one and    *)
(* intersected through the other.                                          *)
IndexesAgree ==
  \A a \in DOMAIN values, f \in Funcs :
    f \in arg_to_funcset[a] <=> f >= i /\ a \in func_to_argset[f]

(* The sum of count over the numbers in args, which are at most last.      *)
Total(count, args, last) ==
  LET upTo[n \in 0..last] ==
        IF n = 0 THEN 0
        ELSE upTo[n - 1] + (IF n \in args THEN count[n] ELSE 0)
  IN upTo[last]

(* The numbers of the arguments that f was given.                          *)
Own(f) == {Number(v, values) : v \in ToSet(given[f])}

(* How often atom n occurs in value a, if content gives that of its parts. *)
Occurs(content, n, a) ==
  CASE values[a].kind = "atom" -> IF values[a].n = n THEN 1 ELSE 0
    [] values[a].kind = "func" -> Total(content, Own(values[a].n), Len(values))
    [] values[a].kind = "com" -> Total(content, ToSet(values[a].args), Len(values))

(* How often atom n occurs in each value, all names expanded.              *)
Content(n) ==
  LET content[a \in DOMAIN values] == Occurs(content, n, a)
  IN content

(* Rewriting does not change what an expression is: expanding the names    *)
(* gives its own arguments, each as often as before.                       *)
SumKept ==
  \A f \in Funcs, n \in 1..A :
    Total(Content(n), func_to_argset[f], Len(values)) = Total(Content(n), Own(f), Len(values))

(* The expressions that value a holds, if inside gives those of its parts. *)
Holds(inside, a) ==
  CASE values[a].kind = "atom" -> {}
    [] values[a].kind = "func" -> {values[a].n}
    [] values[a].kind = "com" -> UNION {inside[b] : b \in ToSet(values[a].args)}

(* The expressions in the values with the numbers in args.                 *)
FuncsIn(args) ==
  LET inside[a \in DOMAIN values] == Holds(inside, a)
  IN UNION {inside[a] : a \in args}

(* No replacement leads back to itself: tree_cse follows them without a    *)
(* check, and would not come to an end.                                    *)
Acyclic ==
  NoLoop([f \in Funcs |->
            IF opt_subs[f] = <<>> THEN {v.n : v \in {w \in ToSet(given[f]) : w.kind = "func"}}
                                  ELSE FuncsIn(ToSet(opt_subs[f]))])

(* When i is finished it has at most one argument in common with any other *)
(* expression: nothing that could be shared is left.                       *)
NothingLeft ==
  \A f \in 1..(i - 1), g \in Funcs :
    f # g => Cardinality(func_to_argset[f] \cap func_to_argset[g]) <= 1

(* Additions (or multiplications) needed to compute all the expressions,   *)
(* each name once.                                                         *)
Operations ==
  Total([f \in Funcs |-> Cardinality(func_to_argset[f]) - 1], Funcs, N)
    + Total([a \in DOMAIN values |-> IF values[a].kind = "com" THEN Len(values[a].args) - 1 ELSE 0],
            DOMAIN values, Len(values))

(* Every rewriting saves at least one of them.                             *)
EachStepSaves ==
  [][func_to_argset' # func_to_argset => Operations' < Operations]_vars

=============================================================================
