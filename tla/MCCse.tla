------------------------------- MODULE MCCse -------------------------------
(***************************************************************************)
(* The two halves of cse: match_common_args on one family of sums, or      *)
(* find_repeated and RebuildVisitor on one list of expressions, with every *)
(* replacement the first half could hand over; or the visitors that use    *)
(* what cse returns.  The parts that are not asked for have nothing to do. *)
(***************************************************************************)
EXTENDS CommonArgs, LambdaDouble

CONSTANTS Symbols, Name, MaxExprs

VARIABLES
  exprs, tree_subs, seen_subexp, to_eliminate, excluded_symbols, subs,
  replacements, reduced_exprs, next_symbol_index, found

treeVars == <<exprs, tree_subs, seen_subexp, to_eliminate, excluded_symbols, subs,
              replacements, reduced_exprs, next_symbol_index, found>>

Tree == INSTANCE TreeCse WITH opt_subs <- tree_subs

xy == <<"x", "y">>
yx == <<"y", "x">>

(* One and two common subexpressions, in one and in two outputs, an output *)
(* with the symbol z, which is not among the inputs, and a symbol that is  *)
(* called like the first that cse would introduce.                         *)
Requested ==
  {[inputs |-> xy, outputs |-> o] :
     o \in {<< <<xy, xy>> >>, << <<xy, xy>>, <<<<"z">>>> >>,
            << <<xy, <<"y">> >>, <<xy, yx, yx>> >>}}
  \cup {[inputs |-> <<"x0", "y">>, outputs |-> << << <<"x0", "y">>, <<"x0", "y">> >> >>]}

ASSUME RequestedAreFit == RequestsFit /\ NamesKnown

NoSums ==
  /\ given = [f \in Funcs |-> <<>>] /\ values = <<>>
  /\ func_to_argset = [f \in Funcs |-> {}] /\ arg_to_funcset = <<>>
  /\ changed = {} /\ opt_subs = [f \in Funcs |-> <<>>]
  /\ i = N + 1 /\ queue = <<>> /\ matching = FALSE

CseInit ==
  /\ LambdaInit /\ Tree!Init
  /\ \/ exprs = <<>> /\ Init
     \/ NoSums

CseNext ==
  \/ exprs = <<>> /\ Next /\ UNCHANGED <<treeVars, lambdaVars>>
  \/ exprs # <<>> /\ Tree!Next /\ UNCHANGED <<vars, lambdaVars>>
  \/ exprs = <<>> /\ NoSums /\ LambdaNext /\ UNCHANGED <<vars, treeVars>>

CseSpec == CseInit /\ [][CseNext]_<<vars, treeVars, lambdaVars>>

(* What a replacement needs is given or was replaced before it, and the    *)
(* reduced expressions mean what the given ones do (tree_cse).             *)
Sound == Tree!InOrder /\ Tree!Sound

(* Nothing is left that would be computed twice (find_repeated).           *)
NothingTwice == Tree!NothingTwice

===========================================================================
