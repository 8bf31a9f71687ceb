----------------------------- MODULE SharedHeap -----------------------------
(***************************************************************************)
(* What SymEngine's reference-counted pointers promise to the code that    *)
(* uses them.  Every thread owns a few variables (RCP<const Basic>) that   *)
(* are null or hold an object, every object holds its argument             *)
(* objects, and                                                            *)
(*                                                                         *)
(*   - an object that a variable or an argument of an existing object      *)
(*     holds exists,                                                       *)
(*   - the arguments of an object never change while it exists,            *)
(*   - an object that nothing holds any more is eventually collected.      *)
(*                                                                         *)
(* There are no counters here and no half-done operations: a step is a     *)
(* whole C++ statement.  Module Rcp shows that the counting in             *)
(* symengine_rcp.h implements this, one memory access at a time.           *)
(***************************************************************************)
EXTENDS Naturals

CONSTANTS
  Threads,   \* the threads of the program
  Vars,      \* the RCP variables each thread owns
  Objs,      \* the addresses objects can be allocated at
  NFields,   \* the number of argument members of an object
  Null       \* the null pointer

Fields == 1..NFields
Pointers == Objs \cup {Null}
NoArgs == [k \in Fields |-> Null]

VARIABLES
  held,    \* held[t][v]: what variable v of thread t holds
  args,    \* args[o][k]: the k-th argument of object o
  alive    \* the objects that exist

vars == <<held, args, alive>>

TypeOK ==
  /\ held \in [Threads -> [Vars -> Pointers]]
  /\ args \in [Objs -> [Fields -> Pointers]]
  /\ alive \in SUBSET Objs

-----------------------------------------------------------------------------

(* The pointers thread t can name: its variables, and the arguments of the *)
(* objects they hold.                                                      *)
Nameable(t) ==
  {held[t][v] : v \in Vars}
    \cup {args[o][k] : o \in {held[t][v] : v \in Vars} \ {Null}, k \in Fields}

Unreferenced(o) ==
  /\ \A t \in Threads, v \in Vars : held[t][v] # o
  /\ \A p \in alive, k \in Fields : args[p][k] # o

Init ==
  /\ held = [t \in Threads |-> [v \in Vars |-> Null]]
  /\ args = [o \in Objs |-> NoArgs]
  /\ alive = {}

(* An object is made from pointers its maker holds, into an empty variable.*)
Make(t, v, o, a) ==
  /\ held[t][v] = Null
  /\ o \notin alive
  /\ \A k \in Fields : a[k] \in {held[t][w] : w \in Vars} \cup {Null}
  /\ alive' = alive \cup {o}
  /\ args' = [args EXCEPT ![o] = a]
  /\ held' = [held EXCEPT ![t][v] = o]

Assign(t, v, o) ==
  /\ o \in Nameable(t) \cup {Null}
  /\ held' = [held EXCEPT ![t][v] = o]
  /\ UNCHANGED <<args, alive>>

Swap(t, v, w) ==
  /\ held' = [held EXCEPT ![t][v] = held[t][w], ![t][w] = held[t][v]]
  /\ UNCHANGED <<args, alive>>

Give(t, v, u, w) ==
  /\ held[u][w] = Null
  /\ held' = [held EXCEPT ![u][w] = held[t][v], ![t][v] = Null]
  /\ UNCHANGED <<args, alive>>

Collect(o) ==
  /\ o \in alive
  /\ Unreferenced(o)
  /\ alive' = alive \ {o}
  /\ args' = [args EXCEPT ![o] = NoArgs]
  /\ UNCHANGED held

Next ==
  \/ \E t \in Threads, v \in Vars, o \in Objs, a \in [Fields -> Pointers] :
       Make(t, v, o, a)
  \/ \E t \in Threads, v \in Vars, o \in Pointers : Assign(t, v, o)
  \/ \E t \in Threads, v, w \in Vars : Swap(t, v, w)
  \/ \E t, u \in Threads, v, w \in Vars : t # u /\ Give(t, v, u, w)
  \/ \E o \in Objs : Collect(o)

Steps == Init /\ [][Next]_vars

Spec == Steps /\ \A o \in Objs : WF_vars(Collect(o))

-----------------------------------------------------------------------------
(* What the steps promise.                                                 *)

(* Whatever a variable or an argument of an existing object holds, exists: *)
(* an RCP can be dereferenced.                                             *)
HeldExists ==
  /\ \A t \in Threads, v \in Vars : held[t][v] \in alive \cup {Null}
  /\ \A o \in alive, k \in Fields : args[o][k] \in alive \cup {Null}

(* As long as an object exists its arguments are the same: an expression   *)
(* can be shared.                                                          *)
ArgsFixed == [][\A o \in alive \cap alive' : args'[o] = args[o]]_vars

=============================================================================
