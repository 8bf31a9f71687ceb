-------------------------- MODULE SharedHeapProofs --------------------------
(* The promises of SharedHeap follow from its steps, for any number of     *)
(* threads, variables and objects.                                         *)
EXTENDS SharedHeap, TLAPS

HInv == TypeOK /\ HeldExists

LEMMA InitHInv == Init => HInv
  BY DEF Init, HInv, TypeOK, HeldExists, NoArgs, Pointers

LEMMA MakeHInv ==
  ASSUME HInv, NEW t \in Threads, NEW v \in Vars, NEW o \in Objs,
         NEW a \in [Fields -> Pointers], Make(t, v, o, a)
  PROVE  HInv' /\ \A p \in alive \cap alive' : args'[p] = args[p]
<1>1. TypeOK'
  BY DEF HInv, TypeOK, Make, Pointers
<1>2. /\ o \notin alive /\ alive' = alive \cup {o}
      /\ \A u \in Threads, w \in Vars : held'[u][w] = held[u][w] \/ held'[u][w] = o
      /\ \A p \in Objs : args'[p] = IF p = o THEN a ELSE args[p]
      /\ \A k \in Fields : a[k] \in {held[t][w] : w \in Vars} \cup {Null}
  BY DEF HInv, TypeOK, Make
<1>3. \A k \in Fields : a[k] \in alive \cup {Null}
  BY <1>2 DEF HInv, HeldExists
<1>4. HeldExists'
  BY <1>2, <1>3 DEF HInv, HeldExists, TypeOK
<1> QED
  BY <1>1, <1>2, <1>4 DEF HInv, TypeOK

(* What a thread can name exists. *)
LEMMA NameableExists ==
  ASSUME HInv, NEW t \in Threads, NEW o \in Nameable(t)
  PROVE  o \in alive \cup {Null}
  BY DEF HInv, HeldExists, Nameable

LEMMA AssignHInv ==
  ASSUME HInv, NEW t \in Threads, NEW v \in Vars, NEW o \in Pointers, Assign(t, v, o)
  PROVE  HInv'
<1>1. o \in alive \cup {Null} /\ UNCHANGED <<args, alive>>
  BY NameableExists DEF Assign
<1>2. \A u \in Threads, w \in Vars : held'[u][w] = held[u][w] \/ held'[u][w] = o
  BY DEF Assign, HInv, TypeOK
<1>3. TypeOK'
  BY DEF HInv, TypeOK, Assign, Pointers
<1> QED
  BY <1>1, <1>2, <1>3 DEF HInv, HeldExists

LEMMA SwapHInv ==
  ASSUME HInv, NEW t \in Threads, NEW v \in Vars, NEW w \in Vars, Swap(t, v, w)
  PROVE  HInv'
<1>1. held' = [held EXCEPT ![t] = [held[t] EXCEPT ![v] = held[t][w], ![w] = held[t][v]]]
  BY DEF Swap, HInv, TypeOK
<1>2. TypeOK'
  BY <1>1 DEF HInv, TypeOK, Swap
<1>3. /\ \A u \in Threads \ {t} : held'[u] = held[u]
      /\ \A x \in Vars : held'[t][x] \in {held[t][y] : y \in Vars}
      /\ UNCHANGED <<args, alive>>
  BY <1>1 DEF Swap, HInv, TypeOK
<1> QED
  BY <1>2, <1>3 DEF HInv, HeldExists

LEMMA GiveHInv ==
  ASSUME HInv, NEW t \in Threads, NEW u \in Threads, t # u,
         NEW v \in Vars, NEW w \in Vars, Give(t, v, u, w)
  PROVE  HInv'
<1>1. held' = [held EXCEPT ![u] = [held[u] EXCEPT ![w] = held[t][v]],
                           ![t] = [held[t] EXCEPT ![v] = Null]]
  BY DEF Give, HInv, TypeOK
<1>2. TypeOK'
  <2>1. held[t][v] \in Pointers /\ Null \in Pointers /\ UNCHANGED <<args, alive>>
    BY DEF HInv, TypeOK, Give, Pointers
  <2>2. held' \in [Threads -> [Vars -> Pointers]]
    BY <1>1, <2>1 DEF HInv, TypeOK
  <2> QED
    BY <2>1, <2>2 DEF HInv, TypeOK
<1>3. /\ \A x \in Threads, y \in Vars : held'[x][y] \in {held[x][y], held[t][v], Null}
      /\ UNCHANGED <<args, alive>>
  BY <1>1 DEF Give, HInv, TypeOK
<1> QED
  BY <1>2, <1>3 DEF HInv, HeldExists

LEMMA CollectHInv ==
  ASSUME HInv, NEW o \in Objs, Collect(o)
  PROVE  HInv' /\ \A p \in alive \cap alive' : args'[p] = args[p]
<1>1. /\ alive' = alive \ {o} /\ UNCHANGED held /\ Unreferenced(o)
      /\ \A p \in Objs \ {o} : args'[p] = args[p]
  BY DEF Collect, HInv, TypeOK
<1>2. TypeOK'
  BY DEF HInv, TypeOK, Collect, NoArgs, Pointers
<1>3. HeldExists'
  BY <1>1 DEF HInv, HeldExists, Unreferenced, TypeOK
<1> QED
  BY <1>1, <1>2, <1>3 DEF HInv, TypeOK

LEMMA StepHInv ==
  ASSUME HInv, [Next]_vars
  PROVE  HInv' /\ \A p \in alive \cap alive' : args'[p] = args[p]
<1>1. CASE UNCHANGED vars
  BY <1>1 DEF vars, HInv, TypeOK, HeldExists
<1>2. ASSUME NEW t \in Threads, NEW v \in Vars, NEW o \in Pointers, Assign(t, v, o)
      PROVE  HInv' /\ UNCHANGED args
  BY <1>2, AssignHInv DEF Assign
<1>3. ASSUME NEW t \in Threads, NEW v \in Vars, NEW w \in Vars, Swap(t, v, w)
      PROVE  HInv' /\ UNCHANGED args
  BY <1>3, SwapHInv DEF Swap
<1>4. ASSUME NEW t \in Threads, NEW u \in Threads, t # u,
             NEW v \in Vars, NEW w \in Vars, Give(t, v, u, w)
      PROVE  HInv' /\ UNCHANGED args
  BY <1>4, GiveHInv DEF Give
<1> QED
  BY <1>1, <1>2, <1>3, <1>4, MakeHInv, CollectHInv DEF Next

-----------------------------------------------------------------------------
(* The theorems.                                                           *)

(* Whatever is held exists: no statement of any thread can leave a         *)
(* variable or an argument of an existing object without its object.       *)
THEOREM HeldObjectsExist == Steps => []HeldExists
<1>1. HInv => HeldExists
  BY DEF HInv
<1> QED
  BY <1>1, InitHInv, StepHInv, PTL DEF Steps

(* Objects are immutable: no step changes an argument of an object that    *)
(* exists before and after it.                                             *)
THEOREM ArgumentsFixed == Steps => ArgsFixed
<1>1. HInv /\ [Next]_vars => [\A o \in alive \cap alive' : args'[o] = args[o]]_vars
  BY StepHInv
<1> QED
  BY <1>1, InitHInv, StepHInv, PTL DEF Steps, ArgsFixed

=============================================================================
