-------------------------------- MODULE Rcp --------------------------------
(***************************************************************************)
(* The intrusive reference counting of src/symengine/symengine_rcp.h, as   *)
(* built with WITH_SYMENGINE_RCP, on a heap of immutable expression nodes. *)
(*                                                                         *)
(* Each RCP<T> is a pointer; an object carries its own counter             *)
(* (EnableRCPFromThis::refcount_) and its arguments are RCP members.  With *)
(* WITH_SYMENGINE_THREAD_SAFE the counter is a std::atomic, so one         *)
(* increment or one decrement-and-test is one step here and everything     *)
(* between two such steps may be interleaved with other threads.  In the   *)
(* default build the counter is a plain integer and the program may only   *)
(* have one thread: that is the instance with a single element in Threads. *)
(*                                                                         *)
(* An RCP variable belongs to one thread (only the counter is              *)
(* synchronised, not the pointer); objects are shared freely.              *)
(***************************************************************************)
EXTENDS Integers, Sequences, FiniteSets, Functions

CONSTANTS
  Threads,      \* the threads of the program
  Vars,         \* the RCP variables each thread owns
  Objs,         \* the addresses an object can be allocated at
  NFields,      \* the number of RCP members of an object
  CounterSize,  \* the counter is an unsigned int: it counts modulo this
  Null          \* nullptr

Fields == 1..NFields
Pointers == Objs \cup {Null}

(* Every place a reference can be in at one time: the variables of the     *)
(* threads, the RCP members of the objects, and the pointer an assignment  *)
(* has counted and not yet stored, one per thread.                         *)
Slots ==
  ({"var"} \X Threads \X Vars)
    \cup ({"field"} \X Objs \X Fields)
    \cup ({"saved"} \X Threads \X {Null})

(* The counter is wide enough for all of them to hold one object.          *)
ASSUME RcpAssumption ==
  /\ IsFiniteSet(Threads) /\ IsFiniteSet(Vars) /\ IsFiniteSet(Objs)
  /\ NFields \in Nat
  /\ Null \notin Objs /\ Null \notin Vars
  /\ CounterSize \in Nat /\ CounterSize > Cardinality(Slots)

VARIABLES
  heap,      \* heap[o]: "free", "building" (its constructor runs), "live",
             \* or "dying" (its destructor runs)
  refcount,  \* refcount[o]: EnableRCPFromThis::refcount_
  field,     \* field[o][k]: the RCP members of o (base_, exp_, dict_ ...)
  var,       \* var[t][v]: RCP<T>::ptr_ of each variable
  pc,        \* what thread t is in the middle of: "idle", "build"
             \* (make_rcp), "copy" (a copy constructor), "assign", "drop"
             \* and "store" (copy assignment; "store" also in reset)
  tmp,       \* the object under construction, or the pointer that is copied
  dst,       \* the variable that the statement writes
  dying      \* dying[t]: the objects whose delete is pending or running in
             \* thread t, the innermost first

vars == <<heap, refcount, field, var, pc, tmp, dst, dying>>

TypeOK ==
  /\ heap \in [Objs -> {"free", "building", "live", "dying"}]
  /\ refcount \in [Objs -> 0..(CounterSize - 1)]
  /\ field \in [Objs -> [Fields -> Pointers]]
  /\ var \in [Threads -> [Vars -> Pointers]]
  /\ pc \in [Threads -> {"idle", "build", "copy", "assign", "drop", "store"}]
  /\ tmp \in [Threads -> Pointers]
  /\ dst \in [Threads -> Vars \cup {Null}]
  /\ dying \in [Threads -> Seq(Objs)]

Init ==
  /\ heap = [o \in Objs |-> "free"]
  /\ refcount = [o \in Objs |-> 0]
  /\ field = [o \in Objs |-> [k \in Fields |-> Null]]
  /\ var = [t \in Threads |-> [v \in Vars |-> Null]]
  /\ pc = [t \in Threads |-> "idle"]
  /\ tmp = [t \in Threads |-> Null]
  /\ dst = [t \in Threads |-> Null]
  /\ dying = [t \in Threads |-> <<>>]

-----------------------------------------------------------------------------

(* The pointers an RCP expression of thread t can copy from: its own       *)
(* variables, and the RCP members of the objects these hold (get_base(),   *)
(* get_args(), ...), which it reads without any synchronisation.           *)
Sources(t) ==
  {var[t][v] : v \in Vars}
    \cup {field[o][k] : o \in {var[t][v] : v \in Vars} \ {Null}, k \in Fields}

(* if (not is_null()) (ptr_->refcount_)++                                  *)
Increment(p) ==
  refcount' = IF p = Null THEN refcount
              ELSE [refcount EXCEPT ![p] = (@ + 1) % CounterSize]

(* Slips that the runs must notice: the test reads the old value of the    *)
(* counter, allows one owner to be left, or forgets nullptr.               *)
DecrementOldValue(t, p) ==
  IF p = Null THEN UNCHANGED <<refcount, dying>>
  ELSE /\ refcount' = [refcount EXCEPT ![p] = (@ - 1) % CounterSize]
       /\ dying' = IF refcount[p] = 0 THEN [dying EXCEPT ![t] = <<p>> \o @] ELSE dying

DecrementEarlyDelete(t, p) ==
  IF p = Null THEN UNCHANGED <<refcount, dying>>
  ELSE LET left == (refcount[p] - 1) % CounterSize IN
       /\ refcount' = [refcount EXCEPT ![p] = left]
       /\ dying' = IF left <= 1 THEN [dying EXCEPT ![t] = <<p>> \o @] ELSE dying

DecrementNullToo(t, p) ==
  IF p = Null THEN /\ dying' = [dying EXCEPT ![t] = <<p>> \o @]
                   /\ UNCHANGED refcount
  ELSE LET left == (refcount[p] - 1) % CounterSize IN
       /\ refcount' = [refcount EXCEPT ![p] = left]
       /\ dying' = IF left = 0 THEN [dying EXCEPT ![t] = <<p>> \o @] ELSE dying

(* if (not is_null() and --(ptr_->refcount_) == 0) delete ptr_             *)
(* The delete itself is BeginDelete and the steps after it.                *)
Decrement(t, p) ==
  IF p = Null THEN UNCHANGED <<refcount, dying>>
  ELSE LET left == (refcount[p] - 1) % CounterSize IN
       /\ refcount' = [refcount EXCEPT ![p] = left]
       /\ dying' = IF left = 0 THEN [dying EXCEPT ![t] = <<p>> \o @] ELSE dying

(* A thread starts a statement only when it is not in the middle of one.   *)
Idle(t) == pc[t] = "idle"

-----------------------------------------------------------------------------

(* make_rcp<T>(args...): new T runs T's constructor, which copies the      *)
(* arguments into RCP members one after the other (each copy constructor   *)
(* increments a counter), then rcp(p) takes the first reference.           *)
New(t, v, o) ==
  /\ Idle(t) /\ var[t][v] = Null
  /\ heap[o] = "free"
  /\ heap' = [heap EXCEPT ![o] = "building"]
  /\ refcount' = [refcount EXCEPT ![o] = 0]
  /\ tmp' = [tmp EXCEPT ![t] = o]
  /\ dst' = [dst EXCEPT ![t] = v]
  /\ pc' = [pc EXCEPT ![t] = "build"]
  /\ UNCHANGED <<field, var, dying>>

(* A slip: the constructor keeps the raw pointer without counting it.      *)
BuildFieldUncounted(t, k, v) ==
  /\ pc[t] = "build" /\ var[t][v] # Null
  /\ field[tmp[t]][k] = Null
  /\ \A j \in 1..(k - 1) : field[tmp[t]][j] # Null
  /\ field' = [field EXCEPT ![tmp[t]][k] = var[t][v]]
  /\ UNCHANGED <<heap, refcount, var, pc, tmp, dst, dying>>

(* The copy constructor of a member reads a variable that no other thread  *)
(* writes: read and count are one step here, and two in CopyConstruct.     *)
BuildField(t, k, v) ==
  /\ pc[t] = "build" /\ var[t][v] # Null
  /\ field[tmp[t]][k] = Null
  /\ \A j \in 1..(k - 1) : field[tmp[t]][j] # Null
  /\ field' = [field EXCEPT ![tmp[t]][k] = var[t][v]]
  /\ Increment(var[t][v])
  /\ UNCHANGED <<heap, var, pc, tmp, dst, dying>>

Publish(t) ==
  /\ pc[t] = "build"
  /\ Increment(tmp[t])
  /\ heap' = [heap EXCEPT ![tmp[t]] = "live"]
  /\ var' = [var EXCEPT ![t][dst[t]] = tmp[t]]
  /\ tmp' = [tmp EXCEPT ![t] = Null]
  /\ dst' = [dst EXCEPT ![t] = Null]
  /\ pc' = [pc EXCEPT ![t] = "idle"]
  /\ UNCHANGED <<field, dying>>

(* RCP(const RCP &), and rcp_from_this(), which counts a raw pointer to an *)
(* object the caller holds: the pointer is read first ...                  *)
CopyConstruct(t, v, p) ==
  /\ Idle(t) /\ var[t][v] = Null
  /\ p \in Sources(t) \ {Null}
  /\ tmp' = [tmp EXCEPT ![t] = p]
  /\ dst' = [dst EXCEPT ![t] = v]
  /\ pc' = [pc EXCEPT ![t] = "copy"]
  /\ UNCHANGED <<heap, refcount, field, var, dying>>

(* ... and then counted; until then only its source keeps the object.      *)
CountCopy(t) ==
  /\ pc[t] = "copy"
  /\ Increment(tmp[t])
  /\ var' = [var EXCEPT ![t][dst[t]] = tmp[t]]
  /\ tmp' = [tmp EXCEPT ![t] = Null]
  /\ dst' = [dst EXCEPT ![t] = Null]
  /\ pc' = [pc EXCEPT ![t] = "idle"]
  /\ UNCHANGED <<heap, field, dying>>

(* A slip: the old object is dropped with r_ptr not yet counted.           *)
CopyAssignDropFirst(t, v, p) ==
  /\ Idle(t)
  /\ p \in Sources(t)
  /\ tmp' = [tmp EXCEPT ![t] = p]
  /\ dst' = [dst EXCEPT ![t] = v]
  /\ pc' = [pc EXCEPT ![t] = "drop"]
  /\ UNCHANGED <<heap, refcount, field, var, dying>>

(* operator=(const RCP &r_ptr): save r_ptr's pointer, count it, drop the   *)
(* old object, then write.  r_ptr may be the variable itself, or a member  *)
(* of the very object that is dropped.                                     *)
CopyAssign(t, v, p) ==
  /\ Idle(t)
  /\ p \in Sources(t)
  /\ tmp' = [tmp EXCEPT ![t] = p]
  /\ dst' = [dst EXCEPT ![t] = v]
  /\ pc' = [pc EXCEPT ![t] = "assign"]
  /\ UNCHANGED <<heap, refcount, field, var, dying>>

CountAssign(t) ==
  /\ pc[t] = "assign"
  /\ Increment(tmp[t])
  /\ pc' = [pc EXCEPT ![t] = "drop"]
  /\ UNCHANGED <<heap, field, var, tmp, dst, dying>>

DropOld(t) ==
  /\ pc[t] = "drop"
  /\ Decrement(t, var[t][dst[t]])
  /\ pc' = [pc EXCEPT ![t] = "store"]
  /\ UNCHANGED <<heap, field, var, tmp, dst>>

(* reset() and ~RCP(): the same drop, then ptr_ = nullptr.                 *)
Reset(t, v) ==
  /\ Idle(t) /\ var[t][v] # Null
  /\ Decrement(t, var[t][v])
  /\ dst' = [dst EXCEPT ![t] = v]
  /\ pc' = [pc EXCEPT ![t] = "store"]
  /\ UNCHANGED <<heap, field, var, tmp>>

(* ptr_ = r_ptr_ptr_, once the delete (if there was one) has returned.     *)
Store(t) ==
  /\ pc[t] = "store" /\ dying[t] = <<>>
  /\ var' = [var EXCEPT ![t][dst[t]] = tmp[t]]
  /\ tmp' = [tmp EXCEPT ![t] = Null]
  /\ dst' = [dst EXCEPT ![t] = Null]
  /\ pc' = [pc EXCEPT ![t] = "idle"]
  /\ UNCHANGED <<heap, refcount, field, dying>>

(* operator=(RCP &&) swaps the two pointers; into an empty variable this   *)
(* is also RCP(RCP &&).  Nothing is counted.                               *)
MoveAssign(t, v, w) ==
  /\ Idle(t) /\ v # w
  /\ var' = [var EXCEPT ![t][v] = var[t][w], ![t][w] = var[t][v]]
  /\ UNCHANGED <<heap, refcount, field, pc, tmp, dst, dying>>

(* A pointer moved to another thread through a synchronised channel (a     *)
(* std::thread argument, a queue): RCP(RCP &&) again.                      *)
HandOver(t, v, u, w) ==
  /\ Idle(t) /\ Idle(u) /\ t # u
  /\ var[t][v] # Null /\ var[u][w] = Null
  /\ var' = [var EXCEPT ![u][w] = var[t][v], ![t][v] = Null]
  /\ UNCHANGED <<heap, refcount, field, pc, tmp, dst, dying>>

-----------------------------------------------------------------------------

(* delete ptr_: the destructor runs ~RCP() of every member, the last one   *)
(* first, each of which may delete in turn; then the memory is freed.      *)
BeginDelete(t) ==
  /\ dying[t] # <<>> /\ heap[Head(dying[t])] = "live"
  /\ heap' = [heap EXCEPT ![Head(dying[t])] = "dying"]
  /\ UNCHANGED <<refcount, field, var, pc, tmp, dst, dying>>

(* A slip: the member is cleared without dropping its reference.           *)
DestroyFieldKeep(t, k) ==
  /\ dying[t] # <<>> /\ heap[Head(dying[t])] = "dying"
  /\ field[Head(dying[t])][k] # Null
  /\ \A j \in Fields : j > k => field[Head(dying[t])][j] = Null
  /\ field' = [field EXCEPT ![Head(dying[t])][k] = Null]
  /\ UNCHANGED <<heap, refcount, var, pc, tmp, dst, dying>>

DestroyField(t, k) ==
  /\ dying[t] # <<>> /\ heap[Head(dying[t])] = "dying"
  /\ field[Head(dying[t])][k] # Null
  /\ \A j \in Fields : j > k => field[Head(dying[t])][j] = Null
  /\ field' = [field EXCEPT ![Head(dying[t])][k] = Null]
  /\ Decrement(t, field[Head(dying[t])][k])
  /\ UNCHANGED <<heap, var, pc, tmp, dst>>

Free(t) ==
  /\ dying[t] # <<>> /\ heap[Head(dying[t])] = "dying"
  /\ \A k \in Fields : field[Head(dying[t])][k] = Null
  /\ heap' = [heap EXCEPT ![Head(dying[t])] = "free"]
  /\ dying' = [dying EXCEPT ![t] = Tail(@)]
  /\ UNCHANGED <<refcount, field, var, pc, tmp, dst>>

-----------------------------------------------------------------------------

(* A statement of thread t begins ...                                      *)
Start(t) ==
  \/ \E v \in Vars, o \in Objs : New(t, v, o)
  \/ \E v \in Vars, p \in Objs : CopyConstruct(t, v, p)
  \/ \E v \in Vars, p \in Pointers : CopyAssign(t, v, p)
  \/ \E v \in Vars : Reset(t, v)
  \/ \E v, w \in Vars : MoveAssign(t, v, w)
  \/ \E v, w \in Vars, u \in Threads : HandOver(t, v, u, w)

(* ... and once begun it runs on its own to its end.                       *)
Continue(t) ==
  \/ \E k \in Fields, v \in Vars : BuildField(t, k, v)
  \/ Publish(t)
  \/ CountCopy(t)
  \/ CountAssign(t)
  \/ DropOld(t)
  \/ BeginDelete(t)
  \/ \E k \in Fields : DestroyField(t, k)
  \/ Free(t)
  \/ Store(t)

Next == \E t \in Threads : Start(t) \/ Continue(t)

(* A running thread finishes the statement it is in: the operating system  *)
(* schedules it.  Nothing obliges a program to start another one.          *)
Spec == Init /\ [][Next]_vars /\ \A t \in Threads : WF_vars(Continue(t))

-----------------------------------------------------------------------------
(* Properties.                                                             *)

(* A variable whose old pointer has been dropped and not yet overwritten.  *)
Stale(t, v) == pc[t] = "store" /\ dst[t] = v

(* A thread has read a pointer into tmp and has not counted it yet.        *)
Uncounted(t) == pc[t] \in {"copy", "assign"}

(* The object each place refers to, if its reference is one that counts.   *)
Target ==
  [s \in Slots |->
     CASE s[1] = "var"   -> IF Stale(s[2], s[3]) THEN Null ELSE var[s[2]][s[3]]
       [] s[1] = "field" -> field[s[2]][s[3]]
       [] s[1] = "saved" -> IF pc[s[2]] = "build" \/ Uncounted(s[2])
                              THEN Null ELSE tmp[s[2]]]

Refs(o) == {s \in Slots : Target[s] = o}

(* The counter of an object is the number of references to it, after every *)
(* single memory access of every thread: no increment or decrement of the  *)
(* RCP operators is lost, doubled or put on the wrong object.              *)
CountExact == \A o \in Objs : refcount[o] = Cardinality(Refs(o))

(* No pointer dangles: whatever a variable, a member of an object or a     *)
(* half-done assignment refers to has not begun to be destroyed, even      *)
(* while other threads drop their references to it (x = x->get_arg() and   *)
(* x = x included); and an object whose pointer has been read but not yet  *)
(* counted (symengine_rcp.h:117, :185) is kept by another reference.       *)
NoDangling ==
  /\ \A o \in Objs : Refs(o) # {} => heap[o] = "live"
  /\ \A t \in Threads :
       Uncounted(t) /\ tmp[t] # Null => Refs(tmp[t]) # {}

(* The objects whose destructors are pending or running in thread t.       *)
Deleting(t) == Range(dying[t])

(* An object is deleted by exactly one thread, once: it is on one stack    *)
(* of destructors at one place as long as it is destroyed, and an object   *)
(* without references is on its way to be freed by someone.                *)
DestroyedOnce ==
  /\ \A t \in Threads : IsInjective(dying[t])
  /\ \A t, u \in Threads : t # u => Deleting(t) \cap Deleting(u) = {}
  /\ \A o \in Objs :
       (\E t \in Threads : o \in Deleting(t))
         <=> (heap[o] = "dying" \/ (heap[o] = "live" /\ Refs(o) = {}))

(* The pointers in T and in the members of what they point to.             *)
Onward(T) == T \cup {field[o][k] : o \in T \ {Null}, k \in Fields}

(* The objects there is a path of members to from the pointers in S: a     *)
(* path has at most as many steps as there are objects.                    *)
Reach(S) ==
  LET step[n \in 0..Cardinality(Objs)] ==
        IF n = 0 THEN S ELSE Onward(step[n - 1])
  IN step[Cardinality(Objs)] \ {Null}

(* When every thread is between two statements, the objects in memory are  *)
(* exactly those the program can still reach: nothing leaks.               *)
NoLeak ==
  (\A t \in Threads : Idle(t)) =>
    {o \in Objs : heap[o] # "free"}
      = Reach({var[t][v] : t \in Threads, v \in Vars})

(* Every object that loses its last reference is eventually freed, and     *)
(* with it the objects only it was holding.                                *)
EventuallyFreed ==
  \A o \in Objs : (heap[o] = "live" /\ Refs(o) = {}) ~> (heap[o] = "free")

-----------------------------------------------------------------------------
(* The counted heap implements the shared heap.  A half-done assignment    *)
(* has happened as soon as the old pointer is dropped; an object exists    *)
(* from its publication until its destructor begins.                       *)
Held ==
  [t \in Threads |-> [v \in Vars |-> IF Stale(t, v) THEN tmp[t] ELSE var[t][v]]]
Args ==
  [o \in Objs |-> IF heap[o] = "live" THEN field[o] ELSE [k \in Fields |-> Null]]
Alive == {o \in Objs : heap[o] = "live"}

Heap == INSTANCE SharedHeap WITH held <- Held, args <- Args, alive <- Alive

ImplementsSharedHeap == Heap!Spec

=============================================================================
